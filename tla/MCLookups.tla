----------------------------- MODULE MCLookups ------------------------------
(* How a program finds what it names, for TLC: an actor by its pid, the     *)
(* message a wait asks for, a string literal by a perfect hash.  The parts  *)
(* share nothing and are explored one after the other.                      *)
EXTENDS PidLifecycle, Mailbox, Mphf

VARIABLE part

(* PidTable: each new entry of a grown table reads as the last generation   *)
(* that fits a pid, so that the next one does not, or as all ones, from     *)
(* which counting starts at zero.  What a first table does is to count from *)
(* zero.                                                                    *)
OldWords == [gen : {GenMod - 1, WordMod - 1}, ctx : {NoActor}]

(* Mailbox: a wait for any message, for p1's, one that branches on p1.      *)
CONSTANTS p1, p2
Wildcard(n) == [guard |-> NoWord, binds |-> n]
Literal(g) == [guard |-> g, binds |-> 0]
SomeWaits ==
    { [filter |-> {},   handlers |-> {Wildcard(Arity)}],
      [filter |-> {p1}, handlers |-> {Wildcard(Arity)}],
      [filter |-> {},   handlers |-> {Literal(p1), Wildcard(Arity)}] }

(* Mphf: words of four bits, keys that collide under some seeds and not     *)
(* others.                                                                  *)
FewSeeds == << 2, 2, 3, 6 >>
SomeWords == { 0, 1, 2, 5, 8, 15 }

-----------------------------------------------------------------------------
AnyMessage == [filter |-> {}, handlers |-> {Wildcard(Arity)}]

Init ==
    /\ part \in {"pids", "mailbox", "hash"}
    /\ LifeInit
    /\ part = "mailbox" \/ wait = AnyMessage
    /\ MailInit
    /\ part = "hash" \/ keys = << 0 >>
    /\ HashInit

PidStep ==
    /\ part = "pids" /\ LifeNext
    /\ UNCHANGED << part, mailVars, hashVars >>
MailStep ==
    /\ part = "mailbox" /\ MailNext
    /\ UNCHANGED << part, lifeVars, hashVars >>
HashStep ==
    /\ part = "hash" /\ HashNext
    /\ UNCHANGED << part, lifeVars, mailVars >>

Next == PidStep \/ MailStep \/ HashStep

lookupVars == << part, lifeVars, mailVars, hashVars >>
Spec ==
    /\ Init /\ [][Next]_lookupVars
    /\ WF_lookupVars(HashStep)

(* Mphf's SearchEnds, while it is the search that is explored.              *)
HashSearchEnds == part = "hash" => SearchEnds
=============================================================================
