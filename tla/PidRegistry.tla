---------------------------- MODULE PidRegistry ----------------------------
(***************************************************************************)
(* What the pid table promises: a spawn issues a pid that was never issued *)
(* before, the pid resolves to the new actor until that actor dies, and    *)
(* from then on it resolves to nothing, whatever slots and addresses are   *)
(* recycled meanwhile.                                                     *)
(***************************************************************************)
CONSTANTS Actors, NoActor, AllPids

VARIABLE resolve    \* every pid ever issued -> the actor a send reaches

Init == resolve = << >>

Reached == { resolve[p] : p \in DOMAIN resolve }

Spawn(a, p) ==
    /\ a \notin Reached
    /\ p \notin DOMAIN resolve
    /\ resolve' = [q \in DOMAIN resolve \cup {p} |->
                     IF q = p THEN a ELSE resolve[q]]

Die(p) ==
    /\ resolve[p] # NoActor
    /\ resolve' = [resolve EXCEPT ![p] = NoActor]

Next ==
    \/ \E a \in Actors, p \in AllPids : Spawn(a, p)
    \/ \E p \in DOMAIN resolve : Die(p)

Spec == Init /\ [][Next]_resolve
=============================================================================
