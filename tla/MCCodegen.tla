------------------------------ MODULE MCCodegen ------------------------------
(* What the compiler makes of calls, statements and loops, for TLC.         *)
(* The parts share nothing and are explored one after the other.            *)
EXTENDS Guards, BranchBlocks, Unroll

VARIABLE part

-----------------------------------------------------------------------------
(* Guards: strings A and C share hash and length, A and D only the hash.    *)
(* Two positions of numbers, of strings, of each, and one that mixes both.  *)
(* In Shadowed the position found best may be the one whose hashes collide. *)
CONSTANTS strA, strB, strC, strD
SomeInts == 0 .. 2
SomeStrs == { strA, strB, strC, strD }
Hashes == [ s \in SomeStrs |-> IF s = strB THEN 2 ELSE 1 ]
Lengths == [ s \in SomeStrs |-> IF s = strD THEN 2 ELSE 1 ]

Numbers == << {0, 1}, {0, 1} >>
Strings == << {strA, strB}, {strA, strB} >>
Colliding == << {strA, strB, strC} >>
Both == << {0, 1}, {strA, strB} >>
Shadowed == << {strA, strC}, {strA, strB} >>
Mixed == << {0, strA} >>

AllSignatures == { Numbers, Strings, Colliding, Both, Shadowed, Mixed }
CallArgs == [ s \in AllSignatures |->
    IF s = Numbers THEN SomeInts \X SomeInts
    ELSE IF s \in {Strings, Shadowed} THEN SomeStrs \X SomeStrs
    ELSE IF s = Colliding THEN { << x >> : x \in SomeStrs }
    ELSE IF s = Both THEN SomeInts \X SomeStrs
    ELSE {} ]

(* Unroll: two parameters, one of which the condition looks at.             *)
LoopsOfTwo ==
    [ params : {2}, let : 0 .. 1, store : {2},
      self_key : {"true", "false", "_"}, exit_key : {"true", "false", "_"},
      args : [ 0 .. 1 -> [from : 0 .. 2, plus : {0, 2}] ] ]

-----------------------------------------------------------------------------
SomeLoop == CHOOSE l \in LoopsOfTwo : Detected(l)

Init ==
    /\ part \in {"guards", "blocks", "unroll"}
    /\ part = "guards" \/ sig = Numbers
    /\ GuardInit
    /\ part = "blocks" \/ stack = << List("branch", 1) >>
    /\ BlockInit
    /\ \/ part = "unroll"
       \/ /\ loop = SomeLoop /\ factor = 2 /\ quantum_var = 1
          /\ variables = [ i \in 0 .. 1 |-> 0 ]
    /\ UnrollInit

GuardStep ==
    /\ part = "guards" /\ GuardNext
    /\ UNCHANGED << part, blockVars, unrollVars >>
BlockStep ==
    /\ part = "blocks" /\ BlockNext
    /\ UNCHANGED << part, guardVars, unrollVars >>
UnrollStep ==
    /\ part = "unroll" /\ UnrollNext
    /\ UNCHANGED << part, guardVars, blockVars >>

Next == GuardStep \/ BlockStep \/ UnrollStep

codegenVars == << part, guardVars, blockVars, unrollVars >>
Spec == Init /\ [][Next]_codegenVars
=============================================================================
