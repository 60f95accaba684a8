---------------------------- MODULE MCScheduler ----------------------------
(* Scheduler for TLC: all addresses but main's are interchangeable.         *)
EXTENDS Scheduler, TLC

(* PidTable: what a grown array holds behind the copied entries reads as a  *)
(* generation of all ones and as main's address, the one that is not        *)
(* interchangeable with the others.                                         *)
OldWords == { [gen |-> WordMod - 1, ctx |-> Main] }

OtherActors == Permutations(Actors \ {Main})
=============================================================================
