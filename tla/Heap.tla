-------------------------------- MODULE Heap --------------------------------
(***************************************************************************)
(* What an allocator promises its callers, whichever build of it is linked: *)
(* a block handed out overlaps no block that is still held, and a block     *)
(* stays as it is until it is given back.                                   *)
(***************************************************************************)
EXTENDS Integers, FiniteSets

VARIABLES
    held,       \* the blocks held, each [at |-> address, len |-> bytes]
    count       \* how many were handed out and not given back

Disjoint(b, c) == b.at + b.len <= c.at \/ c.at + c.len <= b.at

Init == held = {} /\ count = 0

(* One call may hand out two blocks: rt_allocate wraps its block in a tuple,*)
(* which is a block of its own when the arena has no room for it.           *)
Allocate ==
    LET new == held' \ held
    IN  /\ held \subseteq held'
        /\ count' = count + Cardinality(new)
        /\ \A b \in new, c \in held' : b # c => Disjoint(b, c)

Free == /\ \E b \in held : held' = held \ {b}
        /\ count' = count - 1

Next == Allocate \/ Free

Spec == Init /\ [][Next]_<< held, count >>
=============================================================================
