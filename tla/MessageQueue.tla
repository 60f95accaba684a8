---------------------------- MODULE MessageQueue ----------------------------
(***************************************************************************)
(* What a mailbox promises: messages arrive whole and in the order they    *)
(* were sent; a receiver takes the oldest, or discards it because it is    *)
(* not one the receiver waits for.                                         *)
(***************************************************************************)
EXTENDS Sequences

CONSTANT Messages

VARIABLES queue, received

Init == queue = << >> /\ received = << >>

Send == \E m \in Messages : queue' = Append(queue, m) /\ UNCHANGED received

Receive ==
    /\ queue # << >>
    /\ received' = Head(queue)
    /\ queue' = Tail(queue)

Discard == queue # << >> /\ queue' = Tail(queue) /\ UNCHANGED received

Spec == Init /\ [][Send \/ Receive \/ Discard]_<< queue, received >>
=============================================================================
