---------------------------- MODULE ActorStates ----------------------------
(***************************************************************************)
(* What the scheduler promises an actor's program, without its arrays.  An *)
(* actor is runnable, waits for a message it does not have, or is parked   *)
(* on a request the kernel owes it an answer to; a message makes a waiting *)
(* actor runnable, only its answer makes a parked one runnable, and only a *)
(* runnable actor does anything.  One that parks without a request is owed *)
(* nothing and sleeps for ever.                                            *)
(***************************************************************************)
EXTENDS Naturals

CONSTANT Actors

VARIABLES
    status,     \* actor -> dead, runnable, waiting or parked
    unread,     \* actor -> messages it has not taken
    owed        \* the actors with a request under way

vars == << status, unread, owed >>

Init ==
    /\ status = [a \in Actors |-> "dead"]
    /\ unread = [a \in Actors |-> 0]
    /\ owed = {}

Spawn(a) ==
    /\ status[a] = "dead"
    /\ status' = [status EXCEPT ![a] = "runnable"]
    /\ unread' = [unread EXCEPT ![a] = 0]
    /\ UNCHANGED owed

Die(a) ==
    /\ status[a] = "runnable"
    /\ status' = [status EXCEPT ![a] = "dead"]
    /\ unread' = [unread EXCEPT ![a] = 0]
    /\ UNCHANGED owed

Deliver(a, n) ==
    /\ status[a] # "dead"
    /\ status' = [status EXCEPT ![a] = IF @ = "waiting" THEN "runnable" ELSE @]
    /\ unread' = [unread EXCEPT ![a] = @ + n]
    /\ UNCHANGED owed

Take(a) ==
    /\ status[a] = "runnable"
    /\ unread[a] > 0
    /\ unread' = [unread EXCEPT ![a] = @ - 1]
    /\ UNCHANGED << status, owed >>

Block(a) ==
    /\ status[a] = "runnable"
    /\ unread[a] = 0
    /\ status' = [status EXCEPT ![a] = "waiting"]
    /\ UNCHANGED << unread, owed >>

Park(a) ==
    /\ status[a] = "runnable"
    /\ status' = [status EXCEPT ![a] = "parked"]
    /\ owed' = owed \cup {a}
    /\ UNCHANGED unread

Sleep(a) ==
    /\ status[a] = "runnable"
    /\ status' = [status EXCEPT ![a] = "parked"]
    /\ UNCHANGED << unread, owed >>

Unpark(a) ==
    /\ status[a] = "parked"
    /\ a \in owed
    /\ status' = [status EXCEPT ![a] = "runnable"]
    /\ owed' = owed \ {a}
    /\ UNCHANGED unread

Next ==
    \E a \in Actors :
        \/ Spawn(a) \/ Die(a)
        \/ \E n \in {0, 1} : Deliver(a, n)
        \/ Take(a) \/ Block(a)
        \/ Park(a) \/ Sleep(a) \/ Unpark(a)

Spec == Init /\ [][Next]_vars
=============================================================================
