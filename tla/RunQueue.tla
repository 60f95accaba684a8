------------------------------ MODULE RunQueue ------------------------------
(***************************************************************************)
(* The three places the scheduler context keeps a living actor in:         *)
(*   process_arr  the runnable actors, at indices 0 .. last_process_index; *)
(*   wait_arr     the pids blocked in a `wait', at 1 .. last_waited;       *)
(*   io_parked    the actors whose I/O request the kernel holds.           *)
(* Sources: src/src/compiler/rt/layout/sheduler_ctx.rs and                 *)
(* src/src/compiler/rt/funcs/io_uring.rs.                                  *)
(*                                                                         *)
(* Each operation below is an action over the variables of this module;    *)
(* Scheduler composes them.  The entries of io_parked beyond its count are *)
(* never read, so it is a sequence; process_arr and wait_arr are functions *)
(* on their whole capacity, which shows growth and the slots left behind.  *)
(***************************************************************************)
EXTENDS PidTable

VARIABLES
    process_arr,         \* index -> ProcessCtx address
    process_cap,         \* PROCESS_ARR_CAP
    current_process,     \* CURRENT_PROCESS
    last_process_index,  \* LAST_PROCESS_INDEX, -1 when nothing is runnable
    real_count,          \* REAL_COUNT_OF_PROCESSES
    wait_arr,            \* index -> pid
    wait_cap,            \* WAIT_ARR_CAP
    last_waited,         \* LAST_WAITED_PROCESS_INDEX
    waited_count,        \* WAITED_PROCESS_COUNT
    io_parked,           \* the first IO_PARKED_COUNT entries
    io_parked_idx        \* actor -> ProcessCtx.IO_PARKED_IDX

runVars  == << process_arr, process_cap, current_process,
               last_process_index, real_count >>
waitVars == << wait_arr, wait_cap, last_waited, waited_count >>
parkVars == << io_parked, io_parked_idx >>
queueVars == << runVars, waitVars, parkVars >>

RunQueueInit ==
    /\ process_arr = [i \in 0 .. QueueCap - 1 |-> NoActor]
    /\ process_cap = QueueCap
    /\ current_process = 0
    /\ last_process_index = 0
    /\ real_count = 0
    /\ wait_arr = [i \in 0 .. QueueCap - 1 |-> NoPid]
    /\ wait_cap = QueueCap
    /\ last_waited = 0
    /\ waited_count = 0
    /\ io_parked = << >>
    /\ io_parked_idx = [a \in Actors |-> 0]

CurrentActor == process_arr[current_process]

-----------------------------------------------------------------------------
(* new_process: append to process_arr, growing it when it is full into a    *)
(* block with whatever addresses were there before.                         *)
NewProcess(a) ==
    LET next == last_process_index + 1
    IN  /\ \E fill \in [Uncopied(process_cap, next) -> { w.ctx : w \in Leftovers }] :
              process_arr' = [Grown(process_arr, process_cap, next, fill)
                                EXCEPT ![next] = a]
        /\ process_cap' = GrownCap(process_cap, next)
        /\ last_process_index' = next
        /\ real_count' = real_count + 1
        /\ UNCHANGED current_process

(* remove_current_process: the last entry moves into the vacated index and  *)
(* runs next, unless the vacated index was itself the last.                 *)
RemoveCurrentKeepingIndex ==                    \* broken: index past the end
    /\ process_arr' = [process_arr EXCEPT
                         ![current_process] = process_arr[last_process_index],
                         ![last_process_index] = NoActor]
    /\ last_process_index' = last_process_index - 1
    /\ real_count' = real_count - 1
    /\ UNCHANGED << process_cap, current_process >>
RemoveCurrent ==
    /\ process_arr' = [process_arr EXCEPT
                         ![current_process] = process_arr[last_process_index],
                         ![last_process_index] = NoActor]
    /\ last_process_index' = last_process_index - 1
    /\ real_count' = real_count - 1
    /\ current_process' = IF current_process = last_process_index
                          THEN 0 ELSE current_process
    /\ UNCHANGED process_cap

(* next_process: round robin.                                               *)
NextProcessSkippingLast ==                      \* broken: wraps one early
    /\ current_process' = IF last_process_index <= current_process + 1
                          THEN 0 ELSE current_process + 1
    /\ UNCHANGED << process_arr, process_cap, last_process_index, real_count >>
NextProcess ==
    /\ current_process' = IF last_process_index < current_process + 1
                          THEN 0 ELSE current_process + 1
    /\ UNCHANGED << process_arr, process_cap, last_process_index, real_count >>

-----------------------------------------------------------------------------
(* wait_current_process: append the actor's own pid to wait_arr, which      *)
(* grows the same way (an old word may well read as the pid of slot 1).     *)
(* The caller then removes the actor from process_arr.                      *)
WaitCurrent ==
    LET next == last_waited + 1
    IN  /\ \E fill \in [Uncopied(wait_cap, next) -> { Pid(w.gen, 1) : w \in Leftovers }] :
              wait_arr' = [Grown(wait_arr, wait_cap, next, fill)
                             EXCEPT ![next] = own_pid[CurrentActor]]
        /\ wait_cap' = GrownCap(wait_cap, next)
        /\ last_waited' = next
        /\ waited_count' = waited_count + 1

(* wake_process: scan wait_arr from index 0; on a match swap-remove it and  *)
(* append the actor its pid resolves to.  A pid that is not there is left   *)
(* alone: its actor is runnable and finds the message in its mailbox.       *)
WakeNoneSkippingLast(pid) ==                    \* broken: misses the last entry
    \A i \in 0 .. last_waited - 1 : wait_arr[i] # pid
WakeNone(pid) == \A i \in 0 .. last_waited : wait_arr[i] # pid

WakeFoundLeavingEntry(i, pid) ==                \* broken: stays in wait_arr
    /\ wait_arr[i] = pid
    /\ UNCHANGED waitVars
    /\ IF LookupProcCtx(pid) # NoActor
       THEN NewProcess(LookupProcCtx(pid))
       ELSE UNCHANGED runVars
WakeFoundAt(i, pid) ==
    /\ wait_arr[i] = pid
    /\ \A j \in 0 .. i - 1 : wait_arr[j] # pid
    /\ wait_arr' = [wait_arr EXCEPT ![i] = wait_arr[last_waited],
                                    ![last_waited] = NoPid]
    /\ last_waited' = last_waited - 1
    /\ waited_count' = waited_count - 1
    /\ UNCHANGED wait_cap
    /\ IF LookupProcCtx(pid) # NoActor
       THEN NewProcess(LookupProcCtx(pid))
       ELSE UNCHANGED runVars

Wake(pid) ==
    IF WakeNone(pid)
    THEN UNCHANGED << runVars, waitVars >>
    ELSE \E i \in 0 .. last_waited : WakeFoundAt(i, pid)

-----------------------------------------------------------------------------
(* rt_io_park_current: swap-and-pop out of process_arr, without clearing    *)
(* the popped entry and with CURRENT_PROCESS reset to 0 in every case, then *)
(* append to io_parked, which the code never grows and which is unbounded   *)
(* here.                                                                    *)
ParkCurrent ==
    LET a == CurrentActor
    IN  /\ process_arr' = [process_arr EXCEPT
                             ![current_process] = process_arr[last_process_index]]
        /\ last_process_index' = last_process_index - 1
        /\ real_count' = real_count - 1
        /\ current_process' = 0
        /\ io_parked' = Append(io_parked, a)
        /\ io_parked_idx' = [io_parked_idx EXCEPT ![a] = Len(io_parked)]
        /\ UNCHANGED process_cap

(* emit_wake_by_user_data: swap-and-pop out of io_parked at the index the   *)
(* actor carries, tell the moved actor its new index, and append to         *)
(* process_arr without a growth check (see WakeFitsQueue): past the end of  *)
(* the buffer the store lands in memory that is not the array's.            *)
StoredPastLast(a) ==
    LET next == last_process_index + 1
    IN  [i \in DOMAIN process_arr \cup {next} |->
           IF i = next THEN a ELSE process_arr[i]]

WakeParkedStaleIndex(a) ==                      \* broken: moved actor not told
    LET m    == io_parked_idx[a]
        last == Len(io_parked) - 1
    IN  /\ io_parked' = SubSeq([io_parked EXCEPT ![m + 1] = io_parked[last + 1]],
                               1, last)
        /\ process_arr' = StoredPastLast(a)
        /\ last_process_index' = last_process_index + 1
        /\ real_count' = real_count + 1
        /\ UNCHANGED << process_cap, current_process, io_parked_idx >>
WakeParked(a) ==
    LET m     == io_parked_idx[a]
        last  == Len(io_parked) - 1
        moved == io_parked[last + 1]
    IN  /\ io_parked' = SubSeq([io_parked EXCEPT ![m + 1] = moved], 1, last)
        /\ io_parked_idx' = IF m = last THEN io_parked_idx
                            ELSE [io_parked_idx EXCEPT ![moved] = m]
        /\ process_arr' = StoredPastLast(a)
        /\ last_process_index' = last_process_index + 1
        /\ real_count' = real_count + 1
        /\ UNCHANGED << process_cap, current_process >>

-----------------------------------------------------------------------------
(* Where an actor is, read off the live part of each array.                 *)
RunAt(a)  == { i \in 0 .. last_process_index : process_arr[i] = a }
WaitAt(a) == { i \in 1 .. last_waited : wait_arr[i] = own_pid[a] }
ParkAt(a) == { i \in 1 .. Len(io_parked) : io_parked[i] = a }

(* The shapes of the queues' variables.                                     *)
QueueTypeOK ==
    /\ process_cap \in Nat \ {0} /\ wait_cap \in Nat \ {0}
    /\ process_arr \in [0 .. process_cap - 1 -> Actors \cup {NoActor}]
    /\ current_process \in Nat
    /\ last_process_index \in -1 .. process_cap - 1
    /\ real_count \in Nat
    /\ wait_arr \in [0 .. wait_cap - 1 -> Pids]
    /\ last_waited \in 0 .. wait_cap - 1
    /\ waited_count \in Nat
    /\ io_parked \in Seq(Actors)
    /\ io_parked_idx \in [Actors -> Nat]
=============================================================================
