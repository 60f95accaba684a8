----------------------------- MODULE Scheduler -----------------------------
(***************************************************************************)
(* The scheduler loop of a compiled program                                *)
(* (src/src/compiler/rt/scheduler/mod.rs), the quantum loop of the machine *)
(* it dispatches (src/src/compiler/pipeline/machine.rs), the effects of    *)
(* the block an actor runs, and the kernel behind the io_uring.            *)
(*                                                                         *)
(* One thread runs the scheduler and every actor; `phase' is its program   *)
(* counter.  The kernel runs beside it and completes requests in any       *)
(* order.  What an actor's program computes is left open: a block may have *)
(* any effect in Ops.  Of a mailbox only the number of unread messages is  *)
(* kept.                                                                   *)
(***************************************************************************)
EXTENDS RunQueue, FiniteSets

CONSTANTS
    Main,           \* the address of main's ProcessCtx
    Quantum,        \* blocks per dispatch (QUANTUM)
    BatchSize,      \* SQE_BATCH_SIZE
    Ops,            \* the block effects this instance explores
    MailCap,        \* bound on unread messages (not in the code)
    MaxWrites       \* bound on unfinished writes (not in the code)

ASSUME SchedulerAssumption ==
    /\ Main \in Actors
    /\ Quantum \in Nat \ {0}
    /\ BatchSize \in Nat \ {0}
    /\ MailCap \in Nat /\ MaxWrites \in Nat

VARIABLES
    phase,      \* where the thread is
    left,       \* blocks left in the quantum
    mail,       \* actor -> unread messages in its mailbox
    dying,      \* actor -> ExecCtx.IS_DYING
    sq,         \* user_data of the requests in the submission ring
    pending,    \* SQE_PENDING: requests not yet passed to io_uring_enter
    inflight,   \* user_data -> requests the kernel works on
    cq          \* user_data of the completions in the completion ring

ctlVars   == << phase, left >>
actorVars == << mail, dying >>
ringVars  == << sq, pending, inflight, cq >>
schedVars == << pidVars, queueVars, ctlVars, actorVars, ringVars >>

(* Requests and completions with user_data t that have not been drained.    *)
Outstanding(t) ==
    LET In(ring) == Cardinality({ i \in 1 .. Len(ring) : ring[i] = t })
    IN  In(sq) + inflight[t] + In(cq)

Tags == Actors \cup {NoActor}       \* a user_data of 0 names no actor

SchedInit ==
    /\ PidTableInit
    /\ RunQueueInit
    /\ phase = "boot"
    /\ left = 0
    /\ mail = [a \in Actors |-> 0]
    /\ dying = [a \in Actors |-> FALSE]
    /\ sq = << >>
    /\ pending = 0
    /\ inflight = [t \in Tags |-> 0]
    /\ cq = << >>

(* init_main_process: main goes to index 0, where LAST_PROCESS_INDEX        *)
(* already points.                                                          *)
InitMain ==
    /\ phase = "boot"
    /\ AssignPid(Main)
    /\ process_arr' = [process_arr EXCEPT ![0] = Main]
    /\ real_count' = 1
    /\ phase' = "poll"
    /\ UNCHANGED << process_cap, current_process, last_process_index,
                    waitVars, parkVars, left, actorVars, ringVars >>

-----------------------------------------------------------------------------
(* The kernel.  io_uring_enter takes requests from the head of the ring.    *)
Enter(ring, asked) ==
    /\ sq' = SubSeq(ring, asked + 1, Len(ring))
    /\ inflight' = [t \in Tags |->
          inflight[t] + Cardinality({ i \in 1 .. asked : ring[i] = t })]
    /\ pending' = 0

Submit == Enter(sq, pending) /\ UNCHANGED cq

FlushPending == IF pending # 0 THEN Submit ELSE UNCHANGED ringVars

Complete(t) ==
    /\ inflight[t] > 0
    /\ inflight' = [inflight EXCEPT ![t] = @ - 1]
    /\ cq' = Append(cq, t)
    /\ UNCHANGED << pidVars, queueVars, ctlVars, actorVars, sq, pending >>

-----------------------------------------------------------------------------
(* One pass of the loop.  rt_io_uring_poll_cq rereads the ring's tail for   *)
(* each completion, so one that arrives during the drain is drained too.    *)
PollOne ==
    /\ phase = "poll"
    /\ cq # << >>
    /\ cq' = Tail(cq)
    /\ IF Head(cq) = NoActor THEN UNCHANGED << runVars, parkVars >>
                             ELSE WakeParked(Head(cq))
    /\ UNCHANGED << pidVars, waitVars, ctlVars, actorVars,
                    sq, pending, inflight >>

PollDone ==
    /\ phase = "poll"
    /\ cq = << >>
    /\ phase' = "flush"
    /\ UNCHANGED << pidVars, queueVars, left, actorVars, ringVars >>

FlushOnlyWhenIdle ==                            \* broken: as it was before #83
    /\ phase = "flush"
    /\ phase' = "pick"
    /\ UNCHANGED << pidVars, queueVars, left, actorVars, ringVars >>
Flush ==
    /\ phase = "flush"
    /\ FlushPending
    /\ phase' = "pick"
    /\ UNCHANGED << pidVars, queueVars, left, actorVars >>

Dispatch ==
    /\ phase = "pick"
    /\ real_count # 0
    /\ phase' = "run"
    /\ left' = Quantum
    /\ UNCHANGED << pidVars, queueVars, actorVars, ringVars >>

(* Nothing runnable, someone parked: rt_io_uring_wait_cqe submits what is   *)
(* pending and blocks in the kernel until there is a completion.            *)
WaitCqe ==
    /\ phase = "pick"
    /\ real_count = 0
    /\ io_parked # << >>
    /\ Submit
    /\ phase' = "enter"
    /\ UNCHANGED << pidVars, queueVars, left, actorVars >>

CqeArrived ==
    /\ phase = "enter"
    /\ cq # << >>
    /\ phase' = "poll"
    /\ UNCHANGED << pidVars, queueVars, left, actorVars, ringVars >>

(* Nothing runnable or parked, someone waits for a message: loop.           *)
LoopOnWaiters ==
    /\ phase = "pick"
    /\ real_count = 0
    /\ io_parked = << >>
    /\ waited_count # 0
    /\ phase' = "poll"
    /\ UNCHANGED << pidVars, queueVars, left, actorVars, ringVars >>

ExitWhenIndexWrapped ==                         \* broken: the index starts at 0
    /\ phase = "pick"
    /\ real_count = 0
    /\ io_parked = << >>
    /\ last_waited = -1
    /\ FlushPending
    /\ phase' = "exited"
    /\ UNCHANGED << pidVars, queueVars, left, actorVars >>
Exit ==
    /\ phase = "pick"
    /\ real_count = 0
    /\ io_parked = << >>
    /\ waited_count = 0
    /\ FlushPending
    /\ phase' = "exited"
    /\ UNCHANGED << pidVars, queueVars, left, actorVars >>

-----------------------------------------------------------------------------
(* The end of an actor: free_process_resources clears its pid, then         *)
(* remove_current_process unlinks it.                                       *)
Bury ==
    /\ ClearPid(CurrentActor)
    /\ RemoveCurrent
    /\ phase' = "poll"
    /\ UNCHANGED << waitVars, parkVars, left, actorVars, ringVars >>

(* quantum_loop_block, after a block that named its successor.  The time    *)
(* budget may run out at any block.                                         *)
QuantumLoop ==
    /\ phase = "loop"
    /\ ~ dying[CurrentActor]
    /\ left' = left - 1
    /\ \/ NextProcess /\ phase' = "poll"        \* the time budget, if not the count
       \/ left - 1 # 0 /\ UNCHANGED runVars /\ phase' = "run"
    /\ UNCHANGED << pidVars, waitVars, parkVars, actorVars, ringVars >>

DeathCheck ==
    /\ phase = "loop"
    /\ dying[CurrentActor]
    /\ Bury

-----------------------------------------------------------------------------
(* The effects of a block.                                                  *)
Running(op) == phase = "run" /\ op \in Ops
EndBlock == phase' = "loop" /\ UNCHANGED left

Compute ==
    /\ Running("compute")
    /\ EndBlock
    /\ UNCHANGED << pidVars, queueVars, actorVars, ringVars >>

(* A self-call back into the same branch counts down by itself: no death    *)
(* check, no time budget.                                                   *)
TailSelfReloading ==                            \* broken: starts over, never yields
    /\ Running("tail_self")
    /\ left' = IF left - 1 = 0 THEN Quantum ELSE left - 1
    /\ UNCHANGED runVars
    /\ phase' = "run"
    /\ UNCHANGED << pidVars, waitVars, parkVars, actorVars, ringVars >>
TailSelf ==
    /\ Running("tail_self")
    /\ left' = left - 1
    /\ IF left - 1 = 0
       THEN NextProcess /\ phase' = "poll"
       ELSE UNCHANGED runVars /\ phase' = "run"
    /\ UNCHANGED << pidVars, waitVars, parkVars, actorVars, ringVars >>

(* Spawn: recycled memory is reset before the child becomes reachable.      *)
SpawnWithoutReset(c) ==                         \* broken: recycled ctx as it was
    /\ Running("spawn")
    /\ ~ Live(c)
    /\ AssignPid(c)
    /\ NewProcess(c)
    /\ EndBlock
    /\ UNCHANGED << waitVars, parkVars, actorVars, ringVars >>
Spawn(c) ==
    /\ Running("spawn")
    /\ ~ Live(c)
    /\ mail' = [mail EXCEPT ![c] = 0]
    /\ dying' = [dying EXCEPT ![c] = FALSE]
    /\ AssignPid(c)
    /\ NewProcess(c)
    /\ EndBlock
    /\ UNCHANGED << waitVars, parkVars, ringVars >>

(* Send: enqueue into the mailbox of the actor the pid resolves to, then    *)
(* wake it.  n = 0 is a send without arguments.                             *)
Send(p, n) ==
    LET target == LookupProcCtx(p)
    IN  /\ Running("send")
        /\ IF target = NoActor
           THEN UNCHANGED << runVars, waitVars, mail >>
           ELSE /\ mail[target] + n <= MailCap
                /\ mail' = [mail EXCEPT ![target] = @ + n]
                /\ Wake(p)
        /\ EndBlock
        /\ UNCHANGED << pidVars, parkVars, dying, ringVars >>

(* wait_expr: take a message, or suspend when there is none.                *)
Receive ==
    /\ Running("wait")
    /\ mail[CurrentActor] > 0
    /\ mail' = [mail EXCEPT ![CurrentActor] = @ - 1]
    /\ EndBlock
    /\ UNCHANGED << pidVars, queueVars, dying, ringVars >>

WaitUnchecked ==                                \* broken: mailbox not looked at
    /\ Running("wait")
    /\ WaitCurrent
    /\ RemoveCurrent
    /\ phase' = "poll"
    /\ UNCHANGED << pidVars, parkVars, left, actorVars, ringVars >>
Wait ==
    /\ Running("wait")
    /\ mail[CurrentActor] = 0
    /\ WaitCurrent
    /\ RemoveCurrent
    /\ phase' = "poll"
    /\ UNCHANGED << pidVars, parkVars, left, actorVars, ringVars >>

(* emit_submit_sqe: fill the SQE at the tail and count it.                  *)
QueueSqe(t) ==
    /\ sq' = Append(sq, t)
    /\ pending' = pending + 1
    /\ UNCHANGED << inflight, cq >>

(* rt_accept_async, rt_send_async, rt_recv_async: queue a request that      *)
(* names the current actor, then park it.                                   *)
SubmitUntagged ==                               \* broken: user_data left 0
    /\ Running("io")
    /\ QueueSqe(NoActor)
    /\ ParkCurrent
    /\ phase' = "poll"
    /\ UNCHANGED << pidVars, waitVars, left, actorVars >>
SubmitAndPark ==
    /\ Running("io")
    /\ QueueSqe(CurrentActor)
    /\ ParkCurrent
    /\ phase' = "poll"
    /\ UNCHANGED << pidVars, waitVars, left, actorVars >>

(* rt_write_async: queue a request that names nobody and go on; a full      *)
(* batch is submitted at once.                                              *)
WriteUncounted ==                               \* broken: SQE_PENDING not counted up
    /\ Running("write")
    /\ Outstanding(NoActor) < MaxWrites
    /\ sq' = Append(sq, NoActor)
    /\ EndBlock
    /\ UNCHANGED << pidVars, queueVars, actorVars, pending, inflight, cq >>
WriteAsync ==
    /\ Running("write")
    /\ Outstanding(NoActor) < MaxWrites
    /\ LET ring == Append(sq, NoActor)
       IN  IF pending + 1 >= BatchSize
           THEN Enter(ring, pending + 1)
           ELSE sq' = ring /\ pending' = pending + 1 /\ UNCHANGED inflight
    /\ EndBlock
    /\ UNCHANGED << pidVars, queueVars, actorVars, cq >>

(* rt_io_park_current called by the program itself.                         *)
BarePark ==
    /\ Running("bare_park")
    /\ ParkCurrent
    /\ phase' = "poll"
    /\ UNCHANGED << pidVars, waitVars, left, actorVars, ringVars >>

(* rt_die_actor, or an allocation that failed: mark the current actor.      *)
DieActor ==
    /\ Running("die")
    /\ dying' = [dying EXCEPT ![CurrentActor] = TRUE]
    /\ EndBlock
    /\ UNCHANGED << pidVars, queueVars, mail, ringVars >>

(* The program's last block, or no branch matched: STOP_DONE.               *)
Done ==
    /\ Running("done")
    /\ Bury

Block ==
    \/ Compute
    \/ TailSelf
    \/ \E c \in Actors : Spawn(c)
    \/ \E p \in HeldPids, n \in {0, 1} : Send(p, n)
    \/ Receive
    \/ Wait
    \/ SubmitAndPark
    \/ WriteAsync
    \/ BarePark
    \/ DieActor
    \/ Done

Thread ==
    \/ InitMain
    \/ PollOne
    \/ PollDone
    \/ Flush
    \/ Dispatch
    \/ WaitCqe
    \/ CqeArrived
    \/ LoopOnWaiters
    \/ Exit
    \/ QuantumLoop
    \/ DeathCheck
    \/ Block

Exited == phase = "exited" /\ UNCHANGED schedVars

SchedNext == Thread \/ (\E t \in Tags : Complete(t)) \/ Exited

SchedSpec == SchedInit /\ [][SchedNext]_schedVars

(* The thread is never suspended for good: it holds its own core time, and  *)
(* the only call it blocks in is the one CqeArrived leaves.  Nothing is     *)
(* assumed of the kernel: an accept may never complete.                     *)
FairSpec == SchedSpec /\ WF_schedVars(Thread)

-----------------------------------------------------------------------------
(* Shapes of all the variables.                                             *)
SchedTypeOK ==
    /\ PidTypeOK /\ QueueTypeOK
    /\ phase \in {"boot", "poll", "flush", "pick", "run", "loop",
                  "enter", "exited"}
    /\ left \in 0 .. Quantum
    /\ mail \in [Actors -> 0 .. MailCap]
    /\ dying \in [Actors -> BOOLEAN]
    /\ sq \in Seq(Tags) /\ cq \in Seq(Tags)
    /\ pending \in Nat
    /\ inflight \in [Tags -> Nat]

(* The scheduler decides on REAL_COUNT and WAITED_COUNT, the operations     *)
(* index with LAST_PROCESS_INDEX, LAST_WAITED and CURRENT: each count agrees *)
(* with its index and CURRENT designates a runnable actor if there is one.  *)
CountsAgree ==
    phase # "boot" =>
        /\ real_count = last_process_index + 1
        /\ waited_count = last_waited
        /\ real_count > 0 => current_process <= last_process_index

(* An actor that is alive is in exactly one of the three arrays and exactly *)
(* once; one that is not is in none (spawn, wait, wake, park, completion    *)
(* and death together).                                                     *)
OnePlaceEach ==
    phase # "boot" =>
        \A a \in Actors :
            Cardinality(RunAt(a)) + Cardinality(WaitAt(a)) + Cardinality(ParkAt(a))
              = IF Live(a) THEN 1 ELSE 0

(* The index a parked actor carries is where io_parked holds it, which is   *)
(* what makes the O(1) removal of emit_wake_by_user_data hit the right one. *)
ParkedIdxExact ==
    \A i \in 1 .. Len(io_parked) : io_parked_idx[io_parked[i]] = i - 1

(* Nobody sleeps on a message: an actor in wait_arr has an empty mailbox    *)
(* (the check of wait_expr, the suspension, and the wake of every send).    *)
NoLostWakeup ==
    \A a \in Actors : Live(a) /\ WaitAt(a) # {} => mail[a] = 0

(* A completion wakes whoever its user_data names without looking whether   *)
(* that actor is parked; so there is at most one request or completion      *)
(* under way for a parked actor, and none for any other.  It is exactly one *)
(* unless the program itself calls rt_io_park_current.                      *)
CompletionsMatchParked ==
    \A a \in Actors :
        /\ Outstanding(a) <= Cardinality(ParkAt(a))
        /\ "bare_park" \notin Ops => Outstanding(a) = Cardinality(ParkAt(a))

(* machine.rs: an actor marked for death runs no further block; nor does a  *)
(* new actor start out marked by the one whose memory it reuses.            *)
DyingRunsNoBlock == phase = "run" => ~ dying[CurrentActor]

(* No SQE slot is reused before the kernel read it: the ring never holds    *)
(* more than one batch, and SQE_PENDING counts what it holds.               *)
SqWithinBatch == Len(sq) <= BatchSize /\ pending = Len(sq)

(* io_uring.rs:844 trusts that process_arr has room for a woken actor.      *)
WakeFitsQueue == last_process_index < process_cap

(* The arrays implement the life of an actor that ActorStates describes.    *)
Status(a) ==
    IF ~ Live(a) THEN "dead"
    ELSE IF RunAt(a) # {} THEN "runnable"
    ELSE IF WaitAt(a) # {} THEN "waiting"
    ELSE IF ParkAt(a) # {} THEN "parked"
    ELSE "lost"

Lives == INSTANCE ActorStates
           WITH status <- [a \in Actors |-> Status(a)],
                unread <- [a \in Actors |-> IF Live(a) THEN mail[a] ELSE 0],
                owed   <- { a \in Actors : Outstanding(a) > 0 }
ImplementsActorStates == Lives!Spec

-----------------------------------------------------------------------------
InRing(ring, t) == \E i \in 1 .. Len(ring) : ring[i] = t

(* A completion in the ring makes its actor runnable, however busy the      *)
(* others keep the thread.                                                  *)
CompletionDelivered ==
    \A a \in Actors : InRing(cq, a) ~> RunAt(a) # {}

(* #83: the requests that were queued reach the kernel even when the queue  *)
(* of runnable actors never empties.                                        *)
SubmissionReachesKernel == sq # << >> ~> sq = << >>

(* Both ways through the two rings: no request and no completion is stuck.  *)
IoMakesProgress == SubmissionReachesKernel /\ CompletionDelivered

(* docs/concurrency.md: after an actor enters its compiled function control *)
(* returns to the scheduler, whatever the actor does.                       *)
QuantumEnds == phase = "run" ~> phase = "poll"

(* docs/concurrency.md promises every actor in process_arr its turn.  It     *)
(* gets one if actors eventually stop leaving process_arr: the round robin   *)
(* of next_process passes over nobody while actors only join.                *)
EventuallyNobodyLeaves ==
    <>[][last_process_index' >= last_process_index]_schedVars
TurnOnceNobodyLeaves ==
    EventuallyNobodyLeaves =>
        \A a \in Actors :
            RunAt(a) # {} ~> (phase = "run" /\ CurrentActor = a)

(* A program whose last actor died exits.                                   *)
DeadProgramExits ==
    (phase # "boot" /\ \A a \in Actors : ~ Live(a)) ~> phase = "exited"

(* docs/concurrency.md: every actor in process_arr gets its turn.           *)
EveryoneGetsATurn ==
    \A a \in Actors :
        RunAt(a) # {} ~> (RunAt(a) = {} \/ (phase = "run" /\ CurrentActor = a))
=============================================================================
