------------------------------ MODULE PidTable ------------------------------
(***************************************************************************)
(* The generation-tagged pid table of the scheduler context                *)
(* (src/src/compiler/rt/layout/sheduler_ctx.rs).                           *)
(*                                                                         *)
(* A pid packs a generation (high 32 bits) and a slot (low 32 bits).       *)
(* pid_table[slot] = {gen, proc_ctx}; free_slots is the LIFO stack of the  *)
(* slots of dead actors; pid_table_len is the high-water mark.  The        *)
(* operations below are actions over these variables; the modules that     *)
(* extend this one (PidLifecycle, RunQueue, Scheduler) compose them.       *)
(*                                                                         *)
(* An actor is named by the address of its ProcessCtx.  Addresses are      *)
(* recycled by the allocator, so an actor that died may be spawned again.  *)
(***************************************************************************)
EXTENDS Integers, Sequences

CONSTANTS
    Actors,     \* the ProcessCtx addresses the allocator can hand out
    NoActor,    \* a null ProcessCtx pointer
    QueueCap,   \* INITIAL_QUEUE_CAP: starting capacity of every array
    GenMod,     \* 2^32: the generations a packed pid can carry
    WordMod,    \* 2^64: the generations an entry of the table can hold
    SlotMod,    \* 2^32: the slots a packed pid can carry (SLOT_MASK + 1)
    Leftovers,  \* what an entry of recycled memory may read as
    MaxGen      \* bound on the generations explored (not in the code)

GenWords == 0 .. WordMod - 1

ASSUME PidAssumption ==
    /\ NoActor \notin Actors
    /\ QueueCap \in Nat /\ QueueCap >= 2
    /\ GenMod \in Nat /\ GenMod >= 2
    /\ WordMod \in Nat /\ WordMod > GenMod
    /\ SlotMod \in Nat /\ SlotMod >= 2
    /\ MaxGen \in Nat
    /\ Leftovers # {}
    /\ Leftovers \subseteq [gen : GenWords, ctx : Actors \cup {NoActor}]

VARIABLES
    pid_table,       \* slot -> [gen, ctx]
    pid_table_cap,   \* PID_TABLE_CAP
    pid_table_len,   \* PID_TABLE_LEN, the next fresh slot
    free_slots,      \* stack of recycled slots, top last
    free_slots_cap,  \* FREE_SLOTS_CAP
    own_pid          \* actor -> ExecCtx.OWN_PID, NoPid while it is dead

pidVars == << pid_table, pid_table_cap, pid_table_len,
              free_slots, free_slots_cap, own_pid >>

-----------------------------------------------------------------------------
(* The packed pid.  ishl_imm(gen, 32) keeps the low 32 bits of the 64-bit   *)
(* generation the table stores.                                             *)
Pid(gen, slot) == [gen |-> gen % GenMod, slot |-> slot]
NoPid == [gen |-> 0, slot |-> 0]
Pids == [gen : 0 .. GenMod - 1, slot : 0 .. SlotMod - 1]

EmptyEntry == [gen |-> 0, ctx |-> NoActor]
Live(a) == own_pid[a] # NoPid

(* An array that cannot hold index `next' is replaced by one of twice the   *)
(* capacity, into which the first `next' entries are copied.  The block is  *)
(* allocated raw: behind them it still holds the bytes of whatever lived    *)
(* there before, which is `fill'.                                           *)
NeedsGrowthLate(next, cap) == next > cap        \* broken: one slot too late
NeedsGrowth(next, cap) == next >= cap

GrownCap(cap, next) == IF NeedsGrowth(next, cap) THEN 2 * cap ELSE cap

Uncopied(cap, next) ==
    IF NeedsGrowth(next, cap) THEN next .. 2 * cap - 1 ELSE {}

GrownForgetful(arr, cap, next, fill) ==         \* broken: forgets the entries
    IF NeedsGrowth(next, cap)
    THEN [i \in 0 .. 2 * cap - 1 |-> fill[IF i < next THEN next ELSE i]]
    ELSE arr
Grown(arr, cap, next, fill) ==
    IF NeedsGrowth(next, cap)
    THEN [i \in 0 .. 2 * cap - 1 |-> IF i < next THEN arr[i] ELSE fill[i]]
    ELSE arr

PidTableInit ==
    /\ pid_table = [s \in 0 .. QueueCap - 1 |-> EmptyEntry]
    /\ pid_table_cap = QueueCap
    /\ pid_table_len = 1
    /\ free_slots = << >>
    /\ free_slots_cap = QueueCap
    /\ own_pid = [a \in Actors |-> NoPid]

-----------------------------------------------------------------------------
(* emit_acquire_slot: pop the stack of recycled slots, else take a fresh    *)
(* one from the high-water mark.                                            *)
AcquiredSlot ==
    IF free_slots = << >> THEN pid_table_len ELSE free_slots[Len(free_slots)]

TakeSlotWithoutPop ==                           \* broken: top stays stacked
    /\ pid_table_len' = IF free_slots = << >> THEN pid_table_len + 1
                                              ELSE pid_table_len
    /\ UNCHANGED free_slots
TakeSlot ==
    IF free_slots = << >>
    THEN /\ pid_table_len' = pid_table_len + 1
         /\ UNCHANGED free_slots
    ELSE /\ free_slots' = SubSeq(free_slots, 1, Len(free_slots) - 1)
         /\ UNCHANGED pid_table_len

(* assign_pid: acquire a slot, bump its generation, store the ProcessCtx    *)
(* and return the packed pid, which the caller stores in OWN_PID.  A fresh  *)
(* slot counts from the word it finds in its entry: zero in the first       *)
(* table, whose memory comes straight from the kernel, a leftover in one    *)
(* that has grown.  The two guards on slot and gen are bounds of the model: *)
(* no memory holds SlotMod actors, and MaxGen limits how often a slot is    *)
(* reused.                                                                  *)
SameGen(old) == old                             \* broken: no bump
BumpedGen(old) == (old + 1) % WordMod

AssignPid(a) ==
    LET slot == AcquiredSlot
    IN  \E fill \in [Uncopied(pid_table_cap, slot + 1) -> Leftovers] :
          LET table == Grown(pid_table, pid_table_cap, slot + 1, fill)
              gen   == BumpedGen(table[slot].gen)
          IN  /\ slot < SlotMod
              /\ gen <= MaxGen
              /\ TakeSlot
              /\ pid_table_cap' = GrownCap(pid_table_cap, slot + 1)
              /\ pid_table' = [table EXCEPT ![slot] = [gen |-> gen, ctx |-> a]]
              /\ own_pid' = [own_pid EXCEPT ![a] = Pid(gen, slot)]
              /\ UNCHANGED free_slots_cap

(* lookup_proc_ctx: the generation half of the pid is compared with the     *)
(* stored one; a mismatch resolves to the null pointer.                     *)
LookupIgnoringGen(pid) == pid_table[pid.slot].ctx  \* broken: slot only
LookupProcCtx(pid) ==
    LET entry == pid_table[pid.slot]
    IN  IF entry.gen = pid.gen THEN entry.ctx ELSE NoActor

(* clear_pid: the dead actor's entry loses its ProcessCtx and keeps its     *)
(* generation; the slot goes back on the stack, unless it is slot 0.        *)
ClearPidLeakingSlot(a) ==                       \* broken: never recycled
    /\ pid_table' = [pid_table EXCEPT ![own_pid[a].slot].ctx = NoActor]
    /\ own_pid' = [own_pid EXCEPT ![a] = NoPid]
    /\ UNCHANGED << pid_table_cap, pid_table_len, free_slots, free_slots_cap >>
ClearPid(a) ==
    LET slot == own_pid[a].slot
    IN  /\ pid_table' = [pid_table EXCEPT ![slot].ctx = NoActor]
        /\ IF slot # 0
           THEN /\ free_slots_cap' = GrownCap(free_slots_cap, Len(free_slots) + 1)
                /\ free_slots' = Append(free_slots, slot)
           ELSE UNCHANGED << free_slots, free_slots_cap >>
        /\ own_pid' = [own_pid EXCEPT ![a] = NoPid]
        /\ UNCHANGED << pid_table_cap, pid_table_len >>

-----------------------------------------------------------------------------
(* The pids a send may name: the null pid, and every generation of a slot   *)
(* that was handed out, whether some actor held it or not.                  *)
HeldPids == [gen : 0 .. GenMod - 1, slot : 0 .. pid_table_len - 1]

(* The shapes of the pid table's variables.                                 *)
PidTypeOK ==
    /\ pid_table_cap \in Nat /\ pid_table_cap >= 2
    /\ pid_table_len \in 1 .. pid_table_cap - 1
    /\ pid_table \in [0 .. pid_table_cap - 1 ->
                        [gen : GenWords, ctx : Actors \cup {NoActor}]]
    /\ free_slots \in Seq(1 .. pid_table_len - 1)
    /\ free_slots_cap \in Nat /\ Len(free_slots) < free_slots_cap
    /\ own_pid \in [Actors -> Pids]
=============================================================================
