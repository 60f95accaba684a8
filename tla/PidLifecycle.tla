---------------------------- MODULE PidLifecycle ----------------------------
(***************************************************************************)
(* The pid table driven by spawns and deaths in every order.  Two history  *)
(* variables, which no action reads, let properties speak of the past:     *)
(* `issued' holds the slot and the 64-bit generation of every pid ever     *)
(* handed out, `peak' the largest number of actors alive together.         *)
(***************************************************************************)
EXTENDS PidTable, FiniteSets

VARIABLES issued, peak

lifeVars == << pidVars, issued, peak >>

LiveActors == { a \in Actors : Live(a) }

LifeInit ==
    /\ PidTableInit
    /\ issued = {}
    /\ peak = 0

Spawn(a) ==
    /\ ~ Live(a)
    /\ AssignPid(a)
    /\ LET slot == own_pid'[a].slot
       IN  issued' = issued \cup { [gen |-> pid_table'[slot].gen, slot |-> slot] }
    /\ peak' = LET n == Cardinality(LiveActors) + 1
               IN  IF n > peak THEN n ELSE peak

Die(a) ==
    /\ Live(a)
    /\ ClearPid(a)
    /\ UNCHANGED << issued, peak >>

LifeNext == \E a \in Actors : Spawn(a) \/ Die(a)

LifeSpec == LifeInit /\ [][LifeNext]_lifeVars

-----------------------------------------------------------------------------
(* Slots 1 .. pid_table_len - 1 are split between the living and the stack: *)
(* no slot is on the stack twice, none is both held and free, none is lost  *)
(* (emit_acquire_slot and clear_pid together).                              *)
SlotsPartitioned ==
    /\ \A i, j \in 1 .. Len(free_slots) :
          free_slots[i] = free_slots[j] => i = j
    /\ \A s \in 1 .. pid_table_len - 1 :
          (\E i \in 1 .. Len(free_slots) : free_slots[i] = s)
             <=> pid_table[s].ctx = NoActor
    /\ \A a \in LiveActors : pid_table[own_pid[a].slot].ctx = a

(* A pid whose actor died resolves to no actor at all, not even after its   *)
(* slot and its ProcessCtx address were both recycled (#73, #74).           *)
StalePidsResolveToNothing ==
    \A w \in issued :
        LET p == Pid(w.gen, w.slot)
        IN  LookupProcCtx(p) # NoActor => own_pid[LookupProcCtx(p)] = p

(* lookup_proc_ctx's comment: it returns 0 only for a pid that is dead,     *)
(* null or out of range; so the pid of a living actor resolves to it.  The  *)
(* code does not keep this: the generation of a fresh slot is counted from  *)
(* a recycled word, and one past 32 bits never equals a pid's half.         *)
LivePidsResolve ==
    \A a \in LiveActors : LookupProcCtx(own_pid[a]) = a

(* What it keeps instead: the pid of a living actor resolves to it exactly  *)
(* as long as the generation of its slot has not outgrown 32 bits, whatever *)
(* the generations of the other slots.                                      *)
FitsPid(gen) == gen < GenMod
ResolvesIffItFits ==
    \A a \in LiveActors :
        LookupProcCtx(own_pid[a]) = a <=> FitsPid(pid_table[own_pid[a].slot].gen)

(* docs/runtime.md: peak concurrent live actors caps the pid table's size.  *)
PeakBoundsTable == pid_table_len = peak + 1

(* The table implements the registry for the pids whose generation fits:    *)
(* they are issued once and resolve to the actor they were issued to for    *)
(* exactly as long as it lives.  An actor whose generation does not fit is  *)
(* outside the registry, and disturbs nobody in it.                         *)
Fitting == { w \in issued : FitsPid(w.gen) }
Registry == INSTANCE PidRegistry
              WITH resolve <- [p \in Fitting |-> LookupProcCtx(p)],
                   AllPids <- Pids
ImplementsRegistry == Registry!Spec
=============================================================================
