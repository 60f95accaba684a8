--------------------------- MODULE Lookups_proofs ---------------------------
(***************************************************************************)
(* How an actor is found by its pid, and a message in a mailbox.            *)
(*                                                                          *)
(* What the runs check of PidLifecycle on three addresses, proved for every *)
(* set of addresses, every starting capacity and whatever words the memory  *)
(* of a grown table still holds: the shapes of the table, the partition of  *)
(* its slots, that the pid of a dead actor resolves to nobody, and that the *)
(* pid of a living actor resolves to it exactly as long as the generation   *)
(* of its slot fits in 32 bits.  The refinement of PidRegistry, by the pids *)
(* whose generation fits, supposes that no 64-bit generation wraps while    *)
(* its slot is in use (MaxGen < WordMod - 1).                               *)
(*                                                                          *)
(* The ring of a mailbox is a queue of whole messages, for every size of    *)
(* ring and message.  Two conditions make it one, neither of which the code *)
(* enforces: that the ring is never full, and that every wait takes as many *)
(* words as a message has.                                                  *)
(***************************************************************************)
EXTENDS PidLifecycle, Mailbox, PidTable_proofs

(* A pid was only ever issued for a slot below the high-water mark.         *)
Issuable == [gen : GenWords, slot : 0 .. SlotMod - 1]
IssuedOK ==
    \A w \in issued : w \in Issuable /\ w.slot \in 1 .. pid_table_len - 1

PidInv ==
    /\ PidTypeOK
    /\ StackExact
    /\ NullEntry
    /\ OwnSlot
    /\ SlotOwner
    /\ IssuedOK

-----------------------------------------------------------------------------
(* The table that init leaves behind is consistent, and issued no pid.      *)
LEMMA InitInv == LifeInit => PidInv
BY InitTableInv DEF LifeInit, PidInv, TableInv, IssuedOK

(* What a spawn does: assign_pid, and its pid recorded.                     *)
SpawnEffect(a, gen, slot, cap) ==
    /\ AssignEffect(a, gen, slot, cap)
    /\ issued' = issued \cup { [gen |-> gen, slot |-> slot] }

(* A spawn is a SpawnEffect.                                                *)
LEMMA SpawnStep ==
    ASSUME PidInv, NEW a \in Actors, Spawn(a)
    PROVE  \E gen \in Nat, slot \in 1 .. pid_table_len, cap \in Nat :
              SpawnEffect(a, gen, slot, cap)
<1>1. PICK gen \in Nat, slot \in 1 .. pid_table_len, cap \in Nat :
              AssignEffect(a, gen, slot, cap)
  BY AssignStep DEF Spawn, PidInv, TableInv
<1>2. own_pid'[a] = Pid(gen, slot)
  BY <1>1 DEF AssignEffect, PidInv, PidTypeOK
<1>3. own_pid'[a].slot = slot /\ pid_table'[slot].gen = gen
  BY <1>1, <1>2 DEF AssignEffect, Pid
<1>4. issued' = issued \cup { [gen |-> gen, slot |-> slot] }
  BY <1>3 DEF Spawn
<1> QED  BY <1>1, <1>4 DEF SpawnEffect

(* A spawn keeps PidInv: the table stays consistent, and the new pid is of  *)
(* a slot below the high-water mark.                                        *)
LEMMA SpawnInv ==
    ASSUME PidInv, NEW a \in Actors, Spawn(a)
    PROVE  PidInv'
<1>1. TableInv'
  BY AssignInv DEF Spawn, PidInv, TableInv
<1>2. PICK gen \in Nat, slot \in 1 .. pid_table_len, cap \in Nat :
              SpawnEffect(a, gen, slot, cap)
  BY SpawnStep
<1>3. /\ pid_table_len \in Nat /\ pid_table_len >= 1
      /\ pid_table_len' = IF slot = pid_table_len
                          THEN pid_table_len + 1 ELSE pid_table_len
  <2>1. TakeSlot
    BY DEF Spawn, AssignPid
  <2>2. PidTypeOK /\ StackExact /\ slot = AcquiredSlot
    BY <1>2 DEF PidInv, SpawnEffect, AssignEffect
  <2> QED  BY <2>1, <2>2, TakeFacts DEF PidTypeOK
<1>4. [gen |-> gen, slot |-> slot] \in Issuable
  BY <1>2, <1>3, PidAssumption DEF SpawnEffect, AssignEffect, Issuable
<1>5. ASSUME NEW p \in issued'
      PROVE  p \in Issuable /\ p.slot \in 1 .. pid_table_len' - 1
  <2>1. CASE p \in issued
    BY <1>3, <2>1 DEF PidInv, IssuedOK
  <2>2. CASE p = [gen |-> gen, slot |-> slot]
    <3>1. p \in Issuable /\ p.slot = slot
      BY <1>4, <2>2
    <3>2. slot \in 1 .. pid_table_len' - 1
      <4>1. CASE slot = pid_table_len
        BY <1>3, <4>1
      <4>2. CASE slot # pid_table_len
        BY <1>3, <4>2
      <4> QED  BY <4>1, <4>2
    <3> QED  BY <3>1, <3>2
  <2> QED  BY <1>2, <1>5, <2>1, <2>2 DEF SpawnEffect
<1> QED  BY <1>1, <1>5 DEF PidInv, TableInv, IssuedOK

(* A death keeps PidInv: it issues no pid.                                  *)
LEMMA DieInv ==
    ASSUME PidInv, NEW a \in Actors, Die(a)
    PROVE  PidInv'
<1>1. TableInv'
  BY ClearInv DEF Die, PidInv, TableInv
<1>2. pid_table_len' = pid_table_len /\ issued' = issued
  BY DEF Die, ClearPid
<1> QED  BY <1>1, <1>2 DEF PidInv, TableInv, IssuedOK

(* Spawns, deaths and stuttering keep the table consistent.                  *)
LEMMA NextInv == PidInv /\ [LifeNext]_lifeVars => PidInv'
<1> SUFFICES ASSUME PidInv, [LifeNext]_lifeVars  PROVE PidInv'
  OBVIOUS
<1>1. CASE LifeNext
  BY <1>1, SpawnInv, DieInv DEF LifeNext
<1>2. CASE UNCHANGED lifeVars
  BY <1>2 DEF lifeVars, pidVars, PidInv, PidTypeOK, StackExact, NullEntry,
              OwnSlot, SlotOwner, IssuedOK, Live
<1> QED  BY <1>1, <1>2

(* The invariant the other theorems rest on: the stack of free slots, the   *)
(* entries and the OWN_PID fields agree with each other in every state.     *)
THEOREM TableConsistent == LifeSpec => []PidInv
BY InitInv, NextInv, PTL DEF LifeSpec

(* The shapes of the table's variables (PidTypeOK), for every constant.     *)
THEOREM TypeCorrect == LifeSpec => []PidTypeOK
<1>1. PidInv => PidTypeOK
  BY DEF PidInv
<1> QED  BY <1>1, TableConsistent, PTL

(* SlotsPartitioned, for every constant: clear_pid and emit_acquire_slot    *)
(* never lose a slot and never hand one out twice.                          *)
THEOREM SlotsStayPartitioned == LifeSpec => []SlotsPartitioned
<1>1. PidInv => SlotsPartitioned
  BY DEF PidInv, SlotsPartitioned, StackExact, OwnSlot, LiveActors
<1> QED  BY <1>1, TableConsistent, PTL

(* StalePidsResolveToNothing, for every constant: lookup_proc_ctx never     *)
(* resolves a pid to an actor that has another pid, even after the 64-bit   *)
(* generation has outgrown the 32 bits a pid carries.                       *)
THEOREM StalePidsStayStale == LifeSpec => []StalePidsResolveToNothing
<1>1. PidInv => StalePidsResolveToNothing
  <2> SUFFICES ASSUME PidInv, NEW w \in issued,
                      LookupProcCtx(Pid(w.gen, w.slot)) # NoActor
               PROVE  own_pid[LookupProcCtx(Pid(w.gen, w.slot))]
                        = Pid(w.gen, w.slot)
    BY DEF StalePidsResolveToNothing
  <2>0. PICK p : p = Pid(w.gen, w.slot)
    OBVIOUS
  <2> DEFINE b == LookupProcCtx(p)
  <2>1. p \in Pids /\ p.slot \in 1 .. pid_table_len - 1
    <3>1. w \in Issuable /\ w.slot \in 1 .. pid_table_len - 1
      BY DEF PidInv, IssuedOK
    <3>2. w.gen \in Nat /\ w.slot \in Nat /\ w.slot < SlotMod
      BY <3>1, PidAssumption DEF Issuable, GenWords
    <3> QED  BY <2>0, <3>1, <3>2, PidIsPid
  <2>2. pid_table[p.slot].gen = p.gen /\ b = pid_table[p.slot].ctx
    BY <2>0 DEF LookupProcCtx
  <2>3. p.slot \in 0 .. pid_table_cap - 1
    BY <2>1 DEF PidInv, PidTypeOK
  <2>4. b \in Actors /\ own_pid \in [Actors -> Pids]
    BY <2>0, <2>2, <2>3 DEF PidInv, PidTypeOK
  <2>5. own_pid[b].slot = p.slot
    BY <2>0, <2>1, <2>2 DEF PidInv, SlotOwner
  <2>6. own_pid[b].gen = p.gen % GenMod
    <3>1. p.slot # 0
      BY <2>1 DEF PidInv, PidTypeOK
    <3>2. Live(b)
      BY <2>4, <2>5, <3>1, SlotMeansLive
    <3> HIDE DEF b
    <3> QED  BY <2>2, <2>4, <2>5, <3>2 DEF PidInv, OwnSlot
  <2>7. p.gen % GenMod = p.gen
    <3>1. p.gen \in Nat /\ p.gen < GenMod
      BY <2>1, PidAssumption DEF Pids
    <3> QED  BY <3>1, ModInRange
  <2> HIDE DEF b
  <2>8. own_pid[b] \in Pids
    BY <2>4
  <2>9. own_pid[b] = [gen |-> p.gen, slot |-> p.slot]
    BY <2>5, <2>6, <2>7, <2>8 DEF Pids
  <2> QED  BY <2>0, <2>1, <2>9 DEF Pids, b
<1> QED  BY <1>1, TableConsistent, PTL

-----------------------------------------------------------------------------
(* Every slot up to the high-water mark is held or stacked, and the mark    *)
(* only moves when all of them are held.                                    *)
SlotsCounted ==
    /\ IsFiniteSet(LiveActors)
    /\ Cardinality(LiveActors) = pid_table_len - 1 - Len(free_slots)
    /\ peak \in Nat /\ PeakBoundsTable

(* Initially there is no slot, no actor and no peak.                         *)
LEMMA InitCounted == LifeInit => SlotsCounted
<1> SUFFICES ASSUME LifeInit  PROVE SlotsCounted
  OBVIOUS
<1>1. LiveActors = {}
  BY DEF LifeInit, PidTableInit, LiveActors, Live
<1> QED  BY <1>1, FS_EmptySet
         DEF LifeInit, PidTableInit, SlotsCounted, PeakBoundsTable

(* A spawn moves the high-water mark exactly when it raises the peak.        *)
LEMMA SpawnCounted ==
    ASSUME PidInv, SlotsCounted, NEW a \in Actors, Spawn(a)
    PROVE  SlotsCounted'
<1> DEFINE live == LiveActors
           n    == Cardinality(LiveActors)
           k    == Len(free_slots)
<1>1. PICK gen \in Nat, slot \in 1 .. pid_table_len, cap \in Nat :
              SpawnEffect(a, gen, slot, cap)
  BY SpawnStep
<1>2. /\ own_pid \in [Actors -> Pids] /\ pid_table_len \in Nat
      /\ slot # 0 /\ Pid(gen, slot) # NoPid /\ k \in Nat
  BY <1>1 DEF PidInv, PidTypeOK, Pid, NoPid
<1>3. LiveActors' = live \cup {a}
  BY <1>1, <1>2 DEF LiveActors, Live, SpawnEffect, AssignEffect, NoPid
<1>4. a \notin live
  BY DEF Spawn, LiveActors
<1>5. /\ IsFiniteSet(LiveActors') /\ Cardinality(LiveActors') = n + 1
      /\ n \in Nat
  BY <1>3, <1>4, FS_AddElement, FS_CardinalityType DEF SlotsCounted
<1>6. /\ n = pid_table_len - 1 - k /\ pid_table_len = peak + 1 /\ peak \in Nat
      /\ peak' = IF n + 1 > peak THEN n + 1 ELSE peak
  BY DEF SlotsCounted, PeakBoundsTable, Spawn
<1>7. /\ TakeSlot
      /\ PidTypeOK /\ StackExact
  BY DEF Spawn, AssignPid, PidInv
<1> HIDE DEF n, k, live
<1>8. CASE free_slots = << >>
  <2>1. k = 0 /\ Len(free_slots') = 0 /\ pid_table_len' = pid_table_len + 1
    BY <1>7, <1>8 DEF TakeSlot, k
  <2>2. PICK len \in Nat : len = pid_table_len + 1
    BY <1>2
  <2>3. PICK most \in Nat : most = peak' /\ len = most + 1
    BY <1>2, <1>5, <1>6, <2>1, <2>2
  <2>4. Cardinality(LiveActors') = len - 1 - 0
    BY <1>2, <1>5, <1>6, <2>1, <2>2
  <2> QED  BY <1>5, <2>1, <2>2, <2>3, <2>4 DEF SlotsCounted, PeakBoundsTable
<1>9. CASE free_slots # << >>
  <2>1. k >= 1 /\ Len(free_slots') = k - 1 /\ pid_table_len' = pid_table_len
    BY <1>7, <1>9, PopFacts DEF TakeSlot, PidTypeOK, k
  <2>2. peak' = peak
    BY <1>2, <1>5, <1>6, <2>1
  <2>3. Cardinality(LiveActors') = pid_table_len - 1 - (k - 1)
    BY <1>2, <1>5, <1>6, <2>1
  <2> QED  BY <1>5, <1>6, <2>1, <2>2, <2>3 DEF SlotsCounted, PeakBoundsTable
<1> QED  BY <1>8, <1>9

(* A death moves one slot from the living to the stack.                      *)
LEMMA DieCounted ==
    ASSUME PidInv, SlotsCounted, NEW a \in Actors, Die(a)
    PROVE  SlotsCounted'
<1> DEFINE live == LiveActors
           n    == Cardinality(LiveActors)
           k    == Len(free_slots)
<1>1. /\ Live(a) /\ own_pid' = [own_pid EXCEPT ![a] = NoPid]
      /\ pid_table_len' = pid_table_len /\ peak' = peak
      /\ own_pid \in [Actors -> Pids] /\ pid_table_len \in Nat
  BY DEF Die, ClearPid, PidInv, PidTypeOK
<1>2. /\ own_pid[a].slot \in 1 .. pid_table_len - 1
      /\ own_pid[a].slot # 0
  BY <1>1 DEF PidInv, OwnSlot
<1>3. free_slots' = Append(free_slots, own_pid[a].slot)
  BY <1>2 DEF Die, ClearPid
<1>4. k \in Nat /\ Len(free_slots') = k + 1
  BY <1>2, <1>3, AppendProperties DEF PidInv, PidTypeOK
<1>5. LiveActors' = live \ {a} /\ a \in live
  BY <1>1 DEF LiveActors, Live, NoPid
<1>6. /\ IsFiniteSet(LiveActors') /\ Cardinality(LiveActors') = n - 1
      /\ n \in Nat
  BY <1>5, FS_RemoveElement, FS_CardinalityType DEF SlotsCounted
<1>7. n = pid_table_len - 1 - k /\ pid_table_len = peak + 1 /\ peak \in Nat
  BY DEF SlotsCounted, PeakBoundsTable
<1> HIDE DEF n, k, live
<1>8. Cardinality(LiveActors') = pid_table_len - 1 - (k + 1)
  BY <1>1, <1>4, <1>6, <1>7
<1> QED  BY <1>1, <1>4, <1>6, <1>7, <1>8 DEF SlotsCounted, PeakBoundsTable

(* PeakBoundsTable, for every constant: the table has one slot more than    *)
(* actors were ever alive together (docs/runtime.md, bounded memory).       *)
THEOREM PeakAlwaysBoundsTable == LifeSpec => []PeakBoundsTable
<1>1. SlotsCounted => PeakBoundsTable
  BY DEF SlotsCounted
<1>2. PidInv /\ SlotsCounted /\ [LifeNext]_lifeVars => SlotsCounted'
  <2> SUFFICES ASSUME PidInv, SlotsCounted, [LifeNext]_lifeVars
               PROVE  SlotsCounted'
    OBVIOUS
  <2>1. CASE LifeNext
    BY <2>1, SpawnCounted, DieCounted DEF LifeNext
  <2>2. CASE UNCHANGED lifeVars
    BY <2>2 DEF lifeVars, pidVars, SlotsCounted, PeakBoundsTable,
                LiveActors, Live
  <2> QED  BY <2>1, <2>2
<1> QED  BY <1>1, <1>2, InitCounted, TableConsistent, PTL DEF LifeSpec

-----------------------------------------------------------------------------
(* ResolvesIffItFits, for every constant and every leftover:                *)
(* lookup_proc_ctx finds a living actor behind its own pid exactly when the *)
(* generation the table counts is the one the pid can carry.                *)
THEOREM LivePidsResolveIffTheyFit == LifeSpec => []ResolvesIffItFits
<1>1. PidInv => ResolvesIffItFits
  <2> SUFFICES ASSUME PidInv, NEW a \in Actors, Live(a)
               PROVE  LookupProcCtx(own_pid[a]) = a
                         <=> FitsPid(pid_table[own_pid[a].slot].gen)
    BY Zenon DEF ResolvesIffItFits, LiveActors
  <2> DEFINE s == own_pid[a].slot
             g == pid_table[s].gen
  <2>1. /\ s \in 1 .. pid_table_len - 1 /\ pid_table[s].ctx = a
        /\ own_pid[a].gen = g % GenMod
    BY DEF PidInv, OwnSlot
  <2>2. s \in 0 .. pid_table_cap - 1
    BY <2>1 DEF PidInv, PidTypeOK
  <2>3. g \in Nat
    BY <2>2 DEF PidInv, PidTypeOK, GenWords
  <2>4. g % GenMod = g <=> g < GenMod
    <3>1. g % GenMod \in 0 .. GenMod - 1 /\ (g < GenMod => g % GenMod = g)
      BY <2>3, ModInRange
    <3> HIDE DEF g
    <3> QED  BY <2>3, <3>1, PidAssumption
  <2>5. LookupProcCtx(own_pid[a]) = IF g = own_pid[a].gen THEN a ELSE NoActor
    BY <2>1 DEF LookupProcCtx
  <2>6. a # NoActor
    BY PidAssumption
  <2> HIDE DEF g, s
  <2>7. LookupProcCtx(own_pid[a]) = a <=> g = g % GenMod
    BY <2>1, <2>5, <2>6
  <2> QED  BY <2>4, <2>7 DEF FitsPid, g, s
<1> QED  BY <1>1, TableConsistent, PTL

-----------------------------------------------------------------------------
(* What also holds while no 64-bit generation wraps in use: the generations *)
(* of the slots handed out stay within their bound, a slot's generation is  *)
(* the largest it issued, and what the living hold was issued.              *)
GenBounded ==
    \A s \in 1 .. pid_table_len - 1 : pid_table[s].gen <= MaxGen
IssuedSeen ==
    \A w \in issued : w.gen <= pid_table[w.slot].gen
OwnWord(a) == [gen |-> pid_table[own_pid[a].slot].gen, slot |-> own_pid[a].slot]
OwnIssued == \A a \in Actors : Live(a) => OwnWord(a) \in issued
RegistryInv == PidInv /\ GenBounded /\ IssuedSeen /\ OwnIssued

(* Initially no slot was handed out and nothing issued.                      *)
LEMMA InitRegistryInv == LifeInit => RegistryInv
<1> SUFFICES ASSUME LifeInit  PROVE GenBounded /\ IssuedSeen /\ OwnIssued
  BY InitInv DEF RegistryInv
<1> QED  BY DEF LifeInit, PidTableInit, Live, GenBounded, IssuedSeen, OwnIssued

(* A spawn issues a generation of its slot that is above every earlier one. *)
LEMMA SpawnRegistryInv ==
    ASSUME MaxGen < WordMod - 1, RegistryInv, NEW a \in Actors, Spawn(a)
    PROVE  /\ RegistryInv'
           /\ \E w \in Issuable :
                 /\ w \notin issued /\ issued' = issued \cup {w}
                 /\ pid_table'[w.slot] = [gen |-> w.gen, ctx |-> a]
                 /\ \A q \in issued :
                       IF q.slot = w.slot
                       THEN q.gen < w.gen /\ pid_table[q.slot].ctx = NoActor
                       ELSE pid_table'[q.slot] = pid_table[q.slot]
<1>1. PidInv /\ GenBounded /\ IssuedSeen /\ OwnIssued
  BY DEF RegistryInv
<1>2. PICK gen \in Nat, slot \in 1 .. pid_table_len, cap \in Nat :
              SpawnEffect(a, gen, slot, cap)
  BY <1>1, SpawnStep
<1> USE DEF SpawnEffect, AssignEffect
<1> DEFINE w == [gen |-> gen, slot |-> slot]
<1>3. /\ pid_table_cap \in Nat /\ pid_table_len \in 1 .. pid_table_cap - 1
      /\ slot \in Nat /\ slot \in 0 .. cap - 1
      /\ pid_table \in [0 .. pid_table_cap - 1 ->
                          [gen : GenWords, ctx : Actors \cup {NoActor}]]
      /\ own_pid \in [Actors -> Pids]
  BY <1>1, <1>2 DEF PidInv, PidTypeOK
<1>4. w \in Issuable /\ w.slot = slot /\ w.gen = gen
  BY <1>2, <1>3, PidAssumption DEF Issuable
<1> HIDE DEF w
<1>5. ASSUME NEW q \in issued
      PROVE  /\ q \in Issuable /\ q.slot \in 1 .. pid_table_len - 1
             /\ q.slot \in 0 .. pid_table_cap - 1
             /\ q.gen \in Nat /\ q.gen <= pid_table[q.slot].gen
  BY <1>1, <1>3 DEF PidInv, IssuedOK, IssuedSeen, Issuable, GenWords
<1>6. ASSUME slot < pid_table_len
      PROVE  /\ pid_table[slot].gen \in Nat
             /\ gen = pid_table[slot].gen + 1
  <2>1. slot \in 1 .. pid_table_len - 1 /\ slot \in 0 .. pid_table_cap - 1
    BY <1>2, <1>3, <1>6
  <2>2. pid_table[slot].gen \in GenWords /\ pid_table[slot].gen <= MaxGen
    BY <1>1, <1>3, <2>1 DEF GenBounded
  <2>3. pid_table[slot].gen \in Nat /\ pid_table[slot].gen < WordMod - 1
    BY <2>2, PidAssumption DEF GenWords
  <2> QED  BY <1>2, <2>2, <2>3, BumpStaysWord
<1>7. ASSUME NEW q \in issued
      PROVE  IF q.slot = slot
             THEN q.gen < gen /\ pid_table[q.slot].ctx = NoActor
             ELSE pid_table'[q.slot] = pid_table[q.slot]
  <2>1. CASE q.slot = slot
    <3>1. slot < pid_table_len
      BY <1>3, <1>5, <2>1
    <3>2. q.gen < gen
      BY <1>5, <1>6, <2>1, <3>1
    <3> QED  BY <1>2, <2>1, <3>1, <3>2
  <2>2. CASE q.slot # slot
    BY <1>2, <1>5, <2>2
  <2> QED  BY <2>1, <2>2
<1>8. w \notin issued
  BY <1>2, <1>4, <1>7
<1>9. pid_table_len' = IF slot = pid_table_len
                       THEN pid_table_len + 1 ELSE pid_table_len
  <2>1. TakeSlot /\ PidTypeOK /\ StackExact /\ slot = AcquiredSlot
    BY <1>1, <1>2 DEF Spawn, AssignPid, PidInv
  <2> HIDE DEF SpawnEffect, AssignEffect
  <2> QED  BY <1>3, <2>1, TakeFacts DEF PidTypeOK
<1>10. RegistryInv'
  <2>1. PidInv'
    BY <1>1, SpawnInv
  <2>2. ASSUME NEW s \in 1 .. pid_table_len' - 1
        PROVE  pid_table'[s].gen <= MaxGen
    <3>1. CASE s = slot
      BY <1>2, <3>1
    <3>2. CASE s # slot
      <4>1. s \in 1 .. pid_table_len - 1 /\ s \in 0 .. pid_table_cap - 1
        <5> HIDE DEF SpawnEffect, AssignEffect
        <5>1. CASE slot = pid_table_len
          BY <1>3, <1>9, <3>2, <5>1
        <5>2. CASE slot # pid_table_len
          BY <1>3, <1>9, <3>2, <5>2
        <5> QED  BY <5>1, <5>2
      <4> QED  BY <1>1, <1>2, <3>2, <4>1 DEF GenBounded
    <3> QED  BY <3>1, <3>2
  <2>3. ASSUME NEW q \in issued'
        PROVE  q.gen <= pid_table'[q.slot].gen
    <3>1. CASE q \in issued
      <4>1. CASE q.slot = slot
        BY <1>2, <1>5, <1>7, <3>1, <4>1
      <4>2. CASE q.slot # slot
        BY <1>5, <1>7, <3>1, <4>2
      <4> QED  BY <4>1, <4>2
    <3>2. CASE q = w
      BY <1>2, <1>4, <3>2
    <3> QED  BY <1>2, <3>1, <3>2 DEF w
  <2>4. ASSUME NEW b \in Actors, own_pid'[b] # NoPid
        PROVE  [gen |-> pid_table'[own_pid'[b].slot].gen,
                slot |-> own_pid'[b].slot] \in issued'
    <3>1. CASE b = a
      <4>1. own_pid'[b].slot = slot
        BY <1>2, <1>3, <3>1 DEF Pid
      <4> QED  BY <1>2, <4>1
    <3>2. CASE b # a
      <4>1. own_pid'[b] = own_pid[b] /\ Live(b)
        BY <1>2, <1>3, <2>4, <3>2 DEF Live
      <4>2. OwnWord(b) \in issued
        BY <1>1, <4>1 DEF OwnIssued
      <4>3. /\ own_pid[b].slot \in 1 .. pid_table_len - 1
            /\ pid_table[own_pid[b].slot].ctx # NoActor
        BY <1>1, <4>1, PidAssumption DEF PidInv, OwnSlot
      <4>4. own_pid[b].slot # slot
        BY <1>2, <1>3, <4>3
      <4>5. own_pid[b].slot \in 0 .. pid_table_cap - 1
        BY <1>3, <4>3
      <4>6. pid_table'[own_pid[b].slot] = pid_table[own_pid[b].slot]
        BY <1>2, <4>4, <4>5
      <4> QED  BY <1>2, <4>1, <4>2, <4>6 DEF OwnWord
    <3> QED  BY <3>1, <3>2
  <2> HIDE DEF SpawnEffect, AssignEffect
  <2> QED  BY <2>1, <2>2, <2>3, <2>4
           DEF RegistryInv, GenBounded, IssuedSeen, OwnIssued, OwnWord, Live, NoPid
<1>11. /\ issued' = issued \cup {w}
       /\ pid_table'[w.slot] = [gen |-> w.gen, ctx |-> a]
  <2>1. issued' = issued \cup {w}
    BY <1>2 DEF w
  <2> QED  BY <1>2, <1>4, <2>1
<1> QED  BY <1>4, <1>7, <1>8, <1>10, <1>11

(* A death takes the ProcessCtx out of one entry and keeps its generation.  *)
LEMMA DieRegistryInv ==
    ASSUME RegistryInv, NEW a \in Actors, Die(a)
    PROVE  /\ RegistryInv'
           /\ issued' = issued
           /\ \A q \in issued :
                 pid_table'[q.slot] =
                    IF q.slot = own_pid[a].slot
                    THEN [gen |-> pid_table[q.slot].gen, ctx |-> NoActor]
                    ELSE pid_table[q.slot]
<1> DEFINE slot == own_pid[a].slot
<1>1. PidInv /\ GenBounded /\ IssuedSeen /\ OwnIssued
  BY DEF RegistryInv
<1>2. /\ pid_table_cap \in Nat /\ pid_table_len \in 1 .. pid_table_cap - 1
      /\ pid_table \in [0 .. pid_table_cap - 1 ->
                          [gen : GenWords, ctx : Actors \cup {NoActor}]]
  BY <1>1 DEF PidInv, PidTypeOK
<1>3. slot \in 0 .. pid_table_cap - 1
  BY <1>1, <1>2 DEF Die, PidInv, OwnSlot
<1>4. /\ pid_table' = [pid_table EXCEPT ![slot].ctx = NoActor]
      /\ pid_table_cap' = pid_table_cap /\ issued' = issued
      /\ pid_table_len' = pid_table_len
  BY DEF Die, ClearPid
<1> HIDE DEF slot
<1>5. \A s \in 0 .. pid_table_cap - 1 :
         pid_table'[s] = IF s = slot
                         THEN [gen |-> pid_table[s].gen, ctx |-> NoActor]
                         ELSE pid_table[s]
  BY <1>2, <1>3, <1>4
<1>6. \A q \in issued : q.slot \in 0 .. pid_table_cap - 1
  BY <1>1, <1>2 DEF PidInv, IssuedOK
<1>7. PidInv'
  BY <1>1, DieInv
<1>8. GenBounded'
  <2>1. \A s \in 1 .. pid_table_len - 1 : s \in 0 .. pid_table_cap - 1
    BY <1>2
  <2> QED  BY <1>1, <1>4, <1>5, <2>1 DEF GenBounded
<1>9. IssuedSeen'
  BY <1>1, <1>4, <1>5, <1>6 DEF IssuedSeen
<1>10. OwnIssued'
  <2>1. own_pid' = [own_pid EXCEPT ![a] = NoPid] /\ own_pid \in [Actors -> Pids]
    BY <1>1 DEF Die, ClearPid, PidInv, PidTypeOK
  <2>2. ASSUME NEW b \in Actors, own_pid'[b] # NoPid
        PROVE  [gen |-> pid_table'[own_pid'[b].slot].gen,
                slot |-> own_pid'[b].slot] \in issued'
    <3>1. own_pid'[b] = own_pid[b] /\ Live(b)
      BY <2>1, <2>2 DEF Live
    <3>2. PICK s : s = own_pid[b].slot
      OBVIOUS
    <3>3. s \in 0 .. pid_table_cap - 1
      BY <1>1, <1>2, <3>1, <3>2 DEF PidInv, OwnSlot
    <3>4. pid_table'[s].gen = pid_table[s].gen
      <4>1. pid_table'[s] = IF s = slot
                            THEN [gen |-> pid_table[s].gen, ctx |-> NoActor]
                            ELSE pid_table[s]
        BY <1>5, <3>3, Zenon
      <4> QED  BY <4>1
    <3> QED  BY <1>1, <1>4, <3>1, <3>2, <3>4 DEF OwnIssued, OwnWord
  <2> QED  BY <2>2 DEF OwnIssued, OwnWord, Live, NoPid
<1> QED  BY <1>4, <1>5, <1>6, <1>7, <1>8, <1>9, <1>10 DEF RegistryInv, slot

(* Stuttering changes nothing RegistryInv speaks of.                         *)
LEMMA StutterRegistryInv ==
    ASSUME RegistryInv, UNCHANGED lifeVars
    PROVE  RegistryInv'
<1>1. PidInv'
  BY NextInv DEF RegistryInv
<1> QED  BY <1>1 DEF RegistryInv, GenBounded, IssuedSeen, OwnIssued, OwnWord,
                     Live, lifeVars, pidVars

(* RegistryInv holds in every state, whatever a grown table's memory held,  *)
(* as long as no 64-bit generation wraps in use: assign_pid never counts a  *)
(* slot's generation back.                                                  *)
THEOREM RegistryConsistent ==
    ASSUME MaxGen < WordMod - 1
    PROVE  LifeSpec => []RegistryInv
<1>1. RegistryInv /\ [LifeNext]_lifeVars => RegistryInv'
  BY SpawnRegistryInv, DieRegistryInv, StutterRegistryInv DEF LifeNext
<1> QED  BY <1>1, InitRegistryInv, PTL DEF LifeSpec

-----------------------------------------------------------------------------
(* Whom each pid in the registry reaches.                                   *)
Reaches == [p \in Fitting |-> LookupProcCtx(p)]

(* The empty table is the empty registry.                                    *)
LEMMA InitRefines == LifeInit => Registry!Init
  BY DEF LifeInit, Registry!Init, Fitting

(* A lookup that depends on the entry alone gives what it gave.             *)
LEMMA SameEntrySameLookup ==
    ASSUME NEW q, pid_table'[q.slot] = pid_table[q.slot]
    PROVE  LookupProcCtx(q)' = LookupProcCtx(q)
BY DEF LookupProcCtx

(* A spawn (assign_pid) is a spawn of the registry, with the pid it issued, *)
(* if its generation fits, and leaves the registry alone otherwise.         *)
LEMMA SpawnRefines ==
    ASSUME MaxGen < WordMod - 1, RegistryInv, NEW a \in Actors, Spawn(a)
    PROVE  Registry!Next \/ UNCHANGED Reaches
<1>1. PICK w \in Issuable :
         /\ w \notin issued /\ issued' = issued \cup {w}
         /\ pid_table'[w.slot] = [gen |-> w.gen, ctx |-> a]
         /\ \A q \in issued :
               IF q.slot = w.slot
               THEN q.gen < w.gen /\ pid_table[q.slot].ctx = NoActor
               ELSE pid_table'[q.slot] = pid_table[q.slot]
  BY SpawnRegistryInv
<1>2. w.gen \in Nat /\ w = [gen |-> w.gen, slot |-> w.slot]
  BY <1>1 DEF Issuable, GenWords
<1>3. ASSUME NEW q \in issued
      PROVE  LookupProcCtx(q)' = LookupProcCtx(q)
  <2>1. CASE q.slot = w.slot
    <3>1. q.gen \in Nat /\ q.gen < w.gen /\ pid_table[q.slot].ctx = NoActor
      BY <1>1, <2>1 DEF RegistryInv, PidInv, IssuedOK, Issuable, GenWords
    <3>2. q.gen # w.gen
      BY <1>2, <3>1
    <3>3. LookupProcCtx(q) = NoActor
      BY <3>1 DEF LookupProcCtx
    <3>4. pid_table'[q.slot].gen # q.gen
      BY <1>1, <2>1, <3>2
    <3> QED  BY <3>3, <3>4 DEF LookupProcCtx
  <2>2. CASE q.slot # w.slot
    BY <1>1, <2>2, SameEntrySameLookup
  <2> QED  BY <2>1, <2>2
<1>4. CASE ~ FitsPid(w.gen)
  <2>1. Fitting' = Fitting
    BY <1>1, <1>4 DEF Fitting, FitsPid
  <2>2. \A q \in Fitting : LookupProcCtx(q)' = LookupProcCtx(q)
    BY <1>3 DEF Fitting
  <2> QED  BY <2>1, <2>2 DEF Reaches
<1>5. CASE FitsPid(w.gen)
  <2>1. w \in Pids
    BY <1>1, <1>2, <1>5, PidAssumption DEF FitsPid, Pids, Issuable
  <2>2. Fitting' = Fitting \cup {w} /\ w \notin Fitting
    BY <1>1, <1>5 DEF Fitting, FitsPid
  <2>3. LookupProcCtx(w)' = a
    BY <1>1 DEF LookupProcCtx
  <2>4. ASSUME NEW q \in Fitting
        PROVE  LookupProcCtx(q) # a /\ LookupProcCtx(q)' = LookupProcCtx(q)
    <3> SUFFICES ASSUME LookupProcCtx(q) = a  PROVE FALSE
      BY <1>3 DEF Fitting
    <3>1. /\ q.slot \in 1 .. pid_table_len - 1 /\ pid_table[q.slot].ctx = a
          /\ a # NoActor
      BY PidAssumption DEF RegistryInv, PidInv, IssuedOK, LookupProcCtx, Fitting
    <3>2. own_pid[a].slot = q.slot
      BY <3>1 DEF RegistryInv, PidInv, SlotOwner
    <3>3. own_pid[a].slot # 0
      BY <3>1, <3>2 DEF RegistryInv, PidInv, PidTypeOK
    <3> QED  BY <3>3, SlotMeansLive DEF Spawn
  <2>5. Reaches' = [q \in Fitting \cup {w} |-> IF q = w THEN a ELSE Reaches[q]]
    <3>1. ASSUME NEW q \in Fitting'
          PROVE  LookupProcCtx(q)' = IF q = w THEN a ELSE Reaches[q]
      BY <2>2, <2>3, <2>4, <3>1 DEF Reaches
    <3> QED  BY <2>2, <3>1 DEF Reaches
  <2>6. DOMAIN Reaches = Fitting /\ a \notin { Reaches[q] : q \in Fitting }
    BY <2>4 DEF Reaches
  <2>7. Registry!Spawn(a, w)
    BY <2>2, <2>5, <2>6 DEF Registry!Spawn, Registry!Reached, Reaches
  <2> QED  BY <2>1, <2>7 DEF Registry!Next
<1> QED  BY <1>4, <1>5

(* A death (clear_pid) is a death of the registry, if the actor was in it.  *)
LEMMA DieRefines ==
    ASSUME RegistryInv, NEW a \in Actors, Die(a)
    PROVE  Registry!Next \/ UNCHANGED Reaches
<1>0. PICK w : w = OwnWord(a)
  OBVIOUS
<1>1. /\ w \in issued /\ w \in Issuable
      /\ w.slot = own_pid[a].slot /\ w.gen = pid_table[w.slot].gen
      /\ w.gen \in Nat
  <2>1. w \in issued /\ w \in Issuable
    BY <1>0 DEF RegistryInv, PidInv, IssuedOK, OwnIssued, Die
  <2>2. w.slot = own_pid[a].slot /\ w.gen = pid_table[w.slot].gen
    BY <1>0 DEF OwnWord
  <2> QED  BY <2>1, <2>2 DEF Issuable, GenWords
<1>2. /\ issued' = issued
      /\ \A q \in issued :
            pid_table'[q.slot] =
               IF q.slot = w.slot
               THEN [gen |-> pid_table[q.slot].gen, ctx |-> NoActor]
               ELSE pid_table[q.slot]
  BY <1>1, DieRegistryInv
<1>3. Fitting' = Fitting
  BY <1>2 DEF Fitting, FitsPid
<1>4. ASSUME NEW q \in issued, q.slot = w.slot
      PROVE  /\ LookupProcCtx(q)' = NoActor
             /\ q # w => LookupProcCtx(q) = NoActor
  <2>1. pid_table'[q.slot] = [gen |-> pid_table[q.slot].gen, ctx |-> NoActor]
    BY <1>2, <1>4
  <2>2. pid_table'[q.slot].ctx = NoActor
    BY <2>1
  <2>3. q \in Issuable
    BY DEF RegistryInv, PidInv, IssuedOK
  <2>4. q # w => q.gen # w.gen
    BY <1>1, <1>4, <2>3 DEF Issuable
  <2> QED  BY <1>1, <1>4, <2>2, <2>4 DEF LookupProcCtx
<1>5. ASSUME NEW q \in issued, q # w
      PROVE  LookupProcCtx(q)' = LookupProcCtx(q)
  <2>1. CASE q.slot = w.slot
    BY <1>4, <1>5, <2>1
  <2>2. CASE q.slot # w.slot
    BY <1>2, <2>2, SameEntrySameLookup
  <2> QED  BY <2>1, <2>2
<1>6. CASE ~ FitsPid(w.gen)
  <2>1. \A q \in Fitting : q \in issued /\ q # w
    BY <1>6 DEF Fitting
  <2> QED  BY <1>3, <1>5, <2>1 DEF Reaches
<1>7. CASE FitsPid(w.gen)
  <2>1. w \in Fitting
    BY <1>1, <1>7 DEF Fitting
  <2>2. LookupProcCtx(w) = a /\ a # NoActor
    BY <1>1, PidAssumption DEF LookupProcCtx, Die, RegistryInv, PidInv, OwnSlot
  <2>3. Reaches' = [Reaches EXCEPT ![w] = NoActor]
    <3>1. ASSUME NEW q \in Fitting
          PROVE  LookupProcCtx(q)' = IF q = w THEN NoActor ELSE LookupProcCtx(q)
      BY <1>1, <1>4, <1>5 DEF Fitting
    <3> QED  BY <1>3, <2>1, <3>1 DEF Reaches
  <2>4. Reaches[w] # NoActor /\ DOMAIN Reaches = Fitting
    BY <2>1, <2>2 DEF Reaches
  <2>5. Registry!Die(w)
    BY <2>3, <2>4 DEF Registry!Die, Reaches
  <2> QED  BY <2>1, <2>4, <2>5 DEF Registry!Next, Reaches
<1> QED  BY <1>6, <1>7

(* ImplementsRegistry: the pid table hands out every pid whose generation   *)
(* fits once, and such a pid reaches its actor from the spawn to the death  *)
(* and nobody afterwards, whatever becomes of the other slots, as long as   *)
(* no 64-bit generation wraps in use.                                       *)
THEOREM TableImplementsRegistry ==
    ASSUME MaxGen < WordMod - 1
    PROVE  LifeSpec => ImplementsRegistry
<1>1. RegistryInv /\ LifeNext => Registry!Next \/ UNCHANGED Reaches
  BY SpawnRefines, DieRefines DEF LifeNext
<1>2. UNCHANGED lifeVars => UNCHANGED Reaches
  BY DEF lifeVars, pidVars, LookupProcCtx, Reaches, Fitting
<1>3. RegistryInv /\ [LifeNext]_lifeVars
         => [Registry!Next]_[p \in Fitting |-> LookupProcCtx(p)]
  BY <1>1, <1>2 DEF Reaches
<1> QED  BY <1>3, InitRefines, RegistryConsistent, PTL
         DEF LifeSpec, ImplementsRegistry, Registry!Spec

-----------------------------------------------------------------------------
(* The mailbox.                                                             *)
RingNeverFull == MaxUnread < Ring
WaitsTakeWholeMessages == \A w \in Waits : DequeueArgCount(w) = Arity

-----------------------------------------------------------------------------
(* A cursor that has run past the end of the ring, or before its beginning, *)
(* by less than one turn.                                                   *)
LEMMA ModRing ==
    \A x \in Int :
        /\ 0 <= x /\ x < Ring => x % Ring = x
        /\ Ring <= x /\ x < Ring + Ring => x % Ring = x - Ring
        /\ x < 0 /\ x >= -Ring => x % Ring = x + Ring
<1>1. Ring \in Nat \ {0}
  BY MailboxAssumption
<1>2. ASSUME NEW R \in Nat \ {0}, NEW x \in Int
      PROVE  /\ 0 <= x /\ x < R => x % R = x
             /\ R <= x /\ x < R + R => x % R = x - R
             /\ x < 0 /\ x >= -R => x % R = x + R
  <2>1. 0 <= x /\ x < R => x % R = x
    OBVIOUS
  <2>2. R <= x /\ x < R + R => x % R = x - R
    OBVIOUS
  <2>3. x < 0 /\ x >= -R => x % R = x + R
    OBVIOUS
  <2> QED  BY <2>1, <2>2, <2>3
<1> QED  BY <1>1, <1>2

(* Where the words of the j-th message lie among the unread ones.           *)
LEMMA OffsetInMessage ==
    ASSUME NEW A \in Nat \ {0}, NEW n \in Nat, NEW j \in 1 .. n, NEW i \in 1 .. A
    PROVE  /\ (j - 1) * A \in Nat /\ (j - 1) * A + A <= n * A
           /\ (j - 1) * A + i - 1 \in 0 .. n * A - 1
<1>1. j - 1 \in Nat /\ (j - 1) + 1 <= n
  OBVIOUS
<1>2. ASSUME NEW k \in Nat, k + 1 <= n
      PROVE  k * A \in Nat /\ k * A + A <= n * A
  <2>1. k * A \in Nat /\ (k + 1) * A = k * A + A
    OBVIOUS
  <2>2. (k + 1) * A <= n * A
    BY <1>2
  <2> QED  BY <2>1, <2>2
<1>3. (j - 1) * A \in Nat /\ (j - 1) * A + A <= n * A
  BY <1>1, <1>2
<1> DEFINE x == (j - 1) * A
           y == n * A
<1>4. y \in Nat
  OBVIOUS
<1> HIDE DEF x, y
<1>5. x + i - 1 \in 0 .. y - 1
  BY <1>3, <1>4 DEF x, y
<1> QED  BY <1>3, <1>5 DEF x, y

(* Whole messages stay whole when one is added or taken.                    *)
LEMMA WholeCount ==
    ASSUME NEW A \in Nat \ {0}, NEW n \in Nat
    PROVE  /\ n * A \in Nat /\ (n * A) \div A = n
           /\ (n + 1) * A = n * A + A
           /\ n > 0 => (n - 1) * A = n * A - A
OBVIOUS

-----------------------------------------------------------------------------
(* The inductive invariant: as many words are unread as some number of      *)
(* messages has, and read from HEAD on they are those messages.             *)
Word(o) == slots[(head + o) % Ring]

MailInv ==
    /\ slots \in [0 .. Ring - 1 -> Firsts \cup Rest \cup {NoWord}]
    /\ head \in 0 .. Ring - 1 /\ tail \in 0 .. Ring - 1
    /\ state \in {"run", "wait", "suspended"}
    /\ wait \in Waits
    /\ \A i \in DOMAIN got : got[i] \in Firsts \cup Rest
    /\ Unread = (Unread \div Arity) * Arity /\ Unread <= MaxUnread
    /\ \A j \in 1 .. Unread \div Arity : QueuedMessage(j) \in Messages

(* The unread words, by where the cursors are.                              *)
Cursors == head \in 0 .. Ring - 1 /\ tail \in 0 .. Ring - 1
UnreadFacts ==
    /\ Unread = IF tail >= head THEN tail - head ELSE tail - head + Ring
    /\ Unread \in 0 .. Ring - 1
    /\ Unread = 0 <=> head = tail

(* They are those from HEAD to TAIL, across the end of the ring.            *)
LEMMA UnreadIs == Cursors => UnreadFacts
<1>1. Ring \in Nat \ {0}
  BY MailboxAssumption
<1>2. ASSUME Cursors  PROVE UnreadFacts
  <2>1. tail - head \in Int
    BY <1>1, <1>2 DEF Cursors
  <2> QED  BY <1>1, <1>2, <2>1, ModRing DEF Unread, Cursors, UnreadFacts
<1> QED  BY <1>2

(* And in the next state.                                                   *)
LEMMA UnreadNext == Cursors' => UnreadFacts'
BY UnreadIs, PTL

(* Where the word `o' after HEAD lies.                                      *)
LEMMA CellIs ==
    ASSUME NEW h \in 0 .. Ring - 1, NEW o \in 0 .. Ring - 1
    PROVE  /\ (h + o) % Ring = IF h + o < Ring THEN h + o ELSE h + o - Ring
           /\ (h + o) % Ring \in 0 .. Ring - 1
<1>1. Ring \in Nat \ {0} /\ h + o \in Int
  BY MailboxAssumption
<1> QED  BY <1>1, ModRing

(* A message is its words in the ring.                                      *)
MessagesAreWords ==
    \A j \in Nat \ {0} :
        QueuedMessage(j) = [i \in 1 .. Arity |-> Word((j - 1) * Arity + i - 1)]

(* The two ways of counting from HEAD agree.                                *)
LEMMA MessageWords == head \in Int => MessagesAreWords
<1> SUFFICES ASSUME head \in Int, NEW j \in Nat \ {0}
             PROVE  QueuedMessage(j)
                      = [i \in 1 .. Arity |-> Word((j - 1) * Arity + i - 1)]
  BY DEF MessagesAreWords
<1> DEFINE x == (j - 1) * Arity
<1>1. x \in Int
  BY MailboxAssumption
<1> HIDE DEF x
<1>2. \A i \in 1 .. Arity : head + x + i - 1 = head + (x + i - 1)
  BY <1>1
<1>3. QueuedMessage(j) = [i \in 1 .. Arity |-> slots[(head + x + i - 1) % Ring]]
  BY DEF QueuedMessage, x
<1>4. QueuedMessage(j) = [i \in 1 .. Arity |-> Word(x + i - 1)]
  BY <1>2, <1>3 DEF Word
<1> QED  BY <1>4 DEF x

(* And in the next state.                                                   *)
LEMMA MessageWordsNext == (head \in Int)' => MessagesAreWords'
BY MessageWords, PTL

-----------------------------------------------------------------------------
(* compile_send keeps every unread word and adds those of the message after *)
(* them: the cells it stores to are none of the unread ones.                *)
LEMMA SendFills ==
    ASSUME MailInv, RingNeverFull, NEW m \in Messages, Send(m)
    PROVE  /\ Cursors' /\ Unread' = Unread + Arity
           /\ \A o \in 0 .. Unread + Arity - 1 :
                 Word(o)' = IF o < Unread THEN Word(o) ELSE m[o - Unread + 1]
<1>1. /\ Ring \in Nat \ {0} /\ Arity \in 1 .. Ring /\ MaxUnread \in Nat
      /\ MaxUnread < Ring
  BY MailboxAssumption DEF RingNeverFull
<1>2. Cursors /\ UnreadFacts
  BY UnreadIs DEF MailInv, Cursors
<1>3. /\ head \in 0 .. Ring - 1 /\ tail \in 0 .. Ring - 1
      /\ Unread \in 0 .. Ring - 1 /\ Unread + Arity <= Ring - 1
      /\ Unread = IF tail >= head THEN tail - head ELSE tail - head + Ring
  BY <1>1, <1>2 DEF Send, Cursors, UnreadFacts
<1>4. head' = head /\ tail' = (tail + Arity) % Ring
  BY DEF Send
<1>5. tail' = IF tail + Arity < Ring THEN tail + Arity ELSE tail + Arity - Ring
  BY <1>1, <1>3, <1>4, ModRing
<1>6. Cursors'
  BY <1>1, <1>3, <1>4, <1>5 DEF Cursors
<1>7. Unread' = IF tail' >= head' THEN tail' - head' ELSE tail' - head' + Ring
  BY <1>6, UnreadNext DEF UnreadFacts
<1>8. Unread' = Unread + Arity
  BY <1>1, <1>3, <1>4, <1>5, <1>7
<1>9. ASSUME NEW o \in 0 .. Unread + Arity - 1
      PROVE  Word(o)' = IF o < Unread THEN Word(o) ELSE m[o - Unread + 1]
  <2> DEFINE c == (head + o) % Ring
             k == (c - tail) % Ring
  <2>1. o \in 0 .. Ring - 1
    BY <1>1, <1>3
  <2>2. /\ c = IF head + o < Ring THEN head + o ELSE head + o - Ring
        /\ c \in 0 .. Ring - 1
    BY <1>3, <2>1, CellIs
  <2>3. c - tail \in Int /\ c - tail < Ring /\ c - tail >= -Ring
    BY <1>1, <1>3, <2>2
  <2>4. k = IF c - tail >= 0 THEN c - tail ELSE c - tail + Ring
    BY <1>1, <2>3, ModRing
  <2>5. slots'[c] = IF k < Arity THEN m[k + 1] ELSE slots[c]
    BY <2>2 DEF Send
  <2>6. Word(o)' = slots'[c] /\ Word(o) = slots[c]
    BY <1>4 DEF Word
  <2> HIDE DEF c, k
  <2>7. k = IF o < Unread THEN o - Unread + Ring ELSE o - Unread
    BY <1>1, <1>3, <2>1, <2>2, <2>4
  <2>8. CASE o < Unread
    <3>1. ~ k < Arity
      BY <1>1, <1>3, <2>1, <2>7, <2>8
    <3> QED  BY <2>5, <2>6, <2>8, <3>1
  <2>9. CASE ~ o < Unread
    <3>1. k < Arity /\ k + 1 = o - Unread + 1
      BY <1>1, <1>3, <2>1, <2>7, <2>9
    <3> QED  BY <2>5, <2>6, <2>9, <3>1
  <2> QED  BY <2>8, <2>9
<1> QED  BY <1>6, <1>8, <1>9

(* A wait that finds the ring not empty steps over the words of the oldest  *)
(* message and over no other.                                               *)
LEMMA DequeueSkips ==
    ASSUME MailInv, WaitsTakeWholeMessages, head # tail, Dequeue,
           UNCHANGED << slots, tail >>
    PROVE  /\ Cursors' /\ Arity <= Unread /\ Unread' = Unread - Arity
           /\ \A o \in 0 .. Unread - Arity - 1 : Word(o)' = Word(o + Arity)
<1>1. Ring \in Nat \ {0} /\ Arity \in 1 .. Ring
  BY MailboxAssumption
<1>2. Cursors /\ UnreadFacts
  BY UnreadIs DEF MailInv, Cursors
<1>3. /\ head \in 0 .. Ring - 1 /\ tail \in 0 .. Ring - 1
      /\ Unread \in 1 .. Ring - 1
      /\ Unread = IF tail >= head THEN tail - head ELSE tail - head + Ring
  BY <1>1, <1>2 DEF Cursors, UnreadFacts
<1>4. Arity <= Unread
  <2> DEFINE n == Unread \div Arity
  <2>1. Unread = n * Arity
    BY DEF MailInv
  <2>2. n \in Nat
    BY <1>1, <1>3
  <2> HIDE DEF n
  <2>3. n # 0
    BY <1>1, <1>3, <2>1
  <2>4. n * Arity = (n - 1) * Arity + Arity /\ (n - 1) * Arity \in Nat
    BY <1>1, <2>2, <2>3
  <2> QED  BY <1>1, <2>1, <2>4
<1>5. head' = (head + Arity) % Ring /\ tail' = tail
  BY DEF Dequeue, WaitsTakeWholeMessages, MailInv
<1>6. head' = IF head + Arity < Ring THEN head + Arity ELSE head + Arity - Ring
  BY <1>1, <1>3, <1>5, ModRing
<1>7. Cursors'
  BY <1>1, <1>3, <1>5, <1>6 DEF Cursors
<1>8. Unread' = IF tail' >= head' THEN tail' - head' ELSE tail' - head' + Ring
  BY <1>7, UnreadNext DEF UnreadFacts
<1>9. Unread' = Unread - Arity
  BY <1>1, <1>3, <1>4, <1>5, <1>6, <1>8
<1>10. ASSUME NEW o \in 0 .. Unread - Arity - 1
       PROVE  Word(o)' = Word(o + Arity)
  <2>1. o \in 0 .. Ring - 1 /\ o + Arity \in 0 .. Ring - 1
    BY <1>1, <1>3, <1>4
  <2>2. (head + (o + Arity)) % Ring
          = IF head + (o + Arity) < Ring
              THEN head + (o + Arity) ELSE head + (o + Arity) - Ring
    BY <1>3, <2>1, CellIs
  <2>3. head' \in 0 .. Ring - 1
    BY <1>7 DEF Cursors
  <2> DEFINE h == head'
  <2> HIDE DEF h
  <2>4. (h + o) % Ring = IF h + o < Ring THEN h + o ELSE h + o - Ring
    BY <2>1, <2>3, CellIs DEF h
  <2>5. h = IF head + Arity < Ring THEN head + Arity ELSE head + Arity - Ring
    BY <1>6 DEF h
  <2>6. (h + o) % Ring = (head + (o + Arity)) % Ring
    BY <1>1, <1>3, <1>4, <2>1, <2>2, <2>4, <2>5
  <2>7. Word(o)' = slots[(h + o) % Ring]
    BY DEF Word, h
  <2> QED  BY <2>6, <2>7 DEF Word
<1> QED  BY <1>4, <1>7, <1>9, <1>10

-----------------------------------------------------------------------------
(* The same in messages.  How many are unread:                              *)
Unreads == Unread \div Arity

(* A send appends its message to those the ring holds.                      *)
LEMMA SendAppends ==
    ASSUME MailInv, RingNeverFull, NEW m \in Messages, Send(m)
    PROVE  /\ Unreads \in Nat /\ Unreads' = Unreads + 1
           /\ Unread' = Unreads' * Arity
           /\ \A j \in 1 .. Unreads + 1 :
                 QueuedMessage(j)' = IF j <= Unreads THEN QueuedMessage(j) ELSE m
<1> DEFINE n == Unreads
           u == Unread
<1>1. Arity \in Nat \ {0} /\ Ring \in Nat
  BY MailboxAssumption
<1>2. u = n * Arity /\ head \in Int
  BY <1>1 DEF MailInv, Unreads
<1>3. u \in Nat /\ n \in Nat
  <2>1. Cursors /\ UnreadFacts
    BY UnreadIs DEF MailInv, Cursors
  <2> QED  BY <1>1, <2>1 DEF UnreadFacts, Unreads
<1>4. /\ Cursors' /\ Unread' = u + Arity
      /\ \A o \in 0 .. u + Arity - 1 :
            Word(o)' = IF o < u THEN Word(o) ELSE m[o - u + 1]
  BY SendFills
<1>5. MessagesAreWords /\ MessagesAreWords'
  BY <1>1, <1>2, <1>4, MessageWords, MessageWordsNext DEF Cursors
<1>6. Unreads' = Unread' \div Arity
  BY DEF Unreads
<1> HIDE DEF n, u
<1>7. /\ (n + 1) * Arity = n * Arity + Arity
      /\ ((n + 1) * Arity) \div Arity = n + 1
  BY <1>1, <1>3, WholeCount
<1>8. Unreads' = n + 1 /\ Unread' = (n + 1) * Arity
  BY <1>2, <1>4, <1>6, <1>7
<1>9. ASSUME NEW j \in 1 .. n + 1
      PROVE  QueuedMessage(j)' = IF j <= n THEN QueuedMessage(j) ELSE m
  <2> DEFINE x == (j - 1) * Arity
  <2>1. /\ QueuedMessage(j) = [i \in 1 .. Arity |-> Word(x + i - 1)]
        /\ QueuedMessage(j)' = [i \in 1 .. Arity |-> Word(x + i - 1)']
    BY <1>3, <1>5 DEF MessagesAreWords
  <2>2. CASE j <= n
    <3>1. j \in 1 .. n
      BY <1>3, <2>2
    <3>2. \A i \in 1 .. Arity : x + i - 1 \in 0 .. n * Arity - 1
      BY <1>1, <1>3, <3>1, OffsetInMessage
    <3>3. ASSUME NEW i \in 1 .. Arity
          PROVE  Word(x + i - 1)' = Word(x + i - 1)
      <4> DEFINE o == x + i - 1
      <4>1. o \in 0 .. u - 1
        BY <1>2, <3>2
      <4> HIDE DEF o
      <4>2. o \in 0 .. u + Arity - 1 /\ o < u
        BY <1>1, <1>3, <4>1
      <4>3. Word(o)' = Word(o)
        BY <1>4, <4>2
      <4> QED  BY <4>3 DEF o
    <3> QED  BY <2>1, <2>2, <3>3
  <2>3. CASE ~ j <= n
    <3>1. j = n + 1 /\ x = u
      <4>1. j = n + 1
        BY <1>3, <2>3
      <4>2. j - 1 = n
        BY <1>3, <4>1
      <4> QED  BY <1>2, <4>1, <4>2
    <3>2. ASSUME NEW i \in 1 .. Arity  PROVE Word(x + i - 1)' = m[i]
      <4> DEFINE o == x + i - 1
      <4>1. x = u
        BY <3>1
      <4> HIDE DEF x
      <4>2. /\ o \in 0 .. u + Arity - 1 /\ ~ o < u
            /\ o - u + 1 = i
        BY <1>1, <1>3, <4>1
      <4> HIDE DEF o
      <4>3. Word(o)' = m[o - u + 1]
        BY <1>4, <4>2
      <4> QED  BY <4>2, <4>3 DEF o
    <3>3. m = [i \in 1 .. Arity |-> m[i]]
      BY DEF Messages
    <3> QED  BY <2>1, <2>3, <3>2, <3>3
  <2> QED  BY <2>2, <2>3
<1> QED  BY <1>3, <1>8, <1>9 DEF n

(* A wait that finds a message takes the oldest off, whole.                 *)
LEMMA DequeuePops ==
    ASSUME MailInv, WaitsTakeWholeMessages, head # tail, Dequeue,
           UNCHANGED << slots, tail >>
    PROVE  /\ Unreads \in Nat \ {0} /\ Unreads' = Unreads - 1
           /\ Cursors' /\ Unread' = Unreads' * Arity /\ Unread' <= Unread
           /\ \A j \in 1 .. Unreads - 1 : QueuedMessage(j)' = QueuedMessage(j + 1)
<1> DEFINE n == Unreads
           u == Unread
<1>1. Arity \in Nat \ {0} /\ Ring \in Nat
  BY MailboxAssumption
<1>2. u = n * Arity /\ head \in Int
  BY <1>1 DEF MailInv, Unreads
<1>3. u \in Nat /\ n \in Nat
  <2>1. Cursors /\ UnreadFacts
    BY UnreadIs DEF MailInv, Cursors
  <2> QED  BY <1>1, <2>1 DEF UnreadFacts, Unreads
<1>4. /\ Cursors' /\ Arity <= u /\ Unread' = u - Arity
      /\ \A o \in 0 .. u - Arity - 1 : Word(o)' = Word(o + Arity)
  BY DequeueSkips
<1>5. MessagesAreWords /\ MessagesAreWords'
  BY <1>1, <1>2, <1>4, MessageWords, MessageWordsNext DEF Cursors
<1>6. Unreads' = Unread' \div Arity
  BY DEF Unreads
<1> HIDE DEF n, u
<1>7. n # 0
  BY <1>1, <1>2, <1>4
<1>8. PICK k \in Nat : n = k + 1
  <2>1. n - 1 \in Nat /\ n = (n - 1) + 1
    BY <1>3, <1>7
  <2> QED  BY <2>1
<1>9. k * Arity \in Nat /\ (k * Arity) \div Arity = k /\ n * Arity = k * Arity + Arity
  BY <1>1, <1>8, WholeCount
<1>10. Unread' = k * Arity /\ Unread' <= u
  <2> DEFINE y == k * Arity
  <2>1. y \in Nat /\ u = y + Arity
    BY <1>2, <1>9
  <2> HIDE DEF y
  <2>2. Unread' = y /\ Unread' <= u
    BY <1>1, <1>3, <1>4, <2>1
  <2> QED  BY <2>2 DEF y
<1>11. Unreads' = k /\ n - 1 = k
  BY <1>6, <1>8, <1>9, <1>10
<1>12. ASSUME NEW j \in 1 .. k  PROVE QueuedMessage(j)' = QueuedMessage(j + 1)
  <2> DEFINE x == (j - 1) * Arity
             z == ((j + 1) - 1) * Arity
  <2>1. /\ QueuedMessage(j)' = [i \in 1 .. Arity |-> Word(x + i - 1)']
        /\ QueuedMessage(j + 1) = [i \in 1 .. Arity |-> Word(z + i - 1)]
    <3>1. j \in Nat \ {0} /\ j + 1 \in Nat \ {0}
      BY <1>8
    <3>2. QueuedMessage(j)' = [i \in 1 .. Arity |-> Word(x + i - 1)']
      BY <1>5, <3>1 DEF MessagesAreWords
    <3>3. QueuedMessage(j + 1) = [i \in 1 .. Arity |-> Word(z + i - 1)]
      BY <1>5, <3>1 DEF MessagesAreWords
    <3> QED  BY <3>2, <3>3
  <2>2. x \in Nat /\ z = x + Arity
    <3>1. j - 1 \in Nat /\ (j + 1) - 1 = (j - 1) + 1
      BY <1>8
    <3>2. ((j - 1) + 1) * Arity = (j - 1) * Arity + Arity
      BY <1>1, <3>1, WholeCount
    <3>3. x \in Nat
      BY <1>1, <3>1, WholeCount
    <3> QED  BY <3>1, <3>2, <3>3
  <2>3. \A i \in 1 .. Arity : x + i - 1 \in 0 .. k * Arity - 1
    BY <1>1, <1>8, OffsetInMessage
  <2>4. k * Arity = u - Arity
    BY <1>4, <1>10
  <2> HIDE DEF x, z
  <2>5. ASSUME NEW i \in 1 .. Arity
        PROVE  Word(x + i - 1)' = Word(z + i - 1)
    <3> DEFINE o == x + i - 1
    <3>1. o \in 0 .. u - Arity - 1
      BY <2>3, <2>4
    <3>2. o + Arity = z + i - 1
      BY <1>1, <2>2
    <3> HIDE DEF o
    <3>3. Word(o)' = Word(o + Arity)
      BY <1>4, <3>1
    <3> QED  BY <3>2, <3>3 DEF o
  <2> QED  BY <2>1, <2>5
<1> QED  BY <1>3, <1>4, <1>7, <1>10, <1>11, <1>12 DEF n, u

-----------------------------------------------------------------------------
(* The fresh ring is the empty queue.                                       *)
LEMMA MailInvInit == MailInit => MailInv /\ Unreads = 0
<1> SUFFICES ASSUME MailInit  PROVE MailInv /\ Unreads = 0
  OBVIOUS
<1>1. Ring \in Nat \ {0} /\ Arity \in Nat \ {0} /\ MaxUnread \in Nat
  BY MailboxAssumption
<1>2. Unread = 0
  BY <1>1, ModRing DEF MailInit, Unread
<1>3. Unread \div Arity = 0
  BY <1>1, <1>2
<1>4. Unread = (Unread \div Arity) * Arity
  BY <1>1, <1>2, <1>3
<1>5. \A j \in 1 .. Unread \div Arity : QueuedMessage(j) \in Messages
  BY <1>3
<1> QED  BY <1>1, <1>2, <1>3, <1>4, <1>5 DEF MailInit, MailInv, Unreads

(* compile_send leaves a ring of whole messages.                            *)
LEMMA SendKeeps ==
    ASSUME MailInv, RingNeverFull, NEW m \in Messages, Send(m)
    PROVE  MailInv'
<1>1. /\ Unreads \in Nat /\ Unreads' = Unreads + 1
      /\ Unread' = Unreads' * Arity
      /\ \A j \in 1 .. Unreads + 1 :
            QueuedMessage(j)' = IF j <= Unreads THEN QueuedMessage(j) ELSE m
  BY SendAppends
<1>2. Cursors' /\ Unread' = Unread + Arity
  BY SendFills
<1>3. slots' \in [0 .. Ring - 1 -> Firsts \cup Rest \cup {NoWord}]
  <2>1. ASSUME NEW i \in 0 .. Ring - 1
        PROVE  slots'[i] \in Firsts \cup Rest \cup {NoWord}
    <3> DEFINE k == (i - tail) % Ring
    <3>1. Ring \in Nat \ {0} /\ Arity \in 1 .. Ring /\ tail \in 0 .. Ring - 1
      BY MailboxAssumption DEF MailInv
    <3>2. k \in Nat
      BY <3>1
    <3>3. slots'[i] = IF k < Arity THEN m[k + 1] ELSE slots[i]
      BY DEF Send
    <3> HIDE DEF k
    <3>4. k < Arity => k + 1 \in 1 .. Arity
      BY <3>1, <3>2
    <3>5. \A p \in 1 .. Arity : m[p] \in Firsts \cup Rest
      BY DEF Messages
    <3> QED  BY <3>3, <3>4, <3>5 DEF MailInv
  <2> QED  BY <2>1 DEF Send
<1>4. \A j \in 1 .. Unreads' : QueuedMessage(j)' \in Messages
  <2>1. ASSUME NEW j \in 1 .. Unreads + 1  PROVE QueuedMessage(j)' \in Messages
    <3>1. j <= Unreads => j \in 1 .. Unreads
      BY <1>1
    <3>2. \A p \in 1 .. Unreads : QueuedMessage(p) \in Messages
      BY DEF MailInv, Unreads
    <3> QED  BY <1>1, <3>1, <3>2
  <2> QED  BY <1>1, <2>1
<1>5. Unread' <= MaxUnread
  BY <1>2 DEF Send
<1>6. /\ state' \in {"run", "wait", "suspended"} /\ wait' \in Waits
      /\ \A i \in DOMAIN got' : got'[i] \in Firsts \cup Rest
  BY DEF MailInv, Send
<1> QED  BY <1>1, <1>2, <1>3, <1>4, <1>5, <1>6 DEF MailInv, Cursors, Unreads

(* The oldest message is the one at HEAD.                                   *)
LEMMA OldestMessage ==
    ASSUME MailInv
    PROVE  QueuedMessage(1) = [i \in 1 .. Arity |-> slots[(head + i - 1) % Ring]]
<1>1. Arity \in Nat /\ Ring \in Nat /\ head \in Int
  BY MailboxAssumption DEF MailInv
<1>2. (1 - 1) * Arity = 0
  BY <1>1
<1>3. \A i \in 1 .. Arity : head + (1 - 1) * Arity + i - 1 = head + i - 1
  BY <1>1, <1>2
<1> QED  BY <1>3 DEF QueuedMessage

(* So does the wait block, whether it dispatches or drops what it takes.    *)
LEMMA DequeueKeeps ==
    ASSUME MailInv, WaitsTakeWholeMessages, head # tail, Dequeue,
           UNCHANGED << slots, tail, wait >>,
           state' \in {"run", "wait", "suspended"},
           got' \in {got, QueuedMessage(1)}
    PROVE  MailInv'
<1>1. /\ Unreads \in Nat \ {0} /\ Unreads' = Unreads - 1
      /\ Cursors' /\ Unread' = Unreads' * Arity /\ Unread' <= Unread
      /\ \A j \in 1 .. Unreads - 1 : QueuedMessage(j)' = QueuedMessage(j + 1)
  BY DequeuePops
<1>2. \A p \in 1 .. Unreads : QueuedMessage(p) \in Messages
  BY DEF MailInv, Unreads
<1>3. \A j \in 1 .. Unreads' : QueuedMessage(j)' \in Messages
  BY <1>1, <1>2
<1>4. Unread' <= MaxUnread
  <2>1. Cursors /\ UnreadFacts
    BY UnreadIs DEF MailInv, Cursors
  <2>2. Ring \in Nat /\ MaxUnread \in Nat /\ Unread \in Nat
    BY <2>1, MailboxAssumption DEF UnreadFacts
  <2>3. Cursors' /\ UnreadFacts'
    BY <1>1, UnreadNext
  <2>4. Unread' \in Nat
    BY <2>2, <2>3 DEF UnreadFacts
  <2>5. Unread <= MaxUnread
    BY DEF MailInv
  <2> QED  BY <1>1, <2>2, <2>4, <2>5
<1>5. \A i \in DOMAIN got' : got'[i] \in Firsts \cup Rest
  <2>1. QueuedMessage(1) \in Messages
    BY <1>1, <1>2
  <2>2. \A i \in DOMAIN QueuedMessage(1) : QueuedMessage(1)[i] \in Firsts \cup Rest
    BY <2>1 DEF Messages
  <2> QED  BY <2>2 DEF MailInv
<1> QED  BY <1>1, <1>3, <1>4, <1>5 DEF MailInv, Cursors, Unreads

-----------------------------------------------------------------------------
(* Every step of the mailbox keeps the ring a row of whole messages.        *)
LEMMA MailInvStep ==
    ASSUME RingNeverFull, WaitsTakeWholeMessages
    PROVE  MailInv /\ [MailNext]_mailVars => MailInv'
<1> SUFFICES ASSUME MailInv, [MailNext]_mailVars
             PROVE  MailInv'
  OBVIOUS
<1>1. CASE UNCHANGED << slots, head, tail, got >>
           /\ state' \in {"run", "wait", "suspended"} /\ wait' \in Waits
  BY <1>1 DEF MailInv, Unread, QueuedMessage
<1>2. ASSUME NEW m \in Messages, Send(m)  PROVE MailInv'
  BY <1>2, SendKeeps
<1>3. CASE \E w \in Waits : StartWait(w)
  BY <1>1, <1>3 DEF StartWait
<1>4. CASE Suspend
  BY <1>1, <1>4 DEF Suspend, MailInv
<1>5. CASE Dispatch
  <2>1. DequeueArgCount(wait) = Arity
    BY DEF WaitsTakeWholeMessages, MailInv
  <2>2. got' = QueuedMessage(1)
    BY <1>5, <2>1, OldestMessage DEF Dispatch
  <2> QED  BY <1>5, <2>2, DequeueKeeps DEF Dispatch
<1>6. CASE Drop
  BY <1>6, DequeueKeeps DEF Drop, MailInv
<1>7. CASE UNCHANGED mailVars
  BY <1>1, <1>7 DEF mailVars, MailInv
<1> QED  BY <1>2, <1>3, <1>4, <1>5, <1>6, <1>7 DEF MailNext, Receiver

(* A mailbox whose ring cannot fill up and whose waits take what its        *)
(* senders send never holds anything but whole messages.                    *)
THEOREM MailInvariant ==
    ASSUME RingNeverFull, WaitsTakeWholeMessages
    PROVE  MailSpec => []MailInv
<1>1. MailInit => MailInv
  BY MailInvInit
<1>2. MailInv /\ [MailNext]_mailVars => MailInv'
  BY MailInvStep
<1> QED  BY <1>1, <1>2, PTL DEF MailSpec

(* No handler ever binds a word that nobody sent, and the cursors of the    *)
(* ring stay inside it, however often it wraps around.                      *)
THEOREM MailboxTypeCorrect ==
    ASSUME RingNeverFull, WaitsTakeWholeMessages
    PROVE  MailSpec => []MailboxTypeOK
<1>1. MailInv => MailboxTypeOK
  BY DEF MailInv, MailboxTypeOK
<1>2. MailSpec => []MailInv
  BY MailInvariant
<1> QED  BY <1>1, <1>2, PTL

-----------------------------------------------------------------------------
(* The ring as a queue, message by message.                                 *)
Held == [j \in 1 .. Unread \div Arity |-> QueuedMessage(j)]

(* Sequences that differ by one element at the end, or at the front.        *)
LEMMA AppendIs ==
    ASSUME NEW S, NEW n \in Nat, NEW q \in [1 .. n -> S], NEW m \in S,
           NEW r \in [1 .. n + 1 -> S],
           \A j \in 1 .. n + 1 : r[j] = IF j <= n THEN q[j] ELSE m
    PROVE  r = Append(q, m)
<1>1. q \in Seq(S) /\ Len(q) = n
  OBVIOUS
<1>2. r \in Seq(S) /\ Len(r) = n + 1
  OBVIOUS
<1>3. /\ Append(q, m) \in Seq(S) /\ Len(Append(q, m)) = n + 1
      /\ \A j \in 1 .. n : Append(q, m)[j] = q[j]
      /\ Append(q, m)[n + 1] = m
  BY <1>1, AppendProperties
<1>4. ASSUME NEW j \in 1 .. n + 1  PROVE r[j] = Append(q, m)[j]
  <2>1. CASE j <= n
    BY <1>3, <2>1
  <2>2. CASE ~ j <= n
    <3>1. j = n + 1
      BY <2>2
    <3> QED  BY <1>3, <2>2, <3>1
  <2> QED  BY <2>1, <2>2
<1> QED  BY <1>2, <1>3, <1>4, SeqEqual

(* The other end.                                                           *)
LEMMA TailIs ==
    ASSUME NEW S, NEW n \in Nat \ {0}, NEW q \in [1 .. n -> S],
           NEW r \in [1 .. n - 1 -> S],
           \A j \in 1 .. n - 1 : r[j] = q[j + 1]
    PROVE  q # << >> /\ r = Tail(q) /\ Head(q) = q[1]
<1>1. q \in Seq(S) /\ Len(q) = n /\ q # << >>
  OBVIOUS
<1>2. n - 1 \in Nat
  OBVIOUS
<1>3. r \in Seq(S) /\ Len(r) = n - 1
  BY <1>2
<1>4. /\ Tail(q) \in Seq(S) /\ Len(Tail(q)) = n - 1
      /\ \A j \in 1 .. n - 1 : Tail(q)[j] = q[j + 1]
      /\ Head(q) = q[1]
  BY <1>1, HeadTailProperties
<1>5. r = Tail(q)
  BY <1>3, <1>4, SeqEqual
<1> QED  BY <1>1, <1>4, <1>5

(* In a mailbox that keeps its invariant the ring holds a sequence.         *)
LEMMA HeldIs == MailInv => Held \in [1 .. Unreads -> Messages]
BY DEF Held, Unreads, MailInv

(* And in the next state.                                                   *)
LEMMA HeldNext == MailInv' => (Held \in [1 .. Unreads -> Messages])'
BY HeldIs, PTL

-----------------------------------------------------------------------------
(* Every step of the mailbox is one of the queue, or none of its business.  *)
LEMMA QueueStep ==
    ASSUME RingNeverFull, WaitsTakeWholeMessages,
           MailInv, MailInv', [MailNext]_mailVars
    PROVE  [ \/ \E m \in Messages : Held' = Append(Held, m) /\ UNCHANGED got
             \/ Held # << >> /\ got' = Head(Held) /\ Held' = Tail(Held)
             \/ Held # << >> /\ Held' = Tail(Held) /\ UNCHANGED got
           ]_<< Held, got >>
<1>1. CASE UNCHANGED << slots, head, tail, got >>
  BY <1>1 DEF Held, Unread, QueuedMessage
<1>2. Held \in [1 .. Unreads -> Messages] /\ Held' \in [1 .. Unreads' -> Messages]
  BY HeldIs, HeldNext
<1>3. /\ \A j \in 1 .. Unreads : Held[j] = QueuedMessage(j)
      /\ \A j \in 1 .. Unreads' : Held'[j] = QueuedMessage(j)'
  BY DEF Held, Unreads
<1>4. ASSUME NEW m \in Messages, Send(m)
      PROVE  Held' = Append(Held, m) /\ UNCHANGED got
  <2>1. /\ Unreads \in Nat /\ Unreads' = Unreads + 1
        /\ \A j \in 1 .. Unreads + 1 :
              QueuedMessage(j)' = IF j <= Unreads THEN QueuedMessage(j) ELSE m
    BY <1>4, SendAppends
  <2>2. ASSUME NEW j \in 1 .. Unreads + 1
        PROVE  Held'[j] = IF j <= Unreads THEN Held[j] ELSE m
    <3>1. j <= Unreads => j \in 1 .. Unreads
      BY <2>1
    <3> QED  BY <1>3, <2>1, <3>1
  <2> DEFINE n == Unreads
             q == Held
             r == Held'
  <2>3. n \in Nat /\ q \in [1 .. n -> Messages] /\ r \in [1 .. n + 1 -> Messages]
    BY <1>2, <2>1
  <2>4. \A j \in 1 .. n + 1 : r[j] = IF j <= n THEN q[j] ELSE m
    BY <2>2
  <2> HIDE DEF n, q, r
  <2>5. r = Append(q, m)
    BY <2>3, <2>4, AppendIs
  <2> QED  BY <1>4, <2>5 DEF Send, q, r
<1>5. ASSUME head # tail, Dequeue, UNCHANGED << slots, tail >>
      PROVE  Held # << >> /\ Held' = Tail(Held) /\ Head(Held) = QueuedMessage(1)
  <2>1. /\ Unreads \in Nat \ {0} /\ Unreads' = Unreads - 1
        /\ \A j \in 1 .. Unreads - 1 : QueuedMessage(j)' = QueuedMessage(j + 1)
    BY <1>5, DequeuePops
  <2>2. ASSUME NEW j \in 1 .. Unreads - 1  PROVE Held'[j] = Held[j + 1]
    <3>1. j + 1 \in 1 .. Unreads
      BY <2>1
    <3> QED  BY <1>3, <2>1, <3>1
  <2>3. Held[1] = QueuedMessage(1)
    BY <1>3, <2>1
  <2> DEFINE n == Unreads
             q == Held
             r == Held'
  <2>4. /\ n \in Nat \ {0} /\ q \in [1 .. n -> Messages]
        /\ r \in [1 .. n - 1 -> Messages]
    BY <1>2, <2>1
  <2>5. \A j \in 1 .. n - 1 : r[j] = q[j + 1]
    BY <2>2
  <2> HIDE DEF n, q, r
  <2>6. q # << >> /\ r = Tail(q) /\ Head(q) = q[1]
    BY <2>4, <2>5, TailIs
  <2> QED  BY <2>3, <2>6 DEF q, r
<1>6. CASE Dispatch
  <2>1. DequeueArgCount(wait) = Arity
    BY DEF WaitsTakeWholeMessages, MailInv
  <2>2. got' = QueuedMessage(1)
    BY <1>6, <2>1, OldestMessage DEF Dispatch
  <2> QED  BY <1>5, <1>6, <2>2 DEF Dispatch
<1>7. CASE Drop
  BY <1>5, <1>7 DEF Drop
<1>8. CASE \E w \in Waits : StartWait(w)
  BY <1>1, <1>8 DEF StartWait
<1>9. CASE Suspend
  BY <1>1, <1>9 DEF Suspend
<1>10. CASE UNCHANGED mailVars
  BY <1>1, <1>10 DEF mailVars
<1> QED  BY <1>4, <1>6, <1>7, <1>8, <1>9, <1>10 DEF MailNext, Receiver

(* The mailbox implements the queue: messages arrive whole, in the order    *)
(* they were sent, and what a wait binds is the oldest one, words of no     *)
(* other mixed in - wherever in the ring it lies.                           *)
THEOREM MailboxImplementsQueue ==
    ASSUME RingNeverFull, WaitsTakeWholeMessages
    PROVE  MailSpec => ImplementsQueue
<1>1. MailInit => Queue!Init
  <2> SUFFICES ASSUME MailInit  PROVE Held = << >> /\ got = << >>
    BY DEF Queue!Init, Held
  <2>1. Unread \div Arity = 0
    BY MailInvInit DEF Unreads
  <2> QED  BY <2>1 DEF MailInit, Held
<1>2. MailInv /\ MailInv' /\ [MailNext]_mailVars
        => [Queue!Send \/ Queue!Receive \/ Queue!Discard]_<< Held, got >>
  BY QueueStep DEF Queue!Send, Queue!Receive, Queue!Discard, Held
<1>3. MailSpec => []MailInv
  BY MailInvariant
<1> QED  BY <1>1, <1>2, <1>3, PTL DEF MailSpec, ImplementsQueue, Queue!Spec, Held

(* What a guard or a filter is compared with is always the first word of a  *)
(* message, never one out of the middle of it.                              *)
THEOREM DiscriminantIsFirstWord ==
    ASSUME RingNeverFull, WaitsTakeWholeMessages
    PROVE  MailSpec => [](head # tail => Discriminant(wait) \in Firsts)
<1>1. MailInv => (head # tail => Discriminant(wait) \in Firsts)
  <2> SUFFICES ASSUME MailInv, head # tail
               PROVE  Discriminant(wait) \in Firsts
    OBVIOUS
  <2>1. Arity \in Nat \ {0} /\ Ring \in Nat \ {0} /\ head \in 0 .. Ring - 1
    BY MailboxAssumption DEF MailInv
  <2>2. Unread \in Nat /\ Unread # 0
    BY <2>1, UnreadIs DEF MailInv, Cursors, UnreadFacts
  <2> DEFINE n == Unread \div Arity
  <2>3. n \in Nat /\ Unread = n * Arity
    BY <2>1, <2>2 DEF MailInv
  <2> HIDE DEF n
  <2>4. n # 0
    BY <2>1, <2>2, <2>3
  <2>5. QueuedMessage(1) \in Messages
    BY <2>3, <2>4 DEF MailInv, n
  <2>6. QueuedMessage(1)[1] = slots[head]
    <3>1. head + 1 - 1 = head /\ head % Ring = head /\ 1 \in 1 .. Arity
      BY <2>1
    <3>2. QueuedMessage(1)[1] = slots[(head + 1 - 1) % Ring]
      BY <3>1, OldestMessage
    <3> QED  BY <3>1, <3>2
  <2>7. Discriminant(wait) = slots[head]
    <3>1. DequeueArgCount(wait) = Arity
      BY DEF WaitsTakeWholeMessages, MailInv
    <3> QED  BY <2>1, <3>1 DEF Discriminant
  <2> QED  BY <2>5, <2>6, <2>7 DEF Messages
<1>2. MailSpec => []MailInv
  BY MailInvariant
<1> QED  BY <1>1, <1>2, PTL
=============================================================================
