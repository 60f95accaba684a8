-------------------------- MODULE PidTable_proofs ---------------------------
(***************************************************************************)
(* The pid table stays consistent whatever assigns and clears pids: the    *)
(* two lemmas AssignInv and ClearInv, for every set of addresses and every *)
(* width of generation and slot, and whatever words the memory of a grown  *)
(* table still holds.  Lookups_proofs and Scheduler_proofs rest on them.   *)
(***************************************************************************)
EXTENDS PidTable, SequenceTheorems, FiniteSetTheorems, TLAPS

(* The stack holds no slot twice, and holds exactly the free ones.          *)
StackExact ==
    /\ \A i, j \in 1 .. Len(free_slots) :
          free_slots[i] = free_slots[j] => i = j
    /\ \A s \in 1 .. pid_table_len - 1 :
          (\E i \in 1 .. Len(free_slots) : free_slots[i] = s)
             <=> pid_table[s].ctx = NoActor

(* Slot 0, which the null pid names, is as init left it.  Nothing is said   *)
(* of the slots never handed out.                                           *)
NullEntry == pid_table[0] = EmptyEntry

(* An actor's OWN_PID and its entry name each other.                        *)
OwnSlot ==
    \A a \in Actors : Live(a) =>
        /\ own_pid[a].slot \in 1 .. pid_table_len - 1
        /\ pid_table[own_pid[a].slot].ctx = a
        /\ own_pid[a].gen = pid_table[own_pid[a].slot].gen % GenMod
SlotOwner ==
    \A s \in 1 .. pid_table_len - 1 :
        pid_table[s].ctx # NoActor =>
            own_pid[pid_table[s].ctx].slot = s

(* The table in every state: its shape, its stack, and OWN_PID.             *)
TableInv ==
    /\ PidTypeOK
    /\ StackExact
    /\ NullEntry
    /\ OwnSlot
    /\ SlotOwner

-----------------------------------------------------------------------------
(* The generation half of a packed pid fits, and is the generation itself   *)
(* as long as that has not wrapped.                                         *)
LEMMA ModInRange ==
    ASSUME NEW n \in Nat
    PROVE  /\ n % GenMod \in 0 .. GenMod - 1
           /\ n < GenMod => n % GenMod = n
BY PidAssumption

(* The 64-bit increment of a generation, which wraps only at all ones.      *)
LEMMA BumpStaysWord ==
    ASSUME NEW g \in GenWords
    PROVE  /\ BumpedGen(g) \in GenWords
           /\ g < WordMod - 1 => BumpedGen(g) = g + 1
<1>1. WordMod \in Nat /\ WordMod > 2 /\ g + 1 \in Nat
  BY PidAssumption DEF GenWords
<1>2. (g + 1) % WordMod \in 0 .. WordMod - 1
  BY <1>1
<1>3. ASSUME g < WordMod - 1  PROVE (g + 1) % WordMod = g + 1
  BY <1>1, <1>3 DEF GenWords
<1> QED  BY <1>2, <1>3 DEF BumpedGen, GenWords

(* The pid that assign_pid packs is a pid of the slot it names.              *)
LEMMA PidIsPid ==
    ASSUME NEW n \in Nat, NEW s \in Nat, s < SlotMod
    PROVE  /\ Pid(n, s) \in Pids
           /\ Pid(n, s).slot = s
           /\ Pid(n, s).gen = n % GenMod
BY ModInRange, PidAssumption DEF Pid, Pids

(* A slot in use is never 0, so an actor with one is alive.                 *)
LEMMA SlotMeansLive ==
    ASSUME NEW a \in Actors, own_pid[a].slot # 0
    PROVE  Live(a)
BY DEF Live, NoPid

(* emit_acquire_slot returns a slot nobody holds, and growing the table for *)
(* it keeps every entry there was.                                          *)
LEMMA AcquireFacts ==
    ASSUME PidTypeOK, StackExact
    PROVE  /\ AcquiredSlot \in 1 .. pid_table_len
           /\ AcquiredSlot < pid_table_len => pid_table[AcquiredSlot].ctx = NoActor
           /\ AcquiredSlot = pid_table_len <=> free_slots = << >>
<1>1. CASE free_slots = << >>
  BY <1>1 DEF AcquiredSlot, PidTypeOK
<1>2. CASE free_slots # << >>
  <2>1. /\ Len(free_slots) \in 1 .. Len(free_slots)
        /\ free_slots[Len(free_slots)] \in 1 .. pid_table_len - 1
    BY <1>2 DEF PidTypeOK
  <2> QED  BY <1>2, <2>1 DEF AcquiredSlot, StackExact, PidTypeOK
<1> QED  BY <1>1, <1>2

(* The table as assign_pid finds it after growth: entries that were there    *)
(* are kept, the new ones may read as anything, and the acquired slot is     *)
(* inside.                                                                   *)
LEMMA GrowthFacts ==
    ASSUME PidTypeOK, StackExact,
           NEW cap, cap = GrownCap(pid_table_cap, AcquiredSlot + 1),
           NEW fill \in [Uncopied(pid_table_cap, AcquiredSlot + 1) -> Leftovers],
           NEW table, table = Grown(pid_table, pid_table_cap,
                                    AcquiredSlot + 1, fill)
    PROVE  /\ cap \in Nat /\ cap >= pid_table_cap
           /\ AcquiredSlot + 1 < cap /\ pid_table_len < cap
           /\ table \in [0 .. cap - 1 -> [gen : GenWords, ctx : Actors \cup {NoActor}]]
           /\ \A s \in 0 .. pid_table_cap - 1 : table[s] = pid_table[s]
<1>1. AcquiredSlot \in 1 .. pid_table_len
  BY AcquireFacts
<1>2. \A w \in Leftovers : w \in [gen : GenWords, ctx : Actors \cup {NoActor}]
  BY PidAssumption DEF GenWords
<1>3. CASE AcquiredSlot + 1 >= pid_table_cap
  <2>1. AcquiredSlot + 1 = pid_table_cap /\ cap = 2 * pid_table_cap
    BY <1>1, <1>3 DEF GrownCap, NeedsGrowth, PidTypeOK
  <2>2. table = [i \in 0 .. cap - 1 |->
                   IF i < pid_table_cap THEN pid_table[i] ELSE fill[i]]
    BY <1>3, <2>1 DEF Grown, NeedsGrowth
  <2>3. fill \in [pid_table_cap .. cap - 1 -> Leftovers]
    BY <1>3, <2>1 DEF Uncopied, NeedsGrowth
  <2>4. pid_table_cap \in Nat /\ pid_table_cap >= 2
        /\ pid_table_len \in 1 .. pid_table_cap - 1
        /\ pid_table \in [0 .. pid_table_cap - 1 ->
                            [gen : GenWords, ctx : Actors \cup {NoActor}]]
    BY DEF PidTypeOK, GenWords
  <2>5. ASSUME NEW i \in 0 .. cap - 1
        PROVE  table[i] \in [gen : GenWords, ctx : Actors \cup {NoActor}]
    <3>1. CASE i < pid_table_cap
      BY <2>1, <2>2, <2>4, <3>1
    <3>2. CASE i >= pid_table_cap
      BY <1>2, <2>1, <2>2, <2>3, <2>4, <3>2
    <3> QED  BY <2>1, <2>4, <3>1, <3>2
  <2> QED  BY <1>1, <2>1, <2>2, <2>4, <2>5
<1>4. CASE ~ (AcquiredSlot + 1 >= pid_table_cap)
  BY <1>1, <1>4 DEF Grown, GrownCap, NeedsGrowth, PidTypeOK, GenWords
<1> QED  BY <1>3, <1>4

-----------------------------------------------------------------------------
(* What assign_pid does, with the generation, slot and capacity it ends up     *)
(* with: the new actor is the only one whose pid or entry changes.          *)
AssignEffect(a, gen, slot, cap) ==
    /\ slot < SlotMod /\ gen \in GenWords /\ gen <= MaxGen
    /\ gen = BumpedGen(pid_table[slot].gen)
    /\ slot < pid_table_len => pid_table[slot].ctx = NoActor
    /\ slot = AcquiredSlot
    /\ own_pid' = [own_pid EXCEPT ![a] = Pid(gen, slot)]
    /\ pid_table_cap' = cap
    /\ cap >= pid_table_cap /\ slot + 1 < cap
    /\ pid_table' \in [0 .. cap - 1 ->
                         [gen : GenWords, ctx : Actors \cup {NoActor}]]
    /\ pid_table'[slot] = [gen |-> gen, ctx |-> a]
    /\ \A s \in 0 .. pid_table_cap - 1 :
          s # slot => pid_table'[s] = pid_table[s]

(* assign_pid is an AssignEffect: its intermediate values named.             *)
LEMMA AssignStep ==
    ASSUME TableInv, NEW a \in Actors, AssignPid(a)
    PROVE  \E gen \in Nat, slot \in 1 .. pid_table_len, cap \in Nat :
              AssignEffect(a, gen, slot, cap)
<1>0. PICK fill \in [Uncopied(pid_table_cap, AcquiredSlot + 1) -> Leftovers] :
        LET slot  == AcquiredSlot
            table == Grown(pid_table, pid_table_cap, slot + 1, fill)
            gen   == BumpedGen(table[slot].gen)
        IN  /\ slot < SlotMod
            /\ gen <= MaxGen
            /\ pid_table_cap' = GrownCap(pid_table_cap, slot + 1)
            /\ pid_table' = [table EXCEPT ![slot] = [gen |-> gen, ctx |-> a]]
            /\ own_pid' = [own_pid EXCEPT ![a] = Pid(gen, slot)]
  BY DEF AssignPid
<1> DEFINE slot  == AcquiredSlot
           cap   == GrownCap(pid_table_cap, slot + 1)
           table == Grown(pid_table, pid_table_cap, slot + 1, fill)
           gen   == BumpedGen(table[slot].gen)
<1>1. PidTypeOK /\ StackExact /\ NullEntry
  BY DEF TableInv
<1>2. /\ slot \in 1 .. pid_table_len
      /\ slot < pid_table_len => pid_table[slot].ctx = NoActor
      /\ pid_table_cap \in Nat
      /\ pid_table_len \in 1 .. pid_table_cap - 1
  BY <1>1, AcquireFacts DEF PidTypeOK
<1>4. /\ slot < SlotMod /\ gen <= MaxGen
      /\ pid_table_cap' = cap
      /\ pid_table' = [table EXCEPT ![slot] = [gen |-> gen, ctx |-> a]]
      /\ own_pid' = [own_pid EXCEPT ![a] = Pid(gen, slot)]
  BY <1>0
<1>5. cap \in Nat /\ cap >= pid_table_cap /\ slot + 1 < cap
  BY <1>1, GrowthFacts
<1>6. /\ table \in [0 .. cap - 1 -> [gen : GenWords, ctx : Actors \cup {NoActor}]]
      /\ \A s \in 0 .. pid_table_cap - 1 : table[s] = pid_table[s]
  BY <1>1, GrowthFacts
<1>8. gen = BumpedGen(pid_table[slot].gen)
  <2>1. table[slot] = pid_table[slot]
    BY <1>2, <1>6
  <2> QED  BY <2>1
<1>9. slot \in Nat /\ slot \in 0 .. cap - 1
  BY <1>2, <1>5
<1>10. gen \in GenWords /\ gen \in Nat
  <2>1. table[slot].gen \in GenWords
    BY <1>6, <1>9
  <2> QED  BY <2>1, BumpStaysWord DEF GenWords
<1>11. slot = AcquiredSlot
  OBVIOUS
<1> HIDE DEF slot, cap, table, gen
<1>12. /\ pid_table' \in [0 .. cap - 1 ->
                            [gen : GenWords, ctx : Actors \cup {NoActor}]]
       /\ pid_table'[slot] = [gen |-> gen, ctx |-> a]
       /\ \A s \in 0 .. cap - 1 : s # slot => pid_table'[s] = table[s]
  BY <1>4, <1>6, <1>9, <1>10
<1>13. \A s \in 0 .. pid_table_cap - 1 :
           s # slot => pid_table'[s] = pid_table[s]
  BY <1>2, <1>5, <1>6, <1>12
<1> QED  BY <1>2, <1>4, <1>5, <1>8, <1>10, <1>11, <1>12, <1>13
         DEF AssignEffect

(* Popping a sequence, and reading one as a sequence over a larger set.     *)
LEMMA PopFacts ==
    ASSUME NEW S, NEW q \in Seq(S), q # << >>
    PROVE  /\ Len(q) \in Nat /\ Len(q) >= 1
           /\ SubSeq(q, 1, Len(q) - 1) \in Seq(S)
           /\ Len(SubSeq(q, 1, Len(q) - 1)) = Len(q) - 1
           /\ \A i \in 1 .. Len(q) - 1 : SubSeq(q, 1, Len(q) - 1)[i] = q[i]
           /\ q[Len(q)] \in S
<1>1. Len(q) \in Nat /\ Len(q) >= 1
  OBVIOUS
<1>2. SubSeq(q, 1, Len(q) - 1) \in Seq(S)
  OBVIOUS
<1> DEFINE m == Len(q) - 1
<1>3. Len(SubSeq(q, 1, m)) = m /\ \A i \in 1 .. m : SubSeq(q, 1, m)[i] = q[i]
  <2>1. m \in Nat /\ \A i \in 1 .. m : i \in 1 .. Len(q) /\ q[i] \in S
    BY <1>1
  <2> HIDE DEF m
  <2>2. \A i \in 1 .. m - 1 + 1 : SubSeq(q, 1, m)[i] = q[1 + i - 1]
    BY <2>1, SubSeqProperties
  <2>3. Len(SubSeq(q, 1, m)) = IF 1 <= m THEN m - 1 + 1 ELSE 0
    BY <2>1, SubSeqProperties
  <2> QED  BY <2>1, <2>2, <2>3
<1>4. q[Len(q)] \in S
  BY <1>1
<1> QED  BY <1>1, <1>2, <1>3, <1>4

(* A sequence over a set is one over a larger set.                           *)
LEMMA SeqWiden ==
    ASSUME NEW S, NEW T, S \subseteq T, NEW q \in Seq(S)
    PROVE  q \in Seq(T)
OBVIOUS

(* An entry of the stack is an element of the set it is a sequence over.     *)
LEMMA SeqElement ==
    ASSUME NEW S, NEW q \in Seq(S), NEW i \in 1 .. Len(q)
    PROVE  q[i] \in S
OBVIOUS

(* The acquired slot leaves the stack, if it was there; nothing else does.  *)
LEMMA TakeFacts ==
    ASSUME PidTypeOK, StackExact, TakeSlot
    PROVE  \E stack \in Seq(1 .. pid_table_len - 1) :
              /\ free_slots' = stack
              /\ Len(stack) <= Len(free_slots)
              /\ \A i, j \in 1 .. Len(stack) : stack[i] = stack[j] => i = j
              /\ \A s \in 1 .. pid_table_len - 1 :
                    (\E i \in 1 .. Len(stack) : stack[i] = s)
                      <=> s # AcquiredSlot
                          /\ (\E i \in 1 .. Len(free_slots) : free_slots[i] = s)
              /\ pid_table_len' = IF AcquiredSlot = pid_table_len
                                  THEN pid_table_len + 1 ELSE pid_table_len
<1>1. CASE free_slots = << >>
  <2>1. free_slots' = << >> /\ pid_table_len' = pid_table_len + 1
    BY <1>1 DEF TakeSlot
  <2>2. AcquiredSlot = pid_table_len
    BY <1>1 DEF AcquiredSlot
  <2> DEFINE stack == << >>
  <2>3. stack \in Seq(1 .. pid_table_len - 1) /\ Len(stack) = 0
    OBVIOUS
  <2>4. free_slots' = stack /\ free_slots = stack
    BY <1>1, <2>1
  <2> HIDE DEF stack
  <2>5. \A i \in 1 .. Len(stack) : FALSE
    BY <2>3
  <2>6. /\ Len(stack) <= Len(free_slots)
        /\ \A i, j \in 1 .. Len(stack) : stack[i] = stack[j] => i = j
        /\ \A s \in 1 .. pid_table_len - 1 :
              (\E i \in 1 .. Len(stack) : stack[i] = s)
                 <=> s # AcquiredSlot
                     /\ (\E i \in 1 .. Len(free_slots) : free_slots[i] = s)
    BY <2>3, <2>4, <2>5
  <2> QED  BY <2>1, <2>2, <2>3, <2>4, <2>6
<1>2. CASE free_slots # << >>
  <2> DEFINE n     == Len(free_slots)
             stack == SubSeq(free_slots, 1, n - 1)
             used  == 1 .. pid_table_len - 1
  <2>1. free_slots \in Seq(used)
    BY DEF PidTypeOK
  <2>2. free_slots' = stack /\ pid_table_len' = pid_table_len
    BY <1>2 DEF TakeSlot
  <2>3. AcquiredSlot = free_slots[n]
    BY <1>2 DEF AcquiredSlot
  <2>4. AcquiredSlot # pid_table_len
    BY <1>2, AcquireFacts
  <2>5. \A i, j \in 1 .. n : free_slots[i] = free_slots[j] => i = j
    BY DEF StackExact
  <2> HIDE DEF used
  <2>6. /\ n \in Nat /\ n >= 1
        /\ stack \in Seq(used) /\ Len(stack) = n - 1
        /\ \A i \in 1 .. n - 1 : stack[i] = free_slots[i]
    BY <1>2, <2>1, PopFacts
  <2> HIDE DEF stack, n
  <2>7. \A i, j \in 1 .. n - 1 : stack[i] = stack[j] => i = j
    BY <2>5, <2>6
  <2>8. ASSUME NEW s \in used
        PROVE  (\E i \in 1 .. n - 1 : stack[i] = s)
                 <=> s # AcquiredSlot /\ (\E i \in 1 .. n : free_slots[i] = s)
    <3>1. ASSUME NEW i \in 1 .. n - 1, stack[i] = s
          PROVE  s # AcquiredSlot /\ (\E k \in 1 .. n : free_slots[k] = s)
      <4>1. i \in 1 .. n /\ n \in 1 .. n /\ i # n /\ free_slots[i] = s
        BY <2>6, <3>1
      <4> QED  BY <2>3, <2>5, <4>1
    <3>2. ASSUME s # AcquiredSlot, NEW i \in 1 .. n, free_slots[i] = s
          PROVE  \E k \in 1 .. n - 1 : stack[k] = s
      <4>1. i \in 1 .. n - 1
        BY <2>3, <2>6, <3>2
      <4> QED  BY <2>6, <3>2, <4>1
    <3> QED  BY <3>1, <3>2
  <2>9. Len(stack) <= Len(free_slots)
    BY <2>6 DEF n
  <2>10. /\ \A i, j \in 1 .. Len(stack) : stack[i] = stack[j] => i = j
         /\ \A s \in used :
              (\E i \in 1 .. Len(stack) : stack[i] = s)
                 <=> s # AcquiredSlot
                     /\ (\E i \in 1 .. Len(free_slots) : free_slots[i] = s)
    BY <2>6, <2>7, <2>8 DEF n
  <2> QED  BY <2>2, <2>4, <2>6, <2>9, <2>10 DEF used
<1> QED  BY <1>1, <1>2

(* assign_pid keeps the table consistent: the slot it takes was held by      *)
(* nobody, and its new generation is one no earlier pid of that slot         *)
(* carries.                                                                  *)
LEMMA AssignInv ==
    ASSUME TableInv, NEW a \in Actors, ~ Live(a), AssignPid(a)
    PROVE  TableInv'
<1>1. PidTypeOK /\ StackExact /\ NullEntry /\ OwnSlot /\ SlotOwner
  BY DEF TableInv
<1>2. PICK gen \in Nat, slot \in 1 .. pid_table_len, cap \in Nat :
              AssignEffect(a, gen, slot, cap)
  BY AssignStep
<1> USE DEF AssignEffect
<1> DEFINE len == IF slot = pid_table_len THEN pid_table_len + 1 ELSE pid_table_len
<1>3. TakeSlot /\ free_slots_cap' = free_slots_cap /\ ~ Live(a)
  BY DEF AssignPid
<1>4. PICK stack \in Seq(1 .. pid_table_len - 1) :
              /\ free_slots' = stack
              /\ Len(stack) <= Len(free_slots)
              /\ \A i, j \in 1 .. Len(stack) : stack[i] = stack[j] => i = j
              /\ \A s \in 1 .. pid_table_len - 1 :
                    (\E i \in 1 .. Len(stack) : stack[i] = s)
                      <=> s # slot
                          /\ (\E i \in 1 .. Len(free_slots) : free_slots[i] = s)
              /\ pid_table_len' = len
  BY <1>1, <1>2, <1>3, TakeFacts
<1>5. /\ pid_table_cap \in Nat /\ pid_table_len \in 1 .. pid_table_cap - 1
      /\ len \in Nat /\ pid_table_len <= len /\ slot < len /\ len < cap
      /\ \A s \in 1 .. len - 1 : s # slot => s \in 1 .. pid_table_len - 1
      /\ slot \in 1 .. len - 1
  BY <1>1, <1>2 DEF PidTypeOK
<1>6. /\ Pid(gen, slot) \in Pids /\ Pid(gen, slot).slot = slot
      /\ Pid(gen, slot).gen = gen % GenMod
  BY <1>2, <1>5, PidIsPid
<1> HIDE DEF len
<1>7. /\ own_pid' \in [Actors -> Pids]
      /\ own_pid'[a] = Pid(gen, slot)
      /\ \A b \in Actors : b # a => own_pid'[b] = own_pid[b]
  BY <1>1, <1>2, <1>6 DEF PidTypeOK
<1>8. PidTypeOK'
  <2>1. stack \in Seq(1 .. len - 1)
    <3>1. 1 .. pid_table_len - 1 \subseteq 1 .. len - 1
      BY <1>5
    <3> QED  BY <3>1, SeqWiden
  <2>2. free_slots_cap' \in Nat /\ Len(stack) < free_slots_cap'
    BY <1>1, <1>3, <1>4 DEF PidTypeOK
  <2> QED  BY <1>2, <1>4, <1>5, <1>7, <2>1, <2>2 DEF PidTypeOK
<1>9. StackExact'
  <2>1. ASSUME NEW s \in 1 .. len - 1
        PROVE  (\E i \in 1 .. Len(stack) : stack[i] = s)
                  <=> pid_table'[s].ctx = NoActor
    <3>1. CASE s = slot
      <4>1. pid_table'[s].ctx # NoActor
        BY <1>2, <3>1, PidAssumption
      <4>2. \A i \in 1 .. Len(stack) : stack[i] \in 1 .. pid_table_len - 1
        BY SeqElement
      <4> QED  BY <1>4, <3>1, <4>1, <4>2
    <3>2. CASE s # slot
      <4>1. s \in 1 .. pid_table_len - 1 /\ s \in 0 .. pid_table_cap - 1
        BY <1>5, <3>2
      <4>2. pid_table'[s] = pid_table[s]
        BY <1>2, <3>2, <4>1
      <4> QED  BY <1>1, <1>4, <3>2, <4>1, <4>2 DEF StackExact
    <3> QED  BY <3>1, <3>2
  <2> QED  BY <1>4, <2>1 DEF StackExact
<1>10. NullEntry'
  <2>1. 0 \in 0 .. pid_table_cap - 1 /\ 0 # slot
    BY <1>2, <1>5
  <2> QED  BY <1>1, <1>2, <2>1 DEF NullEntry
<1>11. OwnSlot'
  <2>1. ASSUME NEW b \in Actors, own_pid'[b] # NoPid
        PROVE  /\ own_pid'[b].slot \in 1 .. len - 1
               /\ pid_table'[own_pid'[b].slot].ctx = b
               /\ own_pid'[b].gen = pid_table'[own_pid'[b].slot].gen % GenMod
    <3>1. CASE b = a
      BY <1>2, <1>5, <1>6, <1>7, <3>1
    <3>2. CASE b # a
      <4>1. own_pid'[b] = own_pid[b] /\ Live(b)
        BY <1>7, <2>1, <3>2 DEF Live
      <4>2. /\ own_pid[b].slot \in 1 .. pid_table_len - 1
            /\ pid_table[own_pid[b].slot].ctx = b
            /\ own_pid[b].gen = pid_table[own_pid[b].slot].gen % GenMod
        BY <1>1, <4>1 DEF OwnSlot
      <4>3. own_pid[b].slot # slot
        BY <1>2, <1>5, <4>2, PidAssumption
      <4>4. own_pid[b].slot \in 0 .. pid_table_cap - 1
        BY <1>5, <4>2
      <4>5. pid_table'[own_pid[b].slot] = pid_table[own_pid[b].slot]
        BY <1>2, <4>3, <4>4
      <4> QED  BY <1>5, <4>1, <4>2, <4>5
    <3> QED  BY <3>1, <3>2
  <2> QED  BY <1>4, <2>1 DEF OwnSlot, Live, NoPid
<1>12. SlotOwner'
  <2>1. ASSUME NEW s \in 1 .. len - 1, pid_table'[s].ctx # NoActor
        PROVE  own_pid'[pid_table'[s].ctx].slot = s
    <3>1. CASE s = slot
      BY <1>2, <1>6, <1>7, <3>1
    <3>2. CASE s # slot
      <4>1. s \in 1 .. pid_table_len - 1 /\ s \in 0 .. pid_table_cap - 1
        BY <1>5, <3>2
      <4>2. pid_table'[s] = pid_table[s]
        BY <1>2, <3>2, <4>1
      <4>3. /\ own_pid[pid_table[s].ctx].slot = s
            /\ pid_table[s].ctx \in Actors
        BY <1>1, <2>1, <4>1, <4>2 DEF SlotOwner, PidTypeOK
      <4>4. pid_table[s].ctx # a
        BY <1>3, <4>1, <4>3, SlotMeansLive
      <4> QED  BY <1>7, <4>2, <4>3, <4>4
    <3> QED  BY <3>1, <3>2
  <2> QED  BY <1>4, <2>1 DEF SlotOwner
<1> QED  BY <1>8, <1>9, <1>10, <1>11, <1>12 DEF TableInv

-----------------------------------------------------------------------------
(* A death: the actor's slot joins the stack, where it was not, and its     *)
(* entry keeps the generation that makes old pids stale.                    *)
LEMMA ClearInv ==
    ASSUME TableInv, NEW a \in Actors, Live(a), ClearPid(a)
    PROVE  TableInv'
<1> DEFINE slot  == own_pid[a].slot
           n     == Len(free_slots)
           stack == Append(free_slots, slot)
           cap   == GrownCap(free_slots_cap, n + 1)
           Entry == [gen : GenWords, ctx : Actors \cup {NoActor}]
<1>1. PidTypeOK /\ StackExact /\ NullEntry /\ OwnSlot /\ SlotOwner
  BY DEF TableInv
<1>3. /\ slot \in 1 .. pid_table_len - 1 /\ pid_table[slot].ctx = a
  BY <1>1 DEF OwnSlot
<1>4. /\ pid_table_cap \in Nat /\ pid_table_len \in 1 .. pid_table_cap - 1
      /\ pid_table \in [0 .. pid_table_cap - 1 -> Entry]
      /\ slot \in 0 .. pid_table_cap - 1 /\ slot # 0
      /\ n \in Nat
  BY <1>1, <1>3 DEF PidTypeOK
<1>5. /\ pid_table' = [pid_table EXCEPT ![slot].ctx = NoActor]
      /\ free_slots' = stack /\ free_slots_cap' = cap
      /\ own_pid' = [own_pid EXCEPT ![a] = NoPid]
      /\ pid_table_cap' = pid_table_cap /\ pid_table_len' = pid_table_len
  BY <1>4 DEF ClearPid
<1>6. /\ pid_table' \in [0 .. pid_table_cap - 1 -> Entry]
      /\ pid_table'[slot].ctx = NoActor
      /\ pid_table'[slot].gen = pid_table[slot].gen
      /\ \A s \in 0 .. pid_table_cap - 1 : s # slot => pid_table'[s] = pid_table[s]
  BY <1>4, <1>5
<1>7. NoPid \in Pids
  BY PidAssumption DEF NoPid, Pids
<1>8. /\ own_pid' \in [Actors -> Pids]
      /\ own_pid'[a] = NoPid
      /\ \A b \in Actors : b # a => own_pid'[b] = own_pid[b]
  BY <1>1, <1>5, <1>7 DEF PidTypeOK
<1>9. /\ stack \in Seq(1 .. pid_table_len - 1) /\ Len(stack) = n + 1
      /\ \A i \in 1 .. n : stack[i] = free_slots[i]
      /\ stack[n + 1] = slot
  BY <1>1, <1>3, AppendProperties DEF PidTypeOK
<1>10. \A i \in 1 .. n : free_slots[i] # slot
  BY <1>1, <1>3, PidAssumption DEF StackExact
<1> HIDE DEF slot, stack
<1>11. PidTypeOK'
  <2>1. cap \in Nat /\ n + 1 < cap
    BY <1>1, <1>4 DEF GrownCap, NeedsGrowth, PidTypeOK
  <2> HIDE DEF n, cap
  <2> QED  BY <1>1, <1>5, <1>6, <1>8, <1>9, <2>1 DEF PidTypeOK
<1>12. StackExact'
  <2> HIDE DEF n, Entry
  <2>1. ASSUME NEW i \in 1 .. n + 1, NEW j \in 1 .. n + 1, stack[i] = stack[j]
        PROVE  i = j
    <3>1. CASE i = n + 1 /\ j # n + 1
      <4>1. j \in 1 .. n
        BY <1>4, <3>1
      <4> QED  BY <1>9, <1>10, <2>1, <3>1, <4>1
    <3>2. CASE i # n + 1 /\ j = n + 1
      BY <1>4, <1>9, <1>10, <2>1, <3>2
    <3>3. CASE i # n + 1 /\ j # n + 1
      <4>1. i \in 1 .. n /\ j \in 1 .. n
        BY <1>4, <3>3
      <4> QED  BY <1>1, <1>9, <2>1, <4>1 DEF StackExact, n
    <3> QED  BY <3>1, <3>2, <3>3
  <2>2. ASSUME NEW s \in 1 .. pid_table_len - 1
        PROVE  (\E i \in 1 .. n + 1 : stack[i] = s) <=> pid_table'[s].ctx = NoActor
    <3>1. CASE s = slot
      <4>1. n + 1 \in 1 .. n + 1
        BY <1>4
      <4> QED  BY <1>6, <1>9, <3>1, <4>1
    <3>2. CASE s # slot
      <4>1. s \in 0 .. pid_table_cap - 1
        BY <1>4
      <4>2. pid_table'[s] = pid_table[s]
        BY <1>6, <3>2, <4>1
      <4>3. (\E i \in 1 .. n + 1 : stack[i] = s) <=> (\E i \in 1 .. n : free_slots[i] = s)
        <5>1. ASSUME NEW i \in 1 .. n + 1, stack[i] = s
              PROVE  \E k \in 1 .. n : free_slots[k] = s
          <6>1. i \in 1 .. n
            BY <1>4, <1>9, <3>2, <5>1
          <6> QED  BY <1>9, <5>1, <6>1
        <5>2. ASSUME NEW i \in 1 .. n, free_slots[i] = s
              PROVE  \E k \in 1 .. n + 1 : stack[k] = s
          <6>1. i \in 1 .. n + 1
            BY <1>4
          <6> QED  BY <1>9, <5>2, <6>1
        <5> QED  BY <5>1, <5>2
      <4>4. (\E i \in 1 .. n : free_slots[i] = s) <=> pid_table[s].ctx = NoActor
        BY <1>1 DEF StackExact, n
      <4> QED  BY <4>2, <4>3, <4>4
    <3> QED  BY <3>1, <3>2
  <2> QED  BY <1>5, <1>9, <2>1, <2>2 DEF StackExact
<1>13. NullEntry'
  <2>1. 0 \in 0 .. pid_table_cap - 1 /\ 0 # slot
    BY <1>3, <1>4
  <2> QED  BY <1>1, <1>6, <2>1 DEF NullEntry
<1>14. OwnSlot'
  <2>1. ASSUME NEW b \in Actors, own_pid'[b] # NoPid
        PROVE  /\ own_pid'[b].slot \in 1 .. pid_table_len - 1
               /\ pid_table'[own_pid'[b].slot].ctx = b
               /\ own_pid'[b].gen = pid_table'[own_pid'[b].slot].gen % GenMod
    <3>1. b # a /\ own_pid'[b] = own_pid[b] /\ Live(b)
      BY <1>8, <2>1 DEF Live
    <3>2. /\ own_pid[b].slot \in 1 .. pid_table_len - 1
          /\ pid_table[own_pid[b].slot].ctx = b
          /\ own_pid[b].gen = pid_table[own_pid[b].slot].gen % GenMod
      BY <1>1, <3>1 DEF OwnSlot
    <3>3. own_pid[b].slot # slot /\ own_pid[b].slot \in 0 .. pid_table_cap - 1
      BY <1>3, <1>4, <3>1, <3>2
    <3> QED  BY <1>6, <3>1, <3>2, <3>3
  <2> QED  BY <1>5, <2>1 DEF OwnSlot, Live, NoPid
<1>15. SlotOwner'
  <2>1. ASSUME NEW s \in 1 .. pid_table_len - 1, pid_table'[s].ctx # NoActor
        PROVE  own_pid'[pid_table'[s].ctx].slot = s
    <3>1. s # slot /\ s \in 0 .. pid_table_cap - 1
      BY <1>4, <1>6, <2>1
    <3>2. pid_table'[s] = pid_table[s]
      BY <1>6, <3>1
    <3>3. own_pid[pid_table[s].ctx].slot = s /\ pid_table[s].ctx \in Actors
      BY <1>1, <2>1, <3>1, <3>2 DEF SlotOwner, PidTypeOK
    <3>4. pid_table[s].ctx # a
      BY <3>1, <3>3 DEF slot
    <3> QED  BY <1>8, <3>2, <3>3, <3>4
  <2> QED  BY <1>5, <2>1 DEF SlotOwner
<1> QED  BY <1>11, <1>12, <1>13, <1>14, <1>15 DEF TableInv

-----------------------------------------------------------------------------
(* The table that init leaves behind is consistent.                         *)
LEMMA InitTableInv == PidTableInit => TableInv
<1> SUFFICES ASSUME PidTableInit  PROVE TableInv
  OBVIOUS
<1> USE PidAssumption DEF PidTableInit
<1>1. PidTypeOK
  BY DEF PidTypeOK, EmptyEntry, NoPid, Pids, GenWords
<1>2. StackExact /\ NullEntry
  BY DEF StackExact, NullEntry
<1>3. OwnSlot
  BY DEF OwnSlot, Live
<1>4. SlotOwner
  BY DEF SlotOwner
<1> QED  BY <1>1, <1>2, <1>3, <1>4 DEF TableInv

(* No operation on the table leaves it as it was.                           *)
LEMMA TableUntouched ==
    ASSUME TableInv, UNCHANGED pidVars
    PROVE  TableInv'
BY DEF pidVars, TableInv, PidTypeOK, StackExact, NullEntry, OwnSlot, SlotOwner,
       Live

(* assign_pid gives its actor a pid that is not the null one, and changes   *)
(* nobody else's.                                                           *)
LEMMA AssignNames ==
    ASSUME TableInv, NEW a \in Actors, AssignPid(a)
    PROVE  \E p \in Pids : p # NoPid /\ own_pid' = [own_pid EXCEPT ![a] = p]
<1>1. PICK gen \in Nat, slot \in 1 .. pid_table_len, cap \in Nat :
              AssignEffect(a, gen, slot, cap)
  BY AssignStep
<1>2. slot \in Nat /\ slot # 0
  BY DEF TableInv, PidTypeOK
<1>3. Pid(gen, slot) \in Pids /\ Pid(gen, slot) # NoPid
  BY <1>1, <1>2, PidIsPid DEF AssignEffect, NoPid
<1> QED  BY <1>1, <1>3 DEF AssignEffect

(* No two living actors carry the same pid.                                 *)
LEMMA PidsDistinct ==
    ASSUME TableInv, NEW a \in Actors, NEW b \in Actors,
           Live(a), own_pid[a] = own_pid[b]
    PROVE  a = b
<1>1. Live(b)
  BY DEF Live
<1> QED  BY <1>1 DEF TableInv, OwnSlot

(* lookup_proc_ctx: an actor that a held pid resolves to is alive and       *)
(* carries that very pid, whether or not a generation has wrapped.          *)
LEMMA LookupOwner ==
    ASSUME TableInv, NEW p \in HeldPids, LookupProcCtx(p) # NoActor
    PROVE  /\ LookupProcCtx(p) \in Actors
           /\ Live(LookupProcCtx(p))
           /\ own_pid[LookupProcCtx(p)] = p
<1> DEFINE b == LookupProcCtx(p)
           s == p.slot
<1>1. s \in 0 .. pid_table_len - 1
  BY DEF HeldPids
<1>2. p = [gen |-> p.gen, slot |-> s]
  BY DEF HeldPids
<1>3. s \in 0 .. pid_table_cap - 1 /\ s \in Nat
  BY <1>1 DEF TableInv, PidTypeOK
<1>4. pid_table[s].gen \in GenWords /\ pid_table[s].ctx \in Actors \cup {NoActor}
  BY <1>3 DEF TableInv, PidTypeOK, GenWords
<1>5. p.gen \in 0 .. GenMod - 1
  BY DEF HeldPids
<1>6. pid_table[s].gen = p.gen /\ b = pid_table[s].ctx
  BY DEF LookupProcCtx
<1>7. s # 0
  BY <1>3, <1>6 DEF TableInv, NullEntry, EmptyEntry
<1>8. s \in 1 .. pid_table_len - 1
  BY <1>1, <1>3, <1>7 DEF TableInv, PidTypeOK
<1>9. b \in Actors /\ own_pid[b].slot = s
  BY <1>4, <1>6, <1>8 DEF TableInv, SlotOwner
<1>10. Live(b)
  BY <1>7, <1>9, SlotMeansLive
<1> HIDE DEF b, s
<1>11. own_pid[b].gen = p.gen
  <2>1. own_pid[b].gen = p.gen % GenMod
    BY <1>6, <1>9, <1>10 DEF TableInv, OwnSlot
  <2>2. p.gen \in Nat /\ p.gen < GenMod
    BY <1>5, PidAssumption
  <2> QED  BY <2>1, <2>2, ModInRange
<1>12. own_pid[b] = p
  <2>1. own_pid[b] \in Pids
    BY <1>9 DEF TableInv, PidTypeOK
  <2>2. own_pid[b] = [gen |-> own_pid[b].gen, slot |-> own_pid[b].slot]
    BY <2>1 DEF Pids
  <2> QED  BY <1>2, <1>9, <1>11, <2>2
<1> QED  BY <1>9, <1>10, <1>12 DEF b
=============================================================================
