-------------------------- MODULE Scheduler_proofs --------------------------
(***************************************************************************)
(* The three arrays as sets of actors.  Each operation of RunQueue keeps   *)
(* its array exact, and adds or removes exactly one actor; together with   *)
(* the pid table they split the living actors into those that run, those   *)
(* that wait and those that are parked.  Scheduler_proofs rests on these   *)
(* lemmas.                                                                 *)
(***************************************************************************)
EXTENDS Scheduler, PidTable_proofs, FunctionTheorems

(* The actors of each array, and the living.                                *)
Runnable == { a \in Actors : \E i \in 0 .. last_process_index : process_arr[i] = a }
Waiting  == { a \in Actors : \E i \in 1 .. last_waited : wait_arr[i] = own_pid[a] }
Parked   == { a \in Actors : \E i \in 1 .. Len(io_parked) : io_parked[i] = a }
Alive    == { a \in Actors : Live(a) }

(* process_arr holds each of its actors once; CURRENT_PROCESS designates    *)
(* one of them, and is 0 when there is none.                                *)
RunExact ==
    /\ process_cap \in Nat \ {0}
    /\ process_arr \in [0 .. process_cap - 1 -> Actors \cup {NoActor}]
    /\ last_process_index \in -1 .. process_cap - 1
    /\ real_count = last_process_index + 1
    /\ current_process \in (0 .. last_process_index) \cup {0}
    /\ \A i \in 0 .. last_process_index : process_arr[i] \in Actors
    /\ \A i, j \in 0 .. last_process_index :
          process_arr[i] = process_arr[j] => i = j

(* wait_arr holds pids of living actors, each once; index 0 is never used,  *)
(* which the scan of wake_process relies on.                                *)
WaitExact ==
    /\ wait_cap \in Nat \ {0}
    /\ wait_arr \in [0 .. wait_cap - 1 -> Pids]
    /\ last_waited \in 0 .. wait_cap - 1
    /\ waited_count = last_waited
    /\ wait_arr[0] = NoPid
    /\ \A i \in 1 .. last_waited : \E a \in Alive : wait_arr[i] = own_pid[a]
    /\ \A i, j \in 1 .. last_waited : wait_arr[i] = wait_arr[j] => i = j

(* The index a parked actor carries is where io_parked holds it; so it is   *)
(* there once.                                                              *)
ParkExact ==
    /\ io_parked \in Seq(Actors)
    /\ io_parked_idx \in [Actors -> Nat]
    /\ \A i \in 1 .. Len(io_parked) : io_parked_idx[io_parked[i]] = i - 1

(* A living actor is in one array, a dead one in none.                      *)
Apart ==
    /\ Alive = Runnable \cup Waiting \cup Parked
    /\ Runnable \cap Waiting = {}
    /\ Runnable \cap Parked = {}
    /\ Waiting \cap Parked = {}

-----------------------------------------------------------------------------
(* CURRENT_PROCESS designates a runnable actor whenever there is one.       *)
LEMMA CurrentRuns ==
    ASSUME RunExact, real_count > 0
    PROVE  /\ current_process \in 0 .. last_process_index
           /\ CurrentActor \in Runnable
           /\ CurrentActor \in Actors
BY DEF RunExact, Runnable, CurrentActor

(* new_process adds its actor to the runnable ones.                         *)
LEMMA NewProcessRun ==
    ASSUME RunExact, NEW a \in Actors, a \notin Runnable, NewProcess(a)
    PROVE  /\ RunExact'
           /\ Runnable' = Runnable \cup {a}
           /\ real_count > 0 => CurrentActor' = CurrentActor
<1>0. PICK fill \in [Uncopied(process_cap, last_process_index + 1)
                       -> { w.ctx : w \in Leftovers }] :
         process_arr' = [Grown(process_arr, process_cap,
                               last_process_index + 1, fill)
                           EXCEPT ![last_process_index + 1] = a]
  BY DEF NewProcess
<1> DEFINE next  == last_process_index + 1
           grown == Grown(process_arr, process_cap, next, fill)
           cap   == GrownCap(process_cap, next)
<1>1. /\ next \in 0 .. process_cap /\ next - 1 = last_process_index
      /\ process_cap \in Nat \ {0}
      /\ process_arr \in [0 .. process_cap - 1 -> Actors \cup {NoActor}]
  BY DEF RunExact
<1>2. /\ cap \in Nat \ {0} /\ next < cap
      /\ grown \in [0 .. cap - 1 -> Actors \cup {NoActor}]
      /\ \A i \in 0 .. next - 1 : grown[i] = process_arr[i]
  <2>1. \A w \in Leftovers : w.ctx \in Actors \cup {NoActor}
    BY PidAssumption
  <2>2. CASE next >= process_cap
    <3>1. next = process_cap /\ cap = 2 * process_cap
      BY <1>1, <2>2 DEF GrownCap, NeedsGrowth
    <3>2. grown = [i \in 0 .. cap - 1 |-> IF i < next THEN process_arr[i] ELSE fill[i]]
      BY <2>2, <3>1 DEF Grown, NeedsGrowth
    <3>3. \A i \in next .. cap - 1 : fill[i] \in Actors \cup {NoActor}
      BY <2>1, <2>2, <3>1 DEF Uncopied, NeedsGrowth
    <3> QED  BY <1>1, <3>1, <3>2, <3>3
  <2>3. CASE ~ (next >= process_cap)
    BY <1>1, <2>3 DEF GrownCap, Grown, NeedsGrowth
  <2> QED  BY <2>2, <2>3
<1>3. /\ process_arr' = [grown EXCEPT ![next] = a]
      /\ process_cap' = cap
      /\ last_process_index' = next
      /\ real_count' = real_count + 1
      /\ current_process' = current_process
  BY <1>0 DEF NewProcess
<1> HIDE DEF grown, cap
<1>4. /\ process_arr' \in [0 .. cap - 1 -> Actors \cup {NoActor}]
      /\ \A i \in 0 .. next :
            process_arr'[i] = IF i = next THEN a ELSE process_arr[i]
  <2>1. process_arr' \in [0 .. cap - 1 -> Actors \cup {NoActor}]
    BY <1>2, <1>3
  <2>2. ASSUME NEW i \in 0 .. next
        PROVE  process_arr'[i] = IF i = next THEN a ELSE process_arr[i]
    <3>1. i \in 0 .. cap - 1 /\ (i # next => i \in 0 .. next - 1)
      BY <1>1, <1>2
    <3>2. process_arr'[i] = IF i = next THEN a ELSE grown[i]
      BY <1>2, <1>3, <3>1
    <3> QED  BY <1>2, <3>1, <3>2
  <2> QED  BY <2>1, <2>2
<1>5. \A i \in 0 .. last_process_index : process_arr[i] # a
  BY DEF Runnable
<1>6. RunExact'
  <2>1. \A i \in 0 .. next : process_arr'[i] \in Actors
    BY <1>1, <1>4 DEF RunExact
  <2>2. ASSUME NEW i \in 0 .. next, NEW j \in 0 .. next,
               process_arr'[i] = process_arr'[j]
        PROVE  i = j
    BY <1>1, <1>4, <1>5, <2>2 DEF RunExact
  <2> QED  BY <1>1, <1>2, <1>3, <1>4, <2>1, <2>2 DEF RunExact
<1>7. Runnable' = Runnable \cup {a}
  <2>1. ASSUME NEW b \in Actors
        PROVE  (\E i \in 0 .. next : process_arr'[i] = b)
                  <=> b = a \/ (\E i \in 0 .. last_process_index : process_arr[i] = b)
    <3>1. next \in 0 .. next
      BY <1>1
    <3> QED  BY <1>1, <1>4, <3>1
  <2> QED  BY <1>3, <2>1 DEF Runnable
<1>8. ASSUME real_count > 0  PROVE CurrentActor' = CurrentActor
  BY <1>1, <1>3, <1>4, <1>8, CurrentRuns DEF CurrentActor
<1> QED  BY <1>6, <1>7, <1>8

(* remove_current_process removes the current actor, and no other.          *)
LEMMA RemoveCurrentRun ==
    ASSUME RunExact, real_count > 0, RemoveCurrent
    PROVE  /\ RunExact'
           /\ Runnable' = Runnable \ {CurrentActor}
<1> DEFINE cur  == current_process
           last == last_process_index
<1>1. /\ cur \in 0 .. last /\ last \in 0 .. process_cap - 1
      /\ process_cap \in Nat \ {0}
      /\ process_arr \in [0 .. process_cap - 1 -> Actors \cup {NoActor}]
  BY CurrentRuns DEF RunExact
<1>2. /\ process_arr' = [process_arr EXCEPT ![cur] = process_arr[last],
                                            ![last] = NoActor]
      /\ process_cap' = process_cap
      /\ last_process_index' = last - 1
      /\ real_count' = real_count - 1
      /\ current_process' = IF cur = last THEN 0 ELSE cur
  BY DEF RemoveCurrent
<1>3. /\ process_arr' \in [0 .. process_cap - 1 -> Actors \cup {NoActor}]
      /\ \A i \in 0 .. last - 1 :
            process_arr'[i] = IF i = cur THEN process_arr[last] ELSE process_arr[i]
  BY <1>1, <1>2
<1>4. RunExact'
  <2>1. \A i \in 0 .. last - 1 : process_arr'[i] \in Actors
    BY <1>1, <1>3 DEF RunExact
  <2>2. ASSUME NEW i \in 0 .. last - 1, NEW j \in 0 .. last - 1,
               process_arr'[i] = process_arr'[j]
        PROVE  i = j
    BY <1>1, <1>3, <2>2 DEF RunExact
  <2> QED  BY <1>1, <1>2, <1>3, <2>1, <2>2 DEF RunExact
<1>5. ASSUME NEW b \in Actors
      PROVE  (\E i \in 0 .. last - 1 : process_arr'[i] = b)
                <=> b # process_arr[cur] /\ (\E i \in 0 .. last : process_arr[i] = b)
  <2>1. ASSUME NEW i \in 0 .. last - 1, process_arr'[i] = b
        PROVE  b # process_arr[cur] /\ (\E k \in 0 .. last : process_arr[k] = b)
    BY <1>1, <1>3, <2>1 DEF RunExact
  <2>2. ASSUME b # process_arr[cur], NEW i \in 0 .. last, process_arr[i] = b
        PROVE  \E k \in 0 .. last - 1 : process_arr'[k] = b
    <3>1. CASE i = last
      BY <1>1, <1>3, <2>2, <3>1
    <3>2. CASE i # last
      BY <1>1, <1>3, <2>2, <3>2
    <3> QED  BY <3>1, <3>2
  <2> QED  BY <2>1, <2>2
<1> QED  BY <1>2, <1>4, <1>5 DEF Runnable, CurrentActor

(* next_process moves to another runnable actor and changes none.           *)
LEMMA NextProcessRun ==
    ASSUME RunExact, real_count > 0, NextProcess
    PROVE  RunExact' /\ Runnable' = Runnable
BY CurrentRuns DEF NextProcess, RunExact, Runnable

-----------------------------------------------------------------------------
(* wait_current_process adds the current actor to the waiting ones.         *)
LEMMA WaitCurrentWait ==
    ASSUME TableInv, WaitExact, CurrentActor \in Alive, CurrentActor \notin Waiting,
           WaitCurrent, UNCHANGED own_pid
    PROVE  WaitExact' /\ Waiting' = Waiting \cup {CurrentActor}
<1> DEFINE a     == CurrentActor
           next  == last_waited + 1
           cap   == GrownCap(wait_cap, next)
<1>0. PICK fill \in [Uncopied(wait_cap, next) -> { Pid(w.gen, 1) : w \in Leftovers }] :
         wait_arr' = [Grown(wait_arr, wait_cap, next, fill)
                        EXCEPT ![next] = own_pid[a]]
  BY DEF WaitCurrent
<1> DEFINE grown == Grown(wait_arr, wait_cap, next, fill)
<1>1. /\ next \in 1 .. wait_cap /\ last_waited = next - 1
      /\ wait_cap \in Nat \ {0}
      /\ wait_arr \in [0 .. wait_cap - 1 -> Pids]
      /\ own_pid \in [Actors -> Pids] /\ a \in Actors /\ own_pid[a] \in Pids
      /\ NoPid \in Pids
  BY PidAssumption DEF WaitExact, TableInv, PidTypeOK, Alive, NoPid, Pids
<1>2. /\ cap \in Nat \ {0} /\ next < cap
      /\ grown \in [0 .. cap - 1 -> Pids]
      /\ \A i \in 0 .. next - 1 : grown[i] = wait_arr[i]
  <2>1. \A w \in Leftovers : Pid(w.gen, 1) \in Pids
    <3> SUFFICES ASSUME NEW w \in Leftovers  PROVE Pid(w.gen, 1) \in Pids
      OBVIOUS
    <3>1. w.gen \in Nat /\ 1 \in Nat /\ 1 < SlotMod
      BY PidAssumption DEF GenWords
    <3> QED  BY <3>1, PidIsPid
  <2>2. CASE next >= wait_cap
    <3>1. next = wait_cap /\ cap = 2 * wait_cap
      BY <1>1, <2>2 DEF GrownCap, NeedsGrowth
    <3>2. grown = [i \in 0 .. cap - 1 |-> IF i < next THEN wait_arr[i] ELSE fill[i]]
      BY <2>2, <3>1 DEF Grown, NeedsGrowth
    <3>3. ASSUME NEW i \in next .. cap - 1  PROVE fill[i] \in Pids
      <4>1. Uncopied(wait_cap, next) = next .. cap - 1
        BY <2>2, <3>1 DEF Uncopied, NeedsGrowth
      <4>2. fill[i] \in { Pid(w.gen, 1) : w \in Leftovers }
        BY <4>1
      <4> QED  BY <2>1, <4>2
    <3> HIDE DEF grown, cap, next
    <3>4. cap \in Nat \ {0} /\ next < cap
      BY <1>1, <2>2, <3>1
    <3>5. ASSUME NEW i \in 0 .. cap - 1
          PROVE  /\ grown[i] \in Pids
                 /\ i < next => grown[i] = wait_arr[i]
      <4>1. CASE i < next
        BY <1>1, <3>1, <3>2, <4>1
      <4>2. CASE i >= next
        BY <1>1, <3>1, <3>2, <3>3, <4>2
      <4> QED  BY <1>1, <3>4, <4>1, <4>2
    <3>6. grown \in [0 .. cap - 1 -> Pids]
      BY <3>2, <3>5
    <3>7. \A i \in 0 .. next - 1 : i \in 0 .. cap - 1 /\ i < next
      BY <1>1, <3>4
    <3> QED  BY <3>4, <3>5, <3>6, <3>7
  <2>3. CASE ~ (next >= wait_cap)
    BY <1>1, <2>3 DEF GrownCap, Grown, NeedsGrowth
  <2> QED  BY <2>2, <2>3
<1>3. /\ wait_arr' = [grown EXCEPT ![next] = own_pid[a]]
      /\ wait_cap' = cap
      /\ last_waited' = next
      /\ waited_count' = waited_count + 1
      /\ own_pid' = own_pid
  BY <1>0 DEF WaitCurrent
<1> HIDE DEF a, grown, cap
<1>4. /\ wait_arr' \in [0 .. cap - 1 -> Pids]
      /\ \A i \in 0 .. next :
            wait_arr'[i] = IF i = next THEN own_pid[a] ELSE wait_arr[i]
  BY <1>1, <1>2, <1>3
<1>5. \A i \in 1 .. last_waited : wait_arr[i] # own_pid[a]
  BY <1>1 DEF Waiting, a
<1>6. WaitExact'
  <2>1. \A i \in 1 .. next : \E b \in Alive' : wait_arr'[i] = own_pid'[b]
    BY <1>1, <1>3, <1>4 DEF WaitExact, Alive, Live, a
  <2>2. ASSUME NEW i \in 1 .. next, NEW j \in 1 .. next, wait_arr'[i] = wait_arr'[j]
        PROVE  i = j
    BY <1>1, <1>4, <1>5, <2>2 DEF WaitExact
  <2> QED  BY <1>1, <1>2, <1>3, <1>4, <2>1, <2>2 DEF WaitExact
<1>7. ASSUME NEW b \in Actors
      PROVE  (\E i \in 1 .. next : wait_arr'[i] = own_pid[b])
                <=> b = a \/ (\E i \in 1 .. last_waited : wait_arr[i] = own_pid[b])
  <2>1. ASSUME NEW i \in 1 .. next, wait_arr'[i] = own_pid[b]
        PROVE  b = a \/ (\E k \in 1 .. last_waited : wait_arr[k] = own_pid[b])
    <3>1. CASE i = next
      BY <1>1, <1>4, <2>1, <3>1, PidsDistinct DEF Alive, a
    <3>2. CASE i # next
      BY <1>1, <1>4, <2>1, <3>2
    <3> QED  BY <3>1, <3>2
  <2>2. next \in 1 .. next
    BY <1>1
  <2> QED  BY <1>1, <1>4, <2>1, <2>2
<1>8. \A b \in Actors : b \in Waiting' <=> b = a \/ b \in Waiting
  BY <1>3, <1>7 DEF Waiting
<1>9. Waiting \subseteq Actors /\ Waiting' \subseteq Actors
  BY DEF Waiting
<1> QED  BY <1>1, <1>6, <1>8, <1>9 DEF a

(* A pid that wake_process finds in wait_arr is removed, and no other.      *)
LEMMA WakeFoundWait ==
    ASSUME TableInv, WaitExact, NEW a \in Alive, NEW i \in 0 .. last_waited,
           WakeFoundAt(i, own_pid[a]), UNCHANGED own_pid
    PROVE  /\ WaitExact'
           /\ a \in Waiting
           /\ Waiting' = Waiting \ {a}
<1> DEFINE last == last_waited
<1>1. /\ last \in 0 .. wait_cap - 1 /\ wait_cap \in Nat \ {0}
      /\ wait_arr \in [0 .. wait_cap - 1 -> Pids]
      /\ wait_arr[0] = NoPid /\ waited_count = last
      /\ a \in Actors /\ own_pid[a] # NoPid /\ NoPid \in Pids
  BY PidAssumption DEF WaitExact, Alive, Live, NoPid, Pids
<1>2. /\ wait_arr[i] = own_pid[a]
      /\ wait_arr' = [wait_arr EXCEPT ![i] = wait_arr[last], ![last] = NoPid]
      /\ last_waited' = last - 1
      /\ waited_count' = waited_count - 1
      /\ wait_cap' = wait_cap
      /\ own_pid' = own_pid
  BY DEF WakeFoundAt
<1>3. i \in 1 .. last
  BY <1>1, <1>2
<1>4. /\ wait_arr' \in [0 .. wait_cap - 1 -> Pids]
      /\ \A k \in 0 .. last - 1 :
            wait_arr'[k] = IF k = i THEN wait_arr[last] ELSE wait_arr[k]
  BY <1>1, <1>2, <1>3
<1>5. \A j, k \in 1 .. last : wait_arr[j] = wait_arr[k] => j = k
  BY DEF WaitExact
<1>6. WaitExact'
  <2>1. \A k \in 1 .. last - 1 : \E b \in Alive' : wait_arr'[k] = own_pid'[b]
    <3>1. Alive' = Alive
      BY <1>2 DEF Alive, Live
    <3>2. \A k \in 1 .. last : \E b \in Alive : wait_arr[k] = own_pid[b]
      BY DEF WaitExact
    <3> QED  BY <1>1, <1>2, <1>3, <1>4, <3>1, <3>2
  <2>2. ASSUME NEW j \in 1 .. last - 1, NEW k \in 1 .. last - 1,
               wait_arr'[j] = wait_arr'[k]
        PROVE  j = k
    BY <1>1, <1>3, <1>4, <1>5, <2>2
  <2>3. wait_arr'[0] = NoPid
    BY <1>1, <1>3, <1>4
  <2> QED  BY <1>1, <1>2, <1>3, <1>4, <2>1, <2>2, <2>3 DEF WaitExact
<1>7. ASSUME NEW b \in Actors
      PROVE  (\E k \in 1 .. last - 1 : wait_arr'[k] = own_pid[b])
                <=> b # a /\ (\E k \in 1 .. last : wait_arr[k] = own_pid[b])
  <2>1. ASSUME NEW k \in 1 .. last - 1, wait_arr'[k] = own_pid[b]
        PROVE  b # a /\ (\E j \in 1 .. last : wait_arr[j] = own_pid[b])
    <3>1. PICK j \in 1 .. last : j # i /\ wait_arr[j] = own_pid[b]
      BY <1>1, <1>3, <1>4, <2>1
    <3> QED  BY <1>2, <1>3, <1>5, <3>1
  <2>2. ASSUME b # a, NEW k \in 1 .. last, wait_arr[k] = own_pid[b]
        PROVE  \E j \in 1 .. last - 1 : wait_arr'[j] = own_pid[b]
    <3>1. k # i
      BY <1>2, <2>2, PidsDistinct DEF Alive
    <3>2. CASE k = last
      BY <1>1, <1>3, <1>4, <2>2, <3>1, <3>2
    <3>3. CASE k # last
      BY <1>1, <1>3, <1>4, <2>2, <3>1, <3>3
    <3> QED  BY <3>2, <3>3
  <2> QED  BY <2>1, <2>2
<1>8. a \in Waiting
  BY <1>1, <1>2, <1>3 DEF Waiting
<1>9. \A b \in Actors : b \in Waiting' <=> b # a /\ b \in Waiting
  BY <1>2, <1>7 DEF Waiting
<1>10. Waiting \subseteq Actors /\ Waiting' \subseteq Actors
  BY DEF Waiting
<1> QED  BY <1>6, <1>8, <1>9, <1>10

(* A pid given to an actor that was dead is in nobody's wait_arr entry.     *)
LEMMA AssignWait ==
    ASSUME TableInv, TableInv', WaitExact, UNCHANGED waitVars,
           NEW c \in Actors, ~ Live(c),
           NEW p, p # NoPid, own_pid' = [own_pid EXCEPT ![c] = p]
    PROVE  WaitExact' /\ Waiting' = Waiting /\ Alive' = Alive \cup {c}
<1>1. /\ own_pid \in [Actors -> Pids]
      /\ own_pid'[c] = p
      /\ \A b \in Actors : b # c => own_pid'[b] = own_pid[b]
  BY DEF TableInv, PidTypeOK
<1>2. /\ wait_arr' = wait_arr /\ wait_cap' = wait_cap
      /\ last_waited' = last_waited /\ waited_count' = waited_count
  BY DEF waitVars
<1>3. Alive' = Alive \cup {c}
  BY <1>1 DEF Alive, Live, NoPid
<1>4. ASSUME NEW i \in 1 .. last_waited
      PROVE  wait_arr[i] # own_pid[c] /\ wait_arr[i] # p
  <2>1. PICK b \in Alive : wait_arr[i] = own_pid[b]
    BY DEF WaitExact
  <2>2. b \in Actors /\ b # c /\ Live(b) /\ own_pid[b] # own_pid[c]
    BY <2>1 DEF Alive, Live
  <2>3. own_pid'[b] # own_pid'[c]
    <3>1. Live(b)'
      BY <1>1, <2>2 DEF Live, NoPid
    <3> QED  BY <2>2, <3>1 DEF TableInv, OwnSlot, Live, NoPid
  <2> QED  BY <1>1, <2>1, <2>2, <2>3
<1>5. Waiting' = Waiting
  BY <1>1, <1>2, <1>4 DEF Waiting
<1>6. WaitExact'
  <2>1. ASSUME NEW i \in 1 .. last_waited
        PROVE  \E b \in Alive' : wait_arr[i] = own_pid'[b]
    <3>1. PICK b \in Alive : wait_arr[i] = own_pid[b]
      BY DEF WaitExact
    <3>2. b # c /\ b \in Actors /\ b \in Alive'
      BY <1>3, <3>1 DEF Alive
    <3> QED  BY <1>1, <3>1, <3>2
  <2> QED  BY <1>2, <2>1 DEF WaitExact, NoPid
<1> QED  BY <1>3, <1>5, <1>6

(* Nor is the pid that clear_pid takes from an actor that does not wait.    *)
LEMMA ClearWait ==
    ASSUME TableInv, WaitExact, UNCHANGED waitVars,
           NEW c \in Alive, c \notin Waiting,
           own_pid' = [own_pid EXCEPT ![c] = NoPid]
    PROVE  WaitExact' /\ Waiting' = Waiting /\ Alive' = Alive \ {c}
<1>1. /\ own_pid \in [Actors -> Pids] /\ c \in Actors
      /\ own_pid'[c] = NoPid
      /\ \A b \in Actors : b # c => own_pid'[b] = own_pid[b]
  BY DEF TableInv, PidTypeOK, Alive
<1>2. /\ wait_arr' = wait_arr /\ wait_cap' = wait_cap
      /\ last_waited' = last_waited /\ waited_count' = waited_count
  BY DEF waitVars
<1>3. Alive' = Alive \ {c}
  BY <1>1 DEF Alive, Live, NoPid
<1>4. ASSUME NEW i \in 1 .. last_waited
      PROVE  wait_arr[i] # own_pid[c] /\ wait_arr[i] # NoPid
  BY <1>1 DEF Waiting, WaitExact, Alive, Live
<1>5. Waiting' = Waiting
  BY <1>1, <1>2, <1>4 DEF Waiting
<1>6. WaitExact'
  <2>1. ASSUME NEW i \in 1 .. last_waited
        PROVE  \E b \in Alive' : wait_arr[i] = own_pid'[b]
    <3>1. PICK b \in Alive : wait_arr[i] = own_pid[b]
      BY DEF WaitExact
    <3>2. b # c /\ b \in Actors /\ b \in Alive'
      BY <1>3, <1>4, <3>1 DEF Alive
    <3> QED  BY <1>1, <3>1, <3>2
  <2> QED  BY <1>2, <2>1 DEF WaitExact, NoPid
<1> QED  BY <1>3, <1>5, <1>6

-----------------------------------------------------------------------------
(* rt_io_park_current takes the current actor out of process_arr.           *)
LEMMA ParkCurrentRun ==
    ASSUME RunExact, real_count > 0, ParkCurrent
    PROVE  /\ RunExact'
           /\ Runnable' = Runnable \ {CurrentActor}
<1> DEFINE cur  == current_process
           last == last_process_index
<1>1. /\ cur \in 0 .. last /\ last \in 0 .. process_cap - 1
      /\ process_cap \in Nat \ {0}
      /\ process_arr \in [0 .. process_cap - 1 -> Actors \cup {NoActor}]
  BY CurrentRuns DEF RunExact
<1>2. /\ process_arr' = [process_arr EXCEPT ![cur] = process_arr[last]]
      /\ process_cap' = process_cap
      /\ last_process_index' = last - 1
      /\ real_count' = real_count - 1
      /\ current_process' = 0
  BY DEF ParkCurrent
<1>3. /\ process_arr' \in [0 .. process_cap - 1 -> Actors \cup {NoActor}]
      /\ \A i \in 0 .. last - 1 :
            process_arr'[i] = IF i = cur THEN process_arr[last] ELSE process_arr[i]
  BY <1>1, <1>2
<1>4. RunExact'
  <2>1. \A i \in 0 .. last - 1 : process_arr'[i] \in Actors
    BY <1>1, <1>3 DEF RunExact
  <2>2. ASSUME NEW i \in 0 .. last - 1, NEW j \in 0 .. last - 1,
               process_arr'[i] = process_arr'[j]
        PROVE  i = j
    BY <1>1, <1>3, <2>2 DEF RunExact
  <2> QED  BY <1>1, <1>2, <1>3, <2>1, <2>2 DEF RunExact
<1>5. ASSUME NEW b \in Actors
      PROVE  (\E i \in 0 .. last - 1 : process_arr'[i] = b)
                <=> b # process_arr[cur] /\ (\E i \in 0 .. last : process_arr[i] = b)
  <2>1. ASSUME NEW i \in 0 .. last - 1, process_arr'[i] = b
        PROVE  b # process_arr[cur] /\ (\E k \in 0 .. last : process_arr[k] = b)
    BY <1>1, <1>3, <2>1 DEF RunExact
  <2>2. ASSUME b # process_arr[cur], NEW i \in 0 .. last, process_arr[i] = b
        PROVE  \E k \in 0 .. last - 1 : process_arr'[k] = b
    <3>1. CASE i = last
      BY <1>1, <1>3, <2>2, <3>1
    <3>2. CASE i # last
      BY <1>1, <1>3, <2>2, <3>2
    <3> QED  BY <3>1, <3>2
  <2> QED  BY <2>1, <2>2
<1> QED  BY <1>2, <1>4, <1>5 DEF Runnable, CurrentActor

(* It puts that actor at the end of io_parked, and the index with it.       *)
LEMMA ParkCurrentPark ==
    ASSUME ParkExact, CurrentActor \in Actors, CurrentActor \notin Parked,
           ParkCurrent
    PROVE  ParkExact' /\ Parked' = Parked \cup {CurrentActor}
<1> DEFINE a == CurrentActor
           n == Len(io_parked)
<1>1. /\ io_parked' = Append(io_parked, a)
      /\ io_parked_idx' = [io_parked_idx EXCEPT ![a] = n]
  BY DEF ParkCurrent
<1>2. /\ n \in Nat /\ a \in Actors
      /\ io_parked \in Seq(Actors) /\ io_parked_idx \in [Actors -> Nat]
      /\ \A i \in 1 .. n : io_parked[i] \in Actors /\ io_parked[i] # a
  BY DEF ParkExact, Parked
<1> HIDE DEF a
<1>3. /\ io_parked' \in Seq(Actors) /\ Len(io_parked') = n + 1
      /\ \A i \in 1 .. n : io_parked'[i] = io_parked[i]
      /\ io_parked'[n + 1] = a
  BY <1>1, <1>2, AppendProperties
<1>4. /\ io_parked_idx' \in [Actors -> Nat]
      /\ io_parked_idx'[a] = n
      /\ \A b \in Actors : b # a => io_parked_idx'[b] = io_parked_idx[b]
  BY <1>1, <1>2
<1>5. \A i \in 1 .. n + 1 : i \in 1 .. n \/ i = n + 1
  BY <1>2
<1>6. ParkExact'
  <2>1. ASSUME NEW i \in 1 .. n + 1
        PROVE  io_parked_idx'[io_parked'[i]] = i - 1
    <3>1. CASE i \in 1 .. n
      BY <1>2, <1>3, <1>4, <3>1 DEF ParkExact
    <3>2. CASE i = n + 1
      BY <1>2, <1>3, <1>4, <3>2
    <3> QED  BY <1>5, <3>1, <3>2
  <2> QED  BY <1>3, <1>4, <2>1 DEF ParkExact
<1>7. \A b \in Actors : b \in Parked' <=> b = a \/ b \in Parked
  <2>1. n + 1 \in 1 .. n + 1 /\ 1 .. n \subseteq 1 .. n + 1
    BY <1>2
  <2> HIDE DEF n
  <2>2. ASSUME NEW b \in Actors
        PROVE  (\E i \in 1 .. n + 1 : io_parked'[i] = b)
                  <=> b = a \/ (\E i \in 1 .. n : io_parked[i] = b)
    <3>1. CASE b = a
      BY <1>3, <2>1, <3>1
    <3>2. CASE b # a
      <4>1. ASSUME NEW i \in 1 .. n, io_parked[i] = b
            PROVE  \E k \in 1 .. n + 1 : io_parked'[k] = b
        BY <1>3, <2>1, <4>1
      <4>2. ASSUME NEW i \in 1 .. n + 1, io_parked'[i] = b
            PROVE  \E k \in 1 .. n : io_parked[k] = b
        BY <1>3, <1>5, <3>2, <4>2
      <4> QED  BY <3>2, <4>1, <4>2
    <3> QED  BY <3>1, <3>2
  <2> QED  BY <1>3, <2>2 DEF Parked, n
<1>8. Parked \subseteq Actors /\ Parked' \subseteq Actors
  BY DEF Parked
<1> QED  BY <1>2, <1>6, <1>7, <1>8 DEF a

(* emit_wake_by_user_data appends an actor to process_arr, if there is room.*)
LEMMA WakeParkedRun ==
    ASSUME RunExact, NEW a \in Actors, a \notin Runnable, WakeParked(a),
           last_process_index' < process_cap'
    PROVE  RunExact' /\ Runnable' = Runnable \cup {a}
<1> DEFINE next == last_process_index + 1
<1>1. /\ process_arr' = StoredPastLast(a)
      /\ last_process_index' = next
      /\ real_count' = real_count + 1
      /\ process_cap' = process_cap /\ current_process' = current_process
  BY DEF WakeParked
<1>2. /\ next \in 0 .. process_cap - 1 /\ last_process_index = next - 1
      /\ process_cap \in Nat \ {0}
      /\ process_arr \in [0 .. process_cap - 1 -> Actors \cup {NoActor}]
  BY <1>1 DEF RunExact
<1>3. /\ process_arr' \in [0 .. process_cap - 1 -> Actors \cup {NoActor}]
      /\ \A i \in 0 .. next :
            process_arr'[i] = IF i = next THEN a ELSE process_arr[i]
  <2>1. process_arr' = [i \in 0 .. process_cap - 1 |->
                          IF i = next THEN a ELSE process_arr[i]]
    <3>1. DOMAIN process_arr \cup {next} = 0 .. process_cap - 1
      BY <1>2
    <3> QED  BY <1>1, <3>1 DEF StoredPastLast
  <2> QED  BY <1>2, <2>1
<1>4. \A i \in 0 .. last_process_index : process_arr[i] # a
  BY DEF Runnable
<1>5. RunExact'
  <2>1. \A i \in 0 .. next : process_arr'[i] \in Actors
    BY <1>2, <1>3 DEF RunExact
  <2>2. ASSUME NEW i \in 0 .. next, NEW j \in 0 .. next,
               process_arr'[i] = process_arr'[j]
        PROVE  i = j
    BY <1>2, <1>3, <1>4, <2>2 DEF RunExact
  <2> QED  BY <1>1, <1>2, <1>3, <2>1, <2>2 DEF RunExact
<1>6. Runnable' = Runnable \cup {a}
  <2>1. ASSUME NEW b \in Actors
        PROVE  (\E i \in 0 .. next : process_arr'[i] = b)
                  <=> b = a \/ (\E i \in 0 .. last_process_index : process_arr[i] = b)
    <3>1. next \in 0 .. next
      BY <1>2
    <3> QED  BY <1>2, <1>3, <3>1
  <2> QED  BY <1>1, <2>1 DEF Runnable
<1> QED  BY <1>5, <1>6

(* It removes from io_parked exactly the actor it names: the index that     *)
(* actor carries is right, and the one that moves is told its new place.    *)
LEMMA WakeParkedPark ==
    ASSUME ParkExact, NEW a \in Parked, WakeParked(a)
    PROVE  ParkExact' /\ Parked' = Parked \ {a}
<1> DEFINE n     == Len(io_parked)
           m     == io_parked_idx[a]
           moved == io_parked[n]
           q     == [io_parked EXCEPT ![m + 1] = moved]
<1>1. PICK k \in 1 .. n : io_parked[k] = a
  BY DEF Parked
<1>2. /\ n \in Nat /\ n >= 1 /\ m = k - 1 /\ m + 1 = k
      /\ io_parked \in Seq(Actors) /\ io_parked_idx \in [Actors -> Nat]
      /\ \A i \in 1 .. n : io_parked[i] \in Actors
      /\ \A i \in 1 .. n : io_parked_idx[io_parked[i]] = i - 1
      /\ a \in Actors /\ moved \in Actors
  <2>1. io_parked \in Seq(Actors) /\ n \in Nat
    BY DEF ParkExact
  <2>2. \A i \in 1 .. n : io_parked[i] \in Actors
    BY <2>1, SeqElement
  <2>3. n \in 1 .. n
    BY <1>1, <2>1
  <2> QED  BY <1>1, <2>1, <2>2, <2>3 DEF ParkExact, Parked
<1>3. \A i, j \in 1 .. n : io_parked[i] = io_parked[j] => i = j
  BY <1>2
<1>4. /\ io_parked' = SubSeq(q, 1, n - 1)
      /\ io_parked_idx' = IF m = n - 1 THEN io_parked_idx
                          ELSE [io_parked_idx EXCEPT ![moved] = m]
  BY <1>2 DEF WakeParked
<1>5. /\ q \in Seq(Actors) /\ Len(q) = n /\ q # << >>
      /\ \A i \in 1 .. n : q[i] = IF i = k THEN moved ELSE io_parked[i]
  BY <1>2
<1> HIDE DEF n, m, moved, q
<1>6. /\ io_parked' \in Seq(Actors) /\ Len(io_parked') = n - 1
      /\ \A i \in 1 .. n - 1 : io_parked'[i] = q[i]
  <2> DEFINE popped == SubSeq(q, 1, Len(q) - 1)
  <2>1. io_parked' = popped
    BY <1>4, <1>5
  <2>2. /\ popped \in Seq(Actors) /\ Len(popped) = Len(q) - 1
        /\ \A i \in 1 .. Len(q) - 1 : popped[i] = q[i]
    BY <1>5, PopFacts
  <2> HIDE DEF popped
  <2>3. Len(q) = n
    BY <1>5
  <2>4. Len(io_parked') = n - 1 /\ io_parked' \in Seq(Actors)
    BY <2>1, <2>2, <2>3
  <2>5. \A i \in 1 .. n - 1 : io_parked'[i] = q[i]
    BY <2>1, <2>2, <2>3
  <2> QED  BY <2>4, <2>5
<1>7. \A i \in 1 .. n - 1 :
         /\ i \in 1 .. n
         /\ io_parked'[i] = IF i = k THEN moved ELSE io_parked[i]
  <2> SUFFICES ASSUME NEW i \in 1 .. n - 1
               PROVE  /\ i \in 1 .. n
                      /\ io_parked'[i] = IF i = k THEN moved ELSE io_parked[i]
    OBVIOUS
  <2>1. i \in 1 .. n
    BY <1>2
  <2>2. io_parked'[i] = q[i]
    BY <1>6
  <2> QED  BY <1>5, <2>1, <2>2
<1>8. /\ io_parked_idx' \in [Actors -> Nat]
      /\ k # n => io_parked_idx'[moved] = k - 1
      /\ \A b \in Actors : b # moved => io_parked_idx'[b] = io_parked_idx[b]
      /\ k = n => io_parked_idx' = io_parked_idx
  BY <1>2, <1>4
<1>9. ParkExact'
  <2>1. ASSUME NEW i \in 1 .. n - 1
        PROVE  io_parked_idx'[io_parked'[i]] = i - 1
    <3>1. CASE i = k
      BY <1>2, <1>7, <1>8, <3>1
    <3>2. CASE i # k
      <4>1. io_parked[i] # moved
        BY <1>2, <1>3 DEF moved
      <4> QED  BY <1>2, <1>7, <1>8, <3>2, <4>1
    <3> QED  BY <3>1, <3>2
  <2> QED  BY <1>6, <1>8, <2>1 DEF ParkExact
<1>10. ASSUME NEW b \in Actors
       PROVE  (\E i \in 1 .. n - 1 : io_parked'[i] = b)
                 <=> b # a /\ (\E i \in 1 .. n : io_parked[i] = b)
  <2>1. ASSUME NEW i \in 1 .. n - 1, io_parked'[i] = b
        PROVE  b # a /\ (\E j \in 1 .. n : io_parked[j] = b)
    <3>1. CASE i = k
      BY <1>1, <1>2, <1>3, <1>7, <2>1, <3>1 DEF moved
    <3>2. CASE i # k
      BY <1>1, <1>2, <1>3, <1>7, <2>1, <3>2
    <3> QED  BY <3>1, <3>2
  <2>2. ASSUME b # a, NEW i \in 1 .. n, io_parked[i] = b
        PROVE  \E j \in 1 .. n - 1 : io_parked'[j] = b
    <3>1. i # k
      BY <1>1, <2>2
    <3>2. CASE i = n
      <4>1. k \in 1 .. n - 1
        BY <1>2, <3>1, <3>2
      <4> QED  BY <1>7, <2>2, <3>2, <4>1 DEF moved
    <3>3. CASE i # n
      <4>1. i \in 1 .. n - 1
        BY <1>2, <3>3
      <4> QED  BY <1>7, <2>2, <3>1, <4>1
    <3> QED  BY <3>2, <3>3
  <2> QED  BY <2>1, <2>2
<1>11. \A b \in Actors : b \in Parked' <=> b # a /\ b \in Parked
  BY <1>6, <1>10 DEF Parked, n
<1>12. Parked \subseteq Actors /\ Parked' \subseteq Actors
  BY DEF Parked
<1> QED  BY <1>9, <1>11, <1>12

-----------------------------------------------------------------------------
(* The table and the three arrays together: what every operation of the     *)
(* scheduler keeps.                                                         *)
Placed ==
    /\ TableInv
    /\ RunExact
    /\ WaitExact
    /\ ParkExact
    /\ Apart

(* Operations that leave an array alone leave its actors where they are.    *)
LEMMA QueuesUntouched ==
    /\ RunExact /\ UNCHANGED runVars
          => RunExact' /\ Runnable' = Runnable /\ CurrentActor' = CurrentActor
    /\ WaitExact /\ UNCHANGED << waitVars, own_pid >>
          => WaitExact' /\ Waiting' = Waiting
    /\ ParkExact /\ UNCHANGED parkVars => ParkExact' /\ Parked' = Parked
    /\ UNCHANGED own_pid => Alive' = Alive
<1>1. ASSUME RunExact, UNCHANGED runVars
      PROVE  RunExact' /\ Runnable' = Runnable /\ CurrentActor' = CurrentActor
  BY <1>1 DEF runVars, RunExact, Runnable, CurrentActor
<1>2. ASSUME WaitExact, UNCHANGED << waitVars, own_pid >>
      PROVE  WaitExact' /\ Waiting' = Waiting
  BY <1>2 DEF waitVars, WaitExact, Waiting, Alive, Live
<1>3. ASSUME ParkExact, UNCHANGED parkVars
      PROVE  ParkExact' /\ Parked' = Parked
  BY <1>3 DEF parkVars, ParkExact, Parked
<1>4. ASSUME UNCHANGED own_pid  PROVE Alive' = Alive
  BY <1>4 DEF Alive, Live
<1> QED  BY <1>1, <1>2, <1>3, <1>4

(* A step that touches neither table nor arrays.                            *)
LEMMA NothingMoves ==
    ASSUME Placed, UNCHANGED << pidVars, queueVars >>
    PROVE  /\ Placed'
           /\ Runnable' = Runnable /\ Waiting' = Waiting /\ Parked' = Parked
           /\ Alive' = Alive /\ CurrentActor' = CurrentActor
<1>1. UNCHANGED << runVars, waitVars, parkVars, own_pid, pidVars >>
  BY DEF queueVars, pidVars
<1>2. TableInv'
  BY <1>1, TableUntouched DEF Placed
<1> QED  BY <1>1, <1>2, QueuesUntouched DEF Placed, Apart

(* Spawn: the new actor becomes alive and runnable.                         *)
LEMMA SpawnPlaced ==
    ASSUME Placed, NEW c \in Actors, ~ Live(c), AssignPid(c), NewProcess(c),
           UNCHANGED << waitVars, parkVars >>
    PROVE  /\ Placed'
           /\ Runnable' = Runnable \cup {c}
           /\ Waiting' = Waiting /\ Parked' = Parked
           /\ Alive' = Alive \cup {c}
           /\ real_count > 0 => CurrentActor' = CurrentActor
<1>1. TableInv /\ TableInv'
  BY AssignInv DEF Placed
<1>2. PICK p \in Pids : p # NoPid /\ own_pid' = [own_pid EXCEPT ![c] = p]
  BY <1>1, AssignNames
<1>3. WaitExact' /\ Waiting' = Waiting /\ Alive' = Alive \cup {c}
  BY <1>1, <1>2, AssignWait DEF Placed
<1>4. c \notin Alive
  BY DEF Alive
<1>5. c \notin Runnable /\ c \notin Waiting /\ c \notin Parked
  BY <1>4 DEF Placed, Apart
<1>6. /\ RunExact' /\ Runnable' = Runnable \cup {c}
      /\ real_count > 0 => CurrentActor' = CurrentActor
  BY <1>5, NewProcessRun DEF Placed
<1>7. ParkExact' /\ Parked' = Parked
  BY QueuesUntouched DEF Placed
<1>8. Apart'
  BY <1>3, <1>5, <1>6, <1>7 DEF Placed, Apart
<1> QED  BY <1>1, <1>3, <1>6, <1>7, <1>8 DEF Placed

(* The end of an actor: it leaves process_arr and is no longer alive.       *)
LEMMA BuryPlaced ==
    ASSUME Placed, real_count > 0, ClearPid(CurrentActor), RemoveCurrent,
           UNCHANGED << waitVars, parkVars >>
    PROVE  /\ Placed'
           /\ Runnable' = Runnable \ {CurrentActor}
           /\ Waiting' = Waiting /\ Parked' = Parked
           /\ Alive' = Alive \ {CurrentActor}
<1>1. CurrentActor \in Runnable /\ CurrentActor \in Actors
  BY CurrentRuns DEF Placed
<1>2. /\ CurrentActor \in Alive /\ Live(CurrentActor)
      /\ CurrentActor \notin Waiting /\ CurrentActor \notin Parked
  BY <1>1 DEF Placed, Apart, Alive
<1>3. TableInv'
  BY <1>1, <1>2, ClearInv DEF Placed
<1>4. own_pid' = [own_pid EXCEPT ![CurrentActor] = NoPid]
  BY DEF ClearPid
<1>5. WaitExact' /\ Waiting' = Waiting /\ Alive' = Alive \ {CurrentActor}
  BY <1>2, <1>4, ClearWait DEF Placed
<1>6. RunExact' /\ Runnable' = Runnable \ {CurrentActor}
  BY RemoveCurrentRun DEF Placed
<1>7. ParkExact' /\ Parked' = Parked
  BY QueuesUntouched DEF Placed
<1>8. Apart'
  BY <1>1, <1>2, <1>5, <1>6, <1>7 DEF Placed, Apart
<1> QED  BY <1>3, <1>5, <1>6, <1>7, <1>8 DEF Placed

(* A wait: from process_arr to wait_arr.                                    *)
LEMMA WaitPlaced ==
    ASSUME Placed, real_count > 0, WaitCurrent, RemoveCurrent,
           UNCHANGED << pidVars, parkVars >>
    PROVE  /\ Placed'
           /\ Runnable' = Runnable \ {CurrentActor}
           /\ Waiting' = Waiting \cup {CurrentActor}
           /\ Parked' = Parked /\ Alive' = Alive
<1>1. CurrentActor \in Runnable
  BY CurrentRuns DEF Placed
<1>2. /\ CurrentActor \in Alive
      /\ CurrentActor \notin Waiting /\ CurrentActor \notin Parked
  BY <1>1 DEF Placed, Apart
<1>3. TableInv' /\ own_pid' = own_pid
  BY TableUntouched DEF Placed, pidVars
<1>4. WaitExact' /\ Waiting' = Waiting \cup {CurrentActor}
  BY <1>2, <1>3, WaitCurrentWait DEF Placed
<1>5. RunExact' /\ Runnable' = Runnable \ {CurrentActor}
  BY RemoveCurrentRun DEF Placed
<1>6. ParkExact' /\ Parked' = Parked /\ Alive' = Alive
  BY <1>3, QueuesUntouched DEF Placed
<1>7. Apart'
  BY <1>1, <1>2, <1>4, <1>5, <1>6 DEF Placed, Apart
<1> QED  BY <1>3, <1>4, <1>5, <1>6, <1>7 DEF Placed

(* The wake after a send: the target, if it waits, becomes runnable; nobody *)
(* else moves.                                                              *)
LEMMA WakePlaced ==
    ASSUME Placed, real_count > 0, NEW p \in HeldPids,
           LookupProcCtx(p) # NoActor, Wake(p),
           UNCHANGED << pidVars, parkVars >>
    PROVE  /\ Placed'
           /\ LookupProcCtx(p) \in Alive
           /\ Waiting' = Waiting \ {LookupProcCtx(p)}
           /\ Runnable' = IF LookupProcCtx(p) \in Waiting
                          THEN Runnable \cup {LookupProcCtx(p)} ELSE Runnable
           /\ Parked' = Parked /\ Alive' = Alive
           /\ CurrentActor' = CurrentActor
<1> DEFINE a == LookupProcCtx(p)
<1>1. /\ TableInv /\ TableInv' /\ own_pid' = own_pid
      /\ RunExact /\ WaitExact /\ ParkExact /\ Apart
  BY TableUntouched DEF Placed, pidVars
<1>2. a \in Actors /\ a \in Alive /\ own_pid[a] = p
  BY <1>1, LookupOwner DEF Alive
<1>3. ParkExact' /\ Parked' = Parked /\ Alive' = Alive
  BY <1>1, QueuesUntouched
<1>4. CASE WakeNone(p)
  <2>1. UNCHANGED << runVars, waitVars >>
    BY <1>4 DEF Wake
  <2>2. /\ RunExact' /\ Runnable' = Runnable /\ CurrentActor' = CurrentActor
        /\ WaitExact' /\ Waiting' = Waiting
    BY <1>1, <2>1, QueuesUntouched
  <2>3. a \notin Waiting
    <3>1. \A i \in 1 .. last_waited : i \in 0 .. last_waited
      BY <1>1 DEF WaitExact
    <3> QED  BY <1>2, <1>4, <3>1 DEF WakeNone, Waiting
  <2>4. Apart'
    BY <1>1, <1>3, <2>2 DEF Apart
  <2> HIDE DEF a
  <2> QED  BY <1>1, <1>2, <1>3, <2>2, <2>3, <2>4 DEF Placed, a
<1>5. CASE ~ WakeNone(p)
  <2>1. PICK i \in 0 .. last_waited : WakeFoundAt(i, p)
    BY <1>5 DEF Wake
  <2>2. WaitExact' /\ a \in Waiting /\ Waiting' = Waiting \ {a}
    BY <1>1, <1>2, <2>1, WakeFoundWait
  <2>3. NewProcess(a)
    BY <2>1 DEF WakeFoundAt
  <2>4. a \notin Runnable /\ a \notin Parked
    BY <1>1, <2>2 DEF Apart
  <2>5. RunExact' /\ Runnable' = Runnable \cup {a} /\ CurrentActor' = CurrentActor
    BY <1>1, <1>2, <2>3, <2>4, NewProcessRun
  <2>6. Apart'
    BY <1>1, <1>3, <2>2, <2>4, <2>5 DEF Apart
  <2> HIDE DEF a
  <2> QED  BY <1>1, <1>2, <1>3, <2>2, <2>5, <2>6 DEF Placed, a
<1> QED  BY <1>4, <1>5

(* Parking: from process_arr to io_parked.                                  *)
LEMMA ParkPlaced ==
    ASSUME Placed, real_count > 0, ParkCurrent, UNCHANGED << pidVars, waitVars >>
    PROVE  /\ Placed'
           /\ Runnable' = Runnable \ {CurrentActor}
           /\ Parked' = Parked \cup {CurrentActor}
           /\ Waiting' = Waiting /\ Alive' = Alive
<1>1. CurrentActor \in Runnable /\ CurrentActor \in Actors
  BY CurrentRuns DEF Placed
<1>2. CurrentActor \notin Waiting /\ CurrentActor \notin Parked
  BY <1>1 DEF Placed, Apart
<1>3. TableInv' /\ own_pid' = own_pid
  BY TableUntouched DEF Placed, pidVars
<1>4. RunExact' /\ Runnable' = Runnable \ {CurrentActor}
  BY ParkCurrentRun DEF Placed
<1>5. ParkExact' /\ Parked' = Parked \cup {CurrentActor}
  BY <1>1, <1>2, ParkCurrentPark DEF Placed
<1>6. WaitExact' /\ Waiting' = Waiting /\ Alive' = Alive
  BY <1>3, QueuesUntouched DEF Placed
<1>7. Apart'
  BY <1>1, <1>2, <1>4, <1>5, <1>6 DEF Placed, Apart
<1> QED  BY <1>3, <1>4, <1>5, <1>6, <1>7 DEF Placed

(* A completion: from io_parked to process_arr, which must have room.       *)
LEMMA WakeParkedPlaced ==
    ASSUME Placed, NEW a \in Parked, WakeParked(a),
           last_process_index' < process_cap', UNCHANGED << pidVars, waitVars >>
    PROVE  /\ Placed'
           /\ Runnable' = Runnable \cup {a}
           /\ Parked' = Parked \ {a}
           /\ Waiting' = Waiting /\ Alive' = Alive
<1>1. a \in Actors /\ a \notin Runnable /\ a \notin Waiting
  BY DEF Placed, Apart, Parked
<1>2. TableInv' /\ own_pid' = own_pid
  BY TableUntouched DEF Placed, pidVars
<1>3. RunExact' /\ Runnable' = Runnable \cup {a}
  BY <1>1, WakeParkedRun DEF Placed
<1>4. ParkExact' /\ Parked' = Parked \ {a}
  BY WakeParkedPark DEF Placed
<1>5. WaitExact' /\ Waiting' = Waiting /\ Alive' = Alive
  BY <1>2, QueuesUntouched DEF Placed
<1>6. Apart'
  BY <1>1, <1>3, <1>4, <1>5 DEF Placed, Apart
<1> QED  BY <1>2, <1>3, <1>4, <1>5, <1>6 DEF Placed

(* The round robin moves nobody.                                            *)
LEMMA NextPlaced ==
    ASSUME Placed, real_count > 0, NextProcess,
           UNCHANGED << pidVars, waitVars, parkVars >>
    PROVE  /\ Placed'
           /\ Runnable' = Runnable /\ Waiting' = Waiting /\ Parked' = Parked
           /\ Alive' = Alive
<1>1. TableInv' /\ own_pid' = own_pid
  BY TableUntouched DEF Placed, pidVars
<1>2. RunExact' /\ Runnable' = Runnable
  BY NextProcessRun DEF Placed
<1>3. /\ WaitExact' /\ Waiting' = Waiting /\ Alive' = Alive
      /\ ParkExact' /\ Parked' = Parked
  BY <1>1, QueuesUntouched DEF Placed
<1>4. Apart'
  BY <1>2, <1>3 DEF Placed, Apart
<1> QED  BY <1>1, <1>2, <1>3, <1>4 DEF Placed

(* main's entry: index 0 of an array where LAST_PROCESS_INDEX is already 0. *)
LEMMA MainPlaced ==
    ASSUME PidTableInit, RunQueueInit, NEW m \in Actors, AssignPid(m),
           process_arr' = [process_arr EXCEPT ![0] = m], real_count' = 1,
           UNCHANGED << process_cap, current_process, last_process_index,
                        waitVars, parkVars >>
    PROVE  /\ Placed'
           /\ Alive' = {m} /\ Runnable' = {m} /\ Waiting' = {} /\ Parked' = {}
<1>1. TableInv /\ (\A a \in Actors : ~ Live(a))
  BY InitTableInv DEF PidTableInit, Live
<1>2. TableInv'
  BY <1>1, AssignInv
<1>3. PICK p \in Pids : p # NoPid /\ own_pid' = [own_pid EXCEPT ![m] = p]
  BY <1>1, AssignNames
<1>4. WaitExact /\ Waiting = {} /\ Alive = {}
  BY <1>1, PidAssumption
     DEF RunQueueInit, WaitExact, Waiting, Alive, NoPid, Pids
<1>5. WaitExact' /\ Waiting' = {} /\ Alive' = {m}
  BY <1>1, <1>2, <1>3, <1>4, AssignWait
<1>6. /\ process_cap' \in Nat /\ process_cap' >= 2
      /\ process_arr' \in [0 .. process_cap' - 1 -> Actors \cup {NoActor}]
      /\ process_arr'[0] = m
      /\ last_process_index' = 0 /\ current_process' = 0 /\ real_count' = 1
  BY PidAssumption DEF RunQueueInit
<1>7. RunExact' /\ Runnable' = {m}
  BY <1>6 DEF RunExact, Runnable
<1>8. ParkExact' /\ Parked' = {}
  BY DEF RunQueueInit, ParkExact, Parked, parkVars
<1>9. Apart'
  BY <1>5, <1>7, <1>8 DEF Apart
<1> QED  BY <1>2, <1>5, <1>7, <1>8, <1>9 DEF Placed

-----------------------------------------------------------------------------
(***************************************************************************)
(* What the scheduler runs check on three actors, proved for every number  *)
(* of them, every capacity, quantum, batch and mix of block effects.       *)
(*                                                                         *)
(* A completion is stored into process_arr without a look at its capacity  *)
(* (emit_wake_by_user_data).  So the theorems speak of the behaviours in   *)
(* which there is always room, []WakeFitsQueue; the run ParkedWakeOverflow *)
(* shows one where there is not, and RoomForFewActors that there always is *)
(* when INITIAL_QUEUE_CAP is at least the number of actors.                *)
(***************************************************************************)
-----------------------------------------------------------------------------
(* How often t occurs in a ring.                                            *)
Count(ring, t) == Cardinality({ i \in 1 .. Len(ring) : ring[i] = t })

(* Outstanding counts a user_data in the three places it can be, before and *)
(* after a step.                                                            *)
LEMMA OutstandingSum ==
    ASSUME NEW t
    PROVE  /\ Outstanding(t) = Count(sq, t) + inflight[t] + Count(cq, t)
           /\ Outstanding(t)' = Count(sq', t) + inflight'[t] + Count(cq', t)
BY DEF Outstanding, Count

(* Occurrences are finitely many.                                           *)
LEMMA CountType ==
    ASSUME NEW S, NEW ring \in Seq(S), NEW t
    PROVE  /\ IsFiniteSet({ i \in 1 .. Len(ring) : ring[i] = t })
           /\ Count(ring, t) \in Nat
<1> DEFINE P == { i \in 1 .. Len(ring) : ring[i] = t }
<1>1. IsFiniteSet(1 .. Len(ring))
  BY FS_Interval
<1>2. IsFiniteSet(P)
  BY <1>1, FS_Subset
<1> QED  BY <1>2, FS_CardinalityType DEF Count

(* There are none in an empty ring.                                         *)
LEMMA CountEmpty ==
    ASSUME NEW t
    PROVE  Count(<< >>, t) = 0
<1>1. { i \in 1 .. Len(<< >>) : << >>[i] = t } = {}
  OBVIOUS
<1> QED  BY <1>1, FS_EmptySet DEF Count

(* One more entry counts for its own user_data and no other.                *)
LEMMA CountAppend ==
    ASSUME NEW S, NEW ring \in Seq(S), NEW u \in S, NEW t
    PROVE  Count(Append(ring, u), t) = Count(ring, t) + (IF u = t THEN 1 ELSE 0)
<1> DEFINE n == Len(ring)
           P == { i \in 1 .. n : ring[i] = t }
           Q == { i \in 1 .. n + 1 : Append(ring, u)[i] = t }
<1>1. /\ n \in Nat /\ Len(Append(ring, u)) = n + 1
      /\ \A i \in 1 .. n : Append(ring, u)[i] = ring[i]
      /\ Append(ring, u)[n + 1] = u
  BY AppendProperties
<1>2. IsFiniteSet(P) /\ Cardinality(P) \in Nat
  BY CountType DEF Count
<1>3. CASE u = t
  <2>1. PICK x : Q = P \cup {x} /\ x \notin P
    BY <1>1, <1>3
  <2> HIDE DEF P, Q
  <2>2. Cardinality(Q) = Cardinality(P) + 1
    BY <1>2, <2>1, FS_AddElement
  <2> QED  BY <1>1, <1>3, <2>2 DEF Count, P, Q
<1>4. CASE u # t
  <2>1. Q = P
    BY <1>1, <1>4
  <2>2. Count(Append(ring, u), t) = Cardinality(Q) /\ Count(ring, t) = Cardinality(P)
    BY <1>1 DEF Count
  <2> HIDE DEF P, Q
  <2> QED  BY <1>2, <1>4, <2>1, <2>2
<1> QED  BY <1>3, <1>4

(* Taking the head takes one occurrence of its user_data.                   *)
LEMMA CountTail ==
    ASSUME NEW S, NEW ring \in Seq(S), ring # << >>, NEW t
    PROVE  Count(ring, t) = Count(Tail(ring), t) + (IF Head(ring) = t THEN 1 ELSE 0)
<1> DEFINE n == Len(ring)
           P == { i \in 1 .. n : ring[i] = t }
           R == { i \in 2 .. n : ring[i] = t }
           T == { i \in 1 .. n - 1 : Tail(ring)[i] = t }
<1>1. /\ n \in Nat /\ n >= 1 /\ Len(Tail(ring)) = n - 1
      /\ \A i \in 1 .. n - 1 : Tail(ring)[i] = ring[i + 1]
      /\ Head(ring) = ring[1] /\ Tail(ring) \in Seq(S)
  BY HeadTailProperties
<1>2. IsFiniteSet(T) /\ Cardinality(T) \in Nat
  BY <1>1, CountType DEF Count
<1>3. IsFiniteSet(R) /\ Cardinality(R) = Cardinality(T)
  <2> DEFINE f == [ i \in T |-> i + 1 ]
  <2>1. f \in [T -> R]
    BY <1>1
  <2>2. \A i, j \in T : f[i] = f[j] => i = j
    BY <1>1
  <2>3. ASSUME NEW j \in R
        PROVE  \E i \in T : f[i] = j
    <3>1. j - 1 \in T /\ f[j - 1] = j
      BY <1>1
    <3> QED  BY <3>1
  <2> HIDE DEF f, T, R
  <2>4. f \in Bijection(T, R)
    BY <2>1, <2>2, <2>3, Fun_IsBij
  <2>5. ExistsBijection(T, R)
    BY <2>4, Fun_ExistsBij
  <2> QED  BY <1>2, <2>5, FS_Bijection
<1>4. CASE Head(ring) = t
  <2>1. PICK x : P = R \cup {x} /\ x \notin R
    BY <1>1, <1>4
  <2> HIDE DEF P, R
  <2>2. Cardinality(P) = Cardinality(R) + 1
    BY <1>3, <2>1, FS_AddElement
  <2> QED  BY <1>1, <1>3, <1>4, <2>2 DEF Count, P
<1>5. CASE Head(ring) # t
  <2>1. P = R
    BY <1>1, <1>5
  <2>2. Count(ring, t) = Cardinality(P) /\ Count(Tail(ring), t) = Cardinality(T)
    BY <1>1 DEF Count
  <2> HIDE DEF P, R, T
  <2> QED  BY <1>2, <1>3, <1>5, <2>1, <2>2
<1> QED  BY <1>4, <1>5

-----------------------------------------------------------------------------
(* The rings: their shapes, and the count of what waits in the submission   *)
(* ring.                                                                    *)
RingsOK ==
    /\ sq \in Seq(Tags) /\ cq \in Seq(Tags)
    /\ inflight \in [Tags -> Nat]
    /\ pending = Len(sq)

(* What is outstanding is a number.                                         *)
LEMMA OutstandingType ==
    ASSUME RingsOK
    PROVE  \A t \in Tags :
              /\ Outstanding(t) \in Nat /\ inflight[t] \in Nat
              /\ Count(sq, t) \in Nat /\ Count(cq, t) \in Nat
<1>1. ASSUME NEW t \in Tags
      PROVE  Count(sq, t) \in Nat /\ Count(cq, t) \in Nat
  BY CountType DEF RingsOK
<1> QED  BY <1>1, OutstandingSum DEF RingsOK

(* The same of the next state.                                              *)
LEMMA OutstandingTypePrimed ==
    ASSUME RingsOK'
    PROVE  \A t \in Tags : Outstanding(t)' \in Nat
<1>1. ASSUME NEW t \in Tags
      PROVE  Count(sq', t) \in Nat /\ Count(cq', t) \in Nat
  BY CountType DEF RingsOK
<1> QED  BY <1>1, OutstandingSum DEF RingsOK

(* Steps that leave the rings alone.                                        *)
LEMMA RingsUntouched ==
    ASSUME RingsOK, UNCHANGED ringVars
    PROVE  RingsOK' /\ \A t \in Tags : Outstanding(t)' = Outstanding(t)
BY DEF RingsOK, ringVars, Outstanding

(* io_uring_enter on everything the ring holds moves every request to the   *)
(* kernel and loses none.                                                   *)
LEMMA EnterAll ==
    ASSUME RingsOK, NEW ring \in Seq(Tags), Enter(ring, Len(ring)), UNCHANGED cq
    PROVE  /\ RingsOK' /\ sq' = << >>
           /\ \A t \in Tags : Outstanding(t)'
                = Count(ring, t) + inflight[t] + Count(cq, t)
<1>1. Len(ring) \in Nat /\ sq' = << >> /\ pending' = 0
  BY SubSeqEmpty DEF Enter
<1>2. \A t \in Tags : inflight'[t] = inflight[t] + Count(ring, t)
  BY DEF Enter, Count
<1>3. \A t \in Tags : Count(ring, t) \in Nat
  BY CountType
<1>4. inflight' \in [Tags -> Nat]
  <2>1. \A t \in Tags : inflight[t] + Count(ring, t) \in Nat
    BY <1>3, OutstandingType
  <2>2. inflight' = [t \in Tags |-> inflight[t] + Count(ring, t)]
    BY DEF Enter, Count
  <2> QED  BY <2>1, <2>2
<1>5. RingsOK'
  BY <1>1, <1>4 DEF RingsOK
<1>6. ASSUME NEW t \in Tags
      PROVE  Outstanding(t)' = Count(ring, t) + inflight[t] + Count(cq, t)
  <2>1. Outstanding(t)' = 0 + inflight'[t] + Count(cq, t)
    BY <1>1, CountEmpty, OutstandingSum
  <2> QED  BY <1>2, <1>3, <2>1, OutstandingType
<1> QED  BY <1>1, <1>5, <1>6

(* A submission, whether it had anything to submit or not, empties the ring *)
(* and leaves everything outstanding that was.                              *)
LEMMA SubmitRings ==
    ASSUME RingsOK, FlushPending \/ Submit
    PROVE  /\ RingsOK' /\ sq' = << >>
           /\ \A t \in Tags : Outstanding(t)' = Outstanding(t)
<1>1. CASE Submit
  <2>1. sq \in Seq(Tags) /\ Enter(sq, Len(sq)) /\ UNCHANGED cq
    BY <1>1 DEF Submit, RingsOK
  <2>2. /\ RingsOK' /\ sq' = << >>
        /\ \A t \in Tags : Outstanding(t)'
             = Count(sq, t) + inflight[t] + Count(cq, t)
    BY <2>1, EnterAll
  <2> QED  BY <2>2, OutstandingSum
<1>2. CASE ~ Submit
  <2>1. pending = 0 /\ UNCHANGED ringVars
    BY <1>2 DEF FlushPending
  <2>2. sq = << >> /\ sq' = sq
    BY <2>1, EmptySeq DEF RingsOK, ringVars
  <2> QED  BY <2>1, <2>2, RingsUntouched
<1> QED  BY <1>1, <1>2

(* One more request in the ring is one more outstanding.                    *)
LEMMA QueueRings ==
    ASSUME RingsOK
    PROVE  \A u \in Tags :
              QueueSqe(u) =>
                 /\ RingsOK' /\ Len(sq') = Len(sq) + 1
                 /\ \A t \in Tags : Outstanding(t)'
                      = Outstanding(t) + (IF t = u THEN 1 ELSE 0)
<1> SUFFICES ASSUME NEW u \in Tags, QueueSqe(u)
             PROVE  /\ RingsOK' /\ Len(sq') = Len(sq) + 1
                    /\ \A t \in Tags : Outstanding(t)'
                         = Outstanding(t) + (IF t = u THEN 1 ELSE 0)
  OBVIOUS
<1>1. /\ sq \in Seq(Tags) /\ sq' = Append(sq, u) /\ pending' = pending + 1
      /\ UNCHANGED << inflight, cq >>
  BY DEF QueueSqe, RingsOK
<1>2. RingsOK' /\ Len(sq') = Len(sq) + 1
  BY <1>1, AppendProperties DEF RingsOK
<1>3. ASSUME NEW t \in Tags
      PROVE  Outstanding(t)' = Outstanding(t) + (IF t = u THEN 1 ELSE 0)
  <2>1. Count(sq', t) = Count(sq, t) + (IF u = t THEN 1 ELSE 0)
    BY <1>1, CountAppend
  <2>2. Outstanding(t)' = Count(sq', t) + inflight[t] + Count(cq, t)
    BY <1>1, OutstandingSum
  <2>3. Outstanding(t) = Count(sq, t) + inflight[t] + Count(cq, t)
    BY OutstandingSum
  <2>4. /\ inflight[t] \in Nat /\ Count(sq, t) \in Nat /\ Count(cq, t) \in Nat
    BY OutstandingType
  <2> HIDE DEF Count
  <2> QED  BY <2>1, <2>2, <2>3, <2>4
<1> QED  BY <1>2, <1>3

(* A completion moves from the kernel to its ring.                          *)
LEMMA CompleteRings ==
    ASSUME RingsOK, NEW u \in Tags, Complete(u)
    PROVE  /\ RingsOK' /\ sq' = sq
           /\ \A t \in Tags : Outstanding(t)' = Outstanding(t)
<1>1. /\ cq \in Seq(Tags) /\ cq' = Append(cq, u) /\ UNCHANGED << sq, pending >>
      /\ inflight[u] > 0 /\ inflight' = [inflight EXCEPT ![u] = @ - 1]
  BY DEF Complete, RingsOK
<1>2. /\ \A t \in Tags : inflight'[t] = inflight[t] - (IF t = u THEN 1 ELSE 0)
      /\ inflight' \in [Tags -> Nat]
  BY <1>1 DEF RingsOK
<1>3. RingsOK'
  BY <1>1, <1>2, AppendProperties DEF RingsOK
<1>4. ASSUME NEW t \in Tags
      PROVE  Outstanding(t)' = Outstanding(t)
  <2>1. Count(cq', t) = Count(cq, t) + (IF u = t THEN 1 ELSE 0)
    BY <1>1, CountAppend
  <2>2. Outstanding(t)' = Count(sq, t) + inflight'[t] + Count(cq', t)
    BY <1>1, OutstandingSum
  <2>3. Outstanding(t) = Count(sq, t) + inflight[t] + Count(cq, t)
    BY OutstandingSum
  <2>4. /\ inflight[t] \in Nat /\ Count(sq, t) \in Nat /\ Count(cq, t) \in Nat
    BY OutstandingType
  <2> HIDE DEF Count
  <2> QED  BY <1>2, <2>1, <2>2, <2>3, <2>4
<1> QED  BY <1>1, <1>3, <1>4

(* Draining a completion settles one request of the user_data it carries.   *)
LEMMA DrainRings ==
    ASSUME RingsOK, cq # << >>, cq' = Tail(cq), UNCHANGED << sq, pending, inflight >>
    PROVE  /\ RingsOK' /\ Head(cq) \in Tags /\ Outstanding(Head(cq)) > 0
           /\ \A t \in Tags : Outstanding(t)
                = Outstanding(t)' + (IF t = Head(cq) THEN 1 ELSE 0)
<1>1. cq \in Seq(Tags) /\ Head(cq) \in Tags /\ cq' \in Seq(Tags)
  BY HeadTailProperties DEF RingsOK
<1>2. RingsOK'
  BY <1>1 DEF RingsOK
<1>3. ASSUME NEW t \in Tags
      PROVE  /\ Outstanding(t) = Outstanding(t)' + (IF t = Head(cq) THEN 1 ELSE 0)
             /\ Outstanding(t)' \in Nat
  <2>1. Count(cq, t) = Count(cq', t) + (IF Head(cq) = t THEN 1 ELSE 0)
    BY <1>1, CountTail
  <2>2. Count(cq', t) \in Nat
    BY <1>1, CountType
  <2>3. Outstanding(t)' = Count(sq, t) + inflight[t] + Count(cq', t)
    BY OutstandingSum
  <2>4. Outstanding(t) = Count(sq, t) + inflight[t] + Count(cq, t)
    BY OutstandingSum
  <2>5. inflight[t] \in Nat /\ Count(sq, t) \in Nat
    BY OutstandingType
  <2> HIDE DEF Count
  <2> QED  BY <2>1, <2>2, <2>3, <2>4, <2>5
<1>4. Outstanding(Head(cq)) > 0
  <2>1. PICK h \in Tags : h = Head(cq)
    BY <1>1
  <2> QED  BY <1>3, <2>1
<1> QED  BY <1>1, <1>2, <1>3, <1>4

(* A write is one more request that names nobody; it never fills the ring   *)
(* beyond a batch.                                                          *)
LEMMA WriteRings ==
    ASSUME RingsOK, Len(sq) < BatchSize, WriteAsync
    PROVE  /\ RingsOK' /\ Len(sq') < BatchSize
           /\ \A a \in Actors : Outstanding(a)' = Outstanding(a)
<1> DEFINE ring == Append(sq, NoActor)
<1>1. /\ NoActor \in Tags /\ Actors \subseteq Tags
      /\ \A a \in Actors : a # NoActor
  BY PidAssumption DEF Tags
<1>2. /\ sq \in Seq(Tags) /\ Len(sq) \in Nat
      /\ ring \in Seq(Tags) /\ Len(ring) = pending + 1
      /\ BatchSize \in Nat /\ BatchSize > 0 /\ UNCHANGED cq
  BY <1>1, AppendProperties, SchedulerAssumption DEF RingsOK, WriteAsync
<1>3. CASE pending + 1 >= BatchSize
  <2>1. Enter(ring, Len(ring))
    BY <1>2, <1>3 DEF WriteAsync
  <2> HIDE DEF ring
  <2>2. /\ RingsOK' /\ sq' = << >>
        /\ \A t \in Tags : Outstanding(t)'
             = Count(ring, t) + inflight[t] + Count(cq, t)
    BY <1>2, <2>1, EnterAll
  <2>3. ASSUME NEW a \in Actors
        PROVE  Outstanding(a)' = Outstanding(a)
    <3>1. Count(ring, a) = Count(sq, a) + 0
      BY <1>1, <1>2, CountAppend DEF ring
    <3>2. /\ a \in Tags
          /\ Count(sq, a) \in Nat /\ inflight[a] \in Nat /\ Count(cq, a) \in Nat
      BY <1>1, OutstandingType
    <3> HIDE DEF Count
    <3> QED  BY <2>2, <3>1, <3>2, OutstandingSum
  <2>4. Len(sq') < BatchSize
    BY <1>2, <2>2
  <2> QED  BY <2>2, <2>3, <2>4
<1>4. CASE ~ (pending + 1 >= BatchSize)
  <2>1. QueueSqe(NoActor)
    BY <1>2, <1>4 DEF WriteAsync, QueueSqe
  <2>2. /\ RingsOK' /\ Len(sq') = Len(sq) + 1
        /\ \A t \in Tags : Outstanding(t)'
             = Outstanding(t) + (IF t = NoActor THEN 1 ELSE 0)
    BY <1>1, <2>1, QueueRings
  <2>3. Len(sq') < BatchSize
    BY <1>2, <1>4, <2>2 DEF RingsOK
  <2>4. \A a \in Actors : Outstanding(a)' = Outstanding(a)
    BY <1>1, <2>2, OutstandingType
  <2> QED  BY <2>2, <2>3, <2>4
<1> QED  BY <1>3, <1>4

-----------------------------------------------------------------------------
(* The inductive invariant.  Busy: the thread is inside a dispatch.         *)
Busy == phase \in {"run", "loop"}

ControlOK ==
    /\ phase \in {"poll", "flush", "pick", "run", "loop", "enter", "exited"}
    /\ left \in 0 .. Quantum
    /\ Busy => real_count > 0 /\ left > 0

(* Nobody starts out or goes on marked for death, and nobody waits with     *)
(* mail.                                                                    *)
MarksOK ==
    /\ dying \in [Actors -> BOOLEAN]
    /\ mail \in [Actors -> 0 .. MailCap]
    /\ \A a \in Alive : dying[a] => phase = "loop" /\ a = CurrentActor
    /\ \A a \in Waiting : mail[a] = 0

(* Once per pass the ring is emptied, and a pass adds at most one batch: a  *)
(* block that leaves the ring full also leaves the dispatch.                *)
BatchOK ==
    /\ Len(sq) <= BatchSize
    /\ Busy => Len(sq) < BatchSize
    /\ phase \in {"pick", "enter", "exited"} => sq = << >>

(* What is owed to an actor: at most one completion, and only if it is      *)
(* parked.                                                                  *)
OwedOK ==
    \A a \in Actors :
        /\ Outstanding(a) <= (IF a \in Parked THEN 1 ELSE 0)
        /\ "bare_park" \notin Ops /\ a \in Parked => Outstanding(a) = 1

RunInv ==
    /\ Placed /\ ControlOK /\ MarksOK /\ RingsOK /\ BatchOK /\ OwedOK

SchedInv == SchedInit \/ RunInv

-----------------------------------------------------------------------------
(* Steps that change no mark and no mailbox keep the marks right if nobody  *)
(* left alive is marked and nobody left waiting has mail.                   *)
LEMMA MarksKept ==
    ASSUME MarksOK, UNCHANGED actorVars,
           \A a \in Alive' : ~ dying[a], \A a \in Waiting' : mail[a] = 0
    PROVE  MarksOK'
BY DEF MarksOK, actorVars

(* Outside of "loop" nobody alive is marked.                                *)
LEMMA NobodyMarked ==
    ASSUME MarksOK, phase # "loop"
    PROVE  \A a \in Alive : ~ dying[a]
BY DEF MarksOK

(* Steps that leave io_parked alone and settle nobody's requests.           *)
LEMMA OwedKept ==
    ASSUME OwedOK, Parked' = Parked,
           \A t \in Tags : Outstanding(t)' = Outstanding(t)
    PROVE  OwedOK'
BY DEF OwedOK, Tags

(* While an actor is runnable the count says so.                            *)
LEMMA RunnableCounts ==
    ASSUME RunExact', Runnable' # {}
    PROVE  real_count' > 0
<1>1. last_process_index' \in Int /\ real_count' = last_process_index' + 1
  BY DEF RunExact
<1>2. last_process_index' \in Nat
  BY <1>1 DEF Runnable
<1>3. \A n \in Nat : n + 1 > 0
  OBVIOUS
<1> QED  BY <1>1, <1>2, <1>3

(* Where the thread only moves on: nothing is assigned but its place and,   *)
(* maybe, the rings.                                                        *)
LEMMA MoveOn ==
    ASSUME RunInv, UNCHANGED << pidVars, queueVars, actorVars >>,
           phase # "loop", ControlOK', RingsOK', BatchOK',
           \A t \in Tags : Outstanding(t)' = Outstanding(t)
    PROVE  RunInv'
<1>1. /\ Placed' /\ Parked' = Parked /\ Alive' = Alive /\ Waiting' = Waiting
  BY NothingMoves DEF RunInv
<1>2. MarksOK'
  BY <1>1, NobodyMarked, MarksKept DEF RunInv, MarksOK
<1>3. OwedOK'
  BY <1>1, OwedKept DEF RunInv
<1> QED  BY <1>1, <1>2, <1>3 DEF RunInv

(* PollDone, CqeArrived, LoopOnWaiters, and Compute.                        *)
LEMMA IdleSteps ==
    ASSUME RunInv, PollDone \/ CqeArrived \/ LoopOnWaiters \/ Compute
    PROVE  RunInv'
<1>1. /\ UNCHANGED << pidVars, queueVars, actorVars, ringVars, left >>
      /\ phase # "loop" /\ phase' \in {"flush", "poll", "loop"}
      /\ phase' = "loop" => phase = "run"
  BY DEF PollDone, CqeArrived, LoopOnWaiters, Compute, Running, EndBlock
<1>2. RingsOK' /\ \A t \in Tags : Outstanding(t)' = Outstanding(t)
  BY <1>1, RingsUntouched DEF RunInv
<1>3. ControlOK'
  BY <1>1 DEF RunInv, ControlOK, Busy, queueVars, runVars
<1>4. BatchOK'
  BY <1>1 DEF RunInv, BatchOK, Busy, ringVars
<1> QED  BY <1>1, <1>2, <1>3, <1>4, MoveOn

(* Flush, WaitCqe and Exit empty the submission ring.                       *)
LEMMA SubmittingSteps ==
    ASSUME RunInv, Flush \/ WaitCqe \/ Exit
    PROVE  RunInv'
<1>1. /\ UNCHANGED << pidVars, queueVars, actorVars, left >>
      /\ phase # "loop" /\ phase' \in {"pick", "enter", "exited"}
      /\ FlushPending \/ Submit
  BY DEF Flush, WaitCqe, Exit
<1>2. /\ RingsOK' /\ sq' = << >>
      /\ \A t \in Tags : Outstanding(t)' = Outstanding(t)
  BY <1>1, SubmitRings DEF RunInv
<1>3. ControlOK'
  BY <1>1 DEF RunInv, ControlOK, Busy
<1>4. BatchOK'
  BY <1>1, <1>2, SchedulerAssumption DEF BatchOK, Busy
<1> QED  BY <1>1, <1>2, <1>3, <1>4, MoveOn

(* Dispatch starts a quantum.                                               *)
LEMMA DispatchStep ==
    ASSUME RunInv, Dispatch
    PROVE  RunInv'
<1>1. /\ UNCHANGED << pidVars, queueVars, actorVars, ringVars >>
      /\ phase = "pick" /\ phase' = "run" /\ left' = Quantum /\ real_count # 0
  BY DEF Dispatch
<1>2. RingsOK' /\ \A t \in Tags : Outstanding(t)' = Outstanding(t)
  BY <1>1, RingsUntouched DEF RunInv
<1>3. ControlOK'
  BY <1>1, SchedulerAssumption
     DEF RunInv, Placed, RunExact, ControlOK, Busy, queueVars, runVars
<1>4. BatchOK'
  BY <1>1, SchedulerAssumption DEF RunInv, BatchOK, Busy, ringVars
<1> QED  BY <1>1, <1>2, <1>3, <1>4, MoveOn

(* A completion that reaches its ring, at any point of the thread.          *)
LEMMA CompleteStep ==
    ASSUME RunInv, NEW t \in Tags, Complete(t)
    PROVE  RunInv'
<1>1. UNCHANGED << pidVars, queueVars, ctlVars, actorVars, sq, pending >>
  BY DEF Complete
<1>2. /\ Placed' /\ Parked' = Parked /\ Alive' = Alive /\ Waiting' = Waiting
      /\ CurrentActor' = CurrentActor
  BY <1>1, NothingMoves DEF RunInv
<1>3. /\ RingsOK' /\ sq' = sq
      /\ \A u \in Tags : Outstanding(u)' = Outstanding(u)
  BY CompleteRings DEF RunInv
<1>4. ControlOK'
  BY <1>1 DEF RunInv, ControlOK, Busy, queueVars, runVars, ctlVars
<1>5. MarksOK'
  BY <1>1, <1>2 DEF RunInv, MarksOK, actorVars, ctlVars
<1>6. BatchOK'
  BY <1>1, <1>3 DEF RunInv, BatchOK, Busy, ctlVars
<1>7. OwedOK'
  BY <1>2, <1>3, OwedKept DEF RunInv
<1> QED  BY <1>2, <1>3, <1>4, <1>5, <1>6, <1>7 DEF RunInv

(* The drain: what the completion names is parked, since nothing else is    *)
(* owed one, and is owed nothing once it runs again.                        *)
LEMMA PollOneStep ==
    ASSUME RunInv, PollOne, WakeFitsQueue'
    PROVE  RunInv'
<1> DEFINE a == Head(cq)
<1>1. /\ phase = "poll" /\ cq # << >> /\ cq' = Tail(cq)
      /\ UNCHANGED << pidVars, waitVars, ctlVars, actorVars, sq, pending, inflight >>
      /\ IF a = NoActor THEN UNCHANGED << runVars, parkVars >> ELSE WakeParked(a)
  BY DEF PollOne
<1>2. /\ RingsOK' /\ a \in Tags /\ Outstanding(a) > 0
      /\ \A t \in Tags : Outstanding(t) = Outstanding(t)' + (IF t = a THEN 1 ELSE 0)
  BY <1>1, DrainRings DEF RunInv
<1>3. RingsOK /\ \A t \in Tags : Outstanding(t) \in Nat
  BY OutstandingType DEF RunInv
<1>4. ControlOK' /\ BatchOK'
  BY <1>1 DEF RunInv, ControlOK, BatchOK, Busy, ctlVars
<1> HIDE DEF a
<1>5. CASE a = NoActor
  <2>1. UNCHANGED << pidVars, queueVars >>
    BY <1>1, <1>5 DEF queueVars
  <2>2. /\ Placed' /\ Parked' = Parked /\ Alive' = Alive /\ Waiting' = Waiting
    BY <2>1, NothingMoves DEF RunInv
  <2>3. MarksOK'
    BY <1>1, <2>2, NobodyMarked, MarksKept DEF RunInv, MarksOK
  <2>4. \A b \in Actors : b \in Tags /\ b # a
    BY <1>5, PidAssumption DEF Tags
  <2>5. \A b \in Actors : Outstanding(b)' \in Int => Outstanding(b)' = Outstanding(b)
    BY <1>2, <1>3, <2>4
  <2>6. OwedOK'
    <3>1. \A t \in Tags : Outstanding(t)' \in Nat
      BY <1>2, OutstandingTypePrimed
    <3> QED  BY <2>2, <2>4, <2>5, <3>1 DEF RunInv, OwedOK
  <2> QED  BY <1>2, <1>4, <2>2, <2>3, <2>6 DEF RunInv
<1>6. CASE a # NoActor
  <2>1. a \in Actors /\ WakeParked(a)
    BY <1>1, <1>2, <1>6 DEF Tags
  <2>2. a \in Parked
    BY <1>2, <1>3, <2>1 DEF RunInv, OwedOK
  <2>3. /\ Placed' /\ Parked' = Parked \ {a} /\ Alive' = Alive /\ Waiting' = Waiting
    BY <1>1, <2>1, <2>2, WakeParkedPlaced DEF RunInv, WakeFitsQueue
  <2>4. MarksOK'
    BY <1>1, <2>3, NobodyMarked, MarksKept DEF RunInv, MarksOK
  <2>5. \A b \in Actors : b \in Tags
    BY DEF Tags
  <2>6. \A t \in Tags : Outstanding(t)' \in Nat
    BY <1>2, OutstandingTypePrimed
  <2>7. OwedOK'
    BY <1>2, <1>3, <2>1, <2>2, <2>3, <2>5, <2>6 DEF RunInv, OwedOK
  <2> QED  BY <1>2, <1>4, <2>3, <2>4, <2>7 DEF RunInv
<1> QED  BY <1>5, <1>6

(* The end of a dispatch by the count or by the clock: nobody moves.        *)
LEMMA TurnEnds ==
    ASSUME RunInv, Busy, NextProcess, left' \in 0 .. Quantum, phase' = "poll",
           \A a \in Alive : ~ dying[a],
           UNCHANGED << pidVars, waitVars, parkVars, actorVars, ringVars >>
    PROVE  RunInv'
<1>1. /\ Placed' /\ Parked' = Parked /\ Alive' = Alive /\ Waiting' = Waiting
  BY NextPlaced DEF RunInv, ControlOK
<1>2. RingsOK' /\ \A t \in Tags : Outstanding(t)' = Outstanding(t)
  BY RingsUntouched DEF RunInv
<1>3. ControlOK' /\ BatchOK'
  BY DEF RunInv, ControlOK, BatchOK, Busy, ringVars
<1>4. MarksOK'
  BY <1>1, MarksKept DEF RunInv, MarksOK
<1>5. OwedOK'
  BY <1>1, <1>2, OwedKept DEF RunInv
<1> QED  BY <1>1, <1>2, <1>3, <1>4, <1>5 DEF RunInv

(* The same actor goes on with another block.                               *)
LEMMA TurnGoesOn ==
    ASSUME RunInv, Busy, UNCHANGED runVars, left' = left - 1, left - 1 # 0,
           phase' = "run", \A a \in Alive : ~ dying[a],
           UNCHANGED << pidVars, waitVars, parkVars, actorVars, ringVars >>
    PROVE  RunInv'
<1>1. UNCHANGED << pidVars, queueVars >>
  BY DEF queueVars
<1>2. /\ Placed' /\ Parked' = Parked /\ Alive' = Alive /\ Waiting' = Waiting
  BY <1>1, NothingMoves DEF RunInv
<1>3. RingsOK' /\ \A t \in Tags : Outstanding(t)' = Outstanding(t)
  BY RingsUntouched DEF RunInv
<1>4. ControlOK' /\ BatchOK'
  BY SchedulerAssumption
     DEF RunInv, ControlOK, BatchOK, Busy, ringVars, runVars
<1>5. MarksOK'
  BY <1>2, MarksKept DEF RunInv, MarksOK
<1>6. OwedOK'
  BY <1>2, <1>3, OwedKept DEF RunInv
<1> QED  BY <1>2, <1>3, <1>4, <1>5, <1>6 DEF RunInv

(* The actor a dispatch runs is alive and runnable.                         *)
LEMMA CurrentAlive ==
    ASSUME RunInv, Busy
    PROVE  /\ CurrentActor \in Runnable /\ CurrentActor \in Actors
           /\ CurrentActor \in Alive /\ Live(CurrentActor)
           /\ CurrentActor \notin Waiting /\ CurrentActor \notin Parked
           /\ CurrentActor \in Tags /\ Outstanding(CurrentActor) = 0
<1>1. CurrentActor \in Runnable /\ CurrentActor \in Actors
  BY CurrentRuns DEF RunInv, Placed, ControlOK
<1>2. /\ CurrentActor \in Alive /\ Live(CurrentActor)
      /\ CurrentActor \notin Waiting /\ CurrentActor \notin Parked
  BY <1>1 DEF RunInv, Placed, Apart, Alive
<1>3. CurrentActor \in Tags
  BY <1>1 DEF Tags
<1>4. Outstanding(CurrentActor) = 0
  BY <1>1, <1>2, <1>3, OutstandingType DEF RunInv, OwedOK
<1> QED  BY <1>1, <1>2, <1>3, <1>4

(* A block's count is spent in quantum_loop_block or by a self-call.        *)
LEMMA CountdownSteps ==
    ASSUME RunInv, QuantumLoop \/ TailSelf
    PROVE  RunInv'
<1>1. /\ Busy /\ left' = left - 1
      /\ UNCHANGED << pidVars, waitVars, parkVars, actorVars, ringVars >>
      /\ \/ NextProcess /\ phase' = "poll"
         \/ left - 1 # 0 /\ UNCHANGED runVars /\ phase' = "run"
  BY DEF QuantumLoop, TailSelf, Running, Busy
<1>2. \A a \in Alive : ~ dying[a]
  BY DEF QuantumLoop, TailSelf, Running, RunInv, MarksOK
<1>3. left' \in 0 .. Quantum
  BY <1>1, SchedulerAssumption DEF RunInv, ControlOK
<1> QED  BY <1>1, <1>2, <1>3, TurnEnds, TurnGoesOn

(* The end of an actor.                                                     *)
LEMMA BurySteps ==
    ASSUME RunInv, DeathCheck \/ Done
    PROVE  RunInv'
<1>1. /\ Busy /\ ClearPid(CurrentActor) /\ RemoveCurrent /\ phase' = "poll"
      /\ UNCHANGED << waitVars, parkVars, left, actorVars, ringVars >>
      /\ \A a \in Alive : dying[a] => a = CurrentActor
  BY DEF DeathCheck, Done, Running, Bury, Busy, RunInv, MarksOK
<1>2. /\ Placed' /\ Parked' = Parked /\ Waiting' = Waiting
      /\ Alive' = Alive \ {CurrentActor}
  BY <1>1, BuryPlaced DEF RunInv, ControlOK
<1>3. RingsOK' /\ \A t \in Tags : Outstanding(t)' = Outstanding(t)
  BY <1>1, RingsUntouched DEF RunInv
<1>4. ControlOK' /\ BatchOK'
  BY <1>1 DEF RunInv, ControlOK, BatchOK, Busy, ringVars
<1>5. MarksOK'
  BY <1>1, <1>2, MarksKept DEF RunInv, MarksOK
<1>6. OwedOK'
  BY <1>2, <1>3, OwedKept DEF RunInv
<1> QED  BY <1>2, <1>3, <1>4, <1>5, <1>6 DEF RunInv

(* A spawn: the child starts out with an empty mailbox and unmarked, and    *)
(* whatever its memory was used for before owes it nothing.                 *)
LEMMA SpawnKeeps ==
    ASSUME RunInv, NEW c \in Actors, Spawn(c)
    PROVE  RunInv'
<1>1. /\ phase = "run" /\ phase' = "loop" /\ left' = left /\ ~ Live(c)
      /\ mail' = [mail EXCEPT ![c] = 0] /\ dying' = [dying EXCEPT ![c] = FALSE]
      /\ AssignPid(c) /\ NewProcess(c)
      /\ UNCHANGED << waitVars, parkVars, ringVars >>
  BY DEF Spawn, Running, EndBlock
<1>2. /\ Placed' /\ Parked' = Parked /\ Waiting' = Waiting
      /\ Alive' = Alive \cup {c}
  BY <1>1, SpawnPlaced DEF RunInv
<1>3. RingsOK' /\ \A t \in Tags : Outstanding(t)' = Outstanding(t)
  BY <1>1, RingsUntouched DEF RunInv
<1>4. ControlOK'
  <2>1. real_count' = real_count + 1
    BY <1>1 DEF NewProcess
  <2>2. real_count \in Nat
    BY DEF RunInv, Placed, RunExact
  <2> QED  BY <1>1, <2>1, <2>2 DEF RunInv, ControlOK, Busy
<1>5. BatchOK'
  BY <1>1 DEF RunInv, BatchOK, Busy, ringVars
<1>6. MarksOK'
  <2>1. dying' \in [Actors -> BOOLEAN] /\ mail' \in [Actors -> 0 .. MailCap]
    BY <1>1, SchedulerAssumption DEF RunInv, MarksOK
  <2>2. \A a \in Alive : ~ dying[a]
    BY <1>1, NobodyMarked DEF RunInv
  <2>3. \A a \in Alive' : a \in Actors /\ ~ dying'[a]
    BY <1>1, <1>2, <2>2 DEF RunInv, MarksOK, Alive
  <2>4. \A a \in Waiting' : mail'[a] = 0
    BY <1>1, <1>2 DEF RunInv, MarksOK, Waiting
  <2> QED  BY <2>1, <2>3, <2>4 DEF MarksOK
<1>7. OwedOK'
  BY <1>2, <1>3, OwedKept DEF RunInv
<1> QED  BY <1>2, <1>3, <1>4, <1>5, <1>6, <1>7 DEF RunInv

(* A send: whoever gets the message is not waiting any more.                *)
LEMMA SendKeeps ==
    ASSUME RunInv, NEW p \in HeldPids, NEW n \in {0, 1}, Send(p, n)
    PROVE  RunInv'
<1> DEFINE a == LookupProcCtx(p)
<1>1. /\ phase = "run" /\ phase' = "loop" /\ left' = left
      /\ UNCHANGED << pidVars, parkVars, dying, ringVars >>
      /\ IF a = NoActor
         THEN UNCHANGED << runVars, waitVars, mail >>
         ELSE /\ mail[a] + n <= MailCap
              /\ mail' = [mail EXCEPT ![a] = @ + n]
              /\ Wake(p)
  BY DEF Send, Running, EndBlock
<1>2. Busy /\ real_count > 0 /\ left > 0
  BY <1>1 DEF Busy, RunInv, ControlOK
<1>3. RingsOK' /\ \A t \in Tags : Outstanding(t)' = Outstanding(t)
  BY <1>1, RingsUntouched DEF RunInv
<1>4. BatchOK'
  BY <1>1 DEF RunInv, BatchOK, Busy, ringVars
<1>5. CASE a = NoActor
  <2>1. UNCHANGED << pidVars, queueVars, actorVars >>
    BY <1>1, <1>5 DEF queueVars, actorVars
  <2>2. ControlOK'
    BY <1>1, <1>2, <2>1 DEF RunInv, ControlOK, Busy, queueVars, runVars
  <2> QED  BY <1>1, <1>3, <1>4, <2>1, <2>2, MoveOn
<1>6. CASE a # NoActor
  <2>1. /\ Placed' /\ a \in Alive /\ Waiting' = Waiting \ {a}
        /\ Runnable \subseteq Runnable' /\ Parked' = Parked /\ Alive' = Alive
    BY <1>1, <1>2, <1>6, WakePlaced DEF RunInv
  <2>2. ControlOK'
    <3>1. CurrentActor \in Runnable'
      BY <1>2, <2>1, CurrentAlive
    <3>2. real_count' > 0
      BY <2>1, <3>1, RunnableCounts DEF Placed
    <3> QED  BY <1>1, <1>2, <3>2 DEF RunInv, ControlOK, Busy
  <2>3. MarksOK'
    <3>1. /\ a \in Actors /\ mail \in [Actors -> 0 .. MailCap]
          /\ mail' = [mail EXCEPT ![a] = @ + n] /\ mail[a] + n <= MailCap
          /\ dying' = dying
      BY <1>1, <1>6, <2>1 DEF RunInv, MarksOK, Alive
    <3> HIDE DEF a
    <3>2. mail' \in [Actors -> 0 .. MailCap]
      BY <3>1, SchedulerAssumption
    <3>3. \A b \in Alive' : ~ dying'[b]
      BY <1>1, <2>1, <3>1, NobodyMarked DEF RunInv
    <3>4. \A b \in Waiting' : mail'[b] = 0
      BY <2>1, <3>1 DEF RunInv, MarksOK, Waiting
    <3> QED  BY <3>1, <3>2, <3>3, <3>4 DEF RunInv, MarksOK
  <2>4. OwedOK'
    BY <1>3, <2>1, OwedKept DEF RunInv
  <2> QED  BY <1>3, <1>4, <2>1, <2>2, <2>3, <2>4 DEF RunInv
<1> QED  BY <1>5, <1>6

(* A message taken, or the current actor marked: nobody moves.              *)
LEMMA ReceiveKeeps ==
    ASSUME RunInv, Receive \/ DieActor
    PROVE  RunInv'
<1>1. /\ phase = "run" /\ phase' = "loop" /\ left' = left
      /\ UNCHANGED << pidVars, queueVars, ringVars >>
      /\ \/ /\ mail[CurrentActor] > 0 /\ dying' = dying
            /\ mail' = [mail EXCEPT ![CurrentActor] = @ - 1]
         \/ mail' = mail /\ dying' = [dying EXCEPT ![CurrentActor] = TRUE]
  BY DEF Receive, DieActor, Running, EndBlock
<1>2. /\ Placed' /\ Parked' = Parked /\ Alive' = Alive /\ Waiting' = Waiting
      /\ CurrentActor' = CurrentActor
  BY <1>1, NothingMoves DEF RunInv
<1>3. RingsOK' /\ \A t \in Tags : Outstanding(t)' = Outstanding(t)
  BY <1>1, RingsUntouched DEF RunInv
<1>4. ControlOK' /\ BatchOK'
  BY <1>1
     DEF RunInv, ControlOK, BatchOK, Busy, ringVars, queueVars, runVars
<1>5. CurrentActor \in Actors /\ CurrentActor \notin Waiting
  BY <1>1, CurrentAlive DEF Busy
<1>6. \A b \in Alive : b \in Actors /\ ~ dying[b]
  BY <1>1, NobodyMarked DEF RunInv, Alive
<1>7. MarksOK'
  <2>1. dying' \in [Actors -> BOOLEAN] /\ mail' \in [Actors -> 0 .. MailCap]
    <3>1. /\ dying \in [Actors -> BOOLEAN] /\ mail \in [Actors -> 0 .. MailCap]
          /\ MailCap \in Nat /\ mail[CurrentActor] \in 0 .. MailCap
      BY <1>5, SchedulerAssumption DEF RunInv, MarksOK
    <3>2. mail[CurrentActor] > 0 => mail[CurrentActor] - 1 \in 0 .. MailCap
      BY <3>1
    <3> QED  BY <1>1, <1>5, <3>1, <3>2
  <2>2. \A b \in Alive' : dying'[b] => b = CurrentActor'
    BY <1>1, <1>2, <1>6 DEF RunInv, MarksOK
  <2>3. \A b \in Waiting' : mail'[b] = 0
    BY <1>1, <1>2, <1>5 DEF RunInv, MarksOK, Waiting
  <2> QED  BY <1>1, <2>1, <2>2, <2>3 DEF MarksOK
<1>8. OwedOK'
  BY <1>2, <1>3, OwedKept DEF RunInv
<1> QED  BY <1>2, <1>3, <1>4, <1>7, <1>8 DEF RunInv

(* A wait on an empty mailbox.                                              *)
LEMMA WaitKeeps ==
    ASSUME RunInv, Wait
    PROVE  RunInv'
<1>1. /\ phase = "run" /\ phase' = "poll" /\ mail[CurrentActor] = 0
      /\ WaitCurrent /\ RemoveCurrent
      /\ UNCHANGED << pidVars, parkVars, left, actorVars, ringVars >>
  BY DEF Wait, Running
<1>2. /\ Placed' /\ Parked' = Parked /\ Alive' = Alive
      /\ Waiting' = Waiting \cup {CurrentActor}
  BY <1>1, WaitPlaced DEF RunInv, ControlOK, Busy
<1>3. RingsOK' /\ \A t \in Tags : Outstanding(t)' = Outstanding(t)
  BY <1>1, RingsUntouched DEF RunInv
<1>4. ControlOK' /\ BatchOK'
  BY <1>1 DEF RunInv, ControlOK, BatchOK, Busy, ringVars
<1>5. MarksOK'
  <2>1. \A b \in Alive' : ~ dying[b]
    BY <1>1, <1>2, NobodyMarked DEF RunInv
  <2>2. \A b \in Waiting' : mail[b] = 0
    BY <1>1, <1>2 DEF RunInv, MarksOK
  <2> QED  BY <1>1, <2>1, <2>2, MarksKept DEF RunInv
<1>6. OwedOK'
  BY <1>2, <1>3, OwedKept DEF RunInv
<1> QED  BY <1>2, <1>3, <1>4, <1>5, <1>6 DEF RunInv

(* A park, with the request that will end it or, if the program calls       *)
(* rt_io_park_current itself, without one.                                  *)
LEMMA ParkKeeps ==
    ASSUME RunInv, SubmitAndPark \/ BarePark
    PROVE  RunInv'
<1> DEFINE a == CurrentActor
<1>1. /\ phase = "run" /\ phase' = "poll" /\ left' = left /\ ParkCurrent
      /\ UNCHANGED << pidVars, waitVars, actorVars >>
      /\ \/ QueueSqe(a)
         \/ UNCHANGED ringVars /\ "bare_park" \in Ops
  BY DEF SubmitAndPark, BarePark, Running
<1>2. /\ Placed' /\ Parked' = Parked \cup {a} /\ Alive' = Alive
      /\ Waiting' = Waiting
  BY <1>1, ParkPlaced DEF RunInv, ControlOK, Busy
<1>3. /\ Busy /\ a \in Tags /\ a \in Actors /\ a \notin Parked
      /\ Outstanding(a) = 0
  BY <1>1, CurrentAlive DEF Busy
<1>4. ControlOK'
  BY <1>1 DEF RunInv, ControlOK, Busy
<1>5. MarksOK'
  BY <1>1, <1>2, NobodyMarked, MarksKept DEF RunInv, MarksOK
<1> HIDE DEF a
<1>6. CASE QueueSqe(a)
  <2>1. /\ RingsOK' /\ Len(sq') = Len(sq) + 1
        /\ \A t \in Tags : Outstanding(t)' = Outstanding(t) + (IF t = a THEN 1 ELSE 0)
    BY <1>3, <1>6, QueueRings DEF RunInv
  <2>2. BatchOK'
    <3>1. Len(sq) \in Nat /\ Len(sq) < BatchSize /\ BatchSize \in Nat
      BY <1>3, SchedulerAssumption DEF RunInv, RingsOK, BatchOK
    <3> QED  BY <1>1, <2>1, <3>1 DEF BatchOK, Busy
  <2>3. \A t \in Tags : Outstanding(t) \in Nat
    BY OutstandingType DEF RunInv
  <2>4. OwedOK'
    <3>1. \A b \in Actors : b \in Tags
      BY DEF Tags
    <3> QED  BY <1>2, <1>3, <2>1, <2>3, <3>1 DEF RunInv, OwedOK
  <2> QED  BY <1>2, <1>4, <1>5, <2>1, <2>2, <2>4 DEF RunInv
<1>7. CASE UNCHANGED ringVars /\ "bare_park" \in Ops
  <2>1. RingsOK' /\ \A t \in Tags : Outstanding(t)' = Outstanding(t)
    BY <1>7, RingsUntouched DEF RunInv
  <2>2. BatchOK'
    BY <1>1, <1>7 DEF RunInv, BatchOK, Busy, ringVars
  <2>3. OwedOK'
    <3>1. \A b \in Actors : b \in Tags
      BY DEF Tags
    <3> QED  BY <1>2, <1>3, <1>7, <2>1, <3>1 DEF RunInv, OwedOK
  <2> QED  BY <1>2, <1>4, <1>5, <2>1, <2>2, <2>3 DEF RunInv
<1> QED  BY <1>1, <1>6, <1>7

(* A write that nobody waits for.                                           *)
LEMMA WriteKeeps ==
    ASSUME RunInv, WriteAsync
    PROVE  RunInv'
<1>1. /\ phase = "run" /\ phase' = "loop" /\ left' = left
      /\ UNCHANGED << pidVars, queueVars, actorVars >>
  BY DEF WriteAsync, Running, EndBlock
<1>2. /\ Placed' /\ Parked' = Parked /\ Alive' = Alive /\ Waiting' = Waiting
  BY <1>1, NothingMoves DEF RunInv
<1>3. RingsOK /\ Len(sq) < BatchSize
  BY <1>1 DEF RunInv, BatchOK, Busy
<1>4. /\ RingsOK' /\ Len(sq') < BatchSize
      /\ \A b \in Actors : Outstanding(b)' = Outstanding(b)
  BY <1>3, WriteRings
<1>5. ControlOK'
  BY <1>1 DEF RunInv, ControlOK, Busy, queueVars, runVars
<1>6. BatchOK'
  BY <1>1, <1>4, SchedulerAssumption DEF BatchOK, Busy, RingsOK
<1>7. MarksOK'
  BY <1>1, <1>2, NobodyMarked, MarksKept DEF RunInv, MarksOK
<1>8. OwedOK'
  BY <1>2, <1>4 DEF RunInv, OwedOK
<1> QED  BY <1>2, <1>4, <1>5, <1>6, <1>7, <1>8 DEF RunInv

-----------------------------------------------------------------------------
(* main's entry is the only step out of the initial state.                  *)
LEMMA BootStep ==
    ASSUME SchedInit, [SchedNext]_schedVars
    PROVE  InitMain \/ UNCHANGED schedVars
<1>1. phase = "boot" /\ \A t \in Tags : inflight[t] = 0
  BY DEF SchedInit
<1> QED
  BY <1>1
     DEF SchedNext, Thread, Block, Complete, Exited, PollOne, PollDone, Flush,
         Dispatch, WaitCqe, CqeArrived, LoopOnWaiters, Exit, QuantumLoop,
         DeathCheck, Running, Compute, TailSelf, Spawn, Send, Receive, Wait,
         SubmitAndPark, WriteAsync, BarePark, DieActor, Done

(* It leads to a state where main is the one actor alive, and runnable.     *)
LEMMA InitMainStep ==
    ASSUME SchedInit, InitMain
    PROVE  RunInv'
<1>1. /\ Main \in Actors /\ PidTableInit /\ RunQueueInit
      /\ AssignPid(Main) /\ process_arr' = [process_arr EXCEPT ![0] = Main]
      /\ real_count' = 1 /\ phase' = "poll"
      /\ UNCHANGED << process_cap, current_process, last_process_index,
                      waitVars, parkVars, left, actorVars, ringVars >>
  BY SchedulerAssumption DEF SchedInit, InitMain
<1>2. /\ Placed' /\ Alive' = {Main} /\ Waiting' = {} /\ Parked' = {}
  BY <1>1, MainPlaced
<1>3. RingsOK' /\ sq' = << >> /\ \A t \in Tags : Outstanding(t)' = 0
  <2>1. /\ sq = << >> /\ cq = << >> /\ pending = 0
        /\ inflight = [t \in Tags |-> 0] /\ UNCHANGED << sq, cq, pending, inflight >>
    BY <1>1 DEF SchedInit, ringVars
  <2>2. RingsOK'
    BY <2>1 DEF RingsOK
  <2>3. ASSUME NEW t \in Tags  PROVE Outstanding(t)' = 0
    <3>1. Outstanding(t)' = Count(<< >>, t) + 0 + Count(<< >>, t)
      BY <2>1, OutstandingSum
    <3> QED  BY <3>1, CountEmpty
  <2> QED  BY <2>1, <2>2, <2>3
<1>4. ControlOK'
  BY <1>1, SchedulerAssumption DEF SchedInit, ControlOK, Busy
<1>5. MarksOK'
  BY <1>1, <1>2, SchedulerAssumption DEF SchedInit, MarksOK, actorVars
<1>6. BatchOK'
  BY <1>1, <1>3, SchedulerAssumption DEF BatchOK, Busy
<1>7. OwedOK'
  BY <1>2, <1>3 DEF OwedOK, Tags
<1> QED  BY <1>2, <1>3, <1>4, <1>5, <1>6, <1>7 DEF RunInv

(* One step keeps the invariant, one case per action.  A completion needs   *)
(* room in process_arr.                                                     *)
LEMMA SchedInvStep ==
    ASSUME SchedInv, [SchedNext]_schedVars, PollOne => WakeFitsQueue'
    PROVE  SchedInv'
<1>1. CASE SchedInit
  <2>1. CASE InitMain
    BY <1>1, <2>1, InitMainStep DEF SchedInv
  <2>2. CASE UNCHANGED schedVars
    BY <1>1, <2>2
       DEF SchedInv, SchedInit, PidTableInit, RunQueueInit, schedVars, pidVars,
           queueVars, runVars, waitVars, parkVars, ctlVars, actorVars, ringVars
  <2> QED  BY <1>1, <2>1, <2>2, BootStep
<1>2. CASE RunInv
  <2>1. phase # "boot"
    BY <1>2 DEF RunInv, ControlOK
  <2>2. CASE UNCHANGED schedVars
    <3>1. /\ UNCHANGED << pidVars, queueVars, ctlVars, actorVars, ringVars >>
      BY <2>2 DEF schedVars
    <3>2. /\ Placed' /\ Parked' = Parked /\ Alive' = Alive
          /\ Waiting' = Waiting /\ CurrentActor' = CurrentActor
      BY <1>2, <3>1, NothingMoves DEF RunInv
    <3>3. RingsOK' /\ \A t \in Tags : Outstanding(t)' = Outstanding(t)
      BY <1>2, <3>1, RingsUntouched DEF RunInv
    <3>4. ControlOK' /\ BatchOK' /\ MarksOK'
      BY <1>2, <3>1, <3>2
         DEF RunInv, ControlOK, BatchOK, MarksOK, Busy, queueVars, runVars,
             ctlVars, actorVars, ringVars
    <3>5. OwedOK'
      BY <1>2, <3>2, <3>3, OwedKept DEF RunInv
    <3> QED  BY <3>2, <3>3, <3>4, <3>5 DEF SchedInv, RunInv
  <2>3. CASE \E t \in Tags : Complete(t)
    BY <1>2, <2>3, CompleteStep DEF SchedInv
  <2>4. CASE PollOne
    BY <1>2, <2>4, PollOneStep DEF SchedInv
  <2>5. CASE PollDone \/ CqeArrived \/ LoopOnWaiters \/ Compute
    BY <1>2, <2>5, IdleSteps DEF SchedInv
  <2>6. CASE Flush \/ WaitCqe \/ Exit
    BY <1>2, <2>6, SubmittingSteps DEF SchedInv
  <2>7. CASE Dispatch
    BY <1>2, <2>7, DispatchStep DEF SchedInv
  <2>8. CASE QuantumLoop \/ TailSelf
    BY <1>2, <2>8, CountdownSteps DEF SchedInv
  <2>9. CASE DeathCheck \/ Done
    BY <1>2, <2>9, BurySteps DEF SchedInv
  <2>10. CASE \E c \in Actors : Spawn(c)
    BY <1>2, <2>10, SpawnKeeps DEF SchedInv
  <2>11. CASE \E p \in HeldPids, n \in {0, 1} : Send(p, n)
    BY <1>2, <2>11, SendKeeps DEF SchedInv
  <2>12. CASE Receive \/ DieActor
    BY <1>2, <2>12, ReceiveKeeps DEF SchedInv
  <2>13. CASE Wait
    BY <1>2, <2>13, WaitKeeps DEF SchedInv
  <2>14. CASE SubmitAndPark \/ BarePark
    BY <1>2, <2>14, ParkKeeps DEF SchedInv
  <2>15. CASE WriteAsync
    BY <1>2, <2>15, WriteKeeps DEF SchedInv
  <2>16. ~ InitMain
    BY <2>1 DEF InitMain
  <2>17. \/ UNCHANGED schedVars \/ PollOne \/ PollDone \/ Flush \/ Dispatch
         \/ WaitCqe \/ CqeArrived \/ LoopOnWaiters \/ Exit \/ QuantumLoop
         \/ DeathCheck \/ Compute \/ TailSelf \/ Receive \/ Wait
         \/ SubmitAndPark \/ WriteAsync \/ BarePark \/ DieActor \/ Done
         \/ (\E t \in Tags : Complete(t)) \/ (\E c \in Actors : Spawn(c))
         \/ (\E p \in HeldPids, n \in {0, 1} : Send(p, n))
    BY <2>16 DEF SchedNext, Thread, Block, Exited
  <2> QED  BY <2>2, <2>3, <2>4, <2>5, <2>6, <2>7, <2>8, <2>9, <2>10, <2>11,
              <2>12, <2>13, <2>14, <2>15, <2>17
<1> QED  BY <1>1, <1>2 DEF SchedInv

(* The inductive invariant holds of every behaviour in which completions    *)
(* find room.                                                               *)
THEOREM SchedInvariant == SchedSpec /\ []WakeFitsQueue => []SchedInv
<1>1. SchedInit => SchedInv
  BY DEF SchedInv
<1>2. SchedInv /\ WakeFitsQueue' /\ [SchedNext]_schedVars => SchedInv'
  BY SchedInvStep
<1> QED  BY <1>1, <1>2, PTL DEF SchedSpec

-----------------------------------------------------------------------------
(* A set of positions holds one element if an actor is there, else none:    *)
(* what injectivity of the arrays says of Cardinality.                      *)
LEMMA OneOrNone ==
    ASSUME NEW S, \A i, j \in S : i = j
    PROVE  IF S = {} THEN Cardinality(S) = 0 ELSE Cardinality(S) = 1
<1>1. CASE S = {}
  BY <1>1, FS_EmptySet
<1>2. CASE S # {}
  <2>1. PICK i : S = {i}
    BY <1>2
  <2> QED  BY <1>2, <2>1, FS_Singleton
<1> QED  BY <1>1, <1>2

(* The positions of an actor in each array.                                 *)
LEMMA Positions ==
    ASSUME Placed, NEW a \in Actors
    PROVE  /\ Cardinality(RunAt(a)) = IF a \in Runnable THEN 1 ELSE 0
           /\ Cardinality(WaitAt(a)) = IF a \in Waiting THEN 1 ELSE 0
           /\ Cardinality(ParkAt(a)) = IF a \in Parked THEN 1 ELSE 0
           /\ RunAt(a) # {} <=> a \in Runnable
           /\ WaitAt(a) # {} /\ Live(a) <=> a \in Waiting
           /\ ParkAt(a) # {} <=> a \in Parked
<1>1. RunExact /\ WaitExact /\ ParkExact
  BY DEF Placed
<1>2. /\ \A i, j \in RunAt(a) : i = j
      /\ RunAt(a) # {} <=> a \in Runnable
  BY <1>1 DEF RunExact, RunAt, Runnable
<1>3. /\ \A i, j \in WaitAt(a) : i = j
      /\ WaitAt(a) # {} <=> a \in Waiting
  BY <1>1 DEF WaitExact, WaitAt, Waiting
<1>4. /\ \A i, j \in ParkAt(a) : i = j
      /\ ParkAt(a) # {} <=> a \in Parked
  <2>1. io_parked_idx[a] \in Nat /\ Len(io_parked) \in Nat
    BY <1>1 DEF ParkExact
  <2>2. \A i \in ParkAt(a) : i \in Int /\ io_parked_idx[a] = i - 1
    BY <1>1, <2>1 DEF ParkExact, ParkAt
  <2>3. \A i, j \in ParkAt(a) : i = j
    BY <2>1, <2>2
  <2> QED  BY <2>3 DEF ParkAt, Parked
<1>5. a \in Waiting => Live(a)
  BY DEF Placed, Apart, Alive
<1> HIDE DEF Placed
<1>6. Cardinality(RunAt(a)) = IF a \in Runnable THEN 1 ELSE 0
  BY <1>2, OneOrNone
<1>7. Cardinality(WaitAt(a)) = IF a \in Waiting THEN 1 ELSE 0
  BY <1>3, OneOrNone
<1>8. Cardinality(ParkAt(a)) = IF a \in Parked THEN 1 ELSE 0
  BY <1>4, OneOrNone
<1> QED  BY <1>2, <1>3, <1>4, <1>5, <1>6, <1>7, <1>8

(* Before main is entered nothing is anywhere.                              *)
LEMMA BootFacts ==
    ASSUME SchedInit
    PROVE  /\ phase = "boot" /\ io_parked = << >> /\ sq = << >> /\ pending = 0
           /\ \A a \in Actors : ~ Live(a) /\ Outstanding(a) = 0
           /\ \A a \in Actors : ParkAt(a) = {} /\ RunAt(a) = {}
<1>1. /\ phase = "boot" /\ io_parked = << >> /\ sq = << >> /\ cq = << >>
      /\ pending = 0 /\ inflight = [t \in Tags |-> 0]
  BY DEF SchedInit, RunQueueInit
<1>2. \A a \in Actors : ~ Live(a)
  BY DEF SchedInit, PidTableInit, Live
<1>3. ASSUME NEW a \in Actors  PROVE Outstanding(a) = 0
  <2>1. Outstanding(a) = Count(<< >>, a) + 0 + Count(<< >>, a)
    BY <1>1, OutstandingSum DEF Tags
  <2> QED  BY <2>1, CountEmpty
<1>4. \A a \in Actors : ParkAt(a) = {}
  <2>1. Len(io_parked) = 0
    BY <1>1
  <2> QED  BY <2>1 DEF ParkAt
<1>5. \A a \in Actors : RunAt(a) = {}
  <2>1. last_process_index = 0 /\ process_arr[0] = NoActor
    BY PidAssumption DEF SchedInit, RunQueueInit
  <2>2. \A a \in Actors, i \in 0 .. last_process_index : process_arr[i] # a
    BY <2>1, PidAssumption
  <2> QED  BY <2>2 DEF RunAt
<1> QED  BY <1>1, <1>2, <1>3, <1>4, <1>5

(* All variables keep their shapes.                                         *)
THEOREM SchedTypeCorrect == SchedSpec /\ []WakeFitsQueue => []SchedTypeOK
<1>1. ASSUME RunInv  PROVE SchedTypeOK
  <2>1. PidTypeOK
    BY <1>1 DEF RunInv, Placed, TableInv
  <2>2. QueueTypeOK
    <3>1. RunExact /\ WaitExact /\ ParkExact
      BY <1>1 DEF RunInv, Placed
    <3>2. real_count \in Nat /\ current_process \in Nat
      BY <3>1 DEF RunExact
    <3>3. waited_count \in Nat
      BY <3>1 DEF WaitExact
    <3> QED  BY <3>1, <3>2, <3>3
             DEF QueueTypeOK, RunExact, WaitExact, ParkExact
  <2>3. pending \in Nat
    BY <1>1 DEF RunInv, RingsOK
  <2> QED  BY <1>1, <2>1, <2>2, <2>3
           DEF SchedTypeOK, RunInv, ControlOK, MarksOK, RingsOK
<1>2. ASSUME SchedInit  PROVE SchedTypeOK
  <2>1. PidTypeOK
    BY <1>2, InitTableInv DEF SchedInit, TableInv
  <2>2. QueueTypeOK
    BY <1>2, PidAssumption
       DEF SchedInit, RunQueueInit, QueueTypeOK, NoPid, Pids
  <2> QED  BY <1>2, <2>1, <2>2, SchedulerAssumption DEF SchedInit, SchedTypeOK
<1>3. SchedInv => SchedTypeOK
  BY <1>1, <1>2 DEF SchedInv
<1> QED  BY <1>3, SchedInvariant, PTL

(* The counts the loop decides on agree with the indices the operations     *)
(* use.                                                                     *)
THEOREM CountsAlwaysAgree == SchedSpec /\ []WakeFitsQueue => []CountsAgree
<1>1. SchedInv => CountsAgree
  BY BootFacts
     DEF SchedInv, RunInv, Placed, RunExact, WaitExact, CountsAgree
<1> QED  BY <1>1, SchedInvariant, PTL

(* An actor that is alive is in exactly one of the three arrays, once; one  *)
(* that is dead in none.                                                    *)
THEOREM OnePlaceAlways == SchedSpec /\ []WakeFitsQueue => []OnePlaceEach
<1>1. ASSUME SchedInv, phase # "boot", NEW a \in Actors
      PROVE  Cardinality(RunAt(a)) + Cardinality(WaitAt(a)) + Cardinality(ParkAt(a))
               = IF Live(a) THEN 1 ELSE 0
  <2>1. Placed
    BY <1>1, BootFacts DEF SchedInv, RunInv
  <2>2. /\ Live(a) <=> a \in Runnable \/ a \in Waiting \/ a \in Parked
        /\ ~ (a \in Runnable /\ a \in Waiting)
        /\ ~ (a \in Runnable /\ a \in Parked)
        /\ ~ (a \in Waiting /\ a \in Parked)
    BY <2>1 DEF Placed, Apart, Alive
  <2> QED  BY <2>1, <2>2, Positions
<1>2. SchedInv => OnePlaceEach
  BY <1>1 DEF OnePlaceEach
<1> QED  BY <1>2, SchedInvariant, PTL

(* The index a parked actor carries is the right one.                       *)
THEOREM ParkedIdxAlwaysExact == SchedSpec /\ []WakeFitsQueue => []ParkedIdxExact
<1>1. SchedInv => ParkedIdxExact
  BY BootFacts DEF SchedInv, RunInv, Placed, ParkExact, ParkedIdxExact
<1> QED  BY <1>1, SchedInvariant, PTL

(* Nobody sleeps on a message that has come.                                *)
THEOREM WakeupsNeverLost == SchedSpec /\ []WakeFitsQueue => []NoLostWakeup
<1>1. ASSUME SchedInv, NEW a \in Actors, Live(a), WaitAt(a) # {}
      PROVE  mail[a] = 0
  <2>1. RunInv
    BY <1>1, BootFacts DEF SchedInv
  <2>2. a \in Waiting
    BY <1>1, <2>1, Positions DEF RunInv
  <2> QED  BY <2>1, <2>2 DEF RunInv, MarksOK
<1>2. SchedInv => NoLostWakeup
  BY <1>1 DEF NoLostWakeup
<1> QED  BY <1>2, SchedInvariant, PTL

(* A completion finds the actor it names parked, and finds it once.         *)
THEOREM CompletionsAlwaysMatch ==
    SchedSpec /\ []WakeFitsQueue => []CompletionsMatchParked
<1>1. ASSUME SchedInv, NEW a \in Actors
      PROVE  /\ Outstanding(a) <= Cardinality(ParkAt(a))
             /\ "bare_park" \notin Ops => Outstanding(a) = Cardinality(ParkAt(a))
  <2>1. CASE SchedInit
    <3>1. Outstanding(a) = 0 /\ ParkAt(a) = {}
      BY <2>1, BootFacts
    <3>2. Cardinality(ParkAt(a)) = 0
      BY <3>1, FS_EmptySet
    <3> QED  BY <3>1, <3>2
  <2>2. CASE RunInv
    <3>1. Cardinality(ParkAt(a)) = IF a \in Parked THEN 1 ELSE 0
      BY <2>2, Positions DEF RunInv
    <3>2. a \in Tags
      BY DEF Tags
    <3>3. Outstanding(a) \in Nat
      BY <2>2, <3>2, OutstandingType DEF RunInv
    <3> QED  BY <2>2, <3>1, <3>3 DEF RunInv, OwedOK
  <2> QED  BY <1>1, <2>1, <2>2 DEF SchedInv
<1>2. SchedInv => CompletionsMatchParked
  BY <1>1 DEF CompletionsMatchParked
<1> QED  BY <1>2, SchedInvariant, PTL

(* No block runs for an actor that is marked for death.                     *)
THEOREM MarkedRunNothing == SchedSpec /\ []WakeFitsQueue => []DyingRunsNoBlock
<1>1. ASSUME SchedInv, phase = "run"
      PROVE  ~ dying[CurrentActor]
  <2>1. RunInv /\ Busy
    BY <1>1, BootFacts DEF SchedInv, Busy
  <2> QED  BY <1>1, <2>1, CurrentAlive DEF RunInv, MarksOK
<1>2. SchedInv => DyingRunsNoBlock
  BY <1>1 DEF DyingRunsNoBlock
<1> QED  BY <1>2, SchedInvariant, PTL

(* The submission ring never holds more than a batch, and SQE_PENDING       *)
(* counts what it holds.                                                    *)
THEOREM RingWithinBatch == SchedSpec /\ []WakeFitsQueue => []SqWithinBatch
<1>1. SchedInv => SqWithinBatch
  BY BootFacts, SchedulerAssumption
     DEF SchedInv, RunInv, RingsOK, BatchOK, SqWithinBatch
<1> QED  BY <1>1, SchedInvariant, PTL

-----------------------------------------------------------------------------
(* When completions have room.  process_arr never shrinks below the         *)
(* INITIAL_QUEUE_CAP it starts with, and holds only actors that are alive:  *)
(* while no more of these exist than it has room for, a completion fits.    *)
AliveFit == IsFiniteSet(Alive) /\ Cardinality(Alive) <= process_cap

(* The runnable actors and a parked one are that many different actors.     *)
LEMMA RunnableAndOne ==
    ASSUME Placed, AliveFit, NEW a \in Parked
    PROVE  last_process_index + 2 <= process_cap
<1> DEFINE n == last_process_index + 1
           f == [i \in 0 .. n |-> IF i = n THEN a ELSE process_arr[i]]
<1>1. /\ n \in Nat /\ process_cap \in Nat
      /\ last_process_index \in Int /\ n = last_process_index + 1
      /\ \A i \in 0 .. n - 1 : process_arr[i] \in Runnable
      /\ \A i, j \in 0 .. n - 1 : process_arr[i] = process_arr[j] => i = j
  BY DEF Placed, RunExact, Runnable
<1>2. a \in Alive /\ a \notin Runnable /\ Runnable \subseteq Alive
  BY DEF Placed, Apart
<1> HIDE DEF n
<1>3. f \in [0 .. n -> Alive]
  BY <1>1, <1>2
<1>4. \A i, j \in 0 .. n : f[i] = f[j] => i = j
  BY <1>1, <1>2
<1> HIDE DEF f
<1>5. f \in Injection(0 .. n, Alive)
  BY <1>3, <1>4, Fun_IsInj
<1>6. Cardinality(0 .. n) <= Cardinality(Alive) /\ IsFiniteSet(0 .. n)
  BY <1>5, FS_Injection DEF AliveFit
<1>7. Cardinality(0 .. n) = n + 1
  BY <1>1, FS_Interval
<1>8. Cardinality(Alive) \in Nat
  BY FS_CardinalityType DEF AliveFit
<1>9. n + 1 <= process_cap
  BY <1>1, <1>6, <1>7, <1>8 DEF AliveFit
<1> QED  BY <1>1, <1>9

(* So a completion fits.                                                    *)
LEMMA RoomStep ==
    ASSUME SchedInv, AliveFit, PollOne
    PROVE  WakeFitsQueue'
<1>1. RunInv
  BY BootFacts DEF SchedInv, PollOne
<1>2. /\ process_cap \in Int /\ last_process_index \in Int
      /\ last_process_index < process_cap
  BY <1>1 DEF RunInv, Placed, RunExact
<1>3. CASE Head(cq) = NoActor
  <2>1. UNCHANGED runVars
    BY <1>3 DEF PollOne
  <2> QED  BY <1>2, <2>1 DEF WakeFitsQueue, runVars
<1>4. CASE Head(cq) # NoActor
  <2>1. /\ cq # << >> /\ cq' = Tail(cq) /\ UNCHANGED << sq, pending, inflight >>
        /\ WakeParked(Head(cq))
    BY <1>4 DEF PollOne
  <2>2. /\ Head(cq) \in Tags /\ Outstanding(Head(cq)) > 0
        /\ Outstanding(Head(cq)) \in Nat
    BY <1>1, <2>1, DrainRings, OutstandingType DEF RunInv
  <2>3. PICK a \in Parked : a = Head(cq)
    BY <1>1, <1>4, <2>2 DEF RunInv, OwedOK, Tags
  <2>4. last_process_index + 2 <= process_cap
    BY <1>1, RunnableAndOne DEF RunInv
  <2>5. last_process_index' = last_process_index + 1 /\ process_cap' = process_cap
    BY <2>1 DEF WakeParked
  <2> QED  BY <1>2, <2>4, <2>5 DEF WakeFitsQueue
<1> QED  BY <1>3, <1>4

(* The invariant from room for the living alone.                            *)
THEOREM RoomWhileAliveFit == SchedSpec /\ []AliveFit => []WakeFitsQueue
<1>1. SchedInit => SchedInv
  BY DEF SchedInv
<1>2. SchedInv /\ AliveFit /\ [SchedNext]_schedVars => SchedInv'
  BY SchedInvStep, RoomStep
<1>3. SchedInv => WakeFitsQueue
  BY PidAssumption
     DEF SchedInv, SchedInit, RunQueueInit, RunInv, Placed, RunExact,
         WakeFitsQueue
<1> QED  BY <1>1, <1>2, <1>3, PTL DEF SchedSpec

(* process_arr never shrinks.                                               *)
LEMMA CapacityGrows ==
    ASSUME SchedInv, [SchedNext]_schedVars
    PROVE  /\ process_cap \in Nat /\ process_cap' \in Nat
           /\ process_cap' >= process_cap
<1>1. process_cap \in Nat
  BY PidAssumption
     DEF SchedInv, SchedInit, RunQueueInit, RunInv, Placed, RunExact
<1>2. \/ process_cap' = process_cap
      \/ process_cap' = 2 * process_cap
  BY DEF SchedNext, schedVars, queueVars, runVars, Thread, Block, Complete,
         Exited, InitMain, PollOne, WakeParked, PollDone, Flush, Dispatch,
         WaitCqe, CqeArrived, LoopOnWaiters, Exit, QuantumLoop, NextProcess,
         DeathCheck, Done, Bury, RemoveCurrent, Compute, TailSelf, Spawn,
         NewProcess, GrownCap, Send, Wake, WakeFoundAt, Receive, Wait,
         SubmitAndPark, ParkCurrent, WriteAsync, BarePark, DieActor
<1> QED  BY <1>1, <1>2

(* A program that never has more than INITIAL_QUEUE_CAP actors always has   *)
(* room, and so everything above holds of it without a condition.           *)
THEOREM RoomForFewActors ==
    ASSUME IsFiniteSet(Actors), Cardinality(Actors) <= QueueCap
    PROVE  SchedSpec => []WakeFitsQueue
<1> DEFINE Cap == process_cap \in Nat /\ process_cap >= QueueCap
<1>1. SchedInit => SchedInv /\ Cap
  BY PidAssumption DEF SchedInv, SchedInit, RunQueueInit
<1>2. Cap => AliveFit
  <2>1. Alive \in SUBSET Actors
    BY DEF Alive
  <2>2. IsFiniteSet(Alive) /\ Cardinality(Alive) <= Cardinality(Actors)
    BY <2>1, FS_Subset
  <2>3. Cardinality(Alive) \in Nat /\ Cardinality(Actors) \in Nat
    BY <2>2, FS_CardinalityType
  <2> QED  BY <2>2, <2>3, PidAssumption DEF AliveFit
<1>3. SchedInv /\ Cap /\ [SchedNext]_schedVars => SchedInv' /\ Cap'
  <2>1. ASSUME SchedInv, Cap, [SchedNext]_schedVars
        PROVE  SchedInv'
    BY <1>2, <2>1, SchedInvStep, RoomStep
  <2>2. ASSUME SchedInv, Cap, [SchedNext]_schedVars
        PROVE  process_cap' \in Nat /\ process_cap' >= QueueCap
    <3>1. /\ process_cap \in Nat /\ process_cap >= QueueCap /\ QueueCap \in Nat
          /\ process_cap' >= process_cap
          /\ process_cap' \in Nat
      BY <2>2, CapacityGrows, PidAssumption
    <3> QED  BY <3>1
  <2> QED  BY <2>1, <2>2
<1>4. SchedInv => WakeFitsQueue
  BY PidAssumption
     DEF SchedInv, SchedInit, RunQueueInit, RunInv, Placed, RunExact,
         WakeFitsQueue
<1> QED  BY <1>1, <1>3, <1>4, PTL DEF SchedSpec

-----------------------------------------------------------------------------
(* The arrays implement the life of an actor that ActorStates describes:    *)
(* every step of the thread and of the kernel is one step of it or none.    *)
(*     InitMain, Spawn  Spawn       SubmitAndPark  Park                     *)
(*     DeathCheck, Done Die         BarePark       Sleep                    *)
(*     Send             Deliver     PollOne        Unpark                   *)
(*     Receive          Take        Wait           Block                    *)

(* Status, read off the sets of places instead of the arrays.               *)
Place(a) ==
    IF a \in Runnable THEN "runnable"
    ELSE IF a \in Waiting THEN "waiting"
    ELSE IF a \in Parked THEN "parked"
    ELSE "dead"

StatusExact == \A a \in Actors : Status(a) = Place(a) /\ (Live(a) <=> a \in Alive)

(* The two readings agree.                                                  *)
LEMMA StatusPlaced == Placed => StatusExact
<1>1. ASSUME Placed, NEW a \in Actors
      PROVE  Status(a) = Place(a) /\ (Live(a) <=> a \in Alive)
  <2>1. Live(a) <=> a \in Alive
    BY DEF Alive
  <2>2. Live(a) <=> a \in Runnable \/ a \in Waiting \/ a \in Parked
    BY <1>1, <2>1 DEF Placed, Apart
  <2>3. /\ RunAt(a) # {} <=> a \in Runnable
        /\ WaitAt(a) # {} /\ Live(a) <=> a \in Waiting
        /\ ParkAt(a) # {} <=> a \in Parked
    BY <1>1, Positions
  <2> QED  BY <2>1, <2>2, <2>3 DEF Status, Place
<1> QED  BY <1>1 DEF StatusExact

(* And in the next state.                                                   *)
LEMMA StatusPlacedNext == Placed' => StatusExact'
BY StatusPlaced, PTL

(* A step that moves nobody, changes no mailbox and settles no request is   *)
(* no step of ActorStates.                                                  *)
LEMMA StutterMaps ==
    ASSUME Placed, Placed', UNCHANGED mail,
           Runnable' = Runnable, Waiting' = Waiting, Parked' = Parked,
           Alive' = Alive, \A a \in Actors : Outstanding(a)' = Outstanding(a)
    PROVE  UNCHANGED Lives!vars
<1>1. \A a \in Actors : Status(a)' = Status(a) /\ (Live(a)' <=> Live(a))
  BY StatusPlaced, StatusPlacedNext DEF StatusExact, Place
<1> QED  BY <1>1 DEF Lives!vars

(* Nor is a step that changes nothing at all.                               *)
LEMMA NothingMaps ==
    ASSUME UNCHANGED schedVars
    PROVE  UNCHANGED Lives!vars
BY DEF schedVars, pidVars, queueVars, runVars, waitVars, parkVars, ctlVars,
       actorVars, ringVars, Lives!vars, Status, Live, RunAt, WaitAt, ParkAt,
       Outstanding

(* In the initial state everybody is dead and owed nothing.                 *)
LEMMA BootMaps ==
    ASSUME SchedInit
    PROVE  /\ Lives!Init
           /\ \A a \in Actors : Status(a) = "dead" /\ ~ Live(a)
           /\ { a \in Actors : Outstanding(a) > 0 } = {}
<1>1. \A a \in Actors : Status(a) = "dead" /\ ~ Live(a) /\ Outstanding(a) = 0
  BY BootFacts DEF Status
<1>2. { a \in Actors : Outstanding(a) > 0 } = {}
  BY <1>1
<1> QED  BY <1>1, <1>2 DEF Lives!Init

(* A spawn, main's or a block's: the actor was dead and owed nothing, and   *)
(* its mailbox starts out empty.                                            *)
LEMMA SpawnMaps ==
    ASSUME NEW c \in Actors, Placed',
           \A b \in Actors : Status(b) = Place(b),
           ~ Live(c), \A b \in Actors : b # c => (Live(b)' <=> Live(b)),
           Runnable' = Runnable \cup {c}, Waiting' = Waiting, Parked' = Parked,
           mail'[c] = 0, \A b \in Actors : b # c => mail'[b] = mail[b],
           \A b \in Actors : Outstanding(b)' = Outstanding(b)
    PROVE  Lives!Spawn(c)
<1>1. \A b \in Actors : Status(b)' = IF b = c THEN "runnable" ELSE Status(b)
  BY StatusPlacedNext DEF StatusExact, Place
<1>2. Status(c) = "dead"
  BY DEF Status
<1>3. { b \in Actors : Outstanding(b)' > 0 } = { b \in Actors : Outstanding(b) > 0 }
  OBVIOUS
<1>4. [b \in Actors |-> Status(b)'] =
        [[b \in Actors |-> Status(b)] EXCEPT ![c] = "runnable"]
  BY <1>1
<1>5. [b \in Actors |-> IF Live(b)' THEN mail'[b] ELSE 0] =
        [[b \in Actors |-> IF Live(b) THEN mail[b] ELSE 0] EXCEPT ![c] = 0]
  OBVIOUS
<1> QED  BY <1>2, <1>3, <1>4, <1>5 DEF Lives!Spawn

(* The end of an actor that was runnable.                                   *)
LEMMA BuryMaps ==
    ASSUME RunInv, DeathCheck \/ Done
    PROVE  \E a \in Actors : Lives!Die(a)
<1>1. PICK c \in Actors : c = CurrentActor
  BY CurrentAlive DEF DeathCheck, Done, Running, Busy
<1>2. /\ Busy /\ ClearPid(c) /\ RemoveCurrent
      /\ UNCHANGED << waitVars, parkVars, actorVars, ringVars >>
  BY <1>1 DEF DeathCheck, Done, Running, Bury, Busy
<1>3. /\ Placed' /\ Runnable' = Runnable \ {c} /\ Waiting' = Waiting
      /\ Parked' = Parked /\ Alive' = Alive \ {c}
  BY <1>1, <1>2, BuryPlaced DEF RunInv, ControlOK
<1>4. c \in Runnable /\ c \notin Waiting /\ c \notin Parked
  BY <1>1, <1>2, CurrentAlive
<1>5. \A b \in Actors : Status(b)' = IF b = c THEN "dead" ELSE Status(b)
  BY <1>3, <1>4, StatusPlaced, StatusPlacedNext DEF RunInv, StatusExact, Place
<1>6. \A b \in Actors : (Live(b) <=> b \in Alive) /\ (Live(b)' <=> b \in Alive \ {c})
  BY <1>3, StatusPlaced, StatusPlacedNext DEF RunInv, StatusExact
<1>7. Status(c) = "runnable"
  BY <1>4, StatusPlaced DEF RunInv, StatusExact, Place
<1>8. \A b \in Actors : Outstanding(b)' = Outstanding(b)
  BY <1>2, RingsUntouched DEF RunInv, Tags
<1>9. { b \in Actors : Outstanding(b)' > 0 } = { b \in Actors : Outstanding(b) > 0 }
  BY <1>8
<1>10. [b \in Actors |-> Status(b)'] =
         [[b \in Actors |-> Status(b)] EXCEPT ![c] = "dead"]
  BY <1>5
<1>11. [b \in Actors |-> IF Live(b)' THEN mail'[b] ELSE 0] =
         [[b \in Actors |-> IF Live(b) THEN mail[b] ELSE 0] EXCEPT ![c] = 0]
  BY <1>2, <1>6 DEF actorVars
<1> QED  BY <1>7, <1>9, <1>10, <1>11 DEF Lives!Die

(* A send to a pid that resolves: the message is in the mailbox, and a      *)
(* target that waited is runnable.                                          *)
LEMMA SendMaps ==
    ASSUME RunInv, NEW p \in HeldPids, NEW n \in {0, 1}, Send(p, n),
           LookupProcCtx(p) # NoActor
    PROVE  \E a \in Actors : Lives!Deliver(a, n)
<1>1. /\ phase = "run" /\ Wake(p)
      /\ mail' = [mail EXCEPT ![LookupProcCtx(p)] = @ + n]
      /\ UNCHANGED << pidVars, parkVars, ringVars >>
  BY DEF Send, Running
<1>2. real_count > 0
  BY <1>1 DEF RunInv, ControlOK, Busy
<1>3. /\ Placed' /\ LookupProcCtx(p) \in Alive
      /\ Waiting' = Waiting \ {LookupProcCtx(p)}
      /\ Runnable' = IF LookupProcCtx(p) \in Waiting
                     THEN Runnable \cup {LookupProcCtx(p)} ELSE Runnable
      /\ Parked' = Parked /\ Alive' = Alive
  BY <1>1, <1>2, WakePlaced DEF RunInv
<1>4. PICK a \in Actors : a = LookupProcCtx(p)
  BY <1>3 DEF Alive
<1>5. /\ \A b \in Actors : Status(b) = Place(b) /\ (Live(b) <=> b \in Alive)
      /\ \A b \in Actors : Status(b)' = Place(b)' /\ (Live(b)' <=> b \in Alive)
  BY <1>3, StatusPlaced, StatusPlacedNext DEF RunInv, StatusExact
<1>6. \A b \in Actors : Status(b)' =
         IF b = a /\ Status(b) = "waiting" THEN "runnable" ELSE Status(b)
  <2>1. ~ (a \in Waiting /\ a \in Runnable)
    BY DEF RunInv, Placed, Apart
  <2> QED  BY <1>3, <1>4, <1>5, <2>1 DEF Place
<1>7. Status(a) # "dead" /\ Live(a)
  <2>1. a \in Runnable \/ a \in Waiting \/ a \in Parked
    BY <1>3, <1>4 DEF RunInv, Placed, Apart
  <2> QED  BY <1>3, <1>4, <1>5, <2>1 DEF Place
<1>8. \A b \in Actors : Outstanding(b)' = Outstanding(b)
  BY <1>1, RingsUntouched DEF RunInv, Tags
<1>9. { b \in Actors : Outstanding(b)' > 0 } = { b \in Actors : Outstanding(b) > 0 }
  BY <1>8
<1>10. [b \in Actors |-> Status(b)'] =
         [[b \in Actors |-> Status(b)] EXCEPT
            ![a] = IF @ = "waiting" THEN "runnable" ELSE @]
  BY <1>6
<1>11. [b \in Actors |-> IF Live(b)' THEN mail'[b] ELSE 0] =
         [[b \in Actors |-> IF Live(b) THEN mail[b] ELSE 0] EXCEPT ![a] = @ + n]
  <2>1. \A b \in Actors : mail'[b] = IF b = a THEN mail[b] + n ELSE mail[b]
    BY <1>1, <1>4 DEF RunInv, MarksOK
  <2> QED  BY <1>5, <1>7, <2>1
<1> QED  BY <1>7, <1>9, <1>10, <1>11 DEF Lives!Deliver

(* A message taken by the current actor.                                    *)
LEMMA ReceiveMaps ==
    ASSUME RunInv, Receive
    PROVE  \E a \in Actors : Lives!Take(a)
<1>1. /\ phase = "run" /\ mail[CurrentActor] > 0
      /\ mail' = [mail EXCEPT ![CurrentActor] = @ - 1]
      /\ UNCHANGED << pidVars, queueVars, ringVars >>
  BY DEF Receive, Running
<1>2. PICK a \in Actors : a = CurrentActor
  BY <1>1, CurrentAlive DEF Busy
<1>3. /\ Placed' /\ Runnable' = Runnable /\ Waiting' = Waiting
      /\ Parked' = Parked /\ Alive' = Alive
  BY <1>1, NothingMoves DEF RunInv
<1>4. \A b \in Actors : Status(b)' = Status(b) /\ (Live(b)' <=> Live(b))
  BY <1>3, StatusPlaced, StatusPlacedNext DEF RunInv, StatusExact, Place
<1>5. Status(a) = "runnable" /\ Live(a)
  <2>1. a \in Runnable /\ Live(a)
    BY <1>1, <1>2, CurrentAlive DEF Busy
  <2> QED  BY <2>1, StatusPlaced DEF RunInv, StatusExact, Place
<1>6. \A b \in Actors : Outstanding(b)' = Outstanding(b)
  BY <1>1, RingsUntouched DEF RunInv, Tags
<1>7. { b \in Actors : Outstanding(b)' > 0 } = { b \in Actors : Outstanding(b) > 0 }
  BY <1>6
<1>8. [b \in Actors |-> IF Live(b)' THEN mail'[b] ELSE 0] =
        [[b \in Actors |-> IF Live(b) THEN mail[b] ELSE 0] EXCEPT ![a] = @ - 1]
  <2>1. \A b \in Actors : mail'[b] = IF b = a THEN mail[b] - 1 ELSE mail[b]
    BY <1>1, <1>2 DEF RunInv, MarksOK
  <2> QED  BY <1>4, <1>5, <2>1
<1> QED  BY <1>1, <1>2, <1>4, <1>5, <1>7, <1>8 DEF Lives!Take

(* A wait on an empty mailbox.                                              *)
LEMMA WaitMaps ==
    ASSUME RunInv, Wait
    PROVE  \E a \in Actors : Lives!Block(a)
<1>1. /\ phase = "run" /\ mail[CurrentActor] = 0 /\ WaitCurrent /\ RemoveCurrent
      /\ UNCHANGED << pidVars, parkVars, mail, ringVars >>
  BY DEF Wait, Running, actorVars
<1>2. PICK a \in Actors : a = CurrentActor
  BY <1>1, CurrentAlive DEF Busy
<1>3. /\ Placed' /\ Runnable' = Runnable \ {a} /\ Waiting' = Waiting \cup {a}
      /\ Parked' = Parked /\ Alive' = Alive
  BY <1>1, <1>2, WaitPlaced DEF RunInv, ControlOK, Busy
<1>4. a \in Runnable /\ a \notin Waiting /\ a \notin Parked /\ Live(a)
  BY <1>1, <1>2, CurrentAlive DEF Busy
<1>5. /\ \A b \in Actors : Status(b)' = IF b = a THEN "waiting" ELSE Status(b)
      /\ \A b \in Actors : Live(b)' <=> Live(b)
      /\ Status(a) = "runnable"
  BY <1>3, <1>4, StatusPlaced, StatusPlacedNext DEF RunInv, StatusExact, Place
<1>6. \A b \in Actors : Outstanding(b)' = Outstanding(b)
  BY <1>1, RingsUntouched DEF RunInv, Tags
<1>7. { b \in Actors : Outstanding(b)' > 0 } = { b \in Actors : Outstanding(b) > 0 }
  BY <1>6
<1>8. [b \in Actors |-> Status(b)'] =
        [[b \in Actors |-> Status(b)] EXCEPT ![a] = "waiting"]
  BY <1>5
<1>9. [b \in Actors |-> IF Live(b)' THEN mail'[b] ELSE 0] =
        [b \in Actors |-> IF Live(b) THEN mail[b] ELSE 0]
  BY <1>1, <1>5
<1> QED  BY <1>1, <1>2, <1>5, <1>7, <1>8, <1>9 DEF Lives!Block

(* A park: with a request of its own the actor is owed an answer, without   *)
(* one it is not.                                                           *)
LEMMA ParkMaps ==
    ASSUME RunInv, SubmitAndPark \/ BarePark
    PROVE  \E a \in Actors : Lives!Park(a) \/ Lives!Sleep(a)
<1>1. /\ phase = "run" /\ ParkCurrent /\ UNCHANGED << pidVars, waitVars, mail >>
      /\ QueueSqe(CurrentActor) \/ UNCHANGED ringVars
  BY DEF SubmitAndPark, BarePark, Running, actorVars
<1>2. PICK a \in Actors : a = CurrentActor
  BY <1>1, CurrentAlive DEF Busy
<1>3. /\ Placed' /\ Runnable' = Runnable \ {a} /\ Parked' = Parked \cup {a}
      /\ Waiting' = Waiting /\ Alive' = Alive
  BY <1>1, <1>2, ParkPlaced DEF RunInv, ControlOK, Busy
<1>4. /\ a \in Runnable /\ a \notin Waiting /\ a \notin Parked /\ Live(a)
      /\ a \in Tags /\ Outstanding(a) = 0
  BY <1>1, <1>2, CurrentAlive DEF Busy
<1>5. /\ \A b \in Actors : Status(b)' = IF b = a THEN "parked" ELSE Status(b)
      /\ \A b \in Actors : Live(b)' <=> Live(b)
      /\ Status(a) = "runnable"
  BY <1>3, <1>4, StatusPlaced, StatusPlacedNext DEF RunInv, StatusExact, Place
<1>6. [b \in Actors |-> Status(b)'] =
        [[b \in Actors |-> Status(b)] EXCEPT ![a] = "parked"]
  BY <1>5
<1>7. [b \in Actors |-> IF Live(b)' THEN mail'[b] ELSE 0] =
        [b \in Actors |-> IF Live(b) THEN mail[b] ELSE 0]
  BY <1>1, <1>5
<1>8. CASE QueueSqe(a)
  <2>1. \A t \in Tags : Outstanding(t)' = Outstanding(t) + (IF t = a THEN 1 ELSE 0)
    BY <1>4, <1>8, QueueRings DEF RunInv
  <2>2. \A b \in Actors : b \in Tags /\ Outstanding(b) \in Nat
    BY OutstandingType DEF RunInv, Tags
  <2>3. \A b \in Actors : Outstanding(b)' > 0 <=> b = a \/ Outstanding(b) > 0
    BY <1>4, <2>1, <2>2
  <2>4. { b \in Actors : Outstanding(b)' > 0 } =
          { b \in Actors : Outstanding(b) > 0 } \cup {a}
    BY <2>3
  <2> QED  BY <1>5, <1>6, <1>7, <2>4 DEF Lives!Park
<1>9. CASE UNCHANGED ringVars
  <2>1. \A b \in Actors : Outstanding(b)' = Outstanding(b)
    BY <1>9, RingsUntouched DEF RunInv, Tags
  <2>2. { b \in Actors : Outstanding(b)' > 0 } =
          { b \in Actors : Outstanding(b) > 0 }
    BY <2>1
  <2> QED  BY <1>5, <1>6, <1>7, <2>2 DEF Lives!Sleep
<1> QED  BY <1>1, <1>2, <1>8, <1>9

(* A completion drained: the actor it names was parked and owed an answer,  *)
(* and is owed nothing more.                                                *)
LEMMA PollOneMaps ==
    ASSUME RunInv, PollOne, Head(cq) # NoActor, WakeFitsQueue'
    PROVE  \E a \in Actors : Lives!Unpark(a)
<1>1. /\ cq # << >> /\ cq' = Tail(cq) /\ WakeParked(Head(cq))
      /\ UNCHANGED << pidVars, waitVars, mail, sq, pending, inflight >>
  BY DEF PollOne, actorVars
<1>2. /\ RingsOK' /\ Head(cq) \in Tags /\ Outstanding(Head(cq)) > 0
      /\ \A t \in Tags : Outstanding(t)
           = Outstanding(t)' + (IF t = Head(cq) THEN 1 ELSE 0)
  BY <1>1, DrainRings DEF RunInv
<1>3. PICK a \in Actors : a = Head(cq)
  BY <1>2 DEF Tags
<1>4. \A b \in Actors :
         b \in Tags /\ Outstanding(b) \in Nat /\ Outstanding(b)' \in Nat
  BY <1>2, OutstandingType, OutstandingTypePrimed DEF RunInv, Tags
<1>5. a \in Parked /\ Outstanding(a) = 1
  BY <1>2, <1>3, <1>4 DEF RunInv, OwedOK
<1>6. /\ Placed' /\ Runnable' = Runnable \cup {a} /\ Parked' = Parked \ {a}
      /\ Waiting' = Waiting /\ Alive' = Alive
  BY <1>1, <1>3, <1>5, WakeParkedPlaced DEF RunInv, WakeFitsQueue
<1>7. a \notin Runnable /\ a \notin Waiting
  BY <1>5 DEF RunInv, Placed, Apart
<1>8. /\ \A b \in Actors : Status(b)' = IF b = a THEN "runnable" ELSE Status(b)
      /\ \A b \in Actors : Live(b)' <=> Live(b)
      /\ Status(a) = "parked"
  BY <1>5, <1>6, <1>7, StatusPlaced, StatusPlacedNext
     DEF RunInv, StatusExact, Place
<1>9. \A b \in Actors : Outstanding(b)' > 0 <=> b # a /\ Outstanding(b) > 0
  BY <1>2, <1>3, <1>4, <1>5
<1>10. /\ { b \in Actors : Outstanding(b)' > 0 } =
            { b \in Actors : Outstanding(b) > 0 } \ {a}
       /\ a \in { b \in Actors : Outstanding(b) > 0 }
  BY <1>5, <1>9
<1>11. [b \in Actors |-> Status(b)'] =
         [[b \in Actors |-> Status(b)] EXCEPT ![a] = "runnable"]
  BY <1>8
<1>12. [b \in Actors |-> IF Live(b)' THEN mail'[b] ELSE 0] =
         [b \in Actors |-> IF Live(b) THEN mail[b] ELSE 0]
  BY <1>1, <1>8
<1> QED  BY <1>8, <1>10, <1>11, <1>12 DEF Lives!Unpark

(* Steps after which everybody is where they were and owed what they were.  *)
LEMMA StillMaps ==
    ASSUME RunInv, UNCHANGED << pidVars, queueVars, mail >>,
           \A a \in Actors : Outstanding(a)' = Outstanding(a)
    PROVE  UNCHANGED Lives!vars
BY NothingMoves, StutterMaps DEF RunInv

(* The thread's own steps: its place, the rings it flushes, the kernel's    *)
(* answers on their way, a computation, a write, a mark, a send to a pid    *)
(* whose actor is dead.                                                     *)
LEMMA QuietStepsMap ==
    ASSUME RunInv,
           \/ PollDone \/ Flush \/ Dispatch \/ WaitCqe \/ CqeArrived
           \/ LoopOnWaiters \/ Exit \/ Compute \/ WriteAsync \/ DieActor
           \/ \E t \in Tags : Complete(t)
           \/ \E p \in HeldPids, n \in {0, 1} :
                 Send(p, n) /\ LookupProcCtx(p) = NoActor
           \/ PollOne /\ Head(cq) = NoActor
    PROVE  UNCHANGED Lives!vars
<1>1. CASE PollDone \/ Dispatch \/ CqeArrived \/ LoopOnWaiters \/ Compute \/ DieActor
  <2>1. UNCHANGED << pidVars, queueVars, mail, ringVars >>
    BY <1>1 DEF PollDone, Dispatch, CqeArrived, LoopOnWaiters, Compute, DieActor,
                actorVars
  <2>2. \A a \in Actors : Outstanding(a)' = Outstanding(a)
    BY <2>1, RingsUntouched DEF RunInv, Tags
  <2> QED  BY <2>1, <2>2, StillMaps
<1>2. CASE Flush \/ WaitCqe \/ Exit
  <2>1. UNCHANGED << pidVars, queueVars, mail >> /\ (FlushPending \/ Submit)
    BY <1>2 DEF Flush, WaitCqe, Exit, actorVars
  <2>2. \A a \in Actors : Outstanding(a)' = Outstanding(a)
    BY <2>1, SubmitRings DEF RunInv, Tags
  <2> QED  BY <2>1, <2>2, StillMaps
<1>3. CASE WriteAsync
  <2>1. UNCHANGED << pidVars, queueVars, mail >> /\ Len(sq) < BatchSize
    BY <1>3 DEF WriteAsync, Running, actorVars, RunInv, BatchOK, Busy
  <2>2. \A a \in Actors : Outstanding(a)' = Outstanding(a)
    BY <1>3, <2>1, WriteRings DEF RunInv
  <2> QED  BY <2>1, <2>2, StillMaps
<1>4. CASE \E t \in Tags : Complete(t)
  <2>1. PICK t \in Tags : Complete(t)
    BY <1>4
  <2>2. UNCHANGED << pidVars, queueVars, mail >>
    BY <2>1 DEF Complete, actorVars
  <2>3. \A a \in Actors : Outstanding(a)' = Outstanding(a)
    BY <2>1, CompleteRings DEF RunInv, Tags
  <2> QED  BY <2>2, <2>3, StillMaps
<1>5. CASE \E p \in HeldPids, n \in {0, 1} :
              Send(p, n) /\ LookupProcCtx(p) = NoActor
  <2>1. UNCHANGED << pidVars, queueVars, mail, ringVars >>
    BY <1>5 DEF Send, queueVars
  <2>2. \A a \in Actors : Outstanding(a)' = Outstanding(a)
    BY <2>1, RingsUntouched DEF RunInv, Tags
  <2> QED  BY <2>1, <2>2, StillMaps
<1>6. CASE PollOne /\ Head(cq) = NoActor
  <2>1. /\ UNCHANGED << pidVars, queueVars, mail >>
        /\ cq # << >> /\ cq' = Tail(cq) /\ UNCHANGED << sq, pending, inflight >>
    BY <1>6 DEF PollOne, queueVars, actorVars
  <2>2. /\ RingsOK'
        /\ \A t \in Tags : Outstanding(t)
             = Outstanding(t)' + (IF t = Head(cq) THEN 1 ELSE 0)
    BY <2>1, DrainRings DEF RunInv
  <2>3. \A a \in Actors : a \in Tags /\ a # Head(cq) /\ Outstanding(a)' \in Nat
    BY <1>6, <2>2, OutstandingTypePrimed, PidAssumption DEF Tags
  <2>4. \A a \in Actors : Outstanding(a)' = Outstanding(a)
    BY <2>2, <2>3
  <2> QED  BY <2>1, <2>4, StillMaps
<1> QED  BY <1>1, <1>2, <1>3, <1>4, <1>5, <1>6

(* The round robin is invisible too.                                        *)
LEMMA CountdownMaps ==
    ASSUME RunInv, QuantumLoop \/ TailSelf
    PROVE  UNCHANGED Lives!vars
<1>1. /\ Busy /\ UNCHANGED << pidVars, waitVars, parkVars, mail, ringVars >>
      /\ NextProcess \/ UNCHANGED runVars
  BY DEF QuantumLoop, TailSelf, Running, Busy, actorVars
<1>2. \A a \in Actors : Outstanding(a)' = Outstanding(a)
  BY <1>1, RingsUntouched DEF RunInv, Tags
<1>3. CASE NextProcess
  <2>1. /\ Placed' /\ Runnable' = Runnable /\ Waiting' = Waiting
        /\ Parked' = Parked /\ Alive' = Alive
    BY <1>1, <1>3, NextPlaced DEF RunInv, ControlOK
  <2> QED  BY <1>1, <1>2, <2>1, StutterMaps DEF RunInv
<1>4. CASE UNCHANGED runVars
  <2>1. UNCHANGED << pidVars, queueVars, mail >>
    BY <1>1, <1>4 DEF queueVars
  <2> QED  BY <1>2, <2>1, StillMaps
<1> QED  BY <1>1, <1>3, <1>4

(* main's entry is a spawn.                                                 *)
LEMMA InitMainMaps ==
    ASSUME SchedInit, InitMain
    PROVE  Lives!Spawn(Main)
<1>1. /\ Main \in Actors /\ PidTableInit /\ RunQueueInit
      /\ AssignPid(Main) /\ process_arr' = [process_arr EXCEPT ![0] = Main]
      /\ real_count' = 1
      /\ UNCHANGED << process_cap, current_process, last_process_index,
                      waitVars, parkVars, mail, ringVars >>
      /\ mail = [a \in Actors |-> 0]
  BY SchedulerAssumption DEF SchedInit, InitMain, actorVars
<1>2. /\ Placed' /\ Alive' = {Main} /\ Runnable' = {Main}
      /\ Waiting' = {} /\ Parked' = {}
  BY <1>1, MainPlaced
<1>3. \A b \in Actors : Status(b) = "dead" /\ ~ Live(b)
  BY BootMaps
<1>4. \A b \in Actors : /\ Status(b)' = IF b = Main THEN "runnable" ELSE Status(b)
                        /\ Live(b)' <=> b = Main
  BY <1>2, <1>3, StatusPlacedNext DEF StatusExact, Place
<1>5. \A b \in Actors : Outstanding(b)' = Outstanding(b)
  BY <1>1 DEF ringVars, Outstanding
<1>6. { b \in Actors : Outstanding(b)' > 0 } = { b \in Actors : Outstanding(b) > 0 }
  BY <1>5
<1>7. [b \in Actors |-> Status(b)'] =
        [[b \in Actors |-> Status(b)] EXCEPT ![Main] = "runnable"]
  BY <1>4
<1>8. [b \in Actors |-> IF Live(b)' THEN mail'[b] ELSE 0] =
        [[b \in Actors |-> IF Live(b) THEN mail[b] ELSE 0] EXCEPT ![Main] = 0]
  BY <1>1, <1>3, <1>4
<1> QED  BY <1>1, <1>3, <1>6, <1>7, <1>8 DEF Lives!Spawn

(* A block's spawn.                                                         *)
LEMMA BlockSpawnMaps ==
    ASSUME RunInv, NEW c \in Actors, Spawn(c)
    PROVE  Lives!Spawn(c)
<1>1. /\ ~ Live(c) /\ AssignPid(c) /\ NewProcess(c)
      /\ mail' = [mail EXCEPT ![c] = 0]
      /\ UNCHANGED << waitVars, parkVars, ringVars >>
  BY DEF Spawn
<1>2. /\ Placed' /\ Runnable' = Runnable \cup {c} /\ Parked' = Parked
      /\ Waiting' = Waiting /\ Alive' = Alive \cup {c}
  BY <1>1, SpawnPlaced DEF RunInv
<1>3. /\ \A b \in Actors : Status(b) = Place(b)
      /\ \A b \in Actors : b # c => (Live(b)' <=> Live(b))
  BY <1>2, StatusPlaced, StatusPlacedNext DEF RunInv, StatusExact
<1>4. mail'[c] = 0 /\ \A b \in Actors : b # c => mail'[b] = mail[b]
  BY <1>1 DEF RunInv, MarksOK
<1>5. \A b \in Actors : Outstanding(b)' = Outstanding(b)
  BY <1>1, RingsUntouched DEF RunInv, Tags
<1> QED  BY <1>1, <1>2, <1>3, <1>4, <1>5, SpawnMaps

-----------------------------------------------------------------------------
(* Every step is one of ActorStates or none.                                *)
LEMMA StepMaps ==
    ASSUME SchedInv, [SchedNext]_schedVars, WakeFitsQueue'
    PROVE  [Lives!Next]_Lives!vars
<1>1. CASE UNCHANGED schedVars
  BY <1>1, NothingMaps
<1>2. CASE InitMain
  <2>1. SchedInit
    BY <1>2 DEF SchedInv, RunInv, ControlOK, InitMain
  <2>2. Main \in Actors /\ Lives!Spawn(Main)
    BY <1>2, <2>1, InitMainMaps, SchedulerAssumption
  <2> QED  BY <2>2 DEF Lives!Next
<1>3. CASE SchedNext /\ ~ InitMain
  <2>1. CASE UNCHANGED schedVars
    BY <2>1, NothingMaps
  <2>2. CASE ~ UNCHANGED schedVars
    <3>1. RunInv
      <4>1. ~ SchedInit
        BY <1>3, <2>2, BootStep
      <4> QED  BY <4>1 DEF SchedInv
    <3>2. CASE QuantumLoop \/ TailSelf
      BY <3>1, <3>2, CountdownMaps
    <3>3. CASE DeathCheck \/ Done
      <4>1. \E a \in Actors : Lives!Die(a)
        BY <3>1, <3>3, BuryMaps
      <4> QED  BY <4>1 DEF Lives!Next
    <3>4. CASE \E c \in Actors : Spawn(c)
      <4>1. \E a \in Actors : Lives!Spawn(a)
        BY <3>1, <3>4, BlockSpawnMaps
      <4> QED  BY <4>1 DEF Lives!Next
    <3>5. CASE \E p \in HeldPids, n \in {0, 1} :
                  Send(p, n) /\ LookupProcCtx(p) # NoActor
      <4>1. \E a \in Actors, n \in {0, 1} : Lives!Deliver(a, n)
        BY <3>1, <3>5, SendMaps
      <4> QED  BY <4>1 DEF Lives!Next
    <3>6. CASE Receive
      <4>1. \E a \in Actors : Lives!Take(a)
        BY <3>1, <3>6, ReceiveMaps
      <4> QED  BY <4>1 DEF Lives!Next
    <3>7. CASE Wait
      <4>1. \E a \in Actors : Lives!Block(a)
        BY <3>1, <3>7, WaitMaps
      <4> QED  BY <4>1 DEF Lives!Next
    <3>8. CASE SubmitAndPark \/ BarePark
      <4>1. \E a \in Actors : Lives!Park(a) \/ Lives!Sleep(a)
        BY <3>1, <3>8, ParkMaps
      <4> QED  BY <4>1 DEF Lives!Next
    <3>9. CASE PollOne /\ Head(cq) # NoActor
      <4>1. \E a \in Actors : Lives!Unpark(a)
        BY <3>1, <3>9, PollOneMaps
      <4> QED  BY <4>1 DEF Lives!Next
    <3>10. CASE \/ PollDone \/ Flush \/ Dispatch \/ WaitCqe \/ CqeArrived
                \/ LoopOnWaiters \/ Exit \/ Compute \/ WriteAsync \/ DieActor
                \/ \E t \in Tags : Complete(t)
                \/ \E p \in HeldPids, n \in {0, 1} :
                      Send(p, n) /\ LookupProcCtx(p) = NoActor
                \/ PollOne /\ Head(cq) = NoActor
      BY <3>1, <3>10, QuietStepsMap
    <3> QED
      BY <1>3, <2>2, <3>2, <3>3, <3>4, <3>5, <3>6, <3>7, <3>8, <3>9, <3>10
         DEF SchedNext, Thread, Block, Exited
  <2> QED  BY <2>1, <2>2
<1> QED  BY <1>1, <1>2, <1>3

(* The scheduler, its arrays, its rings and the kernel together implement   *)
(* ActorStates.                                                             *)
THEOREM SchedulerImplementsActorStates ==
    SchedSpec /\ []WakeFitsQueue => ImplementsActorStates
<1>1. SchedInit => Lives!Init
  BY BootMaps
<1>2. SchedInv /\ WakeFitsQueue' /\ [SchedNext]_schedVars => [Lives!Next]_Lives!vars
  BY StepMaps
<1> QED  BY <1>1, <1>2, SchedInvariant, PTL
         DEF SchedSpec, ImplementsActorStates, Lives!Spec
=============================================================================
