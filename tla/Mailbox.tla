------------------------------ MODULE Mailbox ------------------------------
(***************************************************************************)
(* The mailbox of one actor: the ring buffer that compile_send             *)
(* (src/src/compiler/pipeline/expr/send_expr.rs) fills and the block       *)
(* compiled for a `wait' (src/src/compiler/pipeline/expr/wait_expr.rs)     *)
(* empties.                                                                *)
(*                                                                         *)
(* A message is a run of words without a frame; its first word is the      *)
(* sender's pid in the synchronous-call convention and the discriminant of *)
(* guarded handlers.  A wait takes as many words as its largest handler    *)
(* has bindings.  There is one thread, so a send and the whole of a wait   *)
(* block are one step each.                                                *)
(***************************************************************************)
EXTENDS Integers, Sequences, FiniteSets

CONSTANTS
    Firsts,     \* the first words of messages: pids and tags
    Rest,       \* the other words of messages
    NoWord,     \* what a word of the fresh ring holds
    Zero,       \* the placeholder discriminant 0, which is no first word here
    Ring,       \* the slots of the ring (256)
    Arity,      \* words per message in this instance
    MaxUnread,  \* bound on unread words (not in the code)
    Waits       \* the waits of the receiver's program: a set of
                \*   [filter   : SUBSET Firsts,
                \*    handlers : set of [guard : Firsts \cup {NoWord}, binds : Nat]]

ASSUME MailboxAssumption ==
    /\ Ring \in Nat \ {0} /\ Arity \in 1 .. Ring /\ MaxUnread \in Nat
    /\ NoWord \notin Firsts \cup Rest /\ Zero \notin Firsts \cup Rest

VARIABLES
    slots,      \* the ring
    head,       \* MAILBOX_HEAD
    tail,       \* MAILBOX_TAIL
    state,      \* "run", "wait" (about to run the wait block), "suspended"
    wait,       \* the wait the receiver is in, or last was in
    got         \* the words the last dispatched message bound

mailVars == << slots, head, tail, state, wait, got >>

Messages == { m \in [1 .. Arity -> Firsts \cup Rest] :
                /\ m[1] \in Firsts
                /\ \A i \in 2 .. Arity : m[i] \in Rest }

Unread == (tail - head) % Ring

MailInit ==
    /\ slots = [i \in 0 .. Ring - 1 |-> NoWord]
    /\ head = 0 /\ tail = 0
    /\ state = "run"
    /\ wait \in Waits
    /\ got = << >>

(* compile_send: store each word at tail + i, advance tail, wake the        *)
(* receiver.  Nothing asks whether the ring has room.                       *)
SendAdvancingOne(m) ==                          \* broken: tail moves one word
    /\ Unread + Arity <= MaxUnread
    /\ slots' = [i \in 0 .. Ring - 1 |->
          LET k == (i - tail) % Ring
          IN  IF k < Arity THEN m[k + 1] ELSE slots[i]]
    /\ tail' = (tail + 1) % Ring
    /\ state' = IF state = "suspended" THEN "wait" ELSE state
    /\ UNCHANGED << head, wait, got >>
Send(m) ==
    /\ Unread + Arity <= MaxUnread
    /\ slots' = [i \in 0 .. Ring - 1 |->
          LET k == (i - tail) % Ring
          IN  IF k < Arity THEN m[k + 1] ELSE slots[i]]
    /\ tail' = (tail + Arity) % Ring
    /\ state' = IF state = "suspended" THEN "wait" ELSE state
    /\ UNCHANGED << head, wait, got >>

-----------------------------------------------------------------------------
(* What is fixed when a wait is compiled.                                   *)
Guards(w) == { h.guard : h \in w.handlers } \ {NoWord}
HasWildcard(w) == \E h \in w.handlers : h.guard = NoWord
DequeueArgCount(w) ==
    CHOOSE n \in { h.binds : h \in w.handlers } :
        \A h \in w.handlers : h.binds <= n

(* The word at which dispatch looks is read only if some word is taken.     *)
Discriminant(w) == IF DequeueArgCount(w) > 0 THEN slots[head] ELSE Zero

(* The filter rejects, or no guard matches and there is no wildcard: either *)
(* way the words are gone and the wait starts over.                         *)
FilterMiss(w) == w.filter # {} /\ Discriminant(w) \notin w.filter
NoMatch(w) == /\ Guards(w) # {}
              /\ Discriminant(w) \notin Guards(w)
              /\ ~ HasWildcard(w)

Dequeue == head' = (head + DequeueArgCount(wait)) % Ring

StartWait(w) ==
    /\ state = "run"
    /\ state' = "wait"
    /\ wait' = w
    /\ UNCHANGED << slots, head, tail, got >>

Suspend ==
    /\ state = "wait"
    /\ head = tail
    /\ state' = "suspended"
    /\ UNCHANGED << slots, head, tail, wait, got >>

DispatchUnwrapped ==                            \* broken: reads past the ring's end
    /\ state = "wait"
    /\ head # tail
    /\ ~ FilterMiss(wait) /\ ~ NoMatch(wait)
    /\ Dequeue
    /\ got' = [i \in 1 .. DequeueArgCount(wait) |->
                 IF head + i - 1 < Ring THEN slots[head + i - 1] ELSE NoWord]
    /\ state' = "run"
    /\ UNCHANGED << slots, tail, wait >>
Dispatch ==
    /\ state = "wait"
    /\ head # tail
    /\ ~ FilterMiss(wait) /\ ~ NoMatch(wait)
    /\ Dequeue
    /\ got' = [i \in 1 .. DequeueArgCount(wait) |-> slots[(head + i - 1) % Ring]]
    /\ state' = "run"
    /\ UNCHANGED << slots, tail, wait >>

DropSuspending ==                               \* broken: sleeps after a miss
    /\ state = "wait"
    /\ head # tail
    /\ FilterMiss(wait) \/ NoMatch(wait)
    /\ Dequeue
    /\ state' = "suspended"
    /\ UNCHANGED << slots, tail, wait, got >>
Drop ==
    /\ state = "wait"
    /\ head # tail
    /\ FilterMiss(wait) \/ NoMatch(wait)
    /\ Dequeue
    /\ UNCHANGED << slots, tail, state, wait, got >>

Receiver ==
    \/ \E w \in Waits : StartWait(w)
    \/ Suspend
    \/ Dispatch
    \/ Drop

MailNext == Receiver \/ \E m \in Messages : Send(m)

MailSpec == MailInit /\ [][MailNext]_mailVars

-----------------------------------------------------------------------------
(* The shapes of the variables: what a wait binds was sent by somebody and   *)
(* the cursors stay inside the ring.                                        *)
MailboxTypeOK ==
    /\ slots \in [0 .. Ring - 1 -> Firsts \cup Rest \cup {NoWord}]
    /\ head \in 0 .. Ring - 1 /\ tail \in 0 .. Ring - 1
    /\ state \in {"run", "wait", "suspended"}
    /\ wait \in Waits
    /\ \A i \in DOMAIN got : got[i] \in Firsts \cup Rest

(* The ring read from head to tail, cut into messages.                      *)
QueuedMessage(j) ==
    [i \in 1 .. Arity |-> slots[(head + (j - 1) * Arity + i - 1) % Ring]]

(* The ring is a queue of whole messages: sends append to it, a wait takes  *)
(* or discards exactly the oldest, and nothing else happens to it.          *)
Queue == INSTANCE MessageQueue
           WITH queue    <- [j \in 1 .. Unread \div Arity |-> QueuedMessage(j)],
                received <- got
ImplementsQueue == Queue!Spec

(* The first message in the ring that the receiver's wait admits, 0 if none.*)
Admits(w, first) ==
    /\ w.filter = {} \/ first \in w.filter
    /\ Guards(w) = {} \/ HasWildcard(w) \/ first \in Guards(w)
AdmittedAt == { j \in 1 .. Unread \div Arity : Admits(wait, QueuedMessage(j)[1]) }
FirstAdmitted ==
    IF AdmittedAt = {} THEN 0
    ELSE CHOOSE j \in AdmittedAt : \A k \in AdmittedAt : j <= k

(* A wait that admits a queued message comes one message nearer to it with  *)
(* every turn it gets and takes it when it is the oldest, whatever lies     *)
(* before it in the ring (the reply to a synchronous call is found behind   *)
(* other messages).  Until then it does not go to sleep, and what is sent   *)
(* meanwhile does not push it back.  How often it gets a turn is up to the  *)
(* scheduler.                                                               *)
Nearer == FirstAdmitted > 1 /\ FirstAdmitted' = FirstAdmitted - 1 /\ state' = "wait"
Taken == FirstAdmitted = 1 /\ got' = QueuedMessage(1) /\ state' = "run"
NotPushedBack == FirstAdmitted' = FirstAdmitted /\ tail' # tail /\ UNCHANGED state
EveryTurnNearsTheAdmitted ==
    [][ state # "run" /\ FirstAdmitted # 0 => Nearer \/ Taken \/ NotPushedBack
      ]_mailVars
=============================================================================
