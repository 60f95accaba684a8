------------------------------ MODULE Scratch ------------------------------
(***************************************************************************)
(* rt_scratch_buf: eight cached buffers per actor, in SCRATCH_RING of its   *)
(* exec_ctx (src/src/compiler/rt/funcs/scratch.rs, layout/exec_ctx.rs).     *)
(*                                                                         *)
(* The exec_ctx comes from rt_allocate_raw, which recycles blocks as they   *)
(* are, and spawn does not reset the ring: it is whatever the block held    *)
(* before, the ring of a dead actor or, when blocks of that size serve      *)
(* other purposes too, any bytes.                                           *)
(***************************************************************************)
EXTENDS Integers, Sequences

CONSTANTS
    Owners,         \* names of actors, each spawned at most once
    Blocks,         \* blocks of the size of an exec_ctx
    BufSizes,       \* sizes asked for
    SCRATCH_SLOTS,
    MaxBufs,        \* bound: buffers ever allocated
    OtherWords,     \* what other data leaves in a block of this size
    NoCtx, Bytes    \* Bytes: a word of other data read as a pointer

ASSUME ScratchAssumption ==
    /\ SCRATCH_SLOTS \in Nat \ {0} /\ MaxBufs \in Nat
    /\ BufSizes \subseteq Nat \ {0} /\ OtherWords \subseteq {0, Bytes}
    /\ NoCtx \notin Blocks /\ Bytes \notin Nat

VARIABLES
    unborn,     \* actors not spawned yet
    ctx,        \* the exec_ctx block of each actor, NoCtx unless it lives
    free,       \* the free list of those blocks
    ring,       \* SCRATCH_RING of each block: slot -> [ptr, cap]
    bufs,       \* sizes of the buffers allocated; a buffer is its index
    holds       \* buffers each living actor was given, [buf, size, slot]

scratchVars == << unborn, ctx, free, ring, bufs, holds >>

Slots == 0 .. SCRATCH_SLOTS - 1
Empty == [ptr |-> 0, cap |-> 0]
Living == { a \in Owners : ctx[a] # NoCtx }
Fresh == Blocks \ ({ ctx[a] : a \in Living } \cup { free[i] : i \in DOMAIN free })

ScratchInit ==
    /\ unborn = Owners
    /\ ctx = [ a \in Owners |-> NoCtx ]
    /\ free = << >>
    /\ ring = [ b \in Blocks |-> [ s \in Slots |-> Empty ] ]
    /\ bufs = << >>
    /\ holds = [ a \in Owners |-> {} ]

\* rt_allocate_raw of an exec_ctx: the head of the free list, else a new block.
Spawn(a) ==
    /\ a \in unborn /\ unborn' = unborn \ {a}
    /\ \/ /\ free # << >>
          /\ ctx' = [ctx EXCEPT ![a] = Head(free)] /\ free' = Tail(free)
       \/ /\ free = << >>
          /\ \E b \in Fresh : ctx' = [ctx EXCEPT ![a] = b]
          /\ UNCHANGED free
    /\ UNCHANGED << ring, bufs, holds >>

\* free_process_resources frees the block; the buffers of the ring are abandoned.
FreeCtx(a) ==
    /\ a \in Living
    /\ free' = << ctx[a] >> \o free
    /\ ctx' = [ctx EXCEPT ![a] = NoCtx]
    /\ holds' = [holds EXCEPT ![a] = {}]
    /\ UNCHANGED << unborn, ring, bufs >>

(* self() takes a block of the size of its pointer arguments for the        *)
(* snapshot, fills it and frees it again.                                   *)
OtherUse ==
    /\ free # << >>
    /\ \E w \in OtherWords :
          ring' = [ring EXCEPT ![Head(free)] = [ t \in Slots |-> [ptr |-> w, cap |-> MaxBufs] ]]
    /\ UNCHANGED << unborn, ctx, free, bufs, holds >>

SlotOf(size) == size % SCRATCH_SLOTS
RingOf(a) == ctx[a]
ReusesAny(slot, size) == slot.ptr # 0                     \* broken: too small will do
Reuses(slot, size) == slot.ptr # 0 /\ slot.cap >= size

rt_scratch_buf(a, size) ==
    LET s    == SlotOf(size)
        slot == ring[RingOf(a)][s]
        new  == Len(bufs) + 1
        give(b) == holds' = [holds EXCEPT ![a] = @ \cup {[buf |-> b, size |-> size, slot |-> s]}]
    IN  /\ a \in Living
        /\ \/ /\ Reuses(slot, size)
              /\ give(slot.ptr)
              /\ UNCHANGED << ring, bufs >>
           \/ /\ ~Reuses(slot, size) /\ Len(bufs) < MaxBufs
              /\ bufs' = Append(bufs, size)
              /\ ring' = [ring EXCEPT ![RingOf(a)][s] = [ptr |-> new, cap |-> size]]
              /\ give(new)
        /\ UNCHANGED << unborn, ctx, free >>

ScratchNext ==
    \/ \E a \in Owners : Spawn(a)
    \/ \E a \in Owners : FreeCtx(a)
    \/ \E a \in Owners, size \in BufSizes : rt_scratch_buf(a, size)
    \/ OtherUse

ScratchSpec == ScratchInit /\ [][ScratchNext]_scratchVars

-----------------------------------------------------------------------------
(* A scratch buffer is as long as it was asked to be, also when it was made *)
(* for a smaller request, for another actor, or replaced in its slot.       *)
BufferHoldsRequest ==
    \A a \in Living : \A h \in holds[a] : h.buf \in DOMAIN bufs /\ bufs[h.buf] >= h.size

(* Living actors never share a scratch buffer, although dead ones leave     *)
(* their rings behind in blocks that are recycled.                          *)
BuffersPrivate ==
    \A a, b \in Living : \A h \in holds[a], k \in holds[b] :
        a # b => h.buf # k.buf

(* Both: a buffer is long enough and its actor's alone.                     *)
BuffersSound == BufferHoldsRequest /\ BuffersPrivate

-----------------------------------------------------------------------------
(* "every byte is overwritten before the callee reads it" (spawn_expr.rs:60,*)
(* of exec_ctx and the other blocks of a spawn): no word of an earlier use  *)
(* of the block is taken for a buffer.                                      *)
NothingReadStale == \A a \in Living : \A h \in holds[a] : h.buf # Bytes
=============================================================================
