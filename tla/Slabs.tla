------------------------------- MODULE Slabs -------------------------------
(***************************************************************************)
(* The allocator of LAKE_SLAB_ALLOC=1: each class of sizes has a list of    *)
(* slabs, each slab a header (class, number of free chunks, links, bitmap)  *)
(* and chunks of one size (src/src/compiler/rt/funcs/alloc.rs,              *)
(* src/src/compiler/rt/layout/slab.rs).  Number of free chunks and bitmap   *)
(* say the same thing twice; the class remembers the slab it last used.     *)
(***************************************************************************)
EXTENDS Integers, FiniteSets

CONSTANTS
    SlabAddrs,    \* the aligned addresses at which slabs may be mapped
    ChunksOf,     \* chunks per slab of each class (slab_chunks_per_class)
    WordBits,     \* bits of a bitmap word, 64 in the code
    TupleClass,   \* the class of a 16-byte tuple with its header
    Span,         \* no slab has more chunks; the distance of slabs seen as blocks
    NoAddr

Classes == DOMAIN ChunksOf
NumWords(c) == (ChunksOf[c] + WordBits - 1) \div WordBits

ASSUME SlabAssumption ==
    /\ SlabAddrs \subseteq Nat \ {0} /\ IsFiniteSet(SlabAddrs)
    /\ NoAddr \notin Nat \cup Classes
    /\ Span \in Nat /\ \A c \in Classes : ChunksOf[c] \in 1 .. Span
    /\ WordBits \in Nat \ {0} /\ TupleClass \in Classes

VARIABLES
    slabs,          \* the header of each address, Unmapped if no slab is there
    slabs_head,     \* first slab of each class
    current_slab,   \* slab each class allocated from last
    chunks,         \* chunks handed out, [slab, chunk, class]
    chunk_count,    \* history: how many chunks were, less those freed
    slab_dying,     \* IS_DYING of the running actor
    slab_result,    \* what the last call returned
    peak            \* history: most chunks of each class held at once

slabVars == << slabs, slabs_head, current_slab, chunks, chunk_count, slab_dying,
               slab_result, peak >>

Unmapped == [class |-> NoAddr, free_count |-> 0, next |-> NoAddr, prev |-> NoAddr,
             bits |-> << >>]
Mapped == { s \in SlabAddrs : slabs[s] # Unmapped }

\* The part of the state an allocation computes with.
classState == [slabs |-> slabs, head |-> slabs_head, current |-> current_slab,
               got |-> {}, end |-> "ok"]

Least(S) == CHOOSE x \in S : \A y \in S : x <= y

(* emit_try_alloc_from_slab: the first set bit is cleared.  Fails when the  *)
(* count is zero, or when no word has a bit.                                *)
SetWords(slab) == { w \in DOMAIN slab.bits : slab.bits[w] # {} }
CanTake(slab) == slab.free_count # 0 /\ SetWords(slab) # {}
TakeChunkKeepsBit(h, s) ==                     \* broken: bit not cleared
    LET w == Least(SetWords(h.slabs[s]))
        b == Least(h.slabs[s].bits[w])
    IN  [h EXCEPT !.slabs[s].free_count = @ - 1,
                  !.got = {[slab |-> s, chunk |-> w * WordBits + b,
                            class |-> h.slabs[s].class]}]
TakeChunk(h, s) ==
    LET w == Least(SetWords(h.slabs[s]))
        b == Least(h.slabs[s].bits[w])
    IN  [h EXCEPT !.slabs[s].bits[w] = @ \ {b},
                  !.slabs[s].free_count = @ - 1,
                  !.got = {[slab |-> s, chunk |-> w * WordBits + b,
                            class |-> h.slabs[s].class]}]

\* The bitmap of a new slab: all chunks free, no bit beyond the last chunk.
FullBitmap(c) ==
    [ w \in 0 .. NumWords(c) - 1 |->
          { b \in 0 .. WordBits - 1 : w * WordBits + b < ChunksOf[c] } ]

(* emit_create_new_slab and new_slab_block: the slab becomes head of its    *)
(* class's list and its current slab.                                       *)
LinkNewNoPrev(h, c, s) ==                      \* broken: old head's prev stays
    [h EXCEPT !.slabs = [@ EXCEPT ![s] =
                            [class |-> c, free_count |-> ChunksOf[c],
                             next |-> h.head[c], prev |-> NoAddr,
                             bits |-> FullBitmap(c)]],
              !.head[c] = s,
              !.current[c] = s]
LinkNew(h, c, s) ==
    LET old == h.head[c]
        mapped == [h.slabs EXCEPT ![s] =
                      [class |-> c, free_count |-> ChunksOf[c], next |-> old,
                       prev |-> NoAddr, bits |-> FullBitmap(c)]]
    IN  [h EXCEPT !.slabs = IF old = NoAddr THEN mapped
                            ELSE [mapped EXCEPT ![old].prev = s],
                  !.head[c] = s,
                  !.current[c] = s]

\* The slabs of a class in list order, then Null.
Order(h, c) ==
    LET at[i \in 0 .. Cardinality(SlabAddrs)] ==
            IF i = 0 THEN h.head[c]
            ELSE LET prev == at[i - 1]
                 IN  IF prev = NoAddr THEN NoAddr ELSE h.slabs[prev].next
    IN  at
\* walk_hdr: the first slab of the list whose count is not zero.
WithFree(h, c) == { i \in DOMAIN Order(h, c) :
                        LET s == Order(h, c)[i]
                        IN  s # NoAddr /\ h.slabs[s].free_count # 0 }

(* rt_allocate_slab: the current slab, else the first of the list with room,*)
(* else a new one.  at is the address of the new slab, Null when mmap       *)
(* returns -1 and Fault when it returns another error, which passes for an  *)
(* address.                                                                 *)
Fault == 0
Walk(h, c) == WithFree(h, c)
rt_allocate_slab(h, c, at) ==
    LET cur == h.current[c]
    IN  IF cur # NoAddr /\ CanTake(h.slabs[cur]) THEN TakeChunk(h, cur)
        ELSE IF Walk(h, c) # {}
             THEN LET s == Order(h, c)[Least(Walk(h, c))]
                  IN  TakeChunk([h EXCEPT !.current[c] = s], s)
        ELSE CASE at = NoAddr  -> [h EXCEPT !.end = "dying"]
               [] at = Fault -> [h EXCEPT !.end = "fault"]
               [] OTHER      -> TakeChunk(LinkNew(h, c, at), at)

(* rt_allocate: out of memory it takes a chunk for the tuple {:err :nomem}  *)
(* and writes it, whatever it got.                                          *)
WithTuple(h, at) ==
    LET t == rt_allocate_slab([h EXCEPT !.end = "ok"], TupleClass, at)
    IN  IF t.end = "ok" THEN [t EXCEPT !.end = "dying"] ELSE [t EXCEPT !.end = "fault"]
SlabTuple(h, c, at) ==
    LET t == rt_allocate_slab(h, c, at)
    IN  IF t.end = "dying" THEN WithTuple(h, at) ELSE t

-----------------------------------------------------------------------------
NoChunk == [call |-> "none", got |-> {}, end |-> "ok"]

SlabInit ==
    /\ slabs = [ s \in SlabAddrs |-> Unmapped ]
    /\ slabs_head = [ c \in Classes |-> NoAddr ]
    /\ current_slab = [ c \in Classes |-> NoAddr ]
    /\ chunks = {} /\ chunk_count = 0
    /\ slab_dying = FALSE
    /\ slab_result = NoChunk
    /\ peak = [ c \in Classes |-> 0 ]

HeldOf(H, c) == { x \in H : x.class = c }

SlabBecomes(t, call) ==
    /\ slabs' = t.slabs /\ slabs_head' = t.head /\ current_slab' = t.current
    /\ chunks' = chunks \cup t.got
    /\ chunk_count' = chunk_count + Cardinality(t.got)
    /\ slab_dying' = (slab_dying \/ t.end = "dying")
    /\ slab_result' = [call |-> call, got |-> t.got, end |-> t.end]
    /\ peak' = [ c \in Classes |-> LET n == Cardinality(HeldOf(chunks', c))
                                   IN  IF n > peak[c] THEN n ELSE peak[c] ]

SlabRunning == slab_result.end # "fault" /\ ~slab_dying
SlabPlaces == (SlabAddrs \ Mapped) \cup {NoAddr, Fault}

AllocateUser(c) ==
    /\ SlabRunning
    /\ \E at \in SlabPlaces : SlabBecomes(SlabTuple(classState, c, at), "user")

AllocateRaw(c) ==
    /\ SlabRunning
    /\ \E at \in SlabPlaces : SlabBecomes(rt_allocate_slab(classState, c, at), "raw")

(* rt_free_slab: the slab is the one whose address the chunk's begins with. *)
(* An emptied slab stays in its list (is_empty is the constant 0).          *)
rt_free_slab(x) ==
    LET w == x.chunk \div WordBits
        b == x.chunk % WordBits
    IN  /\ slab_result.end # "fault" /\ x \in chunks
        /\ slabs' = [slabs EXCEPT ![x.slab].bits[w] = @ \cup {b},
                                  ![x.slab].free_count = @ + 1]
        /\ chunks' = chunks \ {x} /\ chunk_count' = chunk_count - 1
        /\ slab_result' = NoChunk
        /\ UNCHANGED << slabs_head, current_slab, slab_dying, peak >>

\* The dying actor is gone and another one runs.
SlabTurn ==
    /\ slab_result.end # "fault" /\ slab_dying
    /\ slab_dying' = FALSE /\ slab_result' = NoChunk
    /\ UNCHANGED << slabs, slabs_head, current_slab, chunks, chunk_count, peak >>

SlabNext ==
    \/ \E c \in Classes : AllocateUser(c)
    \/ \E c \in Classes : AllocateRaw(c)
    \/ \E x \in chunks : rt_free_slab(x)
    \/ SlabTurn

SlabSpec == SlabInit /\ [][SlabNext]_slabVars

-----------------------------------------------------------------------------
SlabsTypeOK ==
    /\ \A s \in Mapped : /\ slabs[s].class \in Classes
                         /\ slabs[s].free_count \in 0 .. ChunksOf[slabs[s].class]
                         /\ slabs[s].next \in SlabAddrs \cup {NoAddr}
                         /\ slabs[s].prev \in SlabAddrs \cup {NoAddr}
    /\ \A c \in Classes : {slabs_head[c], current_slab[c]} \subseteq Mapped \cup {NoAddr}
    /\ \A x \in chunks : x.slab \in Mapped /\ x.chunk \in 0 .. ChunksOf[x.class] - 1
    /\ slab_dying \in BOOLEAN
    /\ slab_result.end \in {"ok", "dying", "fault"}

(* Bitmap, count and what is handed out agree in every slab: a chunk's bit  *)
(* is set exactly while nobody holds it, and free_count counts the bits.    *)
BitmapsExact ==
    \A s \in Mapped :
        LET c    == slabs[s].class
            free == { i \in 0 .. NumWords(c) * WordBits - 1 :
                          i % WordBits \in slabs[s].bits[i \div WordBits] }
        IN  /\ free = { i \in 0 .. ChunksOf[c] - 1 :
                            \A x \in chunks : x.slab # s \/ x.chunk # i }
            /\ slabs[s].free_count = Cardinality(free)

(* The list of a class is doubly linked, ends, and has every slab of the    *)
(* class once; the slab used last is one of them.                           *)
ListsLinked ==
    \A c \in Classes :
        LET at == Order(classState, c)
            members == { at[i] : i \in DOMAIN at } \ {NoAddr}
        IN  /\ members = { s \in Mapped : slabs[s].class = c }
            /\ at[Cardinality(SlabAddrs)] = NoAddr
            /\ \A i \in DOMAIN at : at[i] # NoAddr =>
                   slabs[at[i]].prev = IF i = 0 THEN NoAddr ELSE at[i - 1]
            /\ current_slab[c] \in members \cup {NoAddr}

(* "RSS is bounded by peak working set" (the comment in rt_free_slab): a    *)
(* class has no more slabs than the chunks it once held at the same time    *)
(* need, however allocations and frees were mixed since.                    *)
PeakBoundsSlabs ==
    \A c \in Classes :
        Cardinality({ s \in Mapped : slabs[s].class = c })
            <= (peak[c] + ChunksOf[c] - 1) \div ChunksOf[c]

(* The slabs implement what Heap promises: no chunk is given out twice.     *)
ChunkAt(x) == [at |-> x.slab * Span + x.chunk, len |-> 1]
ChunkHeap == INSTANCE Heap WITH
    held <- { ChunkAt(x) : x \in chunks }, count <- chunk_count
SlabsImplementHeap == ChunkHeap!Spec

(* The books of the slabs: bitmap, counter, links and what is handed out    *)
(* agree, and the slabs of a class never outnumber what its peak needs.     *)
SlabsExact == SlabsTypeOK /\ BitmapsExact /\ ListsLinked /\ PeakBoundsSlabs
=============================================================================
