------------------------------ MODULE Buckets ------------------------------
(***************************************************************************)
(* The default allocator: power-of-two buckets over one mapping made at     *)
(* startup (src/src/compiler/rt/funcs/alloc.rs).  A block is a header       *)
(* {start, end} followed by a payload of the size of its bucket.  Free      *)
(* blocks form one list per bucket, linked through the first word of their  *)
(* payload, so allocator and actors write to the same memory: mem holds it  *)
(* word by word and the allocator reads its own headers and links from it.  *)
(***************************************************************************)
EXTENDS Integers, FiniteSets

CONSTANTS
    ClassSize,    \* payload bytes of each bucket, by index
    HeapBase,     \* heap_base, what rt_init_heap mapped
    HeapEnd,      \* heap_end
    MapAddrs,     \* where the kernel may place a huge mapping
    Page,         \* bytes of a page
    Sizes,        \* the requests explored
    Arenas        \* room an actor's arena may have left when its turn starts

Word == 8
FatPtr == 16
HugeHeader == 32
Data == 1         \* whatever a caller stores; no address and not zero
Null == 0

Buckets == DOMAIN ClassSize
Huge == Cardinality(Buckets)          \* the index of no bucket
AlignUp(n, a) == ((n + a - 1) \div a) * a

ASSUME BucketAssumption ==
    /\ IsFiniteSet(Buckets) /\ Buckets = 0 .. Huge - 1
    /\ \A c \in Buckets : ClassSize[c] \in Nat \ {0} /\ ClassSize[c] % FatPtr = 0
    /\ \A c, d \in Buckets : c < d => ClassSize[c] < ClassSize[d]
    /\ HeapBase \in Nat \ {0} /\ HeapEnd \in Nat
    /\ HeapBase % FatPtr = 0 /\ HeapBase <= HeapEnd
    /\ Page \in Nat \ {0} /\ Page % Word = 0
    /\ Sizes \subseteq Nat /\ Arenas \subseteq Nat
    /\ \A a \in MapAddrs : a \in Nat /\ a % Page = 0 /\ a >= HeapEnd
    /\ \A a, b \in MapAddrs, s \in Sizes :
           a < b => a + AlignUp(s + HugeHeader, Page) <= b

WordsFrom(a, n) == { w \in a .. a + n - 1 : w % Word = 0 }
Words == WordsFrom(HeapBase, HeapEnd - HeapBase)
             \cup UNION { {a, a + Word} : a \in MapAddrs }

VARIABLES
    heap_curr,          \* end of the part of the heap carved into blocks
    free_list_heads,    \* first free block of each bucket, Null if none
    mem,                \* every word of the heap and the headers of mappings
    maps,               \* the huge mappings, [at, len]
    held,               \* blocks handed out and not freed, [hdr, size]
    count,              \* history: how many blocks were, less those freed
    arena,              \* bytes left in the arena of the running actor
    actors,             \* REAL_COUNT > 0: an actor runs, not the start-up code
    dying,              \* IS_DYING of the running actor
    result              \* what the last call returned

vars == << heap_curr, free_list_heads, mem, maps, held, count, arena, actors,
           dying, result >>

\* The part of the state an allocation computes with, as one value.
heap == [curr |-> heap_curr, heads |-> free_list_heads, mem |-> mem,
         maps |-> maps, new |-> {}, fp |-> Null, end |-> "ok"]

Stored(m, ws, v) == [ w \in DOMAIN m |-> IF w \in ws THEN v ELSE m[w] ]
WithHeader(m, hdr, start, end) == [ m EXCEPT ![hdr] = start, ![hdr + Word] = end ]

\* log2_ceil(max(size, 16)) - 4: the first bucket that is large enough.
BucketOf(size) ==
    IF \A c \in Buckets : ClassSize[c] < size THEN Huge
    ELSE CHOOSE c \in Buckets :
             ClassSize[c] >= size /\ \A d \in 0 .. c - 1 : ClassSize[d] < size

(* pop_block.  rt_allocate zeroes what the caller asked for, rounded up to  *)
(* words; rt_allocate_raw only the word that linked the list.               *)
ZeroedRaw(start, size, zero) == {start}                  \* broken: raw always
Zeroed(start, size, zero) ==
    IF zero THEN WordsFrom(start, AlignUp(size, Word)) ELSE {start}

PopKeepsEnd(h, c, size, zero) ==                         \* broken: old end stays
    LET start == h.mem[h.heads[c]]
    IN  [h EXCEPT !.heads[c] = h.mem[start],
                  !.mem = Stored(@, Zeroed(start, size, zero), 0),
                  !.new = @ \cup {[hdr |-> h.heads[c], size |-> size]},
                  !.fp = h.heads[c]]
PopLeavesHead(h, c, size, zero) ==                       \* broken: list not advanced
    LET start == h.mem[h.heads[c]]
    IN  [h EXCEPT !.mem = Stored([@ EXCEPT ![h.heads[c] + Word] = start + size],
                                 Zeroed(start, size, zero), 0),
                  !.new = @ \cup {[hdr |-> h.heads[c], size |-> size]},
                  !.fp = h.heads[c]]
Pop(h, c, size, zero) ==
    LET start == h.mem[h.heads[c]]
    IN  [h EXCEPT !.heads[c] = h.mem[start],
                  !.mem = Stored([@ EXCEPT ![h.heads[c] + Word] = start + size],
                                 Zeroed(start, size, zero), 0),
                  !.new = @ \cup {[hdr |-> h.heads[c], size |-> size]},
                  !.fp = h.heads[c]]

\* bump_block: header, payload aligned to 16, the whole bucket carved.
BumpStart(h) == AlignUp(h.curr + FatPtr, FatPtr)
BumpEnd(h, c, size) == BumpStart(h) + ClassSize[c]
\* in_bounds: the whole bucket lies in the heap.
InBounds(h, c, size) == BumpEnd(h, c, size) <= HeapEnd
Bump(h, c, size) ==
    [h EXCEPT !.mem = WithHeader(@, h.curr, BumpStart(h), BumpStart(h) + size),
              !.new = @ \cup {[hdr |-> h.curr, size |-> size]},
              !.curr = BumpEnd(h, c, size),
              !.fp = h.curr]

\* huge_block: a mapping of its own; the kernel's answer is not looked at.
MapAt(h, size, at) ==
    LET len == AlignUp(size + HugeHeader, Page)
    IN  IF at = Null THEN [h EXCEPT !.end = "fault"]
        ELSE [h EXCEPT !.mem = WithHeader(@, at, at + HugeHeader, at + len),
                       !.maps = @ \cup {[at |-> at, len |-> len]},
                       !.new = @ \cup {[hdr |-> at, size |-> size]},
                       !.fp = at]

(* What both entry points share: a free block, a new one, a mapping, or     *)
(* nothing ("full").  at is where the kernel would map, Null if it refuses. *)
Take(h, size, zero, at) ==
    LET c == BucketOf(size)
    IN  CASE c = Huge -> MapAt(h, size, at)
          [] c # Huge /\ h.heads[c] # Null -> Pop(h, c, size, zero)
          [] c # Huge /\ h.heads[c] = Null /\ InBounds(h, c, size)
                -> Bump(h, c, size)
          [] OTHER -> [h EXCEPT !.end = "full"]

(* rt_allocate_raw out of memory: the program exits before there are        *)
(* actors, later the running actor is marked and the caller gets null.      *)
Raw(h, size, at) ==
    LET t == Take(h, size, FALSE, at)
    IN  IF t.end # "full" THEN t
        ELSE [t EXCEPT !.fp = Null, !.end = IF actors THEN "dying" ELSE "exit"]

\* A tuple of two words written through the pointer rt_allocate_raw returned.
RawTuple(h) ==
    LET t == Raw(h, 16, Null)
    IN  IF t.end = "dying" THEN [t EXCEPT !.end = "fault"]
        ELSE IF t.end # "ok" THEN t
        ELSE [t EXCEPT !.mem = Stored(@, WordsFrom(t.mem[t.fp], 16), Data)]

\* rt_arena_alloc(16) takes 32 bytes of the arena, or a block when it is full.
TupleBytes == 32
(* rt_allocate: {:ok buf}, the tuple in the arena; or {:err :nomem}, the    *)
(* tuple from rt_allocate_raw.                                              *)
Tuple(h, size, at) ==
    LET t == Take(h, size, TRUE, at)
    IN  CASE t.end = "full" -> RawTuple([h EXCEPT !.end = "ok"])
          [] t.end = "ok" /\ arena < TupleBytes -> [RawTuple(t) EXCEPT !.fp = t.fp]
          [] OTHER -> t

-----------------------------------------------------------------------------
NoResult == [call |-> "none", size |-> 0, fp |-> Null, end |-> "ok"]

Init ==
    /\ heap_curr = HeapBase
    /\ free_list_heads = [ c \in Buckets |-> Null ]
    /\ mem = [ w \in Words |-> 0 ]
    /\ maps = {}
    /\ held = {} /\ count = 0
    /\ arena \in Arenas
    /\ actors = FALSE
    /\ dying = FALSE
    /\ result = NoResult

Running == result.end \notin {"exit", "fault"}

\* The state after a call whose computation ended in t.
Becomes(t, call, size) ==
    /\ heap_curr' = t.curr /\ free_list_heads' = t.heads
    /\ mem' = t.mem /\ maps' = t.maps
    /\ held' = held \cup t.new /\ count' = count + Cardinality(t.new)
    /\ dying' = (dying \/ t.end = "dying")
    /\ result' = [call |-> call, size |-> size, fp |-> t.fp, end |-> t.end]
    /\ UNCHANGED actors

\* An address the kernel may return for a mapping, or its refusal.
MapChoices == {Null} \cup { a \in MapAddrs : \A m \in maps : m.at # a }

rt_allocate_raw(size) ==
    /\ Running /\ ~dying
    /\ \E at \in MapChoices : Becomes(Raw(heap, size, at), "raw", size)
    /\ UNCHANGED arena

rt_allocate(size) ==
    /\ Running /\ ~dying /\ actors
    /\ \E at \in MapChoices :
          LET t    == Tuple(heap, size, at)
              full == Take(heap, size, TRUE, at).end = "full"
          IN  /\ Becomes(t, IF full THEN "nomem" ELSE "user", size)
              /\ arena' = IF ~full /\ arena >= TupleBytes
                          THEN arena - TupleBytes ELSE arena

(* rt_free reads start and end from the header.  A bucket block is linked   *)
(* at the head of its list, then the whole pages after the link are given   *)
(* back; they read as zero from then on.                                    *)
AdvisedUp(start, c) ==                                    \* broken: last page too
    LET from == AlignUp(start + Word, Page)
    IN  IF ClassSize[c] >= 2 * Page
        THEN WordsFrom(from, AlignUp(start + ClassSize[c] - from, Page)) ELSE {}
Advised(start, c) ==
    LET from == AlignUp(start + Word, Page)
        len  == ((start + ClassSize[c] - from) \div Page) * Page
    IN  IF ClassSize[c] >= 2 * Page /\ len >= Page THEN WordsFrom(from, len) ELSE {}

rt_free(b) ==
    LET start == mem[b.hdr]
        end   == mem[b.hdr + Word]
        c     == BucketOf(end - start)
    IN  /\ Running /\ b \in held
        /\ IF c = Huge
           THEN /\ maps' = { m \in maps : m.at # b.hdr \/ m.len # end - b.hdr }
                /\ mem' = Stored(mem, {b.hdr, b.hdr + Word}, 0)
                /\ UNCHANGED free_list_heads
           ELSE /\ mem' = Stored([mem EXCEPT ![start] = free_list_heads[c]],
                                 Advised(start, c), 0)
                /\ free_list_heads' = [free_list_heads EXCEPT ![c] = b.hdr]
                /\ UNCHANGED maps
        /\ held' = held \ {b} /\ count' = count - 1
        /\ result' = NoResult
        /\ UNCHANGED << heap_curr, arena, actors, dying >>

\* The holder of a block stores into every word it asked for (external).
Payload(b) == WordsFrom(mem[b.hdr], b.size)
Fill(b) ==
    /\ Running /\ b \in held /\ Payload(b) \subseteq Words
    /\ mem' = Stored(mem, Payload(b), Data)
    /\ result' = NoResult
    /\ UNCHANGED << heap_curr, free_list_heads, maps, held, count, arena, actors,
                    dying >>

(* The scheduler gives the thread to another actor, whose arena has its own *)
(* room; the first such turn ends the start-up code.                        *)
NextTurn ==
    /\ Running
    /\ actors' = TRUE /\ dying' = FALSE
    /\ arena' \in Arenas
    /\ result' = NoResult
    /\ UNCHANGED << heap_curr, free_list_heads, mem, maps, held, count >>

Next ==
    \/ \E size \in Sizes : rt_allocate_raw(size)
    \/ \E size \in Sizes : rt_allocate(size)
    \/ \E b \in held : rt_free(b)
    \/ \E b \in held : Fill(b)
    \/ NextTurn

Spec == Init /\ [][Next]_vars

-----------------------------------------------------------------------------
\* The free blocks of a bucket in list order, Null once the list ended; a
\* list cannot have more entries than the heap has headers.
MaxBlocks == (HeapEnd - HeapBase) \div FatPtr
Listed(c) ==
    LET at[i \in 0 .. MaxBlocks] ==
            IF i = 0 THEN free_list_heads[c]
            ELSE LET prev == at[i - 1]
                 IN  IF prev = Null THEN Null ELSE mem[mem[prev]]
    IN  at

FreeBlocks(c) == { Listed(c)[i] : i \in 0 .. MaxBlocks } \ {Null}
Extent(hdr, c) == [at |-> hdr, len |-> FatPtr + ClassSize[c]]
Carved == (UNION { { Extent(f, c) : f \in FreeBlocks(c) } : c \in Buckets })
              \cup { Extent(b.hdr, BucketOf(b.size)) :
                         b \in { x \in held : BucketOf(x.size) # Huge } }

BucketsTypeOK ==
    /\ heap_curr \in HeapBase .. HeapEnd
    /\ DOMAIN free_list_heads = Buckets
    /\ DOMAIN mem = Words
    /\ \A b \in held : b.size \in Sizes \cup {16} /\ {b.hdr, b.hdr + Word} \subseteq Words
    /\ arena \in Nat /\ dying \in BOOLEAN /\ actors \in BOOLEAN
    /\ result.end \in {"ok", "dying", "exit", "fault"}

(* No byte is lost and none has two owners: the free lists end, no block is *)
(* in two of them or held and free, and together the blocks fill the part   *)
(* of the heap that has been carved.  A held block's header says the size   *)
(* that was asked for, whoever had the block before (bug 122), from which   *)
(* rt_free finds its list again.                                            *)
HeapIsPartitioned ==
    /\ \A c \in Buckets : Listed(c)[MaxBlocks] = Null
    /\ \A c \in Buckets, d \in Buckets : c # d => FreeBlocks(c) \cap FreeBlocks(d) = {}
    /\ \A e \in Carved, f \in Carved :
           e # f => e.at + e.len <= f.at \/ f.at + f.len <= e.at
    /\ \A w \in WordsFrom(HeapBase, heap_curr - HeapBase) :
           \E e \in Carved : e.at <= w /\ w < e.at + e.len
    /\ \A b \in held : BucketOf(b.size) # Huge =>
           mem[b.hdr] = b.hdr + FatPtr /\ mem[b.hdr + Word] = mem[b.hdr] + b.size

(* A caller of rt_allocate sees zeroes, whoever had the block before and    *)
(* whatever he left in it; fresh memory is zero because nobody wrote there. *)
UserBlockReadsZero ==
    result.call = "user" /\ result.end = "ok" /\ BucketOf(result.size) # Huge =>
        \A w \in WordsFrom(mem[result.fp], result.size) : mem[w] = 0

(* A call of the allocator changes no byte of a block that stays held, its  *)
(* header included: not through a link, a zeroing loop, madvise or munmap.  *)
HeldBlocksUntouched ==
    [][ \A b \in held \cap held' :
            (~ \E x \in held : Fill(x)) =>
                \A w \in {b.hdr, b.hdr + Word} \cup (Payload(b) \cap Words) :
                    mem'[w] = mem[w] ]_vars

\* The allocator implements what Heap promises.
Extents == INSTANCE Heap WITH
    held <- { [at |-> b.hdr, len |-> FatPtr + b.size] : b \in held }
BucketsImplementHeap == Extents!Spec

(* The books of the bucket heap: every field in its range, and the heap     *)
(* divided among free lists and holders without gap or overlap.             *)
BucketsExact == BucketsTypeOK /\ HeapIsPartitioned
=============================================================================
