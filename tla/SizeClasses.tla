---------------------------- MODULE SizeClasses ----------------------------
(***************************************************************************)
(* The arithmetic of the allocator: which size class serves a request,     *)
(* which class rt_free finds again from a header, where the chunks of a    *)
(* slab lie, and which pages of a freed block go back to the kernel        *)
(* (src/src/compiler/rt/funcs/alloc.rs, src/src/compiler/rt/layout/slab.rs).*)
(*                                                                         *)
(* rt_free is given nothing but the address of a header {start, end}.  It  *)
(* recomputes what rt_allocate computed, in one of two builds: buckets     *)
(* (the default) and slabs (LAKE_SLAB_ALLOC=1).  The numbers here are the  *)
(* real ones; the machine below allocates one block and frees it.          *)
(***************************************************************************)
EXTENDS Integers

CONSTANTS
    RequestSizes,   \* the requests explored (user_size)
    Bases,          \* the addresses explored for a header or a mapping
    SlabNumbers,    \* the slabs explored, by their distance from 0 in slabs
    Chunks,         \* the chunks explored of each slab, besides the last
    NoBlock

CHUNK_ALIGN == 16
NUM_CLASSES == 21
MaxClass == NUM_CLASSES - 1
DEFAULT_SLAB_SIZE == 65536
HDR_FIXED_BYTES == 32
PageSize == 4096
FatPtrSize == 16
HugeOffset == 32                     \* header and padding before a huge payload

CeilDiv(n, d) == (n + d - 1) \div d
RoundUp(n, a) == CeilDiv(n, a) * a
AtLeast(n, low) == IF n < low THEN low ELSE n

ASSUME SizeAssumption ==
    /\ RequestSizes \subseteq Nat
    /\ \A b \in Bases : b \in Nat /\ b % CHUNK_ALIGN = 0
    /\ SlabNumbers \subseteq Nat

-----------------------------------------------------------------------------
(* 64 - clz(n - 1), the exponent of the power of two at or above n.         *)
Log2Ceil(n) == CHOOSE k \in 0 .. 63 :
                   /\ n <= 2 ^ k
                   /\ k = 0 \/ n > 2 ^ (k - 1)
Log2Floor(n) == CHOOSE k \in 0 .. 63 : 2 ^ k <= n /\ n < 2 ^ (k + 1)

\* The bucket of a size; beyond MaxClass it is a mapping of its own.
BucketIdx(size) == Log2Ceil(AtLeast(size, 16)) - 4

\* A slab chunk holds the header as well as the payload.
SlabClass(size) == BucketIdx(size + FatPtrSize)

class_size(c) == 2 ^ (c + 4)

slab_size_for_class(c) == AtLeast(2 * class_size(c), DEFAULT_SLAB_SIZE)

(* Chunks per slab: the bitmap shrinks the room for chunks and fewer chunks *)
(* shrink the bitmap.  The loop of the code is the function round: it stops *)
(* when a round leaves the number unchanged, at the latest after eight.     *)
PayloadStart(chunks) ==
    RoundUp(HDR_FIXED_BYTES + CeilDiv(chunks, 8), CHUNK_ALIGN)
ChunksAfter(c, chunks) ==
    (slab_size_for_class(c) - PayloadStart(chunks)) \div class_size(c)

\* broken: the room the bitmap takes is not subtracted
chunks_per_slab_no_bitmap(c) ==
    (slab_size_for_class(c) - HDR_FIXED_BYTES) \div class_size(c)
FirstChunks(c) == (slab_size_for_class(c) - HDR_FIXED_BYTES) \div class_size(c)
NextChunks(c, chunks) ==
    IF chunks = 0 \/ PayloadStart(chunks) >= slab_size_for_class(c)
    THEN 0 ELSE ChunksAfter(c, chunks)
rounds(c) ==
    LET round[i \in 0 .. 8] ==
            IF i = 0 THEN FirstChunks(c) ELSE NextChunks(c, round[i - 1])
    IN  round
chunks_per_slab(c) ==
    IF slab_size_for_class(c) <= HDR_FIXED_BYTES + class_size(c) THEN 0 ELSE rounds(c)[8]

payload_offset(c) ==
    IF chunks_per_slab(c) = 0 THEN 0 ELSE PayloadStart(chunks_per_slab(c))

\* The bitmap is read and written in words of 64 chunks.
num_words(c) == CeilDiv(chunks_per_slab(c), 64)

(* A huge block is mapped by itself, payload 32 bytes in, rounded to pages. *)
MmapSize(size) == RoundUp(size + HugeOffset, PageSize)

(* The pages of a freed bucket block that madvise gives back: from the next *)
(* page after the chain word to the last whole page of the block.           *)
AdviseAddr(start) == RoundUp(start + 8, PageSize)
AdviseLen(start, c) ==
    ((start + class_size(c) - AdviseAddr(start)) \div PageSize) * PageSize
PagesAdvised(start, c) ==
    IF class_size(c) >= 2 * PageSize /\ AdviseLen(start, c) >= PageSize
    THEN [addr |-> AdviseAddr(start), len |-> AdviseLen(start, c)]
    ELSE [addr |-> start, len |-> 0]

-----------------------------------------------------------------------------
VARIABLES
    block,      \* the block held, or NoBlock
    freed       \* what rt_free made of the last block, or NoBlock

sizeVars == << block, freed >>

(* The header rt_allocate leaves, with what only the allocator knows of the *)
(* block: the route it came by, its class, the bytes it owns.  In bucket    *)
(* mode the header precedes a payload of the size of the bucket.            *)
BucketBlock(size, base) ==
    LET c == BucketIdx(size)
    IN  IF c <= MaxClass
        THEN [mode |-> "bucket", route |-> "class", class |-> c, hdr |-> base,
              start |-> base + FatPtrSize, end |-> base + FatPtrSize + size,
              owned |-> FatPtrSize + class_size(c), slab |-> 0, chunk |-> 0]
        ELSE [mode |-> "bucket", route |-> "huge", class |-> c, hdr |-> base,
              start |-> base + HugeOffset, end |-> base + MmapSize(size),
              owned |-> MmapSize(size), slab |-> 0, chunk |-> 0]

\* In slab mode header and payload share a chunk.
ChunkAddr(slab, c, i) == slab + payload_offset(c) + i * class_size(c)
SlabBlock(size, slab, i) ==
    LET c   == SlabClass(size)
        hdr == IF c <= MaxClass THEN ChunkAddr(slab, c, i) ELSE slab
    IN  IF c <= MaxClass
        THEN [mode |-> "slab", route |-> "class", class |-> c, hdr |-> hdr,
              start |-> hdr + FatPtrSize, end |-> hdr + FatPtrSize + size,
              owned |-> class_size(c), slab |-> slab, chunk |-> i]
        ELSE [mode |-> "slab", route |-> "huge", class |-> c, hdr |-> hdr,
              start |-> hdr + HugeOffset, end |-> hdr + MmapSize(size),
              owned |-> MmapSize(size), slab |-> slab, chunk |-> 0]

SomeChunks(c) == IF c > MaxClass THEN {0}
                 ELSE (Chunks \cup {chunks_per_slab(c) - 1}) \cap 0 .. chunks_per_slab(c) - 1

SizeInit == block = NoBlock /\ freed = NoBlock

AllocateBucket(size) ==
    /\ block = NoBlock
    /\ \E base \in Bases :
          /\ BucketIdx(size) > MaxClass => base % PageSize = 0
          /\ block' = BucketBlock(size, base)
    /\ freed' = NoBlock

AllocateSlab(size) ==
    /\ block = NoBlock
    /\ \E n \in SlabNumbers, i \in SomeChunks(SlabClass(size)) :
          block' = SlabBlock(size,
                       n * slab_size_for_class(IF SlabClass(size) > MaxClass
                                               THEN 0 ELSE SlabClass(size)), i)
    /\ freed' = NoBlock

(* rt_free, from the header alone.  In slab mode a chunk's slab is found by *)
(* clearing the low 16 bits of its address, whatever the class.             *)
FreeBucket ==
    /\ block # NoBlock /\ block.mode = "bucket"
    /\ LET size == block.end - block.start
           c    == BucketIdx(size)
       IN  freed' = IF c <= MaxClass
                    THEN [of |-> block, route |-> "class", class |-> c,
                          slab |-> 0, chunk |-> 0,
                          gone |-> PagesAdvised(block.start, c)]
                    ELSE [of |-> block, route |-> "huge", class |-> c,
                          slab |-> 0, chunk |-> 0,
                          gone |-> [addr |-> block.hdr, len |-> block.end - block.hdr]]
    /\ block' = NoBlock

SlabOf(addr) == (addr \div DEFAULT_SLAB_SIZE) * DEFAULT_SLAB_SIZE
ChunkIdxFromSlab(addr, c) == (addr - SlabOf(addr)) \div class_size(c)  \* broken
ChunkIdx(addr, c) ==
    (addr - (SlabOf(addr) + payload_offset(c))) \div class_size(c)

FreeSlab ==
    /\ block # NoBlock /\ block.mode = "slab"
    /\ LET c == SlabClass(block.end - block.start)
       IN  freed' = IF c <= MaxClass
                    THEN [of |-> block, route |-> "class", class |-> block.class,
                          slab |-> SlabOf(block.hdr),
                          chunk |-> ChunkIdx(block.hdr, block.class),
                          gone |-> [addr |-> block.start, len |-> 0]]
                    ELSE [of |-> block, route |-> "huge", class |-> c,
                          slab |-> block.slab, chunk |-> 0,
                          gone |-> [addr |-> block.hdr, len |-> block.end - block.hdr]]
    /\ block' = NoBlock

SizeNext ==
    \/ \E size \in RequestSizes : AllocateBucket(size)
    \/ \E size \in RequestSizes : AllocateSlab(size)
    \/ FreeBucket
    \/ FreeSlab

SizeSpec == SizeInit /\ [][SizeNext]_sizeVars

-----------------------------------------------------------------------------
(* What the allocator hands out is large enough: the bytes from the header  *)
(* to the end of the request lie in the bytes the block owns.               *)
BlockHoldsRequest ==
    block # NoBlock => /\ block.start >= block.hdr + FatPtrSize
                    /\ block.end <= block.hdr + block.owned

(* rt_free undoes rt_allocate: from start and end alone it finds the bucket *)
(* (or the mapping with its full length, or the slab and the chunk's bit)   *)
(* that the block came from, at every boundary between classes.             *)
FreeUndoesAllocate ==
    freed # NoBlock =>
        /\ freed.route = freed.of.route
        /\ freed.of.mode = "bucket" /\ freed.route = "class"
              => freed.class = freed.of.class
        /\ freed.of.mode = "slab" /\ freed.route = "class"
              => freed.slab = freed.of.slab /\ freed.chunk = freed.of.chunk
        /\ freed.route = "huge"
              => freed.gone = [addr |-> freed.of.hdr, len |-> freed.of.owned]

(* Freed pages: whole pages that lie inside the block and leave its header  *)
(* and the word that links it into the free list alone.                     *)
AdviseKeepsChain ==
    freed # NoBlock /\ freed.of.mode = "bucket" /\ freed.route = "class" =>
        LET gone == freed.gone
        IN  gone.len > 0 =>
                /\ gone.addr % PageSize = 0 /\ gone.len % PageSize = 0
                /\ gone.addr >= freed.of.start + 8
                /\ gone.addr + gone.len <= freed.of.hdr + freed.of.owned

(* The layout of a slab: the words of the bitmap end before the first       *)
(* chunk, the last chunk ends before the next slab, chunks are aligned.     *)
SlabLayoutFits ==
    block # NoBlock /\ block.mode = "slab" /\ block.route = "class" =>
        LET c == block.class
        IN  /\ HDR_FIXED_BYTES + 8 * num_words(c) <= payload_offset(c)
            /\ block.hdr % CHUNK_ALIGN = 0
            /\ block.hdr + class_size(c) <= block.slab + slab_size_for_class(c)
            /\ 64 * num_words(c) >= chunks_per_slab(c)

(* The arithmetic of sizes: allocate and free derive the same class, chunk  *)
(* or mapping from the request and from the header, and what they derive    *)
(* lies where it should.                                                    *)
SizesRoundTrip ==
    BlockHoldsRequest /\ FreeUndoesAllocate /\ AdviseKeepsChain /\ SlabLayoutFits
=============================================================================
