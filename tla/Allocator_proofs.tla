-------------------------- MODULE Allocator_proofs --------------------------
(***************************************************************************)
(* The books of both halves of the allocator.                               *)
(*                                                                          *)
(* Buckets, for every size of heap and every table of buckets: the blocks   *)
(* of free lists and holders fill the carved part of the heap without gap   *)
(* or overlap, a call changes no byte of a block that stays held, and a     *)
(* block of rt_allocate reads as zero.                                      *)
(*                                                                          *)
(* Slabs, for every number of slabs and classes, every number of chunks and *)
(* every width of a bitmap word: bitmap, counter and what is held agree,    *)
(* the lists have every slab once, a new slab is mapped only when all       *)
(* chunks of its class are held, and no chunk is handed out twice.          *)
(***************************************************************************)
EXTENDS Buckets, Slabs, Sequences, SequenceTheorems, FiniteSetTheorems, FunctionTheorems, TLAPS

-----------------------------------------------------------------------------
(* What an allocation computes with, and what is held.                      *)
HeldRecs == [hdr : Nat, size : Nat]
Outcomes == {"ok", "full", "dying", "exit", "fault"}
HeapRecs ==
    [curr : { n \in HeapBase .. HeapEnd : n % 16 = 0 }, heads : [Buckets -> Nat],
     mem : [Words -> Nat], maps : SUBSET [at : MapAddrs, len : Nat],
     new : SUBSET HeldRecs, fp : Nat, end : Outcomes]

(* The blocks of a list, and of the heap: L has the list of each bucket, G  *)
(* what is held.  A block is its address and its bucket.                    *)
FreeAt(q) == { q[i] : i \in 1 .. Len(q) }
Has(L, G, a, c) == a \in FreeAt(L[c]) \/ \E b \in G : b.hdr = a /\ BucketOf(b.size) = c
EndOf(a, c) == a + 16 + ClassSize[c]

IsFreeList(m, first, q) ==
    /\ q \in Seq(Nat)
    /\ \A i, j \in 1 .. Len(q) : q[i] = q[j] => i = j
    /\ first = IF q = << >> THEN Null ELSE q[1]
    /\ \A i \in 1 .. Len(q) : m[q[i] + 16] = IF i = Len(q) THEN Null ELSE q[i + 1]
ListsOK(h, L) ==
    /\ DOMAIN L = Buckets
    /\ \A c \in Buckets : IsFreeList(h.mem, h.heads[c], L[c])

(* Every block lies in the carved part and begins with the address of its   *)
(* payload; two blocks do not overlap; there is no gap.                     *)
InPlace(h, a, c) ==
    HeapBase <= a /\ a % 16 = 0 /\ EndOf(a, c) <= h.curr /\ h.mem[a] = a + 16
BlocksOK(h, L, G) ==
    \A a \in Nat, c \in Buckets : Has(L, G, a, c) => InPlace(h, a, c)
ApartOK(L, G) ==
    \A a, b \in Nat, c, d \in Buckets : Has(L, G, a, c) /\ Has(L, G, b, d) =>
        \/ a = b /\ c = d
        \/ EndOf(a, c) <= b
        \/ EndOf(b, d) <= a
CoverOK(h, L, G) ==
    \A w \in HeapBase .. h.curr - 1 : \E a \in Nat, c \in Buckets :
        Has(L, G, a, c) /\ a <= w /\ w < EndOf(a, c)

(* A block has one holder, and none while it is in a list.                  *)
OneOwner(L, G) ==
    \A b \in G : /\ \A d \in G : b.hdr = d.hdr => b = d
                 /\ \A c \in Buckets : b.hdr \notin FreeAt(L[c])

MapLen(size) == AlignUp(size + 32, Page)
HugeOK(h, b) ==
    /\ b.hdr \in MapAddrs /\ b.size \in Sizes
    /\ h.mem[b.hdr] = b.hdr + 32 /\ h.mem[b.hdr + 8] = b.hdr + MapLen(b.size)
    /\ [at |-> b.hdr, len |-> MapLen(b.size)] \in h.maps
HeldOK(h, G) ==
    /\ G \subseteq HeldRecs /\ \A b \in G : b.size \in Sizes \cup {16}
    /\ \A b \in G : BucketOf(b.size) = Huge => HugeOK(h, b)
    /\ \A b \in G : BucketOf(b.size) # Huge => h.mem[b.hdr + 8] = b.hdr + 16 + b.size

(* Nobody wrote beyond the carved part.                                     *)
FreshOK(h) == \A w \in Words : h.curr <= w /\ w < HeapEnd => h.mem[w] = 0

Books(h, L, G) ==
    /\ h \in HeapRecs /\ ListsOK(h, L) /\ BlocksOK(h, L, G) /\ ApartOK(L, G)
    /\ CoverOK(h, L, G) /\ OneOwner(L, G) /\ HeldOK(h, G) /\ FreshOK(h)

BucketInv ==
    /\ \E L : Books(heap, L, held)
    /\ UserBlockReadsZero
    /\ arena \in Nat /\ dying \in BOOLEAN /\ actors \in BOOLEAN
    /\ result.end \in {"ok", "dying", "exit", "fault"}

-----------------------------------------------------------------------------
(* The table of buckets.                                                    *)
LEMMA BucketFacts ==
    /\ Huge \in Nat /\ Buckets = 0 .. Huge - 1 /\ Huge \notin Buckets
    /\ \A c \in Buckets : /\ ClassSize[c] \in Nat /\ ClassSize[c] >= 16
                          /\ ClassSize[c] % 16 = 0
<1>1. IsFiniteSet(Buckets) /\ Buckets = 0 .. Huge - 1
  BY BucketAssumption
<1>2. Huge \in Nat
  BY <1>1, FS_CardinalityType DEF Huge
<1>3. \A c \in Buckets : ClassSize[c] \in Nat \ {0} /\ ClassSize[c] % 16 = 0
  BY BucketAssumption DEF FatPtr
<1> HIDE DEF Huge
<1>4. \A n \in Nat \ {0} : n % 16 = 0 => n >= 16
  OBVIOUS
<1>5. Huge \notin 0 .. Huge - 1
  BY <1>2
<1>6. \A c \in Buckets : ClassSize[c] \in Nat /\ ClassSize[c] >= 16
  BY <1>3, <1>4
<1> QED  BY <1>1, <1>2, <1>3, <1>5, <1>6

(* Every nonempty set of numbers has a least one.                           *)
LEMMA Smallest ==
    ASSUME NEW T, T \subseteq Nat, T # {}
    PROVE  \E x \in T : \A y \in T : x <= y
<1> DEFINE R == OpToRel(<, Nat)
<1>1. IsWellFoundedOn(R, Nat)
  BY NatLessThanWellFounded
<1>2. \A x, y \in Nat : << x, y >> \in R <=> x < y
  BY DEF OpToRel
<1> HIDE DEF R
<1>3. PICK x \in T : \A y \in T : ~ << y, x >> \in R
  BY <1>1, WFMin
<1>4. ASSUME NEW y \in T  PROVE x <= y
  <2>1. x \in Nat /\ y \in Nat
    OBVIOUS
  <2>2. ~ y < x
    BY <1>2, <1>3, <2>1
  <2> QED  BY <2>1, <2>2
<1> QED  BY <1>4

(* The bucket of a size is large enough for it.                             *)
LEMMA BucketOfIs ==
    ASSUME NEW size \in Nat
    PROVE  /\ BucketOf(size) \in Buckets \cup {Huge}
           /\ BucketOf(size) \in Buckets => ClassSize[BucketOf(size)] >= size
           /\ BucketOf(size) = Huge <=> \A c \in Buckets : ClassSize[c] < size
<1>1. /\ Huge \in Nat /\ Buckets = 0 .. Huge - 1 /\ Huge \notin Buckets
      /\ \A c \in Buckets : ClassSize[c] \in Nat
  BY BucketFacts
<1>2. CASE \A c \in Buckets : ClassSize[c] < size
  BY <1>1, <1>2 DEF BucketOf
<1>3. CASE ~ \A c \in Buckets : ClassSize[c] < size
  <2> DEFINE T == { c \in Buckets : ClassSize[c] >= size }
  <2>1. T \subseteq Nat /\ T # {}
    BY <1>1, <1>3
  <2>2. PICK x \in T : \A y \in T : x <= y
    BY <2>1, Smallest
  <2>3. \A d \in 0 .. x - 1 : ClassSize[d] < size
    BY <1>1, <2>2
  <2>4. BucketOf(size) = CHOOSE c \in Buckets :
             ClassSize[c] >= size /\ \A d \in 0 .. c - 1 : ClassSize[d] < size
    BY <1>3 DEF BucketOf
  <2>5. BucketOf(size) \in Buckets /\ ClassSize[BucketOf(size)] >= size
    BY <2>2, <2>3, <2>4
  <2> QED  BY <1>1, <1>3, <2>5
<1> QED  BY <1>2, <1>3

(* Rounding.                                                                *)
LEMMA AlignFacts ==
    ASSUME NEW k \in Nat \ {0}, NEW n \in Nat
    PROVE  AlignUp(n, k) \in Nat /\ AlignUp(n, k) >= n
  BY DEF AlignUp

(* A longer range from the same start.                                      *)
LEMMA LongerRange ==
    ASSUME NEW a \in Nat, NEW n \in Nat, NEW m \in Nat, n <= m, NEW w \in a .. a + n - 1
    PROVE  w \in a .. a + m - 1
  OBVIOUS

(* What AlignUp does to the widths the allocator uses.                      *)
LEMMA AlignSmall ==
    ASSUME NEW n \in Nat
    PROVE  /\ n % 16 = 0 => AlignUp(n + 16, 16) = n + 16
           /\ AlignUp(n, 8) \in Nat /\ AlignUp(n, 8) >= n
           /\ \A m \in Nat : m % 16 = 0 /\ n <= m => AlignUp(n, 8) <= m
  BY DEF AlignUp

(* The addresses of the heap that are words, and of the mappings.           *)
LEMMA WordFacts ==
    /\ HeapBase \in Nat \ {0} /\ HeapEnd \in Nat /\ HeapBase % 16 = 0 /\ HeapBase <= HeapEnd
    /\ Page \in Nat \ {0} /\ Sizes \subseteq Nat
    /\ \A w \in Nat : HeapBase <= w /\ w < HeapEnd /\ w % 8 = 0 => w \in Words
    /\ \A w \in Words : w \in Nat /\ (HeapBase <= w \/ w \in MapAddrs)
    /\ \A a \in MapAddrs : a \in Nat /\ a >= HeapEnd /\ a \in Words /\ a + 8 \in Words
    /\ \A a, b \in MapAddrs, s \in Sizes : a < b => a + MapLen(s) <= b
    /\ \A s \in Sizes : MapLen(s) \in Nat /\ MapLen(s) >= s + 32
<1>1. /\ HeapBase \in Nat \ {0} /\ HeapEnd \in Nat /\ HeapBase % 16 = 0
      /\ HeapBase <= HeapEnd /\ Page \in Nat \ {0} /\ Sizes \subseteq Nat
      /\ \A a \in MapAddrs : a \in Nat /\ a >= HeapEnd
      /\ \A a, b \in MapAddrs, s \in Sizes : a < b => a + MapLen(s) <= b
  BY BucketAssumption DEF FatPtr, HugeHeader, MapLen
<1>2. Words = { w \in HeapBase .. HeapBase + (HeapEnd - HeapBase) - 1 : w % 8 = 0 }
                  \cup UNION { {a, a + 8} : a \in MapAddrs }
  BY DEF Words, WordsFrom, Word
<1>3. \A w : w \in Words <=> \/ w \in Nat /\ HeapBase <= w /\ w < HeapEnd /\ w % 8 = 0
                             \/ \E a \in MapAddrs : w = a \/ w = a + 8
  BY <1>1, <1>2
<1>4. \A s \in Sizes : MapLen(s) \in Nat /\ MapLen(s) >= s + 32
  <2> TAKE s \in Sizes
  <2>1. s + 32 \in Nat
    BY <1>1
  <2> QED  BY <1>1, <2>1, AlignFacts DEF MapLen
<1> QED  BY <1>1, <1>3, <1>4

-----------------------------------------------------------------------------
(* The words of a block are words of the heap.                              *)
LEMMA BlockWords ==
    ASSUME NEW h, NEW L, NEW G, Books(h, L, G), NEW a \in Nat, NEW c \in Buckets,
           Has(L, G, a, c)
    PROVE  /\ InPlace(h, a, c) /\ EndOf(a, c) \in Nat /\ EndOf(a, c) >= a + 32
           /\ h.curr \in Nat /\ h.curr <= HeapEnd
           /\ a \in Words /\ a + 8 \in Words /\ a + 16 \in Words
           /\ \A w \in Nat : a <= w /\ w < EndOf(a, c) /\ w % 8 = 0 => w \in Words
<1>1. InPlace(h, a, c) /\ h.curr \in HeapBase .. HeapEnd
  BY DEF Books, BlocksOK, HeapRecs
<1>2. /\ HeapBase \in Nat /\ HeapEnd \in Nat
      /\ \A w \in Nat : HeapBase <= w /\ w < HeapEnd /\ w % 8 = 0 => w \in Words
  BY WordFacts
<1>3. ClassSize[c] \in Nat /\ ClassSize[c] >= 16
  BY BucketFacts
<1>4. EndOf(a, c) \in Nat /\ EndOf(a, c) >= a + 32 /\ a % 16 = 0
  BY <1>1, <1>3 DEF EndOf, InPlace
<1>5. HeapBase <= a /\ EndOf(a, c) <= HeapEnd /\ h.curr \in Nat /\ h.curr <= HeapEnd
  BY <1>1, <1>2, <1>4 DEF InPlace
<1>6. \A w \in Nat : a <= w /\ w < EndOf(a, c) /\ w % 8 = 0 => w \in Words
  BY <1>2, <1>4, <1>5
<1>7. a % 8 = 0 /\ (a + 8) % 8 = 0 /\ (a + 16) % 8 = 0
  BY <1>4
<1> QED  BY <1>1, <1>4, <1>5, <1>6, <1>7

(* A holder finds the words of its block as they were.                      *)
Same(m, n, b) ==
    \A w \in {b.hdr, b.hdr + 8} \cup (WordsFrom(m[b.hdr], b.size) \cap Words) : n[w] = m[w]
Untouched(m, n, G) == \A b \in G : Same(m, n, b)

(* Writes that stay in one block, behind the first word of its header.      *)
Inside(m, n, a, c) ==
    /\ n \in [Words -> Nat]
    /\ \A w \in Words : n[w] # m[w] => a + 8 <= w /\ w < EndOf(a, c)

(* What they leave as it was.                                               *)
Kept(h, L, G, n, a) ==
    /\ \A b \in Nat, d \in Buckets : Has(L, G, b, d) => n[b] = b + 16
    /\ \A d \in Buckets : \A f \in FreeAt(L[d]) : f # a => n[f + 16] = h.mem[f + 16]
    /\ \A b \in G : b.hdr # a => Same(h.mem, n, b)
    /\ \A w \in Words : h.curr <= w /\ w < HeapEnd => n[w] = 0

(* A store inside one block leaves every other block as it was.             *)
LEMMA InsideKeeps ==
    ASSUME NEW h, NEW L, NEW G, Books(h, L, G), NEW a \in Nat, NEW c \in Buckets,
           Has(L, G, a, c), NEW n, Inside(h.mem, n, a, c)
    PROVE  Kept(h, L, G, n, a)
<1> DEFINE e == EndOf(a, c)
<1>1. /\ e \in Nat /\ e >= a + 32 /\ e <= h.curr /\ h.curr \in Nat /\ h.curr <= HeapEnd
      /\ HeapEnd \in Nat /\ h.mem[a] = a + 16 /\ a \in Words
  BY BlockWords, WordFacts DEF InPlace
<1>2. \A w \in Words : w \in Nat /\ (n[w] # h.mem[w] => a + 8 <= w /\ w < e)
  BY WordFacts DEF Inside
<1> HIDE DEF e
<1>3. ASSUME NEW b \in Nat, NEW d \in Buckets, Has(L, G, b, d)
      PROVE  /\ b \in Words /\ b + 8 \in Words /\ b + 16 \in Words /\ h.mem[b] = b + 16
             /\ n[b] = b + 16
             /\ b # a => \A w \in Words : b <= w /\ w < EndOf(b, d) => n[w] = h.mem[w]
             /\ EndOf(b, d) \in Nat /\ EndOf(b, d) >= b + 32
  <2>1. /\ b \in Words /\ b + 8 \in Words /\ b + 16 \in Words /\ h.mem[b] = b + 16
        /\ EndOf(b, d) \in Nat /\ EndOf(b, d) >= b + 32
    BY <1>3, BlockWords DEF InPlace
  <2>2. CASE b = a
    BY <1>1, <1>2, <2>1, <2>2
  <2>3. CASE b # a
    <3>1. e <= b \/ EndOf(b, d) <= a
      BY <1>3, <2>3 DEF Books, ApartOK, e
    <3>2. \A w \in Words : b <= w /\ w < EndOf(b, d) => n[w] = h.mem[w]
      BY <1>1, <1>2, <2>1, <3>1
    <3>3. n[b] = h.mem[b]
      BY <2>1, <3>2
    <3> QED  BY <2>1, <3>2, <3>3
  <2> QED  BY <2>2, <2>3
<1>4. ASSUME NEW d \in Buckets, NEW b \in FreeAt(L[d]), b # a
      PROVE  n[b + 16] = h.mem[b + 16]
  <2>1. b \in Nat /\ Has(L, G, b, d)
    BY DEF Books, ListsOK, IsFreeList, Has, FreeAt
  <2>2. /\ b + 16 \in Words /\ EndOf(b, d) \in Nat /\ EndOf(b, d) >= b + 32
        /\ \A w \in Words : b <= w /\ w < EndOf(b, d) => n[w] = h.mem[w]
    BY <1>3, <1>4, <2>1
  <2>3. b <= b + 16 /\ b + 16 < EndOf(b, d)
    BY <2>1, <2>2
  <2> QED  BY <2>2, <2>3
<1>5. ASSUME NEW b \in G, b.hdr # a  PROVE Same(h.mem, n, b)
  <2>1. b.hdr \in Nat /\ b.size \in Nat
    BY DEF Books, HeldOK, HeldRecs
  <2>2. CASE BucketOf(b.size) = Huge
    <3>1. HugeOK(h, b)
      BY <2>2 DEF Books, HeldOK
    <3>2. /\ b.hdr >= HeapEnd /\ b.hdr \in Words /\ b.hdr + 8 \in Words
          /\ h.mem[b.hdr] = b.hdr + 32
      BY <3>1, WordFacts DEF HugeOK
    <3>3. \A w \in WordsFrom(b.hdr + 32, b.size) : w \in Nat /\ w >= HeapEnd
      BY <1>1, <2>1, <3>2 DEF WordsFrom
    <3>4. \A w \in Words : w >= HeapEnd => n[w] = h.mem[w]
      BY <1>1, <1>2
    <3> QED  BY <1>1, <2>1, <3>2, <3>3, <3>4 DEF Same
  <2>3. CASE BucketOf(b.size) # Huge
    <3> DEFINE d == BucketOf(b.size)
    <3>1. d \in Buckets /\ b.size <= ClassSize[d] /\ ClassSize[d] \in Nat
      BY <2>1, <2>3, BucketOfIs, BucketFacts
    <3>2. Has(L, G, b.hdr, d)
      BY DEF Has
    <3> HIDE DEF d
    <3>3. /\ b.hdr \in Words /\ b.hdr + 8 \in Words /\ h.mem[b.hdr] = b.hdr + 16
          /\ \A w \in Words : b.hdr <= w /\ w < EndOf(b.hdr, d) => n[w] = h.mem[w]
          /\ EndOf(b.hdr, d) = b.hdr + 16 + ClassSize[d]
          /\ EndOf(b.hdr, d) \in Nat /\ EndOf(b.hdr, d) >= b.hdr + 32
      BY <1>3, <1>5, <2>1, <3>1, <3>2 DEF EndOf
    <3>4. \A w \in WordsFrom(b.hdr + 16, b.size) : b.hdr <= w /\ w < EndOf(b.hdr, d)
      BY <2>1, <3>1, <3>3 DEF WordsFrom
    <3> QED  BY <2>1, <3>3, <3>4 DEF Same
  <2> QED  BY <2>2, <2>3
<1>6. \A w \in Words : h.curr <= w /\ w < HeapEnd => n[w] = 0
  <2>1. \A w \in Words : h.curr <= w /\ w < HeapEnd => h.mem[w] = 0
    BY DEF Books, FreshOK
  <2> QED  BY <1>1, <1>2, <2>1
<1> QED  BY <1>3, <1>4, <1>5, <1>6 DEF Kept

(* The books do not depend on what a call returns.                          *)
LEMMA SameHeap ==
    ASSUME NEW h, NEW L, NEW G, Books(h, L, G), NEW t \in HeapRecs,
           t.curr = h.curr, t.heads = h.heads, t.mem = h.mem, t.maps = h.maps
    PROVE  Books(t, L, G)
  BY DEF Books, ListsOK, BlocksOK, InPlace, CoverOK, HeldOK, HugeOK, FreshOK

(* A call that hands out the blocks of N.                                   *)
Gives(h, G, t, N) ==
    /\ \E K : Books(t, K, G \cup N)
    /\ t.new = h.new \cup N /\ N \cap G = {} /\ IsFiniteSet(N)
    /\ Untouched(h.mem, t.mem, G)

(* A call that leaves the blocks in place and the lists and holders sound.  *)
LEMMA SameBlocks ==
    ASSUME NEW h, NEW L, NEW G, Books(h, L, G), NEW t \in HeapRecs, NEW K, NEW F,
           NEW a, Kept(h, L, G, t.mem, a), t.curr = h.curr,
           \A b \in Nat, d \in Buckets : Has(K, F, b, d) <=> Has(L, G, b, d),
           ListsOK(t, K), OneOwner(K, F), HeldOK(t, F)
    PROVE  Books(t, K, F)
<1>1. BlocksOK(t, K, F)
  BY DEF Books, BlocksOK, InPlace, Kept
<1>2. ApartOK(K, F)
  BY DEF Books, ApartOK
<1>3. CoverOK(t, K, F)
  BY DEF Books, CoverOK
<1>4. FreshOK(t)
  BY DEF FreshOK, Kept
<1> QED  BY <1>1, <1>2, <1>3, <1>4 DEF Books

(* What HeldOK says of one block survives a call that keeps its words.      *)
HolderOK(h, b) ==
    /\ b \in HeldRecs /\ b.size \in Sizes \cup {16}
    /\ BucketOf(b.size) = Huge => HugeOK(h, b)
    /\ BucketOf(b.size) # Huge => h.mem[b.hdr + 8] = b.hdr + 16 + b.size

(* Who keeps its header and its words stays a sound holder.                 *)
LEMMA HolderKept ==
    ASSUME NEW h, NEW t, NEW b, HolderOK(h, b), Same(h.mem, t.mem, b),
           h.maps \subseteq t.maps
    PROVE  HolderOK(t, b)
<1>1. t.mem[b.hdr] = h.mem[b.hdr] /\ t.mem[b.hdr + 8] = h.mem[b.hdr + 8]
  BY DEF Same
<1> QED  BY <1>1 DEF HolderOK, HugeOK

(* The holders of a heap are sound one by one.                              *)
LEMMA HolderIs ==
    ASSUME NEW h, NEW G
    PROVE  HeldOK(h, G) <=> \A b \in G : HolderOK(h, b)
  BY DEF HeldOK, HolderOK

(* A store into words of the memory.                                        *)
LEMMA StoredIs ==
    ASSUME NEW m \in [Words -> Nat], NEW ws, NEW v \in Nat
    PROVE  /\ Stored(m, ws, v) \in [Words -> Nat]
           /\ \A w \in Words : Stored(m, ws, v)[w] = IF w \in ws THEN v ELSE m[w]
  BY DEF Stored

(* Writing the header of a block.                                           *)
LEMMA HeaderIs ==
    ASSUME NEW m \in [Words -> Nat], NEW a \in Nat, NEW s \in Nat, NEW e \in Nat
    PROVE  /\ WithHeader(m, a, s, e) \in [Words -> Nat]
           /\ a \in Words /\ a + 8 \in Words =>
                  WithHeader(m, a, s, e)[a] = s /\ WithHeader(m, a, s, e)[a + 8] = e
           /\ \A w \in Words : w # a /\ w # a + 8 => WithHeader(m, a, s, e)[w] = m[w]
<1> DEFINE n == [m EXCEPT ![a] = s]
<1>1. n \in [Words -> Nat] /\ \A w \in Words : n[w] = IF w = a THEN s ELSE m[w]
  OBVIOUS
<1>2. WithHeader(m, a, s, e) = [n EXCEPT ![a + 8] = e]
  BY DEF WithHeader, Word
<1> HIDE DEF n
<1>3. /\ WithHeader(m, a, s, e) \in [Words -> Nat]
      /\ \A w \in Words : WithHeader(m, a, s, e)[w] = IF w = a + 8 THEN e ELSE n[w]
  BY <1>1, <1>2
<1>4. a # a + 8
  OBVIOUS
<1> QED  BY <1>1, <1>3, <1>4

(* The first block of a list: where it is and what follows it.              *)
LEMMA FirstFree ==
    ASSUME NEW h, NEW L, NEW G, Books(h, L, G), NEW c \in Buckets, h.heads[c] # Null
    PROVE  /\ L[c] # << >> /\ L[c] \in Seq(Nat) /\ h.heads[c] = L[c][1]
           /\ h.heads[c] \in Nat /\ Has(L, G, h.heads[c], c)
           /\ h.mem[h.heads[c]] = h.heads[c] + 16
           /\ \A b \in G : b.hdr # h.heads[c]
           /\ IsFreeList(h.mem, h.mem[h.heads[c] + 16], Tail(L[c]))
           /\ FreeAt(L[c]) = {h.heads[c]} \cup FreeAt(Tail(L[c]))
           /\ h.heads[c] \notin FreeAt(Tail(L[c]))
<1> DEFINE q == L[c]
           f == h.heads[c]
<1>1. IsFreeList(h.mem, f, q)
  BY DEF Books, ListsOK
<1>2. q # << >> /\ q \in Seq(Nat) /\ f = q[1]
  BY <1>1 DEF IsFreeList
<1>3. Len(q) \in Nat \ {0} /\ f \in Nat /\ f \in FreeAt(q)
  BY <1>2 DEF FreeAt
<1>4. Has(L, G, f, c)
  BY <1>3 DEF Has
<1>5. h.mem[f] = f + 16
  BY <1>3, <1>4, BlockWords DEF InPlace
<1>6. \A b \in G : b.hdr # f
  BY <1>3 DEF Books, OneOwner
<1> HIDE DEF q, f
<1>7. /\ Tail(q) \in Seq(Nat) /\ Len(Tail(q)) = Len(q) - 1
      /\ \A i \in 1 .. Len(q) - 1 : Tail(q)[i] = q[i + 1]
  BY <1>2, <1>3
<1>8. IsFreeList(h.mem, h.mem[f + 16], Tail(q))
  <2>1. h.mem[f + 16] = IF 1 = Len(q) THEN Null ELSE q[1 + 1]
    <3>1. \A i \in 1 .. Len(q) : h.mem[q[i] + 16] = IF i = Len(q) THEN Null ELSE q[i + 1]
      BY <1>1 DEF IsFreeList
    <3>2. 1 \in 1 .. Len(q)
      BY <1>3
    <3> QED  BY <1>2, <3>1, <3>2
  <2>2. h.mem[f + 16] = IF Tail(q) = << >> THEN Null ELSE Tail(q)[1]
    <3>0. Tail(q) = << >> <=> Len(Tail(q)) = 0
      BY <1>7, EmptySeq
    <3>1. Tail(q) = << >> <=> Len(q) = 1
      <4>1. Len(Tail(q)) = Len(q) - 1 /\ Len(q) \in Nat
        BY <1>3, <1>7
      <4>2. Len(Tail(q)) = 0 <=> Len(q) = 1
        BY <4>1
      <4> QED  BY <3>0, <4>2
    <3>2. Len(q) # 1 => Tail(q)[1] = q[1 + 1]
      BY <1>3, <1>7
    <3> QED  BY <2>1, <3>1, <3>2
  <2>3. \A i, j \in 1 .. Len(Tail(q)) : Tail(q)[i] = Tail(q)[j] => i = j
    <3>1. \A i, j \in 1 .. Len(q) : q[i] = q[j] => i = j
      BY <1>1 DEF IsFreeList
    <3> QED  BY <1>3, <1>7, <3>1
  <2>4. \A i \in 1 .. Len(Tail(q)) : h.mem[Tail(q)[i] + 16] =
            IF i = Len(Tail(q)) THEN Null ELSE Tail(q)[i + 1]
    <3>1. \A i \in 1 .. Len(q) : h.mem[q[i] + 16] = IF i = Len(q) THEN Null ELSE q[i + 1]
      BY <1>1 DEF IsFreeList
    <3> TAKE i \in 1 .. Len(Tail(q))
    <3>2. i + 1 \in 1 .. Len(q) /\ Tail(q)[i] = q[i + 1]
      BY <1>3, <1>7
    <3>3. i # Len(Tail(q)) => i + 1 \in 1 .. Len(q) - 1 /\ Tail(q)[i + 1] = q[(i + 1) + 1]
      <4> DEFINE n == Len(q)
      <4>1. i \in 1 .. n - 1 /\ n \in Nat /\ Len(Tail(q)) = n - 1
        BY <1>3, <1>7
      <4> HIDE DEF n
      <4>2. i # Len(Tail(q)) => i + 1 \in 1 .. n - 1
        BY <4>1
      <4>3. i # Len(Tail(q)) => i + 1 \in 1 .. Len(q) - 1
        BY <4>2 DEF n
      <4> QED  BY <1>7, <4>3
    <3>4. i = Len(Tail(q)) <=> i + 1 = Len(q)
      BY <1>3, <1>7
    <3> QED  BY <3>1, <3>2, <3>3, <3>4
  <2> QED  BY <1>7, <2>2, <2>3, <2>4 DEF IsFreeList
<1>9. FreeAt(q) = {f} \cup FreeAt(Tail(q)) /\ f \notin FreeAt(Tail(q))
  <2>1. \A i, j \in 1 .. Len(q) : q[i] = q[j] => i = j
    BY <1>1 DEF IsFreeList
  <2>2. \A i \in 1 .. Len(q) : i = 1 \/ (i - 1 \in 1 .. Len(q) - 1 /\ q[i] = Tail(q)[i - 1])
    BY <1>3, <1>7
  <2>3. \A i \in 1 .. Len(q) - 1 : i + 1 \in 1 .. Len(q) /\ i + 1 # 1
    BY <1>3
  <2>4. FreeAt(Tail(q)) = { q[i + 1] : i \in 1 .. Len(q) - 1 }
    BY <1>7 DEF FreeAt
  <2>5. 1 \in 1 .. Len(q)
    BY <1>3
  <2>6. f \notin FreeAt(Tail(q))
    BY <1>2, <2>1, <2>3, <2>4, <2>5
  <2>7. FreeAt(q) \subseteq {f} \cup FreeAt(Tail(q))
    <3> SUFFICES ASSUME NEW x \in FreeAt(q)  PROVE x \in {f} \cup FreeAt(Tail(q))
      OBVIOUS
    <3>1. PICK i \in 1 .. Len(q) : x = q[i]
      BY DEF FreeAt
    <3>2. CASE i = 1
      BY <1>2, <3>1, <3>2
    <3>3. CASE i # 1
      <4>1. i - 1 \in 1 .. Len(q) - 1 /\ (i - 1) + 1 = i
        BY <1>3, <3>3
      <4> QED  BY <2>4, <3>1, <4>1
    <3> QED  BY <3>2, <3>3
  <2>8. {f} \cup FreeAt(Tail(q)) \subseteq FreeAt(q)
    BY <1>2, <2>3, <2>4, <2>5 DEF FreeAt
  <2> QED  BY <2>6, <2>7, <2>8
<1> QED  BY <1>1, <1>2, <1>3, <1>4, <1>5, <1>6, <1>8, <1>9 DEF q, f

(* A list is as good as before when the links of its blocks are.            *)
LEMMA ListKept ==
    ASSUME NEW m, NEW n, NEW first, NEW q, IsFreeList(m, first, q),
           \A f \in FreeAt(q) : n[f + 16] = m[f + 16]
    PROVE  IsFreeList(n, first, q)
<1>1. \A i \in 1 .. Len(q) : n[q[i] + 16] = m[q[i] + 16]
  BY DEF FreeAt
<1> QED  BY <1>1 DEF IsFreeList

(* A block is in one bucket.                                                *)
LEMMA OneBucket ==
    ASSUME NEW h, NEW L, NEW G, Books(h, L, G), NEW a \in Nat, NEW c \in Buckets,
           Has(L, G, a, c), NEW d \in Buckets, Has(L, G, a, d)
    PROVE  c = d
<1>1. EndOf(a, c) > a /\ EndOf(a, d) > a
  BY BucketFacts DEF EndOf
<1>2. c = d \/ EndOf(a, c) <= a \/ EndOf(a, d) <= a
  BY DEF Books, ApartOK
<1>3. EndOf(a, c) \in Nat /\ EndOf(a, d) \in Nat
  BY BucketFacts DEF EndOf
<1> QED  BY <1>1, <1>2, <1>3

(* A free block is handed out again.                                        *)
LEMMA PopKeeps ==
    ASSUME NEW h, NEW L, NEW G, Books(h, L, G), NEW size \in Sizes \cup {16},
           NEW c \in Buckets, BucketOf(size) = c, h.heads[c] # Null, NEW zero \in BOOLEAN,
           NEW t, t = Pop(h, c, size, zero)
    PROVE  /\ Gives(h, G, t, {[hdr |-> h.heads[c], size |-> size]})
           /\ t.fp = h.heads[c] /\ t.end = h.end /\ t.fp \in Nat /\ t.mem[t.fp] = t.fp + 16
           /\ zero => \A w \in WordsFrom(t.fp + 16, size) : t.mem[w] = 0
<1> DEFINE f == h.heads[c]
           rec == [hdr |-> f, size |-> size]
           K == [L EXCEPT ![c] = Tail(L[c])]
           Z == Zeroed(f + 16, size, zero)
           e == EndOf(f, c)
<1>1. /\ L[c] # << >> /\ L[c] \in Seq(Nat) /\ f \in Nat /\ Has(L, G, f, c)
      /\ h.mem[f] = f + 16 /\ \A b \in G : b.hdr # f
  BY FirstFree
<1>2. /\ IsFreeList(h.mem, h.mem[f + 16], Tail(L[c]))
      /\ FreeAt(L[c]) = {f} \cup FreeAt(Tail(L[c])) /\ f \notin FreeAt(Tail(L[c]))
  <2>1. IsFreeList(h.mem, h.mem[f + 16], Tail(L[c]))
    BY FirstFree
  <2>2. FreeAt(L[c]) = {f} \cup FreeAt(Tail(L[c]))
    BY FirstFree
  <2>3. f \notin FreeAt(Tail(L[c]))
    BY FirstFree
  <2> QED  BY <2>1, <2>2, <2>3
<1>3. /\ e \in Nat /\ e >= f + 32 /\ f \in Words /\ f + 8 \in Words /\ f + 16 \in Words
      /\ \A w \in Nat : f <= w /\ w < e /\ w % 8 = 0 => w \in Words
  BY <1>1, BlockWords
<1>4. /\ size \in Nat /\ size <= ClassSize[c] /\ ClassSize[c] \in Nat
      /\ ClassSize[c] % 16 = 0 /\ e = f + 16 + ClassSize[c]
  BY BucketOfIs, BucketFacts, WordFacts DEF EndOf
<1>5. h \in HeapRecs /\ h.mem \in [Words -> Nat] /\ h.heads \in [Buckets -> Nat]
  BY DEF Books, HeapRecs
<1>6. /\ t = [h EXCEPT !.heads = [h.heads EXCEPT ![c] = h.mem[f + 16]],
                       !.mem = Stored([h.mem EXCEPT ![f + 8] = f + 16 + size], Z, 0),
                       !.new = h.new \cup {rec}, !.fp = f]
  BY <1>1, <1>5 DEF Pop, HeapRecs, Word
<1> HIDE DEF f, rec, K, Z, e
<1>7. /\ t.heads = [h.heads EXCEPT ![c] = h.mem[f + 16]] /\ t.curr = h.curr
      /\ t.maps = h.maps /\ t.new = h.new \cup {rec} /\ t.fp = f /\ t.end = h.end
      /\ t.mem = Stored([h.mem EXCEPT ![f + 8] = f + 16 + size], Z, 0)
  BY <1>5, <1>6 DEF HeapRecs
<1>8. /\ t.mem \in [Words -> Nat]
      /\ \A w \in Words : t.mem[w] = IF w \in Z THEN 0
                                     ELSE IF w = f + 8 THEN f + 16 + size ELSE h.mem[w]
  <2> DEFINE m == [h.mem EXCEPT ![f + 8] = f + 16 + size]
  <2>1. /\ m \in [Words -> Nat]
        /\ \A w \in Words : m[w] = IF w = f + 8 THEN f + 16 + size ELSE h.mem[w]
    <3>1. f + 16 + size \in Nat
      BY <1>1, <1>4
    <3> QED  BY <1>5, <3>1
  <2> HIDE DEF m
  <2>2. t.mem = Stored(m, Z, 0)
    BY <1>7 DEF m
  <2> QED  BY <2>1, <2>2, StoredIs
<1>9. \A w \in Z : w \in Nat /\ f + 16 <= w /\ w < e
  <2>1. CASE zero
    <3>1. PICK n \in Nat : n = AlignUp(size, 8) /\ n <= ClassSize[c]
      BY <1>4, AlignSmall
    <3>2. \A w \in Z : w \in f + 16 .. f + 16 + n - 1
      BY <2>1, <3>1 DEF Z, Zeroed, WordsFrom, Word
    <3>3. f \in Nat /\ ClassSize[c] \in Nat /\ e = f + 16 + ClassSize[c]
      BY <1>1, <1>4
    <3>4. \A w \in f + 16 .. f + 16 + n - 1 : w \in Nat /\ f + 16 <= w /\ w < e
      BY <3>1, <3>3
    <3> QED  BY <3>2, <3>4
  <2>2. CASE ~zero
    <3>1. Z = {f + 16}
      BY <2>2 DEF Z, Zeroed
    <3> QED  BY <1>1, <1>3, <3>1
  <2> QED  BY <2>1, <2>2
<1>10. Inside(h.mem, t.mem, f, c)
  <2>1. \A w \in Words : w \in Nat
    BY WordFacts
  <2> QED  BY SMTT(30), <1>1, <1>3, <1>8, <1>9, <2>1 DEF Inside, e
<1>11. Kept(h, L, G, t.mem, f)
  BY <1>1, <1>10, InsideKeeps
<1>12. t.mem[f] = f + 16 /\ t.mem[f + 8] = f + 16 + size
  <2>1. f \notin Z /\ f + 8 \notin Z /\ f # f + 8
    BY <1>1, <1>9
  <2> QED  BY <1>1, <1>3, <1>8, <2>1
<1>13. t \in HeapRecs /\ rec \in HeldRecs
  <2>1. h.mem[f + 16] \in Nat
    BY <1>3, <1>5
  <2>2. t.heads \in [Buckets -> Nat]
    BY <1>5, <1>7, <2>1
  <2>3. rec \in HeldRecs
    BY <1>1, <1>4 DEF rec, HeldRecs
  <2>4. DOMAIN t = DOMAIN h
    BY <1>6
  <2> QED  BY <1>1, <1>5, <1>6, <1>7, <1>8, <2>2, <2>3, <2>4 DEF HeapRecs
<1>14. DOMAIN L = Buckets /\ K[c] = Tail(L[c]) /\ DOMAIN K = Buckets
       /\ \A d \in Buckets : d # c => K[d] = L[d]
  BY DEF Books, ListsOK, K
<1>15. \A b \in Nat, d \in Buckets : Has(K, G \cup {rec}, b, d) <=> Has(L, G, b, d)
  <2>1. rec.hdr = f /\ rec.size = size
    BY DEF rec
  <2>2. \A b \in Nat, d \in Buckets : b \in FreeAt(K[d]) \/ (b = f /\ d = c) <=> b \in FreeAt(L[d])
    BY <1>2, <1>14
  <2> QED  BY <2>1, <2>2 DEF Has
<1>16. ListsOK(t, K)
  <2> SUFFICES ASSUME NEW d \in Buckets  PROVE IsFreeList(t.mem, t.heads[d], K[d])
    BY <1>14 DEF ListsOK
  <2>1. CASE d = c
    <3>1. \A x \in FreeAt(Tail(L[c])) : t.mem[x + 16] = h.mem[x + 16]
      BY <1>2, <1>11 DEF Kept
    <3>2. t.heads[c] = h.mem[f + 16]
      BY <1>5, <1>7
    <3>3. IsFreeList(t.mem, h.mem[f + 16], Tail(L[c]))
      BY <1>2, <3>1, ListKept
    <3> QED  BY <1>14, <2>1, <3>2, <3>3
  <2>2. CASE d # c
    <3>1. f \notin FreeAt(L[d])
      BY <1>1, <2>2, OneBucket DEF Has
    <3>2. \A x \in FreeAt(L[d]) : t.mem[x + 16] = h.mem[x + 16]
      BY <1>11, <3>1 DEF Kept
    <3>3. IsFreeList(h.mem, h.heads[d], L[d])
      BY DEF Books, ListsOK
    <3>4. t.heads[d] = h.heads[d]
      BY <1>5, <1>7, <2>2
    <3> QED  BY <1>14, <2>2, <3>2, <3>3, <3>4, ListKept
  <2> QED  BY <2>1, <2>2
<1>17. OneOwner(K, G \cup {rec})
  <2>1. rec.hdr = f
    BY DEF rec
  <2>2. \A b \in G, d \in Buckets : b.hdr \notin FreeAt(K[d])
    BY <1>2, <1>14 DEF Books, OneOwner
  <2>3. \A d \in Buckets : f \notin FreeAt(K[d])
    <3> TAKE d \in Buckets
    <3>1. d # c => f \notin FreeAt(L[d])
      BY <1>1, OneBucket DEF Has
    <3> QED  BY <1>2, <1>14, <3>1
  <2> QED  BY <1>1, <2>1, <2>2, <2>3 DEF Books, OneOwner
<1>18. HeldOK(t, G \cup {rec})
  <2>1. \A b \in G : HolderOK(h, b)
    BY HolderIs DEF Books
  <2>2. \A b \in G : Same(h.mem, t.mem, b)
    BY <1>1, <1>11 DEF Kept
  <2>3. \A b \in G : HolderOK(t, b)
    BY <1>7, <2>1, <2>2, HolderKept
  <2>4. BucketOf(size) # Huge
    BY BucketFacts
  <2>5. rec.hdr = f /\ rec.size = size
    BY DEF rec
  <2>6. HolderOK(t, rec)
    BY <1>12, <1>13, <2>4, <2>5 DEF HolderOK
  <2> QED  BY <2>3, <2>6, HolderIs
<1>19. Books(t, K, G \cup {rec})
  BY <1>7, <1>11, <1>13, <1>15, <1>16, <1>17, <1>18, SameBlocks
<1>20. Untouched(h.mem, t.mem, G)
  BY <1>1, <1>11 DEF Kept, Untouched
<1>21. {rec} \cap G = {} /\ IsFiniteSet({rec})
  <2>1. rec.hdr = f
    BY DEF rec
  <2>2. IsFiniteSet({rec})
    BY FS_Singleton
  <2> QED  BY <1>1, <2>1, <2>2
<1>22. Gives(h, G, t, {rec})
  BY <1>7, <1>19, <1>20, <1>21 DEF Gives
<1>23. zero => \A w \in WordsFrom(f + 16, size) : t.mem[w] = 0
  <2> SUFFICES ASSUME zero, NEW w \in WordsFrom(f + 16, size)  PROVE t.mem[w] = 0
    OBVIOUS
  <2>1. PICK n \in Nat : n = AlignUp(size, 8) /\ n >= size
    BY <1>4, AlignSmall
  <2>2. w \in f + 16 .. f + 16 + size - 1 /\ w % 8 = 0
    BY DEF WordsFrom, Word
  <2>3. Z = { x \in f + 16 .. f + 16 + n - 1 : x % 8 = 0 }
    BY <2>1 DEF Z, Zeroed, WordsFrom, Word
  <2>4. w \in Z
    <3>1. f + 16 \in Nat /\ size \in Nat
      BY <1>1, <1>4
    <3>2. w \in f + 16 .. f + 16 + n - 1
      BY <2>1, <2>2, <3>1, LongerRange
    <3> QED  BY <2>2, <2>3, <3>2
  <2>5. w \in Nat /\ f <= w /\ w < e
    BY <1>1, <1>9, <2>4
  <2>6. w \in Words
    BY <1>3, <2>2, <2>5
  <2> QED  BY <1>8, <2>4, <2>6
<1> QED  BY <1>1, <1>7, <1>12, <1>22, <1>23 DEF f, rec

(* Where a holder's words are: in the carved heap, or in his mapping.       *)
LEMMA HolderWords ==
    ASSUME NEW h, NEW L, NEW G, Books(h, L, G), NEW b \in G
    PROVE  /\ b.hdr \in Nat /\ b.size \in Nat /\ b.hdr \in Words /\ b.hdr + 8 \in Words
           /\ BucketOf(b.size) # Huge =>
                 /\ Has(L, G, b.hdr, BucketOf(b.size)) /\ BucketOf(b.size) \in Buckets
                 /\ b.size <= ClassSize[BucketOf(b.size)] /\ h.mem[b.hdr] = b.hdr + 16
                 /\ h.mem[b.hdr + 8] = b.hdr + 16 + b.size
                 /\ \A w \in {b.hdr, b.hdr + 8} \cup WordsFrom(h.mem[b.hdr], b.size) :
                        w \in Nat /\ b.hdr <= w /\ w < EndOf(b.hdr, BucketOf(b.size))
           /\ BucketOf(b.size) = Huge =>
                 /\ HugeOK(h, b)
                 /\ \A w \in {b.hdr, b.hdr + 8} \cup WordsFrom(h.mem[b.hdr], b.size) :
                        w \in Nat /\ b.hdr <= w /\ w < b.hdr + MapLen(b.size)
<1>1. /\ b.hdr \in Nat /\ b.size \in Nat
      /\ BucketOf(b.size) = Huge => HugeOK(h, b)
      /\ BucketOf(b.size) # Huge => h.mem[b.hdr + 8] = b.hdr + 16 + b.size
  BY DEF Books, HeldOK, HeldRecs
<1>2. CASE BucketOf(b.size) = Huge
  <2>1. HugeOK(h, b)
    BY <1>1, <1>2
  <2>2. /\ b.hdr \in Words /\ b.hdr + 8 \in Words /\ MapLen(b.size) \in Nat
        /\ MapLen(b.size) >= b.size + 32 /\ h.mem[b.hdr] = b.hdr + 32
    BY <2>1, WordFacts DEF HugeOK
  <2>3. \A w \in {b.hdr, b.hdr + 8} \cup WordsFrom(b.hdr + 32, b.size) :
            w \in Nat /\ b.hdr <= w /\ w < b.hdr + MapLen(b.size)
    BY <1>1, <2>2 DEF WordsFrom
  <2> QED  BY <1>1, <1>2, <2>1, <2>2, <2>3
<1>3. CASE BucketOf(b.size) # Huge
  <2> DEFINE d == BucketOf(b.size)
  <2>1. d \in Buckets /\ b.size <= ClassSize[d] /\ ClassSize[d] \in Nat
    BY <1>1, <1>3, BucketOfIs, BucketFacts
  <2>2. Has(L, G, b.hdr, d)
    BY DEF Has
  <2> HIDE DEF d
  <2>3. /\ b.hdr \in Words /\ b.hdr + 8 \in Words /\ h.mem[b.hdr] = b.hdr + 16
        /\ EndOf(b.hdr, d) = b.hdr + 16 + ClassSize[d]
        /\ EndOf(b.hdr, d) \in Nat /\ EndOf(b.hdr, d) >= b.hdr + 32
    BY <1>1, <2>1, <2>2, BlockWords DEF EndOf, InPlace
  <2>4. \A w \in {b.hdr, b.hdr + 8} \cup WordsFrom(b.hdr + 16, b.size) :
            w \in Nat /\ b.hdr <= w /\ w < EndOf(b.hdr, d)
    BY <1>1, <2>1, <2>3 DEF WordsFrom
  <2> QED  BY <1>1, <1>3, <2>1, <2>2, <2>3, <2>4 DEF d
<1> QED  BY <1>2, <1>3

(* A block of a bucket that reads as zero.                                  *)
Zeroes(m, a, size) ==
    BucketOf(size) # Huge => m[a] = a + 16 /\ \A w \in WordsFrom(a + 16, size) : m[w] = 0

(* A block is carved out of memory nobody used.                             *)
LEMMA BumpKeeps ==
    ASSUME NEW h, NEW L, NEW G, Books(h, L, G), NEW size \in Sizes \cup {16},
           NEW c \in Buckets, BucketOf(size) = c, InBounds(h, c, size),
           NEW t, t = Bump(h, c, size)
    PROVE  /\ Gives(h, G, t, {[hdr |-> h.curr, size |-> size]})
           /\ t.fp = h.curr /\ t.end = h.end /\ Zeroes(t.mem, t.fp, size)
<1> DEFINE f == h.curr
           rec == [hdr |-> f, size |-> size]
           e == EndOf(f, c)
<1>1. /\ h \in HeapRecs /\ f \in Nat /\ HeapBase <= f /\ f <= HeapEnd /\ f % 16 = 0
      /\ h.mem \in [Words -> Nat] /\ HeapBase \in Nat /\ HeapEnd \in Nat
  <2>1. h \in HeapRecs
    BY DEF Books
  <2> QED  BY <2>1, WordFacts DEF HeapRecs
<1>2. /\ size \in Nat /\ size <= ClassSize[c] /\ ClassSize[c] \in Nat
      /\ ClassSize[c] % 16 = 0 /\ ClassSize[c] >= 16 /\ BucketOf(size) # Huge
  BY BucketOfIs, BucketFacts, WordFacts
<1>3. BumpStart(h) = f + 16 /\ BumpEnd(h, c, size) = e
  BY <1>1, AlignSmall DEF BumpStart, BumpEnd, FatPtr, EndOf
<1>4. t = [h EXCEPT !.mem = WithHeader(h.mem, f, f + 16, f + 16 + size),
                    !.new = h.new \cup {rec}, !.curr = e, !.fp = f]
  BY <1>1, <1>3 DEF Bump, HeapRecs
<1>5. e = f + 16 + ClassSize[c] /\ e <= HeapEnd
  BY <1>3 DEF EndOf, InBounds
<1> HIDE DEF f, rec, e
<1>6. /\ t.heads = h.heads /\ t.curr = e /\ t.maps = h.maps /\ t.new = h.new \cup {rec}
      /\ t.fp = f /\ t.end = h.end
      /\ t.mem = WithHeader(h.mem, f, f + 16, f + 16 + size)
  BY <1>1, <1>4 DEF HeapRecs
<1>7. e \in Nat /\ e >= f + 32 /\ e % 16 = 0
  BY <1>1, <1>2, <1>5
<1>8. /\ \A w \in Nat : f <= w /\ w < e /\ w % 8 = 0 => w \in Words
      /\ \A w \in Words : w \in Nat
  BY <1>1, <1>5, <1>7, WordFacts
<1>9. f \in Words /\ f + 8 \in Words
  <2>1. f < e /\ f + 8 < e /\ f % 8 = 0 /\ (f + 8) % 8 = 0 /\ f <= f + 8
    BY <1>1, <1>7
  <2> QED  BY <1>1, <1>8, <2>1
<1>10. /\ t.mem \in [Words -> Nat] /\ t.mem[f] = f + 16 /\ t.mem[f + 8] = f + 16 + size
       /\ \A w \in Words : w # f /\ w # f + 8 => t.mem[w] = h.mem[w]
  <2> DEFINE x == f + 16
             y == f + 16 + size
             m == h.mem
             n == WithHeader(m, f, x, y)
  <2>1. x \in Nat /\ y \in Nat /\ m \in [Words -> Nat]
    BY <1>1, <1>2
  <2> HIDE DEF x, y, m
  <2>2. f \in Nat /\ x \in Nat /\ y \in Nat /\ m \in [Words -> Nat]
    BY <1>1, <2>1
  <2>3. f \in Words /\ f + 8 \in Words
    BY <1>9
  <2>4. n \in [Words -> Nat]
    BY <2>2, HeaderIs
  <2>6. \A w \in Words : w # f /\ w # f + 8 => n[w] = m[w]
    BY <2>2, HeaderIs
  <2>5. n[f] = x /\ n[f + 8] = y
    BY <2>2, <2>3, HeaderIs
  <2> QED  BY <1>6, <2>4, <2>5, <2>6 DEF x, y, m
<1>11. \A w \in Words : w < f \/ w >= f + 16 => t.mem[w] = h.mem[w]
  BY <1>1, <1>8, <1>10
<1>12. ASSUME NEW b \in Nat, NEW d \in Buckets, Has(L, G, b, d)
       PROVE  /\ InPlace(h, b, d) /\ EndOf(b, d) <= f /\ EndOf(b, d) \in Nat
              /\ EndOf(b, d) >= b + 32 /\ b \in Words /\ b + 16 \in Words
              /\ t.mem[b] = b + 16 /\ t.mem[b + 16] = h.mem[b + 16]
  <2>1. /\ InPlace(h, b, d) /\ EndOf(b, d) <= f /\ EndOf(b, d) \in Nat
        /\ EndOf(b, d) >= b + 32 /\ b \in Words /\ b + 16 \in Words
        /\ h.mem[b] = b + 16
    BY <1>12, BlockWords DEF InPlace, f
  <2>2. b < f /\ b + 16 < f
    BY <1>1, <2>1
  <2> QED  BY <1>11, <2>1, <2>2
<1>13. \A b \in Nat, d \in Buckets :
           Has(L, G \cup {rec}, b, d) <=> Has(L, G, b, d) \/ (b = f /\ d = c)
  <2>1. rec.hdr = f /\ BucketOf(rec.size) = c
    BY DEF rec
  <2> QED  BY <2>1 DEF Has
<1>14. t \in HeapRecs /\ rec \in HeldRecs
  <2>1. rec \in HeldRecs
    BY <1>1, <1>2 DEF rec, HeldRecs
  <2>2. e \in HeapBase .. HeapEnd /\ e % 16 = 0
    BY <1>1, <1>5, <1>7
  <2> QED  BY <1>1, <1>4, <1>10, <1>6, <2>1, <2>2 DEF HeapRecs
<1>15. BlocksOK(t, L, G \cup {rec})
  <2> SUFFICES ASSUME NEW b \in Nat, NEW d \in Buckets, Has(L, G, b, d) \/ (b = f /\ d = c)
               PROVE  InPlace(t, b, d)
    BY <1>13 DEF BlocksOK
  <2>1. CASE Has(L, G, b, d)
    BY <1>1, <1>6, <1>7, <1>12, <2>1 DEF InPlace
  <2>2. CASE b = f /\ d = c
    BY <1>1, <1>6, <1>7, <1>10, <2>2 DEF InPlace, e
  <2> QED  BY <2>1, <2>2
<1>16. ApartOK(L, G \cup {rec})
  <2> SUFFICES ASSUME NEW a \in Nat, NEW x \in Nat, NEW d \in Buckets, NEW y \in Buckets,
                      Has(L, G, a, d) \/ (a = f /\ d = c),
                      Has(L, G, x, y) \/ (x = f /\ y = c)
               PROVE  \/ a = x /\ d = y
                      \/ EndOf(a, d) <= x
                      \/ EndOf(x, y) <= a
    BY <1>13 DEF ApartOK
  <2> QED  BY <1>12 DEF Books, ApartOK
<1>17. CoverOK(t, L, G \cup {rec})
  <2> SUFFICES ASSUME NEW w \in HeapBase .. e - 1
               PROVE  \E a \in Nat, d \in Buckets :
                          Has(L, G \cup {rec}, a, d) /\ a <= w /\ w < EndOf(a, d)
    BY <1>6 DEF CoverOK
  <2>1. CASE w < f
    <3>1. w \in HeapBase .. h.curr - 1
      BY <1>1, <1>7, <2>1 DEF f
    <3> QED  BY <1>13, <3>1 DEF Books, CoverOK
  <2>2. CASE ~ w < f
    <3>1. f <= w /\ w < EndOf(f, c)
      BY <1>1, <1>7, <2>2 DEF e
    <3> QED  BY <1>1, <1>13, <3>1
  <2> QED  BY <2>1, <2>2
<1>18. ListsOK(t, L)
  <2> SUFFICES ASSUME NEW d \in Buckets  PROVE IsFreeList(t.mem, h.heads[d], L[d])
    BY <1>6 DEF ListsOK, Books
  <2>1. IsFreeList(h.mem, h.heads[d], L[d])
    BY DEF Books, ListsOK
  <2>2. \A x \in FreeAt(L[d]) : x \in Nat
    BY <2>1 DEF IsFreeList, FreeAt
  <2>3. \A x \in FreeAt(L[d]) : t.mem[x + 16] = h.mem[x + 16]
    BY <1>12, <2>2 DEF Has
  <2> QED  BY <2>1, <2>3, ListKept
<1>19. /\ \A b \in G : b.hdr # f
       /\ \A d \in Buckets : f \notin FreeAt(L[d])
  <2>1. \A d \in Buckets : ~ Has(L, G, f, d)
    BY <1>1, <1>12
  <2>2. ASSUME NEW b \in G, b.hdr = f  PROVE FALSE
    <3>1. b.hdr \in Nat /\ b.size \in Nat
      BY HolderWords
    <3>2. CASE BucketOf(b.size) = Huge
      <4>1. HugeOK(h, b)
        BY <3>2, HolderWords
      <4>2. b.hdr >= HeapEnd
        BY <4>1, WordFacts DEF HugeOK
      <4> QED  BY <1>1, <1>5, <1>7, <2>2, <4>2
    <3>3. CASE BucketOf(b.size) # Huge
      BY <2>1, <2>2, <3>3, HolderWords
    <3> QED  BY <3>2, <3>3
  <2> QED  BY <2>1, <2>2 DEF Has
<1>20. OneOwner(L, G \cup {rec})
  <2>1. rec.hdr = f
    BY DEF rec
  <2> QED  BY <1>19, <2>1 DEF Books, OneOwner
<1>21. ASSUME NEW b \in G  PROVE Same(h.mem, t.mem, b)
  <2>1. CASE BucketOf(b.size) = Huge
    <3>1. /\ HugeOK(h, b)
          /\ \A w \in {b.hdr, b.hdr + 8} \cup WordsFrom(h.mem[b.hdr], b.size) :
                 w \in Nat /\ b.hdr <= w
      BY <2>1, HolderWords
    <3>2. b.hdr >= HeapEnd /\ b.hdr \in Nat
      BY <3>1, WordFacts DEF HugeOK
    <3>3. \A w \in {b.hdr, b.hdr + 8} \cup WordsFrom(h.mem[b.hdr], b.size) : w >= f + 16
      BY <1>1, <1>5, <1>7, <3>1, <3>2
    <3> QED  BY <1>11, <3>3, HolderWords DEF Same
  <2>2. CASE BucketOf(b.size) # Huge
    <3>1. /\ Has(L, G, b.hdr, BucketOf(b.size)) /\ BucketOf(b.size) \in Buckets
          /\ b.hdr \in Nat
          /\ \A w \in {b.hdr, b.hdr + 8} \cup WordsFrom(h.mem[b.hdr], b.size) :
                 w \in Nat /\ w < EndOf(b.hdr, BucketOf(b.size))
      BY <2>2, HolderWords
    <3>2. EndOf(b.hdr, BucketOf(b.size)) <= f /\ EndOf(b.hdr, BucketOf(b.size)) \in Nat
      BY <1>12, <3>1
    <3>3. \A w \in {b.hdr, b.hdr + 8} \cup WordsFrom(h.mem[b.hdr], b.size) : w < f
      BY <1>1, <3>1, <3>2
    <3> QED  BY <1>11, <3>3, HolderWords DEF Same
  <2> QED  BY <2>1, <2>2
<1>22. HeldOK(t, G \cup {rec})
  <2>1. \A b \in G : HolderOK(h, b)
    BY HolderIs DEF Books
  <2>2. \A b \in G : HolderOK(t, b)
    BY <1>6, <1>21, <2>1, HolderKept
  <2>3. rec.hdr = f /\ rec.size = size
    BY DEF rec
  <2>4. HolderOK(t, rec)
    BY <1>2, <1>10, <1>14, <2>3 DEF HolderOK
  <2> QED  BY <2>2, <2>4, HolderIs
<1>23. \A w \in Words : f <= w /\ w < HeapEnd => h.mem[w] = 0
  BY DEF Books, FreshOK, f
<1>24. FreshOK(t)
  <2>1. \A w \in Words : e <= w => w >= f + 16 /\ f <= w
    BY <1>1, <1>7, <1>8
  <2> QED  BY <1>6, <1>11, <1>23, <2>1 DEF FreshOK
<1>25. Books(t, L, G \cup {rec})
  BY <1>14, <1>15, <1>16, <1>17, <1>18, <1>20, <1>22, <1>24 DEF Books
<1>26. {rec} \cap G = {} /\ IsFiniteSet({rec})
  <2>1. rec.hdr = f
    BY DEF rec
  <2>2. IsFiniteSet({rec})
    BY FS_Singleton
  <2> QED  BY <1>19, <2>1, <2>2
<1>27. Gives(h, G, t, {rec})
  BY <1>6, <1>21, <1>25, <1>26 DEF Gives, Untouched
<1>28. \A w \in WordsFrom(f + 16, size) : t.mem[w] = 0
  <2> SUFFICES ASSUME NEW w \in WordsFrom(f + 16, size)  PROVE t.mem[w] = 0
    OBVIOUS
  <2>1. w \in f + 16 .. f + 16 + size - 1 /\ w % 8 = 0
    BY DEF WordsFrom, Word
  <2>2. w \in Nat /\ f + 16 <= w /\ f <= w /\ w < e /\ w < HeapEnd
    BY <1>1, <1>2, <1>5, <2>1
  <2>3. w \in Words
    BY <1>8, <2>1, <2>2
  <2> QED  BY <1>11, <1>23, <2>2, <2>3
<1> QED  BY <1>1, <1>6, <1>10, <1>27, <1>28 DEF f, rec, Zeroes

(* The words of two mappings are different words.                           *)
LEMMA MapsApart ==
    ASSUME NEW b \in HeldRecs, b.hdr \in MapAddrs, b.size \in Sizes,
           NEW a \in MapAddrs, a # b.hdr, NEW s \in Sizes, NEW w \in Nat,
           b.hdr <= w, w < b.hdr + MapLen(b.size)
    PROVE  w # a /\ w # a + 8
<1>1. /\ a \in Nat /\ b.hdr \in Nat
      /\ MapLen(s) \in Nat /\ MapLen(s) >= 32 /\ MapLen(b.size) \in Nat
      /\ a < b.hdr => a + MapLen(s) <= b.hdr
      /\ b.hdr < a => b.hdr + MapLen(b.size) <= a
  <2>1. s \in Nat /\ b.size \in Nat
    BY WordFacts
  <2> QED  BY <2>1, WordFacts
<1> QED  BY <1>1

(* A mapping of its own.                                                    *)
LEMMA MapKeeps ==
    ASSUME NEW h, NEW L, NEW G, Books(h, L, G), NEW size \in Sizes,
           BucketOf(size) = Huge, NEW at \in MapAddrs, \A m \in h.maps : m.at # at,
           NEW t, t = MapAt(h, size, at)
    PROVE  /\ Gives(h, G, t, {[hdr |-> at, size |-> size]})
           /\ t.fp = at /\ t.end = h.end /\ t.fp \in Nat
<1> DEFINE rec == [hdr |-> at, size |-> size]
           len == MapLen(size)
           map == [at |-> at, len |-> len]
<1>1. /\ h \in HeapRecs /\ h.mem \in [Words -> Nat] /\ h.curr \in Nat /\ h.curr <= HeapEnd
      /\ HeapBase \in Nat \ {0} /\ HeapEnd \in Nat /\ HeapBase <= HeapEnd
  <2>1. h \in HeapRecs
    BY DEF Books
  <2> QED  BY <2>1, WordFacts DEF HeapRecs
<1>2. /\ size \in Nat /\ at \in Nat /\ at >= HeapEnd /\ at \in Words /\ at + 8 \in Words
      /\ len \in Nat /\ len >= 32 /\ at # Null
  <2>1. size \in Nat
    BY WordFacts
  <2>2. at \in Nat /\ at >= HeapEnd /\ at \in Words /\ at + 8 \in Words
    BY WordFacts
  <2>3. len \in Nat /\ len >= size + 32
    BY WordFacts
  <2> QED  BY <1>1, <2>1, <2>2, <2>3 DEF Null
<1>3. t = [h EXCEPT !.mem = WithHeader(h.mem, at, at + 32, at + len),
                    !.maps = h.maps \cup {map}, !.new = h.new \cup {rec}, !.fp = at]
  BY <1>1, <1>2 DEF MapAt, HeapRecs, MapLen, HugeHeader
<1> HIDE DEF rec, len, map
<1>4. /\ t.heads = h.heads /\ t.curr = h.curr /\ t.maps = h.maps \cup {map}
      /\ t.new = h.new \cup {rec} /\ t.fp = at /\ t.end = h.end
      /\ t.mem = WithHeader(h.mem, at, at + 32, at + len)
  BY <1>1, <1>3 DEF HeapRecs
<1>5. /\ t.mem \in [Words -> Nat] /\ t.mem[at] = at + 32 /\ t.mem[at + 8] = at + len
      /\ \A w \in Words : w # at /\ w # at + 8 => t.mem[w] = h.mem[w]
  <2> DEFINE x == at + 32
             y == at + len
             m == h.mem
             n == WithHeader(m, at, x, y)
  <2>1. x \in Nat /\ y \in Nat /\ m \in [Words -> Nat]
    BY <1>1, <1>2
  <2> HIDE DEF x, y, m
  <2>2. at \in Nat /\ x \in Nat /\ y \in Nat /\ m \in [Words -> Nat]
    BY <1>2, <2>1
  <2>3. at \in Words /\ at + 8 \in Words
    BY <1>2
  <2>4. n \in [Words -> Nat]
    BY <2>2, HeaderIs
  <2>5. n[at] = x /\ n[at + 8] = y
    BY <2>2, <2>3, HeaderIs
  <2>6. \A w \in Words : w # at /\ w # at + 8 => n[w] = m[w]
    BY <2>2, HeaderIs
  <2> QED  BY <1>4, <2>4, <2>5, <2>6 DEF x, y, m
<1>6. \A w \in Words : w \in Nat /\ (w < HeapEnd => t.mem[w] = h.mem[w])
  BY <1>1, <1>2, <1>5, WordFacts
<1>7. rec \in HeldRecs /\ map \in [at : MapAddrs, len : Nat]
  BY <1>2 DEF rec, map, HeldRecs
<1>8. t \in HeapRecs
  BY <1>1, <1>2, <1>3, <1>4, <1>5, <1>7 DEF HeapRecs
<1>9. \A b \in Nat, d \in Buckets : Has(L, G \cup {rec}, b, d) <=> Has(L, G, b, d)
  <2>1. BucketOf(rec.size) \notin Buckets
    BY BucketFacts DEF rec
  <2> QED  BY <2>1 DEF Has
<1>10. ASSUME NEW b \in Nat, NEW d \in Buckets, Has(L, G, b, d)
       PROVE  b # at /\ t.mem[b] = b + 16 /\ t.mem[b + 16] = h.mem[b + 16]
  <2>1. /\ EndOf(b, d) <= h.curr /\ EndOf(b, d) \in Nat /\ EndOf(b, d) >= b + 32
        /\ b \in Words /\ b + 16 \in Words /\ h.mem[b] = b + 16
    BY <1>10, BlockWords DEF InPlace
  <2>2. b < HeapEnd /\ b + 16 < HeapEnd
    BY <1>1, <2>1
  <2> QED  BY <1>1, <1>2, <1>6, <2>1, <2>2
<1>11. ASSUME NEW b \in G  PROVE b.hdr # at /\ Same(h.mem, t.mem, b)
  <2>1. CASE BucketOf(b.size) = Huge
    <3>1. /\ HugeOK(h, b) /\ b.hdr \in Nat
          /\ \A w \in {b.hdr, b.hdr + 8} \cup WordsFrom(h.mem[b.hdr], b.size) :
                 w \in Nat /\ b.hdr <= w /\ w < b.hdr + MapLen(b.size)
      BY <2>1, HolderWords
    <3>2. b.hdr # at
      BY <3>1 DEF HugeOK
    <3>3. b \in HeldRecs /\ b.hdr \in MapAddrs /\ b.size \in Sizes
      BY <3>1 DEF Books, HeldOK, HugeOK
    <3>4. \A w \in {b.hdr, b.hdr + 8} \cup WordsFrom(h.mem[b.hdr], b.size) :
              w # at /\ w # at + 8
      BY <3>1, <3>2, <3>3, MapsApart
    <3> QED  BY <1>5, <3>2, <3>4, HolderWords DEF Same
  <2>2. CASE BucketOf(b.size) # Huge
    <3>1. /\ Has(L, G, b.hdr, BucketOf(b.size)) /\ BucketOf(b.size) \in Buckets
          /\ b.hdr \in Nat
          /\ \A w \in {b.hdr, b.hdr + 8} \cup WordsFrom(h.mem[b.hdr], b.size) :
                 w \in Nat /\ w < EndOf(b.hdr, BucketOf(b.size))
      BY <2>2, HolderWords
    <3>2. EndOf(b.hdr, BucketOf(b.size)) <= h.curr /\ EndOf(b.hdr, BucketOf(b.size)) \in Nat
      BY <3>1, BlockWords DEF InPlace
    <3>3. \A w \in {b.hdr, b.hdr + 8} \cup WordsFrom(h.mem[b.hdr], b.size) : w < HeapEnd
      BY <1>1, <3>1, <3>2
    <3> QED  BY <1>6, <1>10, <3>1, <3>3, HolderWords DEF Same
  <2> QED  BY <2>1, <2>2
<1>12. Kept(h, L, G, t.mem, at)
  <2>1. \A d \in Buckets : \A f \in FreeAt(L[d]) : f \in Nat /\ Has(L, G, f, d)
    BY DEF Books, ListsOK, IsFreeList, FreeAt, Has
  <2>2. \A w \in Words : h.curr <= w /\ w < HeapEnd => t.mem[w] = 0
    BY <1>6 DEF Books, FreshOK
  <2> QED  BY <1>10, <1>11, <2>1, <2>2 DEF Kept
<1>13. ListsOK(t, L)
  <2> SUFFICES ASSUME NEW d \in Buckets  PROVE IsFreeList(t.mem, h.heads[d], L[d])
    BY <1>4 DEF ListsOK, Books
  <2>1. IsFreeList(h.mem, h.heads[d], L[d])
    BY DEF Books, ListsOK
  <2>2. \A x \in FreeAt(L[d]) : x \in Nat
    BY <2>1 DEF IsFreeList, FreeAt
  <2>3. \A x \in FreeAt(L[d]) : t.mem[x + 16] = h.mem[x + 16]
    BY <1>10, <2>2 DEF Has
  <2> QED  BY <2>1, <2>3, ListKept
<1>14. \A d \in Buckets : at \notin FreeAt(L[d])
  BY <1>2, <1>10 DEF Has
<1>15. rec.hdr = at /\ rec.size = size
  BY DEF rec
<1>16. OneOwner(L, G \cup {rec})
  BY <1>11, <1>14, <1>15 DEF Books, OneOwner
<1>17. HeldOK(t, G \cup {rec})
  <2>1. \A b \in G : HolderOK(h, b)
    BY HolderIs DEF Books
  <2>2. \A b \in G : HolderOK(t, b)
    BY <1>4, <1>11, <2>1, HolderKept
  <2>3. HugeOK(t, rec)
    BY <1>4, <1>5, <1>15 DEF HugeOK, map, len
  <2>4. HolderOK(t, rec)
    BY <1>7, <1>15, <2>3 DEF HolderOK
  <2> QED  BY <2>2, <2>4, HolderIs
<1>18. Books(t, L, G \cup {rec})
  BY <1>4, <1>8, <1>9, <1>12, <1>13, <1>16, <1>17, SameBlocks
<1>19. {rec} \cap G = {} /\ IsFiniteSet({rec})
  <2>1. IsFiniteSet({rec})
    BY FS_Singleton
  <2> QED  BY <1>11, <1>15, <2>1
<1>20. Gives(h, G, t, {rec})
  BY <1>4, <1>11, <1>18, <1>19 DEF Gives, Untouched
<1> QED  BY <1>2, <1>4, <1>20 DEF rec

(* A holder stores into his payload and into nothing else.                  *)
LEMMA HolderStores ==
    ASSUME NEW h, NEW L, NEW G, Books(h, L, G), NEW b \in G, BucketOf(b.size) # Huge,
           NEW t, t = [h EXCEPT !.mem = Stored(h.mem, WordsFrom(h.mem[b.hdr], b.size), Data)]
    PROVE  Books(t, L, G) /\ \A d \in G : d # b => Same(h.mem, t.mem, d)
<1> DEFINE c == BucketOf(b.size)
           Z == WordsFrom(h.mem[b.hdr], b.size)
           a == b.hdr
<1>1. /\ a \in Nat /\ b.size \in Nat /\ Has(L, G, a, c) /\ c \in Buckets
      /\ h.mem[a] = a + 16 /\ h.mem[a + 8] = a + 16 + b.size /\ a + 8 \in Words
      /\ \A w \in Z : w \in Nat /\ a <= w /\ w < EndOf(a, c)
  BY HolderWords
<1>2. \A w \in Z : w >= a + 16
  BY <1>1 DEF WordsFrom
<1>3. h \in HeapRecs /\ h.mem \in [Words -> Nat]
  BY DEF Books, HeapRecs
<1> HIDE DEF c, Z, a
<1>4. /\ t.mem = Stored(h.mem, Z, Data) /\ t.heads = h.heads /\ t.curr = h.curr
      /\ t.maps = h.maps
  BY <1>3 DEF HeapRecs, Z
<1>5. /\ t.mem \in [Words -> Nat]
      /\ \A w \in Words : t.mem[w] = IF w \in Z THEN Data ELSE h.mem[w]
  BY <1>3, <1>4, StoredIs DEF Data
<1>6. Inside(h.mem, t.mem, a, c)
  BY <1>1, <1>2, <1>5 DEF Inside
<1>7. Kept(h, L, G, t.mem, a)
  BY <1>1, <1>6, InsideKeeps
<1>8. \A d \in Buckets : a \notin FreeAt(L[d])
  BY DEF Books, OneOwner, a
<1>9. t \in HeapRecs
  <2>1. DOMAIN t = DOMAIN h
    OBVIOUS
  <2> QED  BY <1>3, <1>4, <1>5 DEF HeapRecs
<1>10. ListsOK(t, L)
  <2> SUFFICES ASSUME NEW d \in Buckets  PROVE IsFreeList(t.mem, h.heads[d], L[d])
    BY <1>4 DEF ListsOK, Books
  <2>1. IsFreeList(h.mem, h.heads[d], L[d])
    BY DEF Books, ListsOK
  <2>2. \A x \in FreeAt(L[d]) : t.mem[x + 16] = h.mem[x + 16]
    BY <1>7, <1>8 DEF Kept
  <2> QED  BY <2>1, <2>2, ListKept
<1>11. \A d \in G : d # b => d.hdr # a
  BY DEF Books, OneOwner, a
<1>12. \A d \in G : d # b => Same(h.mem, t.mem, d)
  BY <1>7, <1>11 DEF Kept
<1>13. HeldOK(t, G)
  <2>1. \A d \in G : HolderOK(h, d)
    BY HolderIs DEF Books
  <2>2. \A d \in G : d # b => HolderOK(t, d)
    BY <1>4, <1>12, <2>1, HolderKept
  <2>3. t.mem[a + 8] = a + 16 + b.size
    <3>1. a + 8 \notin Z
      BY <1>1, <1>2
    <3> QED  BY <1>1, <1>5, <3>1
  <2>4. HolderOK(t, b)
    BY <2>1, <2>3 DEF HolderOK, a
  <2> QED  BY <2>2, <2>4, HolderIs
<1>14. OneOwner(L, G)
  BY DEF Books
<1> QED  BY <1>4, <1>7, <1>9, <1>10, <1>12, <1>13, <1>14, SameBlocks

(* What a call that asks for one block gives, at the address fp.            *)
Got(h, G, t, size, zero) ==
    /\ Gives(h, G, t, {[hdr |-> t.fp, size |-> size]})
    /\ t.end = "ok"
    /\ zero => Zeroes(t.mem, t.fp, size)

(* Where the kernel may map what a size needs.                              *)
MayMap(h, size, at) ==
    \/ at = Null
    \/ at \in MapAddrs /\ size \in Sizes /\ \A m \in h.maps : m.at # at

(* Take: a block of the list or of fresh heap, a mapping, or no change at   *)
(* all.                                                                     *)
LEMMA TakeServes ==
    ASSUME NEW h, NEW L, NEW G, Books(h, L, G), NEW size \in Sizes \cup {16},
           NEW at, MayMap(h, size, at), NEW zero \in BOOLEAN, h.end = "ok",
           NEW t, t = Take(h, size, zero, at)
    PROVE  \/ Got(h, G, t, size, zero)
           \/ t.end \in {"full", "fault"} /\ t = [h EXCEPT !.end = t.end]
<1> DEFINE c == BucketOf(size)
<1>1. c \in Buckets \cup {Huge} /\ Huge \notin Buckets
  <2>1. size \in Nat
    BY WordFacts
  <2> QED  BY <2>1, BucketOfIs, BucketFacts
<1>2. h \in HeapRecs
  BY DEF Books
<1> HIDE DEF c
<1>3. CASE c = Huge
  <2>1. t = MapAt(h, size, at)
    BY <1>3 DEF Take, c
  <2>2. CASE at = Null
    BY <1>2, <2>1, <2>2 DEF MapAt, HeapRecs
  <2>3. CASE at # Null
    <3>1. at \in MapAddrs /\ size \in Sizes /\ \A m \in h.maps : m.at # at
      BY <2>3 DEF MayMap
    <3>2. /\ Gives(h, G, t, {[hdr |-> at, size |-> size]})
          /\ t.fp = at /\ t.end = h.end
      BY <1>3, <2>1, <3>1, MapKeeps DEF c
    <3> QED  BY <1>3, <3>2 DEF Got, Zeroes, c
  <2> QED  BY <2>2, <2>3
<1>4. CASE c # Huge /\ h.heads[c] # Null
  <2>1. t = Pop(h, c, size, zero)
    BY <1>4 DEF Take, c
  <2>2. /\ Gives(h, G, t, {[hdr |-> h.heads[c], size |-> size]})
        /\ t.fp = h.heads[c] /\ t.end = h.end /\ t.mem[t.fp] = t.fp + 16
        /\ zero => \A w \in WordsFrom(t.fp + 16, size) : t.mem[w] = 0
    BY <1>1, <1>4, <2>1, PopKeeps DEF c
  <2> QED  BY <2>2 DEF Got, Zeroes
<1>5. CASE c # Huge /\ h.heads[c] = Null /\ InBounds(h, c, size)
  <2>1. t = Bump(h, c, size)
    BY <1>5 DEF Take, c
  <2>2. c \in Buckets /\ BucketOf(size) = c /\ InBounds(h, c, size)
    BY <1>1, <1>5 DEF c
  <2>3. /\ Gives(h, G, t, {[hdr |-> h.curr, size |-> size]})
        /\ t.fp = h.curr /\ t.end = h.end /\ Zeroes(t.mem, t.fp, size)
    BY <2>1, <2>2, BumpKeeps
  <2> QED  BY <2>3 DEF Got
<1>6. CASE c # Huge /\ h.heads[c] = Null /\ ~ InBounds(h, c, size)
  <2>1. t = [h EXCEPT !.end = "full"]
    BY <1>6 DEF Take, c
  <2> QED  BY <1>2, <2>1 DEF HeapRecs
<1> QED  BY <1>3, <1>4, <1>5, <1>6

(* A call that hands out nothing.                                           *)
LEMMA NothingGiven ==
    ASSUME NEW h, NEW L, NEW G, Books(h, L, G), NEW x \in Nat, NEW y \in Outcomes,
           NEW t, t = [h EXCEPT !.fp = x, !.end = y]
    PROVE  Gives(h, G, t, {})
<1>1. h \in HeapRecs
  BY DEF Books
<1>2. t \in HeapRecs /\ t.curr = h.curr /\ t.heads = h.heads /\ t.mem = h.mem
      /\ t.maps = h.maps /\ t.new = h.new
  BY <1>1 DEF HeapRecs
<1>3. Books(t, L, G)
  BY <1>2, SameHeap
<1>4. G \cup {} = G /\ IsFiniteSet({})
  BY FS_EmptySet
<1>5. Untouched(h.mem, t.mem, G)
  BY <1>2 DEF Untouched, Same
<1>6. \E K : Books(t, K, G \cup {})
  BY <1>3, <1>4
<1> QED  BY <1>2, <1>4, <1>5, <1>6 DEF Gives

(* rt_allocate_raw.                                                         *)
LEMMA RawServes ==
    ASSUME NEW h, NEW L, NEW G, Books(h, L, G), NEW size \in Sizes \cup {16},
           NEW at, MayMap(h, size, at), h.end = "ok", NEW t, t = Raw(h, size, at)
    PROVE  \/ Got(h, G, t, size, FALSE)
           \/ t.end \in {"dying", "exit", "fault"} /\ Gives(h, G, t, {})
<1> DEFINE u == Take(h, size, FALSE, at)
<1>1. h \in HeapRecs
  BY DEF Books
<1>2. \/ Got(h, G, u, size, FALSE)
      \/ u.end \in {"full", "fault"} /\ u = [h EXCEPT !.end = u.end]
  BY TakeServes
<1>3. t = IF u.end # "full" THEN u
          ELSE [u EXCEPT !.fp = Null, !.end = IF actors THEN "dying" ELSE "exit"]
  BY DEF Raw
<1> HIDE DEF u
<1>4. CASE Got(h, G, u, size, FALSE)
  BY <1>3, <1>4 DEF Got
<1>5. CASE u.end = "fault" /\ u = [h EXCEPT !.end = u.end]
  <2>1. t = [h EXCEPT !.fp = h.fp, !.end = "fault"] /\ h.fp \in Nat /\ t.end = "fault"
    BY <1>1, <1>3, <1>5 DEF HeapRecs
  <2> QED  BY <2>1, NothingGiven DEF Outcomes
<1>6. CASE u.end = "full" /\ u = [h EXCEPT !.end = u.end]
  <2> DEFINE y == IF actors THEN "dying" ELSE "exit"
  <2>1. y \in {"dying", "exit"}
    OBVIOUS
  <2> HIDE DEF y
  <2>2. t = [h EXCEPT !.fp = Null, !.end = y] /\ t.end = y
    BY <1>1, <1>3, <1>6 DEF HeapRecs, y
  <2> QED  BY <2>1, <2>2, NothingGiven DEF Outcomes, Null
<1> QED  BY <1>2, <1>4, <1>5, <1>6

(* Two calls in a row leave alone what both do.                             *)
LEMMA UntouchedTwice ==
    ASSUME NEW m, NEW n, NEW o, NEW G, NEW F, Untouched(m, n, G), Untouched(n, o, F),
           G \subseteq F
    PROVE  Untouched(m, o, G)
<1> SUFFICES ASSUME NEW b \in G  PROVE Same(m, o, b)
  BY DEF Untouched
<1>1. Same(m, n, b) /\ Same(n, o, b)
  BY DEF Untouched
<1>2. n[b.hdr] = m[b.hdr]
  BY <1>1 DEF Same
<1> QED  BY <1>1, <1>2 DEF Same

(* A block that reads as zero still does if its words are left alone.       *)
LEMMA ZeroesKept ==
    ASSUME NEW h, NEW L, NEW G, Books(h, L, G), NEW b \in G, NEW n,
           Same(h.mem, n, b), Zeroes(h.mem, b.hdr, b.size)
    PROVE  Zeroes(n, b.hdr, b.size)
<1> SUFFICES ASSUME BucketOf(b.size) # Huge
             PROVE  n[b.hdr] = b.hdr + 16 /\ \A w \in WordsFrom(b.hdr + 16, b.size) : n[w] = 0
  BY DEF Zeroes
<1> DEFINE c == BucketOf(b.size)
<1>1. /\ h.mem[b.hdr] = b.hdr + 16 /\ Has(L, G, b.hdr, c) /\ c \in Buckets /\ b.hdr \in Nat
      /\ \A w \in {b.hdr, b.hdr + 8} \cup WordsFrom(h.mem[b.hdr], b.size) :
             w \in Nat /\ b.hdr <= w /\ w < EndOf(b.hdr, c)
  BY HolderWords
<1> HIDE DEF c
<1>2. \A w \in Nat : b.hdr <= w /\ w < EndOf(b.hdr, c) /\ w % 8 = 0 => w \in Words
  BY <1>1, BlockWords
<1>3. \A w \in WordsFrom(b.hdr + 16, b.size) : w \in Words /\ h.mem[w] = 0
  BY <1>1, <1>2 DEF Zeroes, WordsFrom, Word
<1> QED  BY <1>1, <1>3 DEF Same

(* The tuple rt_allocate_raw makes room for.                                *)
LEMMA RawTupleServes ==
    ASSUME NEW h, NEW L, NEW G, Books(h, L, G), h.end = "ok", NEW x, x = RawTuple(h)
    PROVE  \E N : Gives(h, G, x, N) /\ x.end \in {"ok", "fault", "exit"}
<1> DEFINE t == Raw(h, 16, Null)
           rec == [hdr |-> t.fp, size |-> 16]
<1>1. \/ Got(h, G, t, 16, FALSE)
      \/ t.end \in {"dying", "exit", "fault"} /\ Gives(h, G, t, {})
  BY RawServes DEF MayMap
<1>2. x = IF t.end = "dying" THEN [t EXCEPT !.end = "fault"]
          ELSE IF t.end # "ok" THEN t
          ELSE [t EXCEPT !.mem = Stored(t.mem, WordsFrom(t.mem[t.fp], 16), Data)]
  BY DEF RawTuple
<1> HIDE DEF t
<1>3. CASE t.end # "ok"
  <2>1. t.end \in {"dying", "exit", "fault"} /\ Gives(h, G, t, {})
    BY <1>1, <1>3 DEF Got
  <2>2. PICK K : Books(t, K, G \cup {})
    BY <2>1 DEF Gives
  <2>3. t \in HeapRecs
    BY <2>2 DEF Books
  <2>4. x = [t EXCEPT !.end = x.end] /\ x.end \in {"exit", "fault"}
    BY <1>2, <2>1, <2>3 DEF HeapRecs
  <2>5. x \in HeapRecs /\ x.curr = t.curr /\ x.heads = t.heads /\ x.mem = t.mem
        /\ x.maps = t.maps /\ x.new = t.new
    BY <2>3, <2>4 DEF HeapRecs, Outcomes
  <2>6. Books(x, K, G \cup {})
    BY <2>2, <2>5, SameHeap
  <2> QED  BY <2>1, <2>4, <2>5, <2>6 DEF Gives
<1>4. CASE t.end = "ok"
  <2>1. Gives(h, G, t, {rec})
    BY <1>1, <1>4 DEF Got
  <2>2. PICK K : Books(t, K, G \cup {rec})
    BY <2>1 DEF Gives
  <2>3. BucketOf(rec.size) # Huge
    <3>1. BucketOf(16) = Huge => t.end = "fault"
      <4> DEFINE u == Take(h, 16, FALSE, Null)
      <4>1. h \in HeapRecs
        BY DEF Books
      <4>2. BucketOf(16) = Huge => u = [h EXCEPT !.end = "fault"]
        BY DEF Take, MapAt
      <4>3. t = IF u.end # "full" THEN u
                ELSE [u EXCEPT !.fp = Null, !.end = IF actors THEN "dying" ELSE "exit"]
        BY DEF Raw, t
      <4> HIDE DEF u
      <4> QED  BY <4>1, <4>2, <4>3 DEF HeapRecs
    <3> QED  BY <1>4, <3>1
  <2>4. x = [t EXCEPT !.mem = Stored(t.mem, WordsFrom(t.mem[rec.hdr], rec.size), Data)]
    BY <1>2, <1>4
  <2>5. rec \in G \cup {rec} /\ rec \notin G
    BY <2>1 DEF Gives
  <2> HIDE DEF rec
  <2>6. Books(x, K, G \cup {rec}) /\ \A d \in G \cup {rec} : d # rec => Same(t.mem, x.mem, d)
    BY <2>2, <2>3, <2>4, <2>5, HolderStores
  <2>7. Untouched(t.mem, x.mem, G)
    BY <2>5, <2>6 DEF Untouched
  <2>8. Untouched(h.mem, x.mem, G)
    BY <2>1, <2>7, UntouchedTwice DEF Gives
  <2>9. x.new = t.new /\ x.end = "ok"
    <3>1. t \in HeapRecs
      BY <2>2 DEF Books
    <3> QED  BY <1>4, <2>4, <3>1 DEF HeapRecs
  <2> QED  BY <2>1, <2>6, <2>8, <2>9 DEF Gives
<1> QED  BY <1>3, <1>4

(* rt_allocate.                                                             *)
LEMMA TupleServes ==
    ASSUME NEW h, NEW L, NEW G, Books(h, L, G), h.end = "ok", NEW size \in Sizes \cup {16},
           NEW at, MayMap(h, size, at), NEW x, x = Tuple(h, size, at)
    PROVE  \E N : /\ Gives(h, G, x, N) /\ x.end \in {"ok", "fault", "exit"}
                  /\ x.end = "ok" /\ Take(h, size, TRUE, at).end # "full" =>
                         Zeroes(x.mem, x.fp, size)
<1> DEFINE t == Take(h, size, TRUE, at)
           rec == [hdr |-> t.fp, size |-> size]
           y == RawTuple(t)
<1>1. \/ Got(h, G, t, size, TRUE)
      \/ t.end \in {"full", "fault"} /\ t = [h EXCEPT !.end = t.end]
  BY TakeServes
<1>2. x = CASE t.end = "full" -> RawTuple([h EXCEPT !.end = "ok"])
            [] t.end = "ok" /\ arena < TupleBytes -> [y EXCEPT !.fp = t.fp]
            [] OTHER -> t
  BY DEF Tuple
<1>3. h \in HeapRecs
  BY DEF Books
<1> HIDE DEF t, y
<1>4. CASE t.end = "full"
  <2>1. [h EXCEPT !.end = "ok"] = h
    BY <1>3 DEF HeapRecs
  <2>2. x = RawTuple(h)
    BY <1>2, <1>4, <2>1
  <2>3. PICK N : Gives(h, G, x, N) /\ x.end \in {"ok", "fault", "exit"}
    BY <2>2, RawTupleServes
  <2> QED  BY <1>4, <2>3 DEF t
<1>5. CASE t.end = "fault"
  <2>1. x = t /\ t = [h EXCEPT !.end = "fault"]
    BY <1>1, <1>2, <1>5 DEF Got
  <2>2. t = [h EXCEPT !.fp = h.fp, !.end = "fault"] /\ h.fp \in Nat
    BY <1>3, <2>1 DEF HeapRecs
  <2>3. Gives(h, G, t, {})
    BY <2>2, NothingGiven DEF Outcomes
  <2> QED  BY <1>5, <2>1, <2>3
<1>6. CASE t.end = "ok" /\ ~ arena < TupleBytes
  <2>1. x = t /\ Got(h, G, t, size, TRUE)
    BY <1>1, <1>2, <1>6
  <2>2. Gives(h, G, x, {rec}) /\ x.end = "ok" /\ Zeroes(x.mem, x.fp, size)
    BY <2>1 DEF Got
  <2> QED  BY <2>2
<1>7. CASE t.end = "ok" /\ arena < TupleBytes
  <2>1. x = [y EXCEPT !.fp = t.fp] /\ Got(h, G, t, size, TRUE)
    BY <1>1, <1>2, <1>7
  <2>2. Gives(h, G, t, {rec}) /\ Zeroes(t.mem, t.fp, size)
    BY <2>1 DEF Got
  <2>3. PICK K : Books(t, K, G \cup {rec})
    BY <2>2 DEF Gives
  <2>4. PICK N : Gives(t, G \cup {rec}, y, N) /\ y.end \in {"ok", "fault", "exit"}
    BY <1>7, <2>3, RawTupleServes DEF y
  <2>5. PICK M : Books(y, M, (G \cup {rec}) \cup N)
    BY <2>4 DEF Gives
  <2>6. y \in HeapRecs /\ t \in HeapRecs
    BY <2>3, <2>5 DEF Books
  <2>7. /\ x \in HeapRecs /\ x.curr = y.curr /\ x.heads = y.heads /\ x.mem = y.mem
        /\ x.maps = y.maps /\ x.new = y.new /\ x.fp = t.fp /\ x.end = y.end
    BY <2>1, <2>6 DEF HeapRecs
  <2>8. Books(x, M, (G \cup {rec}) \cup N)
    BY <2>5, <2>7, SameHeap
  <2>9. (G \cup {rec}) \cup N = G \cup ({rec} \cup N)
    OBVIOUS
  <2>10. /\ x.new = h.new \cup ({rec} \cup N) /\ ({rec} \cup N) \cap G = {}
         /\ IsFiniteSet({rec} \cup N)
    <3>1. IsFiniteSet({rec}) /\ IsFiniteSet(N)
      BY <2>2, <2>4 DEF Gives
    <3>2. IsFiniteSet({rec} \cup N)
      BY <3>1, FS_Union
    <3> QED  BY <2>2, <2>4, <2>7, <3>2 DEF Gives
  <2>11. Untouched(h.mem, x.mem, G) /\ Untouched(t.mem, x.mem, G \cup {rec})
    <3>1. Untouched(t.mem, x.mem, G \cup {rec})
      BY <2>4, <2>7 DEF Gives
    <3>2. Untouched(h.mem, t.mem, G)
      BY <2>2 DEF Gives
    <3> QED  BY <3>1, <3>2, UntouchedTwice
  <2>12. Gives(h, G, x, {rec} \cup N)
    BY <2>8, <2>9, <2>10, <2>11 DEF Gives
  <2>13. Zeroes(x.mem, x.fp, size)
    <3>1. rec.hdr = t.fp /\ rec.size = size
      OBVIOUS
    <3> HIDE DEF rec
    <3>2. Same(t.mem, x.mem, rec)
      BY <2>11 DEF Untouched
    <3>3. Zeroes(x.mem, rec.hdr, rec.size)
      BY <2>2, <2>3, <3>1, <3>2, ZeroesKept
    <3> QED  BY <2>7, <3>1, <3>3
  <2>14. x.end \in {"ok", "fault", "exit"}
    BY <2>4, <2>7
  <2> QED  BY <2>12, <2>13, <2>14
<1> QED  BY <1>1, <1>4, <1>5, <1>6, <1>7 DEF Got

(* A block linked at the head of a list.                                    *)
LEMMA PushList ==
    ASSUME NEW m, NEW first, NEW q, IsFreeList(m, first, q), NEW a \in Nat,
           a \notin FreeAt(q), NEW n, n[a + 16] = first,
           \A f \in FreeAt(q) : n[f + 16] = m[f + 16]
    PROVE  /\ IsFreeList(n, a, << a >> \o q)
           /\ FreeAt(<< a >> \o q) = {a} \cup FreeAt(q)
<1> DEFINE p == << a >> \o q
           len == Len(q)
<1>1. /\ q \in Seq(Nat) /\ len \in Nat /\ first = IF q = << >> THEN Null ELSE q[1]
      /\ \A i, j \in 1 .. len : q[i] = q[j] => i = j
      /\ \A i \in 1 .. len : m[q[i] + 16] = IF i = len THEN Null ELSE q[i + 1]
  <2>1. q \in Seq(Nat)
    BY DEF IsFreeList
  <2>2. len \in Nat
    BY <2>1
  <2> QED  BY <2>1, <2>2, Zenon DEF IsFreeList
<1>2. /\ p \in Seq(Nat) /\ Len(p) = len + 1 /\ p[1] = a
      /\ \A i \in 1 .. len : p[i + 1] = q[i]
  <2>1. << a >> \in Seq(Nat) /\ Len(<< a >>) = 1 /\ << a >>[1] = a
    OBVIOUS
  <2>2. q \in Seq(Nat)
    BY <1>1
  <2>3. /\ p \in Seq(Nat) /\ Len(p) = 1 + len
        /\ \A i \in 1 .. 1 + len : p[i] = IF i <= 1 THEN << a >>[i] ELSE q[i - 1]
    BY <2>1, <2>2, ConcatProperties
  <2>4. len \in Nat
    BY <1>1
  <2> HIDE DEF p, len
  <2>5. Len(p) = len + 1 /\ p[1] = a
    BY <2>1, <2>3, <2>4
  <2>6. ASSUME NEW i \in 1 .. len  PROVE p[i + 1] = q[i]
    <3>1. i + 1 \in 1 .. 1 + len /\ ~ (i + 1 <= 1) /\ (i + 1) - 1 = i
      BY <2>4
    <3> QED  BY <2>3, <3>1
  <2> QED  BY <2>3, <2>5, <2>6
<1>3. q = << >> <=> len = 0
  BY <1>1, EmptySeq
<1>4. p # << >>
  BY <1>1, <1>2, EmptySeq
<1> HIDE DEF p, len
<1>5. \A i \in 1 .. len + 1 : i = 1 \/ (i - 1 \in 1 .. len /\ p[i] = q[i - 1])
  <2> TAKE i \in 1 .. len + 1
  <2>1. i # 1 => i - 1 \in 1 .. len /\ (i - 1) + 1 = i
    BY <1>1
  <2> QED  BY <1>2, <2>1
<1>6. \A i \in 1 .. len : q[i] \in FreeAt(q) /\ q[i] # a
  BY DEF FreeAt, len
<1>7. \A i, j \in 1 .. Len(p) : p[i] = p[j] => i = j
  <2> SUFFICES ASSUME NEW i \in 1 .. len + 1, NEW j \in 1 .. len + 1, p[i] = p[j]
               PROVE  i = j
    BY <1>2
  <2>1. CASE i = 1
    <3>1. j # 1 => p[j] # a
      BY <1>5, <1>6
    <3> QED  BY <1>2, <2>1, <3>1
  <2>2. CASE j = 1
    <3>1. i # 1 => p[i] # a
      BY <1>5, <1>6
    <3> QED  BY <1>2, <2>2, <3>1
  <2>3. CASE i # 1 /\ j # 1
    <3>1. i - 1 \in 1 .. len /\ j - 1 \in 1 .. len /\ q[i - 1] = q[j - 1]
      BY <1>5, <2>3
    <3>2. i - 1 = j - 1
      BY <1>1, <3>1
    <3> QED  BY <3>2
  <2> QED  BY <2>1, <2>2, <2>3
<1>8. \A i \in 1 .. Len(p) : n[p[i] + 16] = IF i = Len(p) THEN Null ELSE p[i + 1]
  <2> SUFFICES ASSUME NEW i \in 1 .. len + 1
               PROVE  n[p[i] + 16] = IF i = len + 1 THEN Null ELSE p[i + 1]
    BY <1>2
  <2>1. CASE i = 1
    <3>1. len # 0 => 1 \in 1 .. len
      BY <1>1
    <3>2. len # 0 => p[1 + 1] = q[1]
      BY <1>2, <3>1
    <3>3. 1 = len + 1 <=> len = 0
      BY <1>1
    <3>4. n[p[1] + 16] = first
      BY <1>2
    <3> QED  BY <1>1, <1>3, <2>1, <3>2, <3>3, <3>4
  <2>2. CASE i # 1
    <3>1. i - 1 \in 1 .. len /\ p[i] = q[i - 1] /\ (i = len + 1 <=> i - 1 = len)
      BY <1>1, <1>5, <2>2
    <3>2. n[p[i] + 16] = m[q[i - 1] + 16]
      BY <1>6, <3>1
    <3>3. m[q[i - 1] + 16] = IF i - 1 = len THEN Null ELSE q[(i - 1) + 1]
      BY <1>1, <3>1
    <3>4. (i - 1) + 1 = i
      OBVIOUS
    <3>5. i # len + 1 => i \in 1 .. len
      BY <1>1
    <3>6. i # len + 1 => p[i + 1] = q[i]
      BY <1>2, <3>5
    <3> QED  BY <3>1, <3>2, <3>3, <3>4, <3>6
  <2> QED  BY <2>1, <2>2
<1>9. IsFreeList(n, a, p)
  BY <1>2, <1>4, <1>7, <1>8 DEF IsFreeList
<1>10. FreeAt(p) \subseteq {a} \cup FreeAt(q)
  <2> SUFFICES ASSUME NEW x \in FreeAt(p)  PROVE x \in {a} \cup FreeAt(q)
    OBVIOUS
  <2>1. PICK i \in 1 .. len + 1 : x = p[i]
    BY <1>2 DEF FreeAt
  <2> QED  BY <1>2, <1>5, <1>6, <2>1
<1>11. {a} \cup FreeAt(q) \subseteq FreeAt(p)
  <2>1. 1 \in 1 .. len + 1 /\ \A i \in 1 .. len : i + 1 \in 1 .. len + 1
    BY <1>1
  <2>2. a \in FreeAt(p)
    BY <1>2, <2>1 DEF FreeAt
  <2>3. \A i \in 1 .. len : q[i] \in FreeAt(p)
    BY <1>2, <2>1 DEF FreeAt
  <2> QED  BY <2>2, <2>3 DEF FreeAt, len
<1> QED  BY <1>9, <1>10, <1>11 DEF p

(* The pages rt_free gives back lie behind the link, in the same block.     *)
LEMMA DivFloor ==
    ASSUME NEW k \in Nat \ {0}, NEW x \in Int  PROVE (x \div k) * k <= x
  OBVIOUS

(* The pages rt_free gives back lie inside the block that is freed.         *)
LEMMA AdvisedInside ==
    ASSUME NEW start \in Nat, NEW c \in Buckets, NEW w \in Advised(start, c)
    PROVE  w \in Nat /\ start + 8 <= w /\ w < start + ClassSize[c]
<1> DEFINE from == AlignUp(start + 8, Page)
           left == start + ClassSize[c] - from
           len == (left \div Page) * Page
<1>1. Page \in Nat \ {0} /\ ClassSize[c] \in Nat
  BY WordFacts, BucketFacts
<1>2. from \in Nat /\ from >= start + 8
  BY <1>1, AlignFacts
<1>3. left \in Int /\ len <= left /\ len \in Int
  <2>1. left \in Int
    BY <1>1, <1>2
  <2> HIDE DEF left
  <2> QED  BY <1>1, <2>1, DivFloor
<1>4. w \in from .. from + len - 1
  BY DEF Advised, WordsFrom, Word
<1>5. left = start + ClassSize[c] - from
  OBVIOUS
<1> HIDE DEF from, left, len
<1> QED  BY <1>1, <1>2, <1>3, <1>4, <1>5

(* A block of a bucket is freed.                                            *)
LEMMA LinkKeeps ==
    ASSUME NEW h, NEW L, NEW G, Books(h, L, G), NEW b \in G, NEW c \in Buckets,
           BucketOf(b.size) = c, NEW t,
           t = [h EXCEPT !.mem = Stored([h.mem EXCEPT ![b.hdr + 16] = h.heads[c]],
                                        Advised(b.hdr + 16, c), 0),
                         !.heads = [h.heads EXCEPT ![c] = b.hdr]]
    PROVE  (\E K : Books(t, K, G \ {b})) /\ Untouched(h.mem, t.mem, G \ {b})
<1> DEFINE f == b.hdr
           Z == Advised(f + 16, c)
           e == EndOf(f, c)
           K == [L EXCEPT ![c] = << f >> \o L[c]]
<1>1. h \in HeapRecs /\ h.mem \in [Words -> Nat] /\ h.heads \in [Buckets -> Nat]
  BY DEF Books, HeapRecs
<1>2. /\ f \in Nat /\ Has(L, G, f, c) /\ BucketOf(b.size) # Huge
      /\ \A d \in Buckets : f \notin FreeAt(L[d])
      /\ \A d \in G : d # b => d.hdr # f
  BY HolderWords, BucketFacts DEF Has, Books, OneOwner
<1>3. /\ e = f + 16 + ClassSize[c] /\ ClassSize[c] \in Nat /\ e \in Nat /\ e >= f + 32
      /\ f + 16 \in Words
  BY <1>2, BlockWords, BucketFacts DEF EndOf
<1>4. \A w \in Z : w \in Nat /\ f + 24 <= w /\ w < e
  <2> SUFFICES ASSUME NEW w \in Z  PROVE w \in Nat /\ f + 24 <= w /\ w < e
    OBVIOUS
  <2> DEFINE s == f + 16
  <2>1. s \in Nat /\ w \in Advised(s, c)
    BY <1>2
  <2> HIDE DEF s
  <2>2. w \in Nat /\ s + 8 <= w /\ w < s + ClassSize[c]
    BY <2>1, AdvisedInside
  <2> QED  BY <1>2, <1>3, <2>2 DEF s
<1> HIDE DEF f, Z, e, K
<1>5. /\ t.mem = Stored([h.mem EXCEPT ![f + 16] = h.heads[c]], Z, 0) /\ t.curr = h.curr
      /\ t.heads = [h.heads EXCEPT ![c] = f] /\ t.maps = h.maps
  BY <1>1 DEF HeapRecs, f, Z
<1>6. /\ t.mem \in [Words -> Nat]
      /\ \A w \in Words : t.mem[w] = IF w \in Z THEN 0
                                     ELSE IF w = f + 16 THEN h.heads[c] ELSE h.mem[w]
  <2> DEFINE m == [h.mem EXCEPT ![f + 16] = h.heads[c]]
  <2>1. /\ m \in [Words -> Nat]
        /\ \A w \in Words : m[w] = IF w = f + 16 THEN h.heads[c] ELSE h.mem[w]
    BY <1>1
  <2> HIDE DEF m
  <2>2. t.mem = Stored(m, Z, 0)
    BY <1>5 DEF m
  <2> QED  BY <2>1, <2>2, StoredIs
<1>7. Inside(h.mem, t.mem, f, c)
  BY <1>2, <1>3, <1>4, <1>6 DEF Inside, e
<1>8. Kept(h, L, G, t.mem, f)
  BY <1>2, <1>7, InsideKeeps
<1>9. t.mem[f + 16] = h.heads[c]
  <2>1. f + 16 \notin Z
    BY <1>2, <1>4
  <2> QED  BY <1>3, <1>6, <2>1
<1>10. t \in HeapRecs
  <2>1. t.heads \in [Buckets -> Nat]
    BY <1>1, <1>2, <1>5
  <2>2. DOMAIN t = DOMAIN h
    OBVIOUS
  <2> QED  BY <1>1, <1>5, <1>6, <2>1, <2>2 DEF HeapRecs
<1>11. DOMAIN L = Buckets /\ K[c] = << f >> \o L[c] /\ DOMAIN K = Buckets
       /\ \A d \in Buckets : d # c => K[d] = L[d]
  BY DEF Books, ListsOK, K
<1>12. IsFreeList(h.mem, h.heads[c], L[c])
  BY DEF Books, ListsOK
<1>13. \A d \in Buckets : \A x \in FreeAt(L[d]) : t.mem[x + 16] = h.mem[x + 16]
  BY <1>2, <1>8 DEF Kept
<1>14. IsFreeList(t.mem, f, K[c]) /\ FreeAt(K[c]) = {f} \cup FreeAt(L[c])
  <2>1. \A x \in FreeAt(L[c]) : t.mem[x + 16] = h.mem[x + 16]
    BY <1>13
  <2>2. f \in Nat /\ f \notin FreeAt(L[c])
    BY <1>2
  <2>3. /\ IsFreeList(t.mem, f, << f >> \o L[c])
        /\ FreeAt(<< f >> \o L[c]) = {f} \cup FreeAt(L[c])
    BY <1>9, <1>12, <2>1, <2>2, PushList
  <2> QED  BY <1>11, <2>3
<1>15. ListsOK(t, K)
  <2> SUFFICES ASSUME NEW d \in Buckets  PROVE IsFreeList(t.mem, t.heads[d], K[d])
    BY <1>11 DEF ListsOK
  <2>1. CASE d = c
    BY <1>1, <1>5, <1>14, <2>1
  <2>2. CASE d # c
    <3>1. IsFreeList(h.mem, h.heads[d], L[d])
      BY DEF Books, ListsOK
    <3>2. IsFreeList(t.mem, h.heads[d], L[d])
      BY <1>13, <3>1, ListKept
    <3> QED  BY <1>1, <1>5, <1>11, <2>2, <3>2
  <2> QED  BY <2>1, <2>2
<1>16. \A x \in Nat, d \in Buckets : Has(K, G \ {b}, x, d) <=> Has(L, G, x, d)
  <2>1. b.hdr = f /\ BucketOf(b.size) = c
    BY DEF f
  <2>2. \A x \in Nat, d \in Buckets : x \in FreeAt(K[d]) <=> x \in FreeAt(L[d]) \/ (x = f /\ d = c)
    BY <1>11, <1>14
  <2> QED  BY <2>1, <2>2 DEF Has
<1>17. OneOwner(K, G \ {b})
  BY <1>2, <1>11, <1>14 DEF Books, OneOwner
<1>18. \A d \in G \ {b} : Same(h.mem, t.mem, d)
  BY <1>2, <1>8 DEF Kept
<1>19. HeldOK(t, G \ {b})
  <2>1. \A d \in G : HolderOK(h, d)
    BY HolderIs DEF Books
  <2>2. \A d \in G \ {b} : HolderOK(t, d)
    BY <1>5, <1>18, <2>1, HolderKept
  <2> QED  BY <2>2, HolderIs
<1>20. Books(t, K, G \ {b})
  BY <1>5, <1>8, <1>10, <1>15, <1>16, <1>17, <1>19, SameBlocks
<1> QED  BY <1>18, <1>20 DEF Untouched

(* A mapping is given back.                                                 *)
LEMMA UnmapKeeps ==
    ASSUME NEW h, NEW L, NEW G, Books(h, L, G), NEW b \in G, BucketOf(b.size) = Huge,
           NEW t, t = [h EXCEPT !.mem = Stored(h.mem, {b.hdr, b.hdr + 8}, 0),
                                !.maps = { m \in h.maps : m.at # b.hdr \/ m.len # MapLen(b.size) }]
    PROVE  Books(t, L, G \ {b}) /\ Untouched(h.mem, t.mem, G \ {b})
<1> DEFINE f == b.hdr
<1>1. h \in HeapRecs /\ h.mem \in [Words -> Nat] /\ h.curr \in Nat /\ h.curr <= HeapEnd
      /\ HeapEnd \in Nat
  <2>1. h \in HeapRecs
    BY DEF Books
  <2> QED  BY <2>1, WordFacts DEF HeapRecs
<1>2. /\ f \in MapAddrs /\ f \in Nat /\ f >= HeapEnd /\ b.size \in Sizes
  <2>1. HugeOK(h, b)
    BY HolderWords
  <2> QED  BY <2>1, WordFacts DEF HugeOK
<1>3. /\ \A d \in G : d # b => d.hdr # f
      /\ \A d \in Buckets : f \notin FreeAt(L[d])
  BY DEF Books, OneOwner
<1> HIDE DEF f
<1>4. /\ t.mem = Stored(h.mem, {f, f + 8}, 0) /\ t.curr = h.curr /\ t.heads = h.heads
      /\ t.maps = { m \in h.maps : m.at # f \/ m.len # MapLen(b.size) }
  BY <1>1 DEF HeapRecs, f
<1>5. /\ t.mem \in [Words -> Nat]
      /\ \A w \in Words : w # f /\ w # f + 8 => t.mem[w] = h.mem[w]
  BY <1>1, <1>4, StoredIs
<1>6. \A w \in Words : w \in Nat /\ (w < HeapEnd => t.mem[w] = h.mem[w])
  <2>1. \A w \in Words : w \in Nat
    BY WordFacts
  <2>2. \A w \in Words : w < HeapEnd => w # f /\ w # f + 8
    BY <1>1, <1>2, <2>1
  <2> QED  BY <1>5, <2>1, <2>2
<1>7. t \in HeapRecs
  <2>1. DOMAIN t = DOMAIN h
    OBVIOUS
  <2> QED  BY <1>1, <1>4, <1>5, <2>1 DEF HeapRecs
<1>8. \A x \in Nat, d \in Buckets : Has(L, G \ {b}, x, d) <=> Has(L, G, x, d)
  BY BucketFacts DEF Has
<1>9. ASSUME NEW x \in Nat, NEW d \in Buckets, Has(L, G, x, d)
      PROVE  t.mem[x] = x + 16 /\ t.mem[x + 16] = h.mem[x + 16]
  <2>1. /\ EndOf(x, d) <= h.curr /\ EndOf(x, d) \in Nat /\ EndOf(x, d) >= x + 32
        /\ x \in Words /\ x + 16 \in Words /\ h.mem[x] = x + 16
    BY <1>9, BlockWords DEF InPlace
  <2>2. x < HeapEnd /\ x + 16 < HeapEnd
    BY <1>1, <2>1
  <2> QED  BY <1>6, <2>1, <2>2
<1>10. ASSUME NEW d \in G, d # b  PROVE Same(h.mem, t.mem, d)
  <2>1. CASE BucketOf(d.size) = Huge
    <3>1. /\ HugeOK(h, d) /\ d.hdr \in Nat
          /\ \A w \in {d.hdr, d.hdr + 8} \cup WordsFrom(h.mem[d.hdr], d.size) :
                 w \in Nat /\ d.hdr <= w /\ w < d.hdr + MapLen(d.size)
      BY <2>1, HolderWords
    <3>2. d.hdr # f
      BY <1>3, <1>10
    <3>3. d \in HeldRecs /\ d.hdr \in MapAddrs /\ d.size \in Sizes
      BY <3>1 DEF Books, HeldOK, HugeOK
    <3>4. \A w \in {d.hdr, d.hdr + 8} \cup WordsFrom(h.mem[d.hdr], d.size) :
              w # f /\ w # f + 8
      BY <1>2, <3>1, <3>2, <3>3, MapsApart
    <3> QED  BY <1>5, <3>4, HolderWords DEF Same
  <2>2. CASE BucketOf(d.size) # Huge
    <3>1. /\ Has(L, G, d.hdr, BucketOf(d.size)) /\ BucketOf(d.size) \in Buckets
          /\ d.hdr \in Nat
          /\ \A w \in {d.hdr, d.hdr + 8} \cup WordsFrom(h.mem[d.hdr], d.size) :
                 w \in Nat /\ w < EndOf(d.hdr, BucketOf(d.size))
      BY <2>2, HolderWords
    <3>2. EndOf(d.hdr, BucketOf(d.size)) <= h.curr /\ EndOf(d.hdr, BucketOf(d.size)) \in Nat
      BY <3>1, BlockWords DEF InPlace
    <3>3. \A w \in {d.hdr, d.hdr + 8} \cup WordsFrom(h.mem[d.hdr], d.size) : w < HeapEnd
      BY <1>1, <3>1, <3>2
    <3> QED  BY <1>6, <3>3, HolderWords DEF Same
  <2> QED  BY <2>1, <2>2
<1>11. Kept(h, L, G, t.mem, f)
  <2>1. \A d \in Buckets : \A x \in FreeAt(L[d]) : x \in Nat /\ Has(L, G, x, d)
    BY DEF Books, ListsOK, IsFreeList, FreeAt, Has
  <2>2. \A w \in Words : h.curr <= w /\ w < HeapEnd => t.mem[w] = 0
    BY <1>6 DEF Books, FreshOK
  <2>3. \A d \in G : d.hdr # f => Same(h.mem, t.mem, d)
    BY <1>10 DEF f
  <2> QED  BY <1>9, <2>1, <2>2, <2>3 DEF Kept
<1>12. ListsOK(t, L)
  <2> SUFFICES ASSUME NEW d \in Buckets  PROVE IsFreeList(t.mem, h.heads[d], L[d])
    BY <1>4 DEF ListsOK, Books
  <2>1. IsFreeList(h.mem, h.heads[d], L[d])
    BY DEF Books, ListsOK
  <2>2. \A x \in FreeAt(L[d]) : t.mem[x + 16] = h.mem[x + 16]
    BY <1>3, <1>11 DEF Kept
  <2> QED  BY <2>1, <2>2, ListKept
<1>13. OneOwner(L, G \ {b})
  BY DEF Books, OneOwner
<1>14. HeldOK(t, G \ {b})
  <2>1. ASSUME NEW d \in G \ {b}  PROVE HolderOK(t, d)
    <3>1. HolderOK(h, d)
      BY HolderIs DEF Books
    <3>2. t.mem[d.hdr] = h.mem[d.hdr] /\ t.mem[d.hdr + 8] = h.mem[d.hdr + 8]
      BY <1>10 DEF Same
    <3>3. d.hdr # f
      BY <1>3
    <3> QED  BY <1>4, <3>1, <3>2, <3>3 DEF HolderOK, HugeOK
  <2> QED  BY <2>1, HolderIs
<1>15. Books(t, L, G \ {b})
  BY <1>4, <1>7, <1>8, <1>11, <1>12, <1>13, <1>14, SameBlocks
<1> QED  BY <1>10, <1>15 DEF Untouched

(* What rt_free reads in the header leads it back to the block's list, or   *)
(* to its mapping.                                                          *)
LEMMA FreeFinds ==
    ASSUME NEW h, NEW L, NEW G, Books(h, L, G), NEW b \in G
    PROVE  /\ BucketOf(h.mem[b.hdr + 8] - h.mem[b.hdr]) = BucketOf(b.size)
           /\ BucketOf(b.size) # Huge => h.mem[b.hdr] = b.hdr + 16
           /\ BucketOf(b.size) = Huge => h.mem[b.hdr + 8] - b.hdr = MapLen(b.size)
<1>1. b.hdr \in Nat /\ b.size \in Nat
  BY HolderWords
<1>2. CASE BucketOf(b.size) # Huge
  <2>1. h.mem[b.hdr] = b.hdr + 16 /\ h.mem[b.hdr + 8] = b.hdr + 16 + b.size
    BY <1>2, HolderWords
  <2>2. h.mem[b.hdr + 8] - h.mem[b.hdr] = b.size
    BY <1>1, <2>1
  <2> QED  BY <1>2, <2>1, <2>2
<1>3. CASE BucketOf(b.size) = Huge
  <2>1. /\ h.mem[b.hdr] = b.hdr + 32 /\ h.mem[b.hdr + 8] = b.hdr + MapLen(b.size)
        /\ b.size \in Sizes
    <3>1. HugeOK(h, b)
      BY <1>3, HolderWords
    <3> QED  BY <3>1 DEF HugeOK
  <2>2. MapLen(b.size) \in Nat /\ MapLen(b.size) >= b.size + 32
    BY <2>1, WordFacts
  <2>3. PICK n \in Nat : n = MapLen(b.size) - 32 /\ n >= b.size
    BY <1>1, <2>2
  <2>4. h.mem[b.hdr + 8] - h.mem[b.hdr] = n /\ h.mem[b.hdr + 8] - b.hdr = MapLen(b.size)
    BY <1>1, <2>1, <2>2, <2>3
  <2>5. \A c \in Buckets : ClassSize[c] < b.size /\ ClassSize[c] \in Nat
    BY <1>1, <1>3, BucketOfIs, BucketFacts
  <2>6. \A c \in Buckets : ClassSize[c] < n
    BY <1>1, <2>3, <2>5
  <2>7. BucketOf(n) = Huge
    BY <2>6, BucketOfIs
  <2> QED  BY <1>3, <2>4, <2>7
<1> QED  BY <1>2, <1>3

-----------------------------------------------------------------------------
(* The state before and after a call, as the lemmas above see it.           *)
LEMMA HeapIs ==
    /\ heap.curr = heap_curr /\ heap.heads = free_list_heads /\ heap.mem = mem
    /\ heap.maps = maps /\ heap.new = {} /\ heap.fp = Null /\ heap.end = "ok"
  BY DEF heap

(* The variables after a call are the heap it computed.                     *)
LEMMA HeapBecomes ==
    ASSUME NEW t, NEW K, NEW F, Books(t, K, F), heap_curr' = t.curr,
           free_list_heads' = t.heads, mem' = t.mem, maps' = t.maps
    PROVE  Books(heap', K, F)
<1>1. t \in HeapRecs
  BY DEF Books
<1>2. /\ heap'.curr = t.curr /\ heap'.heads = t.heads /\ heap'.mem = t.mem
      /\ heap'.maps = t.maps
  BY DEF heap
<1>3. heap' \in HeapRecs
  BY <1>1 DEF heap, HeapRecs, Null, Outcomes
<1> QED  BY <1>1, <1>2, <1>3, SameHeap

(* What a call hands out.                                                   *)
Delivers(N) == /\ held' = held \cup N /\ N \cap held = {} /\ IsFiniteSet(N)
               /\ count' = count + Cardinality(N)

(* A call that gives N out adds N to the holders and writes no block of     *)
(* another.                                                                 *)
LEMMA BecomesDelivers ==
    ASSUME NEW N, NEW t, Gives(heap, held, t, N), NEW call, NEW size,
           Becomes(t, call, size)
    PROVE  /\ Delivers(N) /\ Untouched(mem, mem', held)
           /\ \E K : Books(heap', K, held')
<1>1. t.new = N
  BY HeapIs DEF Gives
<1>2. /\ heap_curr' = t.curr /\ free_list_heads' = t.heads /\ mem' = t.mem
      /\ maps' = t.maps /\ held' = held \cup N /\ count' = count + Cardinality(N)
  BY <1>1 DEF Becomes
<1>3. PICK K : Books(t, K, held \cup N)
  BY DEF Gives
<1>4. Books(heap', K, held \cup N)
  BY <1>2, <1>3, HeapBecomes
<1>5. Untouched(mem, mem', held)
  BY <1>2, HeapIs DEF Gives
<1> QED  BY <1>2, <1>4, <1>5 DEF Delivers, Gives

(* mmap answers with MAP_FAILED or an address that is not in use.           *)
LEMMA ChoicesMayMap ==
    ASSUME NEW size \in Sizes, NEW at \in MapChoices  PROVE MayMap(heap, size, at)
  BY HeapIs DEF MapChoices, MayMap

(* rt_allocate_raw keeps the books, and hands out one block or none.        *)
LEMMA RawStep ==
    ASSUME BucketInv, NEW size \in Sizes, rt_allocate_raw(size)
    PROVE  BucketInv' /\ Untouched(mem, mem', held) /\ \E N : Delivers(N)
<1>1. PICK at \in MapChoices : Becomes(Raw(heap, size, at), "raw", size)
  BY DEF rt_allocate_raw
<1> DEFINE t == Raw(heap, size, at)
<1>2. PICK L : Books(heap, L, held)
  BY DEF BucketInv
<1>3. \/ Got(heap, held, t, size, FALSE)
      \/ t.end \in {"dying", "exit", "fault"} /\ Gives(heap, held, t, {})
  BY <1>2, HeapIs, ChoicesMayMap, RawServes
<1> HIDE DEF t
<1>4. t.end \in {"ok", "dying", "exit", "fault"} /\ \E N : Gives(heap, held, t, N)
  BY <1>3 DEF Got
<1>5. PICK N : Gives(heap, held, t, N)
  BY <1>4
<1>6. Becomes(t, "raw", size)
  BY <1>1 DEF t
<1>7. Delivers(N) /\ Untouched(mem, mem', held) /\ \E K : Books(heap', K, held')
  BY <1>5, <1>6, BecomesDelivers
<1>8. result'.call = "raw" /\ result'.end = t.end /\ dying' \in BOOLEAN /\ actors' = actors
  BY <1>6 DEF Becomes
<1>9. UserBlockReadsZero'
  BY <1>8 DEF UserBlockReadsZero
<1>10. arena' = arena
  BY DEF rt_allocate_raw
<1>11. BucketInv'
  BY <1>4, <1>7, <1>8, <1>9, <1>10 DEF BucketInv
<1> QED  BY <1>7, <1>11

(* rt_allocate keeps the books; the tuple and its string are two blocks,    *)
(* and the zeroes of the user block are still there when it returns.        *)
LEMMA UserStep ==
    ASSUME BucketInv, NEW size \in Sizes, rt_allocate(size)
    PROVE  BucketInv' /\ Untouched(mem, mem', held) /\ \E N : Delivers(N)
<1>1. PICK at \in MapChoices :
          LET t    == Tuple(heap, size, at)
              full == Take(heap, size, TRUE, at).end = "full"
          IN  /\ Becomes(t, IF full THEN "nomem" ELSE "user", size)
              /\ arena' = IF ~full /\ arena >= TupleBytes
                          THEN arena - TupleBytes ELSE arena
  BY DEF rt_allocate
<1> DEFINE t == Tuple(heap, size, at)
           full == Take(heap, size, TRUE, at).end = "full"
           call == IF full THEN "nomem" ELSE "user"
<1>2. PICK L : Books(heap, L, held)
  BY DEF BucketInv
<1>3. PICK N : /\ Gives(heap, held, t, N) /\ t.end \in {"ok", "fault", "exit"}
               /\ t.end = "ok" /\ ~full => Zeroes(t.mem, t.fp, size)
  BY <1>2, HeapIs, ChoicesMayMap, TupleServes
<1> HIDE DEF t, full
<1>4. Becomes(t, call, size)
  BY <1>1 DEF t, full
<1>5. Delivers(N) /\ Untouched(mem, mem', held) /\ \E K : Books(heap', K, held')
  BY <1>3, <1>4, BecomesDelivers
<1>6. /\ result' = [call |-> call, size |-> size, fp |-> t.fp, end |-> t.end]
      /\ dying' \in BOOLEAN /\ actors' = actors /\ mem' = t.mem
  BY <1>4 DEF Becomes
<1>7. UserBlockReadsZero'
  <2> SUFFICES ASSUME call = "user", t.end = "ok", BucketOf(size) # Huge,
                      NEW w \in WordsFrom(t.mem[t.fp], size)
               PROVE  t.mem[w] = 0
    BY <1>6 DEF UserBlockReadsZero
  <2>1. ~full
    OBVIOUS
  <2>2. t.mem[t.fp] = t.fp + 16 /\ \A v \in WordsFrom(t.fp + 16, size) : t.mem[v] = 0
    BY <1>3, <2>1 DEF Zeroes
  <2> QED  BY <2>2
<1>8. arena' \in Nat
  <2>1. arena \in Nat
    BY DEF BucketInv
  <2>2. arena' = arena \/ (arena >= TupleBytes /\ arena' = arena - TupleBytes)
    BY <1>1
  <2> QED  BY <2>1, <2>2 DEF TupleBytes
<1>9. BucketInv'
  BY <1>3, <1>5, <1>6, <1>7, <1>8 DEF BucketInv
<1> QED  BY <1>5, <1>9

(* rt_free takes back the block it is given and touches no other.           *)
LEMMA FreeStep ==
    ASSUME BucketInv, NEW b \in held, rt_free(b)
    PROVE  BucketInv' /\ Untouched(mem, mem', held \ {b})
<1> DEFINE start == mem[b.hdr]
           end == mem[b.hdr + 8]
           c == BucketOf(end - start)
<1>1. PICK L : Books(heap, L, held)
  BY DEF BucketInv
<1>2. /\ c = BucketOf(b.size) /\ c \in Buckets \cup {Huge}
      /\ c # Huge => start = b.hdr + 16
      /\ c = Huge => end - b.hdr = MapLen(b.size)
  <2>1. /\ BucketOf(heap.mem[b.hdr + 8] - heap.mem[b.hdr]) = BucketOf(b.size)
        /\ BucketOf(b.size) # Huge => heap.mem[b.hdr] = b.hdr + 16
        /\ BucketOf(b.size) = Huge => heap.mem[b.hdr + 8] - b.hdr = MapLen(b.size)
    BY <1>1, FreeFinds
  <2>2. b.size \in Nat
    BY <1>1, HolderWords
  <2> QED  BY <2>1, <2>2, BucketOfIs, HeapIs
<1>3. /\ IF c = Huge
         THEN /\ maps' = { m \in maps : m.at # b.hdr \/ m.len # end - b.hdr }
              /\ mem' = Stored(mem, {b.hdr, b.hdr + 8}, 0)
              /\ UNCHANGED free_list_heads
         ELSE /\ mem' = Stored([mem EXCEPT ![start] = free_list_heads[c]],
                               Advised(start, c), 0)
              /\ free_list_heads' = [free_list_heads EXCEPT ![c] = b.hdr]
              /\ UNCHANGED maps
      /\ held' = held \ {b} /\ result' = NoResult
      /\ UNCHANGED << heap_curr, arena, actors, dying >>
  BY DEF rt_free, Word
<1> HIDE DEF start, end, c
<1>4. (\E K : Books(heap', K, held')) /\ Untouched(mem, mem', held \ {b})
  <2>1. CASE c = Huge
    <3> DEFINE t == [heap EXCEPT !.mem = Stored(heap.mem, {b.hdr, b.hdr + 8}, 0),
                         !.maps = { m \in heap.maps : m.at # b.hdr \/ m.len # MapLen(b.size) }]
    <3>1. Books(t, L, held \ {b}) /\ Untouched(heap.mem, t.mem, held \ {b})
      BY <1>1, <1>2, <2>1, UnmapKeeps
    <3>2. /\ t.curr = heap_curr /\ t.heads = free_list_heads
          /\ t.mem = Stored(mem, {b.hdr, b.hdr + 8}, 0)
          /\ t.maps = { m \in maps : m.at # b.hdr \/ m.len # MapLen(b.size) }
      BY DEF heap
    <3> HIDE DEF t
    <3>3. /\ heap_curr' = t.curr /\ free_list_heads' = t.heads /\ mem' = t.mem
          /\ maps' = t.maps /\ held' = held \ {b}
      BY <1>2, <1>3, <2>1, <3>2
    <3>4. Books(heap', L, held \ {b})
      BY <3>1, <3>3, HeapBecomes
    <3> QED  BY <3>1, <3>3, <3>4, HeapIs
  <2>2. CASE c # Huge
    <3> DEFINE t == [heap EXCEPT
                        !.mem = Stored([heap.mem EXCEPT ![b.hdr + 16] = heap.heads[c]],
                                       Advised(b.hdr + 16, c), 0),
                        !.heads = [heap.heads EXCEPT ![c] = b.hdr]]
    <3>1. (\E K : Books(t, K, held \ {b})) /\ Untouched(heap.mem, t.mem, held \ {b})
      BY <1>1, <1>2, <2>2, LinkKeeps
    <3>2. /\ t.curr = heap_curr /\ t.maps = maps
          /\ t.mem = Stored([mem EXCEPT ![b.hdr + 16] = free_list_heads[c]],
                            Advised(b.hdr + 16, c), 0)
          /\ t.heads = [free_list_heads EXCEPT ![c] = b.hdr]
      BY DEF heap
    <3> HIDE DEF t
    <3>3. /\ heap_curr' = t.curr /\ free_list_heads' = t.heads /\ mem' = t.mem
          /\ maps' = t.maps /\ held' = held \ {b}
      BY <1>2, <1>3, <2>2, <3>2
    <3>4. PICK K : Books(t, K, held \ {b})
      BY <3>1
    <3>5. Books(heap', K, held \ {b})
      BY <3>3, <3>4, HeapBecomes
    <3> QED  BY <3>1, <3>3, <3>5, HeapIs
  <2> QED  BY <2>1, <2>2
<1>5. UserBlockReadsZero' /\ result'.end = "ok"
  BY <1>3 DEF UserBlockReadsZero, NoResult
<1>6. BucketInv'
  BY <1>3, <1>4, <1>5 DEF BucketInv
<1> QED  BY <1>4, <1>6

(* An actor that writes its own block leaves the books as they are.         *)
LEMMA FillStep ==
    ASSUME BucketInv, NEW b \in held, Fill(b)
    PROVE  BucketInv'
<1>1. PICK L : Books(heap, L, held)
  BY DEF BucketInv
<1>2. /\ WordsFrom(mem[b.hdr], b.size) \subseteq Words
      /\ mem' = Stored(mem, WordsFrom(mem[b.hdr], b.size), Data) /\ result' = NoResult
      /\ UNCHANGED << heap_curr, free_list_heads, maps, held, arena, actors, dying >>
  BY DEF Fill, Payload
<1>3. Books(heap', L, held)
  <2>1. CASE BucketOf(b.size) # Huge
    <3> DEFINE t == [heap EXCEPT !.mem = Stored(heap.mem, WordsFrom(heap.mem[b.hdr], b.size), Data)]
    <3>1. Books(t, L, held)
      BY <1>1, <2>1, HolderStores
    <3>2. /\ t.curr = heap_curr /\ t.maps = maps /\ t.heads = free_list_heads
          /\ t.mem = Stored(mem, WordsFrom(mem[b.hdr], b.size), Data)
      BY DEF heap
    <3> HIDE DEF t
    <3> QED  BY <1>2, <3>1, <3>2, HeapBecomes
  <2>2. CASE BucketOf(b.size) = Huge
    <3>1. /\ b.hdr \in Nat /\ b.size \in Nat /\ HugeOK(heap, b)
          /\ \A w \in WordsFrom(heap.mem[b.hdr], b.size) :
                 w \in Nat /\ b.hdr <= w /\ w < b.hdr + MapLen(b.size)
      BY <1>1, <2>2, HolderWords
    <3>2. /\ mem[b.hdr] = b.hdr + 32 /\ b.hdr \in MapAddrs /\ b.size \in Sizes
          /\ b \in HeldRecs
      BY <1>1, <3>1, HeapIs DEF HugeOK, Books, HeldOK
    <3>3. ASSUME NEW w \in WordsFrom(mem[b.hdr], b.size)  PROVE FALSE
      <4>1. /\ w \in Nat /\ b.hdr <= w /\ w < b.hdr + MapLen(b.size) /\ w >= b.hdr + 32
            /\ w \in Words
        BY <1>2, <3>1, <3>2, HeapIs DEF WordsFrom
      <4>2. b.hdr >= HeapEnd /\ HeapEnd \in Nat /\ HeapBase \in Nat /\ HeapBase <= HeapEnd
        BY <3>2, WordFacts
      <4>3. ~ w \in WordsFrom(HeapBase, HeapEnd - HeapBase)
        BY <3>1, <4>1, <4>2 DEF WordsFrom
      <4>4. PICK a \in MapAddrs : w = a \/ w = a + 8
        BY <4>1, <4>3 DEF Words, Word
      <4>5. CASE a = b.hdr
        BY <3>1, <4>1, <4>4, <4>5
      <4>6. CASE a # b.hdr
        BY <3>2, <4>1, <4>4, <4>6, MapsApart
      <4> QED  BY <4>5, <4>6
    <3>4. mem' = mem
      <4>1. mem \in [Words -> Nat]
        BY <1>1, HeapIs DEF Books, HeapRecs
      <4>2. /\ Stored(mem, WordsFrom(mem[b.hdr], b.size), Data) \in [Words -> Nat]
            /\ \A w \in Words : Stored(mem, WordsFrom(mem[b.hdr], b.size), Data)[w] = mem[w]
        BY <3>3, <4>1, StoredIs DEF Data
      <4> QED  BY <1>2, <4>1, <4>2
    <3>5. heap' = heap
      BY <1>2, <3>4 DEF heap
    <3> QED  BY <1>1, <3>5
  <2> QED  BY <2>1, <2>2
<1>4. UserBlockReadsZero' /\ result'.end = "ok"
  BY <1>2 DEF UserBlockReadsZero, NoResult
<1> QED  BY <1>2, <1>3, <1>4 DEF BucketInv

(* Between two calls the heap does not change.                              *)
LEMMA TurnStep ==
    ASSUME BucketInv, NextTurn \/ UNCHANGED vars
    PROVE  BucketInv' /\ mem' = mem
<1>1. CASE NextTurn
  <2>1. /\ UNCHANGED << heap_curr, free_list_heads, mem, maps, held >>
        /\ actors' = TRUE /\ dying' = FALSE /\ arena' \in Arenas /\ result' = NoResult
    BY <1>1 DEF NextTurn
  <2>2. heap' = heap
    BY <2>1 DEF heap
  <2>3. UserBlockReadsZero' /\ result'.end = "ok" /\ arena' \in Nat
    BY <2>1, BucketAssumption DEF UserBlockReadsZero, NoResult
  <2>4. \E L : Books(heap', L, held')
    BY <2>1, <2>2 DEF BucketInv
  <2> QED  BY <2>1, <2>3, <2>4 DEF BucketInv
<1>2. CASE UNCHANGED vars
  <2>1. /\ UNCHANGED << heap_curr, free_list_heads, mem, maps, held >>
        /\ UNCHANGED << arena, actors, dying, result >>
    BY <1>2 DEF vars
  <2>2. heap' = heap
    BY <2>1 DEF heap
  <2>3. UserBlockReadsZero'
    BY <2>1 DEF UserBlockReadsZero, BucketInv
  <2> QED  BY <2>1, <2>2, <2>3 DEF BucketInv
<1> QED  BY <1>1, <1>2

(* The heap at the start: no block, nothing mapped, all words zero.         *)
LEMMA InitBooks == Init => BucketInv
<1> SUFFICES ASSUME Init  PROVE BucketInv
  OBVIOUS
<1> DEFINE L == [ c \in Buckets |-> << >> ]
<1>1. HeapBase \in Nat \ {0} /\ HeapEnd \in Nat /\ HeapBase % 16 = 0 /\ HeapBase <= HeapEnd
  BY WordFacts
<1>2. heap = [curr |-> HeapBase, heads |-> [ c \in Buckets |-> 0 ], mem |-> [ w \in Words |-> 0 ],
              maps |-> {}, new |-> {}, fp |-> 0, end |-> "ok"] /\ held = {}
  BY DEF Init, heap, Null
<1>3. heap \in HeapRecs
  BY <1>1, <1>2 DEF HeapRecs, Outcomes
<1>4. \A a, c : c \in Buckets => ~ Has(L, {}, a, c)
  BY DEF Has, FreeAt
<1>5. ListsOK(heap, L)
  <2>1. \A m : IsFreeList(m, 0, << >>)
    BY DEF IsFreeList, Null
  <2> QED  BY <1>2, <2>1 DEF ListsOK
<1> HIDE DEF L
<1>6. BlocksOK(heap, L, {}) /\ ApartOK(L, {}) /\ OneOwner(L, {}) /\ HeldOK(heap, {})
  BY <1>4 DEF BlocksOK, ApartOK, OneOwner, HeldOK
<1>7. CoverOK(heap, L, {})
  BY <1>1, <1>2 DEF CoverOK
<1>8. FreshOK(heap)
  BY <1>2 DEF FreshOK
<1>9. Books(heap, L, held)
  BY <1>2, <1>3, <1>5, <1>6, <1>7, <1>8 DEF Books
<1>10. UserBlockReadsZero /\ result.end = "ok"
  BY DEF Init, UserBlockReadsZero, NoResult
<1>11. arena \in Nat /\ dying \in BOOLEAN /\ actors \in BOOLEAN
  BY BucketAssumption DEF Init
<1> QED  BY <1>9, <1>10, <1>11 DEF BucketInv

(* The invariant of the bucket heap: lists, holders and header words in     *)
(* order, blocks without gap or overlap, and memory beyond them zero.       *)
THEOREM BucketInvariant == Spec => []BucketInv
<1>1. Init => BucketInv
  BY InitBooks
<1>2. BucketInv /\ [Next]_vars => BucketInv'
  <2> SUFFICES ASSUME BucketInv, [Next]_vars  PROVE BucketInv'
    OBVIOUS
  <2>1. ASSUME NEW size \in Sizes, rt_allocate_raw(size)  PROVE BucketInv'
    BY <2>1, RawStep
  <2>2. ASSUME NEW size \in Sizes, rt_allocate(size)  PROVE BucketInv'
    BY <2>2, UserStep
  <2>3. ASSUME NEW b \in held, rt_free(b)  PROVE BucketInv'
    BY <2>3, FreeStep
  <2>4. ASSUME NEW b \in held, Fill(b)  PROVE BucketInv'
    BY <2>4, FillStep
  <2>5. CASE NextTurn \/ UNCHANGED vars
    BY <2>5, TurnStep
  <2> QED  BY <2>1, <2>2, <2>3, <2>4, <2>5 DEF Next
<1> QED  BY <1>1, <1>2, PTL DEF Spec

(* A caller of rt_allocate sees zeroes, whoever had the block before him.   *)
THEOREM BlocksReadZero == Spec => []UserBlockReadsZero
<1>1. BucketInv => UserBlockReadsZero
  BY DEF BucketInv
<1> QED  BY <1>1, BucketInvariant, PTL

(* No call of the allocator changes a word of a block that stays held.      *)
THEOREM HeldBlocksAreUntouched == Spec => HeldBlocksUntouched
<1>1. BucketInv /\ [Next]_vars =>
          [ \A b \in held \cap held' :
              (~ \E x \in held : Fill(x)) =>
                  \A w \in {b.hdr, b.hdr + Word} \cup (Payload(b) \cap Words) :
                      mem'[w] = mem[w] ]_vars
  <2> SUFFICES ASSUME BucketInv, [Next]_vars, NEW b \in held, b \in held',
                      ~ \E x \in held : Fill(x)
               PROVE  Same(mem, mem', b)
    BY DEF Same, Payload, Word
  <2>1. ASSUME NEW size \in Sizes, rt_allocate_raw(size)  PROVE Same(mem, mem', b)
    BY <2>1, RawStep DEF Untouched
  <2>2. ASSUME NEW size \in Sizes, rt_allocate(size)  PROVE Same(mem, mem', b)
    BY <2>2, UserStep DEF Untouched
  <2>3. ASSUME NEW a \in held, rt_free(a)  PROVE Same(mem, mem', b)
    <3>1. b \in held \ {a}
      BY <2>3 DEF rt_free
    <3> QED  BY <2>3, <3>1, FreeStep DEF Untouched
  <2>4. CASE NextTurn \/ UNCHANGED vars
    BY <2>4, TurnStep DEF Same
  <2> QED  BY <2>1, <2>2, <2>3, <2>4 DEF Next
<1> QED  BY <1>1, BucketInvariant, PTL DEF Spec, HeldBlocksUntouched

-----------------------------------------------------------------------------
(* The walk: Listed follows the links, and visits the whole list.           *)
IsListed(c, f) ==
    f = [ i \in 0 .. MaxBlocks |->
              IF i = 0 THEN free_list_heads[c]
              ELSE IF f[i - 1] = Null THEN Null ELSE mem[mem[f[i - 1]]] ]

(* A list has fewer blocks than the heap has room for headers.              *)
LEMMA ListIsShort ==
    ASSUME NEW L, Books(heap, L, held), NEW c \in Buckets
    PROVE  /\ MaxBlocks \in Nat /\ Len(L[c]) \in Nat /\ Len(L[c]) <= MaxBlocks
           /\ \A i \in 1 .. Len(L[c]) :
                 /\ L[c][i] \in Nat /\ L[c][i] # Null /\ Has(L, held, L[c][i], c)
                 /\ mem[L[c][i]] = L[c][i] + 16
<1> DEFINE q == L[c]  len == Len(L[c])
<1>1. /\ IsFreeList(mem, free_list_heads[c], q)
  BY HeapIs DEF Books, ListsOK
<1>2. q \in Seq(Nat) /\ len \in Nat /\ \A i \in 1 .. len : q[i] \in Nat
  BY <1>1 DEF IsFreeList
<1>3. /\ HeapBase \in Nat \ {0} /\ HeapEnd \in Nat /\ HeapBase % 16 = 0
      /\ HeapBase <= HeapEnd
  BY WordFacts
<1>4. MaxBlocks \in Nat /\ MaxBlocks = (HeapEnd - HeapBase) \div 16
  BY <1>3 DEF MaxBlocks, FatPtr
<1>5. \A i \in 1 .. len : Has(L, held, q[i], c)
  BY DEF Has, FreeAt
<1> HIDE DEF q, len
<1>6. ASSUME NEW i \in 1 .. len
      PROVE  /\ q[i] \in Nat /\ q[i] # Null /\ mem[q[i]] = q[i] + 16
             /\ q[i] >= HeapBase /\ q[i] % 16 = 0 /\ q[i] + 32 <= HeapEnd
  <2>1. q[i] \in Nat /\ Has(L, held, q[i], c)
    BY <1>2, <1>5
  <2>2. /\ InPlace(heap, q[i], c) /\ EndOf(q[i], c) \in Nat
        /\ EndOf(q[i], c) >= q[i] + 32
        /\ heap.curr \in Nat /\ heap.curr <= HeapEnd
    BY <2>1, BlockWords
  <2> QED  BY <1>3, <2>1, <2>2, HeapIs DEF InPlace, Null
<1>7. len <= MaxBlocks
  <2> DEFINE M == MaxBlocks
             f == [ i \in 1 .. len |-> (q[i] - HeapBase) \div 16 ]
  <2>1. ASSUME NEW i \in 1 .. len
        PROVE  /\ (q[i] - HeapBase) \div 16 \in 0 .. M - 1
               /\ q[i] = HeapBase + 16 * ((q[i] - HeapBase) \div 16)
    <3>1. PICK a \in Nat : a = q[i] /\ a >= HeapBase /\ a % 16 = 0 /\ a + 32 <= HeapEnd
      BY <1>6
    <3> QED  BY <1>3, <1>4, <3>1
  <2>2. f \in [1 .. len -> 0 .. M - 1]
    BY <2>1
  <2>3. \A i, j \in 1 .. len : f[i] = f[j] => q[i] = q[j]
    BY <2>1
  <2>4. \A i, j \in 1 .. len : q[i] = q[j] => i = j
    BY <1>1 DEF IsFreeList, len, q
  <2>5. \A i, j \in 1 .. len : f[i] = f[j] => i = j
    BY <2>3, <2>4
  <2> HIDE DEF f, M
  <2>6. f \in Injection(1 .. len, 0 .. M - 1)
    BY <2>2, <2>5, Fun_IsInj
  <2>7. M \in Nat
    BY <1>4 DEF M
  <2>8. /\ IsFiniteSet(0 .. M - 1)
        /\ Cardinality(0 .. M - 1) = IF 0 > M - 1 THEN 0 ELSE (M - 1) - 0 + 1
    BY <2>7, FS_Interval
  <2>9. Cardinality(0 .. M - 1) = M
    BY <2>7, <2>8
  <2>10. Cardinality(1 .. len) <= M
    BY <2>6, <2>8, <2>9, FS_Injection
  <2>11. Cardinality(1 .. len) = IF 1 > len THEN 0 ELSE len - 1 + 1
    BY <1>2, FS_Interval
  <2>12. Cardinality(1 .. len) = len
    BY <1>2, <2>11
  <2> QED  BY <2>10, <2>12 DEF M
<1> QED  BY <1>2, <1>4, <1>5, <1>6, <1>7 DEF q, len

(* Listed walks the links of a free list: its blocks, and Null from the end *)
(* on.                                                                      *)
LEMMA ListedIs ==
    ASSUME NEW L, Books(heap, L, held), NEW c \in Buckets
    PROVE  /\ DOMAIN Listed(c) = 0 .. MaxBlocks
           /\ \A i \in 0 .. MaxBlocks :
                 Listed(c)[i] = IF i < Len(L[c]) THEN L[c][i + 1] ELSE Null
<1> DEFINE N == MaxBlocks
           q == L[c]
           g == [ i \in 0 .. N |-> IF i < Len(q) THEN q[i + 1] ELSE Null ]
           at[i \in 0 .. MaxBlocks] ==
               IF i = 0 THEN free_list_heads[c]
               ELSE LET prev == at[i - 1]
                    IN  IF prev = Null THEN Null ELSE mem[mem[prev]]
<1>1. Listed(c) = at
  BY DEF Listed
<1>2. at = CHOOSE f : IsListed(c, f)
  BY DEF IsListed
<1> HIDE DEF at
<1>3. /\ N \in Nat /\ Len(q) \in Nat /\ Len(q) <= N
      /\ \A i \in 1 .. Len(q) : q[i] \in Nat /\ q[i] # Null /\ mem[q[i]] = q[i] + 16
  BY ListIsShort
<1>4. /\ q = << >> <=> Len(q) = 0
      /\ free_list_heads[c] = IF q = << >> THEN Null ELSE q[1]
      /\ \A i \in 1 .. Len(q) : mem[q[i] + 16] = IF i = Len(q) THEN Null ELSE q[i + 1]
  <2>1. IsFreeList(mem, free_list_heads[c], q)
    BY HeapIs DEF Books, ListsOK
  <2>2. q \in Seq(Nat)
    BY <2>1 DEF IsFreeList
  <2> QED  BY <2>1, <2>2, EmptySeq DEF IsFreeList
<1> HIDE DEF N, q
<1>5. IsListed(c, g)
  <2>1. ASSUME NEW i \in 0 .. N
        PROVE  g[i] = IF i = 0 THEN free_list_heads[c]
                      ELSE IF g[i - 1] = Null THEN Null ELSE mem[mem[g[i - 1]]]
    <3>1. CASE i = 0
      BY <1>3, <1>4, <3>1
    <3>2. CASE i # 0 /\ i - 1 < Len(q)
      <4>1. /\ i \in 1 .. Len(q) /\ i - 1 \in 0 .. N /\ (i - 1) + 1 = i /\ g[i - 1] = q[i]
            /\ q[i] # Null /\ mem[q[i]] = q[i] + 16
        BY <1>3, <3>2
      <4>2. i < Len(q) <=> i # Len(q)
        BY <1>3, <4>1
      <4>3. mem[q[i] + 16] = IF i = Len(q) THEN Null ELSE q[i + 1]
        BY <1>4, <4>1
      <4> QED  BY <3>2, <4>1, <4>2, <4>3
    <3>3. CASE i # 0 /\ ~ i - 1 < Len(q)
      <4>1. i - 1 \in 0 .. N /\ g[i - 1] = Null /\ ~ i < Len(q)
        BY <1>3, <3>3
      <4> QED  BY <3>3, <4>1
    <3> QED  BY <3>1, <3>2, <3>3
  <2> QED  BY <2>1 DEF IsListed, N
<1>6. IsListed(c, at)
  BY <1>2, <1>5
<1>7. /\ DOMAIN at = 0 .. N
      /\ \A i \in 0 .. N :
            at[i] = IF i = 0 THEN free_list_heads[c]
                    ELSE IF at[i - 1] = Null THEN Null ELSE mem[mem[at[i - 1]]]
  BY <1>6 DEF IsListed, N
<1>8. /\ DOMAIN g = 0 .. N
      /\ \A i \in 0 .. N :
            g[i] = IF i = 0 THEN free_list_heads[c]
                    ELSE IF g[i - 1] = Null THEN Null ELSE mem[mem[g[i - 1]]]
  BY <1>5 DEF IsListed, N
<1> DEFINE T == { i \in Nat : i <= N => at[i] = g[i] }
<1> HIDE DEF g
<1>9. 0 \in T
  <2>1. 0 \in 0 .. N
    BY <1>3
  <2> QED  BY <1>7, <1>8, <2>1
<1>10. ASSUME NEW i \in T  PROVE i + 1 \in T
  <2> SUFFICES ASSUME i + 1 <= N  PROVE at[i + 1] = g[i + 1]
    OBVIOUS
  <2>1. i \in 0 .. N /\ i + 1 \in 0 .. N /\ i + 1 # 0 /\ (i + 1) - 1 = i
    BY <1>3
  <2>2. at[i] = g[i]
    BY <2>1
  <2> QED  BY <1>7, <1>8, <2>1, <2>2
<1>11. T = Nat
  <2> HIDE DEF T
  <2>1. T \in SUBSET Nat
    BY DEF T
  <2>2. ASSUME Nat \ T # {}  PROVE FALSE
    <3>1. PICK x \in Nat \ T : \A y \in Nat \ T : x <= y
      BY <2>2, Smallest
    <3>2. x # 0
      BY <1>9, <3>1
    <3>3. x - 1 \in Nat /\ ~ x <= x - 1 /\ (x - 1) + 1 = x
      BY <3>2
    <3>4. x - 1 \in T
      BY <3>1, <3>3
    <3> QED  BY <1>10, <3>1, <3>3, <3>4
  <2> QED  BY <2>1, <2>2
<1>12. \A i \in 0 .. N : at[i] = g[i]
  BY <1>3, <1>11
<1>13. \A i \in 0 .. N : at[i] = IF i < Len(q) THEN q[i + 1] ELSE Null
  BY <1>12 DEF g
<1> QED  BY <1>1, <1>7, <1>13 DEF N, q

(* The room of a block, header included.                                    *)
LEMMA ExtentIs ==
    ASSUME NEW a \in Nat, NEW c \in Buckets
    PROVE  Extent(a, c).at = a /\ Extent(a, c).at + Extent(a, c).len = EndOf(a, c)
<1>1. Extent(a, c) = [at |-> a, len |-> 16 + ClassSize[c]]
  BY DEF Extent, FatPtr
<1>2. a + (16 + ClassSize[c]) = a + 16 + ClassSize[c]
  BY BucketFacts
<1> QED  BY <1>1, <1>2 DEF EndOf

(* What the books say is what BucketsExact asks for.                        *)
LEMMA InvIsPartition == BucketInv => HeapIsPartitioned
<1> SUFFICES ASSUME BucketInv  PROVE HeapIsPartitioned
  OBVIOUS
<1>1. PICK L : Books(heap, L, held)
  BY DEF BucketInv
<1>2. ASSUME NEW c \in Buckets
      PROVE  Listed(c)[MaxBlocks] = Null /\ FreeBlocks(c) = FreeAt(L[c])
  <2> DEFINE N == MaxBlocks  q == L[c]  at == Listed(c)
  <2>1. N \in Nat /\ Len(q) \in Nat /\ Len(q) <= N /\ \A i \in 1 .. Len(q) : q[i] # Null
    BY <1>1, ListIsShort
  <2>2. \A i \in 0 .. N : at[i] = IF i < Len(q) THEN q[i + 1] ELSE Null
    BY <1>1, ListedIs
  <2> HIDE DEF N, q, at
  <2>3. at[N] = Null
    BY <2>1, <2>2
  <2>4. ASSUME NEW i \in 0 .. N, at[i] # Null
        PROVE  i + 1 \in 1 .. Len(q) /\ at[i] = q[i + 1]
    BY <2>1, <2>2, <2>4
  <2>5. ASSUME NEW i \in 1 .. Len(q)
        PROVE  i - 1 \in 0 .. N /\ at[i - 1] = q[i] /\ q[i] # Null
    <3>1. i - 1 \in 0 .. N /\ i - 1 < Len(q) /\ (i - 1) + 1 = i
      BY <2>1
    <3> QED  BY <2>1, <2>2, <3>1
  <2>6. { at[i] : i \in 0 .. N } \ {Null} = { q[i] : i \in 1 .. Len(q) }
    BY <2>4, <2>5
  <2>7. at[N] = Null /\ { at[i] : i \in 0 .. N } \ {Null} = FreeAt(q)
    BY <2>3, <2>6 DEF FreeAt
  <2> QED  BY <2>7 DEF FreeBlocks, N, q, at
<1>3. \A c \in Buckets : \A a \in FreeAt(L[c]) : a \in Nat /\ Has(L, held, a, c)
  BY <1>1, ListIsShort DEF FreeAt
<1>4. \A b \in held : BucketOf(b.size) # Huge =>
          /\ b.hdr \in Nat /\ b.size \in Nat /\ BucketOf(b.size) \in Buckets
          /\ Has(L, held, b.hdr, BucketOf(b.size))
          /\ mem[b.hdr] = b.hdr + 16 /\ mem[b.hdr + 8] = b.hdr + 16 + b.size
  BY <1>1, HolderWords, HeapIs
<1>5. \A c \in Buckets, d \in Buckets : c # d => FreeBlocks(c) \cap FreeBlocks(d) = {}
  <2> SUFFICES ASSUME NEW c \in Buckets, NEW d \in Buckets, c # d,
                      NEW a \in FreeAt(L[c]), a \in FreeAt(L[d])
               PROVE  FALSE
    BY <1>2
  <2> QED  BY <1>1, <1>3, OneBucket
<1>6. \A e : e \in Carved <=>
          \/ \E c \in Buckets : \E f \in FreeAt(L[c]) : e = Extent(f, c)
          \/ \E b \in held : BucketOf(b.size) # Huge /\ e = Extent(b.hdr, BucketOf(b.size))
  <2> DEFINE Free == UNION { { Extent(f, c) : f \in FreeBlocks(c) } : c \in Buckets }
             Held == { Extent(b.hdr, BucketOf(b.size)) :
                           b \in { x \in held : BucketOf(x.size) # Huge } }
  <2>1. Carved = Free \cup Held
    BY DEF Carved
  <2>2. \A e : e \in Free <=> \E c \in Buckets : e \in { Extent(f, c) : f \in FreeBlocks(c) }
    OBVIOUS
  <2>3. \A e : e \in Free <=> \E c \in Buckets : \E f \in FreeAt(L[c]) : e = Extent(f, c)
    BY <1>2, <2>2
  <2>4. \A e : e \in Held <=>
            \E b \in held : BucketOf(b.size) # Huge /\ e = Extent(b.hdr, BucketOf(b.size))
    OBVIOUS
  <2> HIDE DEF Free, Held
  <2> QED  BY <2>1, <2>3, <2>4
<1>7. \A e : e \in Carved <=>
          \E a \in Nat, c \in Buckets : Has(L, held, a, c) /\ e = Extent(a, c)
  <2>1. ASSUME NEW e \in Carved
        PROVE  \E a \in Nat, c \in Buckets : Has(L, held, a, c) /\ e = Extent(a, c)
    BY <1>3, <1>4, <1>6
  <2>2. ASSUME NEW a \in Nat, NEW c \in Buckets, Has(L, held, a, c)
        PROVE  Extent(a, c) \in Carved
    <3>1. CASE a \in FreeAt(L[c])
      BY <1>6, <3>1
    <3>2. CASE \E b \in held : b.hdr = a /\ BucketOf(b.size) = c
      BY <1>6, <3>2, BucketFacts
    <3> QED  BY <2>2, <3>1, <3>2 DEF Has
  <2> QED  BY <2>1, <2>2
<1>8. \A e \in Carved, f \in Carved : e # f => e.at + e.len <= f.at \/ f.at + f.len <= e.at
  <2> SUFFICES ASSUME NEW e \in Carved, NEW f \in Carved, e # f
               PROVE  e.at + e.len <= f.at \/ f.at + f.len <= e.at
    OBVIOUS
  <2>1. PICK a \in Nat, c \in Buckets : Has(L, held, a, c) /\ e = Extent(a, c)
    BY <1>7
  <2>2. PICK b \in Nat, d \in Buckets : Has(L, held, b, d) /\ f = Extent(b, d)
    BY <1>7
  <2>3. ~ (a = b /\ c = d)
    BY <2>1, <2>2
  <2>4. EndOf(a, c) <= b \/ EndOf(b, d) <= a
    BY <1>1, <2>1, <2>2, <2>3 DEF Books, ApartOK
  <2>5. e.at = a /\ e.at + e.len = EndOf(a, c) /\ f.at = b /\ f.at + f.len = EndOf(b, d)
    BY <2>1, <2>2, ExtentIs
  <2> QED  BY <2>4, <2>5
<1>9. \A w \in WordsFrom(HeapBase, heap_curr - HeapBase) :
          \E e \in Carved : e.at <= w /\ w < e.at + e.len
  <2> SUFFICES ASSUME NEW w \in WordsFrom(HeapBase, heap_curr - HeapBase)
               PROVE  \E e \in Carved : e.at <= w /\ w < e.at + e.len
    OBVIOUS
  <2>1. HeapBase \in Nat /\ heap_curr \in Nat
    BY <1>1, WordFacts, HeapIs DEF Books, HeapRecs
  <2>2. w \in HeapBase .. heap_curr - 1
    BY <2>1 DEF WordsFrom
  <2>3. PICK a \in Nat, c \in Buckets : Has(L, held, a, c) /\ a <= w /\ w < EndOf(a, c)
    BY <1>1, <2>2, HeapIs DEF Books, CoverOK
  <2>4. Extent(a, c).at = a /\ Extent(a, c).at + Extent(a, c).len = EndOf(a, c)
    BY ExtentIs
  <2> QED  BY <1>7, <2>3, <2>4
<1>10. \A b \in held : BucketOf(b.size) # Huge =>
           mem[b.hdr] = b.hdr + FatPtr /\ mem[b.hdr + Word] = mem[b.hdr] + b.size
  BY <1>4 DEF FatPtr, Word
<1>11. \A c \in Buckets : Listed(c)[MaxBlocks] = Null
  BY <1>2
<1> QED  BY <1>5, <1>8, <1>9, <1>10, <1>11 DEF HeapIsPartitioned

(* No byte of the heap is lost and none has two owners.                     *)
THEOREM BucketsAlwaysExact == Spec => []BucketsExact
<1>1. BucketInv => BucketsTypeOK
  <2> SUFFICES ASSUME BucketInv  PROVE BucketsTypeOK
    OBVIOUS
  <2>1. PICK L : Books(heap, L, held)
    BY DEF BucketInv
  <2>2. heap_curr \in HeapBase .. HeapEnd /\ DOMAIN free_list_heads = Buckets /\ DOMAIN mem = Words
    BY <2>1, HeapIs DEF Books, HeapRecs
  <2>3. \A b \in held : b.size \in Sizes \cup {16} /\ b.hdr \in Words /\ b.hdr + 8 \in Words
    BY <2>1, HolderWords DEF Books, HeldOK
  <2> QED  BY <2>2, <2>3 DEF BucketsTypeOK, BucketInv, Word
<1>2. BucketInv => BucketsExact
  BY <1>1, InvIsPartition DEF BucketsExact
<1> QED  BY <1>2, BucketInvariant, PTL

-----------------------------------------------------------------------------
(* Two blocks that are held share no byte.                                  *)
Room(b) == [at |-> b.hdr, len |-> 16 + b.size]

(* The places of two holders share no address.                              *)
LEMMA RoomsApart ==
    ASSUME NEW h, NEW L, NEW G, Books(h, L, G), NEW x \in G, NEW y \in G, x # y
    PROVE  /\ Room(x) # Room(y)
           /\ \/ Room(x).at + Room(x).len <= Room(y).at
              \/ Room(y).at + Room(y).len <= Room(x).at
<1> DEFINE a == x.hdr  b == y.hdr  m == x.size  n == y.size
           c == BucketOf(x.size)  d == BucketOf(y.size)
<1>1. /\ a \in Nat /\ b \in Nat /\ m \in Nat /\ n \in Nat /\ a # b
      /\ c # Huge => c \in Buckets /\ Has(L, G, a, c) /\ m <= ClassSize[c]
      /\ d # Huge => d \in Buckets /\ Has(L, G, b, d) /\ n <= ClassSize[d]
      /\ c = Huge => a \in MapAddrs /\ m \in Sizes
      /\ d = Huge => b \in MapAddrs /\ n \in Sizes
  <2>1. a # b
    BY DEF Books, OneOwner
  <2>2. a \in Nat /\ b \in Nat /\ m \in Nat /\ n \in Nat
    BY HolderWords
  <2>3. /\ c # Huge => c \in Buckets /\ Has(L, G, a, c) /\ m <= ClassSize[c]
        /\ d # Huge => d \in Buckets /\ Has(L, G, b, d) /\ n <= ClassSize[d]
    BY HolderWords
  <2>4. (c = Huge => HugeOK(h, x)) /\ (d = Huge => HugeOK(h, y))
    BY HolderWords
  <2> QED  BY <2>1, <2>2, <2>3, <2>4 DEF HugeOK
<1>2. Room(x) = [at |-> a, len |-> 16 + m] /\ Room(y) = [at |-> b, len |-> 16 + n]
  BY DEF Room
<1> HIDE DEF a, b, m, n, c, d
<1>3. ASSUME c # Huge  PROVE a + 16 + m <= HeapEnd /\ EndOf(a, c) \in Nat /\ a + 16 + m <= EndOf(a, c)
  <2>1. /\ EndOf(a, c) \in Nat /\ EndOf(a, c) <= h.curr /\ h.curr \in Nat /\ h.curr <= HeapEnd
    BY <1>1, <1>3, BlockWords DEF InPlace
  <2>2. EndOf(a, c) = a + 16 + ClassSize[c] /\ ClassSize[c] \in Nat /\ HeapEnd \in Nat
    BY <1>1, <1>3, BucketFacts, WordFacts DEF EndOf
  <2> QED  BY <1>1, <1>3, <2>1, <2>2
<1>4. ASSUME d # Huge  PROVE b + 16 + n <= HeapEnd /\ EndOf(b, d) \in Nat /\ b + 16 + n <= EndOf(b, d)
  <2>1. /\ EndOf(b, d) \in Nat /\ EndOf(b, d) <= h.curr /\ h.curr \in Nat /\ h.curr <= HeapEnd
    BY <1>1, <1>4, BlockWords DEF InPlace
  <2>2. EndOf(b, d) = b + 16 + ClassSize[d] /\ ClassSize[d] \in Nat /\ HeapEnd \in Nat
    BY <1>1, <1>4, BucketFacts, WordFacts DEF EndOf
  <2> QED  BY <1>1, <1>4, <2>1, <2>2
<1>5. a + 16 + m <= b \/ b + 16 + n <= a
  <2>1. CASE c # Huge /\ d # Huge
    <3>1. EndOf(a, c) <= b \/ EndOf(b, d) <= a
      BY <1>1, <2>1 DEF Books, ApartOK
    <3> QED  BY <1>1, <1>3, <1>4, <2>1, <3>1
  <2>2. CASE c # Huge /\ d = Huge
    <3>1. b >= HeapEnd /\ HeapEnd \in Nat
      BY <1>1, <2>2, WordFacts
    <3> QED  BY <1>1, <1>3, <2>2, <3>1
  <2>3. CASE c = Huge /\ d # Huge
    <3>1. a >= HeapEnd /\ HeapEnd \in Nat
      BY <1>1, <2>3, WordFacts
    <3> QED  BY <1>1, <1>4, <2>3, <3>1
  <2>4. CASE c = Huge /\ d = Huge
    <3>1. /\ a < b => a + MapLen(m) <= b
          /\ b < a => b + MapLen(n) <= a
      BY <1>1, <2>4, WordFacts
    <3>2. MapLen(m) \in Nat /\ MapLen(m) >= m + 32 /\ MapLen(n) \in Nat /\ MapLen(n) >= n + 32
      BY <1>1, <2>4, WordFacts
    <3> QED  BY <1>1, <3>1, <3>2
  <2> QED  BY <2>1, <2>2, <2>3, <2>4
<1>6. a + (16 + m) = a + 16 + m /\ b + (16 + n) = b + 16 + n
  BY <1>1
<1> QED  BY <1>1, <1>2, <1>5, <1>6

(* The heap counts blocks as this module does.                              *)
LEMMA HeapCounts ==
    ASSUME NEW S  PROVE Extents!Cardinality(S) = Cardinality(S)
  BY DEF Extents!Cardinality, Cardinality

(* As many rooms as blocks.                                                 *)
LEMMA RoomsCount ==
    ASSUME NEW N, IsFiniteSet(N), \A x, y \in N : x # y => Room(x) # Room(y)
    PROVE  Cardinality({ Room(x) : x \in N }) = Cardinality(N)
<1> DEFINE R == { Room(x) : x \in N }
           f == [ x \in N |-> Room(x) ]
<1>1. f \in [N -> R]
  OBVIOUS
<1>2. \A x, y \in N : f[x] = f[y] => x = y
  OBVIOUS
<1>3. \A r \in R : \E x \in N : f[x] = r
  OBVIOUS
<1> HIDE DEF f, R
<1>4. f \in Bijection(N, R)
  BY <1>1, <1>2, <1>3, Fun_IsBij
<1>5. ExistsBijection(N, R)
  BY <1>4, Fun_ExistsBij
<1> QED  BY <1>5, FS_Bijection DEF R

(* An allocation is one of the abstract heap.                               *)
LEMMA DeliveryIsHeaps ==
    ASSUME BucketInv', NEW N, Delivers(N)
    PROVE  Extents!Allocate
<1> DEFINE B == { [at |-> b.hdr, len |-> FatPtr + b.size] : b \in held }
<1>1. /\ held' = held \cup N /\ N \cap held = {} /\ IsFiniteSet(N)
      /\ count' = count + Cardinality(N)
  BY DEF Delivers
<1>2. PICK L : Books(heap', L, held')
  BY DEF BucketInv
<1>3. \A x, y \in held' : x # y => /\ Room(x) # Room(y)
                                   /\ \/ Room(x).at + Room(x).len <= Room(y).at
                                      \/ Room(y).at + Room(y).len <= Room(x).at
  BY <1>2, RoomsApart
<1>4. B = { Room(b) : b \in held } /\ B' = { Room(b) : b \in held' }
  BY DEF Room, FatPtr
<1>5. B \subseteq B' /\ B' \ B = { Room(b) : b \in N }
  BY <1>1, <1>3, <1>4
<1>6. Cardinality(B' \ B) = Cardinality(N)
  BY <1>1, <1>3, <1>5, RoomsCount
<1>7. ASSUME NEW b \in B' \ B, NEW c \in B', b # c  PROVE Extents!Disjoint(b, c)
  <2>1. PICK x \in held' : b = Room(x)
    BY <1>4
  <2>2. PICK y \in held' : c = Room(y)
    BY <1>4
  <2>3. b.at + b.len <= c.at \/ c.at + c.len <= b.at
    BY <1>3, <1>7, <2>1, <2>2
  <2> QED  BY <2>3 DEF Extents!Disjoint
<1>8. \A b \in B' \ B, c \in B' : b # c => Extents!Disjoint(b, c)
  BY <1>7
<1>9. count' = count + Cardinality(B' \ B)
  BY <1>1, <1>6
<1> QED  BY <1>5, <1>8, <1>9, HeapCounts DEF Extents!Allocate

(* A free is one of the abstract heap.                                      *)
LEMMA FreeIsHeaps ==
    ASSUME BucketInv, NEW x \in held, rt_free(x)
    PROVE  Extents!Free
<1> DEFINE B == { [at |-> b.hdr, len |-> FatPtr + b.size] : b \in held }
<1>1. held' = held \ {x} /\ count' = count - 1
  BY DEF rt_free
<1>2. PICK L : Books(heap, L, held)
  BY DEF BucketInv
<1>3. \A y \in held : y # x => Room(y) # Room(x)
  BY <1>2, RoomsApart
<1>4. B = { Room(b) : b \in held } /\ B' = { Room(b) : b \in held' }
  BY DEF Room, FatPtr
<1>5. B' = B \ {Room(x)} /\ Room(x) \in B
  BY <1>1, <1>3, <1>4
<1> QED  BY <1>1, <1>5 DEF Extents!Free

(* The bucket allocator does what Heap promises: it hands out no byte that  *)
(* is still held, and frees no block but the one it is given.               *)
THEOREM BucketsAreHeap == Spec => BucketsImplementHeap
<1>1. Init => Extents!Init
  BY DEF Init, Extents!Init
<1>2. BucketInv /\ BucketInv' /\ [Next]_vars
        => [Extents!Next]_<< { [at |-> b.hdr, len |-> FatPtr + b.size] : b \in held }, count >>
  <2> SUFFICES ASSUME BucketInv, BucketInv', [Next]_vars
               PROVE  [Extents!Next]_<< { [at |-> b.hdr, len |-> FatPtr + b.size] : b \in held },
                                        count >>
    OBVIOUS
  <2>1. ASSUME NEW size \in Sizes, rt_allocate_raw(size) \/ rt_allocate(size)
        PROVE  Extents!Next
    <3>1. PICK N : Delivers(N)
      BY <2>1, RawStep, UserStep
    <3>2. Extents!Allocate
      BY <3>1, DeliveryIsHeaps
    <3> QED  BY <3>2 DEF Extents!Next
  <2>2. ASSUME NEW b \in held, rt_free(b)  PROVE Extents!Next
    BY <2>2, FreeIsHeaps DEF Extents!Next
  <2>3. CASE (\E b \in held : Fill(b)) \/ NextTurn \/ UNCHANGED vars
    <3>1. held' = held /\ count' = count
      BY <2>3 DEF Fill, NextTurn, vars
    <3> QED  BY <3>1
  <2> QED  BY <2>1, <2>2, <2>3 DEF Next
<1>3. Spec => []BucketInv
  BY BucketInvariant
<1> QED  BY <1>1, <1>2, <1>3, PTL DEF Spec, BucketsImplementHeap, Extents!Spec

-----------------------------------------------------------------------------
(* Slabs.                                                                   *)
(* Dividing an index by the width of a word, and rounding up.               *)
LEMMA DivMod ==
    ASSUME NEW k \in Nat \ {0}, NEW w \in Nat, NEW b \in 0 .. k - 1
    PROVE  (w * k + b) \div k = w /\ (w * k + b) % k = b
  OBVIOUS

(* Quotient and remainder of an index below n * k.                          *)
LEMMA DivRange ==
    ASSUME NEW k \in Nat \ {0}, NEW n \in Nat, NEW i \in 0 .. n * k - 1
    PROVE  /\ i \div k \in 0 .. n - 1 /\ i % k \in 0 .. k - 1
           /\ i = (i \div k) * k + (i % k)
  OBVIOUS

(* Dividing upwards leaves room for all.                                    *)
LEMMA CeilMul ==
    ASSUME NEW k \in Nat \ {0}, NEW n \in Nat \ {0}
    PROVE  /\ (n + k - 1) \div k \in Nat \ {0}
           /\ ((n + k - 1) \div k) * k >= n
  OBVIOUS

(* A product that fits bounds its factor.                                   *)
LEMMA MulLe ==
    ASSUME NEW d \in Nat \ {0}, NEW a \in Nat, NEW b \in Nat, a * d <= b
    PROVE  a <= b \div d
  OBVIOUS

(* Every nonempty set of numbers has a least one, which is its Least.       *)
LEMMA LeastOf ==
    ASSUME NEW T, T \subseteq Nat, T # {}
    PROVE  Least(T) \in T /\ \A y \in T : Least(T) <= y
<1> DEFINE R == OpToRel(<, Nat)
<1>1. IsWellFoundedOn(R, Nat)
  BY NatLessThanWellFounded
<1>2. \A x, y \in Nat : << x, y >> \in R <=> x < y
  BY DEF OpToRel
<1> HIDE DEF R
<1>3. PICK x \in T : \A y \in T : ~ << y, x >> \in R
  BY <1>1, WFMin
<1>4. ASSUME NEW y \in T  PROVE x <= y
  <2>1. x \in Nat /\ y \in Nat
    OBVIOUS
  <2>2. ~ y < x
    BY <1>2, <1>3, <2>1
  <2> QED  BY <2>1, <2>2
<1> QED  BY <1>4 DEF Least

(* A set of numbers with 0 and with the successors of its members has all.  *)
LEMMA AllNumbers ==
    ASSUME NEW T \in SUBSET Nat, 0 \in T, \A n \in T : n + 1 \in T
    PROVE  T = Nat
<1> SUFFICES ASSUME Nat \ T # {}  PROVE FALSE
  OBVIOUS
<1> DEFINE x == Least(Nat \ T)
<1>1. x \in Nat \ T /\ \A y \in Nat \ T : x <= y
  BY LeastOf
<1> HIDE DEF x
<1>2. x - 1 \in T
  BY <1>1
<1>3. (x - 1) + 1 \in T
  BY <1>2
<1> QED  BY <1>1, <1>3

-----------------------------------------------------------------------------
(* The shapes of headers, chunks and of what an allocation computes with.   *)
Links == SlabAddrs \cup {NoAddr}
Bitmaps(c) == [ 0 .. NumWords(c) - 1 -> SUBSET (0 .. WordBits - 1) ]
HeadersOf(c) ==
    [class : {c}, free_count : Nat, next : Links, prev : Links, bits : Bitmaps(c)]
Headers == UNION { HeadersOf(c) : c \in Classes }
ChunksIn == [slab : SlabAddrs, chunk : Nat, class : Classes]
Heaps == [slabs : [SlabAddrs -> Headers \cup {Unmapped}],
          head : [Classes -> Links], current : [Classes -> Links],
          got : SUBSET ChunksIn, end : {"ok", "dying", "fault"}]

MappedIn(S) == { s \in SlabAddrs : S[s] # Unmapped }
OfClass(S, c) == { s \in SlabAddrs : S[s].class = c }

(* The chunks whose bits are set.                                           *)
FreeIn(x) ==
    { i \in 0 .. NumWords(x.class) * WordBits - 1 :
          i % WordBits \in x.bits[i \div WordBits] }
Unheld(H, s, c) == { i \in 0 .. ChunksOf[c] - 1 : \A x \in H : x.slab # s \/ x.chunk # i }
BitsAgree(S, H) ==
    \A s \in SlabAddrs, c \in Classes : S[s].class = c =>
        /\ FreeIn(S[s]) = Unheld(H, s, c)
        /\ S[s].free_count = Cardinality(FreeIn(S[s]))

(* Whoever holds a chunk holds one that a slab of its class has.            *)
HeldSound(S, H) ==
    /\ H \subseteq ChunksIn /\ IsFiniteSet(H)
    /\ \A x \in H : S[x.slab].class = x.class /\ x.chunk < ChunksOf[x.class]

(* The list of a class, as a sequence.                                      *)
IsList(S, first, T, q) ==
    /\ q \in Seq(SlabAddrs)
    /\ \A i, j \in 1 .. Len(q) : q[i] = q[j] => i = j
    /\ T = { q[i] : i \in 1 .. Len(q) }
    /\ first = IF q = << >> THEN NoAddr ELSE q[1]
    /\ \A i \in 1 .. Len(q) :
          /\ S[q[i]].next = IF i = Len(q) THEN NoAddr ELSE q[i + 1]
          /\ S[q[i]].prev = IF i = 1 THEN NoAddr ELSE q[i - 1]
Linked(h) ==
    \A c \in Classes : \E q : IsList(h.slabs, h.head[c], OfClass(h.slabs, c), q)

CurrentOK(h) == \A c \in Classes : h.current[c] \in OfClass(h.slabs, c) \cup {NoAddr}

SlabBooks(h, H) ==
    /\ h \in Heaps /\ BitsAgree(h.slabs, H) /\ HeldSound(h.slabs, H)
    /\ Linked(h) /\ CurrentOK(h)

(* Slabs are mapped for what was held at once.                              *)
SlabsFor(c, n) == (n + ChunksOf[c] - 1) \div ChunksOf[c]
PeakOK ==
    \A c \in Classes :
        /\ peak[c] \in Nat /\ Cardinality(HeldOf(chunks, c)) <= peak[c]
        /\ Cardinality(OfClass(slabs, c)) <= SlabsFor(c, peak[c])

SlabInv ==
    /\ SlabBooks(classState, chunks) /\ PeakOK
    /\ DOMAIN peak = Classes
    /\ slab_dying \in BOOLEAN /\ slab_result.end \in {"ok", "dying", "fault"}

-----------------------------------------------------------------------------
(* What the kinds of a heap say about one slab.                             *)
LEMMA SlabFacts ==
    ASSUME NEW h \in Heaps, NEW s \in SlabAddrs
    PROVE  /\ h.slabs[s] # Unmapped <=> h.slabs[s].class \in Classes
           /\ \A c \in Classes : h.slabs[s].class = c => h.slabs[s] \in HeadersOf(c)
           /\ h.slabs[s] = Unmapped => h.slabs[s].class = NoAddr
           /\ NoAddr \notin Classes /\ NoAddr \notin SlabAddrs
<1>1. NoAddr \notin Classes /\ NoAddr \notin SlabAddrs
  BY SlabAssumption
<1>2. h.slabs[s] \in Headers \cup {Unmapped}
  BY DEF Heaps
<1>3. Unmapped.class = NoAddr
  BY DEF Unmapped
<1>4. CASE h.slabs[s] = Unmapped
  BY <1>1, <1>3, <1>4
<1>5. CASE h.slabs[s] \in Headers
  <2>1. PICK c \in Classes : h.slabs[s] \in HeadersOf(c)
    BY <1>5 DEF Headers
  <2>2. h.slabs[s].class = c
    BY <2>1 DEF HeadersOf
  <2> QED  BY <1>1, <1>3, <2>1, <2>2
<1> QED  BY <1>2, <1>4, <1>5

(* The words of a bitmap are enough for the chunks of its class.            *)
LEMMA ClassFacts ==
    ASSUME NEW c \in Classes
    PROVE  /\ WordBits \in Nat \ {0} /\ ChunksOf[c] \in Nat \ {0}
           /\ NumWords(c) \in Nat \ {0} /\ NumWords(c) * WordBits >= ChunksOf[c]
           /\ NumWords(c) * WordBits \in Nat
<1>1. WordBits \in Nat \ {0} /\ ChunksOf[c] \in Nat \ {0}
  BY SlabAssumption
<1>2. NumWords(c) \in Nat \ {0} /\ NumWords(c) * WordBits >= ChunksOf[c]
  BY <1>1, CeilMul DEF NumWords
<1> QED  BY <1>1, <1>2

(* A free chunk is a set bit and the other way round.                       *)
LEMMA FreeBits ==
    ASSUME NEW c \in Classes, NEW x \in HeadersOf(c)
    PROVE  /\ FreeIn(x) \subseteq Nat /\ IsFiniteSet(FreeIn(x))
           /\ \A w \in 0 .. NumWords(c) - 1, b \in 0 .. WordBits - 1 :
                 b \in x.bits[w] <=> w * WordBits + b \in FreeIn(x)
           /\ SetWords(x) # {} <=> FreeIn(x) # {}
<1> DEFINE n == NumWords(c)  k == WordBits
<1>1. k \in Nat \ {0} /\ n \in Nat \ {0} /\ n * k \in Nat
  BY ClassFacts
<1>2. x.class = c /\ x.bits \in [0 .. n - 1 -> SUBSET (0 .. k - 1)]
  BY DEF HeadersOf, Bitmaps
<1>3. FreeIn(x) = { i \in 0 .. n * k - 1 : i % k \in x.bits[i \div k] }
  BY <1>2 DEF FreeIn
<1> HIDE DEF n, k
<1>4. FreeIn(x) \subseteq 0 .. n * k - 1
  BY <1>3
<1>5. IsFiniteSet(0 .. n * k - 1)
  BY <1>1, FS_Interval
<1>6. IsFiniteSet(FreeIn(x)) /\ FreeIn(x) \subseteq Nat
  BY <1>1, <1>4, <1>5, FS_Subset
<1>7. ASSUME NEW w \in 0 .. n - 1, NEW b \in 0 .. k - 1
      PROVE  b \in x.bits[w] <=> w * k + b \in FreeIn(x)
  <2>1. (w * k + b) \div k = w /\ (w * k + b) % k = b
    BY <1>1, DivMod
  <2>2. w * k + b \in 0 .. n * k - 1
    <3>1. w + 1 <= n /\ (w + 1) * k <= n * k
      BY <1>1
    <3> QED  BY <1>1, <3>1
  <2> QED  BY <1>3, <2>1, <2>2
<1>8. ASSUME NEW i \in FreeIn(x)  PROVE i \div k \in SetWords(x)
  <2>1. i \div k \in 0 .. n - 1 /\ i % k \in x.bits[i \div k]
    BY <1>1, <1>3, DivRange
  <2> QED  BY <1>2, <2>1 DEF SetWords
<1>9. ASSUME NEW w \in SetWords(x)  PROVE FreeIn(x) # {}
  <2>1. w \in 0 .. n - 1 /\ x.bits[w] # {} /\ x.bits[w] \subseteq 0 .. k - 1
    BY <1>2 DEF SetWords
  <2>2. PICK b \in 0 .. k - 1 : b \in x.bits[w]
    BY <2>1
  <2> QED  BY <1>7, <2>1, <2>2
<1> QED  BY <1>6, <1>7, <1>8, <1>9 DEF n, k

(* Headers whose lists, classes and links are the same have the same lists. *)
LEMMA SameLists ==
    ASSUME NEW h \in Heaps, NEW g \in Heaps, Linked(h), g.head = h.head,
           \A r \in SlabAddrs : /\ g.slabs[r].class = h.slabs[r].class
                                /\ g.slabs[r].next = h.slabs[r].next
                                /\ g.slabs[r].prev = h.slabs[r].prev
    PROVE  Linked(g)
<1> SUFFICES ASSUME NEW c \in Classes
             PROVE  \E q : IsList(g.slabs, g.head[c], OfClass(g.slabs, c), q)
  BY DEF Linked
<1>1. PICK q : IsList(h.slabs, h.head[c], OfClass(h.slabs, c), q)
  BY DEF Linked
<1>2. OfClass(g.slabs, c) = OfClass(h.slabs, c)
  BY DEF OfClass
<1>3. \A i \in 1 .. Len(q) : q[i] \in SlabAddrs
  BY <1>1 DEF IsList
<1>4. IsList(g.slabs, g.head[c], OfClass(g.slabs, c), q)
  BY <1>1, <1>2, <1>3 DEF IsList
<1> QED  BY <1>4

(* Taking a chunk clears the bit of one that nobody holds.                  *)
Taken(h, H, t, c) ==
    /\ SlabBooks(t, H \cup t.got) /\ t.end = h.end
    /\ \E x \in ChunksIn : t.got = {x} /\ x.class = c /\ x \notin H
    /\ \A d \in Classes : OfClass(t.slabs, d) = OfClass(h.slabs, d)

(* TakeChunk clears the first bit that is set: the chunk it hands out was   *)
(* free, and now has one holder.                                            *)
LEMMA TakeKeeps ==
    ASSUME NEW H, NEW h, SlabBooks(h, H), h.got = {}, NEW s \in SlabAddrs, NEW c \in Classes,
           h.slabs[s].class = c, CanTake(h.slabs[s]),
           NEW t, t = TakeChunk(h, s)
    PROVE  Taken(h, H, t, c)
<1> DEFINE X == h.slabs[s]  k == WordBits  n == NumWords(c)
           w == Least(SetWords(X))  b == Least(X.bits[w])
           i == w * k + b
           x == [slab |-> s, chunk |-> i, class |-> c]
           Y == [X EXCEPT !.bits[w] = @ \ {b}, !.free_count = @ - 1]
<1>1. k \in Nat \ {0} /\ n \in Nat \ {0} /\ n * k \in Nat /\ ChunksOf[c] \in Nat \ {0}
  BY ClassFacts
<1>2. h \in Heaps /\ BitsAgree(h.slabs, H) /\ HeldSound(h.slabs, H) /\ Linked(h)
      /\ CurrentOK(h)
  BY DEF SlabBooks
<1>3. X \in HeadersOf(c)
  BY <1>2, SlabFacts
<1>4. /\ X.class = c /\ X.bits \in [0 .. n - 1 -> SUBSET (0 .. k - 1)]
      /\ X.free_count \in Nat /\ X.next \in Links /\ X.prev \in Links
      /\ DOMAIN X = {"class", "free_count", "next", "prev", "bits"}
  BY <1>3 DEF HeadersOf, Bitmaps
<1>5. w \in 0 .. n - 1 /\ b \in 0 .. k - 1 /\ b \in X.bits[w]
  <2>1. SetWords(X) \subseteq 0 .. n - 1 /\ SetWords(X) # {}
    BY <1>4 DEF SetWords, CanTake
  <2>2. w \in SetWords(X)
    BY <2>1, LeastOf
  <2>3. w \in 0 .. n - 1 /\ X.bits[w] # {} /\ X.bits[w] \subseteq 0 .. k - 1
    BY <1>4, <2>1, <2>2 DEF SetWords
  <2>4. b \in X.bits[w]
    BY <1>1, <2>3, LeastOf
  <2> QED  BY <2>3, <2>4
<1> HIDE DEF w, b
<1>6. /\ FreeIn(X) \subseteq Nat /\ IsFiniteSet(FreeIn(X)) /\ i \in FreeIn(X)
      /\ FreeIn(X) = Unheld(H, s, c) /\ X.free_count = Cardinality(FreeIn(X))
  BY <1>2, <1>3, <1>5, FreeBits DEF BitsAgree
<1>7. i \in 0 .. ChunksOf[c] - 1 /\ \A y \in H : y.slab # s \/ y.chunk # i
  BY <1>6 DEF Unheld
<1>8. t = [h EXCEPT !.slabs = [h.slabs EXCEPT ![s] = Y], !.got = {x}]
  BY <1>2, <1>4, <1>5 DEF TakeChunk, w, b, Heaps
<1>9. /\ Y.class = c /\ Y.next = X.next /\ Y.prev = X.prev
      /\ Y.free_count = X.free_count - 1
      /\ Y.bits = [X.bits EXCEPT ![w] = X.bits[w] \ {b}]
      /\ DOMAIN Y = {"class", "free_count", "next", "prev", "bits"}
  BY <1>4, <1>5
<1>10. FreeIn(Y) = FreeIn(X) \ {i}
  <2>1. FreeIn(X) = { j \in 0 .. n * k - 1 : j % k \in X.bits[j \div k] }
    BY <1>4 DEF FreeIn
  <2>2. FreeIn(Y) = { j \in 0 .. n * k - 1 : j % k \in Y.bits[j \div k] }
    BY <1>9 DEF FreeIn
  <2>3. ASSUME NEW j \in 0 .. n * k - 1
        PROVE  j % k \in Y.bits[j \div k] <=> j % k \in X.bits[j \div k] /\ j # i
    <3>1. j \div k \in 0 .. n - 1 /\ j = (j \div k) * k + (j % k)
      BY <1>1, DivRange
    <3>2. i \div k = w /\ i % k = b
      BY <1>1, <1>5, DivMod
    <3>3. j = i <=> j \div k = w /\ j % k = b
      BY <3>1, <3>2
    <3> HIDE DEF i, Y, X
    <3> QED  BY <1>4, <1>5, <1>9, <3>1, <3>3
  <2> QED  BY <2>1, <2>2, <2>3
<1>11. /\ Cardinality(FreeIn(Y)) = X.free_count - 1 /\ Y.free_count \in Nat
  <2>1. Cardinality(FreeIn(Y)) = Cardinality(FreeIn(X)) - 1 /\ IsFiniteSet(FreeIn(Y))
    BY <1>6, <1>10, FS_RemoveElement
  <2>2. Cardinality(FreeIn(Y)) \in Nat
    BY <2>1, FS_CardinalityType
  <2> QED  BY <1>4, <1>6, <1>9, <2>1, <2>2
<1>12. Y \in HeadersOf(c)
  BY <1>4, <1>5, <1>9, <1>11 DEF HeadersOf, Bitmaps
<1>13. x \in ChunksIn /\ x \notin H
  BY <1>7 DEF ChunksIn
<1> HIDE DEF X, Y, i
<1>14. /\ t.slabs = [h.slabs EXCEPT ![s] = Y] /\ t.got = {x} /\ t.end = h.end
       /\ t.head = h.head /\ t.current = h.current
       /\ h.slabs \in [SlabAddrs -> Headers \cup {Unmapped}]
  BY <1>2, <1>8 DEF Heaps
<1>15. t \in Heaps
  <2>1. Y \in Headers
    BY <1>12 DEF Headers
  <2>2. [h.slabs EXCEPT ![s] = Y] \in [SlabAddrs -> Headers \cup {Unmapped}]
    BY <1>14, <2>1
  <2>3. {x} \subseteq ChunksIn
    BY <1>13
  <2> HIDE DEF x
  <2>4. t = [slabs |-> [h.slabs EXCEPT ![s] = Y], head |-> h.head, current |-> h.current,
             got |-> {x}, end |-> h.end]
    BY <1>2, <1>8 DEF Heaps
  <2> QED  BY <1>2, <2>2, <2>3, <2>4 DEF Heaps
<1>16. \A r \in SlabAddrs : /\ t.slabs[r].class = h.slabs[r].class
                            /\ t.slabs[r].next = h.slabs[r].next
                            /\ t.slabs[r].prev = h.slabs[r].prev
  BY <1>4, <1>9, <1>14 DEF X
<1>17. BitsAgree(t.slabs, H \cup t.got)
  <2> SUFFICES ASSUME NEW r \in SlabAddrs, NEW d \in Classes, t.slabs[r].class = d
               PROVE  /\ FreeIn(t.slabs[r]) = Unheld(H \cup {x}, r, d)
                      /\ t.slabs[r].free_count = Cardinality(FreeIn(t.slabs[r]))
    BY <1>14 DEF BitsAgree
  <2>1. CASE r = s
    <3>1. t.slabs[r] = Y /\ d = c
      BY <1>9, <1>14, <2>1
    <3>2. Unheld(H \cup {x}, s, c) = Unheld(H, s, c) \ {i}
      <4>1. x.slab = s /\ x.chunk = i
        OBVIOUS
      <4> HIDE DEF x
      <4> QED  BY <4>1 DEF Unheld
    <3> QED  BY <1>6, <1>9, <1>10, <1>11, <2>1, <3>1, <3>2
  <2>2. CASE r # s
    <3>1. t.slabs[r] = h.slabs[r]
      BY <1>14, <2>2
    <3>2. Unheld(H \cup {x}, r, d) = Unheld(H, r, d)
      BY <2>2 DEF Unheld
    <3> QED  BY <1>2, <3>1, <3>2 DEF BitsAgree
  <2> QED  BY <2>1, <2>2
<1>18. HeldSound(t.slabs, H \cup t.got)
  <2>1. IsFiniteSet(H \cup {x})
    BY <1>2, FS_AddElement DEF HeldSound
  <2>2. \A y \in H \cup {x} : y \in ChunksIn /\ h.slabs[y.slab].class = y.class
                              /\ y.chunk < ChunksOf[y.class]
    BY <1>1, <1>2, <1>4, <1>7, <1>13 DEF HeldSound, X
  <2>3. \A y \in H \cup {x} : y.slab \in SlabAddrs
    BY <2>2 DEF ChunksIn
  <2> HIDE DEF x
  <2> QED  BY <1>14, <1>16, <2>1, <2>2, <2>3 DEF HeldSound
<1>19. Linked(t)
  BY <1>2, <1>14, <1>15, <1>16, SameLists
<1>20. CurrentOK(t)
  BY <1>2, <1>14, <1>16 DEF CurrentOK, OfClass
<1>21. SlabBooks(t, H \cup t.got)
  BY <1>15, <1>17, <1>18, <1>19, <1>20 DEF SlabBooks
<1>22. x.class = c /\ \A d \in Classes : OfClass(t.slabs, d) = OfClass(h.slabs, d)
  BY <1>16 DEF OfClass
<1> HIDE DEF x
<1> QED  BY <1>13, <1>14, <1>21, <1>22 DEF Taken

(* The header of a new slab, nothing of which is held.                      *)
FreshHeader(c, next) ==
    [class |-> c, free_count |-> ChunksOf[c], next |-> next, prev |-> NoAddr,
     bits |-> FullBitmap(c)]

(* A fresh header has all its chunks free.                                  *)
LEMMA FreshFacts ==
    ASSUME NEW c \in Classes, NEW next \in Links
    PROVE  /\ FreshHeader(c, next) \in HeadersOf(c)
           /\ FreeIn(FreshHeader(c, next)) = 0 .. ChunksOf[c] - 1
           /\ Cardinality(0 .. ChunksOf[c] - 1) = ChunksOf[c]
           /\ IsFiniteSet(0 .. ChunksOf[c] - 1)
<1> DEFINE X == FreshHeader(c, next)  k == WordBits  n == NumWords(c)
<1>1. /\ k \in Nat \ {0} /\ n \in Nat \ {0} /\ n * k \in Nat
      /\ ChunksOf[c] \in Nat \ {0} /\ n * k >= ChunksOf[c]
  BY ClassFacts
<1>2. FullBitmap(c) \in [0 .. n - 1 -> SUBSET (0 .. k - 1)]
  BY DEF FullBitmap
<1>3. X \in HeadersOf(c)
  BY <1>1, <1>2 DEF HeadersOf, Bitmaps, FreshHeader, Links
<1>4. ASSUME NEW i \in 0 .. n * k - 1
      PROVE  i % k \in X.bits[i \div k] <=> i < ChunksOf[c]
  <2>1. i \div k \in 0 .. n - 1 /\ i % k \in 0 .. k - 1 /\ i = (i \div k) * k + (i % k)
    BY <1>1, DivRange
  <2>2. X.bits[i \div k] = { b \in 0 .. k - 1 : (i \div k) * k + b < ChunksOf[c] }
    BY <2>1 DEF FreshHeader, FullBitmap
  <2> QED  BY <2>1, <2>2
<1>5. FreeIn(X) = { i \in 0 .. n * k - 1 : i % k \in X.bits[i \div k] }
  BY DEF FreeIn, FreshHeader
<1> HIDE DEF X, n, k
<1>6. FreeIn(X) = 0 .. ChunksOf[c] - 1
  BY <1>1, <1>4, <1>5
<1>7. /\ Cardinality(0 .. ChunksOf[c] - 1) = ChunksOf[c]
      /\ IsFiniteSet(0 .. ChunksOf[c] - 1)
  <2> DEFINE m == ChunksOf[c]
  <2>1. m \in Nat \ {0}
    BY <1>1
  <2> HIDE DEF m
  <2>2. IsFiniteSet(0 .. m - 1) /\ Cardinality(0 .. m - 1) = m
    <3>1. 0 \in Int /\ m - 1 \in Int /\ ~ 0 > m - 1 /\ m - 1 - 0 + 1 = m
      BY <2>1
    <3> QED  BY <3>1, FS_Interval
  <2> QED  BY <2>2 DEF m
<1> QED  BY <1>3, <1>6, <1>7 DEF X

(* A new slab goes in front of the list of its class.                       *)
LEMMA LinkSlabKeeps ==
    ASSUME NEW H, NEW h, SlabBooks(h, H), NEW c \in Classes, NEW s \in SlabAddrs,
           h.slabs[s] = Unmapped, NEW t, t = LinkNew(h, c, s)
    PROVE  /\ SlabBooks(t, H) /\ t.got = h.got /\ t.end = h.end
           /\ t.slabs[s].class = c /\ CanTake(t.slabs[s])
           /\ \A d \in Classes : /\ s \notin OfClass(h.slabs, d)
                                 /\ OfClass(t.slabs, d) = IF d = c
                                        THEN OfClass(h.slabs, d) \cup {s}
                                        ELSE OfClass(h.slabs, d)
<1> DEFINE old == h.head[c]
           X == FreshHeader(c, old)
           S == [h.slabs EXCEPT ![s] = X]
           T == IF old = NoAddr THEN S ELSE [S EXCEPT ![old].prev = s]
<1>1. h \in Heaps /\ BitsAgree(h.slabs, H) /\ HeldSound(h.slabs, H) /\ Linked(h)
      /\ CurrentOK(h)
  BY DEF SlabBooks
<1>2. /\ h.slabs \in [SlabAddrs -> Headers \cup {Unmapped}]
      /\ h.head \in [Classes -> Links] /\ h.current \in [Classes -> Links]
      /\ h.got \in SUBSET ChunksIn /\ h.end \in {"ok", "dying", "fault"}
      /\ old \in Links
  BY <1>1 DEF Heaps
<1>3. t = [h EXCEPT !.slabs = T, !.head = [h.head EXCEPT ![c] = s],
                    !.current = [h.current EXCEPT ![c] = s]]
  BY <1>1 DEF LinkNew, FreshHeader, Heaps
<1>4. t = [slabs |-> T, head |-> [h.head EXCEPT ![c] = s],
           current |-> [h.current EXCEPT ![c] = s], got |-> h.got, end |-> h.end]
  BY <1>1, <1>3 DEF Heaps
<1>5. /\ X \in HeadersOf(c) /\ FreeIn(X) = 0 .. ChunksOf[c] - 1
      /\ Cardinality(FreeIn(X)) = ChunksOf[c]
      /\ X.class = c /\ X.next = old /\ X.prev = NoAddr /\ X.free_count = ChunksOf[c]
  BY <1>2, FreshFacts DEF FreshHeader
<1>6. NoAddr \notin Classes /\ NoAddr \notin SlabAddrs /\ h.slabs[s].class = NoAddr
  BY <1>1, SlabFacts
<1>7. PICK q : IsList(h.slabs, old, OfClass(h.slabs, c), q)
  BY <1>1 DEF Linked
<1>8. /\ q \in Seq(SlabAddrs) /\ OfClass(h.slabs, c) = { q[i] : i \in 1 .. Len(q) }
      /\ \A i, j \in 1 .. Len(q) : q[i] = q[j] => i = j
      /\ old = IF q = << >> THEN NoAddr ELSE q[1]
      /\ \A i \in 1 .. Len(q) :
          /\ h.slabs[q[i]].next = IF i = Len(q) THEN NoAddr ELSE q[i + 1]
          /\ h.slabs[q[i]].prev = IF i = 1 THEN NoAddr ELSE q[i - 1]
  BY <1>7 DEF IsList
<1>9. /\ Len(q) \in Nat /\ q = << >> <=> Len(q) = 0
      /\ \A i \in 1 .. Len(q) : q[i] \in SlabAddrs
  BY <1>8
<1>10. old = NoAddr <=> Len(q) = 0
  BY <1>6, <1>8, <1>9
<1>11. old # NoAddr => /\ old = q[1] /\ old \in SlabAddrs /\ h.slabs[old].class = c
                       /\ old # s
  BY <1>2, <1>6, <1>8, <1>9, <1>10 DEF OfClass, Links
<1>12. ASSUME NEW r \in SlabAddrs, r # s
       PROVE  /\ T[r].class = h.slabs[r].class /\ T[r].next = h.slabs[r].next
              /\ T[r].free_count = h.slabs[r].free_count /\ T[r].bits = h.slabs[r].bits
              /\ T[r].prev = IF r = old THEN s ELSE h.slabs[r].prev
              /\ r # old => T[r] = h.slabs[r]
              /\ T[r] \in Headers \cup {Unmapped}
  <2> HIDE DEF X
  <2>1. CASE r # old
    BY <1>2, <1>11, <1>12, <2>1
  <2>2. CASE r = old
    <3>1. old # NoAddr /\ T[r] = [h.slabs[old] EXCEPT !.prev = s]
      BY <1>2, <1>6, <1>11, <1>12, <2>2
    <3>2. h.slabs[old] \in HeadersOf(c)
      BY <1>1, <1>11, <3>1, SlabFacts
    <3>3. T[r] \in HeadersOf(c)
      BY <3>1, <3>2 DEF HeadersOf, Links
    <3> QED  BY <2>2, <3>1, <3>2, <3>3 DEF HeadersOf, Headers
  <2> QED  BY <2>1, <2>2
<1>13. T[s] = X /\ DOMAIN T = SlabAddrs /\ T = [r \in SlabAddrs |-> T[r]]
  BY <1>2, <1>11
<1> HIDE DEF T, S, X, old
<1>14. T \in [SlabAddrs -> Headers \cup {Unmapped}]
  <2>1. T[s] \in Headers
    BY <1>5, <1>13 DEF Headers
  <2>2. \A r \in SlabAddrs : T[r] \in Headers \cup {Unmapped}
    BY <1>12, <2>1
  <2> QED  BY <1>13, <2>2
<1>15. t \in Heaps
  <2>1. [h.head EXCEPT ![c] = s] \in [Classes -> Links]
        /\ [h.current EXCEPT ![c] = s] \in [Classes -> Links]
    BY <1>2 DEF Links
  <2> QED  BY <1>2, <1>4, <1>14, <2>1 DEF Heaps
<1>16. \A d \in Classes : /\ s \notin OfClass(h.slabs, d)
                          /\ OfClass(T, d) = IF d = c THEN OfClass(h.slabs, d) \cup {s}
                                              ELSE OfClass(h.slabs, d)
  BY <1>5, <1>6, <1>12, <1>13 DEF OfClass
<1>17. BitsAgree(T, H)
  <2> SUFFICES ASSUME NEW r \in SlabAddrs, NEW d \in Classes, T[r].class = d
               PROVE  /\ FreeIn(T[r]) = Unheld(H, r, d)
                      /\ T[r].free_count = Cardinality(FreeIn(T[r]))
    BY DEF BitsAgree
  <2>1. CASE r = s
    <3>1. \A y \in H : y.slab # s
      BY <1>1, <1>6 DEF HeldSound, ChunksIn
    <3>2. Unheld(H, s, c) = 0 .. ChunksOf[c] - 1
      BY <3>1 DEF Unheld
    <3> QED  BY <1>5, <1>13, <2>1, <3>2
  <2>2. CASE r # s
    <3>1. FreeIn(T[r]) = FreeIn(h.slabs[r]) /\ h.slabs[r].class = d
          /\ T[r].free_count = h.slabs[r].free_count
      BY <1>12, <2>2 DEF FreeIn
    <3> QED  BY <1>1, <3>1 DEF BitsAgree
  <2> QED  BY <2>1, <2>2
<1>18. HeldSound(T, H)
  <2>1. \A y \in H : y.slab \in SlabAddrs /\ y.slab # s
    BY <1>1, <1>6 DEF HeldSound, ChunksIn
  <2> QED  BY <1>1, <1>12, <2>1 DEF HeldSound
<1>19. ASSUME NEW d \in Classes, d # c
       PROVE  \E p : IsList(T, h.head[d], OfClass(T, d), p)
  <2>1. PICK p : IsList(h.slabs, h.head[d], OfClass(h.slabs, d), p)
    BY <1>1 DEF Linked
  <2>2. \A i \in 1 .. Len(p) : p[i] \in OfClass(h.slabs, d) /\ p[i] \in SlabAddrs
    BY <2>1 DEF IsList
  <2>3. \A i \in 1 .. Len(p) : T[p[i]] = h.slabs[p[i]]
    BY <1>6, <1>11, <1>12, <1>19, <2>2 DEF OfClass
  <2>4. IsList(T, h.head[d], OfClass(T, d), p)
    BY <1>16, <1>19, <2>1, <2>3 DEF IsList
  <2> QED  BY <2>4
<1>20. \E p : IsList(T, s, OfClass(T, c), p)
  <2> DEFINE p == << s >> \o q
  <2>1. /\ p \in Seq(SlabAddrs) /\ Len(p) = Len(q) + 1
        /\ p[1] = s /\ \A i \in 1 .. Len(q) : p[i + 1] = q[i]
        /\ \A i \in 1 .. Len(p) : i # 1 => i - 1 \in 1 .. Len(q) /\ p[i] = q[i - 1]
    BY <1>8, <1>9
  <2> HIDE DEF p
  <2>2. p # << >>
    BY <1>9, <2>1
  <2>3. \A i \in 1 .. Len(q) : q[i] # s /\ q[i] \in OfClass(h.slabs, c)
    BY <1>8, <1>16
  <2>4. \A i, j \in 1 .. Len(p) : p[i] = p[j] => i = j
    <3> SUFFICES ASSUME NEW i \in 1 .. Len(p), NEW j \in 1 .. Len(p), p[i] = p[j]
                 PROVE  i = j
      OBVIOUS
    <3>1. CASE i = 1 \/ j = 1
      BY <2>1, <2>3, <3>1
    <3>2. CASE i # 1 /\ j # 1
      <4>0. /\ i - 1 \in 1 .. Len(q) /\ j - 1 \in 1 .. Len(q)
            /\ q[i - 1] = q[j - 1]
        BY <2>1, <3>2
      <4>1. i - 1 = j - 1
        BY <1>8, <4>0
      <4> QED  BY <1>9, <2>1, <4>1
    <3> QED  BY <3>1, <3>2
  <2>5. OfClass(T, c) = { p[i] : i \in 1 .. Len(p) }
    <3>1. OfClass(T, c) = { q[i] : i \in 1 .. Len(q) } \cup {s}
      BY <1>8, <1>16
    <3>2. 1 \in 1 .. Len(p) /\ \A i \in 1 .. Len(q) : i + 1 \in 1 .. Len(p)
      BY <1>9, <2>1
    <3>3. ASSUME NEW r \in OfClass(T, c)  PROVE \E i \in 1 .. Len(p) : r = p[i]
      BY <2>1, <3>1, <3>2
    <3>4. ASSUME NEW i \in 1 .. Len(p)  PROVE p[i] \in OfClass(T, c)
      <4>1. CASE i = 1
        BY <2>1, <3>1, <4>1
      <4>2. CASE i # 1
        BY <2>1, <3>1, <4>2
      <4> QED  BY <4>1, <4>2
    <3> QED  BY <3>3, <3>4
  <2>6. ASSUME NEW i \in 1 .. Len(p)
        PROVE  /\ T[p[i]].next = IF i = Len(p) THEN NoAddr ELSE p[i + 1]
               /\ T[p[i]].prev = IF i = 1 THEN NoAddr ELSE p[i - 1]
    <3>1. CASE i = 1
      <4>1. T[p[i]] = X
        BY <1>13, <2>1, <3>1
      <4>2. i = Len(p) <=> Len(q) = 0
        BY <1>9, <2>1, <3>1
      <4>3. Len(q) # 0 => p[i + 1] = q[1]
        BY <1>9, <2>1, <3>1
      <4> QED  BY <1>5, <1>10, <1>11, <3>1, <4>1, <4>2, <4>3
    <3>2. CASE i # 1
      <4> DEFINE j == i - 1
      <4>1. j \in 1 .. Len(q) /\ p[i] = q[j] /\ i = j + 1 /\ q[j] \in SlabAddrs /\ q[j] # s
        BY <1>9, <2>1, <2>3, <3>2
      <4> HIDE DEF j
      <4>2. /\ T[p[i]].next = h.slabs[q[j]].next
            /\ T[p[i]].prev = IF q[j] = old THEN s ELSE h.slabs[q[j]].prev
        BY <1>12, <4>1
      <4>3. i = Len(p) <=> j = Len(q)
        BY <1>9, <2>1, <4>1
      <4>4. j # Len(q) => p[i + 1] = q[j + 1]
        BY <1>9, <2>1, <4>1
      <4>5. q[j] = old <=> j = 1
        BY <1>8, <1>9, <1>10, <1>11, <4>1
      <4>6. p[i - 1] = IF j = 1 THEN s ELSE q[j - 1]
        BY <1>9, <2>1, <4>1
      <4> QED  BY <1>8, <3>2, <4>1, <4>2, <4>3, <4>4, <4>5, <4>6
    <3> QED  BY <3>1, <3>2
  <2>7. IsList(T, s, OfClass(T, c), p)
    BY <2>1, <2>2, <2>4, <2>5, <2>6 DEF IsList
  <2> QED  BY <2>7
<1>21. Linked(t)
  <2>1. t.slabs = T /\ \A d \in Classes : t.head[d] = IF d = c THEN s ELSE h.head[d]
    BY <1>2, <1>4
  <2> QED  BY <1>19, <1>20, <2>1 DEF Linked
<1>22. CurrentOK(t)
  <2>1. t.slabs = T /\ \A d \in Classes : t.current[d] = IF d = c THEN s ELSE h.current[d]
    BY <1>2, <1>4
  <2> QED  BY <1>1, <1>16, <2>1 DEF CurrentOK
<1>23. CanTake(X)
  <2>1. FreeIn(X) # {} /\ ChunksOf[c] # 0
    <3>1. ChunksOf[c] \in Nat \ {0}
      BY ClassFacts
    <3>2. 0 \in 0 .. ChunksOf[c] - 1
      BY <3>1
    <3> QED  BY <1>5, <3>1, <3>2
  <2>2. SetWords(X) # {}
    BY <1>5, <2>1, FreeBits
  <2> QED  BY <1>5, <2>1, <2>2 DEF CanTake
<1>24. t.slabs = T /\ t.got = h.got /\ t.end = h.end /\ T[s] = X
  BY <1>4, <1>13
<1>25. SlabBooks(t, H)
  BY <1>15, <1>17, <1>18, <1>21, <1>22, <1>24 DEF SlabBooks
<1> QED  BY <1>5, <1>16, <1>23, <1>24, <1>25

-----------------------------------------------------------------------------
(* The walk: Order follows the links, and visits the whole list.            *)
IsOrder(h, c, f) ==
    f = [ i \in 0 .. Cardinality(SlabAddrs) |->
              IF i = 0 THEN h.head[c]
              ELSE IF f[i - 1] = NoAddr THEN NoAddr ELSE h.slabs[f[i - 1]].next ]

(* Order walks the links of a class: its slabs, and NoAddr from the end on. *)
LEMMA OrderIs ==
    ASSUME NEW h \in Heaps, NEW c \in Classes, NEW q,
           IsList(h.slabs, h.head[c], OfClass(h.slabs, c), q)
    PROVE  /\ Cardinality(SlabAddrs) \in Nat /\ Len(q) \in 0 .. Cardinality(SlabAddrs)
           /\ DOMAIN Order(h, c) = 0 .. Cardinality(SlabAddrs)
           /\ \A i \in 0 .. Cardinality(SlabAddrs) :
                 Order(h, c)[i] = IF i < Len(q) THEN q[i + 1] ELSE NoAddr
<1> DEFINE N == Cardinality(SlabAddrs)
           g == [ i \in 0 .. N |-> IF i < Len(q) THEN q[i + 1] ELSE NoAddr ]
           at[i \in 0 .. Cardinality(SlabAddrs)] ==
               IF i = 0 THEN h.head[c]
               ELSE LET prev == at[i - 1]
                    IN  IF prev = NoAddr THEN NoAddr ELSE h.slabs[prev].next
<1>1. Order(h, c) = at
  BY DEF Order
<1>2. at = CHOOSE f : IsOrder(h, c, f)
  BY DEF IsOrder
<1> HIDE DEF at
<1>3. N \in Nat /\ NoAddr \notin SlabAddrs /\ IsFiniteSet(SlabAddrs)
  BY SlabAssumption, FS_CardinalityType
<1>4. /\ q \in Seq(SlabAddrs) /\ Len(q) \in Nat /\ q = << >> <=> Len(q) = 0
      /\ \A i \in 1 .. Len(q) : q[i] \in SlabAddrs
      /\ \A i, j \in 1 .. Len(q) : q[i] = q[j] => i = j
      /\ h.head[c] = IF q = << >> THEN NoAddr ELSE q[1]
      /\ \A i \in 1 .. Len(q) :
            h.slabs[q[i]].next = IF i = Len(q) THEN NoAddr ELSE q[i + 1]
  BY DEF IsList
<1>5. Len(q) <= N
  <2>1. q \in [1 .. Len(q) -> SlabAddrs]
    <3>1. q \in Seq(SlabAddrs)
      BY DEF IsList
    <3> QED  BY <3>1, LenProperties
  <2>2. q \in Injection(1 .. Len(q), SlabAddrs)
    BY <1>4, <2>1, Fun_IsInj
  <2>3. Cardinality(1 .. Len(q)) <= N
    BY <1>3, <2>2, FS_Injection
  <2>4. Cardinality(1 .. Len(q)) = Len(q)
    <3> DEFINE m == Len(q)
    <3>1. Cardinality(1 .. m) = IF 1 > m THEN 0 ELSE m - 1 + 1
      BY <1>4, FS_Interval
    <3> HIDE DEF m
    <3>2. m \in Nat
      BY <1>4 DEF m
    <3>3. Cardinality(1 .. m) = m
      BY <3>1, <3>2
    <3> QED  BY <3>3 DEF m
  <2> QED  BY <2>3, <2>4
<1> HIDE DEF N
<1>6. IsOrder(h, c, g)
  <2>1. ASSUME NEW i \in 0 .. N
        PROVE  g[i] = IF i = 0 THEN h.head[c]
                      ELSE IF g[i - 1] = NoAddr THEN NoAddr ELSE h.slabs[g[i - 1]].next
    <3>1. CASE i = 0
      BY <1>3, <1>4, <3>1
    <3>2. CASE i # 0 /\ i - 1 < Len(q)
      <4>1. i \in 1 .. Len(q) /\ i - 1 \in 0 .. N /\ g[i - 1] = q[i] /\ q[i] # NoAddr
        BY <1>3, <1>4, <3>2
      <4>2. i < Len(q) <=> i # Len(q)
        BY <1>3, <1>4, <4>1
      <4> QED  BY <1>4, <3>2, <4>1, <4>2
    <3>3. CASE i # 0 /\ ~ i - 1 < Len(q)
      <4>1. i - 1 \in 0 .. N /\ g[i - 1] = NoAddr /\ ~ i < Len(q)
        BY <1>3, <1>4, <3>3
      <4> QED  BY <3>3, <4>1
    <3> QED  BY <3>1, <3>2, <3>3
  <2> QED  BY <2>1 DEF IsOrder, N
<1>7. IsOrder(h, c, at)
  BY <1>2, <1>6
<1>8. /\ DOMAIN at = 0 .. N
      /\ \A i \in 0 .. N :
            at[i] = IF i = 0 THEN h.head[c]
                    ELSE IF at[i - 1] = NoAddr THEN NoAddr ELSE h.slabs[at[i - 1]].next
  BY <1>7 DEF IsOrder, N
<1>9. /\ DOMAIN g = 0 .. N
      /\ \A i \in 0 .. N :
            g[i] = IF i = 0 THEN h.head[c]
                    ELSE IF g[i - 1] = NoAddr THEN NoAddr ELSE h.slabs[g[i - 1]].next
  BY <1>6 DEF IsOrder, N
<1> DEFINE T == { i \in Nat : i <= N => at[i] = g[i] }
<1> HIDE DEF g
<1>10. 0 \in T
  <2>1. 0 \in 0 .. N
    BY <1>3
  <2> QED  BY <1>8, <1>9, <2>1
<1>11. ASSUME NEW i \in T  PROVE i + 1 \in T
  <2> SUFFICES ASSUME i + 1 <= N  PROVE at[i + 1] = g[i + 1]
    OBVIOUS
  <2>1. i \in 0 .. N /\ i + 1 \in 0 .. N /\ i + 1 # 0 /\ (i + 1) - 1 = i
    BY <1>3
  <2>2. at[i] = g[i]
    BY <2>1
  <2> QED  BY <1>8, <1>9, <2>1, <2>2
<1>12. T = Nat
  <2> HIDE DEF T
  <2>1. T \in SUBSET Nat
    BY DEF T
  <2> QED  BY <1>10, <1>11, <2>1, AllNumbers
<1>13. \A i \in 0 .. N : at[i] = g[i]
  BY <1>3, <1>12
<1> QED  BY <1>1, <1>3, <1>4, <1>5, <1>8, <1>13 DEF g, N

(* The walk finds a slab with a free chunk if the class has one, and none   *)
(* if every chunk of the class is held.                                     *)
LEMMA WalkIs ==
    ASSUME NEW H, NEW h, SlabBooks(h, H), NEW c \in Classes
    PROVE  /\ Walk(h, c) = {} => \A s \in OfClass(h.slabs, c) : h.slabs[s].free_count = 0
           /\ Walk(h, c) # {} =>
                 LET s == Order(h, c)[Least(Walk(h, c))]
                 IN  s \in OfClass(h.slabs, c) /\ CanTake(h.slabs[s])
<1> DEFINE N == Cardinality(SlabAddrs)  at == Order(h, c)
<1>1. h \in Heaps /\ BitsAgree(h.slabs, H)
  BY DEF SlabBooks
<1>2. PICK q : IsList(h.slabs, h.head[c], OfClass(h.slabs, c), q)
  BY DEF SlabBooks, Linked
<1>3. /\ N \in Nat /\ Len(q) \in 0 .. N /\ DOMAIN at = 0 .. N
      /\ \A i \in 0 .. N : at[i] = IF i < Len(q) THEN q[i + 1] ELSE NoAddr
  BY <1>1, <1>2, OrderIs
<1> HIDE DEF N, at
<1>4. Walk(h, c) = { i \in 0 .. N : at[i] # NoAddr /\ h.slabs[at[i]].free_count # 0 }
  BY <1>3 DEF Walk, WithFree, at
<1>5. OfClass(h.slabs, c) = { q[i] : i \in 1 .. Len(q) } /\ NoAddr \notin SlabAddrs
  BY <1>2, SlabAssumption DEF IsList
<1>6. ASSUME NEW s \in OfClass(h.slabs, c), h.slabs[s].free_count # 0
      PROVE  Walk(h, c) # {}
  <2>1. PICK i \in 1 .. Len(q) : s = q[i]
    BY <1>5
  <2>2. i - 1 \in 0 .. N /\ i - 1 < Len(q) /\ (i - 1) + 1 = i
    BY <1>3
  <2>3. at[i - 1] = s
    BY <1>3, <2>1, <2>2
  <2>4. s # NoAddr
    BY <1>5 DEF OfClass
  <2> QED  BY <1>4, <1>6, <2>2, <2>3, <2>4
<1>7. ASSUME Walk(h, c) # {}
      PROVE  LET s == Order(h, c)[Least(Walk(h, c))]
             IN  s \in OfClass(h.slabs, c) /\ CanTake(h.slabs[s])
  <2> DEFINE i == Least(Walk(h, c))
  <2>1. i \in Walk(h, c)
    BY <1>4, <1>7, LeastOf
  <2> HIDE DEF i
  <2>2. i \in 0 .. N /\ at[i] # NoAddr /\ h.slabs[at[i]].free_count # 0
    BY <1>4, <2>1
  <2>3. i < Len(q) /\ i + 1 \in 1 .. Len(q)
    BY <1>3, <2>2
  <2>4. at[i] \in OfClass(h.slabs, c)
    BY <1>3, <1>5, <2>2, <2>3
  <2>5. at[i] \in SlabAddrs /\ h.slabs[at[i]].class = c
    BY <2>4 DEF OfClass
  <2>6. h.slabs[at[i]] \in HeadersOf(c)
    BY <1>1, <2>5, SlabFacts
  <2>7. FreeIn(h.slabs[at[i]]) # {}
    BY <1>1, <2>2, <2>5, FS_EmptySet DEF BitsAgree
  <2>8. SetWords(h.slabs[at[i]]) # {}
    BY <2>6, <2>7, FreeBits
  <2> QED  BY <2>2, <2>4, <2>8 DEF CanTake, i, at
<1> QED  BY <1>6, <1>7

-----------------------------------------------------------------------------
(* A class without a free chunk has all chunks of its slabs held.           *)
LEMMA FullIsHeld ==
    ASSUME NEW H, NEW h, SlabBooks(h, H), NEW c \in Classes,
           \A s \in OfClass(h.slabs, c) : h.slabs[s].free_count = 0
    PROVE  Cardinality(OfClass(h.slabs, c)) * ChunksOf[c] <= Cardinality(HeldOf(H, c))
<1> DEFINE A == OfClass(h.slabs, c)  B == 0 .. ChunksOf[c] - 1
           f == [ p \in A \X B |-> [slab |-> p[1], chunk |-> p[2], class |-> c] ]
<1>1. h \in Heaps /\ BitsAgree(h.slabs, H) /\ HeldSound(h.slabs, H)
  BY DEF SlabBooks
<1>2. IsFiniteSet(A) /\ IsFiniteSet(B) /\ Cardinality(B) = ChunksOf[c]
  <2>1. A \in SUBSET SlabAddrs /\ IsFiniteSet(SlabAddrs) /\ NoAddr \in Links
    BY SlabAssumption DEF OfClass, Links
  <2> QED  BY <2>1, FS_Subset, FreshFacts
<1>3. IsFiniteSet(HeldOf(H, c))
  <2>1. HeldOf(H, c) \in SUBSET H
    BY DEF HeldOf
  <2> QED  BY <1>1, <2>1, FS_Subset DEF HeldSound
<1>4. ASSUME NEW s \in A, NEW i \in B
      PROVE  [slab |-> s, chunk |-> i, class |-> c] \in HeldOf(H, c)
  <2>1. s \in SlabAddrs /\ h.slabs[s].class = c /\ h.slabs[s].free_count = 0
    BY DEF OfClass
  <2>2. FreeIn(h.slabs[s]) = Unheld(H, s, c)
        /\ Cardinality(FreeIn(h.slabs[s])) = 0 /\ IsFiniteSet(FreeIn(h.slabs[s]))
    BY <1>1, <2>1, SlabFacts, FreeBits DEF BitsAgree
  <2>3. Unheld(H, s, c) = {}
    BY <2>2, FS_EmptySet
  <2>4. PICK x \in H : x.slab = s /\ x.chunk = i
    BY <2>3 DEF Unheld
  <2>5. x \in ChunksIn /\ x.class = c
    BY <1>1, <2>1, <2>4 DEF HeldSound
  <2>6. x = [slab |-> s, chunk |-> i, class |-> c]
    BY <2>4, <2>5 DEF ChunksIn
  <2> QED  BY <2>4, <2>5, <2>6 DEF HeldOf
<1> HIDE DEF A, B
<1>5. f \in Injection(A \X B, HeldOf(H, c))
  <2>1. \A p \in A \X B : p[1] \in A /\ p[2] \in B /\ p = << p[1], p[2] >>
    OBVIOUS
  <2>2. f \in [A \X B -> HeldOf(H, c)]
    BY <1>4, <2>1
  <2>3. ASSUME NEW p \in A \X B, NEW r \in A \X B, f[p] = f[r]  PROVE p = r
    <3>1. f[p].slab = p[1] /\ f[p].chunk = p[2] /\ f[r].slab = r[1] /\ f[r].chunk = r[2]
      OBVIOUS
    <3> HIDE DEF f
    <3> QED  BY <2>1, <2>3, <3>1
  <2> HIDE DEF f
  <2> QED  BY <2>2, <2>3, Fun_IsInj
<1>6. Cardinality(A \X B) = Cardinality(A) * Cardinality(B)
  BY <1>2, FS_Product
<1>7. Cardinality(A \X B) <= Cardinality(HeldOf(H, c))
  BY <1>3, <1>5, FS_Injection
<1> QED  BY <1>2, <1>6, <1>7 DEF A

(* What a call did to the books: a chunk nobody held is got or none, and a  *)
(* class gets a slab only for a chunk it had no place for.                  *)
Grown(h, H, t, d) ==
    /\ \E s \in SlabAddrs : OfClass(t.slabs, d) = OfClass(h.slabs, d) \cup {s}
    /\ \E x \in t.got : x.class = d
    /\ Cardinality(OfClass(h.slabs, d)) * ChunksOf[d] <= Cardinality(HeldOf(H, d))
Served(h, H, t) ==
    /\ SlabBooks(t, H \cup t.got)
    /\ t.got # {} => \E x \in ChunksIn : t.got = {x} /\ x \notin H
    /\ \A d \in Classes : OfClass(t.slabs, d) = OfClass(h.slabs, d) \/ Grown(h, H, t, d)

(* Heaps that differ in the slabs used last, or the outcome.                *)
LEMMA SameBooks ==
    ASSUME NEW H, NEW h, SlabBooks(h, H), NEW t \in Heaps,
           t.slabs = h.slabs, t.head = h.head, CurrentOK(t)
    PROVE  SlabBooks(t, H)
  BY SameLists DEF SlabBooks, Linked

(* rt_allocate_slab serves, and gets a chunk unless it reports otherwise.   *)
LEMMA AllocateServes ==
    ASSUME NEW H, NEW h, SlabBooks(h, H), h.got = {}, h.end = "ok", NEW c \in Classes,
           NEW at \in SlabAddrs \cup {NoAddr, Fault},
           at \in SlabAddrs => h.slabs[at] = Unmapped,
           NEW t, t = rt_allocate_slab(h, c, at)
    PROVE  Served(h, H, t) /\ (t.end # "ok" => t.got = {})
<1> DEFINE cur == h.current[c]  s == Order(h, c)[Least(Walk(h, c))]
<1>1. h \in Heaps /\ CurrentOK(h) /\ NoAddr \notin SlabAddrs
  BY SlabAssumption DEF SlabBooks
<1>2. CASE cur # NoAddr /\ CanTake(h.slabs[cur])
  <2>1. t = TakeChunk(h, cur)
    BY <1>2 DEF rt_allocate_slab
  <2>2. cur \in SlabAddrs /\ h.slabs[cur].class = c
    BY <1>1, <1>2 DEF CurrentOK, OfClass
  <2> HIDE DEF cur
  <2>3. Taken(h, H, t, c)
    BY <1>2, <2>1, <2>2, TakeKeeps
  <2> QED  BY <2>3 DEF Served, Taken
<1>3. CASE ~(cur # NoAddr /\ CanTake(h.slabs[cur])) /\ Walk(h, c) # {}
  <2> DEFINE g == [h EXCEPT !.current[c] = s]
  <2>1. t = TakeChunk(g, s)
    BY <1>3 DEF rt_allocate_slab
  <2>2. s \in OfClass(h.slabs, c) /\ CanTake(h.slabs[s])
    BY <1>3, WalkIs
  <2>3. s \in SlabAddrs /\ h.slabs[s].class = c
    BY <2>2 DEF OfClass
  <2> HIDE DEF s, cur
  <2>4. /\ g \in Heaps /\ g.slabs = h.slabs /\ g.head = h.head /\ g.got = {} /\ g.end = "ok"
        /\ \A d \in Classes : g.current[d] = IF d = c THEN s ELSE h.current[d]
    BY <1>1, <2>3 DEF Heaps, Links
  <2> HIDE DEF g
  <2>5. CurrentOK(g)
    BY <1>1, <2>2, <2>4 DEF CurrentOK
  <2>6. SlabBooks(g, H)
    BY <2>4, <2>5, SameBooks
  <2>7. CanTake(g.slabs[s]) /\ g.slabs[s].class = c
    BY <2>2, <2>3, <2>4
  <2>8. Taken(g, H, t, c)
    BY <2>1, <2>3, <2>4, <2>6, <2>7, TakeKeeps
  <2> QED  BY <2>4, <2>8 DEF Served, Taken
<1>4. CASE /\ ~(cur # NoAddr /\ CanTake(h.slabs[cur])) /\ Walk(h, c) = {}
           /\ at # NoAddr /\ at # Fault
  <2> DEFINE g == LinkNew(h, c, at)
  <2>1. t = TakeChunk(g, at)
    BY <1>4 DEF rt_allocate_slab
  <2>2. at \in SlabAddrs /\ h.slabs[at] = Unmapped
    BY <1>4
  <2> HIDE DEF g, cur, s
  <2>3. /\ SlabBooks(g, H) /\ g.got = {} /\ g.end = "ok"
        /\ g.slabs[at].class = c /\ CanTake(g.slabs[at])
        /\ \A d \in Classes : OfClass(g.slabs, d) = IF d = c
                                        THEN OfClass(h.slabs, d) \cup {at}
                                        ELSE OfClass(h.slabs, d)
    <3>1. PICK r : r = g
      OBVIOUS
    <3>2. r = LinkNew(h, c, at)
      BY <3>1 DEF g
    <3>3. /\ SlabBooks(r, H) /\ r.got = h.got /\ r.end = h.end
          /\ r.slabs[at].class = c /\ CanTake(r.slabs[at])
          /\ \A d \in Classes : OfClass(r.slabs, d) = IF d = c
                                        THEN OfClass(h.slabs, d) \cup {at}
                                        ELSE OfClass(h.slabs, d)
      BY <2>2, <3>2, LinkSlabKeeps
    <3> QED  BY <3>1, <3>3
  <2>4. Taken(g, H, t, c)
    BY <2>1, <2>2, <2>3, TakeKeeps
  <2>5. /\ \A d \in Classes : OfClass(t.slabs, d) = OfClass(g.slabs, d)
        /\ SlabBooks(t, H \cup t.got) /\ t.end = "ok"
        /\ \E x \in ChunksIn : t.got = {x} /\ x.class = c /\ x \notin H
    BY <2>3, <2>4 DEF Taken
  <2>6. Cardinality(OfClass(h.slabs, c)) * ChunksOf[c] <= Cardinality(HeldOf(H, c))
    BY <1>4, WalkIs, FullIsHeld
  <2>7. Grown(h, H, t, c)
    BY <2>2, <2>3, <2>5, <2>6 DEF Grown
  <2> QED  BY <2>3, <2>5, <2>7 DEF Served
<1>5. CASE /\ ~(cur # NoAddr /\ CanTake(h.slabs[cur])) /\ Walk(h, c) = {}
           /\ at = NoAddr \/ at = Fault
  <2>1. PICK e \in {"dying", "fault"} : t = [h EXCEPT !.end = e]
    BY <1>5 DEF rt_allocate_slab
  <2>2. /\ t \in Heaps /\ t.slabs = h.slabs /\ t.head = h.head /\ t.got = {}
        /\ t.current = h.current
    BY <1>1, <2>1 DEF Heaps
  <2>3. CurrentOK(t)
    BY <1>1, <2>2 DEF CurrentOK
  <2>4. SlabBooks(t, H)
    BY <2>2, <2>3, SameBooks
  <2> QED  BY <2>2, <2>4 DEF Served
<1> QED  BY <1>2, <1>3, <1>4, <1>5

(* rt_allocate serves too: the tuple of an out-of-memory error is a chunk   *)
(* like any other.                                                          *)
LEMMA TupleChunkServes ==
    ASSUME NEW H, NEW h, SlabBooks(h, H), h.got = {}, h.end = "ok", NEW c \in Classes,
           NEW at \in SlabAddrs \cup {NoAddr, Fault},
           at \in SlabAddrs => h.slabs[at] = Unmapped
    PROVE  Served(h, H, SlabTuple(h, c, at))
<1> DEFINE t == rt_allocate_slab(h, c, at)
           g == [h EXCEPT !.end = "ok"]
           u == rt_allocate_slab(g, TupleClass, at)
<1>1. Served(h, H, t)
  BY AllocateServes
<1>2. CASE t.end # "dying"
  BY <1>1, <1>2 DEF SlabTuple
<1>3. CASE t.end = "dying"
  <2>1. g = h
    BY DEF SlabBooks, Heaps
  <2>2. TupleClass \in Classes
    BY SlabAssumption
  <2>3. Served(h, H, u)
    BY <2>1, <2>2, AllocateServes
  <2> HIDE DEF t, u, g
  <2>4. PICK e \in {"dying", "fault"} : SlabTuple(h, c, at) = [u EXCEPT !.end = e]
    BY <1>3 DEF SlabTuple, WithTuple, t, u, g
  <2> DEFINE v == SlabTuple(h, c, at)
  <2>5. u \in Heaps
    BY <2>3 DEF Served, SlabBooks
  <2>6. /\ v \in Heaps /\ v.slabs = u.slabs /\ v.head = u.head /\ v.current = u.current
        /\ v.got = u.got
    BY <2>4, <2>5 DEF Heaps
  <2> HIDE DEF v
  <2>7. SlabBooks(u, H \cup u.got)
    BY <2>3 DEF Served
  <2>8. CurrentOK(v)
    BY <2>6, <2>7 DEF SlabBooks, CurrentOK
  <2>9. SlabBooks(v, H \cup v.got)
    BY <2>6, <2>7, <2>8, SameBooks
  <2>10. Served(h, H, v)
    BY <2>3, <2>6, <2>9 DEF Served, Grown
  <2> QED  BY <2>10 DEF v
<1> QED  BY <1>2, <1>3

-----------------------------------------------------------------------------
(* The initial state: no slab, nothing held.                                *)
LEMMA SlabInvInit == SlabInit => SlabInv
<1> SUFFICES ASSUME SlabInit  PROVE SlabInv
  OBVIOUS
<1>1. /\ NoAddr \notin SlabAddrs /\ NoAddr \notin Classes /\ Unmapped.class = NoAddr
  BY SlabAssumption DEF Unmapped
<1>2. /\ slabs = [ s \in SlabAddrs |-> Unmapped ]
      /\ slabs_head = [ c \in Classes |-> NoAddr ]
      /\ current_slab = [ c \in Classes |-> NoAddr ]
      /\ chunks = {} /\ slab_dying = FALSE /\ slab_result.end = "ok"
      /\ peak = [ c \in Classes |-> 0 ]
  BY DEF SlabInit, NoChunk
<1>3. \A c \in Classes : OfClass(slabs, c) = {} /\ HeldOf(chunks, c) = {}
  BY <1>1, <1>2 DEF OfClass, HeldOf
<1>4. classState \in Heaps
  BY <1>2 DEF classState, Heaps, Links
<1>5. /\ classState.slabs = slabs /\ classState.head = slabs_head
      /\ classState.current = current_slab
  BY DEF classState
<1>6. BitsAgree(slabs, chunks) /\ CurrentOK(classState)
  BY <1>1, <1>2, <1>5 DEF BitsAgree, CurrentOK
<1>7. HeldSound(slabs, chunks)
  BY <1>2, FS_EmptySet DEF HeldSound
<1>8. Linked(classState)
  <2> SUFFICES ASSUME NEW c \in Classes
               PROVE  IsList(slabs, slabs_head[c], OfClass(slabs, c), << >>)
    BY <1>5 DEF Linked
  <2> QED  BY <1>2, <1>3 DEF IsList
<1>9. PeakOK
  <2> SUFFICES ASSUME NEW c \in Classes
               PROVE  0 <= SlabsFor(c, 0)
    BY <1>2, <1>3, FS_EmptySet DEF PeakOK
  <2>1. ChunksOf[c] \in Nat \ {0}
    BY ClassFacts
  <2> QED  BY <2>1 DEF SlabsFor
<1> QED  BY <1>2, <1>4, <1>5, <1>6, <1>7, <1>8, <1>9 DEF SlabInv, SlabBooks

(* The mapped addresses are those of some class.                            *)
LEMMA PlacesAreFree ==
    ASSUME SlabInv, NEW at \in SlabPlaces
    PROVE  /\ at \in SlabAddrs \cup {NoAddr, Fault}
           /\ at \in SlabAddrs => classState.slabs[at] = Unmapped
  BY SlabAssumption DEF SlabPlaces, Mapped, classState, Fault

(* Rounding up is monotonic.                                                *)
LEMMA DivMono ==
    ASSUME NEW d \in Nat \ {0}, NEW a \in Nat, NEW b \in Nat, a <= b
    PROVE  (a + d - 1) \div d <= (b + d - 1) \div d
  OBVIOUS

(* What an allocation gets goes into the books, and into the peak.          *)
LEMMA AllocationKeeps ==
    ASSUME SlabInv, NEW t, Served(classState, chunks, t), NEW call, SlabBecomes(t, call)
    PROVE  SlabInv'
<1>1. /\ SlabBooks(t, chunks \cup t.got) /\ t \in Heaps
      /\ t.got # {} => \E x \in ChunksIn : t.got = {x} /\ x \notin chunks
      /\ \A d \in Classes : OfClass(t.slabs, d) = OfClass(slabs, d)
                              \/ Grown(classState, chunks, t, d)
  BY DEF Served, SlabBooks, classState
<1>2. /\ slabs' = t.slabs /\ slabs_head' = t.head /\ current_slab' = t.current
      /\ chunks' = chunks \cup t.got
      /\ slab_dying' = (slab_dying \/ t.end = "dying")
      /\ slab_result'.end = t.end
      /\ peak' = [ c \in Classes |-> LET n == Cardinality(HeldOf(chunks', c))
                                     IN  IF n > peak[c] THEN n ELSE peak[c] ]
  BY DEF SlabBecomes
<1>3. /\ classState'.slabs = t.slabs /\ classState'.head = t.head
      /\ classState'.current = t.current
  BY <1>2 DEF classState
<1>4. classState' \in Heaps
  BY <1>1, <1>2 DEF classState, Heaps
<1>5. CurrentOK(classState')
  BY <1>1, <1>3 DEF SlabBooks, CurrentOK
<1>6. SlabBooks(classState', chunks')
  BY <1>1, <1>2, <1>3, <1>4, <1>5, SameBooks
<1>7. PeakOK'
  <2> SUFFICES ASSUME NEW c \in Classes
               PROVE  /\ peak'[c] \in Nat /\ Cardinality(HeldOf(chunks', c)) <= peak'[c]
                      /\ Cardinality(OfClass(t.slabs, c)) <= SlabsFor(c, peak'[c])
    BY <1>2 DEF PeakOK
  <2> DEFINE d == ChunksOf[c]  A == OfClass(slabs, c)
             n == Cardinality(HeldOf(chunks', c))  m == Cardinality(HeldOf(chunks, c))
  <2>1. d \in Nat \ {0}
    BY ClassFacts
  <2>2. IsFiniteSet(HeldOf(chunks', c)) /\ IsFiniteSet(HeldOf(chunks, c))
        /\ n \in Nat /\ m \in Nat
    <3>1. IsFiniteSet(chunks') /\ IsFiniteSet(chunks)
      BY <1>6 DEF SlabBooks, HeldSound, SlabInv
    <3>2. HeldOf(chunks', c) \in SUBSET chunks' /\ HeldOf(chunks, c) \in SUBSET chunks
      BY DEF HeldOf
    <3>3. IsFiniteSet(HeldOf(chunks', c)) /\ IsFiniteSet(HeldOf(chunks, c))
      BY <3>1, <3>2, FS_Subset
    <3> QED  BY <3>3, FS_CardinalityType
  <2>3. IsFiniteSet(A) /\ Cardinality(A) \in Nat
    <3>1. A \in SUBSET SlabAddrs /\ IsFiniteSet(SlabAddrs)
      BY SlabAssumption DEF OfClass
    <3> QED  BY <3>1, FS_Subset, FS_CardinalityType
  <2>4. peak[c] \in Nat /\ m <= peak[c] /\ Cardinality(A) <= SlabsFor(c, peak[c])
    BY DEF SlabInv, PeakOK
  <2>5. peak'[c] = IF n > peak[c] THEN n ELSE peak[c]
    BY <1>2
  <2>6. peak'[c] \in Nat /\ n <= peak'[c] /\ peak[c] <= peak'[c]
    BY <2>2, <2>4, <2>5
  <2> HIDE DEF d, A, n, m
  <2>7. CASE OfClass(t.slabs, c) = A
    <3> DEFINE p == peak[c]  r == peak'[c]
    <3>1. p \in Nat /\ r \in Nat /\ p <= r /\ Cardinality(A) <= (p + d - 1) \div d
      BY <2>4, <2>6 DEF SlabsFor, d
    <3> HIDE DEF p, r
    <3>2. (p + d - 1) \div d <= (r + d - 1) \div d
      BY <2>1, <3>1, DivMono
    <3>3. (p + d - 1) \div d \in Int /\ (r + d - 1) \div d \in Int
      BY <2>1, <3>1
    <3>4. Cardinality(A) <= (r + d - 1) \div d
      BY <2>3, <3>1, <3>2, <3>3
    <3> QED  BY <2>6, <2>7, <3>4 DEF SlabsFor, d, r, n
  <2>8. CASE Grown(classState, chunks, t, c)
    <3>1. /\ \E s \in SlabAddrs : OfClass(t.slabs, c) = A \cup {s}
          /\ \E x \in t.got : x.class = c
          /\ Cardinality(A) * d <= m
      BY <2>8 DEF Grown, classState, A, d, m
    <3>2. Cardinality(OfClass(t.slabs, c)) \in Nat
          /\ Cardinality(OfClass(t.slabs, c)) <= Cardinality(A) + 1
      <4>1. PICK s \in SlabAddrs : OfClass(t.slabs, c) = A \cup {s}
        BY <3>1
      <4>2. Cardinality(A \cup {s}) = IF s \in A THEN Cardinality(A) ELSE Cardinality(A) + 1
        BY <2>3, FS_AddElement
      <4> QED  BY <2>3, <4>1, <4>2
    <3>3. PICK x : t.got = {x} /\ x \notin chunks /\ x.class = c
      BY <1>1, <3>1
    <3>4. HeldOf(chunks', c) = HeldOf(chunks, c) \cup {x} /\ x \notin HeldOf(chunks, c)
      BY <1>2, <3>3 DEF HeldOf
    <3>5. n = m + 1
      BY <2>2, <3>4, FS_AddElement DEF n, m
    <3> DEFINE a == Cardinality(A)  r == peak'[c]
    <3>6. a \in Nat /\ r \in Nat /\ a * d <= m /\ m + 1 <= r
      BY <2>2, <2>3, <2>6, <3>1, <3>5
    <3> HIDE DEF a, r
    <3>7. (a + 1) * d <= r + d - 1 /\ r + d - 1 \in Nat
      BY <2>1, <2>2, <3>6
    <3>8. a + 1 <= (r + d - 1) \div d /\ (r + d - 1) \div d \in Int
      <4> DEFINE e == r + d - 1  f == a + 1
      <4>1. e \in Nat /\ f \in Nat /\ f * d <= e
        BY <2>1, <3>6, <3>7
      <4> HIDE DEF e, f
      <4>2. f <= e \div d /\ e \div d \in Int
        BY <2>1, <4>1, MulLe
      <4> QED  BY <4>2 DEF e, f
    <3>9. Cardinality(OfClass(t.slabs, c)) <= (r + d - 1) \div d
      BY <3>2, <3>6, <3>8 DEF a
    <3> QED  BY <2>6, <3>9 DEF SlabsFor, d, r, n
  <2> QED  BY <1>1, <2>7, <2>8 DEF A
<1>8. DOMAIN peak' = Classes
  BY <1>2
<1>9. slab_dying' \in BOOLEAN /\ slab_result'.end \in {"ok", "dying", "fault"}
  BY <1>1, <1>2 DEF SlabInv, Heaps
<1> QED  BY <1>6, <1>7, <1>8, <1>9 DEF SlabInv

(* A chunk that is freed gets its bit, and only it.                         *)
LEMMA FreeKeeps ==
    ASSUME SlabInv, NEW x \in chunks, rt_free_slab(x)
    PROVE  SlabInv'
<1> DEFINE s == x.slab  c == x.class  i == x.chunk  k == WordBits  n == NumWords(c)
           w == i \div k  b == i % k  X == slabs[s]
           Y == [X EXCEPT !.bits[w] = @ \cup {b}, !.free_count = @ + 1]
           h == classState
<1>1. /\ h \in Heaps /\ BitsAgree(slabs, chunks) /\ HeldSound(slabs, chunks) /\ Linked(h)
      /\ CurrentOK(h) /\ PeakOK
      /\ h.slabs = slabs /\ h.head = slabs_head /\ h.current = current_slab
  BY DEF SlabInv, SlabBooks, classState
<1>2. /\ slabs' = [slabs EXCEPT ![s].bits[w] = @ \cup {b}, ![s].free_count = @ + 1]
      /\ chunks' = chunks \ {x} /\ slab_result' = NoChunk
      /\ slabs_head' = slabs_head /\ current_slab' = current_slab
      /\ slab_dying' = slab_dying /\ peak' = peak
  BY DEF rt_free_slab
<1>3. x \in ChunksIn /\ X.class = c /\ i < ChunksOf[c]
  BY <1>1 DEF HeldSound
<1>4. s \in SlabAddrs /\ i \in Nat /\ c \in Classes /\ X \in HeadersOf(c)
  BY <1>1, <1>3, SlabFacts DEF ChunksIn
<1>5. /\ k \in Nat \ {0} /\ n \in Nat \ {0} /\ n * k \in Nat
      /\ ChunksOf[c] \in Nat \ {0} /\ n * k >= ChunksOf[c]
  BY <1>4, ClassFacts
<1>6. i \in 0 .. n * k - 1 /\ w \in 0 .. n - 1 /\ b \in 0 .. k - 1 /\ i = w * k + b
  <2>1. i \in 0 .. n * k - 1
    BY <1>3, <1>4, <1>5
  <2> HIDE DEF n, k, i
  <2> QED  BY <1>5, <2>1, DivRange
<1>7. /\ X.bits \in [0 .. n - 1 -> SUBSET (0 .. k - 1)]
      /\ X.free_count \in Nat /\ X.next \in Links /\ X.prev \in Links
      /\ DOMAIN X = {"class", "free_count", "next", "prev", "bits"}
      /\ slabs \in [SlabAddrs -> Headers \cup {Unmapped}]
  BY <1>1, <1>4 DEF HeadersOf, Bitmaps, Heaps
<1>8. /\ Y.class = c /\ Y.next = X.next /\ Y.prev = X.prev
      /\ Y.free_count = X.free_count + 1
      /\ Y.bits = [X.bits EXCEPT ![w] = X.bits[w] \cup {b}]
      /\ DOMAIN Y = {"class", "free_count", "next", "prev", "bits"}
      /\ slabs' = [slabs EXCEPT ![s] = Y]
  BY <1>2, <1>3, <1>4, <1>6, <1>7
<1> HIDE DEF w, b, n, k
<1>9. /\ IsFiniteSet(FreeIn(X)) /\ FreeIn(X) = Unheld(chunks, s, c)
      /\ X.free_count = Cardinality(FreeIn(X)) /\ i \notin FreeIn(X)
  BY <1>1, <1>3, <1>4, FreeBits DEF BitsAgree, Unheld
<1>10. FreeIn(Y) = FreeIn(X) \cup {i}
  <2>1. FreeIn(X) = { j \in 0 .. n * k - 1 : j % k \in X.bits[j \div k] }
    BY <1>3 DEF FreeIn, n, k
  <2>2. FreeIn(Y) = { j \in 0 .. n * k - 1 : j % k \in Y.bits[j \div k] }
    BY <1>8 DEF FreeIn, n, k
  <2>3. ASSUME NEW j \in 0 .. n * k - 1
        PROVE  j % k \in Y.bits[j \div k] <=> j % k \in X.bits[j \div k] \/ j = i
    <3>1. j \div k \in 0 .. n - 1 /\ j = (j \div k) * k + (j % k)
      BY <1>5, DivRange
    <3>2. i \div k = w /\ i % k = b
      BY DEF w, b
    <3>3. j = i <=> j \div k = w /\ j % k = b
      BY <1>6, <3>1, <3>2
    <3> HIDE DEF i, X, Y
    <3> QED  BY <1>6, <1>7, <1>8, <3>1, <3>3
  <2> QED  BY <1>6, <2>1, <2>2, <2>3
<1>11. Cardinality(FreeIn(Y)) = X.free_count + 1 /\ Y.free_count = Cardinality(FreeIn(Y))
  BY <1>8, <1>9, <1>10, FS_AddElement
<1>12. Y \in HeadersOf(c)
  <2>1. /\ [X.bits EXCEPT ![w] = X.bits[w] \cup {b}] \in [0 .. n - 1 -> SUBSET (0 .. k - 1)]
    BY <1>6, <1>7
  <2>2. Y \in [class : {c}, free_count : Nat, next : Links, prev : Links,
               bits : [0 .. n - 1 -> SUBSET (0 .. k - 1)]]
    <3>1. Y.free_count \in Nat /\ Y.bits \in [0 .. n - 1 -> SUBSET (0 .. k - 1)]
      BY <1>7, <1>8, <2>1
    <3> QED  BY <1>3, <1>7, <1>8, <3>1
  <2> QED  BY <2>2 DEF HeadersOf, Bitmaps, n, k
<1> HIDE DEF Y
<1>13. \A r \in SlabAddrs : /\ slabs'[r].class = slabs[r].class
                            /\ slabs'[r].next = slabs[r].next
                            /\ slabs'[r].prev = slabs[r].prev
                            /\ r # s => slabs'[r] = slabs[r]
                            /\ r = s => slabs'[r] = Y
  BY <1>3, <1>4, <1>7, <1>8
<1>14. h' \in Heaps /\ h'.slabs = slabs' /\ h'.head = h.head /\ h'.current = h.current
  <2>1. Y \in Headers
    BY <1>4, <1>12 DEF Headers
  <2>2. slabs' \in [SlabAddrs -> Headers \cup {Unmapped}]
    BY <1>4, <1>7, <1>8, <2>1
  <2> QED  BY <1>1, <1>2, <2>2 DEF classState, Heaps
<1>15. BitsAgree(slabs', chunks')
  <2> SUFFICES ASSUME NEW r \in SlabAddrs, NEW d \in Classes, slabs'[r].class = d
               PROVE  /\ FreeIn(slabs'[r]) = Unheld(chunks \ {x}, r, d)
                      /\ slabs'[r].free_count = Cardinality(FreeIn(slabs'[r]))
    BY <1>2 DEF BitsAgree
  <2>1. CASE r = s
    <3>1. slabs'[r] = Y /\ d = c
      BY <1>3, <1>13, <2>1
    <3>2. ASSUME NEW y \in chunks, y.slab = s, y.chunk = i  PROVE y = x
      <4>1. y \in ChunksIn /\ y.class = c
        BY <1>1, <1>3, <3>2 DEF HeldSound
      <4> QED  BY <1>3, <3>2, <4>1 DEF ChunksIn
    <3>3. i \in 0 .. ChunksOf[c] - 1
      BY <1>3, <1>4, <1>5
    <3>4. Unheld(chunks \ {x}, s, c) = Unheld(chunks, s, c) \cup {i}
      BY <3>2, <3>3 DEF Unheld
    <3> QED  BY <1>9, <1>10, <1>11, <2>1, <3>1, <3>4
  <2>2. CASE r # s
    <3>1. slabs'[r] = slabs[r]
      BY <1>13, <2>2
    <3>2. Unheld(chunks \ {x}, r, d) = Unheld(chunks, r, d)
      BY <2>2 DEF Unheld
    <3> QED  BY <1>1, <3>1, <3>2 DEF BitsAgree
  <2> QED  BY <2>1, <2>2
<1>16. HeldSound(slabs', chunks')
  <2>1. IsFiniteSet(chunks \ {x})
    BY <1>1, FS_RemoveElement DEF HeldSound
  <2>2. \A y \in chunks : y.slab \in SlabAddrs
    BY <1>1 DEF HeldSound, ChunksIn
  <2>3. chunks' = chunks \ {x}
    BY <1>2
  <2>4. \A y \in chunks : slabs'[y.slab].class = slabs[y.slab].class
    BY <1>13, <2>2
  <2>5. chunks \subseteq ChunksIn
        /\ \A y \in chunks : slabs[y.slab].class = y.class /\ y.chunk < ChunksOf[y.class]
    BY <1>1 DEF HeldSound
  <2>6. \A y \in chunks : slabs'[y.slab].class = y.class /\ y.chunk < ChunksOf[y.class]
    BY <2>4, <2>5
  <2> QED  BY <2>1, <2>3, <2>5, <2>6 DEF HeldSound
<1>17. Linked(h')
  BY <1>1, <1>13, <1>14, SameLists
<1>18. \A d \in Classes : OfClass(slabs', d) = OfClass(slabs, d)
  BY <1>13 DEF OfClass
<1>19. CurrentOK(h')
  BY <1>1, <1>14, <1>18 DEF CurrentOK
<1>20. PeakOK'
  <2> SUFFICES ASSUME NEW d \in Classes
               PROVE  Cardinality(HeldOf(chunks', d)) <= peak[d]
    BY <1>1, <1>2, <1>18 DEF PeakOK
  <2>1. HeldOf(chunks', d) \in SUBSET HeldOf(chunks, d) /\ HeldOf(chunks, d) \in SUBSET chunks
    BY <1>2 DEF HeldOf
  <2>2. IsFiniteSet(HeldOf(chunks, d))
    BY <1>1, <2>1, FS_Subset DEF HeldSound
  <2>3. /\ Cardinality(HeldOf(chunks', d)) <= Cardinality(HeldOf(chunks, d))
        /\ Cardinality(HeldOf(chunks', d)) \in Nat /\ Cardinality(HeldOf(chunks, d)) \in Nat
    BY <2>1, <2>2, FS_Subset, FS_CardinalityType
  <2> QED  BY <1>1, <2>3 DEF PeakOK
<1>21. SlabBooks(h', chunks')
  BY <1>14, <1>15, <1>16, <1>17, <1>19 DEF SlabBooks
<1> QED  BY <1>2, <1>20, <1>21 DEF SlabInv, NoChunk

(* Every step keeps the books.                                              *)
LEMMA SlabInvStep == SlabInv /\ [SlabNext]_slabVars => SlabInv'
<1> SUFFICES ASSUME SlabInv, [SlabNext]_slabVars  PROVE SlabInv'
  OBVIOUS
<1>0. SlabBooks(classState, chunks) /\ classState.got = {} /\ classState.end = "ok"
  BY DEF SlabInv, classState
<1>1. ASSUME NEW c \in Classes, AllocateUser(c)  PROVE SlabInv'
  <2>1. PICK at \in SlabPlaces : SlabBecomes(SlabTuple(classState, c, at), "user")
    BY <1>1 DEF AllocateUser
  <2>2. Served(classState, chunks, SlabTuple(classState, c, at))
    BY <1>0, PlacesAreFree, TupleChunkServes
  <2> QED  BY <2>1, <2>2, AllocationKeeps
<1>2. ASSUME NEW c \in Classes, AllocateRaw(c)  PROVE SlabInv'
  <2>1. PICK at \in SlabPlaces : SlabBecomes(rt_allocate_slab(classState, c, at), "raw")
    BY <1>2 DEF AllocateRaw
  <2>2. Served(classState, chunks, rt_allocate_slab(classState, c, at))
    BY <1>0, PlacesAreFree, AllocateServes
  <2> QED  BY <2>1, <2>2, AllocationKeeps
<1>3. ASSUME NEW x \in chunks, rt_free_slab(x)  PROVE SlabInv'
  BY <1>3, FreeKeeps
<1>4. CASE SlabTurn
  <2>1. classState' = classState /\ chunks' = chunks /\ peak' = peak /\ slabs' = slabs
    BY <1>4 DEF SlabTurn, classState
  <2>2. slab_dying' = FALSE /\ slab_result'.end = "ok"
    BY <1>4 DEF SlabTurn, NoChunk
  <2>3. PeakOK'
    BY <2>1 DEF SlabInv, PeakOK
  <2> QED  BY <2>1, <2>2, <2>3 DEF SlabInv
<1>5. CASE UNCHANGED slabVars
  <2>1. /\ classState' = classState /\ chunks' = chunks /\ peak' = peak /\ slabs' = slabs
        /\ slab_dying' = slab_dying /\ slab_result' = slab_result
    BY <1>5 DEF slabVars, classState
  <2>2. PeakOK'
    BY <2>1 DEF SlabInv, PeakOK
  <2> QED  BY <2>1, <2>2 DEF SlabInv
<1> QED  BY <1>1, <1>2, <1>3, <1>4, <1>5 DEF SlabNext

(* The books of the slab allocator agree in every state.                    *)
THEOREM SlabInvariant == SlabSpec => []SlabInv
<1>1. SlabInit => SlabInv
  BY SlabInvInit
<1>2. SlabInv /\ [SlabNext]_slabVars => SlabInv'
  BY SlabInvStep
<1> QED  BY <1>1, <1>2, PTL DEF SlabSpec

-----------------------------------------------------------------------------
(* Bitmap, counter, links and what is handed out agree, and the slabs of a  *)
(* class never outnumber what its peak needs.                               *)
LEMMA InvIsExact == SlabInv => SlabsExact
<1> SUFFICES ASSUME SlabInv  PROVE SlabsExact
  OBVIOUS
<1> DEFINE h == classState
<1>1. /\ h \in Heaps /\ BitsAgree(slabs, chunks) /\ HeldSound(slabs, chunks) /\ Linked(h)
      /\ CurrentOK(h) /\ PeakOK
      /\ h.slabs = slabs /\ h.head = slabs_head /\ h.current = current_slab
  BY DEF SlabInv, SlabBooks, classState
<1>2. NoAddr \notin SlabAddrs /\ NoAddr \notin Classes
  BY SlabAssumption
<1>3. ASSUME NEW s \in Mapped
      PROVE  /\ s \in SlabAddrs /\ slabs[s].class \in Classes
             /\ slabs[s] \in HeadersOf(slabs[s].class)
             /\ FreeIn(slabs[s]) = Unheld(chunks, s, slabs[s].class)
             /\ slabs[s].free_count = Cardinality(FreeIn(slabs[s]))
  <2>1. s \in SlabAddrs /\ slabs[s] # Unmapped
    BY DEF Mapped
  <2>2. slabs[s].class \in Classes /\ slabs[s] \in HeadersOf(slabs[s].class)
    BY <1>1, <2>1, SlabFacts
  <2> QED  BY <1>1, <2>1, <2>2 DEF BitsAgree
<1>4. ASSUME NEW c \in Classes
      PROVE  OfClass(slabs, c) = { s \in Mapped : slabs[s].class = c }
  BY <1>1, <1>2, SlabFacts DEF OfClass, Mapped
<1>5. ASSUME NEW s \in Mapped
      PROVE  /\ slabs[s].class \in Classes
             /\ slabs[s].free_count \in 0 .. ChunksOf[slabs[s].class]
             /\ slabs[s].next \in SlabAddrs \cup {NoAddr}
             /\ slabs[s].prev \in SlabAddrs \cup {NoAddr}
  <2> DEFINE c == slabs[s].class
  <2>1. c \in Classes /\ NoAddr \in Links
    BY <1>3 DEF Links
  <2>2. /\ IsFiniteSet(0 .. ChunksOf[c] - 1) /\ Cardinality(0 .. ChunksOf[c] - 1) = ChunksOf[c]
    BY <2>1, FreshFacts
  <2>3. Unheld(chunks, s, c) \in SUBSET (0 .. ChunksOf[c] - 1)
    BY DEF Unheld
  <2>4. /\ Cardinality(Unheld(chunks, s, c)) <= ChunksOf[c]
        /\ Cardinality(Unheld(chunks, s, c)) \in Nat
    BY <2>2, <2>3, FS_Subset, FS_CardinalityType
  <2>5. ChunksOf[c] \in Nat
    BY <2>1, ClassFacts
  <2> QED  BY <1>3, <2>4, <2>5 DEF HeadersOf, Links
<1>6. ASSUME NEW c \in Classes
      PROVE  /\ slabs_head[c] \in Mapped \cup {NoAddr}
             /\ current_slab[c] \in { s \in Mapped : slabs[s].class = c } \cup {NoAddr}
  <2>1. PICK q : IsList(slabs, slabs_head[c], OfClass(slabs, c), q)
    BY <1>1 DEF Linked
  <2>2. slabs_head[c] \in OfClass(slabs, c) \cup {NoAddr}
    <3>1. q = << >> \/ 1 \in 1 .. Len(q)
      BY <2>1 DEF IsList
    <3> QED  BY <2>1, <3>1 DEF IsList
  <2>3. current_slab[c] \in OfClass(slabs, c) \cup {NoAddr}
    BY <1>1 DEF CurrentOK
  <2> QED  BY <1>4, <2>2, <2>3
<1>7. ASSUME NEW x \in chunks
      PROVE  x.slab \in Mapped /\ x.chunk \in 0 .. ChunksOf[x.class] - 1
  <2>1. x \in ChunksIn /\ slabs[x.slab].class = x.class /\ x.chunk < ChunksOf[x.class]
    BY <1>1 DEF HeldSound
  <2>2. x.slab \in SlabAddrs /\ x.class \in Classes /\ x.chunk \in Nat
    BY <2>1 DEF ChunksIn
  <2>3. ChunksOf[x.class] \in Nat
    BY <2>2, ClassFacts
  <2> QED  BY <1>4, <2>1, <2>2, <2>3 DEF OfClass
<1>8. SlabsTypeOK
  BY <1>5, <1>6, <1>7 DEF SlabsTypeOK, SlabInv
<1>9. BitmapsExact
  BY <1>3 DEF BitmapsExact, FreeIn, Unheld
<1>10. ASSUME NEW c \in Classes
       PROVE  LET at == Order(h, c)
                  members == { at[i] : i \in DOMAIN at } \ {NoAddr}
              IN  /\ members = OfClass(slabs, c)
                  /\ at[Cardinality(SlabAddrs)] = NoAddr
                  /\ \A i \in DOMAIN at : at[i] # NoAddr =>
                         slabs[at[i]].prev = IF i = 0 THEN NoAddr ELSE at[i - 1]
  <2> DEFINE N == Cardinality(SlabAddrs)  at == Order(h, c)
  <2>1. PICK q : IsList(slabs, slabs_head[c], OfClass(slabs, c), q)
    BY <1>1 DEF Linked
  <2>2. /\ N \in Nat /\ Len(q) \in 0 .. N /\ DOMAIN at = 0 .. N
        /\ \A i \in 0 .. N : at[i] = IF i < Len(q) THEN q[i + 1] ELSE NoAddr
    BY <1>1, <2>1, OrderIs
  <2> HIDE DEF N, at
  <2>3. /\ OfClass(slabs, c) = { q[i] : i \in 1 .. Len(q) }
        /\ \A i \in 1 .. Len(q) : slabs[q[i]].prev = IF i = 1 THEN NoAddr ELSE q[i - 1]
        /\ \A i \in 1 .. Len(q) : q[i] # NoAddr
    BY <1>2, <2>1 DEF IsList, OfClass
  <2>4. at[N] = NoAddr
    BY <2>2
  <2>5. ASSUME NEW i \in 0 .. N, at[i] # NoAddr
        PROVE  /\ i + 1 \in 1 .. Len(q) /\ at[i] = q[i + 1]
               /\ slabs[at[i]].prev = IF i = 0 THEN NoAddr ELSE at[i - 1]
    <3>1. i < Len(q) /\ i + 1 \in 1 .. Len(q) /\ at[i] = q[i + 1]
      BY <2>2, <2>5
    <3>2. i # 0 => i - 1 \in 0 .. N /\ i - 1 < Len(q) /\ (i - 1) + 1 = i /\ (i + 1) - 1 = i
      BY <2>2, <3>1
    <3>3. i # 0 => at[i - 1] = q[i]
      BY <2>2, <3>2
    <3> QED  BY <2>3, <3>1, <3>2, <3>3
  <2>6. ASSUME NEW i \in 1 .. Len(q)
        PROVE  i - 1 \in 0 .. N /\ at[i - 1] = q[i] /\ q[i] # NoAddr
    <3>1. i - 1 \in 0 .. N /\ i - 1 < Len(q) /\ (i - 1) + 1 = i
      BY <2>2
    <3> QED  BY <2>2, <2>3, <3>1
  <2>7. { at[i] : i \in 0 .. N } \ {NoAddr} = { q[i] : i \in 1 .. Len(q) }
    BY <2>5, <2>6
  <2> QED  BY <2>2, <2>3, <2>4, <2>5, <2>7 DEF N, at
<1>11. ListsLinked
  BY <1>4, <1>6, <1>10 DEF ListsLinked
<1>12. PeakBoundsSlabs
  BY <1>1, <1>4 DEF PeakBoundsSlabs, PeakOK, SlabsFor
<1> QED  BY <1>8, <1>9, <1>11, <1>12 DEF SlabsExact

(* allocate_slab and rt_free_slab, for every class table, width of a bitmap *)
(* word and number of slabs: free_count is the number of set bits, a chunk  *)
(* is free or held by one, each class has all its slabs once in a list      *)
(* whose links agree both ways, and no class has more slabs than its peak   *)
(* of chunks needs.                                                         *)
THEOREM SlabsAlwaysExact == SlabSpec => []SlabsExact
<1>1. SlabSpec => []SlabInv
  BY SlabInvariant
<1>2. SlabInv => SlabsExact
  BY InvIsExact
<1> QED  BY <1>1, <1>2, PTL

-----------------------------------------------------------------------------
(* Chunks held are disjoint blocks: two of them are in different places.    *)
LEMMA PlacesDiffer ==
    ASSUME NEW S, NEW H, HeldSound(S, H), NEW x \in H, NEW y \in H, x # y
    PROVE  /\ ChunkAt(x).at \in Nat /\ ChunkAt(x).len = 1
           /\ ChunkAt(y).at \in Nat /\ ChunkAt(y).len = 1
           /\ ChunkAt(x).at # ChunkAt(y).at
<1>1. \A z \in H : /\ z.slab \in Nat /\ z.chunk \in Nat /\ z.chunk < Span
                   /\ z.class = S[z.slab].class
                   /\ z = [slab |-> z.slab, chunk |-> z.chunk, class |-> z.class]
  <2> TAKE z \in H
  <2>1. z \in ChunksIn /\ z.class = S[z.slab].class /\ z.chunk < ChunksOf[z.class]
    BY DEF HeldSound
  <2>2. /\ z.slab \in SlabAddrs /\ z.chunk \in Nat /\ z.class \in Classes
        /\ z = [slab |-> z.slab, chunk |-> z.chunk, class |-> z.class]
    BY <2>1 DEF ChunksIn
  <2>3. ChunksOf[z.class] \in 1 .. Span /\ z.slab \in Nat /\ Span \in Nat
    BY <2>2, SlabAssumption
  <2> QED  BY <2>1, <2>2, <2>3
<1>2. Span \in Nat
  BY SlabAssumption
<1>3. x.slab # y.slab \/ x.chunk # y.chunk
  BY <1>1
<1> DEFINE a == x.slab  b == y.slab  i == x.chunk  j == y.chunk
<1>4. /\ a \in Nat /\ b \in Nat /\ i \in 0 .. Span - 1 /\ j \in 0 .. Span - 1 /\ Span \in Nat \ {0}
  BY <1>1, <1>2
<1>5. a # b \/ i # j
  BY <1>3
<1> HIDE DEF a, b, i, j
<1>6. /\ (a * Span + i) \div Span = a /\ (a * Span + i) % Span = i
      /\ (b * Span + j) \div Span = b /\ (b * Span + j) % Span = j
  BY <1>4, DivMod
<1>7. a * Span + i # b * Span + j
  BY <1>5, <1>6
<1>8. a * Span + i \in Nat /\ b * Span + j \in Nat
  BY <1>4
<1> QED  BY <1>7, <1>8 DEF ChunkAt, a, b, i, j

(* The heap counts blocks as this module does.                              *)
LEMMA ChunkCounts ==
    ASSUME NEW S  PROVE ChunkHeap!Cardinality(S) = Cardinality(S)
  BY DEF ChunkHeap!Cardinality, Cardinality

(* An allocation is one of the abstract heap: what is new is disjoint from  *)
(* everything held.                                                         *)
LEMMA AllocationIsHeaps ==
    ASSUME SlabInv, SlabInv', NEW t, Served(classState, chunks, t), NEW call,
           SlabBecomes(t, call)
    PROVE  ChunkHeap!Allocate
<1> DEFINE B == { ChunkAt(x) : x \in chunks }
<1>1. /\ chunks' = chunks \cup t.got /\ chunk_count' = chunk_count + Cardinality(t.got)
  BY DEF SlabBecomes
<1>2. HeldSound(slabs', chunks')
  BY DEF SlabInv, SlabBooks, classState
<1>3. \A x, y \in chunks' : x # y => ChunkAt(x).at # ChunkAt(y).at /\ ChunkAt(x) # ChunkAt(y)
                                    /\ ChunkAt(x).at \in Nat /\ ChunkAt(y).at \in Nat
                                    /\ ChunkAt(x).len = 1 /\ ChunkAt(y).len = 1
  BY <1>2, PlacesDiffer
<1>4. B' = { ChunkAt(x) : x \in chunks' }
  BY DEF ChunkAt
<1>5. B \subseteq B'
  BY <1>1, <1>4
<1>6. Cardinality(B' \ B) = Cardinality(t.got)
  <2>1. CASE t.got = {}
    <3>1. chunks' = chunks
      BY <1>1, <2>1
    <3>2. B' \ B = {}
      BY <1>4, <3>1
    <3> QED  BY <2>1, <3>2
  <2>2. CASE t.got # {}
    <3>1. PICK x \in ChunksIn : t.got = {x} /\ x \notin chunks
      BY <2>2 DEF Served
    <3>2. \A y \in chunks : ChunkAt(y) # ChunkAt(x)
      BY <1>1, <1>3, <3>1
    <3>3. B' = B \cup {ChunkAt(x)} /\ ChunkAt(x) \notin B
      BY <1>1, <1>4, <3>1, <3>2
    <3>4. B' \ B = {ChunkAt(x)}
      BY <3>3
    <3> QED  BY <3>1, <3>4, FS_Singleton
  <2> QED  BY <2>1, <2>2
<1>7. ASSUME NEW b \in B' \ B, NEW c \in B', b # c  PROVE ChunkHeap!Disjoint(b, c)
  <2>1. PICK x \in chunks' : b = ChunkAt(x)
    BY <1>4
  <2>2. PICK y \in chunks' : c = ChunkAt(y)
    BY <1>4
  <2>3. b.at # c.at /\ b.at \in Nat /\ c.at \in Nat /\ b.len = 1 /\ c.len = 1
    BY <1>3, <1>7, <2>1, <2>2
  <2>4. b.at + b.len <= c.at \/ c.at + c.len <= b.at
    BY <2>3
  <2> QED  BY <2>4 DEF ChunkHeap!Disjoint
<1>8. \A b \in B' \ B, c \in B' : b # c => ChunkHeap!Disjoint(b, c)
  BY <1>7
<1>9. chunk_count' = chunk_count + Cardinality(B' \ B)
  BY <1>1, <1>6
<1> QED  BY <1>5, <1>8, <1>9, ChunkCounts DEF ChunkHeap!Allocate

(* A free is one of the abstract heap: the chunk's block and no other goes. *)
LEMMA ChunkFreeIsHeaps ==
    ASSUME SlabInv, NEW x \in chunks, rt_free_slab(x)
    PROVE  ChunkHeap!Free
<1> DEFINE B == { ChunkAt(y) : y \in chunks }
<1>1. chunks' = chunks \ {x} /\ chunk_count' = chunk_count - 1
  BY DEF rt_free_slab
<1>2. HeldSound(slabs, chunks)
  BY DEF SlabInv, SlabBooks, classState
<1>3. \A y \in chunks : y # x => ChunkAt(y) # ChunkAt(x)
  BY <1>2, PlacesDiffer
<1>4. B' = { ChunkAt(y) : y \in chunks' }
  BY DEF ChunkAt
<1>5. B' = B \ {ChunkAt(x)} /\ ChunkAt(x) \in B
  BY <1>1, <1>3, <1>4
<1> QED  BY <1>1, <1>5 DEF ChunkHeap!Free

(* The slab allocator does what Heap promises: it hands out no chunk that   *)
(* is still held, and frees none but the one it is given.                   *)
THEOREM SlabsAreHeap == SlabSpec => SlabsImplementHeap
<1>1. SlabInit => ChunkHeap!Init
  BY DEF SlabInit, ChunkHeap!Init
<1>2. SlabInv /\ SlabInv' /\ [SlabNext]_slabVars
        => [ChunkHeap!Next]_<< { ChunkAt(x) : x \in chunks }, chunk_count >>
  <2> SUFFICES ASSUME SlabInv, SlabInv', [SlabNext]_slabVars
               PROVE  [ChunkHeap!Next]_<< { ChunkAt(x) : x \in chunks }, chunk_count >>
    OBVIOUS
  <2>0. SlabBooks(classState, chunks) /\ classState.got = {} /\ classState.end = "ok"
    BY DEF SlabInv, classState
  <2>1. ASSUME NEW c \in Classes, AllocateUser(c)  PROVE ChunkHeap!Next
    <3>1. PICK at \in SlabPlaces : SlabBecomes(SlabTuple(classState, c, at), "user")
      BY <2>1 DEF AllocateUser
    <3>2. Served(classState, chunks, SlabTuple(classState, c, at))
      BY <2>0, PlacesAreFree, TupleChunkServes
    <3>3. ChunkHeap!Allocate
      BY <3>1, <3>2, AllocationIsHeaps
    <3> QED  BY <3>3 DEF ChunkHeap!Next
  <2>2. ASSUME NEW c \in Classes, AllocateRaw(c)  PROVE ChunkHeap!Next
    <3>1. PICK at \in SlabPlaces : SlabBecomes(rt_allocate_slab(classState, c, at), "raw")
      BY <2>2 DEF AllocateRaw
    <3>2. Served(classState, chunks, rt_allocate_slab(classState, c, at))
      BY <2>0, PlacesAreFree, AllocateServes
    <3>3. ChunkHeap!Allocate
      BY <3>1, <3>2, AllocationIsHeaps
    <3> QED  BY <3>3 DEF ChunkHeap!Next
  <2>3. ASSUME NEW x \in chunks, rt_free_slab(x)  PROVE ChunkHeap!Next
    BY <2>3, ChunkFreeIsHeaps DEF ChunkHeap!Next
  <2>4. CASE SlabTurn \/ UNCHANGED slabVars
    <3>1. chunks' = chunks /\ chunk_count' = chunk_count
      BY <2>4 DEF SlabTurn, slabVars
    <3> QED  BY <3>1 DEF ChunkAt
  <2> QED  BY <2>1, <2>2, <2>3, <2>4 DEF SlabNext
<1>3. SlabSpec => []SlabInv
  BY SlabInvariant
<1> QED  BY <1>1, <1>2, <1>3, PTL DEF SlabSpec, SlabsImplementHeap, ChunkHeap!Spec
=============================================================================
