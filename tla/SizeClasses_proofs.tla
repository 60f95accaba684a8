------------------------- MODULE SizeClasses_proofs -------------------------
(***************************************************************************)
(* The arithmetic of the allocator for every size of request, every place   *)
(* of a block, every slab and every chunk of it: what rt_free computes from *)
(* a header is what rt_allocate computed from the request.                  *)
(***************************************************************************)
EXTENDS SizeClasses, FiniteSetTheorems, WellFoundedInduction, TLAPS

-----------------------------------------------------------------------------
(* Induction over the naturals, on sets: the library's theorem about        *)
(* well-founded relations takes a set of counterexamples.                   *)
Less == OpToRel(<, Nat)

(* Every set of numbers has a least one.                                    *)
LEMMA LeastNumber ==
    ASSUME NEW T, T \subseteq Nat, T # {}
    PROVE  \E x \in T : \A y \in T : ~ y < x
<1>1. IsWellFoundedOn(Less, Nat)
  BY NatLessThanWellFounded DEF Less
<1>2. \A x, y \in Nat : << x, y >> \in Less <=> x < y
  BY DEF Less, OpToRel
<1>3. \E x \in T : \A y \in T : ~ << y, x >> \in Less
  BY <1>1, WFMin
<1> QED  BY <1>2, <1>3

(* Powers of two, which are numbers of subsets.                             *)
LEMMA Powers ==
    ASSUME NEW k \in Nat
    PROVE  2 ^ k \in Nat \ {0} /\ \A j \in Nat : j <= k => 2 ^ j <= 2 ^ k
<1>1. ASSUME NEW j \in Nat
      PROVE  /\ IsFiniteSet(SUBSET (1 .. j)) /\ Cardinality(SUBSET (1 .. j)) = 2 ^ j
             /\ Cardinality(SUBSET (1 .. j)) \in Nat
  <2>1. IsFiniteSet(1 .. j) /\ Cardinality(1 .. j) = j
    BY FS_Interval
  <2>2. IsFiniteSet(SUBSET (1 .. j)) /\ Cardinality(SUBSET (1 .. j)) = 2 ^ Cardinality(1 .. j)
    BY <2>1, FS_SUBSET, Zenon
  <2>3. Cardinality(SUBSET (1 .. j)) \in Nat
    BY <2>2, FS_CardinalityType, Zenon
  <2>4. Cardinality(SUBSET (1 .. j)) = 2 ^ j
    BY <2>1, <2>2
  <2> QED  BY <2>2, <2>3, <2>4
<1>2. ASSUME NEW j \in Nat, j <= k  PROVE 2 ^ j <= 2 ^ k
  <2>1. SUBSET (1 .. j) \subseteq SUBSET (1 .. k)
    BY <1>2
  <2>2. IsFiniteSet(SUBSET (1 .. k)) /\ Cardinality(SUBSET (1 .. k)) = 2 ^ k
    BY <1>1
  <2>3. Cardinality(SUBSET (1 .. j)) = 2 ^ j
    BY <1>1
  <2>4. Cardinality(SUBSET (1 .. j)) <= Cardinality(SUBSET (1 .. k))
    BY <2>1, <2>2, FS_Subset, Zenon
  <2> QED  BY <2>2, <2>3, <2>4
<1>3. 2 ^ k # 0
  <2>1. 2 ^ 0 = 1 /\ 0 \in Nat /\ 0 <= k
    OBVIOUS
  <2>2. 2 ^ 0 <= 2 ^ k /\ 2 ^ k \in Nat
    BY <1>1, <1>2, <2>1
  <2> QED  BY <2>1, <2>2
<1> QED  BY <1>1, <1>2, <1>3

(* The powers at the lower and the upper end of the classes.                *)
LEMMA EndPowers ==
    ASSUME NEW k \in Nat
    PROVE  /\ k < 4 => 2 ^ k < 16
           /\ k <= 24 => 2 ^ k <= 2 ^ 24
           /\ k > 24 => 2 ^ (k - 1) >= 2 ^ 24
<1>1. k < 4 => 2 ^ k < 16
  <2>1. k < 4 => k = 0 \/ k = 1 \/ k = 2 \/ k = 3
    OBVIOUS
  <2>2. 2 ^ 0 = 1 /\ 2 ^ 1 = 2 /\ 2 ^ 2 = 4 /\ 2 ^ 3 = 8
    OBVIOUS
  <2>3. k < 4 => 2 ^ k \in {1, 2, 4, 8}
    BY <2>1, <2>2, Zenon
  <2> QED  BY <2>3
<1>2. k <= 24 => 2 ^ k <= 2 ^ 24
  BY Powers
<1>3. k > 24 => k - 1 \in Nat /\ 24 <= k - 1
  OBVIOUS
<1> QED  BY <1>1, <1>2, <1>3, Powers

(* Numbers that a word with a sign can have.                                *)
Limit == 2 ^ 63
LEMMA LimitIs == Limit \in Nat /\ 2 ^ 24 <= Limit /\ 2 ^ 24 \in Nat /\ 2 ^ 24 = 16777216
<1>1. 63 \in Nat /\ 24 \in Nat /\ 24 <= 63
  OBVIOUS
<1>2. PICK k : k = 63
  OBVIOUS
<1>3. k \in Nat /\ 24 <= k
  BY <1>2
<1>4. 2 ^ k \in Nat /\ 2 ^ 24 <= 2 ^ k
  BY <1>1, <1>3, Powers
<1>5. Limit = 2 ^ k
  BY <1>2, Zenon DEF Limit
<1>6. 2 ^ 24 \in Nat /\ 2 ^ 24 = 16777216
  BY SMT
<1> QED  BY <1>4, <1>5, <1>6, SMT

(* Log2Ceil finds the power at or above a number.                           *)
LEMMA Log2CeilIs ==
    ASSUME NEW n \in 1 .. Limit
    PROVE  /\ Log2Ceil(n) \in 0 .. 63 /\ n <= 2 ^ Log2Ceil(n)
           /\ Log2Ceil(n) = 0 \/ n > 2 ^ (Log2Ceil(n) - 1)
<1> DEFINE T == { k \in 0 .. 63 : n <= 2 ^ k }
<1>1. T \subseteq Nat /\ T # {} /\ n \in Int
  <2>1. n \in Int /\ n <= Limit
    BY LimitIs
  <2>2. n <= 2 ^ 63
    BY <2>1, Zenon DEF Limit
  <2>3. 63 \in 0 .. 63
    OBVIOUS
  <2>4. 63 \in T
    BY <2>2, <2>3, Zenon
  <2>5. T # {}
    BY <2>4, Zenon
  <2>6. T \subseteq Nat
    OBVIOUS
  <2> HIDE DEF T
  <2> QED  BY <2>1, <2>5, <2>6
<1>2. PICK x \in T : \A y \in T : ~ y < x
  <2> HIDE DEF T
  <2> QED  BY <1>1, LeastNumber, Zenon
<1>3. x \in 0 .. 63 /\ n <= 2 ^ x
  OBVIOUS
<1>4. x = 0 \/ n > 2 ^ (x - 1)
  <2> SUFFICES ASSUME x # 0  PROVE n > 2 ^ (x - 1)
    OBVIOUS
  <2>1. x - 1 \in 0 .. 63 /\ x - 1 \in Nat /\ x \in Nat /\ x - 1 < x
    BY <1>3
  <2>2. x - 1 \notin T
    BY <1>2, <2>1
  <2>3. ~(n <= 2 ^ (x - 1))
    BY <2>1, <2>2
  <2>4. 2 ^ (x - 1) \in Nat
    BY <2>1, Powers
  <2> QED  BY <1>1, <2>3, <2>4
<1> QED  BY <1>3, <1>4 DEF Log2Ceil

-----------------------------------------------------------------------------
(* Classes.                                                                 *)
(* A class holds the requests it is given; those that no class holds are    *)
(* the ones above 16 MiB.                                                   *)
LEMMA BucketIdxIs ==
    ASSUME NEW size \in 0 .. Limit
    PROVE  /\ BucketIdx(size) \in Nat
           /\ BucketIdx(size) > MaxClass <=> size > 2 ^ 24
           /\ BucketIdx(size) <= MaxClass =>
                 /\ BucketIdx(size) \in 0 .. MaxClass
                 /\ size <= class_size(BucketIdx(size))
<1> DEFINE n == AtLeast(size, 16)
           k == Log2Ceil(n)
<1>1. size \in Nat /\ size <= Limit
  BY LimitIs
<1>2. n \in 1 .. Limit /\ n >= 16 /\ n >= size /\ n \in Nat /\ (n > 2 ^ 24 <=> size > 2 ^ 24)
  BY <1>1, LimitIs DEF AtLeast
<1> HIDE DEF n
<1>3. k \in 0 .. 63 /\ n <= 2 ^ k /\ (k = 0 \/ n > 2 ^ (k - 1))
  BY <1>2, Log2CeilIs
<1> HIDE DEF k
<1>4. 2 ^ k \in Nat /\ (k > 0 => 2 ^ (k - 1) \in Nat) /\ 2 ^ 24 \in Nat /\ k \in Nat
  <2>1. k > 0 => k - 1 \in Nat
    BY <1>3
  <2> QED  BY <1>3, <2>1, Powers, LimitIs
<1>5. /\ k < 4 => 2 ^ k < 16
      /\ k <= 24 => 2 ^ k <= 2 ^ 24
      /\ k > 24 => 2 ^ (k - 1) >= 2 ^ 24
  BY <1>4, EndPowers
<1>6. k >= 4
  BY <1>2, <1>3, <1>4, <1>5
<1>7. k > 24 <=> size > 2 ^ 24
  <2>1. CASE k > 24
    <3>1. n > 2 ^ (k - 1) /\ 2 ^ (k - 1) >= 2 ^ 24 /\ 2 ^ (k - 1) \in Nat
      BY <1>3, <1>4, <1>5, <2>1
    <3> QED  BY <1>2, <1>4, <2>1, <3>1
  <2>2. CASE ~(k > 24)
    <3>1. n <= 2 ^ k /\ 2 ^ k <= 2 ^ 24 /\ 2 ^ k \in Nat
      BY <1>3, <1>4, <1>5, <2>2
    <3> QED  BY <1>2, <1>4, <2>2, <3>1
  <2> QED  BY <2>1, <2>2
<1>8. BucketIdx(size) = k - 4 /\ (k - 4) + 4 = k
  BY <1>3 DEF BucketIdx, n, k
<1>9. class_size(k - 4) = 2 ^ k
  BY <1>8 DEF class_size
<1>10. size <= 2 ^ k
  BY <1>1, <1>2, <1>3, <1>4
<1> QED  BY <1>3, <1>6, <1>7, <1>8, <1>9, <1>10 DEF MaxClass, NUM_CLASSES

-----------------------------------------------------------------------------
(* The rounds of chunks_per_slab: if one round settles the number, it is    *)
(* the result.                                                              *)
LEMMA RoundsEnd ==
    ASSUME NEW c, NEW n, NextChunks(c, FirstChunks(c)) = n, NextChunks(c, n) = n
    PROVE  rounds(c)[8] = n
<1> DEFINE Turn(r) == [i \in 0 .. 8 |-> IF i = 0 THEN FirstChunks(c) ELSE NextChunks(c, r[i - 1])]
           R == [i \in 0 .. 8 |-> IF i = 0 THEN FirstChunks(c) ELSE n]
<1>1. R = Turn(R)
  <2>1. ASSUME NEW i \in 0 .. 8  PROVE R[i] = Turn(R)[i]
    <3>1. CASE i = 0
      BY <3>1
    <3>2. CASE i = 1
      BY <3>2
    <3>3. CASE i > 1
      <4>1. i - 1 \in 0 .. 8 /\ i - 1 # 0 /\ i # 0
        BY <3>3
      <4> QED  BY <4>1
    <3> QED  BY <3>1, <3>2, <3>3
  <2> QED  BY <2>1
<1>2. rounds(c) = Turn(rounds(c))
  <2> HIDE DEF R
  <2> QED  BY <1>1 DEF rounds
<1> DEFINE r == rounds(c)
<1>3. \A i \in 0 .. 8 : r[i] = IF i = 0 THEN FirstChunks(c) ELSE NextChunks(c, r[i - 1])
  BY <1>2
<1> HIDE DEF r
<1>4. r[0] = FirstChunks(c)
  BY <1>3
<1>5. r[1] = n
  BY <1>3, <1>4
<1>6. \A i \in 1 .. 7 : r[i] = n => r[i + 1] = n
  <2> SUFFICES ASSUME NEW i \in 1 .. 7, r[i] = n  PROVE r[i + 1] = n
    OBVIOUS
  <2>1. i + 1 \in 0 .. 8 /\ i + 1 # 0 /\ (i + 1) - 1 = i
    OBVIOUS
  <2> QED  BY <1>3, <2>1
<1>7. r[2] = n /\ r[3] = n /\ r[4] = n /\ r[5] = n /\ r[6] = n /\ r[7] = n /\ r[8] = n
  <2>1. r[2] = n  BY <1>5, <1>6
  <2>2. r[3] = n  BY <2>1, <1>6
  <2>3. r[4] = n  BY <2>2, <1>6
  <2>4. r[5] = n  BY <2>3, <1>6
  <2>5. r[6] = n  BY <2>4, <1>6
  <2>6. r[7] = n  BY <2>5, <1>6
  <2>7. r[8] = n  BY <2>6, <1>6
  <2> QED  BY <2>1, <2>2, <2>3, <2>4, <2>5, <2>6, <2>7
<1> QED  BY <1>7 DEF r

(* A chunk i of slab m lies where its address leads back to m and i.        *)
Lies(cs, ss, n, off) ==
    \A m \in Nat, i \in 0 .. n - 1 :
        LET slab == m * ss
            a == m * ss + off + i * cs
        IN  /\ slab \in Nat /\ a \in Nat /\ a % 16 = 0
            /\ (a \div 65536) * 65536 = slab
            /\ (a - (slab + off)) \div cs = i
            /\ a + cs <= slab + ss

(* A class, and the numbers of its slabs: the size of a chunk and a slab,   *)
(* chunks at first and in the end, and where these begin.                   *)
Geometry(c, cs, ss, first, n, off) ==
    /\ class_size(c) = cs /\ slab_size_for_class(c) = ss
    /\ FirstChunks(c) = first /\ NextChunks(c, first) = n /\ NextChunks(c, n) = n
    /\ PayloadStart(n) = off /\ ss > HDR_FIXED_BYTES + cs
    /\ cs \in Nat /\ ss \in Nat /\ n \in Nat \ {0} /\ off \in Nat
    /\ HDR_FIXED_BYTES + 8 * CeilDiv(n, 64) <= off /\ 64 * CeilDiv(n, 64) >= n
    /\ Lies(cs, ss, n, off)

(* The numbers of all classes.                                              *)
LEMMA Geometries ==
    /\ Geometry(0, 16, 65536, 4094, 4062, 544)
    /\ Geometry(1, 32, 65536, 2047, 2039, 288)
    /\ Geometry(2, 64, 65536, 1023, 1021, 160)
    /\ Geometry(3, 128, 65536, 511, 511, 96)
    /\ Geometry(4, 256, 65536, 255, 255, 64)
    /\ Geometry(5, 512, 65536, 127, 127, 48)
    /\ Geometry(6, 1024, 65536, 63, 63, 48)
    /\ Geometry(7, 2048, 65536, 31, 31, 48)
    /\ Geometry(8, 4096, 65536, 15, 15, 48)
    /\ Geometry(9, 8192, 65536, 7, 7, 48)
    /\ Geometry(10, 16384, 65536, 3, 3, 48)
    /\ Geometry(11, 32768, 65536, 1, 1, 48)
    /\ Geometry(12, 65536, 131072, 1, 1, 48)
    /\ Geometry(13, 131072, 262144, 1, 1, 48)
    /\ Geometry(14, 262144, 524288, 1, 1, 48)
    /\ Geometry(15, 524288, 1048576, 1, 1, 48)
    /\ Geometry(16, 1048576, 2097152, 1, 1, 48)
    /\ Geometry(17, 2097152, 4194304, 1, 1, 48)
    /\ Geometry(18, 4194304, 8388608, 1, 1, 48)
    /\ Geometry(19, 8388608, 16777216, 1, 1, 48)
    /\ Geometry(20, 16777216, 33554432, 1, 1, 48)
<1>1. Geometry(0, 16, 65536, 4094, 4062, 544)
  <2>1. class_size(0) = 16
    BY SMT DEF class_size
  <2>2. slab_size_for_class(0) = 65536
    BY <2>1, SMT DEF slab_size_for_class, AtLeast, DEFAULT_SLAB_SIZE
  <2>3. PayloadStart(4094) = 544 /\ PayloadStart(4062) = 544
    BY SMT DEF PayloadStart, RoundUp, CeilDiv, HDR_FIXED_BYTES, CHUNK_ALIGN
  <2>4. Lies(16, 65536, 4062, 544)
    BY SMTT(30) DEF Lies
  <2> QED  BY <2>1, <2>2, <2>3, <2>4, SMT
           DEF Geometry, FirstChunks, NextChunks, ChunksAfter, CeilDiv, HDR_FIXED_BYTES
<1>2. Geometry(1, 32, 65536, 2047, 2039, 288)
  <2>1. class_size(1) = 32
    BY SMT DEF class_size
  <2>2. slab_size_for_class(1) = 65536
    BY <2>1, SMT DEF slab_size_for_class, AtLeast, DEFAULT_SLAB_SIZE
  <2>3. PayloadStart(2047) = 288 /\ PayloadStart(2039) = 288
    BY SMT DEF PayloadStart, RoundUp, CeilDiv, HDR_FIXED_BYTES, CHUNK_ALIGN
  <2>4. Lies(32, 65536, 2039, 288)
    BY SMTT(30) DEF Lies
  <2> QED  BY <2>1, <2>2, <2>3, <2>4, SMT
           DEF Geometry, FirstChunks, NextChunks, ChunksAfter, CeilDiv, HDR_FIXED_BYTES
<1>3. Geometry(2, 64, 65536, 1023, 1021, 160)
  <2>1. class_size(2) = 64
    BY SMT DEF class_size
  <2>2. slab_size_for_class(2) = 65536
    BY <2>1, SMT DEF slab_size_for_class, AtLeast, DEFAULT_SLAB_SIZE
  <2>3. PayloadStart(1023) = 160 /\ PayloadStart(1021) = 160
    BY SMT DEF PayloadStart, RoundUp, CeilDiv, HDR_FIXED_BYTES, CHUNK_ALIGN
  <2>4. Lies(64, 65536, 1021, 160)
    BY SMTT(30) DEF Lies
  <2> QED  BY <2>1, <2>2, <2>3, <2>4, SMT
           DEF Geometry, FirstChunks, NextChunks, ChunksAfter, CeilDiv, HDR_FIXED_BYTES
<1>4. Geometry(3, 128, 65536, 511, 511, 96)
  <2>1. class_size(3) = 128
    BY SMT DEF class_size
  <2>2. slab_size_for_class(3) = 65536
    BY <2>1, SMT DEF slab_size_for_class, AtLeast, DEFAULT_SLAB_SIZE
  <2>3. PayloadStart(511) = 96
    BY SMT DEF PayloadStart, RoundUp, CeilDiv, HDR_FIXED_BYTES, CHUNK_ALIGN
  <2>4. Lies(128, 65536, 511, 96)
    BY SMTT(30) DEF Lies
  <2> QED  BY <2>1, <2>2, <2>3, <2>4, SMT
           DEF Geometry, FirstChunks, NextChunks, ChunksAfter, CeilDiv, HDR_FIXED_BYTES
<1>5. Geometry(4, 256, 65536, 255, 255, 64)
  <2>1. class_size(4) = 256
    BY SMT DEF class_size
  <2>2. slab_size_for_class(4) = 65536
    BY <2>1, SMT DEF slab_size_for_class, AtLeast, DEFAULT_SLAB_SIZE
  <2>3. PayloadStart(255) = 64
    BY SMT DEF PayloadStart, RoundUp, CeilDiv, HDR_FIXED_BYTES, CHUNK_ALIGN
  <2>4. Lies(256, 65536, 255, 64)
    BY SMTT(30) DEF Lies
  <2> QED  BY <2>1, <2>2, <2>3, <2>4, SMT
           DEF Geometry, FirstChunks, NextChunks, ChunksAfter, CeilDiv, HDR_FIXED_BYTES
<1>6. Geometry(5, 512, 65536, 127, 127, 48)
  <2>1. class_size(5) = 512
    BY SMT DEF class_size
  <2>2. slab_size_for_class(5) = 65536
    BY <2>1, SMT DEF slab_size_for_class, AtLeast, DEFAULT_SLAB_SIZE
  <2>3. PayloadStart(127) = 48
    BY SMT DEF PayloadStart, RoundUp, CeilDiv, HDR_FIXED_BYTES, CHUNK_ALIGN
  <2>4. Lies(512, 65536, 127, 48)
    BY SMTT(30) DEF Lies
  <2> QED  BY <2>1, <2>2, <2>3, <2>4, SMT
           DEF Geometry, FirstChunks, NextChunks, ChunksAfter, CeilDiv, HDR_FIXED_BYTES
<1>7. Geometry(6, 1024, 65536, 63, 63, 48)
  <2>1. class_size(6) = 1024
    BY SMT DEF class_size
  <2>2. slab_size_for_class(6) = 65536
    BY <2>1, SMT DEF slab_size_for_class, AtLeast, DEFAULT_SLAB_SIZE
  <2>3. PayloadStart(63) = 48
    BY SMT DEF PayloadStart, RoundUp, CeilDiv, HDR_FIXED_BYTES, CHUNK_ALIGN
  <2>4. Lies(1024, 65536, 63, 48)
    BY SMTT(30) DEF Lies
  <2> QED  BY <2>1, <2>2, <2>3, <2>4, SMT
           DEF Geometry, FirstChunks, NextChunks, ChunksAfter, CeilDiv, HDR_FIXED_BYTES
<1>8. Geometry(7, 2048, 65536, 31, 31, 48)
  <2>1. class_size(7) = 2048
    BY SMT DEF class_size
  <2>2. slab_size_for_class(7) = 65536
    BY <2>1, SMT DEF slab_size_for_class, AtLeast, DEFAULT_SLAB_SIZE
  <2>3. PayloadStart(31) = 48
    BY SMT DEF PayloadStart, RoundUp, CeilDiv, HDR_FIXED_BYTES, CHUNK_ALIGN
  <2>4. Lies(2048, 65536, 31, 48)
    BY SMTT(30) DEF Lies
  <2> QED  BY <2>1, <2>2, <2>3, <2>4, SMT
           DEF Geometry, FirstChunks, NextChunks, ChunksAfter, CeilDiv, HDR_FIXED_BYTES
<1>9. Geometry(8, 4096, 65536, 15, 15, 48)
  <2>1. class_size(8) = 4096
    BY SMT DEF class_size
  <2>2. slab_size_for_class(8) = 65536
    BY <2>1, SMT DEF slab_size_for_class, AtLeast, DEFAULT_SLAB_SIZE
  <2>3. PayloadStart(15) = 48
    BY SMT DEF PayloadStart, RoundUp, CeilDiv, HDR_FIXED_BYTES, CHUNK_ALIGN
  <2>4. Lies(4096, 65536, 15, 48)
    BY SMTT(30) DEF Lies
  <2> QED  BY <2>1, <2>2, <2>3, <2>4, SMT
           DEF Geometry, FirstChunks, NextChunks, ChunksAfter, CeilDiv, HDR_FIXED_BYTES
<1>10. Geometry(9, 8192, 65536, 7, 7, 48)
  <2>1. class_size(9) = 8192
    BY SMT DEF class_size
  <2>2. slab_size_for_class(9) = 65536
    BY <2>1, SMT DEF slab_size_for_class, AtLeast, DEFAULT_SLAB_SIZE
  <2>3. PayloadStart(7) = 48
    BY SMT DEF PayloadStart, RoundUp, CeilDiv, HDR_FIXED_BYTES, CHUNK_ALIGN
  <2>4. Lies(8192, 65536, 7, 48)
    BY SMTT(30) DEF Lies
  <2> QED  BY <2>1, <2>2, <2>3, <2>4, SMT
           DEF Geometry, FirstChunks, NextChunks, ChunksAfter, CeilDiv, HDR_FIXED_BYTES
<1>11. Geometry(10, 16384, 65536, 3, 3, 48)
  <2>1. class_size(10) = 16384
    BY SMT DEF class_size
  <2>2. slab_size_for_class(10) = 65536
    BY <2>1, SMT DEF slab_size_for_class, AtLeast, DEFAULT_SLAB_SIZE
  <2>3. PayloadStart(3) = 48
    BY SMT DEF PayloadStart, RoundUp, CeilDiv, HDR_FIXED_BYTES, CHUNK_ALIGN
  <2>4. Lies(16384, 65536, 3, 48)
    BY SMTT(30) DEF Lies
  <2> QED  BY <2>1, <2>2, <2>3, <2>4, SMT
           DEF Geometry, FirstChunks, NextChunks, ChunksAfter, CeilDiv, HDR_FIXED_BYTES
<1>12. Geometry(11, 32768, 65536, 1, 1, 48)
  <2>1. class_size(11) = 32768
    BY SMT DEF class_size
  <2>2. slab_size_for_class(11) = 65536
    BY <2>1, SMT DEF slab_size_for_class, AtLeast, DEFAULT_SLAB_SIZE
  <2>3. PayloadStart(1) = 48
    BY SMT DEF PayloadStart, RoundUp, CeilDiv, HDR_FIXED_BYTES, CHUNK_ALIGN
  <2>4. Lies(32768, 65536, 1, 48)
    BY SMTT(30) DEF Lies
  <2> QED  BY <2>1, <2>2, <2>3, <2>4, SMT
           DEF Geometry, FirstChunks, NextChunks, ChunksAfter, CeilDiv, HDR_FIXED_BYTES
<1>13. Geometry(12, 65536, 131072, 1, 1, 48)
  <2>1. class_size(12) = 65536
    BY SMT DEF class_size
  <2>2. slab_size_for_class(12) = 131072
    BY <2>1, SMT DEF slab_size_for_class, AtLeast, DEFAULT_SLAB_SIZE
  <2>3. PayloadStart(1) = 48
    BY SMT DEF PayloadStart, RoundUp, CeilDiv, HDR_FIXED_BYTES, CHUNK_ALIGN
  <2>4. Lies(65536, 131072, 1, 48)
    BY SMTT(30) DEF Lies
  <2> QED  BY <2>1, <2>2, <2>3, <2>4, SMT
           DEF Geometry, FirstChunks, NextChunks, ChunksAfter, CeilDiv, HDR_FIXED_BYTES
<1>14. Geometry(13, 131072, 262144, 1, 1, 48)
  <2>1. class_size(13) = 131072
    BY SMT DEF class_size
  <2>2. slab_size_for_class(13) = 262144
    BY <2>1, SMT DEF slab_size_for_class, AtLeast, DEFAULT_SLAB_SIZE
  <2>3. PayloadStart(1) = 48
    BY SMT DEF PayloadStart, RoundUp, CeilDiv, HDR_FIXED_BYTES, CHUNK_ALIGN
  <2>4. Lies(131072, 262144, 1, 48)
    BY SMTT(30) DEF Lies
  <2> QED  BY <2>1, <2>2, <2>3, <2>4, SMT
           DEF Geometry, FirstChunks, NextChunks, ChunksAfter, CeilDiv, HDR_FIXED_BYTES
<1>15. Geometry(14, 262144, 524288, 1, 1, 48)
  <2>1. class_size(14) = 262144
    BY SMT DEF class_size
  <2>2. slab_size_for_class(14) = 524288
    BY <2>1, SMT DEF slab_size_for_class, AtLeast, DEFAULT_SLAB_SIZE
  <2>3. PayloadStart(1) = 48
    BY SMT DEF PayloadStart, RoundUp, CeilDiv, HDR_FIXED_BYTES, CHUNK_ALIGN
  <2>4. Lies(262144, 524288, 1, 48)
    BY SMTT(30) DEF Lies
  <2> QED  BY <2>1, <2>2, <2>3, <2>4, SMT
           DEF Geometry, FirstChunks, NextChunks, ChunksAfter, CeilDiv, HDR_FIXED_BYTES
<1>16. Geometry(15, 524288, 1048576, 1, 1, 48)
  <2>1. class_size(15) = 524288
    BY SMT DEF class_size
  <2>2. slab_size_for_class(15) = 1048576
    BY <2>1, SMT DEF slab_size_for_class, AtLeast, DEFAULT_SLAB_SIZE
  <2>3. PayloadStart(1) = 48
    BY SMT DEF PayloadStart, RoundUp, CeilDiv, HDR_FIXED_BYTES, CHUNK_ALIGN
  <2>4. Lies(524288, 1048576, 1, 48)
    BY SMTT(30) DEF Lies
  <2> QED  BY <2>1, <2>2, <2>3, <2>4, SMT
           DEF Geometry, FirstChunks, NextChunks, ChunksAfter, CeilDiv, HDR_FIXED_BYTES
<1>17. Geometry(16, 1048576, 2097152, 1, 1, 48)
  <2>1. class_size(16) = 1048576
    BY SMT DEF class_size
  <2>2. slab_size_for_class(16) = 2097152
    BY <2>1, SMT DEF slab_size_for_class, AtLeast, DEFAULT_SLAB_SIZE
  <2>3. PayloadStart(1) = 48
    BY SMT DEF PayloadStart, RoundUp, CeilDiv, HDR_FIXED_BYTES, CHUNK_ALIGN
  <2>4. Lies(1048576, 2097152, 1, 48)
    BY SMTT(30) DEF Lies
  <2> QED  BY <2>1, <2>2, <2>3, <2>4, SMT
           DEF Geometry, FirstChunks, NextChunks, ChunksAfter, CeilDiv, HDR_FIXED_BYTES
<1>18. Geometry(17, 2097152, 4194304, 1, 1, 48)
  <2>1. class_size(17) = 2097152
    BY SMT DEF class_size
  <2>2. slab_size_for_class(17) = 4194304
    BY <2>1, SMT DEF slab_size_for_class, AtLeast, DEFAULT_SLAB_SIZE
  <2>3. PayloadStart(1) = 48
    BY SMT DEF PayloadStart, RoundUp, CeilDiv, HDR_FIXED_BYTES, CHUNK_ALIGN
  <2>4. Lies(2097152, 4194304, 1, 48)
    BY SMTT(30) DEF Lies
  <2> QED  BY <2>1, <2>2, <2>3, <2>4, SMT
           DEF Geometry, FirstChunks, NextChunks, ChunksAfter, CeilDiv, HDR_FIXED_BYTES
<1>19. Geometry(18, 4194304, 8388608, 1, 1, 48)
  <2>1. class_size(18) = 4194304
    BY SMT DEF class_size
  <2>2. slab_size_for_class(18) = 8388608
    BY <2>1, SMT DEF slab_size_for_class, AtLeast, DEFAULT_SLAB_SIZE
  <2>3. PayloadStart(1) = 48
    BY SMT DEF PayloadStart, RoundUp, CeilDiv, HDR_FIXED_BYTES, CHUNK_ALIGN
  <2>4. Lies(4194304, 8388608, 1, 48)
    BY SMTT(30) DEF Lies
  <2> QED  BY <2>1, <2>2, <2>3, <2>4, SMT
           DEF Geometry, FirstChunks, NextChunks, ChunksAfter, CeilDiv, HDR_FIXED_BYTES
<1>20. Geometry(19, 8388608, 16777216, 1, 1, 48)
  <2>1. class_size(19) = 8388608
    BY SMT DEF class_size
  <2>2. slab_size_for_class(19) = 16777216
    BY <2>1, SMT DEF slab_size_for_class, AtLeast, DEFAULT_SLAB_SIZE
  <2>3. PayloadStart(1) = 48
    BY SMT DEF PayloadStart, RoundUp, CeilDiv, HDR_FIXED_BYTES, CHUNK_ALIGN
  <2>4. Lies(8388608, 16777216, 1, 48)
    BY SMTT(30) DEF Lies
  <2> QED  BY <2>1, <2>2, <2>3, <2>4, SMT
           DEF Geometry, FirstChunks, NextChunks, ChunksAfter, CeilDiv, HDR_FIXED_BYTES
<1>21. Geometry(20, 16777216, 33554432, 1, 1, 48)
  <2>1. class_size(20) = 16777216
    BY SMT DEF class_size
  <2>2. slab_size_for_class(20) = 33554432
    BY <2>1, SMT DEF slab_size_for_class, AtLeast, DEFAULT_SLAB_SIZE
  <2>3. PayloadStart(1) = 48
    BY SMT DEF PayloadStart, RoundUp, CeilDiv, HDR_FIXED_BYTES, CHUNK_ALIGN
  <2>4. Lies(16777216, 33554432, 1, 48)
    BY SMTT(30) DEF Lies
  <2> QED  BY <2>1, <2>2, <2>3, <2>4, SMT
           DEF Geometry, FirstChunks, NextChunks, ChunksAfter, CeilDiv, HDR_FIXED_BYTES
<1> QED  BY <1>1, <1>2, <1>3, <1>4, <1>5, <1>6, <1>7, <1>8, <1>9, <1>10, <1>11, 
             <1>12, <1>13, <1>14, <1>15, <1>16, <1>17, <1>18, <1>19, <1>20, <1>21

(* What the numbers of a class say of any slab of it.                       *)
LEMMA ClassFits ==
    ASSUME NEW c \in 0 .. MaxClass
    PROVE  \E cs, ss, off \in Nat, n \in Nat \ {0} :
              /\ class_size(c) = cs /\ slab_size_for_class(c) = ss
              /\ chunks_per_slab(c) = n /\ payload_offset(c) = off
              /\ HDR_FIXED_BYTES + 8 * num_words(c) <= off /\ 64 * num_words(c) >= n
              /\ Lies(cs, ss, n, off)
<1>1. PICK cs, ss, first, n, off : Geometry(c, cs, ss, first, n, off)
  <2>1. \/ c = 0 \/ c = 1 \/ c = 2 \/ c = 3 \/ c = 4 \/ c = 5 \/ c = 6
        \/ c = 7 \/ c = 8 \/ c = 9 \/ c = 10 \/ c = 11 \/ c = 12 \/ c = 13
        \/ c = 14 \/ c = 15 \/ c = 16 \/ c = 17 \/ c = 18 \/ c = 19 \/ c = 20
    BY DEF MaxClass, NUM_CLASSES
  <2> QED  BY <2>1, Geometries
<1>2. chunks_per_slab(c) = n
  <2>1. rounds(c)[8] = n
    BY <1>1, RoundsEnd DEF Geometry
  <2>2. slab_size_for_class(c) = ss /\ class_size(c) = cs /\ ss > HDR_FIXED_BYTES + cs
        /\ cs \in Nat /\ ss \in Nat
    BY <1>1 DEF Geometry
  <2> QED  BY <2>1, <2>2 DEF chunks_per_slab, HDR_FIXED_BYTES
<1>3. payload_offset(c) = off /\ num_words(c) = CeilDiv(n, 64)
  BY <1>1, <1>2 DEF Geometry, payload_offset, num_words
<1> QED  BY <1>1, <1>2, <1>3 DEF Geometry

-----------------------------------------------------------------------------
(* Mappable.                                                                *)
(* Mappable whose mapping, rounded up to pages, stays below 2^63.  A larger *)
(* one no kernel can map.                                                   *)
Mappable == { s \in Nat : s + 2 * PageSize <= Limit }

(* The pages of a mapping hold header and request, and little more.         *)
LEMMA Mapping ==
    ASSUME NEW size \in Nat
    PROVE  /\ MmapSize(size) \in Nat /\ MmapSize(size) >= size + HugeOffset
           /\ MmapSize(size) < size + HugeOffset + PageSize
BY DEF MmapSize, RoundUp, CeilDiv, HugeOffset, PageSize

(* A request served by a class fits in it, with the header in slab mode; a  *)
(* mapping is so large that rt_free finds no class for it.                  *)
LEMMA Routes ==
    ASSUME NEW size \in Mappable
    PROVE  /\ BucketIdx(size) \in Nat /\ SlabClass(size) \in Nat
           /\ BucketIdx(size) <= MaxClass =>
                 /\ BucketIdx(size) \in 0 .. MaxClass
                 /\ size <= class_size(BucketIdx(size))
           /\ SlabClass(size) <= MaxClass =>
                 /\ SlabClass(size) \in 0 .. MaxClass
                 /\ size + FatPtrSize <= class_size(SlabClass(size))
           /\ ~ BucketIdx(size) <= MaxClass => ~ BucketIdx(MmapSize(size) - HugeOffset) <= MaxClass
           /\ ~ SlabClass(size) <= MaxClass => ~ SlabClass(MmapSize(size) - HugeOffset) <= MaxClass
<1> DEFINE pay == MmapSize(size) - HugeOffset
           two24 == 2 ^ 24
<1>1. /\ size \in 0 .. Limit /\ size + FatPtrSize \in 0 .. Limit /\ size \in Nat
      /\ pay \in 0 .. Limit /\ pay + FatPtrSize \in 0 .. Limit /\ pay >= size
  BY Mapping, LimitIs DEF Mappable, PageSize, HugeOffset, FatPtrSize
<1>2. two24 \in Nat
  BY LimitIs
<1>3. \A s \in 0 .. Limit :
         /\ BucketIdx(s) \in Nat
         /\ ~ BucketIdx(s) <= MaxClass <=> s > two24
         /\ BucketIdx(s) <= MaxClass =>
               BucketIdx(s) \in 0 .. MaxClass /\ s <= class_size(BucketIdx(s))
  BY BucketIdxIs DEF MaxClass, NUM_CLASSES
<1> HIDE DEF two24, pay
<1>4. pay \in Nat /\ (size > two24 => pay > two24)
      /\ (size + FatPtrSize > two24 => pay + FatPtrSize > two24)
  BY <1>1, <1>2, LimitIs DEF FatPtrSize
<1>5. ~ BucketIdx(size) <= MaxClass => ~ BucketIdx(pay) <= MaxClass
  BY <1>1, <1>3, <1>4
<1>6. ~ SlabClass(size) <= MaxClass => ~ SlabClass(pay) <= MaxClass
  BY <1>1, <1>3, <1>4 DEF SlabClass
<1>7. SlabClass(size) <= MaxClass =>
         SlabClass(size) \in 0 .. MaxClass /\ size + FatPtrSize <= class_size(SlabClass(size))
  BY <1>1, <1>3 DEF SlabClass
<1>8. SlabClass(size) \in Nat
  BY <1>1, <1>3 DEF SlabClass
<1> QED  BY <1>1, <1>3, <1>5, <1>6, <1>7, <1>8 DEF pay

(* What madvise gives back of a bucket block: whole pages behind the chain  *)
(* word, inside the block.                                                  *)
LEMMA AdvisedPages ==
    ASSUME NEW start \in Nat, NEW c, class_size(c) \in Nat, PagesAdvised(start, c).len > 0
    PROVE  LET gone == PagesAdvised(start, c)
           IN  /\ gone.addr % PageSize = 0 /\ gone.len % PageSize = 0
               /\ gone.addr >= start + 8
               /\ gone.addr + gone.len <= start + class_size(c)
<1> DEFINE a == AdviseAddr(start)
           l == AdviseLen(start, c)
<1>1. a \in Nat /\ a % PageSize = 0 /\ a >= start + 8
  BY DEF AdviseAddr, RoundUp, CeilDiv, PageSize
<1>2. l \in Int /\ l % PageSize = 0 /\ a + l <= start + class_size(c)
  <2> HIDE DEF a
  <2>1. l = ((start + class_size(c) - a) \div PageSize) * PageSize
    BY DEF AdviseLen, a
  <2> QED  BY <1>1, <2>1 DEF PageSize
<1>3. PagesAdvised(start, c) = [addr |-> a, len |-> l]
  BY DEF PagesAdvised
<1> HIDE DEF a, l
<1> QED  BY <1>1, <1>2, <1>3

-----------------------------------------------------------------------------
(* The machine.                                                             *)
(* The block held is one that an allocation built.                          *)
FromBucket(b) ==
    \E size \in RequestSizes, base \in Bases :
        /\ BucketIdx(size) > MaxClass => base % PageSize = 0
        /\ b = BucketBlock(size, base)
FromSlab(b) ==
    \E size \in RequestSizes, n \in SlabNumbers : \E i \in SomeChunks(SlabClass(size)) :
        b = SlabBlock(size, n * slab_size_for_class(IF SlabClass(size) > MaxClass
                                                    THEN 0 ELSE SlabClass(size)), i)
SizeInv ==
    /\ block # NoBlock => FromBucket(block) \/ FromSlab(block)
    /\ FreeUndoesAllocate /\ AdviseKeepsChain

(* A block of bucket mode, as its header and the allocator know it.         *)
LEMMA BucketBlocks ==
    ASSUME NEW b, FromBucket(b), RequestSizes \subseteq Mappable
    PROVE  LET size == b.end - b.start
               c    == BucketIdx(size)
           IN  /\ b.mode = "bucket" /\ b.route \in {"class", "huge"}
               /\ b.start >= b.hdr + FatPtrSize /\ b.end <= b.hdr + b.owned
               /\ b.route = "class" =>
                     /\ c <= MaxClass /\ c = b.class /\ class_size(c) \in Nat
                     /\ b.start \in Nat /\ b.start + class_size(c) = b.hdr + b.owned
               /\ b.route = "huge" => ~ c <= MaxClass /\ b.end - b.hdr = b.owned
<1>1. PICK size \in RequestSizes, base \in Bases : b = BucketBlock(size, base)
  BY DEF FromBucket
<1>2. size \in Mappable /\ size \in Nat /\ base \in Nat
  BY SizeAssumption
<1>3. CASE BucketIdx(size) <= MaxClass
  <2> DEFINE c == BucketIdx(size)
  <2>1. c \in 0 .. MaxClass /\ size <= class_size(c)
    BY <1>2, <1>3, Routes
  <2>2. class_size(c) \in Nat
    BY <2>1, ClassFits
  <2>3. /\ b.mode = "bucket" /\ b.route = "class" /\ b.class = c /\ b.hdr = base
        /\ b.start = base + FatPtrSize /\ b.end = base + FatPtrSize + size
        /\ b.owned = FatPtrSize + class_size(c)
    BY <1>1, <1>3 DEF BucketBlock
  <2> HIDE DEF c
  <2>4. b.end - b.start = size
    BY <1>2, <2>3 DEF FatPtrSize
  <2>5. BucketIdx(b.end - b.start) = c
    BY <2>4 DEF c
  <2>6. c <= MaxClass
    BY <2>1 DEF MaxClass, NUM_CLASSES
  <2> QED  BY <1>2, <2>1, <2>2, <2>3, <2>5, <2>6 DEF FatPtrSize
<1>4. CASE ~ BucketIdx(size) <= MaxClass
  <2>2. ~ BucketIdx(MmapSize(size) - HugeOffset) <= MaxClass
    BY <1>2, <1>4, Routes
  <2>3. /\ b.mode = "bucket" /\ b.route = "huge" /\ b.hdr = base
        /\ b.start = base + HugeOffset /\ b.end = base + MmapSize(size)
        /\ b.owned = MmapSize(size)
    BY <1>1, <1>4 DEF BucketBlock
  <2>4. MmapSize(size) \in Nat
    BY <1>2, Mapping
  <2>5. b.end - b.start = MmapSize(size) - HugeOffset
    BY <1>2, <2>3, <2>4 DEF HugeOffset
  <2>7. ~ BucketIdx(b.end - b.start) <= MaxClass
    BY <2>2, <2>5
  <2> QED  BY <1>2, <2>3, <2>4, <2>7 DEF FatPtrSize, HugeOffset
<1> QED  BY <1>3, <1>4

(* A block of slab mode.                                                    *)
LEMMA SlabBlocks ==
    ASSUME NEW b, FromSlab(b), RequestSizes \subseteq Mappable
    PROVE  LET c == SlabClass(b.end - b.start)
           IN  /\ b.mode = "slab" /\ b.route \in {"class", "huge"}
               /\ b.start >= b.hdr + FatPtrSize /\ b.end <= b.hdr + b.owned
               /\ b.route = "class" =>
                     /\ c <= MaxClass
                     /\ SlabOf(b.hdr) = b.slab /\ ChunkIdx(b.hdr, b.class) = b.chunk
                     /\ HDR_FIXED_BYTES + 8 * num_words(b.class) <= payload_offset(b.class)
                     /\ b.hdr % CHUNK_ALIGN = 0
                     /\ b.hdr + class_size(b.class) <= b.slab + slab_size_for_class(b.class)
                     /\ 64 * num_words(b.class) >= chunks_per_slab(b.class)
               /\ b.route = "huge" => ~ c <= MaxClass /\ b.end - b.hdr = b.owned
<1>1. PICK size \in RequestSizes, m \in SlabNumbers : \E i \in SomeChunks(SlabClass(size)) :
         b = SlabBlock(size, m * slab_size_for_class(IF SlabClass(size) > MaxClass
                                                     THEN 0 ELSE SlabClass(size)), i)
  BY DEF FromSlab
<1>2. size \in Mappable /\ size \in Nat /\ m \in Nat
  BY SizeAssumption DEF Mappable
<1>3. SlabClass(size) \in Nat
  BY <1>2, Routes
<1>4. CASE SlabClass(size) <= MaxClass
  <2> DEFINE c == SlabClass(size)
  <2>1. c \in 0 .. MaxClass /\ size + FatPtrSize <= class_size(c)
    BY <1>2, <1>4, Routes
  <2>2. PICK cs, ss, off \in Nat, n \in Nat \ {0} :
           /\ class_size(c) = cs /\ slab_size_for_class(c) = ss
           /\ chunks_per_slab(c) = n /\ payload_offset(c) = off
           /\ HDR_FIXED_BYTES + 8 * num_words(c) <= off /\ 64 * num_words(c) >= n
           /\ Lies(cs, ss, n, off)
    BY <2>1, ClassFits
  <2>3. ~ c > MaxClass
    BY <1>3, <1>4 DEF MaxClass, NUM_CLASSES
  <2>4. PICK i \in SomeChunks(c) : b = SlabBlock(size, m * ss, i)
    BY <1>1, <2>2, <2>3
  <2>5. i \in 0 .. n - 1
    BY <2>2, <2>3, <2>4 DEF SomeChunks
  <2> DEFINE slab == m * ss
             a == m * ss + off + i * cs
  <2>6. /\ slab \in Nat /\ a \in Nat /\ a % 16 = 0
        /\ (a \div 65536) * 65536 = slab /\ (a - (slab + off)) \div cs = i
        /\ a + cs <= slab + ss
    BY <1>2, <2>2, <2>5 DEF Lies
  <2>7. /\ b.mode = "slab" /\ b.route = "class" /\ b.class = c /\ b.hdr = a
        /\ b.start = a + FatPtrSize /\ b.end = a + FatPtrSize + size
        /\ b.owned = cs /\ b.slab = slab /\ b.chunk = i
    BY <1>4, <2>2, <2>4 DEF SlabBlock, ChunkAddr
  <2>8. SlabOf(a) = slab /\ ChunkIdx(a, c) = i
    BY <2>2, <2>6 DEF SlabOf, ChunkIdx, DEFAULT_SLAB_SIZE
  <2> HIDE DEF c, slab, a
  <2>9. b.end - b.start = size
    BY <1>2, <2>6, <2>7 DEF FatPtrSize
  <2>10. SlabClass(b.end - b.start) = c /\ c <= MaxClass
    BY <1>4, <2>9 DEF c
  <2>11. b.start >= b.hdr + FatPtrSize /\ b.end <= b.hdr + b.owned
    BY <1>2, <2>1, <2>2, <2>6, <2>7 DEF FatPtrSize
  <2> QED  BY <2>2, <2>6, <2>7, <2>8, <2>10, <2>11 DEF CHUNK_ALIGN
<1>5. CASE ~ SlabClass(size) <= MaxClass
  <2>1. PICK slab, i : b = SlabBlock(size, slab, i) /\ slab \in Nat
    <3>1. SlabClass(size) > MaxClass
      BY <1>3, <1>5 DEF MaxClass, NUM_CLASSES
    <3>2. slab_size_for_class(0) \in Nat
      BY ClassFits DEF MaxClass, NUM_CLASSES
    <3>3. m * slab_size_for_class(0) \in Nat
      BY <1>2, <3>2
    <3> QED  BY <1>1, <3>1, <3>3
  <2>2. ~ SlabClass(MmapSize(size) - HugeOffset) <= MaxClass
    BY <1>2, <1>5, Routes
  <2>3. /\ b.mode = "slab" /\ b.route = "huge" /\ b.hdr = slab
        /\ b.start = slab + HugeOffset /\ b.end = slab + MmapSize(size)
        /\ b.owned = MmapSize(size)
    BY <1>5, <2>1 DEF SlabBlock
  <2>4. MmapSize(size) \in Nat
    BY <1>2, Mapping
  <2>5. b.end - b.start = MmapSize(size) - HugeOffset
    BY <2>1, <2>3, <2>4 DEF HugeOffset
  <2>6. ~ SlabClass(b.end - b.start) <= MaxClass
    BY <2>2, <2>5
  <2> QED  BY <2>1, <2>3, <2>4, <2>6 DEF FatPtrSize, HugeOffset
<1> QED  BY <1>4, <1>5

-----------------------------------------------------------------------------
(* Each step keeps the invariant.                                           *)
LEMMA AllocateKeeps ==
    ASSUME NEW size \in RequestSizes, AllocateBucket(size) \/ AllocateSlab(size)
    PROVE  SizeInv'
<1>1. FromBucket(block') \/ FromSlab(block')
  BY DEF AllocateBucket, AllocateSlab, FromBucket, FromSlab
<1>2. freed' = NoBlock
  BY DEF AllocateBucket, AllocateSlab
<1>3. (FreeUndoesAllocate /\ AdviseKeepsChain)'
  BY <1>2 DEF FreeUndoesAllocate, AdviseKeepsChain
<1> QED  BY <1>1, <1>3 DEF SizeInv, FromBucket, FromSlab

LEMMA FreeBucketKeeps ==
    ASSUME RequestSizes \subseteq Mappable, SizeInv, FreeBucket
    PROVE  SizeInv'
<1> DEFINE c == BucketIdx(block.end - block.start)
<1>1. block # NoBlock /\ block.mode = "bucket" /\ block' = NoBlock
  BY DEF FreeBucket
<1>2. FromBucket(block)
  <2>1. FromSlab(block) => block.mode = "slab"
    BY SlabBlocks
  <2> QED  BY <1>1, <2>1 DEF SizeInv
<1>3. /\ block.route \in {"class", "huge"}
      /\ block.route = "class" =>
            /\ c <= MaxClass /\ c = block.class /\ class_size(c) \in Nat
            /\ block.start \in Nat /\ block.start + class_size(c) = block.hdr + block.owned
      /\ block.route = "huge" => ~ c <= MaxClass /\ block.end - block.hdr = block.owned
  BY <1>2, BucketBlocks
<1>4. freed' = IF c <= MaxClass
               THEN [of |-> block, route |-> "class", class |-> c,
                     slab |-> 0, chunk |-> 0, gone |-> PagesAdvised(block.start, c)]
               ELSE [of |-> block, route |-> "huge", class |-> c,
                     slab |-> 0, chunk |-> 0,
                     gone |-> [addr |-> block.hdr, len |-> block.end - block.hdr]]
  BY DEF FreeBucket
<1> HIDE DEF c
<1>5. FreeUndoesAllocate'
  <2>1. CASE c <= MaxClass
    BY <1>1, <1>3, <1>4, <2>1 DEF FreeUndoesAllocate
  <2>2. CASE ~ c <= MaxClass
    BY <1>1, <1>3, <1>4, <2>2 DEF FreeUndoesAllocate
  <2> QED  BY <2>1, <2>2
<1>6. AdviseKeepsChain'
  <2>1. CASE c <= MaxClass
    <3>1. freed'.gone = PagesAdvised(block.start, c) /\ freed'.of = block
      BY <1>4, <2>1
    <3>2. /\ class_size(c) \in Nat /\ block.start \in Nat
          /\ block.start + class_size(c) = block.hdr + block.owned
      BY <1>3, <2>1
    <3> QED  BY <3>1, <3>2, AdvisedPages DEF AdviseKeepsChain
  <2>2. CASE ~ c <= MaxClass
    BY <1>4, <2>2 DEF AdviseKeepsChain
  <2> QED  BY <2>1, <2>2
<1> QED  BY <1>1, <1>5, <1>6 DEF SizeInv

LEMMA FreeSlabKeeps ==
    ASSUME RequestSizes \subseteq Mappable, SizeInv, FreeSlab
    PROVE  SizeInv'
<1> DEFINE c == SlabClass(block.end - block.start)
<1>1. block # NoBlock /\ block.mode = "slab" /\ block' = NoBlock
  BY DEF FreeSlab
<1>2. FromSlab(block)
  <2>1. FromBucket(block) => block.mode = "bucket"
    BY BucketBlocks
  <2> QED  BY <1>1, <2>1 DEF SizeInv
<1>3. /\ block.route \in {"class", "huge"}
      /\ block.route = "class" =>
            /\ c <= MaxClass
            /\ SlabOf(block.hdr) = block.slab /\ ChunkIdx(block.hdr, block.class) = block.chunk
      /\ block.route = "huge" => ~ c <= MaxClass /\ block.end - block.hdr = block.owned
  BY <1>2, SlabBlocks
<1>4. freed' = IF c <= MaxClass
               THEN [of |-> block, route |-> "class", class |-> block.class,
                     slab |-> SlabOf(block.hdr),
                     chunk |-> ChunkIdx(block.hdr, block.class),
                     gone |-> [addr |-> block.start, len |-> 0]]
               ELSE [of |-> block, route |-> "huge", class |-> c,
                     slab |-> block.slab, chunk |-> 0,
                     gone |-> [addr |-> block.hdr, len |-> block.end - block.hdr]]
  BY DEF FreeSlab
<1> HIDE DEF c
<1>5. FreeUndoesAllocate'
  <2>1. CASE c <= MaxClass
    BY <1>1, <1>3, <1>4, <2>1 DEF FreeUndoesAllocate
  <2>2. CASE ~ c <= MaxClass
    BY <1>1, <1>3, <1>4, <2>2 DEF FreeUndoesAllocate
  <2> QED  BY <2>1, <2>2
<1>6. AdviseKeepsChain'
  <2>1. freed'.of = block
    BY <1>4
  <2> QED  BY <1>1, <2>1 DEF AdviseKeepsChain
<1> QED  BY <1>1, <1>5, <1>6 DEF SizeInv

(* What the invariant says of the block that is held.                       *)
LEMMA HeldBlockFits ==
    ASSUME RequestSizes \subseteq Mappable, SizeInv
    PROVE  SizesRoundTrip
<1>1. BlockHoldsRequest
  BY BucketBlocks, SlabBlocks DEF SizeInv, BlockHoldsRequest
<1>2. SlabLayoutFits
  <2> SUFFICES ASSUME block # NoBlock, block.mode = "slab", block.route = "class"
               PROVE  SlabLayoutFits
    BY DEF SlabLayoutFits
  <2>1. FromBucket(block) => block.mode = "bucket"
    BY BucketBlocks
  <2>2. FromSlab(block)
    BY <2>1 DEF SizeInv
  <2> QED  BY <2>2, SlabBlocks DEF SlabLayoutFits
<1> QED  BY <1>1, <1>2 DEF SizeInv, SizesRoundTrip

(* For every set of requests that programs can make, and every place of     *)
(* their blocks: the block holds the request, rt_free finds from the header *)
(* the class, the mapping or the chunk it came from, what it gives back to  *)
(* the kernel leaves the chain of free blocks alone, and bitmap and chunks  *)
(* of a slab lie inside it.  (rt_allocate, rt_free, chunks_per_slab.)       *)
THEOREM SizesAlwaysRoundTrip ==
    ASSUME RequestSizes \subseteq Mappable
    PROVE  SizeSpec => []SizesRoundTrip
<1>1. SizeInit => SizeInv
  BY DEF SizeInit, SizeInv, FreeUndoesAllocate, AdviseKeepsChain
<1>2. SizeInv /\ [SizeNext]_sizeVars => SizeInv'
  <2> SUFFICES ASSUME SizeInv, [SizeNext]_sizeVars  PROVE SizeInv'
    OBVIOUS
  <2>1. CASE \E size \in RequestSizes : AllocateBucket(size) \/ AllocateSlab(size)
    BY <2>1, AllocateKeeps
  <2>2. CASE FreeBucket
    BY <2>2, FreeBucketKeeps
  <2>3. CASE FreeSlab
    BY <2>3, FreeSlabKeeps
  <2>4. CASE UNCHANGED sizeVars
    BY <2>4 DEF sizeVars, SizeInv, FromBucket, FromSlab, FreeUndoesAllocate, AdviseKeepsChain
  <2> QED  BY <2>1, <2>2, <2>3, <2>4 DEF SizeNext
<1>3. SizeInv => SizesRoundTrip
  BY HeldBlockFits
<1> QED  BY <1>1, <1>2, <1>3, PTL DEF SizeSpec

=============================================================================
