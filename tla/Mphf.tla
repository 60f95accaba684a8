-------------------------------- MODULE Mphf --------------------------------
(***************************************************************************)
(* The perfect hash of string guards: MphfBuilder searches a seed and one  *)
(* displacement per bucket at compile time (src/src/compiler/mphf/         *)
(* builder.rs), the generated code evaluates the table (mphf/codegen.rs).  *)
(*                                                                         *)
(* Words have W bits here instead of 64, the mixing constants and the      *)
(* limits of the search are scaled down; the search is the code's.         *)
(***************************************************************************)
EXTENDS Integers, Sequences, FiniteSets, Bitwise

CONSTANTS
    W,              \* width of a word (64)
    Shift,          \* of the mixing function (33)
    Mul1, Mul2,     \* its odd multipliers
    SeedsPerTry,    \* seeds tried by each of the four strategies
    DispFactor,     \* displacements tried per key (500)
    Keys,           \* bound: the words that occur as keys
    MaxKeys         \* bound: number of keys

ASSUME MphfAssumption ==
    /\ W \in Nat \ {0} /\ Shift \in 1 .. W /\ DispFactor \in Nat \ {0}
    /\ Mul1 % 2 = 1 /\ Mul2 % 2 = 1
    /\ Keys \subseteq 0 .. 2 ^ W - 1 /\ MaxKeys \in Nat
    /\ SeedsPerTry \in [1 .. 4 -> Nat \ {0}]

Word == 0 .. 2 ^ W - 1
Wrap(n) == n % 2 ^ W
XorShift(h) == h ^^ (h \div 2 ^ Shift)

Mix == [ w \in Word |-> XorShift(Wrap(XorShift(Wrap(XorShift(w) * Mul1)) * Mul2)) ]

hash(key, seed) == Mix[Wrap(key + seed)]

VARIABLES
    keys,       \* the keys; the search does not depend on their order
    try,        \* [strategy, seed]
    order,      \* buckets still to place, largest first
    used,       \* indices taken
    disp,       \* displacement of each bucket
    outcome     \* "search", "built" or "panic"

hashVars == << keys, try, order, used, disp, outcome >>

N == Len(keys)
\* Quarter, third, half and as many buckets as keys.
NumBuckets(n, strategy) ==
    LET b == << n \div 4, n \div 3, n \div 2, n >>[strategy]
    IN  IF b = 0 THEN 1 ELSE b
num_buckets == NumBuckets(N, try.strategy)
BucketId(h, nb) == h % nb
BucketOf(key) == BucketId(hash(key, try.seed), num_buckets)
Bucket(b) == { i \in 1 .. N : BucketOf(keys[i]) = b }

\* bucket_order: a stable sort by falling size, empty buckets skipped.
BucketOrder(ks, strategy, seed) ==
    LET n    == Len(ks)
        nb   == NumBuckets(n, strategy)
        size == [ b \in 0 .. nb - 1 |->
                    Cardinality({ i \in 1 .. n : BucketId(hash(ks[i], seed), nb) = b }) ]
        full == { b \in DOMAIN size : size[b] > 0 }
        rank(b) == Cardinality({ c \in full : \/ size[c] > size[b]
                                              \/ size[c] = size[b] /\ c <= b })
    IN  [ r \in 1 .. Cardinality(full) |-> CHOOSE b \in full : rank(b) = r ]

Start(ks, strategy, seed) ==
    /\ try' = [strategy |-> strategy, seed |-> seed]
    /\ order' = BucketOrder(ks, strategy, seed)
    /\ used' = {} /\ disp' = [ b \in 0 .. Len(ks) - 1 |-> 0 ]
    /\ UNCHANGED << keys, outcome >>

HashInit ==
    /\ \E n \in 1 .. MaxKeys :
          keys \in { ks \in [1 .. n -> Keys] : \A i \in 1 .. n - 1 : ks[i] <= ks[i + 1] }
    /\ try = [strategy |-> 1, seed |-> 0]
    /\ order = BucketOrder(keys, 1, 0)
    /\ used = {} /\ disp = [ b \in 0 .. N - 1 |-> 0 ]
    /\ outcome = "search"

IndexUnder(key, d) == Wrap(hash(key, try.seed) + d) % N
\* What 'displacement_loop accepts: free indices, distinct within the bucket.
Fits(b, d) ==
    /\ \A i \in Bucket(b) : IndexUnder(keys[i], d) \notin used
    /\ \A i, j \in Bucket(b) :
           i # j => IndexUnder(keys[i], d) # IndexUnder(keys[j], d)
Displacements(b) == { d \in 0 .. N * DispFactor - 1 : Fits(b, d) }

PlaceBucket ==
    /\ outcome = "search" /\ order # << >>
    /\ LET b  == Head(order)
           ds == Displacements(b)
       IN  /\ ds # {}
           /\ LET d == CHOOSE x \in ds : \A y \in ds : x <= y
              IN  /\ used' = used \cup { IndexUnder(keys[i], d) : i \in Bucket(b) }
                  /\ disp' = [disp EXCEPT ![b] = d]
    /\ order' = Tail(order)
    /\ UNCHANGED << keys, try, outcome >>

\* try_build returns None: the next seed, the next strategy, or the panic.
Stuck == outcome = "search" /\ order # << >> /\ Displacements(Head(order)) = {}
LastSeedEarly == try.seed >= SeedsPerTry[try.strategy] - 2  \* broken: off by one
LastSeed == try.seed = SeedsPerTry[try.strategy] - 1
NextSeed == Stuck /\ ~LastSeed /\ Start(keys, try.strategy, try.seed + 1)
NextStrategyAgain ==                                      \* broken: the first again
    /\ Stuck /\ LastSeed /\ try.strategy < 4
    /\ Start(keys, 1, 0)
NextStrategy ==
    /\ Stuck /\ LastSeed /\ try.strategy < 4
    /\ Start(keys, try.strategy + 1, 0)
Panic ==
    /\ Stuck /\ LastSeed /\ try.strategy = 4
    /\ outcome' = "panic" /\ UNCHANGED << keys, try, order, used, disp >>
Built ==
    /\ outcome = "search" /\ order = << >>
    /\ outcome' = "built" /\ UNCHANGED << keys, try, order, used, disp >>

HashNext == PlaceBucket \/ NextSeed \/ NextStrategy \/ Panic \/ Built

HashSpec == HashInit /\ [][HashNext]_hashVars /\ WF_hashVars(HashNext)

-----------------------------------------------------------------------------
(* emit_mphf_lookup: urem, load, iadd (which wraps), urem.                  *)
emit_mphf_lookup(key) ==
    Wrap(hash(key, try.seed) + disp[BucketOf(key)]) % N

(* Mphf::lookup, which orders the data sections: the sum must fit a word,   *)
(* a release build wraps it, a debug build stops the compiler.              *)
lookup_wide(key) ==                                       \* broken: a 128 bit sum
    (hash(key, try.seed) + disp[BucketOf(key)]) % N
lookup(key) ==
    Wrap(hash(key, try.seed) + disp[BucketOf(key)]) % N

-----------------------------------------------------------------------------
(* A table that is built is a minimal perfect hash: the generated lookup    *)
(* sends the keys to the N indices, one each, and any other word, such as   *)
(* the hash of a string that is no literal, to some index of the tables.    *)
MinimalPerfect ==
    outcome = "built" =>
        /\ { emit_mphf_lookup(keys[i]) : i \in 1 .. N } = 0 .. N - 1
        /\ \A w \in Word : emit_mphf_lookup(w) \in 0 .. N - 1

(* The compiler lays the key, literal and branch tables out by lookup, the  *)
(* program indexes them with its own code: they agree on every key, also    *)
(* where the sum of hash and displacement overflows.                        *)
LookupsAgree ==
    outcome = "built" =>
        \A i \in 1 .. N : lookup(keys[i]) = emit_mphf_lookup(keys[i])

(* The compiler panics only when it must: a seed under which the hashes     *)
(* differ modulo N, wherever in the 21000 it comes, is not missed.  Two     *)
(* literals with the same hash have no such seed.                           *)
Separates(seed) ==
    \A i, j \in 1 .. N : i # j => hash(keys[i], seed) % N # hash(keys[j], seed) % N
MissesNoSeed ==
    outcome = "panic" =>
        \A s \in 1 .. 4 : \A seed \in 0 .. SeedsPerTry[s] - 1 : ~Separates(seed)

(* With as many buckets as keys, bucket and index are the same remainder of *)
(* the hash, so a displacement moves a collision and never resolves it,     *)
(* unless a sum wraps: the last strategy succeeds only where the hash alone *)
(* is perfect, hence only with seeds the third has not tried.               *)
LastResortNeedsNewSeed ==
    /\ outcome = "built" /\ try.strategy = 4
    /\ \A i \in 1 .. N : hash(keys[i], try.seed) + disp[BucketOf(keys[i])] < 2 ^ W
    => Separates(try.seed) /\ try.seed >= SeedsPerTry[3]

(* The table of the compiler is the one the program needs.                  *)
PerfectTable == MinimalPerfect /\ LookupsAgree

(* The search gives up only where no seed is left, and owes its success to  *)
(* a seed of its own where displacements cannot help.                       *)
SearchExact == MissesNoSeed /\ LastResortNeedsNewSeed

(* The search ends.                                                         *)
SearchEnds == <>(outcome # "search")
=============================================================================
