------------------------------ MODULE MCMemory ------------------------------
(* Memory for TLC: the allocator, and what an actor allocates for itself,   *)
(* its arena (in two instances) and its ring of scratch buffers.  Which of  *)
(* rt_allocate's two halves a program contains, buckets or slabs, is fixed  *)
(* when it is compiled; arenas and scratch buffers share nothing but the    *)
(* allocator below them, which their modules abstract.  So each part is     *)
(* explored by itself, and the size arithmetic apart, at real sizes.        *)
EXTENDS Buckets, Slabs, SizeClasses, Arena, Scratch, TLC

CONSTANTS kid1, kid2, red, blue

VARIABLE part

(* Buckets: two of them, one of two pages, over a heap of 112 bytes, and    *)
(* one huge size.                                                           *)
TwoBuckets == [ c \in 0 .. 1 |-> IF c = 0 THEN 16 ELSE 64 ]

(* Slabs: three for two classes, one of three chunks, which do not fill the *)
(* words of their bitmap, one of a single chunk, as classes 12 and up have. *)
TwoClasses == [ c \in 0 .. 1 |-> IF c = 0 THEN 3 ELSE 1 ]

(* Requests around every boundary between classes, with and without the     *)
(* sixteen bytes of a header, and blocks at every kind of place in a page,  *)
(* its start (where mappings are) among them.                               *)
AroundBoundaries ==
    { s \in UNION { { b - 16, b - 15, b, b + 1 } :
                        b \in { 2 ^ (c + 4) : c \in 0 .. 21 } } : s >= 0 }
PlacesInPage == { 65536 + k : k \in {0, 16, 2048, 4080} }

(* Arenas: main and one child, asynchronous or synchronous; arenas of three *)
(* cells, so that objects spill into the heap, and overlap when they are    *)
(* moved.                                                                   *)
PairNext == ArenaNext /\ kid2 \notin alive'

(* Children of children: what is left of the arenas' bookkeeping when       *)
(* nested synchronous calls, asynchronous spawns, messages and deaths       *)
(* interleave.                                                              *)
Nested == INSTANCE Arena WITH
    Cap <- 1, Lens <- {1}, Values <- {red}, MaxVars <- 1, Ops <- Ops \cup {"send"}

ASSUME ArenaAssumption /\ Nested!ArenaAssumption

-----------------------------------------------------------------------------
MemoryInit ==
    /\ part \in {"buckets", "slabs", "sizes", "pair", "nested", "scratch"}
    /\ Init /\ SlabInit /\ SizeInit /\ ScratchInit
    /\ part # "buckets" => arena = 0
    /\ part # "nested" => ArenaInit
    /\ part = "nested" => Nested!ArenaInit

BucketsPart ==
    /\ part = "buckets" /\ Next
    /\ UNCHANGED << part, slabVars, sizeVars, arenaVars, scratchVars >>
SlabsPart ==
    /\ part = "slabs" /\ SlabNext
    /\ UNCHANGED << part, vars, sizeVars, arenaVars, scratchVars >>
SizesPart ==
    /\ part = "sizes" /\ SizeNext
    /\ UNCHANGED << part, vars, slabVars, arenaVars, scratchVars >>
PairPart ==
    /\ part = "pair" /\ PairNext
    /\ UNCHANGED << part, vars, slabVars, sizeVars, scratchVars >>
NestedPart ==
    /\ part = "nested" /\ Nested!ArenaNext
    /\ UNCHANGED << part, vars, slabVars, sizeVars, scratchVars >>
ScratchPart ==
    /\ part = "scratch" /\ ScratchNext
    /\ UNCHANGED << part, vars, slabVars, sizeVars, arenaVars >>

MemoryNext ==
    BucketsPart \/ SlabsPart \/ SizesPart \/ PairPart \/ NestedPart \/ ScratchPart

MemorySpec ==
    MemoryInit /\ [][MemoryNext]_<< part, vars, slabVars, sizeVars, arenaVars,
                                    scratchVars >>

=============================================================================
