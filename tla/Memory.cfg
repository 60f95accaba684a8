\* Buckets, slabs and the arithmetic of sizes; arenas of two actors, arenas of
\* nested calls, scratch buffers: each by itself.  The bucket heap stops after
\* an out-of-memory error that ends the program, the arenas when main dies.
CONSTANTS
    ClassSize <- TwoBuckets
    HeapBase = 64
    HeapEnd = 176
    MapAddrs = {192}
    Page = 32
    Sizes = {8, 64, 90}
    Arenas = {0, 32}
    SlabAddrs = {1, 2, 3}
    ChunksOf <- TwoClasses
    WordBits = 2
    TupleClass = 0
    Span = 64
    NoAddr = NoAddr
    RequestSizes <- AroundBoundaries
    Bases <- PlacesInPage
    SlabNumbers = {1, 2}
    Chunks = {0, 1}
    NoBlock = NoBlock
    \* Three cells, objects of one and two.
    Main = main
    Actors = {main, kid1, kid2}
    kid1 = kid1
    kid2 = kid2
    Cap = 3
    Lens = {1, 2}
    Values = {red, blue}
    red = red
    blue = blue
    MaxVars = 2
    Ops = {"alloc", "async", "sync", "self"}
    None = None
    Heap = Heap
    Torn = Torn
    \* Three actors over two blocks; sizes 1 and 3 share a slot of the ring.
    Owners = {act1, act2, act3}
    Blocks = {blk1, blk2}
    BufSizes = {1, 2, 3}
    SCRATCH_SLOTS = 2
    MaxBufs = 6
    OtherWords = {0}
    NoCtx = NoCtx
    Bytes = Bytes
SPECIFICATION MemorySpec
INVARIANTS
    BucketsExact
    UserBlockReadsZero
    SlabsExact
    SizesRoundTrip
    ArgsIntact
    ArenasExact
    BuffersSound
PROPERTIES
    HeldBlocksUntouched
    BucketsImplementHeap
    SlabsImplementHeap
    RewoundAlone
CHECK_DEADLOCK FALSE
