\* The same blocks also serve the snapshots of self().
CONSTANTS
    Owners = {a, b, c}
    Blocks = {x, y}
    BufSizes = {1, 2, 3}
    SCRATCH_SLOTS = 2
    MaxBufs = 6
    OtherWords = {0, Bytes}
    NoCtx = NoCtx
    Bytes = Bytes
SPECIFICATION ScratchSpec
INVARIANT NothingReadStale
CHECK_DEADLOCK FALSE
