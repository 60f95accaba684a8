\* The instance of Lookups, asked whether the pid of a living actor resolves.
CONSTANTS
    NoActor = NoActor
    Actors = {a1, a2, a3}
    QueueCap = 2
    GenMod = 3
    WordMod = 9
    SlotMod = 8
    Leftovers <- OldWords
    MaxGen = 3
    p1 = p1
    p2 = p2
    Firsts = {p1, p2}
    Rest = {w1, w2}
    NoWord = NoWord
    Zero = Zero
    Ring = 7
    Arity = 2
    MaxUnread = 6
    Waits <- SomeWaits
    W = 4
    Shift = 2
    Mul1 = 13
    Mul2 = 11
    SeedsPerTry <- FewSeeds
    DispFactor = 2
    Keys <- SomeWords
    MaxKeys = 5
SPECIFICATION Spec
INVARIANT LivePidsResolve
CHECK_DEADLOCK FALSE
