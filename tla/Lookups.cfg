\* Three addresses recycled over three generations, arrays that start at
\* capacity 2 and double twice; a pid holds the generations below 3, an entry
\* those below 9, and fresh slots of a grown table begin at 0 or 3; two-word
\* messages in a ring of seven words, whose end they straddle; up to five keys
\* of four bits.  The spawns and the search end.
CONSTANTS
    NoActor = NoActor
    Actors = {a1, a2, a3}
    QueueCap = 2
    GenMod = 3
    WordMod = 9
    SlotMod = 8
    Leftovers <- OldWords
    MaxGen = 3
    p1 = p1
    p2 = p2
    Firsts = {p1, p2}
    Rest = {w1, w2}
    NoWord = NoWord
    Zero = Zero
    Ring = 7
    Arity = 2
    MaxUnread = 6
    Waits <- SomeWaits
    W = 4
    Shift = 2
    Mul1 = 13
    Mul2 = 11
    SeedsPerTry <- FewSeeds
    DispFactor = 2
    Keys <- SomeWords
    MaxKeys = 5
SPECIFICATION Spec
INVARIANTS
    PidTypeOK
    SlotsPartitioned
    ResolvesIffItFits
    StalePidsResolveToNothing
    PeakBoundsTable
    PerfectTable
    SearchExact
PROPERTIES
    ImplementsRegistry
    ImplementsQueue
    EveryTurnNearsTheAdmitted
    HashSearchEnds
CHECK_DEADLOCK FALSE
