\* process_arr of two entries: one actor parks, two others fill the array.
CONSTANTS
    NoActor = NoActor
    Actors = {main, a1, a2}
    Main = main
    QueueCap = 2
    GenMod = 2
    WordMod = 4
    SlotMod = 8
    Leftovers <- OldWords
    MaxGen = 1
    Quantum = 1
    BatchSize = 2
    Ops = {"spawn", "io"}
    MailCap = 1
    MaxWrites = 1
SPECIFICATION SchedSpec
INVARIANT WakeFitsQueue
