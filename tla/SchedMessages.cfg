\* Messages, spawns, writes and deaths among three actors, every array
\* starting at capacity 2 so that each one grows.
CONSTANTS
    NoActor = NoActor
    Actors = {main, a1, a2}
    Main = main
    QueueCap = 2
    GenMod = 3
    WordMod = 9
    SlotMod = 8
    Leftovers <- OldWords
    MaxGen = 2
    Quantum = 1
    BatchSize = 2
    Ops = {"compute", "tail_self", "spawn", "send", "wait", "die", "write", "done"}
    MailCap = 1
    MaxWrites = 1
SPECIFICATION SchedSpec
INVARIANTS
    SchedTypeOK
    SqWithinBatch
    CountsAgree
    DyingRunsNoBlock
SYMMETRY OtherActors
