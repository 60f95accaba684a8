\* Three actors that loop by self-call, park on requests and die.
CONSTANTS
    NoActor = NoActor
    Actors = {main, a1, a2}
    Main = main
    QueueCap = 4
    GenMod = 2
    WordMod = 4
    SlotMod = 8
    Leftovers <- OldWords
    MaxGen = 1
    Quantum = 2
    BatchSize = 2
    Ops = {"tail_self", "spawn", "io", "done"}
    MailCap = 1
    MaxWrites = 0
SPECIFICATION FairSpec
INVARIANT CompletionsMatchParked
PROPERTIES
    DeadProgramExits
    IoMakesProgress
    QuantumEnds
    TurnOnceNobodyLeaves
