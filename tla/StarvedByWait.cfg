\* Two actors that wake each other and wait again, beside a third.
CONSTANTS
    NoActor = NoActor
    Actors = {main, a1, a2}
    Main = main
    QueueCap = 4
    GenMod = 2
    WordMod = 4
    SlotMod = 8
    Leftovers <- OldWords
    MaxGen = 1
    Quantum = 2
    BatchSize = 2
    Ops = {"compute", "spawn", "send", "wait"}
    MailCap = 1
    MaxWrites = 1
SPECIFICATION FairSpec
PROPERTY EveryoneGetsATurn
