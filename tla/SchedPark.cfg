\* Three actors that wait, send, park, sleep and die.  The arrays never need
\* to grow: WakeFitsQueue holds here because process_arr is large enough, and
\* the run ParkedWakeOverflow shows what happens when process_arr is not.  An
\* actor that parks with no request sleeps for ever, and the loop with it.
CONSTANTS
    NoActor = NoActor
    Actors = {main, a1, a2}
    Main = main
    QueueCap = 4
    GenMod = 2
    WordMod = 4
    SlotMod = 8
    Leftovers <- OldWords
    MaxGen = 1
    Quantum = 1
    BatchSize = 2
    Ops = {"spawn", "io", "send", "wait", "bare_park", "done"}
    MailCap = 1
    MaxWrites = 0
SPECIFICATION SchedSpec
INVARIANTS
    OnePlaceEach
    NoLostWakeup
    ParkedIdxExact
PROPERTY ImplementsActorStates
SYMMETRY OtherActors
CHECK_DEADLOCK FALSE
