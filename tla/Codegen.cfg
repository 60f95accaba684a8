\* Guards of calls, blocks of branches of up to four expressions, unrolled
\* loops, one after the other.  Each part ends.  A wait has one handler:
\* HandlersFallThrough shows what two do.
CONSTANTS
    Ints <- SomeInts
    Strs <- SomeStrs
    fxhash <- Hashes
    len <- Lengths
    Signatures <- AllSignatures
    ArgsOf <- CallArgs
    MaxBranches = 3
    None = None
    strA = strA
    strB = strB
    strC = strC
    strD = strD
    Names = {n1, n2}
    MaxNodes = 4
    MaxArgs = 2
    MaxArms = 2
    MaxHandlers = 1
    Modulus = 3
    Loops <- LoopsOfTwo
    Factors = {2, 3}
    Quanta = {1, 3, 4}
SPECIFICATION Spec
INVARIANTS
    CallEntersRightBranch
    FollowsSource
    OperandsIntact
    SlotsFit
PROPERTY UnrollImplementsLoop
CHECK_DEADLOCK FALSE
