SPECIFICATION Spec
CONSTANTS
    Signal = {"a"}
    Cell = {"sum"}
    Fx = {}
    Value <- Bits
    Initial <- Zeros
    Getter <- FailingGetter
    Body <- NoBody
    MaxWrites = 2
    MaxReads = 2
INVARIANT ReadsFresh
CHECK_DEADLOCK FALSE
