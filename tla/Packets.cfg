SPECIFICATION Spec
CHECK_DEADLOCK FALSE
CONSTANTS
    Streams <- MCStreams
    BufSize = 7
    Leftovers <- MCLeftovers
INVARIANTS
    TypeOK
    OnceInOrder
    NoneLeftOut
    NothingMadeUp
PROPERTIES
    WritesInPlace
