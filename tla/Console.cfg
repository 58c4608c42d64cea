SPECIFICATION Spec
CONSTANTS
    c1 = c1
    c2 = c2
    Connections = {c1, c2}
    Scripts <- MCScripts
    Leaves <- MCLeaves
    Pieces = 2
    Window = 2
    Failures = {"accept"}
CHECK_DEADLOCK FALSE
INVARIANTS
    TypeOK
    OneReader
    LinesInOrder
    RepliesWhole
    StaleOnlyByHaste
PROPERTIES
    LinesServed
