SPECIFICATION Spec
CONSTANTS
    MAX_EXEC_PER_SECOND = 1
    Failures = {"accept"}
    Prompt = FALSE
    MaxLag = 2
    Window = 2
INVARIANTS
    TypeOK
    OneConnection
    LoginIsOfThisConnection
    TicksDoNotPileUp
    OwnMailOnly
PROPERTIES
    SendReturns
    TicksKeepComing
    NextClientGetsIn
