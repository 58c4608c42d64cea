SPECIFICATION Spec
CONSTANTS
    Tokens = {t1, t2}
    NoToken = NoToken
    LimitQty = 2
    Grants = {TRUE}
    EnterQtys = {0, 3}
    ModifyQtys = {2}
    ExecutionQtys = {1}
    Garbage <- MCNothing
    MaxPending = 2
    MaxOut = 1
PROPERTIES
    CancelsAnswered
    OrdersLeave
    ImplementsLifecycle
