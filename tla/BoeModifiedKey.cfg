SPECIFICATION Spec
CONSTANTS
    Tokens = {t1, t2}
    NoToken = NoToken
    LimitQty = 3
    Grants = {TRUE}
    EnterQtys = {3}
    ModifyQtys = {3}
    ExecutionQtys = {2}
    Garbage <- MCNothing
    MaxPending = 1
    MaxOut = 1
PROPERTIES
    ModifiedIsActive
