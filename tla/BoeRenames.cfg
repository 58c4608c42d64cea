SPECIFICATION Spec
CONSTANTS
    Tokens = {t1, t2}
    NoToken = NoToken
    LimitQty = 3
    Grants = {TRUE, FALSE}
    EnterQtys = {3}
    ModifyQtys = {1}
    ExecutionQtys = {2}
    Garbage <- MCResidue
    MaxPending = 2
    MaxOut = 1
SYMMETRY TokenSymmetry
INVARIANTS
    TypeOK
    KeyIsToken
    QtySound
    ClientAgrees
PROPERTIES
    ImplementsLifecycle
