SPECIFICATION Spec
CONSTANTS
    NoToken = NoToken
    MAX_SHARES = 3
    UINT32 = 16
    MarketTif = 4
    SystemTif = 5
    Tokens = {t1, t2}
    Grants = {TRUE, FALSE}
    EnterQtys = {3}
    CancelQtys = {0}
    ModifyQtys = {3}
    ReplaceQtys = {3}
    Tifs = {5}
    MinQtys = {0}
    EnterSides = {"B"}
    ModifySides = {"B"}
    RandQtys = {2}
    Garbage <- MCGarbage
    MaxPending = 2
    MaxOut = 1
    MaxTime = 0
SYMMETRY TokenSymmetry
INVARIANTS
    TypeOK
    KeyIsToken
    IInv
PROPERTIES
    ImplementsLifecycle
