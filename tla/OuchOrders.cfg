SPECIFICATION Spec
CONSTANTS
    NoToken = NoToken
    MAX_SHARES = 3
    UINT32 = 16
    MarketTif = 4
    SystemTif = 5
    Tokens = {t1}
    Grants = {TRUE}
    EnterQtys = {3, 4}
    CancelQtys = {0, 1}
    ModifyQtys = {1, 3, 4}
    ReplaceQtys = {}
    Tifs = {1, 5}
    MinQtys = {0, 1}
    EnterSides = {"B", "S", "T"}
    ModifySides = {"E"}
    RandQtys = {1, 2}
    Garbage <- NoGarbage
    MaxPending = 2
    MaxOut = 1
    MaxTime = 1
INVARIANTS
    QtySound
    ClientAgrees
    ErasedIsClosed
PROPERTIES
    ImplementsLifecycle
    
    OrdersLeave
