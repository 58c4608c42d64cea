SPECIFICATION Spec
CONSTANTS
    Counts = {1}
    Probs = {50}
    ExeQtys = {2}
    Commanded <- MCOperations
    MaxOrders = 1
    MaxCancels = 1
    MaxEffects = 2
INVARIANTS
    TypeOK
    QuotaNeverExceeded
    ExecuteOnce
