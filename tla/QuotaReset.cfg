SPECIFICATION Spec
CONSTANTS
    Counts = {0, 2}
    Probs = {50}
    ExeQtys = {2}
    Commanded <- MCTickOperations
    MaxOrders = 1
    MaxCancels = 2
    MaxEffects = 3
INVARIANTS
    ResetMeansDefault
