SPECIFICATION Spec
CONSTANTS
    MAX_EXEC_PER_SECOND = 3
    Failures = {}
    Prompt = TRUE
    MaxLag = 6
    Window = 1
INVARIANTS
    ExecutionRate
