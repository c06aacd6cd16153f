SPECIFICATION Spec
CONSTANTS
    a = a
    b = b
    None = None
    Users = {a, b}
    MaxCalls = 2
    MaxNoise = 0
    MaxAnswers = 1
SYMMETRY MCSymmetry
INVARIANT EveryHookIsCleanedUp
CHECK_DEADLOCK FALSE
