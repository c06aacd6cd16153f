SPECIFICATION Spec
CONSTANTS
    a = a
    b = b
    None = None
    Users = {a, b}
    MaxCalls = 2
    MaxNoise = 1
    MaxAnswers = 1
SYMMETRY MCSymmetry
INVARIANTS TypeOK NoCandidateIsStranded CalleeLetsGo NobodyIsLeftAlone
CHECK_DEADLOCK FALSE
