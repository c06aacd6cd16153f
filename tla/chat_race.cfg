SPECIFICATION Spec
CONSTANTS
    a = a
    b = b
    w1 = w1
    w2 = w2
    Users = {a, b}
    Workers = {w1, w2}
    MaxConvs = 2
    MaxMsgs = 1
SYMMETRY MCSymmetry
INVARIANTS TypeOK SendersHaveAccepted BroadcastReachesMembers
PROPERTY ParticipantLifecycle
