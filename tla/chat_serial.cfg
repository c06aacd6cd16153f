SPECIFICATION Spec
CONSTANTS
    a = a
    b = b
    w1 = w1
    w2 = w2
    Users = {a, b}
    Workers = {w1}
    MaxConvs = 3
    MaxMsgs = 1
INVARIANT OneChatPerPair
