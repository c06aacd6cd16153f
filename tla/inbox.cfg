SPECIFICATION Spec
CONSTANTS
    c1 = c1
    c2 = c2
    Convs = {c1, c2}
    None = None
    Begun <- MCBegun
    PageSize = 1
    MaxMessages = 2
    MaxChanges = 1
    MaxTroubles = 1
INVARIANTS TypeOK UnreadIsShown DotMeansNews ListIsCurrent
CHECK_DEADLOCK FALSE
