SPECIFICATION FairSpec
CONSTANTS
    c1 = c1
    c2 = c2
    Convs = {c1, c2}
    Busy = {c1}
    None = None
    PageSize = 1
    MaxStored = 3
    MaxOwn = 1
    MaxSwitches = 2
    MaxNoise = 1
INVARIANTS TypeOK PagesHaveNoHole NothingFallsThrough SentIsStored
PROPERTY SendingSettles
CHECK_DEADLOCK FALSE
