SPECIFICATION FairSpec
CONSTANTS
    r1 = r1
    r2 = r2
    Me = Me
    None = None
    Requests = {r1, r2, Me}
    MaxTokens = 7
    MaxFaults = 2
    MaxLoads = 2
INVARIANTS TypeOK NobodyWaitsForNothing RefreshesAreBounded  SessionSurvives
PROPERTY EveryRequestSettles
CHECK_DEADLOCK FALSE
