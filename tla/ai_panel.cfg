SPECIFICATION AiFairSpec
CONSTANTS
    MaxFaults = 1
    MaxTokens = 1
    MaxMsgs = 1
    MaxAsks = 2
    MaxChunks = 2
INVARIANTS TypeOK ReplyHasNoHole
PROPERTY AnsweredIsReleased
CHECK_DEADLOCK FALSE
