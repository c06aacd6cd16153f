SPECIFICATION FairSpec
CONSTANTS
    MaxFaults = 3
    MaxTokens = 3
    MaxMsgs = 3
INVARIANTS SentInOrder QueueOnlyWhileDown TornDownStaysDown
PROPERTY DropIsRetried
CHECK_DEADLOCK FALSE
