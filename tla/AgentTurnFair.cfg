SPECIFICATION FairSpec
CONSTANTS
    c1 = c1
    c2 = c2
    Conversations <- TwoConversations
    MaxIterations = 2
    MaxCalls = 2
    MaxTurns = 1
    MaxCrashes = 1
    MaxWriteErrors = 1
    MaxLost = 1
    CallsOn <- ToolOrTruncated
PROPERTIES
    CancelEndsTurn
    TurnEnds
