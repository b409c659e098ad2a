SPECIFICATION Spec
CONSTANTS
    c1 = c1
    c2 = c2
    Conversations <- OneConversation
    MaxIterations = 2
    MaxCalls = 2
    MaxTurns = 2
    MaxCrashes = 1
    MaxWriteErrors = 0
    MaxLost = 1
    CallsOn <- ToolOrTruncated
INVARIANTS
    ResultsFollowToolUse
    AnsweredBeforeNextRound
    
    
    
    CancelledOnlyIfAsked
    NothingAfterTerminal
