SPECIFICATION FairSpec
CONSTANTS
    t1 = t1
    t2 = t2
    s1 = s1
    s2 = s2
    i1 = i1
    Turns <- TwoTurns
    Streams <- OneStream
    CallIds <- OneId
    Tools <- ClientTools
    Renders <- RendersAll
    Replies <- TwoTurns
    Cap = 1
    MaxRounds = 2
    MaxCalls = 1
    MaxDepth = 1
    MaxAsks = 2
    MaxRestarts = 1
INVARIANTS
    RunsOnlyIfApproved
    OwnAnswer
    SlotsAccounted
PROPERTY CancelUnwinds
CHECK_DEADLOCK FALSE
