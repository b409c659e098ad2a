SPECIFICATION FairInferenceSpec
CONSTANTS
    Answers <- BothAnswer
    ChanCap = 1
    MaxRounds = 2
    MaxFaults = 1
INVARIANTS
    
    ItemsNest
    
PROPERTY CallEnds
CHECK_DEADLOCK FALSE
