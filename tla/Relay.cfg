SPECIFICATION Spec
CONSTANTS
    a = a
    b = b
    None = None
    Clients <- TwoClients
    Cap = 2
    BusCap = 1
    MaxConnects <- OneReconnects
    Outcomes <- DoneOrFailed
    MaxItems = 1
    MaxFaults = 1
INVARIANTS
    NoMissedTerminal
    ToldTruth
    
CHECK_DEADLOCK FALSE
