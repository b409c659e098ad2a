SPECIFICATION TuiSpec
CONSTANTS
    None = None
    MaxTexts = 2
    MaxFaults = 1
INVARIANTS
    
    OneReconnect
CHECK_DEADLOCK FALSE
