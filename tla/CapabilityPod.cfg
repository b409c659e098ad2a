SPECIFICATION FairSpec
CONSTANTS
    None = None
    MaxCalls = 2
    Tools = {"dispatch", "Shell", "Read", "Write", "Edit", "Search"}
    Entries <- AllEntries
    Lines <- SomeLines
    Grants = {"grant", "root"}
    ChanCap = 1
    MaxOut = 1
    MaxEvents = 2
INVARIANTS
    TerminalTellsTruth
    
PROPERTIES
    PodGoesAway
