SPECIFICATION FairSpec
CONSTANTS
    a = a
    b = b
    c = c
    g1 = g1
    g2 = g2
    None = None
    Calls <- TwoCalls
    Grants <- TwoGrants
    Keepalive = TRUE
INVARIANTS
    OneTerminal
    GrantContained
    RunsOnce
    NothingStranded
PROPERTY EveryCallEnds
