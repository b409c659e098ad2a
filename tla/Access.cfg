SPECIFICATION FairSpec
CONSTANTS
    x1 = x1
    x2 = x2
    h1 = h1
    k1 = k1
    m1 = m1
    m2 = m2
    i1 = i1
    i2 = i2
    s1 = s1
    None = None
    Subjects <- TwoSubjects
    Handles <- OneHandle
    Convs <- OneConv
    Cms <- TwoCms
    First <- OneHolds
    Calls <- OneCall
    Streams <- OneStream
    MaxEdits = 1
    MaxFaults = 1
INVARIANTS
    
    TableIsDelivery
PROPERTY RevocationTakesEffect
CHECK_DEADLOCK FALSE
