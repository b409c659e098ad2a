SPECIFICATION FairSpec
CONSTANTS
    c1 = c1
    c2 = c2
    a1 = a1
    a2 = a2
    None = None
    Calls <- TwoCalls
    Awaiters <- OneAwaiter
    Inputs <- OneOfEach
    FrameKinds <- PodKinds
    ResCap = 1
    FanCap = 1
    TxCap = 1
    MaxFrames <- FirstHasOne
    MaxFaults = 1

    
    
PROPERTIES
    PromiseKept
    AwaitEnds
