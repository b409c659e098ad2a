SPECIFICATION FairSycoadmSpec
CONSTANTS
    Nobody = Nobody
    Tenants = {"acme"}
    Commands = {"setup"}
    Versions = {1, 2}
    SelfService = FALSE
    Older = FALSE
    MaxFaults = 0
    MaxMisreads = 0
    MaxTrusts = 3
PROPERTY
    FromNothingToReady
