SPECIFICATION Spec
CONSTANTS
    c1 = c1
    c2 = c2
    r1 = r1
    r2 = r2
    r3 = r3
    r4 = r4
    None = None
    Ids <- TwoIds
    Requests <- FourRequests
    MaxRestarts = 2
SYMMETRY Symmetric
INVARIANTS
    OwnerKept
    DeletedStaysGone
    MintedSurvivesReboot
