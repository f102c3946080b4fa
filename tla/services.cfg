SPECIFICATION ServicesSpec
CONSTANTS
    Visits = {v1, v2}
    MaxRows = 2
    MaxBlips = 3
    Trouble = {"repeated", "clerk", "github", "deleted", "shared"}
    Sharers = {s1, s2, s3}
    MaxLinks = 5
    Inputs <- MCInputs
CHECK_DEADLOCK FALSE
SYMMETRY ServicesSymmetry
INVARIANTS
    ServicesTypeOK
    RequestsSurvive
    RevokedTogether
    FactsAreMeasured
    CutsAreKnown
    DiagramsHoldTogether
    ReportAgrees
    RequestsAccepted
    BoundsHold
PROPERTIES
    KnownIsKept
