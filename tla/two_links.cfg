SPECIFICATION SharesSpec
CONSTANTS
    Sharers = {s1, s2}
    MaxLinks = 2
CHECK_DEADLOCK FALSE
INVARIANTS
    OneLink
