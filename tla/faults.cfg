SPECIFICATION FairSpec
CONSTANTS
    Always = {a1}
    Optional = {a2}
    Reqs = {q1}
    FirstReq = q1
    UserOps = {}
    Wakers = {w1}
    Sweepers = {s1}
    Slots = 1
    DeliveryLimit = 1
    Budget = 9
    MaxWakeups = 1
    Mishaps = {"workerCrash", "workerError", "lostWakeup"}
    MaxMishaps = 1
CHECK_DEADLOCK FALSE
INVARIANTS CompleteReport OneSynthesis
PROPERTIES ImplementsBarrier Settles
