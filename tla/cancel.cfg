SPECIFICATION FairSpec
CONSTANTS
    Always = {a1}
    Optional = {}
    Reqs = {q1, q2}
    FirstReq = q1
    UserOps = {"cancel"}
    Wakers = {w1}
    Sweepers = {s1}
    Slots = 1
    DeliveryLimit = 0
    Budget = 9
    MaxWakeups = 1
    Mishaps = {"workerCrash", "slowSweep"}
    MaxMishaps = 2
CHECK_DEADLOCK FALSE
INVARIANT SynthesesBounded
PROPERTIES NoStrandedAgent CancelQuiesces
