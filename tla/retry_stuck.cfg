SPECIFICATION FairSpec
CONSTANTS
    Always = {a1, a2}
    Optional = {}
    Reqs = {q1, q2}
    FirstReq = q1
    UserOps = {"retry"}
    Wakers = {}
    Sweepers = {s1}
    Slots = 1
    DeliveryLimit = 1
    Budget = 9
    MaxWakeups = 0
    Mishaps = {"lostWakeup"}
    MaxMishaps = 2
CHECK_DEADLOCK FALSE
PROPERTY RetryConcludes
