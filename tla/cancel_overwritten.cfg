SPECIFICATION Spec
CONSTANTS
    Always = {a1}
    Optional = {}
    Reqs = {q1, q2}
    FirstReq = q1
    UserOps = {"cancel"}
    Wakers = {w1}
    Sweepers = {}
    Slots = 1
    DeliveryLimit = 1
    Budget = 9
    MaxWakeups = 1
    Mishaps = {}
    MaxMishaps = 0
CHECK_DEADLOCK FALSE
PROPERTY CancelIsFinal
