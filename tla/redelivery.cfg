SPECIFICATION Spec
CONSTANTS
    Always = {a1, a2}
    Optional = {}
    Reqs = {q1}
    FirstReq = q1
    UserOps = {}
    Wakers = {w1}
    Sweepers = {}
    Slots = 2
    DeliveryLimit = 1
    Budget = 1
    MaxWakeups = 1
    Mishaps = {"workerCrash", "workerError"}
    MaxMishaps = 2
CHECK_DEADLOCK FALSE
SYMMETRY AgentSymmetry
INVARIANTS AckedIsCounted BudgetOvershoot
