SPECIFICATION Spec
CONSTANTS
    Always = {a1}
    Optional = {}
    Reqs = {q1, q2}
    FirstReq = q1
    UserOps = {"retry", "stop", "cancel"}
    Wakers = {w1, w2}
    Sweepers = {}
    Slots = 1
    DeliveryLimit = 1
    Budget = 1
    MaxWakeups = 1
    Mishaps = {"workerCrash", "workerError", "lostWakeup", "lostDispatch", "orchCrash", "orchError", "synthCrash", "synthError", "gatewayCrash", "slowSynth", "slowSweep"}
    MaxMishaps = 1
SYMMETRY AgentSymmetry
CHECK_DEADLOCK FALSE
INVARIANTS TypeOK CountedHasRow DoneHasReport ReportGrounded
