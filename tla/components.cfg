SPECIFICATION ComponentsFair
CONSTANTS
    Jobs = {j1, j2}
    AgentTypes = {"architecture", "docs"}
    Slots = 2
    Runners = {r1, r2}
    MaxTurns = 3
    EvidenceFloor = 2
    AgentBudget = 4
    Reserve = 2
    JobBudget = 2
    MaxCost = 1
    Reports = {b1, b2}
    Diagrams = 2
    Keys = {"job-0", "job-chat", "other"}
    chat = chat
    other = other
    Builders = {run, chat, other}
    KeyOf <- MCKeyOf
    Keep = 1
    Procs = {"orchestrator", "gateway"}
    ProcOf <- MCProcOf
    Questions = {u1, u2}
    ChatBuilder = chat
    RunBuilders = {run}
    Gateway = "gateway"
    ChatTurns = 2
    Submitters = {s1, s2}
    Limit = 2
    Window = 2
    MaxCount = 4
CHECK_DEADLOCK FALSE
INVARIANTS
    ComponentTypesOK
    SlotsConserved
    NoIdleSlot
    LoopBounded
    StopCostsOneCall
    OwnDiagram
    WorkerReclaimed
    RetentionBounded
    WindowCapped
PROPERTIES
    GrantsInOrder
    OneRebuild
    GateServes
    LoopsEnd
    ReportsEnd
    QuestionsAnswered
    BlockedIsFreed
