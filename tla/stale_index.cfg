SPECIFICATION ChatSpec
CONSTANTS
    Keys = {"job-0", "job-chat"}
    chat = chat
    other = other
    Builders = {run, retry, chat}
    KeyOf <- MCKeyOf
    Keep = 2
    Procs = {"orchestrator", "gateway"}
    ProcOf <- MCProcOf
    Questions = {u1}
    ChatBuilder = chat
    RunBuilders = {run, retry}
    Gateway = "gateway"
    ChatTurns = 1
CHECK_DEADLOCK FALSE
PROPERTY RegisteredIsFresh
