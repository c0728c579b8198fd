CONSTANTS
    s1 = s1
    s2 = s2
    Sessions <- OneSession
    UserPool = {"alice"}
    InitialUsers = {}
    Managed = FALSE
    Errnos = {"ECONNREFUSED"}
    Answers <- FallbackList
    GaiErrors = {"EAI_NONAME"}
    MaxSignals = 1
    AllocMayFail = FALSE
SPECIFICATION Spec
INVARIANT
    ReportsToLiveSelector
CHECK_DEADLOCK FALSE
