CONSTANTS
    s1 = s1
    s2 = s2
    Sessions <- OneSession
    UserPool = {"alice"}
    InitialUsers = {}
    Managed = FALSE
    Errnos = {"ECONNREFUSED"}
    Answers <- FallbackList
    GaiErrors = {"EAI_NONAME"}
    MaxSignals = 2
    AllocMayFail = FALSE
SPECIFICATION Spec
INVARIANT
    MethodFollowsUsers
CHECK_DEADLOCK FALSE
