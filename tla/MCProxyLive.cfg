CONSTANTS
    s1 = s1
    s2 = s2
    Sessions <- TwoSessions
    UserPool = {"alice"}
    InitialUsers = {}
    Managed = FALSE
    Errnos = {"ECONNREFUSED"}
    Answers <- FallbackList
    GaiErrors = {"EAI_NONAME"}
    MaxSignals = 2
    AllocMayFail = FALSE
SPECIFICATION FairSpec
INVARIANTS
    NoneForgotten
PROPERTIES
    ResolutionEnds
    ForceStops
    GracefulStops
CHECK_DEADLOCK FALSE
