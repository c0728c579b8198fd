CONSTANTS
    s1 = s1
    s2 = s2
    Sessions <- TwoSessions
    UserPool = {"alice"}
    InitialUsers = {"alice"}
    Managed = TRUE
    Errnos = {"ECONNREFUSED"}
    Answers <- Lists
    GaiErrors = {"EAI_NONAME"}
    MaxSignals = 2
    AllocMayFail = TRUE
SYMMETRY Interchangeable
SPECIFICATION Spec
INVARIANTS
    TypeOK
    CountersExact
    OneOutcome
    DescriptorsExact
    InterestFollowsStage
    JobSafe
    NotesFresh
   
    GracefulDropsNobody
    EnqueuesInLiveSelector
PROPERTIES
    ImplementsService
CHECK_DEADLOCK FALSE
