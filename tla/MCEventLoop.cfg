SPECIFICATION FairSpec
CONSTANTS
    Sessions = {s1, s2}
    NULL = NULL
    FD_SETSIZE = 4
    Limits = {3, 5}
    MayStop = TRUE
INVARIANTS TypeOK TableExact TableMirrorsDescriptors SuccessHasTarget
PROPERTIES OutcomeIsNoticed NobodyWaitsForever
