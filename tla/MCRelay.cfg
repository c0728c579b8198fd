CONSTANTS
    BufferSize = 2
    MaxSent = 4
SPECIFICATION FairSpec
INVARIANTS
    TypeOK
    Conservation
    InterestExact
    NeverWedged
    EofDrained
PROPERTIES
    PendingIsFlushed
    EofEndsSession
    ImplementsPipe
CHECK_DEADLOCK FALSE
