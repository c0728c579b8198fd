SPECIFICATION Spec
CONSTANTS
    MaxByte = 9
    BufferSize = 22
    UserTables <- Tables
    Greetings <- GreetingSet
    Logins <- LoginSet
    Requests <- RequestSet
    Ahead <- NothingAhead
INVARIANTS JudgedAsSent NeverWaitsInVain
PROPERTY EveryMessageAnswered
CHECK_DEADLOCK FALSE
