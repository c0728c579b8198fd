SPECIFICATION Spec
CONSTANTS
    MaxByte = 9
    BufferSize = 22
    UserTables <- Tables
    Greetings <- ShortGreetings
    Logins <- ShortLogins
    Requests <- ShortRequests
    Ahead <- LoginAhead
INVARIANT RoomLeft
PROPERTY OnlyUsersRequest
CHECK_DEADLOCK FALSE
