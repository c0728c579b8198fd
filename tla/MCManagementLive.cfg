SPECIFICATION FairSpec
CONSTANTS
    Admins = {a1, a2}
    Words = {"STATS", "ADDUSER", "DELUSER", "USERS", "ann", "bob", "b", "p", "q", "long"}
    TooLong = {"long"}
    ArgLists <- MCLiveArgLists
    Streams <- MCLiveStreams
    InitialUsers <- MCInitialUsers
    USERS_MAX = 2
    BUFFER_SIZE = 5
    NameSize = 2
    Fragment <- MCFragment
PROPERTY ClientEnds
