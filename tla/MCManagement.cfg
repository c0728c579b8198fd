SPECIFICATION Spec
CONSTANTS
    Admins = {a1, a2}
    Words = {"STATS", "ADDUSER", "DELUSER", "USERS", "ann", "bob", "b", "p", "q", "long"}
    TooLong = {"long"}
    ArgLists <- MCArgLists
    Streams <- MCStreams
    InitialUsers <- MCInitialUsers
    USERS_MAX = 2
    BUFFER_SIZE = 5
    NameSize = 2
    Fragment <- MCFragment
SYMMETRY MCSymmetry
INVARIANTS TypeOK NamesDistinct AnsweredAsAsked CommandMovesOn
PROPERTY ImplementsDirectory
