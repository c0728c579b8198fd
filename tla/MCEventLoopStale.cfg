SPECIFICATION Spec
CONSTANTS
    Sessions = {s1, s2, s3}
    NULL = NULL
    FD_SETSIZE = 8
    Limits = {7}
    MayStop = FALSE
INVARIANT SuccessMeansConnected
SYMMETRY Symmetry
