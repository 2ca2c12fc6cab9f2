CONSTANTS
    Tcs <- FewTcs
    TcCapacity = 1
    TmCapacity = 1
    SeqLimit = 6
    FirstSeq = 4
    MaxTcs = 3
    MaxConns = 2
SPECIFICATION FairSpec
INVARIANTS TypeOK SessionLoop RepliesConserved VerificationOrder
PROPERTIES Drains
CHECK_DEADLOCK FALSE
