CONSTANTS
    HdrLen = 2
    TcHdr = 2
    TmHdr = 3
    MaxByte = 2
    Refused = {}
    Now = 0
    MaxStream = 8
    MaxChunk = 3
SPECIFICATION Spec
INVARIANT SessionIntact
CHECK_DEADLOCK FALSE
