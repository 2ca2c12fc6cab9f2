CONSTANTS
    HdrLen = 2
    TcHdr = 2
    TmHdr = 3
    MaxByte = 3
    Refused <- FewRefused
    Now = 300
    MaxStream = 6
    MaxChunk = 2
    RingCap = 1
    MaxRows = 2
    ReadSizes = {6, 100}
    MaxLosses = 1
SPECIFICATION RxSpec
INVARIANTS PacketsOfStream BytesAccounted FramesConserved RowsTrue
CHECK_DEADLOCK FALSE
