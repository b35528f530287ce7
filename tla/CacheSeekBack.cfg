SPECIFICATION Spec
CONSTANTS
    SectorSize = 2
    BufferSize = 8
    FillLimit = 2
    SeekOption = 4
    MinOption = 3
    ReadChunk = 0
    FileLen = 13
    Seekable = TRUE
    SeekTargets = {0, 4}
    SeekCmds = {}
    GetCmds = {}
    MaxMoves = 2
    MaxFailures = 0
INVARIANT SectorFaithful
