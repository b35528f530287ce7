SPECIFICATION FairSpec
CONSTANTS
    SectorSize = 1
    BufferSize = 4
    FillLimit = 1
    SeekOption = 2
    MinOption = 5
    ReadChunk = 0
    FileLen = 4
    Seekable = TRUE
    SeekTargets = {0,3}
    SeekCmds = {"SEEK_TO_CHAPTER"}
    GetCmds = {"GET_ANGLE"}
    MaxMoves = 2
    MaxFailures = 1
PROPERTY CallsReturn
