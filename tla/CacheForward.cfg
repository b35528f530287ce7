SPECIFICATION ForwardSpec
CONSTANTS
    SectorSize = 2
    BufferSize = 8
    FillLimit = 2
    SeekOption = 4
    MinOption = 3
    ReadChunk = 0
    FileLen = 9
    Seekable = TRUE
    SeekTargets = {0, 5, 9}
    SeekCmds = {"SEEK_TO_CHAPTER"}
    GetCmds = {"GET_ANGLE"}
    MaxMoves = 2
    MaxFailures = 1
    StreamMin = 2
    PlainLen = 9
    Targets = {1, 3, 6, 9}
    Newlines = {2, 7}
    MaxCalls = 3
    MaxFaults = 2
INVARIANTS SectorFaithful NoDataRace WindowHoldsFile PositionsAgree StreamTrue
PROPERTIES StreamRefinement AllDelivered
