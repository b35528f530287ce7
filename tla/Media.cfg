SPECIFICATION MediaSpec
CONSTANTS
  Parts = {"demux","playback","filters"}
  Inputs <- McInputs
  Devices <- McDevices
  Lists <- McLists
  Commands <- McCommands
  CmdLines <- McCmdLines
  Forces = {1, 2, 3}
  Speeds = {1, 2, 4}
  MinRate = 2
  MaxRate = 4
  MaxChain = 4
  Files <- McFiles
  FrameLen = 2
  MaxBurst = 4
  Extra = 2
  Chunk = 2
  MaxHeld = 1
  DevSize = 4
  Outburst = 2
  MaxMoves = 1
  MaxPauses = 1
  MaxFaults = 1
  Kinds = {"a1", "v", "bad", "s"}
  MaxFile = 4
  FillLimit = 0
  MaxPacks = 2
INVARIANTS PacketsTrue SamplesTrue ChainTrue
PROPERTIES EndReached PlaybackEnds
