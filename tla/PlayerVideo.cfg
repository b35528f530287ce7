SPECIFICATION PlayerSpec
CONSTANTS
  Files <- McFiles
  MaxFiles = 1
  MaxMoves = 2
  MaxFails = 2
  MaxSignals = 2
  VideoFiles <- McVideoFiles
  MaxShows = 1
  Dpb = 3
  MaxBuffered = 3
  MaxSeeks = 1
  MaxFaults = 1
  Contents <- McContents
  Tracks <- McTracks
  MaxTime = 1
  SECOND = 2
  MaxFilms = 1
  MaxReads = 3
  MaxCommands = 1
  Reuse = FALSE
  Films <- McFilms
  Codecs <- McCodecs
  Aspects <- McAspects
  Sizings <- McSizings
  MaxFlushes = 1
  MaxDrops = 1
CHECK_DEADLOCK FALSE
INVARIANT FailedVideoStays
