SPECIFICATION PlayerSpec
CONSTANTS
  Files <- McFiles
  MaxFiles = 2
  MaxMoves = 2
  MaxFails = 2
  MaxSignals = 2
  VideoFiles <- McVideoFiles
  MaxShows = 2
  Dpb = 3
  MaxBuffered = 3
  MaxSeeks = 1
  MaxFaults = 1
  Contents <- McContents
  Tracks <- McTracks
  MaxTime = 5
  SECOND = 2
  MaxFilms = 2
  MaxReads = 3
  MaxCommands = 2
  Reuse = FALSE
  Films <- McFilms
  Codecs <- McCodecs
  Aspects <- McAspects
  Sizings <- McSizings
  MaxFlushes = 1
  MaxDrops = 1
INVARIANTS TracksUsable ClosedInOrder NothingLeft TerminalRestored  ShownTrue 
PROPERTIES QuitEnds ScreenSteady
CHECK_DEADLOCK FALSE
