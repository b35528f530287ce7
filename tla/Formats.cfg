SPECIFICATION FormatsSpec
CONSTANTS
  MaxFourcc = 3
  MaxOutfmt = 3
  Numbers = {"5", "7"}
  Formats = {"YV12", "NV12"}
  Names = {"a1", "a2", "a3"}
  Release = "20220227"
  MaxStreams = 3
  Rooted = {"/b"}
  Backslash = {"y"}
  MaxText = 4
  FirstRoom = 2
  MoreRoom = 2
  Long = 6
  Short = 2
  MaxLine = 5
  Word = 65536
  Moves = {FALSE}
  Size = 4
  Spare = 2
  Loops = {2}
  Shuffles = TRUE
  Params = {1, 3}
  Sources = {2}
  Edits = {"append","load","list","bad"}
  Aliases = {}
  MaxMoves = 2
  MaxPlays = 4
INVARIANTS OptionsInEffect OptionsRestored LoopsAsTold ChannelsRight CodecsTrue SubtitlesTrue EntriesOpened DevicesOpened OptionsTrue PropertiesTrue
PROPERTY StepsEnd
