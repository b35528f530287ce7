\* An option set by its second name among the params of an entry.
SPECIFICATION Spec
CONSTANTS
    Size = 3
    Spare = 0
    Loops = {}
    Shuffles = FALSE
    Params = {1, 2}
    Aliases = {1}
    Sources = {}
    Edits = {}
    MaxMoves = 1
    MaxPlays = 3
INVARIANT OptionsRestored
