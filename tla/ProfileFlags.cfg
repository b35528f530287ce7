SPECIFICATION ProfileSpec
CONSTANTS
    Keys = {k1, k2, k3}
    NoKey = NoKey
    FifoSize = 4
    MaxKeyDown = 3
    PipeSize = 2
    MaxEvents = 4
    MaxPlugs = 3
    QueueSize = 2
    Kinds = {"quit", "step", "pause", "keep", "other"}
    MaxCommands = 3
    MaxQueued = 1
    CmdSize = 5
    BsMax = 4
    Letters = {"a", "k"}
    MaxText = 6
    MaxValue = 2
    MaxOps = 3
    MaxLevels = 3
    MaxDepth = 2
    MaxProfileDepth = 1
    MaxErrors = 2
    Unparsed = "refused"
    MaxLines = 3
INVARIANT ProfileApplies
