SPECIFICATION PageSpec
CONSTANTS
    Hid = Hid
    Other = Other
    NoKey = NoKey
    None = None
    MaxChunks = 4
    Intervals = {0, 1, 2}
INVARIANTS
    AgreesWithReplay
    PageIsTrue
