SPECIFICATION TrialSpec
CONSTANTS
    Hid = Hid
    Other = Other
    NoKey = NoKey
    None = None
    Cells <- MCCells
    Intervals = {0, 2, 3, 6}
    PoolLengths = {1, 2, 4, 5}
    Trials = 2
INVARIANTS
    DetectedAsReported
    ExposureAsReported
PROPERTIES
    CellEnds
