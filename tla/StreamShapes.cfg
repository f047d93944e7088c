SPECIFICATION HarvestFairSpec
CONSTANTS
    Hid = Hid
    Other = Other
    NoKey = NoKey
    None = None
    Requests <- MCRequests
    DonorTexts <- MCDonorTexts
    DonorText <- MCDonorText
    DonorIntervals = {0}
    Intervals = {0, 1, 2, 3}
    ChunkSizes = {0, 1, 2, 3}
    Lengths = {0, 1, 6}
    MaxFaults = 1
INVARIANTS
    ChunksCarryTheText
    NoFalseRejection
    CaptureAsPredicted
PROPERTIES
    TransactionEnds
