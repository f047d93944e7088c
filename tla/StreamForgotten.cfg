SPECIFICATION Spec
CONSTANTS
    Hid = Hid
    Other = Other
    NoKey = NoKey
    None = None
    Requests <- MCRequests
    DonorTexts <- MCDonorTexts
    DonorText <- MCDonorText
    DonorIntervals = {}
    Intervals = {0}
    ChunkSizes = {1}
    Lengths = {2}
    MaxFaults = 0
INVARIANTS
    ForgottenOnceEnded
