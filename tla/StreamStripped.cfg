SPECIFICATION Spec
CONSTANTS
    Hid = Hid
    Other = Other
    NoKey = NoKey
    None = None
    Requests <- MCRequests
    DonorTexts <- MCDonorTexts
    DonorText <- MCDonorText
    DonorIntervals = {}
    Intervals = {0, 2}
    ChunkSizes = {1}
    Lengths = {3}
    MaxFaults = 1
INVARIANTS
    VerifiedPassedEveryCheck
