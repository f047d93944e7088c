SPECIFICATION Spec
CONSTANTS
    Hid = Hid
    Other = Other
    NoKey = NoKey
    None = None
    Requests <- MCRequests
    DonorTexts <- MCDonorTexts
    DonorText <- MCDonorText
    DonorIntervals = {0, 1}
    Intervals = {0, 2}
    ChunkSizes = {1}
    Lengths = {4}
    MaxFaults = 2
INVARIANTS
    Inv
    VerifiedMeansComplete
    ExposureBounded
    CoveredIsGenuine
    AcceptedPrefix
PROPERTIES
    KeepsThePromise
