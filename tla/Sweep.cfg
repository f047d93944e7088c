SPECIFICATION FairSpec
CONSTANTS
    None = None
    Cached = Cached
    Calls <- MCCalls
    Keys <- MCCalls
    Hids <- MCHids
    Modes <- MCModes
    Workers = {w1, w2}
    n_requests = 3
    SessionLengths = {1, 2, 3}
    CachedLengths = {2}
INVARIANTS
    SessionsInStep
    NeverRefused
    NothingLeaks
    EachRequestRecorded
PROPERTIES
    CellCompletes
