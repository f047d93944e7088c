SPECIFICATION FairSpec
CONSTANTS
    None = None
    Absent = Absent
    Corrupt = Corrupt
    Ports = {"server", "proxy"}
    ALL_CONFIGS <- MCAll
    PROTECTED <- MCProtected
    PROTECTED_V2 <- MCProtectedV2
    PROFILES <- MCProfiles
    NETWORKS <- MCNetworks
    Cells = 1
    Plans <- MCPlans
    MaxInvocations = 2
    MaxCrashes = 1
INVARIANTS
    MeasuredAsCalled
    NothingLeftRunning
    ManifestSound
PROPERTIES
    MainEnds
CHECK_DEADLOCK FALSE
