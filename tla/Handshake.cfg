SPECIFICATION HarvestSpec
CONSTANTS
    None = None
    MaxRestarts = 2
INVARIANTS
    Inv
    PinnedNeverDeceived
    TamperingDetected
    ConfigsDoNotMix
    ClientsAgree
    TablesFollowKeySchedule
