CONSTANTS
    None = None
    Histories <- MCHistories
    Arguments <- MCArguments
    MaxInvocations = 2
    EnoughReps = 2
    Intervals <- MCIntervals
    ByteMaps <- MCByteMaps
SPECIFICATION Spec
INVARIANTS
    ProvenanceTold
    NumbersCoverOutputs
    MissingNoted
    UndominatedRemain
    RunsShown
CHECK_DEADLOCK FALSE
