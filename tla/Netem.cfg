SPECIFICATION FairSpec
CONSTANTS
    None = None
    Conns = {"c1", "c2"}
    Size <- MCSize
    TxTime = 1
    Delay = 1
    HighWater = 1
    Horizon = 0
    MaxFaults = 1
INVARIANTS
    BottleneckShared
    TransferFaithful
PROPERTIES
    ConnectionEnds
CHECK_DEADLOCK FALSE
