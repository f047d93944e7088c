SPECIFICATION FairSpec
CONSTANTS
    None = None
    Sessions = {s1, s2}
    Configs = {hybrid}
    Bench = Bench
    Ports <- MCPorts
    MaxProcs = 3
    MaxKills = 1
INVARIANTS
    StopReachesExactly
PROPERTIES
    CallsEnd
CHECK_DEADLOCK FALSE
