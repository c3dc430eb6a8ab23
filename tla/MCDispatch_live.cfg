\* One engine at a time; the first may crash, and live ones may miss heartbeats.
SPECIFICATION FairSpec
CONSTANTS
    p1 = p1
    p2 = p2
    Procs = {p1, p2}
    NoProc = NoProc
    MaxTasks = 2
    MaxRequests = 1
    NumSteps = 1
    GatedSteps <- FirstGated
    MaxLive = 1
    Allowed = {"crash", "stall"}
PROPERTIES
    ItemsDrain
    RunSettles
CHECK_DEADLOCK FALSE
