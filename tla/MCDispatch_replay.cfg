\* One engine at a time, crashing once, both steps gated.
SPECIFICATION Spec
CONSTANTS
    p1 = p1
    p2 = p2
    Procs = {p1, p2}
    NoProc = NoProc
    MaxTasks = 2
    MaxRequests = 1
    NumSteps = 2
    GatedSteps <- BothGated
    MaxLive = 1
    Allowed = {"crash"}
INVARIANT GatesHonoured
CHECK_DEADLOCK FALSE
