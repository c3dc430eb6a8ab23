\* One engine at a time, stopped gracefully at most once; reviewers decide one at a time and a stop is the user's last word.
SPECIFICATION Spec
CONSTANTS
    p1 = p1
    p2 = p2
    Procs = {p1, p2}
    NoProc = NoProc
    MaxTasks = 3
    MaxRequests = 3
    NumSteps = 2
    GatedSteps <- BothGated
    MaxLive = 1
    Allowed = {"shutdown"}
SYMMETRY SymmetricProcs
INVARIANTS
    DecisionFitsGate
    GatesHonoured
    StopNotLost
CHECK_DEADLOCK FALSE
