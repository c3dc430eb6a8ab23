\* One engine at a time; the first may crash or be shut down, and is replaced.
SPECIFICATION Spec
CONSTANTS
    p1 = p1
    p2 = p2
    Procs = {p1, p2}
    NoProc = NoProc
    MaxTasks = 3
    MaxRequests = 2
    NumSteps = 2
    GatedSteps <- FirstGated
    MaxLive = 1
    Allowed = {"crash", "shutdown", "impatient", "double", "late", "forward"}
SYMMETRY SymmetricProcs
INVARIANTS
    TypeOK
    OneDriver
    NotStranded
PROPERTIES
    FinishedStays
    ImplementsLifecycle
CHECK_DEADLOCK FALSE
