\* One step that may be revisited and a gate; the engine crashes twice.
SPECIFICATION Spec
CONSTANTS
    NumSteps = 1
    Route <- SelfRoute
    Gates <- LastGate
    MaxAttempts = 2
    VisitCap = 2
    KeepContainers = FALSE
    NumSlots = 3
    MaxCrashes = 2
    MaxDecisions = 1
    Allowed = {"vanish", "presign", "launch", "status"}
INVARIANTS
    
    VerdictIsOwn
CHECK_DEADLOCK FALSE
