\* Build and review with a gate on the approval, one decision, one crash, a stop.
SPECIFICATION FairSpec
CONSTANTS
    NumSteps = 2
    Route <- ReviewRoute
    Gates <- LastGate
    MaxAttempts = 1
    VisitCap = 2
    KeepContainers = FALSE
    NumSlots = 3
    MaxCrashes = 1
    MaxDecisions = 1
    Allowed = {}
INVARIANTS
    TypeOK
PROPERTIES
    DispatchEnds
    
    ImplementsLifecycle
CHECK_DEADLOCK FALSE
