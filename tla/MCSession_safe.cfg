\* Two tabs, the idle reaper, dying and hanging containers, a stop and a crash.
SPECIFICATION Spec
CONSTANTS
    u1 = u1
    u2 = u2
    Users = {u1, u2}
    MaxRequests = 2
    MaxBoxes = 4
    MaxCrashes = 1
    MaxReaps = 1
    Mishaps = {"die", "stop"}
SYMMETRY Tabs
PROPERTIES
    ImplementsLifecycle
INVARIANTS
    TypeOK
    
    
CHECK_DEADLOCK FALSE
