\* A run of two steps and a session of two turns, three containers, two mishaps.
SPECIFICATION Spec
CONSTANTS
    NumItems = 2
    MaxAttempts = 2
    MaxBoxes = 3
    MaxMishaps = 2
INVARIANTS
    TypeOK
    
    
    
PROPERTIES
    WorkKept
    
CHECK_DEADLOCK FALSE
