\* One run of each workflow, dying containers, a reloaded page, lost answers.
SPECIFICATION Spec
CONSTANTS
    Workflows <- MCWorkflows
    MaxVisits = 2
    MaxAttempts = 2
    GuardMax = 40
    Replay = 3
    MaxMishaps = 2
INVARIANTS
    TypeOK
    DecisionForGate
    VerdictIsOwn
    
PROPERTIES
    RunEnds
CHECK_DEADLOCK FALSE
