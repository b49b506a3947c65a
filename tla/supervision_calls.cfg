SPECIFICATION Spec
CONSTANTS
    leader = leader
    a = a
    b = b
    Procs <- ThreeProcs
    Leader = leader
    Limit = 2
    MaxBytes = 3
    PipeCapacity = 2
    CallbackRaises = TRUE
    MaxInterrupts = 1
CHECK_DEADLOCK FALSE
INVARIANTS GroupIsEnded ReportIsTrue RetentionExact
PROPERTIES CallEnds
