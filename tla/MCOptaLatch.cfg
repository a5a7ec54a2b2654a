SPECIFICATION Spec
CONSTANTS
    NTasks = 2
    Interval <- EventInterval
    Priority <- EventPriority
    HasSingle <- EventSingle
    Coils = {"q0"}
    Regs = {"m0"}
    Limit = 1
    MaxTime = 2
INVARIANTS
    InputsLatched
