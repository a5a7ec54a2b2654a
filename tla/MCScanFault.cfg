SPECIFICATION Spec
CONSTANTS
    NTasks = 3
    Interval <- PlantInterval
    Priority <- PlantPriority
    HasSingle <- PlantSingle
    OutValues = {0, 1}
    NRegions = 2
    RetainValues = {0, 1}
    RetainInit = 1
    Signatures = {v1, v2}
    MaxTime = 1
PROPERTIES
    ImplementsSafePlc
    FaultedUntilStart
    StepInOrder
    RestoredIsLastSave
