SPECIFICATION Spec
CONSTANTS
    Bits = {}
    Writers = {}
    ProgramImage = TRUE
    DeviceHangs = FALSE
    MaxMisses = 2
    MaxWire = 4
    MaxChunk = 2
INVARIANTS
    StopConfirmed
