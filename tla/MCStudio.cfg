SPECIFICATION StudioSpec
CONSTANTS
    Bits = {}
    Writers = {}
    ProgramImage = TRUE
    DeviceHangs = TRUE
    MaxMisses = 1
    MaxWire = 2
    MaxChunk = 2
    Dev = {"a", "b"}
    Buttons = {}
    MaxEdits = 3
    MaxTheirs = 0
    MaxFails = 0
    MaxOpens = 0
INVARIANTS
    FaultNotStale
    EditsAreKnown
PROPERTIES
    CallsSettle
    EditsReachDisk
