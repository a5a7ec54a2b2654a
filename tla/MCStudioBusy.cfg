SPECIFICATION StudioSteps
CONSTANTS
    Bits = {b0, b1}
    Writers = {w1, w2}
    ProgramImage = FALSE
    DeviceHangs = TRUE
    MaxMisses = 1
    MaxWire = 2
    MaxChunk = 2
    Dev = {"a"}
    Buttons = {"keep", "reload", "grant"}
    MaxEdits = 2
    MaxTheirs = 2
    MaxFails = 1
    MaxOpens = 1
INVARIANTS
    CommandsOrderly
    AlwaysReadable
PROPERTIES
    UserIsAsked
SYMMETRY NameSymmetry
