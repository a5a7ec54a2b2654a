SPECIFICATION StudioLive
CONSTANTS
    Bits = {}
    Writers = {}
    ProgramImage = TRUE
    DeviceHangs = FALSE
    MaxMisses = 2
    MaxWire = 2
    MaxChunk = 2
    Dev = {}
    Buttons = {}
    MaxEdits = 0
    MaxTheirs = 0
    MaxFails = 0
    MaxOpens = 0
PROPERTIES
    DeviceIsSeen
