SPECIFICATION Spec
CONSTANTS
    Dev = {"a"}
    Buttons = {}
    MaxEdits = 2
    MaxTheirs = 1
    MaxFails = 0
    MaxOpens = 0
INVARIANTS UnsavedIsKnown
