SPECIFICATION Spec
INVARIANTS OneRowPerDevice SavedWhenSaid
PROPERTIES DeviceMapSpec
CONSTANTS
    Device = {1, 2}
    Client = {c1}
    Pairer = {c1}
    Tick = {f1}
    Barrier = {f2}
    Shutdown = {f2}
    Cap = 4
    DirtyCap = 1
    MaxEdits = 2
    MaxCuts = 1
    MaxFails = 1
CHECK_DEADLOCK FALSE
