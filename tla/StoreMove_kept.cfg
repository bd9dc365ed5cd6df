SPECIFICATION Spec
PROPERTIES FinalIsKept
CONSTANTS
    MaxSaves = 3
    MaxCuts = 3
    MaxFaults = 2
    MaxWipes = 1
CHECK_DEADLOCK FALSE
