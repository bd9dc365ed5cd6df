CONSTANTS ResetAttempts = 2 MaxFaults = 1 MaxStarts = 2 MaxOffs = 0 MaxTold = 3
SPECIFICATION Spec
CHECK_DEADLOCK FALSE
INVARIANT TrueMeansWired
