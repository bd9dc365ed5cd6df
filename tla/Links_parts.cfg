SPECIFICATION MCSpec
SYMMETRY Symmetry
INVARIANTS AckedWasDispatched DispatchedOnce SendsAreHonest NobodyStuck AnswersMatch NetworkSurvives
CONSTANTS
    c1 = c1
    c2 = c2
    c3 = c3
    WinSize = 2
    RingSize = 2
    MaxRetries = 1
    SeqMax = 4
    Task = {t1}
    Type = {"set"}
    MaxFrames = 2
    MaxDraws = 2
    MaxChan = 2
    MaxNest = 1
    MaxResets = 1
    MaxRestarts = 1
    MaxPeerRestarts = 1
CHECK_DEADLOCK FALSE
