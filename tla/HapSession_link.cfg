SPECIFICATION FairSpec
CONSTANTS
    WinSize = 2
    RingSize = 3
    MaxRetries = 1
    SeqMax = 4
    Task = {t1}
    Type = {"set"}
    MaxFrames = 2
    MaxDraws = 3
    MaxChan = 2
    MaxNest = 1
    MaxResets = 0
    MaxRestarts = 0
    MaxPeerRestarts = 0
INVARIANTS NoTornFrame
PROPERTIES LinkSpec WindowDrains
