CONSTANTS
    s1 = s1  s2 = s2  v1 = v1  c1 = c1  a1 = a1
    Empty = Empty  Default = Default  NoKey = NoKey  NoDevice = NoDevice
    Device <- Devices  Val <- Values  Cfg <- Settings  Task <- Tasks
    MaxWork = 4
SPECIFICATION MCSpec
SYMMETRY Symmetry
CHECK_DEADLOCK FALSE
INVARIANTS FlashFollows TimersServe
PROPERTIES FlushNowComplete
