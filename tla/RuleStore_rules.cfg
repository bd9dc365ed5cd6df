SPECIFICATION FairSpec
INVARIANTS OneFlusherPerSlot ReturnsHonest
PROPERTIES RuleMapSpec EditsReachFlash
CONSTANTS
    Tick = tick
    Rule = {1, 2}
    Client = {c1, c2}
    Editor = {c1}
    Reader = {c2}
    Shutdown = {c2}
    DirtyCap = 1
    MaxCount = 2
    MaxEdits = 2
    MaxFails = 1
    MaxRestarts = 1
