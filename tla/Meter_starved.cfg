CONSTANTS
    Device = {m1, m2, m3}
    Metered = {m1, m2, m3}
    AtBoot = {m1, m2, m3}
    MaxPerTick = 1
    Interval = 2
    PingInterval = 0
    PingMax = 0
    MaxChanges = 0
SPECIFICATION Spec
CHECK_DEADLOCK FALSE
INVARIANT IntervalStretches
