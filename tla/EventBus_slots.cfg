SPECIFICATION FairSpec
INVARIANTS QueuesOutliveUsers HandlesName
PROPERTIES ChannelSpec QueuesTurnOver
CONSTANTS
    MaxSubs = 2
    Depth = 1
    GenMod = 8
    Publisher = {p1}
    Drainer = {d1, pump}
    Pump = pump
    Filtering = {2}
    MaxCreated = 2
    MaxEvents = 2
