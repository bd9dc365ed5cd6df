CONSTANTS
    d1 = d1  d2 = d2  Device <- MCDevice  Nobody = Nobody  Supported <- MCDevice
    JoinDepth = 2  UpdateDepth = 1  ConfigDepth = 1  RetryPool = 1
    InterviewAttempts = 2  ConfigAttempts = 2
    MaxAddress = 2  MaxAnnounces = 2  MaxUpdates = 1  MaxUpsets = 1
SPECIFICATION Spec
SYMMETRY Symmetric
CHECK_DEADLOCK FALSE
INVARIANTS NothingDropped AddressFresh
