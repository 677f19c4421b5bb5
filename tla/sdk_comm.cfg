SPECIFICATION Spec
CONSTANTS
    NSlots = 2
    FullSize <- SizesOfThree
    Requests <- TwoGetsAndASet
    Ports = {0, 1}
    RefImu = 3
    Asked = {0, 1}
    Multiples = {0, 5, 20}
    StepPeriod = 10
    Rooms = {2, 3}
    MaxEnsured = 2
    RetryCount = 2
    Dispatched = {"data"}
    Size = 12
    Chunks = {1, 4, 12}
    BufSize = 4
    Lengths = {1, 2, 3, 5}
    MaxBytes = 10
INVARIANTS TableSound ListSound RingKept BytesKept
PROPERTIES SubscriptionsKept RetryKept Served
CHECK_DEADLOCK FALSE
