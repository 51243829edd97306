\* The destructor while the receiver waits for room.
SPECIFICATION Spec
CONSTANTS
    int = int
    float = float
    Types = {int, float}
    CracenClose = cracenClose
    InputQueueSize <- MCQueueSizes
    Prefetch = 2
    Users = {u1}
    Backlog = 1
    Capacity = 4
    FanOut = 1
    CloseBreaks = {TRUE, FALSE}
    SendsFail = FALSE
    MaxArrivals <- MCArrivals
CHECK_DEADLOCK FALSE
INVARIANT DestroySparesReceiver
