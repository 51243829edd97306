\* Two threads that send, one that receives and one that releases and destroys; three
\* messages; a transport that may fail.
SPECIFICATION FairSpec
CONSTANTS
    int = int
    float = float
    Types = {int, float}
    CracenClose = cracenClose
    InputQueueSize <- MCQueueSizes
    Prefetch = 1
    Users = {u1, u2}
    Backlog = 0
    Capacity = 1
    FanOut = 1
    CloseBreaks = {TRUE, FALSE}
    SendsFail = TRUE
    MaxArrivals <- MCArrivals
CHECK_DEADLOCK FALSE
INVARIANT TypeOK
INVARIANT BacklogBounded
 
PROPERTY ReceiveReturns
PROPERTY ShutdownReturns
PROPERTY ImplementsChannels
