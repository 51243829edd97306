\* Two sockets, one of which may be closed.
SPECIFICATION FairSpec
CONSTANTS
    Sockets = {"a", "b"}
    MayClose = {"b"}
    PromiseQueueSize = 2
    Capacity = 1
    MaxConnections = 2
    MaxSends = 2
    MaxReceives = 2
CHECK_DEADLOCK FALSE
INVARIANT TypeOK
PROPERTY ImplementsTransport
INVARIANT InOrderUnlessPutBack
PROPERTY SendsSettle
PROPERTY ReceivesServed
