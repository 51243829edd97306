\* Channels that reorder and lose, clients that crash: handlers meet messages they do
\* not expect.
SPECIFICATION FairSpec
CONSTANTS
    alice = alice
    bob = bob
    carol = carol
    anyHost = anyHost
    node1 = node1
    node2 = node2
    Server = server
    Clients = {alice, bob}
    Roles = {0, 1, 2}
    Hosts = {node1, node2}
    Ports = {1, 2, 3, 9}
    AnyHost = anyHost
    HostOf <- MCHosts
    LocalEndpoint <- MCDistinctPorts
    ServerEndpoint <- MCServerEndpoint
    RoleOf <- MCFanRoles
    RoleGraph <- MCEdge
    Ordered = FALSE
    Lossy = TRUE
    MayCrash = {alice}
    ServerMayStop = TRUE
CHECK_DEADLOCK FALSE
INVARIANT Truthful
PROPERTY ConstructorReturns
PROPERTY StopReturns
PROPERTY NeighboursMeet
