\* A chain of three roles over ordered channels; the system ends when everybody has left.
SPECIFICATION Spec
CONSTANTS
    alice = alice
    bob = bob
    carol = carol
    anyHost = anyHost
    node1 = node1
    node2 = node2
    Server = server
    Clients = {alice, bob, carol}
    Roles = {0, 1, 2}
    Hosts = {node1, node2}
    Ports = {1, 2, 3, 9}
    AnyHost = anyHost
    HostOf <- MCHosts
    LocalEndpoint <- MCDistinctPorts
    ServerEndpoint <- MCServerEndpoint
    RoleOf <- MCChainRoles
    RoleGraph <- MCPath
    Ordered = TRUE
    Lossy = FALSE
    MayCrash = {}
    ServerMayStop = FALSE
CHECK_DEADLOCK FALSE
INVARIANT TypeOK
INVARIANT GraphComplete
INVARIANT NeighboursTold
INVARIANT OnlyNeighbours
INVARIANT NobodyFails
INVARIANT QuietAfterClose
PROPERTY ImplementsMembership
