\* A client that sends to two others while they come and leave; the system ends
\* when everybody has left.
SPECIFICATION FairSpec
CONSTANTS
    alice = alice
    bob = bob
    carol = carol
    Clients = {alice, bob, carol}
    Roles = {0, 1}
    RoleOf <- MCRoles
    Links <- MCLinks
    Founders = {alice, bob}
    Sources = {alice}
    SendWith <- MCPolicies
    MaxCalls = 2
CHECK_DEADLOCK FALSE
INVARIANT TypeOK
INVARIANT DataToPeers
PROPERTY CallsReturn
PROPERTY LeavesUnlessBlocked
