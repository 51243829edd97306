---------------------------- MODULE CracenContext ----------------------------
(***************************************************************************)
(* A whole context: one server and its clients over the management         *)
(* network.  Every server handler interleaves with every handler of every  *)
(* client, with the constructor and stop() calls of the programs that own  *)
(* the clients, with messages that are lost and clients that crash, and,   *)
(* if ServerMayStop, with stop() of the server.                            *)
(***************************************************************************)
EXTENDS CracenServer, CracenClient

CONSTANTS ServerMayStop     \* whether the owner of the server may stop it

ASSUME ServerMayStopAssumption == ServerMayStop \in BOOLEAN

VARIABLE lost           \* the clients on whose channels a message has been lost

vars == <<networkVars, serverVars, clientVars, lost>>

Init == NetworkInit /\ ServerInit /\ ClientInit /\ lost = {}

ServerStep ==
    /\ \/ \E c \in Clients : ServerHandles(c)
       \/ ServerCloses
    /\ UNCHANGED <<clientVars, lost>>

ServerCalled == ServerMayStop /\ ServerStop /\ UNCHANGED <<clientVars, lost>>

ClientStep(c) ==
    (ClientHandles(c) \/ Joined(c)) /\ UNCHANGED <<serverVars, lost>>

UserCalls(c) == ClientCalled(c) /\ UNCHANGED <<serverVars, lost>>

Loses(c) ==
    /\ LosesMessage(c)
    /\ lost' = lost \cup {c}
    /\ UNCHANGED <<serverVars, clientVars>>

Crashes(c) == Crash(c) /\ UNCHANGED <<serverVars, lost>>

Next ==
    \/ ServerStep
    \/ ServerCalled
    \/ \E c \in Clients : ClientStep(c) \/ UserCalls(c) \/ Loses(c) \/ Crashes(c)

Spec == Init /\ [][Next]_vars

\* The server thread goes on receiving as long as messages arrive, and so does
\* the thread of each client; nothing obliges a program to call anything, a message
\* to be lost or a client to crash.
Fairness ==
    /\ WF_vars(ServerStep)
    /\ \A c \in Clients : WF_vars(ClientStep(c))

FairSpec == Spec /\ Fairness

-----------------------------------------------------------------------------
(* Vocabulary of the properties *)

\* Where client c is reached on the data network: its own host unless it has bound
\* to a particular one.
DataEndpoint(c) ==
    <<IF LocalEndpoint[c][1] = AnyHost THEN HostOf[c] ELSE LocalEndpoint[c][1],
      LocalEndpoint[c][2]>>

IsParticipant(c) ==
    \E key \in DOMAIN participants : participants[key].managerEndpoint = c

\* Client c has returned from its constructor, the server has handled its Embody.
Embodied(c) ==
    /\ pc[c] = "running"
    /\ \A i \in DOMAIN toServer[c] : toServer[c][i].type # "Embody"

Adjacent(r, s) ==
    \E i \in DOMAIN RoleGraph : RoleGraph[i] \in {<<r, s>>, <<s, r>>}

Neighbours(c, d) == Adjacent(RoleOf[c], RoleOf[d])

\* The edges between the roles of two clients.
LinksBetween(c, d) ==
    {i \in DOMAIN RoleGraph :
        RoleGraph[i] \in {<<RoleOf[c], RoleOf[d]>>, <<RoleOf[d], RoleOf[c]>>}}

\* The clients whose role is a neighbour of c's, and their endpoints by role.
Peers(c) == {d \in Clients : Neighbours(c, d)}
PeerEndpoints(c, r) == {DataEndpoint(d) : d \in {p \in Peers(c) : RoleOf[p] = r}}

\* The messages sender s may truthfully send to the server: about itself and the
\* role graph only.
MailToServer(s) ==
    IF s = Server THEN {ServerClose}
    ELSE {Register, RolesComplete,
          Embody(LocalEndpoint[s], RoleOf[s]), Disembody(LocalEndpoint[s])}
            \cup {AddRoleConnection(RoleGraph[k]) : k \in DOMAIN RoleGraph}

\* The messages the server may truthfully send to client c: about its peers and, when it
\* acknowledges, about c itself.
MailToClient(c) ==
    {RoleGraphRequest, RolesComplete}
        \cup {AddRoleConnection(RoleGraph[k]) : k \in DOMAIN RoleGraph}
        \cup {Embody(DataEndpoint(d), RoleOf[d]) : d \in Peers(c)}
        \cup {Announce(DataEndpoint(d), RoleOf[d]) : d \in Peers(c)}
        \cup {Disembody(DataEndpoint(d)) : d \in Peers(c)}
        \cup {Disembody(LocalEndpoint[c])}

\* The times client c has been told of the data endpoint of client d: as entries
\* of its role map and as messages on their way to it.
Entries(c, d) ==
    {k \in DOMAIN roleEndpointMap[c][RoleOf[d]] :
        roleEndpointMap[c][RoleOf[d]][k] = DataEndpoint(d)}
Arriving(c, d, types) ==
    {k \in DOMAIN toClient[c] :
        /\ toClient[c][k].type \in types
        /\ toClient[c][k].endpoint = DataEndpoint(d)}
Told(c, d) ==
    Cardinality(Entries(c, d)) + Cardinality(Arriving(c, d, {"Embody", "Announce"}))

-----------------------------------------------------------------------------
(* Safety *)

\* Every variable has its type.
TypeOK == NetworkTypeOK /\ ServerTypeOK /\ ClientTypeOK /\ lost \subseteq Clients

\* A client that is released from its constructor may rely on the role graph:
\* once the server is ContextInitialised it has every edge exactly once, in
\* spite of the edges and the end mark being separate messages.
GraphComplete ==
    state = "ContextInitialised" => roleGraphConnections = RoleGraph

\* Two clients of neighbouring roles whose Embody the server has handled have each
\* been told of the other once per edge between the two roles, whatever the order in
\* which their constructors ran: neither the Announce to the newer nor the Embody to
\* the older one is missing, and never do both reach the same client, before or after
\* (it would send that peer everything twice).
NeighboursTold ==
    \A c, d \in Clients :
        LET links == Cardinality(LinksBetween(c, d)) IN
        c # d => /\ Told(c, d) <= links
                 /\ (Embodied(c) /\ Embodied(d)) => Told(c, d) = links

\* Data is never sent to a host, a port or a role it is not meant for: what a
\* client has in its list for a role is the resolved data endpoint of a client
\* with that role, and the role is a neighbour of its own.
OnlyNeighbours ==
    \A c \in Clients : \A r \in Roles : \A k \in DOMAIN roleEndpointMap[c][r] :
        roleEndpointMap[c][r][k] \in PeerEndpoints(c, r)

\* Nothing false is said or recorded about anybody: every message in a channel,
\* every edge and every participant of the server, every entry of a client is true,
\* so that OnlyNeighbours cannot be lost in whatever order messages are handled.
Truthful ==
    /\ \A s \in Senders : toServer[s] \in Seq(MailToServer(s))
    /\ \A c \in Clients : toClient[c] \in Seq(MailToClient(c))
    /\ \A i \in DOMAIN roleGraphConnections :
            \E k \in DOMAIN RoleGraph : roleGraphConnections[i] = RoleGraph[k]
    /\ \A key \in DOMAIN participants :
            LET owner == participants[key].managerEndpoint IN
            /\ participants[key].dataEndpoint = DataEndpoint(owner)
            /\ participants[key].roleId = RoleOf[owner]
    /\ \A c \in Clients : \A r \in Roles :
            roleEndpointMap[c][r] \in Seq(PeerEndpoints(c, r))

\* No thread dies of an exception: participants.at finds every endpoint that is
\* disembodied and no thread receives a message its visitor has no functor for.
NobodyFails ==
    /\ server # "failed"
    /\ \A c \in Clients : pc[c] # "terminated"

\* When stop() has closed a client's communicators, nothing is on its way to it:
\* the server has taken it out of the map before it acknowledged, so that the
\* server never sends to an endpoint that does not exist any more.
QuietAfterClose ==
    \A c \in Clients : pc[c] = "closed" => toClient[c] = <<>> /\ ~IsParticipant(c)

\* "Someone else disembodied. Remove his endpoint from role list.": a client that
\* has left and is not on its way to being removed is in nobody's list.
DepartedForgotten ==
    \A c, d \in Clients :
        (c # d /\ pc[d] = "closed" /\ Arriving(c, d, {"Disembody"}) = {})
            => Entries(c, d) = {}

-----------------------------------------------------------------------------
(* Refinement *)

\* Where client c is in the life that Membership knows.
Status(c) ==
    CASE pc[c] = "new" -> "outside"
      [] pc[c] = "context" -> "entering"
      [] pc[c] = "running" -> "member"
      [] pc[c] = "joining" -> IF running[c] THEN "leaving" ELSE "dismissed"
      [] pc[c] = "closed" -> "left"
      [] OTHER -> "dead"

\* The client that is reached at an endpoint (the endpoints of a run are distinct).
OwnerOf(endpoint) == CHOOSE c \in Clients : DataEndpoint(c) = endpoint

\* The messages of the server and the handlers of the clients keep what a context
\* promises its programs: nobody is listed before it has joined, under a role that is
\* not its own, too often, or by somebody who is not its neighbour, and no member is
\* forgotten.
M == INSTANCE Membership WITH
        status <- [c \in Clients |-> Status(c)],
        knows <- [c \in Clients |-> [r \in Roles |->
                    [k \in DOMAIN roleEndpointMap[c][r] |-> OwnerOf(roleEndpointMap[c][r][k])]]],
        Links <- [c \in Clients |-> [d \in Clients |-> Cardinality(LinksBetween(c, d))]]
ImplementsMembership == M!MembershipSpec

-----------------------------------------------------------------------------
(* Liveness *)

\* Somebody on whom the others may depend is gone: the server is stopped, or a thread
\* has met a message it did not expect (never with ordered channels, see NobodyFails).
SomebodyGone == server # "receiving" \/ ~NobodyFails

\* Client c has crashed or has lost a message.
Faulted(c) == c \in lost \/ pc[c] = "crashed"

\* The client whose role graph the server has asked for is faulty: there is no
\* timeout and no second request.
SupplierFaulted == registerQueue # <<>> /\ Faulted(registerQueue[1])

\* A constructor that has registered returns, although only the first client
\* supplies the graph and all others wait for it, unless the server is stopped.
\* Of the faults of others only one can keep it: the supplier's, as long as the
\* graph is not complete.
ConstructorReturns ==
    \A c \in Clients :
        pc[c] = "context" ~>
            (\/ pc[c] = "running"
             \/ SomebodyGone
             \/ Faulted(c)
             \/ state = "ContextInizialising" /\ SupplierFaulted)

\* A call of stop() returns, unless the server is stopped under it; no fault of
\* another client keeps it.
StopReturns ==
    \A c \in Clients :
        pc[c] = "joining" ~> (pc[c] = "closed" \/ SomebodyGone \/ Faulted(c))

\* Two clients of neighbouring roles get to know each other, unless one of them
\* leaves or is faulty, an edge of the graph is lost or the server is stopped.
NeighboursMeet ==
    \A c \in Clients : \A d \in Clients \ {c} :
        (Neighbours(c, d) /\ pc[c] = "running" /\ pc[d] = "running")
            ~> (\/ Entries(c, d) # {}
                \/ pc[c] # "running" \/ pc[d] # "running"
                \/ Faulted(c) \/ Faulted(d) \/ SupplierFaulted
                \/ SomebodyGone)

=============================================================================
