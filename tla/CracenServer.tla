---------------------------- MODULE CracenServer ----------------------------
(***************************************************************************)
(* The server of a context (CracenServer.hpp): it collects the role graph  *)
(* from the first client that registers, releases the clients that wait    *)
(* for it, keeps the map of participants and tells the participants of     *)
(* neighbouring roles who joins and who leaves.                            *)
(*                                                                         *)
(* One action per message handler of serverFunction, which one thread runs *)
(* to the end before it receives again; the sends of a handler go into     *)
(* channels only their receivers read, so the handler is one step.         *)
(***************************************************************************)
EXTENDS Communicator

CONSTANTS HostOf    \* HostOf[c]: the host the server sees client c's messages come from

ASSUME HostAssumption == HostOf \in [Clients -> Hosts]

VARIABLES
    state,                  \* of the context
    roleGraphConnections,   \* the edges in the order they were inserted
    participants,           \* endpoint as its owner names it -> Participant
    registerQueue,          \* clients that wait for the role graph
    server                  \* the server thread: receiving, stopped or failed

serverVars == <<state, roleGraphConnections, participants, registerQueue, server>>

States == {"ContextUninitialised", "ContextInizialising", "ContextInitialised"}

Participants ==
    [dataEndpoint : Endpoints, managerEndpoint : Clients, roleId : Roles]

ServerTypeOK ==
    /\ state \in States
    /\ roleGraphConnections \in Seq(Edges)
    /\ DOMAIN participants \subseteq Endpoints
    /\ IsFiniteSet(DOMAIN participants)
    /\ \A key \in DOMAIN participants : participants[key] \in Participants
    /\ registerQueue \in Seq(Clients)
    /\ server \in {"receiving", "stopped", "failed"}

ServerInit ==
    /\ state = "ContextUninitialised"
    /\ roleGraphConnections = <<>>
    /\ participants = [key \in {} |-> {}]
    /\ registerQueue = <<>>
    /\ server = "receiving"

-----------------------------------------------------------------------------
(* Helpers of the handlers *)

\* A client bound to every interface is reached at the host it sends from.
normalize(endpoint, from) ==
    IF endpoint[1] = AnyHost THEN <<HostOf[from], endpoint[2]>> ELSE endpoint

\* Mutants: only one of the two views is searched; the participant's role is not
\* looked at.
VisitsLeftOnly(role) ==
    {visit \in {1} \X (DOMAIN roleGraphConnections) \X (DOMAIN participants) :
        LET edge == roleGraphConnections[visit[2]] IN
        edge[1] = role /\ participants[visit[3]].roleId = edge[2]}
VisitsRightOnly(role) ==
    {visit \in {2} \X (DOMAIN roleGraphConnections) \X (DOMAIN participants) :
        LET edge == roleGraphConnections[visit[2]] IN
        edge[2] = role /\ participants[visit[3]].roleId = edge[1]}
VisitsAnyRole(role) ==
    {visit \in {1, 2} \X (DOMAIN roleGraphConnections) \X (DOMAIN participants) :
        roleGraphConnections[visit[2]][visit[1]] = role}

\* The calls executeOnNeighbor(role, callable) makes, as triples <<side, i, key>>:
\* edge i has role on the given side (1 for the left view, 2 for the right one)
\* and the participant with that key has the role on the edge's other side.
Visits(role) ==
    {visit \in {1, 2} \X (DOMAIN roleGraphConnections) \X (DOMAIN participants) :
        LET edge == roleGraphConnections[visit[2]] IN
        /\ edge[visit[1]] = role
        /\ participants[visit[3]].roleId = edge[3 - visit[1]]}

\* The order of the calls: the left view before the right one, the order within
\* a view and among the participants of a role being the containers' own.
CallOrders(role) ==
    {calls \in SetToSeqs(Visits(role)) :
        \A i, j \in DOMAIN calls : i < j => calls[i][1] <= calls[j][1]}

\* One copy of message m for each visit whose participant is managed by client c.
CopiesFor(c, role, m) ==
    LET visits == {visit \in Visits(role) : participants[visit[3]].managerEndpoint = c}
    IN  [i \in 1 .. Cardinality(visits) |-> m]

\* Mutant: the manager endpoint is announced.
AnnouncementsOfManagers(calls) ==
    [i \in DOMAIN calls |->
        LET participant == participants[calls[i][3]]
        IN  Announce(participant.managerEndpoint, participant.roleId)]

\* The Announce of each visited participant.
Announcements(calls) ==
    [i \in DOMAIN calls |->
        LET participant == participants[calls[i][3]]
        IN  Announce(participant.dataEndpoint, participant.roleId)]

\* What happens in a receive: message i of client c has arrived and is of type t.
ServerReceives(c, i, t) ==
    /\ server = "receiving"
    /\ i \in Arrived(toServer[c])
    /\ toServer[c][i].type = t

-----------------------------------------------------------------------------
(* The handlers *)

\* Register, state ContextUninitialised: the first client supplies the graph.
OnFirstRegister(c, i) ==
    /\ ServerReceives(c, i, "Register")
    /\ state = "ContextUninitialised"
    /\ state' = "ContextInizialising"
    /\ registerQueue' = Append(registerQueue, c)
    /\ ReceiveAndReply(c, i, <<RoleGraphRequest>>)
    /\ UNCHANGED <<roleGraphConnections, participants, server>>

\* Register, state ContextInizialising: wait for the graph.
OnQueuedRegister(c, i) ==
    /\ ServerReceives(c, i, "Register")
    /\ state = "ContextInizialising"
    /\ registerQueue' = Append(registerQueue, c)
    /\ ReceiveAndReply(c, i, <<>>)
    /\ UNCHANGED <<state, roleGraphConnections, participants, server>>

\* Register, state ContextInitialised: the graph is known already.
OnLateRegister(c, i) ==
    /\ ServerReceives(c, i, "Register")
    /\ state = "ContextInitialised"
    /\ ReceiveAndReply(c, i, <<RolesComplete>>)
    /\ UNCHANGED serverVars

\* AddRoleConnection: insert the edge, the same message is the acknowledgement.
OnAddRoleConnection(c, i) ==
    /\ ServerReceives(c, i, "AddRoleConnection")
    /\ LET m == toServer[c][i] IN
        /\ roleGraphConnections' = Append(roleGraphConnections, m.edge)
        /\ ReceiveAndReply(c, i, <<m>>)
    /\ UNCHANGED <<state, participants, registerQueue, server>>

\* Mutant: only the client that has supplied the graph is released.
ReleasesFirst(c) ==
    IF registerQueue # <<>> /\ registerQueue[1] = c THEN <<RolesComplete>> ELSE <<>>

\* What RolesComplete sends to client c: one message for each time it is queued.
Releases(c) ==
    LET queued == {k \in DOMAIN registerQueue : registerQueue[k] = c}
    IN  [k \in 1 .. Cardinality(queued) |-> RolesComplete]

\* RolesComplete: the graph is complete, release every client in registerQueue.
OnRolesComplete(c, i) ==
    /\ ServerReceives(c, i, "RolesComplete")
    /\ state' = "ContextInitialised"
    /\ ReceiveAtServer(c, i)
    /\ toClient' = [d \in Clients |-> toClient[d] \o Releases(d)]
    /\ UNCHANGED <<roleGraphConnections, participants, registerQueue, server>>

\* Mutant: the map is keyed by the resolved endpoint.
SetResolvedParticipant(key, participant) ==
    [k \in DOMAIN participants \cup {participant.dataEndpoint} |->
        IF k = participant.dataEndpoint THEN participant ELSE participants[k]]

\* participants[key] = participant
SetParticipant(key, participant) ==
    [k \in DOMAIN participants \cup {key} |->
        IF k = key THEN participant ELSE participants[k]]

\* Embody: tell the new participant its neighbours, tell the neighbours the new
\* participant, then enter it under the endpoint its owner knows it by.
OnEmbody(c, i) ==
    /\ ServerReceives(c, i, "Embody")
    /\ LET m == toServer[c][i]
           participant == [dataEndpoint |-> normalize(m.endpoint, c),
                           managerEndpoint |-> c, roleId |-> m.roleId]
           embody == Embody(participant.dataEndpoint, participant.roleId)
           announcedTo(d, calls) == IF d = c THEN Announcements(calls) ELSE <<>>
       IN  /\ \E calls \in CallOrders(m.roleId) :
                toClient' = [d \in Clients |->
                    toClient[d] \o announcedTo(d, calls)
                                \o CopiesFor(d, m.roleId, embody)]
           /\ participants' = SetParticipant(m.endpoint, participant)
    /\ ReceiveAtServer(c, i)
    /\ UNCHANGED <<state, roleGraphConnections, registerQueue, server>>

\* Mutant: the participant stays in the map.
EraseNothing(key) == participants

\* participants.erase(key)
EraseParticipant(key) == [k \in DOMAIN participants \ {key} |-> participants[k]]

\* Disembody of a participant: acknowledge to the sender, tell the neighbours
\* (the participant itself if its role is its own neighbour), then forget it.
OnDisembody(c, i) ==
    /\ ServerReceives(c, i, "Disembody")
    /\ LET m == toServer[c][i]
           ackTo(d) == IF d = c THEN <<m>> ELSE <<>>
       IN  /\ m.endpoint \in DOMAIN participants
           /\ LET participant == participants[m.endpoint] IN
                toClient' = [d \in Clients |->
                    toClient[d] \o ackTo(d)
                                \o CopiesFor(d, participant.roleId,
                                             Disembody(participant.dataEndpoint))]
           /\ participants' = EraseParticipant(m.endpoint)
    /\ ReceiveAtServer(c, i)
    /\ UNCHANGED <<state, roleGraphConnections, registerQueue, server>>

\* Disembody of an endpoint that is not in the map: the acknowledgement is sent,
\* then participants.at throws and the server thread leaves its loop.
OnDisembodyUnknown(c, i) ==
    /\ ServerReceives(c, i, "Disembody")
    /\ toServer[c][i].endpoint \notin DOMAIN participants
    /\ ReceiveAndReply(c, i, <<toServer[c][i]>>)
    /\ server' = "failed"
    /\ UNCHANGED <<state, roleGraphConnections, participants, registerQueue>>

\* ServerClose: leave the loop.
OnServerClose(i) ==
    /\ ServerReceives(Server, i, "ServerClose")
    /\ server' = "stopped"
    /\ ReceiveAtServer(Server, i)
    /\ UNCHANGED <<toClient, state, roleGraphConnections, participants, registerQueue>>

\* stop(), called by the owner of the server once: a message to itself.
ServerStop ==
    /\ server = "receiving"
    /\ toServer[Server] = <<>>
    /\ toServer' = [toServer EXCEPT ![Server] = Append(@, ServerClose)]
    /\ UNCHANGED <<toClient, serverVars>>

\* One pass of the loop of serverFunction with a message of client c.
ServerHandles(c) ==
    \E i \in Arrived(toServer[c]) :
        \/ OnFirstRegister(c, i)
        \/ OnQueuedRegister(c, i)
        \/ OnLateRegister(c, i)
        \/ OnAddRoleConnection(c, i)
        \/ OnRolesComplete(c, i)
        \/ OnEmbody(c, i)
        \/ OnDisembody(c, i)
        \/ OnDisembodyUnknown(c, i)

ServerCloses == \E i \in Arrived(toServer[Server]) : OnServerClose(i)

=============================================================================
