---------------------------- MODULE CracenClient ----------------------------
(***************************************************************************)
(* The clients of a context (CracenClient.hpp): the constructor, which     *)
(* registers, waits for the role graph and embodies; the management thread *)
(* (alive), which keeps roleEndpointMap; and stop(), which disembodies and *)
(* joins that thread.  The process of a client may end without stop().     *)
(***************************************************************************)
EXTENDS Communicator

CONSTANTS
    RoleOf,             \* RoleOf[c]: the role client c is constructed with
    RoleGraph,          \* the role graph the clients are constructed with
    LocalEndpoint,      \* LocalEndpoint[c]: what c's dataCommunicator is bound to
    MayCrash,           \* the clients whose process may end at any moment
    ServerEndpoint      \* the server's endpoint, the "from" of its messages

ASSUME RoleAssumption ==
    /\ RoleOf \in [Clients -> Roles]
    /\ RoleGraph \in Seq(Edges)
ASSUME EndpointAssumption ==
    /\ LocalEndpoint \in [Clients -> Endpoints]
    /\ ServerEndpoint \in Endpoints
ASSUME CrashAssumption == MayCrash \subseteq Clients

VARIABLES
    pc,                 \* how far client c is
    running,            \* the flag of c's management thread
    roleEndpointMap     \* roleEndpointMap[c][r]: endpoints of role r, as c knows them

clientVars == <<pc, running, roleEndpointMap>>

\* new: not constructed; context: in the constructor; running: constructed;
\* joining: in stop(); closed: stopped; terminated: an exception left a thread;
\* crashed: the process has ended.
ClientStates ==
    {"new", "context", "running", "joining", "closed", "terminated", "crashed"}

ClientTypeOK ==
    /\ pc \in [Clients -> ClientStates]
    /\ running \in [Clients -> BOOLEAN]
    /\ roleEndpointMap \in [Clients -> [Roles -> Seq(Endpoints)]]

ClientInit ==
    /\ pc = [c \in Clients |-> "new"]
    /\ running = [c \in Clients |-> TRUE]
    /\ roleEndpointMap = [c \in Clients |-> [r \in Roles |-> <<>>]]

-----------------------------------------------------------------------------
(* The constructor *)

\* Bind both communicators and register.
Construct(c) ==
    /\ pc[c] = "new"
    /\ pc' = [pc EXCEPT ![c] = "context"]
    /\ SendToServer(c, Register)
    /\ UNCHANGED <<running, roleEndpointMap>>

\* A receive of the constructor (contextCreationVisitor).
ContextReceives(c, i, t) ==
    /\ pc[c] = "context"
    /\ i \in Arrived(toClient[c])
    /\ toClient[c][i].type = t

\* Mutant: the end mark is sent before the edges.
RoleGraphReplyMarkFirst ==
    <<RolesComplete>> \o [k \in 1 .. Len(RoleGraph) |-> AddRoleConnection(RoleGraph[k])]

\* The answer to RoleGraphRequest: one message per edge, then the end mark.
RoleGraphReply ==
    [k \in 1 .. Len(RoleGraph) |-> AddRoleConnection(RoleGraph[k])]
        \o <<RolesComplete>>

OnRoleGraphRequest(c, i) ==
    /\ ContextReceives(c, i, "RoleGraphRequest")
    /\ ReceiveAndSend(c, i, RoleGraphReply)
    /\ UNCHANGED clientVars

\* The acknowledgement of an edge: only counted, and the count is not used.
OnAddRoleConnectionAck(c, i) ==
    /\ ContextReceives(c, i, "AddRoleConnection")
    /\ ReceiveAtClient(c, i)
    /\ UNCHANGED clientVars

\* The context is ready: embody, start the management thread and return.
OnContextReady(c, i) ==
    /\ ContextReceives(c, i, "RolesComplete")
    /\ pc' = [pc EXCEPT ![c] = "running"]
    /\ ReceiveAndSend(c, i, <<Embody(LocalEndpoint[c], RoleOf[c])>>)
    /\ UNCHANGED <<running, roleEndpointMap>>

-----------------------------------------------------------------------------
(* The management thread *)

\* A receive of the loop of alive.
AliveReceives(c, i, t) ==
    /\ pc[c] \in {"running", "joining"}
    /\ running[c]
    /\ i \in Arrived(toClient[c])
    /\ toClient[c][i].type = t

\* The acknowledgement of the client's own Disembody ends the thread.
OnDisembodyAck(c, i) ==
    /\ AliveReceives(c, i, "Disembody")
    /\ toClient[c][i].endpoint = LocalEndpoint[c]
    /\ running' = [running EXCEPT ![c] = FALSE]
    /\ ReceiveAtClient(c, i)
    /\ UNCHANGED <<pc, roleEndpointMap>>

\* Mutant: the first entry of every list is erased.
EraseFirst(commVec, from, endpoint) ==
    IF commVec # <<>> THEN Tail(commVec) ELSE commVec

\* What the search loop of the Disembody handler does to one list: it compares
\* the sender of the message, not the entry, with the endpoint that has left, so
\* that it stops at the first entry or at none.
EraseEndpoint(commVec, from, endpoint) ==
    IF from = endpoint /\ commVec # <<>> THEN Tail(commVec) ELSE commVec

\* Someone else has left.
OnDisembodyOther(c, i) ==
    /\ AliveReceives(c, i, "Disembody")
    /\ toClient[c][i].endpoint # LocalEndpoint[c]
    /\ roleEndpointMap' = [roleEndpointMap EXCEPT ![c] =
            [r \in Roles |-> EraseEndpoint(@[r], ServerEndpoint, toClient[c][i].endpoint)]]
    /\ ReceiveAtClient(c, i)
    /\ UNCHANGED <<pc, running>>

\* map[roleId].push_back(endpoint)
PushBack(map, m) == [map EXCEPT ![m.roleId] = Append(@, m.endpoint)]

\* A neighbour has joined (Embody) or was there before (Announce).
OnNeighbour(c, i, t) ==
    /\ AliveReceives(c, i, t)
    /\ roleEndpointMap' = [roleEndpointMap EXCEPT ![c] = PushBack(@, toClient[c][i])]
    /\ ReceiveAtClient(c, i)
    /\ UNCHANGED <<pc, running>>

OnEmbodyNeighbour(c, i) == OnNeighbour(c, i, "Embody")
OnAnnounce(c, i) == OnNeighbour(c, i, "Announce")

\* The message types with a functor in the visitor of the client's state.
Handled(clientState) ==
    IF clientState = "context"
    THEN {"RoleGraphRequest", "AddRoleConnection", "RolesComplete"}
    ELSE {"Disembody", "Embody", "Announce"}

\* A message without a functor: visit throws, out of the constructor or out of
\* the management thread.
OnUnhandled(c, i) ==
    /\ pc[c] \in {"context", "running", "joining"}
    /\ running[c]
    /\ i \in Arrived(toClient[c])
    /\ toClient[c][i].type \notin Handled(pc[c])
    /\ pc' = [pc EXCEPT ![c] = "terminated"]
    /\ ReceiveAtClient(c, i)
    /\ UNCHANGED <<running, roleEndpointMap>>

-----------------------------------------------------------------------------
(* stop() *)

\* Mutant: stop() joins the thread that nobody tells to end.
StopSilently(c) ==
    /\ pc[c] = "running"
    /\ pc' = [pc EXCEPT ![c] = "joining"]
    /\ UNCHANGED <<running, roleEndpointMap, networkVars>>

\* Send the Disembody and wait for the management thread.
Stop(c) ==
    /\ pc[c] = "running"
    /\ pc' = [pc EXCEPT ![c] = "joining"]
    /\ SendToServer(c, Disembody(LocalEndpoint[c]))
    /\ UNCHANGED <<running, roleEndpointMap>>

\* The management thread has ended: close both communicators and return.
Joined(c) ==
    /\ pc[c] = "joining"
    /\ ~running[c]
    /\ pc' = [pc EXCEPT ![c] = "closed"]
    /\ UNCHANGED <<running, roleEndpointMap, networkVars>>

\* The process of the client ends.  What it has sent is on its way, what is sent to
\* it stays unread, and nobody is told.
Crash(c) ==
    /\ c \in MayCrash
    /\ pc[c] \in {"context", "running", "joining"}
    /\ pc' = [pc EXCEPT ![c] = "crashed"]
    /\ UNCHANGED <<running, roleEndpointMap, networkVars>>

\* What the client's threads do by themselves.
ClientHandles(c) ==
    \E i \in Arrived(toClient[c]) :
        \/ OnRoleGraphRequest(c, i)
        \/ OnAddRoleConnectionAck(c, i)
        \/ OnContextReady(c, i)
        \/ OnDisembodyAck(c, i)
        \/ OnDisembodyOther(c, i)
        \/ OnEmbodyNeighbour(c, i)
        \/ OnAnnounce(c, i)
        \/ OnUnhandled(c, i)

\* What the program that owns the client calls.
ClientCalled(c) == Construct(c) \/ Stop(c)

=============================================================================
