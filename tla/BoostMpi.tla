------------------------------ MODULE BoostMpi ------------------------------
(***************************************************************************)
(* The sockets over MPI (sockets/BoostMpi.cpp).  All sockets of a process  *)
(* share one thread, the only one that calls MPI: send, receive and close  *)
(* post a job to its queue, and three trackers, which post themselves      *)
(* again as long as there is something to track, ask MPI for arrivals and  *)
(* completions.  A datagram travels as two MPI messages, header and body,  *)
(* and is put together again by the receiver.                              *)
(*                                                                         *)
(* A loop of a tracker takes one step per turn.  What MPI has finished at  *)
(* the time it is asked is open, so that a tracker that posts itself again *)
(* has made no step: it is kept as its flag instead of its place in the    *)
(* queue, and may take its turn between any two jobs.                      *)
(***************************************************************************)
EXTENDS Integers, Sequences, FiniteSets, SequencesExt

CONSTANTS
    Ranks,          \* the processes
    Tags,           \* what rand() % 65535 may give
    Sockets,
    RankOf,         \* RankOf[s]: the process of socket s
    Requested,      \* Requested[s]: the tag bind is called with, 0 for any
    AnySource,      \* MPI_ANY_SOURCE
    MaxOpenings,    \* bound: calls of bind and close
    MaxSends,       \* bound: messages ever sent
    MaxReceives     \* bound: receives ever called

ASSUME RanksAssumption == Ranks \subseteq Nat /\ 0 \in Ranks /\ AnySource \notin Ranks
ASSUME TagsAssumption == Tags \subseteq Nat /\ 0 \in Tags
ASSUME SocketsAssumption ==
    RankOf \in [Sockets -> Ranks] /\ Requested \in [Sockets -> Tags]
ASSUME BoundsAssumption == {MaxOpenings, MaxSends, MaxReceives} \subseteq Nat

\* The value of local in a socket that is not bound.
Closed == <<0, 0>>

\* The endpoints a socket may get.
Endpoints ==
    {Closed} \cup {e \in Ranks \X Tags :
        \E s \in Sockets : e[1] = RankOf[s] /\ Requested[s] \in {0, e[2]}}

VARIABLES
    local,              \* local[s]: the endpoint of socket s
    binding,            \* sockets between next() and block()
    blockedEndpoints,
    openings, sends, receives, \* the number of calls so far
    jobs,               \* jobs[r]: what the calls have posted to io_service
    tracking,           \* tracking[r]: the trackers under way, those whose flag is set
    pendingProbes,      \* pendingProbes[e]: receives of endpoint e without a message
    pendingReceives,    \* pendingReceives[r]: messages being received
    pendingSends,       \* pendingSends[r]: messages being sent
    wire,               \* wire[r][e]: MPI messages from process r to endpoint e
    fulfilled           \* fulfilled[e]: the receives of e with their datagrams

bindVars == <<local, binding, blockedEndpoints>>
mpiVars == <<tracking, pendingProbes, pendingReceives, pendingSends, wire, fulfilled>>
callVars == <<openings, sends, receives>>
vars == <<bindVars, callVars, jobs, mpiVars>>

Trackers == {"trackAsyncSend", "trackAsyncReceive", "trackAsyncProbe"}

\* A message carries the number of its asyncSendTo, a receive that of its asyncReceiveFrom.
Messages == [from : Endpoints, to : Endpoints, number : 1 .. MaxSends]
Headers == [kind : {"header"}, of : Messages]
Bodies == [kind : {"body"}, of : Messages]
Promises == 1 .. MaxReceives
PendingReceives ==
    [promise : Promises, local : Endpoints, source : Ranks, header : Headers, body : Bodies,
     headerTested : BOOLEAN, bodyTested : BOOLEAN]
Datagrams == [promise : Promises, remote : (Ranks \cup {AnySource}) \X Tags, content : Bodies]

SendJob(m) == [run |-> "send", message |-> m]
ReceiveJob(e, promise) == [run |-> "receive", local |-> e, promise |-> promise]
CloseJob(e) == [run |-> "close", local |-> e]

Jobs ==
    {SendJob(m) : m \in Messages} \cup {CloseJob(e) : e \in Endpoints}
        \cup {ReceiveJob(e, promise) : e \in Endpoints, promise \in Promises}

Init ==
    /\ local = [s \in Sockets |-> Closed]
    /\ binding = {} /\ blockedEndpoints = {}
    /\ openings = 0 /\ sends = 0 /\ receives = 0
    /\ jobs = [r \in Ranks |-> <<>>]
    /\ tracking = [r \in Ranks |-> {}]
    /\ pendingProbes = [e \in Endpoints |-> <<>>]
    /\ pendingReceives = [r \in Ranks |-> <<>>]
    /\ pendingSends = [r \in Ranks |-> <<>>]
    /\ wire = [r \in Ranks |-> [e \in Endpoints |-> <<>>]]
    /\ fulfilled = [e \in Endpoints |-> <<>>]

-----------------------------------------------------------------------------
(* The calls of the program *)

\* bind releases the old endpoint and takes the one asked for or, by next(), one that
\* is not blocked ...
BindChooses(s) ==
    /\ s \notin binding
    /\ openings < MaxOpenings
    /\ openings' = openings + 1
    /\ blockedEndpoints' =
            IF local[s] # Closed THEN blockedEndpoints \ {local[s]} ELSE blockedEndpoints
    /\ \E tag \in Tags :
        /\ IF Requested[s] # 0 THEN tag = Requested[s]
           ELSE <<RankOf[s], tag>> \notin blockedEndpoints'
        /\ local' = [local EXCEPT ![s] = <<RankOf[s], tag>>]
    /\ binding' = binding \cup {s}
    /\ UNCHANGED <<sends, receives, jobs, mpiVars>>

\* ... and blocks it in a critical section of its own.
BindBlocks(s) ==
    /\ s \in binding
    /\ blockedEndpoints' = blockedEndpoints \cup {local[s]}
    /\ binding' = binding \ {s}
    /\ UNCHANGED <<local, callVars, jobs, mpiVars>>

Post(r, job) == jobs' = [jobs EXCEPT ![r] = Append(@, job)]

\* asyncSendTo, to an endpoint of which the program has heard.
AsyncSendTo(s, to) ==
    /\ local[s] # Closed /\ s \notin binding
    /\ to \in {local[t] : t \in Sockets} /\ to[2] # 0
    /\ sends < MaxSends
    /\ sends' = sends + 1
    /\ Post(RankOf[s], SendJob([from |-> local[s], to |-> to, number |-> sends']))
    /\ UNCHANGED <<bindVars, openings, receives, mpiVars>>

\* asyncReceiveFrom; with tag 0 it throws.
AsyncReceiveFrom(s) ==
    /\ local[s][2] # 0 /\ s \notin binding
    /\ receives < MaxReceives
    /\ receives' = receives + 1
    /\ Post(RankOf[s], ReceiveJob(local[s], receives'))
    /\ UNCHANGED <<bindVars, openings, sends, mpiVars>>

CloseSocket(s) ==
    /\ local[s] # Closed /\ s \notin binding
    /\ openings < MaxOpenings
    /\ openings' = openings + 1
    /\ Post(RankOf[s], CloseJob(local[s]))
    /\ blockedEndpoints' = blockedEndpoints \ {local[s]}
    /\ local' = [local EXCEPT ![s] = Closed]
    /\ UNCHANGED <<binding, sends, receives, mpiVars>>

-----------------------------------------------------------------------------
(* The jobs of the MPI thread *)

Runs(r, run) == jobs[r] # <<>> /\ Head(jobs[r]).run = run
EndsJob(r) == jobs' = [jobs EXCEPT ![r] = Tail(@)]

\* Mutant: the tracker is not posted.
KickstartsNothing(r, tracker) == UNCHANGED tracking

\* A job or a tracker posts a tracker that is not under way.
Kickstart(r, tracker) == tracking' = [tracking EXCEPT ![r] = @ \cup {tracker}]

\* Mutant: the body before the header.
IsendsBodyFirst(m) == <<[kind |-> "body", of |-> m], [kind |-> "header", of |-> m]>>

\* The two MPI messages of a datagram.
Isends(m) == <<[kind |-> "header", of |-> m], [kind |-> "body", of |-> m]>>

RunsSend(r) ==
    /\ Runs(r, "send")
    /\ LET m == Head(jobs[r]).message IN
       /\ wire' = [wire EXCEPT ![r][m.to] = @ \o Isends(m)]
       /\ pendingSends' = [pendingSends EXCEPT ![r] = Append(@, m)]
    /\ Kickstart(r, "trackAsyncSend")
    /\ EndsJob(r)
    /\ UNCHANGED <<bindVars, callVars, pendingProbes, pendingReceives, fulfilled>>

RunsReceive(r) ==
    /\ Runs(r, "receive")
    /\ LET job == Head(jobs[r]) IN
       pendingProbes' = [pendingProbes EXCEPT ![job.local] = Append(@, job.promise)]
    /\ Kickstart(r, "trackAsyncProbe")
    /\ EndsJob(r)
    /\ UNCHANGED <<bindVars, callVars, pendingReceives, pendingSends, wire, fulfilled>>

\* The promises are broken.
RunsClose(r) ==
    /\ Runs(r, "close")
    /\ pendingProbes' = [pendingProbes EXCEPT ![Head(jobs[r]).local] = <<>>]
    /\ EndsJob(r)
    /\ UNCHANGED <<bindVars, callVars, tracking, pendingReceives, pendingSends,
                   wire, fulfilled>>

-----------------------------------------------------------------------------
(* The trackers *)

\* A tracker ends, and resets its flag, with the turn that leaves it nothing to track.
EndsAfter(r, tracker, queue) ==
    tracking' = [tracking EXCEPT ![r] = IF Len(queue) = 1 THEN @ \ {tracker} ELSE @]

TrackSendCompletes(r) ==
    /\ "trackAsyncSend" \in tracking[r]
    /\ pendingSends[r] # <<>>
    /\ pendingSends' = [pendingSends EXCEPT ![r] = Tail(@)]
    /\ EndsAfter(r, "trackAsyncSend", pendingSends[r])
    /\ UNCHANGED <<bindVars, callVars, jobs, pendingProbes, pendingReceives, wire,
                   fulfilled>>

\* Mutant: only the receive of the header is begun.
BehindHeader(parts) == Tail(parts)

\* What is left when a header and its body are being received.
Behind(parts) == SubSeq(parts, 3, Len(parts))

\* iprobe finds the header of a message from process src for the first receive of
\* endpoint e, probe waits for the message behind it; both receives are begun.  (The
\* map's order of endpoints is left open.)
ProbeFinds(r, e, src) ==
    /\ "trackAsyncProbe" \in tracking[r]
    /\ e[1] = r
    /\ pendingProbes[e] # <<>>
    /\ Len(wire[src][e]) > 1
    /\ pendingReceives' = [pendingReceives EXCEPT ![r] = Append(@,
            [promise |-> Head(pendingProbes[e]), local |-> e, source |-> src,
             header |-> wire[src][e][1], body |-> wire[src][e][2],
             headerTested |-> FALSE, bodyTested |-> FALSE])]
    /\ wire' = [wire EXCEPT ![src][e] = Behind(@)]
    /\ pendingProbes' = [pendingProbes EXCEPT ![e] = Tail(@)]
    /\ tracking' = [tracking EXCEPT ![r] = @ \cup {"trackAsyncReceive"}]
    /\ UNCHANGED <<bindVars, callVars, jobs, pendingSends, fulfilled>>

\* No receive is left, the last pass has found a message for each or they are closed.
Unprobed(r) == {e \in Endpoints : e[1] = r /\ pendingProbes[e] # <<>>}

ProbeEnds(r) ==
    /\ "trackAsyncProbe" \in tracking[r]
    /\ Unprobed(r) = {}
    /\ tracking' = [tracking EXCEPT ![r] = @ \ {"trackAsyncProbe"}]
    /\ UNCHANGED <<bindVars, callVars, jobs, pendingProbes, pendingReceives,
                   pendingSends, wire, fulfilled>>

\* The status test() returns for the header of receive p: the first one that says it
\* is complete names its source; asked again, the request is MPI_REQUEST_NULL and its
\* status empty.
SourceOf(p) == IF p.headerTested THEN AnySource ELSE p.source

\* Both tests of the first pending receive say that it is complete.
TrackReceiveCompletes(r) ==
    /\ "trackAsyncReceive" \in tracking[r]
    /\ pendingReceives[r] # <<>>
    /\ LET p == Head(pendingReceives[r]) IN
       fulfilled' = [fulfilled EXCEPT ![p.local] = Append(@,
            [promise |-> p.promise, remote |-> <<SourceOf(p), p.header.of.from[2]>>,
             content |-> p.body])]
    /\ pendingReceives' = [pendingReceives EXCEPT ![r] = Tail(@)]
    /\ EndsAfter(r, "trackAsyncReceive", pendingReceives[r])
    /\ UNCHANGED <<bindVars, callVars, jobs, pendingProbes, pendingSends, wire>>

\* Mutant: the tracker goes on with the next one.
TrackReceiveGoesOn(r) ==
    /\ "trackAsyncReceive" \in tracking[r]
    /\ pendingReceives[r] # <<>>
    /\ pendingReceives' = [pendingReceives EXCEPT ![r] = Append(Tail(@), Head(@))]
    /\ UNCHANGED <<bindVars, callVars, jobs, tracking, pendingProbes, pendingSends,
                   wire, fulfilled>>

\* One of them does not.
TrackReceiveBreaks(r) ==
    /\ "trackAsyncReceive" \in tracking[r]
    /\ pendingReceives[r] # <<>>
    /\ LET p == Head(pendingReceives[r]) IN
       \E header, body \in BOOLEAN :
        /\ p.headerTested => header
        /\ p.bodyTested => body
        /\ ~(header /\ body)
        /\ pendingReceives' = [pendingReceives EXCEPT ![r][1] =
                [@ EXCEPT !.headerTested = header, !.bodyTested = body]]
    /\ UNCHANGED <<bindVars, callVars, jobs, tracking, pendingProbes, pendingSends,
                   wire, fulfilled>>

-----------------------------------------------------------------------------

ProgramCalls(s) ==
    \/ BindChooses(s)
    \/ \E to \in Endpoints : AsyncSendTo(s, to)
    \/ AsyncReceiveFrom(s)
    \/ CloseSocket(s)

MpiThread(r) ==
    \/ RunsSend(r) \/ RunsReceive(r) \/ RunsClose(r)
    \/ TrackSendCompletes(r)
    \/ \E e \in Endpoints, src \in Ranks : ProbeFinds(r, e, src)
    \/ ProbeEnds(r)
    \/ TrackReceiveCompletes(r) \/ TrackReceiveBreaks(r)

Next ==
    \/ \E s \in Sockets : ProgramCalls(s) \/ BindBlocks(s)
    \/ \E r \in Ranks : MpiThread(r)

Spec == Init /\ [][Next]_vars

-----------------------------------------------------------------------------
(* Properties *)

\* Every variable has its type.
TypeOK ==
    /\ local \in [Sockets -> Endpoints]
    /\ binding \subseteq Sockets
    /\ blockedEndpoints \subseteq Endpoints
    /\ openings \in 0 .. MaxOpenings
    /\ sends \in 0 .. MaxSends
    /\ receives \in 0 .. MaxReceives
    /\ jobs \in [Ranks -> Seq(Jobs)]
    /\ tracking \in [Ranks -> SUBSET Trackers]
    /\ pendingProbes \in [Endpoints -> Seq(Promises)]
    /\ pendingReceives \in [Ranks -> Seq(PendingReceives)]
    /\ pendingSends \in [Ranks -> Seq(Messages)]
    /\ wire \in [Ranks -> [Endpoints -> Seq(Headers \cup Bodies)]]
    /\ fulfilled \in [Endpoints -> Seq(Datagrams)]

\* A tracker is under way as long as there is something to track: no receive and no
\* send waits for a tracker that has ended.
TrackersRun ==
    \A r \in Ranks :
        /\ pendingSends[r] # <<>> => "trackAsyncSend" \in tracking[r]
        /\ pendingReceives[r] # <<>> => "trackAsyncReceive" \in tracking[r]
        /\ Unprobed(r) # {} => "trackAsyncProbe" \in tracking[r]

\* The receives of an endpoint get their datagrams in the order in which they were
\* called, although two trackers and two MPI messages are between call and datagram.
FirstCalledFirstServed ==
    \A e \in Endpoints : \A i, j \in DOMAIN fulfilled[e] :
        i < j => fulfilled[e][i].promise < fulfilled[e][j].promise

\* The messages on their way: being received, between the processes, waiting to be
\* sent.
BeingReceived == UNION {{p.body.of : p \in ToSet(pendingReceives[r])} : r \in Ranks}
BetweenProcesses ==
    UNION {{part.of : part \in {x \in ToSet(wire[pair[1]][pair[2]]) : x.kind = "header"}} :
              pair \in Ranks \X Endpoints}
ToBeSent ==
    UNION {{job.message : job \in {x \in ToSet(jobs[r]) : x.run = "send"}} : r \in Ranks}

\* The sockets keep the promise of Transport: whole messages, in order, once.
T == INSTANCE Transport WITH
        Addresses <- Endpoints,
        Ordered <- TRUE,
        gone <- {},
        garbled <- {},
        sent <- sends,
        underway <- BeingReceived \cup BetweenProcesses \cup ToBeSent,
        received <- [e \in Endpoints |->
                        [i \in DOMAIN fulfilled[e] |-> fulfilled[e][i].content.of]]
ImplementsTransport == T!TransportSpec

\* A datagram names its sender, to whom the receiver may reply.
RemoteNamesSender ==
    \A e \in Endpoints : \A i \in DOMAIN fulfilled[e] :
        fulfilled[e][i].remote = fulfilled[e][i].content.of.from

=============================================================================
