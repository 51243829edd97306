--------------------------- MODULE AsioStreaming ---------------------------
(***************************************************************************)
(* The sockets over TCP (sockets/AsioStreaming.cpp).  A socket has one     *)
(* service thread, which accepts connections, reads datagrams, writes what *)
(* the program sends and hands datagrams to the receives of the program.   *)
(* A connection is made by the first send to an endpoint and kept in a map *)
(* until close(); answers travel back on it.  A datagram that meets no     *)
(* receive is put back, as a job, behind the other jobs.                   *)
(*                                                                         *)
(* A datagram is written in one step, and read in one step if its size     *)
(* comes in one piece: its parts are read by blocking calls of the only    *)
(* thread that reads.  The size is read by a call that may return fewer    *)
(* bytes, and the number is ignored: from then on the end of the           *)
(* connection is out of step and takes any bytes for sizes.  What the      *)
(* program does holds the lock of the map, so that a call is a step, too.  *)
(***************************************************************************)
EXTENDS Integers, Sequences, FiniteSets, SequencesExt

CONSTANTS
    Sockets,
    PromiseQueueSize,   \* of promiseQueue: 200
    Capacity,           \* what TCP takes before a write blocks, in datagrams
    MayClose,           \* the sockets whose program calls close
    MaxConnections,     \* bound: connections ever made
    MaxSends,           \* bound: calls of asyncSendTo
    MaxReceives         \* bound: calls of asyncReceiveFrom

ASSUME SocketsAssumption == IsFiniteSet(Sockets) /\ MayClose \subseteq Sockets
ASSUME SizesAssumption == {PromiseQueueSize, Capacity} \subseteq Nat \ {0}
ASSUME BoundsAssumption == {MaxConnections, MaxSends, MaxReceives} \subseteq Nat

VARIABLES
    listening,      \* the sockets that are bound
    connections,    \* connections[n]: the n-th connection, with both its sockets
    sockets,        \* sockets[s]: the ends of connections in the map of s
    reading,        \* the ends with a handle_receive pending
    backlog,        \* backlog[s]: connections s has not yet accepted
    closed,         \* ends whose socket has been destroyed
    outOfStep,      \* ends that have read a size in part
    midRead,        \* ends out of step at which a blocking read has begun
    stream,         \* stream[e]: datagrams on their way to end e
    jobs,           \* jobs[s]: what has been posted to io_service
    thread,         \* thread[s]: what the service thread does
    mutex,          \* mutex[s]: whether the write mutex is locked
    promiseQueue,   \* promiseQueue[s]: receives without a datagram
    sends, receives, \* the number of calls so far
    putBack,        \* datagrams that once met no receive
    received,       \* received[s]: what the receives of s have returned
    garbled         \* the numbers of the datagrams others have taken the place of

connectionVars == <<listening, connections, backlog>>
mapVars == <<sockets, reading, closed, outOfStep, midRead>>
threadVars == <<thread, mutex>>
receiveVars == <<promiseQueue, receives, putBack, received, garbled>>
vars == <<connectionVars, mapVars, stream, jobs, threadVars, sends, receiveVars>>

\* The end of a connection at the socket that made it, and at the one that accepts it.
Ends == (1 .. MaxConnections) \X {"from", "to"}
Opposite(e) == <<e[1], IF e[2] = "from" THEN "to" ELSE "from">>
Owner(e) == connections[e[1]][e[2]]

\* A message is known by its number and the end it was sent over.
Messages == [number : 1 .. MaxSends, over : Ends]
WriteJob(m) == [run |-> "write", message |-> m]
HandleJob(m) == [run |-> "handle", message |-> m]
Jobs == [run : {"write", "handle"}, message : Messages]

Init ==
    /\ listening = {} /\ connections = <<>>
    /\ sockets = [s \in Sockets |-> {}]
    /\ reading = {} /\ closed = {}
    /\ outOfStep = {} /\ midRead = {}
    /\ backlog = [s \in Sockets |-> <<>>]
    /\ stream = [e \in Ends |-> <<>>]
    /\ jobs = [s \in Sockets |-> <<>>]
    /\ thread = [s \in Sockets |-> "idle"]
    /\ mutex = [s \in Sockets |-> FALSE]
    /\ promiseQueue = [s \in Sockets |-> 0]
    /\ sends = 0 /\ putBack = {}
    /\ receives = 0
    /\ received = [s \in Sockets |-> <<>>]
    /\ garbled = {}

-----------------------------------------------------------------------------
(* The calls of the program *)

Bind(s) ==
    /\ s \notin listening
    /\ listening' = listening \cup {s}
    /\ UNCHANGED <<connections, backlog, mapVars, stream, jobs, threadVars, sends, receiveVars>>

\* Mutant: the job overtakes the others.
PostAhead(s, job) == jobs' = [jobs EXCEPT ![s] = <<job>> \o @]

Post(s, job) == jobs' = [jobs EXCEPT ![s] = Append(@, job)]

\* asyncSendTo over a connection that is in the map.
SendOver(s, e) ==
    /\ sends < MaxSends
    /\ sends' = sends + 1
    /\ Post(s, WriteJob([number |-> sends', over |-> e]))
    /\ UNCHANGED <<stream, threadVars, receiveVars>>

\* To the endpoint another socket listens at, which is the key of the connection made
\* for it.
Outgoing(s, to) == {e \in sockets[s] : e[2] = "from" /\ connections[e[1]].to = to}

SendConnected(s, to) ==
    /\ \E e \in Outgoing(s, to) : SendOver(s, e)
    /\ UNCHANGED <<connectionVars, mapVars>>

SendConnecting(s, to) ==
    /\ Outgoing(s, to) = {}
    /\ to \in listening
    /\ Len(connections) < MaxConnections
    /\ LET n == Len(connections) + 1
           e == <<n, "from">>
       IN  /\ connections' = Append(connections, [from |-> s, to |-> to])
           /\ backlog' = [backlog EXCEPT ![to] = Append(@, n)]
           /\ sockets' = [sockets EXCEPT ![s] = @ \cup {e}]
           /\ reading' = reading \cup {e}
           /\ SendOver(s, e)
    /\ UNCHANGED <<listening, closed, outOfStep, midRead>>

\* To the remote endpoint of a datagram, which names an accepted connection.  (When it
\* is no longer in the map, nobody listens there and connect throws.)
Reply(s, e) ==
    /\ e[2] = "to" /\ e \in sockets[s]
    /\ \E i \in DOMAIN received[s] : received[s][i].over = Opposite(e)
    /\ SendOver(s, e)
    /\ UNCHANGED <<connectionVars, mapVars>>

AsyncReceiveFrom(s) ==
    /\ receives < MaxReceives
    /\ promiseQueue[s] < PromiseQueueSize
    /\ receives' = receives + 1
    /\ promiseQueue' = [promiseQueue EXCEPT ![s] = @ + 1]
    /\ UNCHANGED <<connectionVars, mapVars, stream, jobs, threadVars, sends>>
    /\ UNCHANGED <<putBack, received, garbled>>

\* Mutant: the handlers are not canceled.
CloseCancelsNothing(s) ==
    /\ s \in MayClose
    /\ sockets[s] # {}
    /\ sockets' = [sockets EXCEPT ![s] = {}]
    /\ closed' = closed \cup sockets[s]
    /\ stream' = [e \in Ends |-> IF e \in sockets[s] THEN <<>> ELSE stream[e]]
    /\ UNCHANGED <<connectionVars, reading, outOfStep, midRead, jobs, threadVars, sends, receiveVars>>

\* close() clears the map: the sockets in it are destroyed, the handlers that wait on
\* them canceled.  What was under way to them is lost, and TCP may drop what they had
\* sent as well.  The acceptor goes on.
Close(s) ==
    /\ s \in MayClose
    /\ sockets[s] # {}
    /\ sockets' = [sockets EXCEPT ![s] = {}]
    /\ closed' = closed \cup sockets[s]
    /\ reading' = reading \ sockets[s]
    /\ \E dropped \in SUBSET {Opposite(e) : e \in sockets[s]} :
        stream' = [e \in Ends |-> IF e \in sockets[s] \cup dropped THEN <<>> ELSE stream[e]]
    /\ UNCHANGED <<connectionVars, outOfStep, midRead, jobs, threadVars, sends, receiveVars>>

-----------------------------------------------------------------------------
(* The service thread: the mutex and the write *)

Idle(s) == thread[s] = "idle"
Runs(s, run) == jobs[s] # <<>> /\ Head(jobs[s]).run = run
EndsJob(s) == jobs' = [jobs EXCEPT ![s] = Tail(@)]
ToThread(s, does) == thread' = [thread EXCEPT ![s] = does]

\* mutex.lock(); the mutex is locked if an earlier write has failed, and it is this
\* thread that has locked it.
LocksMutex(s) ==
    /\ Idle(s) /\ Runs(s, "write")
    /\ ToThread(s, IF mutex[s] THEN "deadlock" ELSE "writing")
    /\ mutex' = [mutex EXCEPT ![s] = TRUE]
    /\ UNCHANGED <<connectionVars, mapVars, stream, jobs, sends, receiveVars>>

Writes(s, e) == thread[s] = "writing" /\ Head(jobs[s]).message.over = e

\* The job ends and its promise is set.
Settles(s) ==
    /\ EndsJob(s)
    /\ ToThread(s, "idle")
    /\ UNCHANGED <<connectionVars, mapVars, sends, receiveVars>>

\* Mutant: mutex.unlock() is missing.
UnlocksNothing(s) == UNCHANGED mutex

Unlocks(s) == mutex' = [mutex EXCEPT ![s] = FALSE]

\* boost::asio::write returns when TCP has taken all of the datagram.
WriteReturns(s, e) ==
    /\ Writes(s, e)
    /\ {e, Opposite(e)} \cap closed = {}
    /\ Len(stream[Opposite(e)]) < Capacity
    /\ stream' = [stream EXCEPT ![Opposite(e)] = Append(@, Head(jobs[s]).message)]
    /\ Unlocks(s)
    /\ Settles(s)

\* The other side has closed: TCP takes a datagram nobody will read, ...
WriteVanishes(s, e) ==
    /\ Writes(s, e)
    /\ Opposite(e) \in closed /\ e \notin closed
    /\ Unlocks(s)
    /\ Settles(s)
    /\ UNCHANGED stream

\* ... or the write throws, to a handler that does not unlock the mutex.
WriteThrows(s, e) ==
    /\ Writes(s, e)
    /\ {e, Opposite(e)} \cap closed # {}
    /\ Settles(s)
    /\ UNCHANGED <<stream, mutex>>

\* The job refers to a socket that close() has destroyed: unless the write throws
\* because the descriptor is closed, what happens is undefined.
WriteUndefined(s, e) ==
    /\ Writes(s, e)
    /\ e \in closed
    /\ ToThread(s, "undefined")
    /\ UNCHANGED <<connectionVars, mapVars, stream, jobs, mutex, sends, receiveVars>>

-----------------------------------------------------------------------------
(* The service thread: accepting and receiving *)

\* Mutant: a datagram that meets no receive is dropped.
HandleDatagramOrDrop(s, m, othersJobs) ==
    /\ jobs' = [jobs EXCEPT ![s] = othersJobs]
    /\ promiseQueue' = [promiseQueue EXCEPT ![s] = IF @ > 0 THEN @ - 1 ELSE 0]
    /\ received' = [received EXCEPT ![s] = IF promiseQueue[s] > 0 THEN Append(@, m) ELSE @]
    /\ UNCHANGED <<receives, putBack>>

\* handle_datagram: the datagram goes to the oldest receive, or back behind the jobs.
HandleDatagram(s, m, othersJobs) ==
    \/ /\ promiseQueue[s] > 0
       /\ promiseQueue' = [promiseQueue EXCEPT ![s] = @ - 1]
       /\ received' = [received EXCEPT ![s] = Append(@, m)]
       /\ jobs' = [jobs EXCEPT ![s] = othersJobs]
       /\ UNCHANGED <<receives, putBack>>
    \/ /\ promiseQueue[s] = 0
       /\ jobs' = [jobs EXCEPT ![s] = Append(othersJobs, HandleJob(m))]
       /\ putBack' = putBack \cup {m}
       /\ UNCHANGED <<promiseQueue, receives, received>>

RunsHandle(s) ==
    /\ Idle(s) /\ Runs(s, "handle")
    /\ HandleDatagram(s, Head(jobs[s]).message, Tail(jobs[s]))
    /\ UNCHANGED <<connectionVars, mapVars, stream, threadVars, sends, garbled>>

\* Mutant: handle_receive is not called again.
ReadsOnce(s, e) ==
    /\ Idle(s)
    /\ e \in reading \cap sockets[s]
    /\ stream[e] # <<>>
    /\ stream' = [stream EXCEPT ![e] = Tail(@)]
    /\ HandleDatagram(s, Head(stream[e]), jobs[s])
    /\ reading' = reading \ {e}
    /\ UNCHANGED <<connectionVars, sockets, closed, outOfStep, midRead, threadVars, sends, garbled>>

\* handle_receive: reads a datagram, handles it and waits for the next one.  (An end out
\* of step may find the beginning of a datagram again.)
Reads(s, e) ==
    /\ Idle(s)
    /\ e \in reading \cap sockets[s]
    /\ stream[e] # <<>>
    /\ stream' = [stream EXCEPT ![e] = Tail(@)]
    /\ HandleDatagram(s, Head(stream[e]), jobs[s])
    /\ UNCHANGED <<connectionVars, mapVars, threadVars, sends, garbled>>

\* async_receive returns with a part of the size, or the end has been out of step before:
\* the bytes of the next datagram are read as something else, by a new call of the handler
\* or by the blocking read it is in.
MidRead(s, e) == thread[s] = "misreading" /\ e \in midRead /\ Owner(e) = s

Misreads(s, e) ==
    /\ e \in sockets[s]
    /\ (Idle(s) /\ e \in reading) \/ MidRead(s, e)
    /\ stream[e] # <<>>
    /\ stream' = [stream EXCEPT ![e] = Tail(@)]
    /\ outOfStep' = outOfStep \cup {e}
    /\ UNCHANGED <<connectionVars, sockets, reading, closed, mutex, sends>>

\* With them a datagram is complete that nobody has sent; it is handled in the place of
\* the one they belong to.  (Bound: at most one is made of the bytes of a datagram.)
HandsGarbage(s, e) ==
    /\ Misreads(s, e)
    /\ HandleDatagram(s, Head(stream[e]), jobs[s])
    /\ garbled' = garbled \cup {Head(stream[e]).number}
    /\ midRead' = midRead \ {e}
    /\ ToThread(s, "idle")

\* More bytes are asked for than have come, and the thread waits for them; or there is
\* not the memory for as many, and it ends.
Swallows(s, e) ==
    /\ Misreads(s, e)
    /\ \E does \in {"misreading", "thrown"} : ToThread(s, does)
    /\ midRead' = midRead \cup {e}
    /\ UNCHANGED <<jobs, receiveVars>>

\* The other side has closed and the wait ends with an error, ...
ReadEnds(s, e) ==
    /\ Idle(s)
    /\ e \in reading \cap sockets[s]
    /\ Opposite(e) \in closed /\ stream[e] = <<>>
    /\ reading' = reading \ {e}
    /\ UNCHANGED <<connectionVars, sockets, closed, outOfStep, midRead>>
    /\ UNCHANGED <<stream, jobs, threadVars, sends, receiveVars>>

\* ... or has reset the connection while a datagram is being read: the blocking read or
\* remote_endpoint() throws out of the thread.  A blocking read throws as well when no
\* more bytes can come, or its own socket has been destroyed.
ReadThrows(s, e) ==
    /\ \/ /\ Idle(s)
          /\ e \in reading \cap sockets[s]
          /\ Opposite(e) \in closed /\ stream[e] # <<>>
       \/ MidRead(s, e) /\ {e, Opposite(e)} \cap closed # {}
    /\ ToThread(s, "thrown")
    /\ UNCHANGED <<connectionVars, mapVars, stream, jobs, mutex, sends, receiveVars>>

\* handle_accept enters the connection and waits for its first datagram.
Accepts(s) ==
    /\ Idle(s)
    /\ backlog[s] # <<>>
    /\ backlog' = [backlog EXCEPT ![s] = Tail(@)]
    /\ LET e == <<Head(backlog[s]), "to">> IN
       /\ sockets' = [sockets EXCEPT ![s] = @ \cup {e}]
       /\ reading' = reading \cup {e}
    /\ UNCHANGED <<listening, connections, closed, outOfStep, midRead>>
    /\ UNCHANGED <<stream, jobs, threadVars, sends, receiveVars>>

-----------------------------------------------------------------------------

ProgramCalls(s) ==
    \/ Bind(s)
    \/ \E to \in Sockets : SendConnected(s, to) \/ SendConnecting(s, to)
    \/ \E e \in Ends : Reply(s, e)
    \/ AsyncReceiveFrom(s)
    \/ Close(s)

RunsJob(s) == LocksMutex(s) \/ RunsHandle(s)
WriteEnds(s) ==
    \E e \in Ends :
        \/ WriteReturns(s, e) \/ WriteVanishes(s, e)
        \/ WriteThrows(s, e) \/ WriteUndefined(s, e)
ReadHandler(s) ==
    \E e \in Ends :
        \/ Reads(s, e) \/ HandsGarbage(s, e) \/ Swallows(s, e)
        \/ ReadEnds(s, e) \/ ReadThrows(s, e)

ServiceThread(s) == RunsJob(s) \/ WriteEnds(s) \/ ReadHandler(s) \/ Accepts(s)

Next == \E s \in Sockets : ProgramCalls(s) \/ ServiceThread(s)

Spec == Init /\ [][Next]_vars

\* io_service serves posted jobs and ready sockets in turn, so that neither a job nor a
\* handler is passed over for ever between the writes.
Fairness ==
    \A s \in Sockets :
        /\ WF_vars(WriteEnds(s))
        /\ WF_vars(RunsJob(s)) /\ WF_vars(ReadHandler(s)) /\ WF_vars(Accepts(s))

FairSpec == Spec /\ Fairness

-----------------------------------------------------------------------------
(* Properties *)

\* Every variable has its type; the thread has locked the mutex while it writes.
TypeOK ==
    /\ listening \subseteq Sockets
    /\ connections \in Seq([from : Sockets, to : Sockets])
    /\ sockets \in [Sockets -> SUBSET Ends]
    /\ \A s \in Sockets : \A e \in sockets[s] : Owner(e) = s
    /\ reading \subseteq Ends \ closed
    /\ closed \subseteq Ends
    /\ outOfStep \subseteq Ends /\ midRead \subseteq outOfStep
    /\ backlog \in [Sockets -> Seq(1 .. MaxConnections)]
    /\ stream \in [Ends -> Seq(Messages)]
    /\ \A e \in Ends : Len(stream[e]) <= Capacity
    /\ jobs \in [Sockets -> Seq(Jobs)]
    /\ thread \in
           [Sockets -> {"idle", "writing", "misreading", "deadlock", "undefined", "thrown"}]
    /\ mutex \in [Sockets -> BOOLEAN]
    /\ \A s \in Sockets : thread[s] = "writing" => mutex[s] /\ Runs(s, "write")
    /\ promiseQueue \in [Sockets -> 0 .. PromiseQueueSize]
    /\ sends \in 0 .. MaxSends
    /\ receives \in 0 .. MaxReceives
    /\ putBack \subseteq Messages
    /\ received \in [Sockets -> Seq(Messages)]
    /\ garbled \subseteq 1 .. MaxSends

\* The lines messages wait in: the jobs of a thread, what is on its way to an end, what
\* has been received; and the places of message n in them.
JobsOf(s) == <<"jobs", s>>
StreamTo(e) == <<"stream", e>>
ReceivedBy(s) == <<"received", s>>
Lines ==
    {JobsOf(s) : s \in Sockets} \cup {StreamTo(e) : e \in Ends} \cup {ReceivedBy(s) : s \in Sockets}

MessagesOf(js) == [i \in DOMAIN js |-> js[i].message]
InLine ==
    [l \in Lines |->
        CASE l[1] = "jobs" -> MessagesOf(jobs[l[2]])
          [] l[1] = "stream" -> stream[l[2]]
          [] l[1] = "received" -> received[l[2]]]
Places(n) == UNION {{l} \X {i \in DOMAIN InLine[l] : InLine[l][i].number = n} : l \in Lines}

\* The ends that no longer keep the promise to their datagrams.
Torn == closed \cup outOfStep

\* A datagram is handed over at most once, and none is lost before a connection has been
\* closed or lost step: one for which there is no receive is kept, among the jobs of the
\* thread.
NothingLost ==
    \A n \in 1 .. sends :
        \/ Cardinality(Places(n)) = 1
        \/ Places(n) = {} /\ Torn # {}

\* Only a datagram that was put back comes behind a later one of its connection: a
\* program that keeps a receive pending gets the datagrams of a connection in order.
InOrderUnlessPutBack ==
    \A s \in Sockets : \A i, j \in DOMAIN received[s] :
        /\ i < j
        /\ received[s][i].over = received[s][j].over
        /\ received[s][j] \notin putBack
        => received[s][i].number < received[s][j].number

\* A datagram as its sender and its receiver know it: those not yet received, those
\* received, and the sockets that have closed a connection or are out of step on one.
AsSent(m) ==
    [from |-> Owner(m.over), to |-> Owner(Opposite(m.over)), number |-> m.number]
OnWay == UNION {Range(InLine[l]) : l \in Lines \ {ReceivedBy(s) : s \in Sockets}}
Underway == {AsSent(m) : m \in OnWay}
HandedOver == [s \in Sockets |-> [i \in DOMAIN received[s] |-> AsSent(received[s][i])]]
Gone == {Owner(e) : e \in Torn}

T == INSTANCE Transport WITH
        Addresses <- Sockets,
        Ordered <- FALSE,
        sent <- sends,
        underway <- Underway,
        received <- HandedOver,
        gone <- Gone,
        garbled <- garbled

\* The sockets keep the promise of Transport but for the order: whole messages, to the
\* socket they were sent to, once.  A close(), or a size read in part, loses those from and
\* to its own socket only; and only a socket that has read one hands over others than sent.
ImplementsTransport == T!TransportSpec

\* The service thread has ended or waits for itself, which takes a connection that is
\* closed or out of step; ...
Halted(s) == thread[s] \in {"deadlock", "undefined", "thrown"} /\ Torn # {}

\* ... or it waits for bytes of a datagram nobody has sent.
Starved(s) == thread[s] = "misreading" /\ \A e \in midRead : Owner(e) = s => stream[e] = <<>>

\* The thread does not come back by itself: it is among threads each of which has halted,
\* starves or writes more than TCP takes to a socket whose thread, being another of them or
\* itself, does not read.
Deadlocked(s) ==
    \E stuck \in SUBSET Sockets :
        /\ s \in stuck
        /\ \A t \in stuck :
            \/ Halted(t) \/ Starved(t)
            \/ \E e \in Ends : /\ Writes(t, e)
                               /\ Len(stream[Opposite(e)]) = Capacity
                               /\ Owner(Opposite(e)) \in stuck

\* The future of every send gets its value or an exception, unless the threads have
\* deadlocked or starve.
Posted(s, n) == \E i \in DOMAIN jobs[s] : jobs[s][i].run = "write" /\ jobs[s][i].message.number = n
SendsSettle ==
    \A s \in Sockets, n \in 1 .. MaxSends : []<>(~Posted(s, n) \/ Deadlocked(s))

\* Receives and datagrams find each other, whichever comes first, unless the threads have
\* deadlocked or starve.  (At an end out of step it may be a datagram that nobody has sent,
\* and a datagram may be swallowed: then it has not arrived.)
Arrived(s) ==
    \/ \E i \in DOMAIN jobs[s] : jobs[s][i].run = "handle"
    \/ \E e \in sockets[s] : stream[e] # <<>>
ReceivesServed ==
    \A s \in Sockets : []<>(promiseQueue[s] = 0 \/ ~Arrived(s) \/ Deadlocked(s))

=============================================================================
