------------------------------ MODULE Cracen2 ------------------------------
(***************************************************************************)
(* A Cracen2 object (Cracen2.hpp) from its constructor to the end of its   *)
(* destructor: the receiver thread that sorts what arrives into one        *)
(* bounded queue per message type, the sender thread that waits for the    *)
(* sends under way, the threads of the program that call send and receive, *)
(* and release() and ~Cracen2, which one thread calls.                     *)
(*                                                                         *)
(* The queues are AtomicQueues: an operation on one is a step, blocked     *)
(* while it must wait.  The client below is reduced to its flag running,   *)
(* the futures of its pending receives and whether it still exists.        *)
(***************************************************************************)
EXTENDS Integers, Sequences, FiniteSets

CONSTANTS
    Types,              \* the message types of the program
    CracenClose,        \* the message release() sends to its own node
    InputQueueSize,     \* [Types -> Nat]
    Prefetch,           \* receives the receiver keeps pending: 100
    Users,              \* threads that call send
    Backlog,            \* a send waits while more sends than this are pending: 20
    Capacity,           \* of pendingSends: 200
    FanOut,             \* the most endpoints a send policy picks
    CloseBreaks,        \* a set of BOOLEAN: TRUE if closing the client breaks the pending
                        \* receives and refuses new ones (BoostMpi), FALSE if only
                        \* destroying it does (AsioStreaming)
    SendsFail,          \* whether a transport may fail to deliver
    MaxArrivals         \* [Types -> Nat], bound: messages that ever arrive

NoType == "no type"

ASSUME TypesAssumption ==
    /\ IsFiniteSet(Types) /\ CracenClose \notin Types /\ NoType \notin Types
    /\ {InputQueueSize, MaxArrivals} \subseteq [Types -> Nat]
    /\ Prefetch \in Nat \ {0}
ASSUME UsersAssumption == IsFiniteSet(Users)
ASSUME SendsAssumption == {Backlog, Capacity, FanOut} \subseteq Nat
ASSUME TransportAssumption ==
    SendsFail \in BOOLEAN /\ CloseBreaks \in (SUBSET BOOLEAN) \ {{}}

VARIABLES
    ready,          \* the pending receives that have their message, oldest first
    loopback,       \* whether CracenClose is on its way to its own node
    arrived,        \* arrived[t]: data messages of type t that have arrived so far
    receiver,       \* where the receiver thread is
    element,        \* what it pushes into an input queue
    seenClose,      \* its local running is FALSE
    inputQueues,
    active,         \* of the input queues
    pendingSends,   \* the number of futures in the queue
    sender,         \* where the sender thread is
    user,           \* user[u]: where user u is in a call of send
    left,           \* left[u]: futures u still has to push
    wanted,         \* the type a call of receive waits for
    running,        \* of the client
    broken,         \* whether the promises of the pending receives are gone
    phase           \* how far the owner of the object is

inVars == <<ready, loopback, arrived, receiver, element, seenClose, inputQueues>>
outVars == <<pendingSends, sender, user, left>>
ownerVars == <<wanted, active, running, broken, phase>>
vars == <<inVars, outVars, ownerVars>>

Phases == <<"using", "stopping", "released", "queuesGone", "clientGone", "gone">>

\* The owner has come as far as the given phase.
Reached(p) ==
    \E i, j \in DOMAIN Phases : i <= j /\ Phases[i] = p /\ Phases[j] = phase

\* A message is its type and its number among those of the type.
Data == UNION {{t} \X (1 .. MaxArrivals[t]) : t \in Types}
TypeOf(m) == m[1]
Close == <<CracenClose, 0>>
NoElement == <<NoType, 0>>

Init ==
    /\ ready = <<>> /\ loopback = FALSE /\ arrived = [t \in Types |-> 0]
    /\ receiver = "check" /\ element = NoElement /\ seenClose = FALSE
    /\ inputQueues = [t \in Types |-> <<>>]
    /\ pendingSends = 0 /\ sender = "check"
    /\ user = [u \in Users |-> "idle"] /\ left = [u \in Users |-> 0]
    /\ wanted = NoType /\ active = TRUE
    /\ running = TRUE /\ broken = FALSE /\ phase = "using"

-----------------------------------------------------------------------------
(* Arrival *)

\* The pending receives without a message.  The receiver has taken one out of the
\* queue and not put a new one in while it handles a message.
Waiting == Prefetch - Len(ready) - (IF receiver \in {"push", "rearm"} THEN 1 ELSE 0)

\* A message of another node, while the communicator is open.
Arrives(t) ==
    /\ ~Reached("released")
    /\ Waiting > 0
    /\ arrived[t] < MaxArrivals[t]
    /\ arrived' = [arrived EXCEPT ![t] = @ + 1]
    /\ ready' = Append(ready, <<t, arrived'[t]>>)
    /\ UNCHANGED <<loopback, receiver, element, seenClose, inputQueues, outVars, ownerVars>>

CloseArrives ==
    /\ loopback
    /\ Waiting > 0
    /\ loopback' = FALSE
    /\ ready' = Append(ready, Close)
    /\ UNCHANGED <<arrived, receiver, element, seenClose, inputQueues, outVars, ownerVars>>

-----------------------------------------------------------------------------
(* receiver() *)

\* while(client.isRunning() && running)
ReceiverChecks ==
    /\ receiver = "check"
    /\ receiver' = IF running /\ ~seenClose THEN "get" ELSE "ended"
    /\ UNCHANGED <<ready, loopback, arrived, element, seenClose, inputQueues, outVars, ownerVars>>

\* pendingReceives.front().get() runs the functor of the message's type: for data,
\* push into its queue ...
GetsData ==
    /\ receiver = "get"
    /\ ready # <<>> /\ Head(ready) # Close
    /\ element' = Head(ready)
    /\ ready' = Tail(ready)
    /\ receiver' = "push"
    /\ UNCHANGED <<loopback, arrived, seenClose, inputQueues, outVars, ownerVars>>

\* ... for CracenClose, reset the local running.
GetsClose ==
    /\ receiver = "get"
    /\ ready # <<>> /\ Head(ready) = Close
    /\ seenClose' = TRUE
    /\ ready' = Tail(ready)
    /\ receiver' = "rearm"
    /\ UNCHANGED <<loopback, arrived, element, inputQueues, outVars, ownerVars>>

\* The promises of the pending receives are gone: get throws.
GetThrows ==
    /\ receiver = "get"
    /\ ready = <<>>
    /\ broken
    /\ receiver' = "thrown"
    /\ UNCHANGED <<ready, loopback, arrived, element, seenClose, inputQueues, outVars, ownerVars>>

\* Mutants: a queue grows beyond its size; an element without room is dropped.
PushesElementBeyond ==
    /\ receiver = "push"
    /\ active
    /\ inputQueues' = [inputQueues EXCEPT ![TypeOf(element)] = Append(@, element)]
    /\ element' = NoElement
    /\ receiver' = "rearm"
    /\ UNCHANGED <<ready, loopback, arrived, seenClose, outVars, ownerVars>>
PushesElementAnyway ==
    /\ receiver = "push"
    /\ active
    /\ inputQueues' = [inputQueues EXCEPT ![TypeOf(element)] =
            IF Len(@) < InputQueueSize[TypeOf(element)] THEN Append(@, element) ELSE @]
    /\ element' = NoElement
    /\ receiver' = "rearm"
    /\ UNCHANGED <<ready, loopback, arrived, seenClose, outVars, ownerVars>>

\* queue.push(element) once there is room.
PushesElement ==
    /\ receiver = "push"
    /\ active
    /\ Len(inputQueues[TypeOf(element)]) < InputQueueSize[TypeOf(element)]
    /\ inputQueues' = [inputQueues EXCEPT ![TypeOf(element)] = Append(@, element)]
    /\ element' = NoElement
    /\ receiver' = "rearm"
    /\ UNCHANGED <<ready, loopback, arrived, seenClose, outVars, ownerVars>>

\* push into a destroyed queue.
PushThrows ==
    /\ receiver = "push"
    /\ ~active
    /\ receiver' = "thrown"
    /\ UNCHANGED <<ready, loopback, arrived, element, seenClose, inputQueues, outVars, ownerVars>>

\* Mutant: no new receive is made pending, the thread ends with the last one.
RearmsNever ==
    /\ receiver = "rearm"
    /\ receiver' = IF ready = <<>> THEN "ended" ELSE "check"
    /\ UNCHANGED <<ready, loopback, arrived, element, seenClose, inputQueues, outVars, ownerVars>>

\* pendingReceives.push(client.asyncReceive(visitor)).  A closed client may refuse; with
\* the client gone it is undefined what the call does.
Rearms ==
    /\ receiver = "rearm"
    /\ \/ receiver' = "check" /\ (broken => Reached("clientGone"))
       \/ receiver' = "thrown" /\ broken
    /\ UNCHANGED <<ready, loopback, arrived, element, seenClose, inputQueues, outVars, ownerVars>>

-----------------------------------------------------------------------------
(* receive() and send(), called by the program *)

\* receive<T>(): one thread of the program waits for a type ...
CallReceive(t) ==
    /\ wanted = NoType
    /\ active
    /\ wanted' = t
    /\ UNCHANGED <<inVars, outVars, active, running, broken, phase>>

\* ... and gets the oldest message of it.
Receive ==
    /\ wanted # NoType
    /\ active
    /\ inputQueues[wanted] # <<>>
    /\ inputQueues' = [inputQueues EXCEPT ![wanted] = Tail(@)]
    /\ wanted' = NoType
    /\ UNCHANGED <<ready, loopback, arrived, receiver, element, seenClose, outVars,
                   active, running, broken, phase>>

CallSend(u) ==
    /\ user[u] = "idle"
    /\ phase = "using"
    /\ user' = [user EXCEPT ![u] = "spin"]
    /\ UNCHANGED <<inVars, pendingSends, sender, left, ownerVars>>

\* Mutant: no waiting for the backlog.
PassesAtOnce(u) ==
    /\ user[u] = "spin"
    /\ \E n \in 0 .. FanOut :
        /\ left' = [left EXCEPT ![u] = n]
        /\ user' = [user EXCEPT ![u] = IF n = 0 THEN "idle" ELSE "push"]
    /\ UNCHANGED <<inVars, pendingSends, sender, ownerVars>>

\* The busy wait ends and client.asyncSend returns the futures of its sends.
Passes(u) ==
    /\ user[u] = "spin"
    /\ pendingSends <= Backlog
    /\ \E n \in 0 .. FanOut :
        /\ left' = [left EXCEPT ![u] = n]
        /\ user' = [user EXCEPT ![u] = IF n = 0 THEN "idle" ELSE "push"]
    /\ UNCHANGED <<inVars, pendingSends, sender, ownerVars>>

\* pendingSends.push of one future.
PushesSend(u) ==
    /\ user[u] = "push"
    /\ pendingSends < Capacity
    /\ pendingSends' = pendingSends + 1
    /\ left' = [left EXCEPT ![u] = @ - 1]
    /\ user' = [user EXCEPT ![u] = IF left[u] = 1 THEN "idle" ELSE "push"]
    /\ UNCHANGED <<inVars, sender, ownerVars>>

-----------------------------------------------------------------------------
(* sender() *)

\* while(client.isRunning())
SenderChecks ==
    /\ sender = "check"
    /\ sender' = IF running THEN "pop" ELSE "ended"
    /\ UNCHANGED <<inVars, pendingSends, user, left, ownerVars>>

SenderPops ==
    /\ sender = "pop"
    /\ pendingSends > 0
    /\ pendingSends' = pendingSends - 1
    /\ sender' = "wait"
    /\ UNCHANGED <<inVars, user, left, ownerVars>>


\* tryPop has waited for a second in vain.
SenderTimesOut ==
    /\ sender = "pop"
    /\ pendingSends = 0
    /\ sender' = "check"
    /\ UNCHANGED <<inVars, pendingSends, user, left, ownerVars>>

\* The future is ready: the transport is done with the message, which nothing obliges it to
\* be as long as the peer does not receive ...
SendCompletes ==
    /\ sender = "wait"
    /\ sender' = "check"
    /\ UNCHANGED <<inVars, pendingSends, user, left, ownerVars>>

\* ... or has failed and get throws, as it may when the client is gone.
SendThrows ==
    /\ sender = "wait"
    /\ SendsFail \/ Reached("clientGone")
    /\ sender' = "thrown"
    /\ UNCHANGED <<inVars, pendingSends, user, left, ownerVars>>

-----------------------------------------------------------------------------
(* release() and ~Cracen2 *)

ToPhase(from, to) == phase = from /\ phase' = to

\* release(): client.loopback(CracenClose), which returns when the message is written,
\* and client.stop(), which sends the Disembody ...
Release ==
    /\ ToPhase("using", "stopping")
    /\ loopback' = TRUE
    /\ UNCHANGED <<ready, arrived, receiver, element, seenClose, inputQueues, outVars,
                   wanted, active, running, broken>>

\* ... the management thread receives the acknowledgement and ends ...
Acknowledged ==
    /\ phase = "stopping"
    /\ running
    /\ running' = FALSE
    /\ UNCHANGED <<inVars, outVars, wanted, active, broken, phase>>

\* Mutant: release() waits for the receiver thread, too.
ClosesAfterReceiver ==
    /\ ToPhase("stopping", "released")
    /\ ~running
    /\ receiver = "ended"
    /\ loopback' = FALSE
    /\ broken' \in CloseBreaks
    /\ UNCHANGED <<ready, arrived, receiver, element, seenClose, inputQueues, outVars,
                   wanted, active, running>>

\* ... is joined, and the communicators are closed: what has not arrived is lost.
\* The loop that waits for the client to stop running ends at once.
Closes ==
    /\ ToPhase("stopping", "released")
    /\ ~running
    /\ loopback' = FALSE
    /\ broken' \in CloseBreaks
    /\ UNCHANGED <<ready, arrived, receiver, element, seenClose, inputQueues, outVars,
                   wanted, active, running>>

\* ~Cracen2 destroys the input queues; who waits in one throws.
DestroysQueues ==
    /\ ToPhase("released", "queuesGone")
    /\ active' = FALSE
    /\ wanted' = NoType
    /\ UNCHANGED <<inVars, outVars, running, broken>>

\* Then the members go in the reverse order of their declaration: the client ...
DestroysClient ==
    /\ ToPhase("queuesGone", "clientGone")
    /\ broken' = TRUE
    /\ UNCHANGED <<inVars, outVars, wanted, active, running>>

\* ... before the threads that use it, which are joined.
JoinsThreads ==
    /\ ToPhase("clientGone", "gone")
    /\ sender = "ended" /\ receiver = "ended"
    /\ UNCHANGED <<inVars, outVars, wanted, active, running, broken>>

-----------------------------------------------------------------------------

\* An exception has left a thread, which ends the process.
Terminated == "thrown" \in {receiver, sender}

ReceiverStep ==
    \/ ReceiverChecks \/ GetsData \/ GetsClose \/ GetThrows
    \/ PushesElement \/ PushThrows \/ Rearms
SenderTurns == SenderChecks \/ SenderPops \/ SenderTimesOut
SenderStep == SenderChecks \/ SenderPops \/ SenderTimesOut \/ SendCompletes \/ SendThrows
UserStep(u) == Passes(u) \/ PushesSend(u)
ShutdownTurns == Closes \/ JoinsThreads
Shutdown == Acknowledged \/ Closes \/ DestroysClient \/ JoinsThreads

Next ==
    /\ ~Terminated
    /\ \/ \E t \in Types : Arrives(t) \/ CallReceive(t)
       \/ CloseArrives
       \/ Receive
       \/ ReceiverStep
       \/ SenderStep
       \/ \E u \in Users : CallSend(u) \/ UserStep(u)
       \/ Release
       \/ DestroysQueues
       \/ Shutdown

Spec == Init /\ [][Next]_vars

\* Both threads and every call under way go on while the process lives.  Nothing obliges a
\* program to call, no message has to arrive, and what waits for a peer or for the threads
\* of a socket may wait for ever: get on the future of a send, stop() and ~CracenClient.
Fairness ==
    /\ WF_vars(~Terminated /\ ReceiverStep)
    /\ WF_vars(~Terminated /\ SenderTurns)
    /\ WF_vars(~Terminated /\ Receive)
    /\ \A u \in Users : WF_vars(~Terminated /\ UserStep(u))
    /\ WF_vars(~Terminated /\ ShutdownTurns)

FairSpec == Spec /\ Fairness

-----------------------------------------------------------------------------
(* Properties *)

\* The way of a message to the program, from the end to the beginning, and the places
\* on it where there is one of type t.
Way(t) == <<inputQueues[t], <<element>>, ready>>
Places(t) ==
    {p \in UNION {{k} \X DOMAIN Way(t)[k] : k \in DOMAIN Way(t)} :
        TypeOf(Way(t)[p[1]][p[2]]) = t}
Number(t, p) == Way(t)[p[1]][p[2]][2]
Ahead(p, q) == p[1] < q[1] \/ (p[1] = q[1] /\ p[2] < q[2])

\* The sends of the calls under way that are not in pendingSends yet.
Unpushed == UNION {{u} \X (1 .. left[u]) : u \in Users}

\* Every variable has its type and no queue holds more than its capacity.
TypeOK ==
    /\ ready \in Seq(Data \cup {Close})
    /\ loopback \in BOOLEAN
    /\ arrived \in [Types -> Nat]
    /\ \A t \in Types : arrived[t] <= MaxArrivals[t]
    /\ Waiting >= 0
    /\ receiver \in {"check", "get", "push", "rearm", "ended", "thrown"}
    /\ element \in Data \cup {NoElement}
    /\ seenClose \in BOOLEAN
    /\ inputQueues \in [Types -> Seq(Data)]
    /\ \A t \in Types : Len(inputQueues[t]) <= InputQueueSize[t]
    /\ pendingSends \in 0 .. Capacity
    /\ sender \in {"check", "pop", "wait", "ended", "thrown"}
    /\ user \in [Users -> {"idle", "spin", "push"}]
    /\ left \in [Users -> 0 .. FanOut]
    /\ \A u \in Users : left[u] > 0 <=> user[u] = "push"
    /\ wanted \in Types \cup {NoType}
    /\ active \in BOOLEAN
    /\ {running, broken} \subseteq BOOLEAN
    /\ \E i \in DOMAIN Phases : phase = Phases[i]

\* The program gets the messages of a type in the order in which they arrived and
\* misses none: what is on its way to it are all messages from one on to the last that
\* has arrived, in order, spread over the queue, the hand of the receiver and the
\* pending receives, release or not.
NothingLost ==
    \A t \in Types :
        /\ \A p, q \in Places(t) : Ahead(p, q) => Number(t, p) < Number(t, q)
        /\ \E got \in 0 .. arrived[t] :
            {Number(t, p) : p \in Places(t)} = got + 1 .. arrived[t]

\* The numbers of the messages of type t that are on their way, oldest first.
Channel(t) ==
    [k \in 1 .. Cardinality(Places(t)) |->
        Number(t, CHOOSE p \in Places(t) :
                        Cardinality({q \in Places(t) : Ahead(q, p)}) = k - 1)]

Lines == [t \in Types |-> Channel(t)]
Rooms == [t \in Types |-> InputQueueSize[t] + Prefetch]
Stage ==
    IF Reached("queuesGone") THEN "destroyed"
    ELSE IF Reached("released") THEN "released" ELSE "open"

Channels == INSTANCE TypedChannels WITH channel <- Lines, state <- Stage, Room <- Rooms

\* To the program the object is one bounded FIFO channel per type, in which a step of the
\* receiver, of a sender or of release() cannot be seen: messages come in at arrival and
\* go out at receive only, and one type takes no room from another but the pending
\* receives.
ImplementsChannels == Channels!Spec

\* The size that send reads without the mutex keeps the backlog down although several
\* threads may pass the test at once: each adds the sends of one call at most, so that
\* with Backlog + |Users| * FanOut <= Capacity no push on pendingSends ever waits.
BacklogBounded ==
    pendingSends + Cardinality(Unpushed) <= Backlog + Cardinality(Users) * FanOut

\* The sender thread waits for a send that the transport does not finish: the peer does not
\* receive, and the backlog grows no shorter.
SendHangs == sender = "wait"


\* A message that has arrived reaches the call of receive that waits for its type,
\* unless the receiver is stuck behind the full queue of another type.
StuckBehind(t) ==
    /\ receiver = "push" /\ TypeOf(element) # t
    /\ Len(inputQueues[TypeOf(element)]) = InputQueueSize[TypeOf(element)]
ReceiveReturns ==
    \A t \in Types :
        (wanted = t /\ Places(t) # {})
            ~> (wanted # t \/ StuckBehind(t) \/ phase # "using" \/ Terminated)

\* stop() waits for its Disembody to be sent or acknowledged; ~Cracen2 waits for the threads
\* of the sockets, or, these being gone, the sender thread for a send that hangs.
StopWaits == phase = "stopping" /\ running
DestructorWaits == phase = "queuesGone" \/ (phase = "clientGone" /\ SendHangs)

\* release() returns and so does ~Cracen2, unless the transport lets them wait for ever or
\* an exception ends the process: none of them waits for a message to the program, for room
\* in a queue, or for a thread that has not noticed.
ShutdownReturns ==
    /\ []<>(phase # "stopping" \/ Terminated) \/ <>[]StopWaits
    /\ []<>(phase \notin {"queuesGone", "clientGone"} \/ Terminated) \/ <>[]DestructorWaits

\* "safely close all connections": the destructor does not end the process because
\* the receiver still has a message to push.
DestroySparesReceiver == receiver = "thrown" => element = NoElement

=============================================================================
