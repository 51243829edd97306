------------------------------ MODULE DataPlane ------------------------------
(***************************************************************************)
(* The data that the programs of a context exchange (CracenClient::send,   *)
(* asyncSend and receive) while clients join and leave.  The context is    *)
(* what Membership says of it; what this module adds is the readers-writer *)
(* lock around the role map: send holds the read-only view while its       *)
(* messages are sent one after the other, and the management thread of the *)
(* client, which needs the view to enter or erase an endpoint, waits for   *)
(* it in the middle of a handler.                                          *)
(*                                                                         *)
(* A transport takes a small message at once and finishes a large one when *)
(* it is received (MPI's eager and rendezvous protocols): a send of a      *)
(* large message to a client that no longer receives does not return.  A   *)
(* client that crashes is to the others one that has stopped.              *)
(***************************************************************************)
EXTENDS Membership, SendPolicies

CONSTANTS
    Founders,       \* the clients that have joined before any data is sent
    Sources,        \* the clients whose programs send
    SendWith,       \* the policies they use
    MaxCalls        \* bound: calls of send and asyncSend per client

ASSUME DataAssumption ==
    /\ Roles \subseteq Int /\ IsFiniteSet(Roles)
    /\ Founders \subseteq Clients
    /\ Sources \subseteq Clients
    /\ SendWith \subseteq Policies(Roles, Nat)
    /\ MaxCalls \in Nat

VARIABLES
    calls,          \* calls[c]: the policies of the calls c's program has made
    targets,        \* targets[c]: whom a blocking send has still to send to
    posted,         \* posted[c]: its first target's message waits to be received
    data,           \* data[c][d]: messages from c to d under way
    got,            \* got[c][d]: messages from c that d has received
    waiting,        \* waiting[c]: whom c's management thread wants to enter or erase
    wait            \* wait[c]: where it is in getView

dataVars == <<calls, targets, posted, data, got, waiting, wait>>
vars == <<membershipVars, dataVars>>

NoClient == "no client"
ASSUME NoClientAssumption == NoClient \notin Clients

\* How often x is in a sequence.
Count(s, x) == Cardinality({i \in DOMAIN s : s[i] = x})

\* A message: the call it belongs to, and whether that call waits for its reception.
Messages == [call : 1 .. MaxCalls, blocks : BOOLEAN]

Init ==
    /\ status = [c \in Clients |-> IF c \in Founders THEN "member" ELSE "outside"]
    /\ knows = [c \in Clients |-> [r \in Roles |-> <<>>]]
    /\ calls = [c \in Clients |-> <<>>]
    /\ targets = [c \in Clients |-> <<>>]
    /\ posted = [c \in Clients |-> FALSE]
    /\ data = [c \in Clients |-> [d \in Clients |-> <<>>]]
    /\ got = [c \in Clients |-> [d \in Clients |-> <<>>]]
    /\ waiting = [c \in Clients |-> NoClient]
    /\ wait = [c \in Clients |-> "running"]

-----------------------------------------------------------------------------
(* send, asyncSend and receive *)

\* A program sends from one thread.  getReadOnlyView does not wait for a management
\* thread that waits itself: in its wait it is no longer counted in writerWaiting.
MaySend(c) ==
    /\ c \in Sources
    /\ status[c] = "member"
    /\ targets[c] = <<>>
    /\ Len(calls[c]) < MaxCalls

\* The view is held for the endpoints eps; its release wakes a thread that sleeps in
\* getView (one that is about to sleep misses it).
SendsTo(c, eps) ==
    /\ targets' = [targets EXCEPT ![c] = eps]
    /\ wait' = [wait EXCEPT ![c] = IF @ = "asleep" /\ eps = <<>> THEN "woken" ELSE @]
SendsNext(c) == SendsTo(c, Tail(targets[c]))

\* send(message, policy): the policy is run on the view ...
SendCalled(c, policy) ==
    /\ MaySend(c)
    /\ calls' = [calls EXCEPT ![c] = Append(@, policy)]
    /\ SendsTo(c, Run(policy, knows[c]))
    /\ UNCHANGED <<posted, data, got, waiting, membershipVars>>

Posts(c, blocks) ==
    /\ targets[c] # <<>>
    /\ ~posted[c]
    /\ data' = [data EXCEPT ![c][Head(targets[c])] =
                    Append(@, [call |-> Len(calls[c]), blocks |-> blocks])]

\* ... and dataCommunicator.sendTo called for each: with a small message, for which it
\* returns at once, ...
PostsSmall(c) ==
    /\ Posts(c, FALSE)
    /\ SendsNext(c)
    /\ UNCHANGED <<calls, posted, got, waiting, membershipVars>>

\* ... or a large one.
PostsLarge(c) ==
    /\ Posts(c, TRUE)
    /\ posted' = [posted EXCEPT ![c] = TRUE]
    /\ UNCHANGED <<calls, targets, got, waiting, wait, membershipVars>>

\* asyncSend(message, policy): all sends are begun, none is waited for.
AsyncSend(c, policy) ==
    /\ MaySend(c)
    /\ calls' = [calls EXCEPT ![c] = Append(@, policy)]
    /\ data' = [data EXCEPT ![c] = [d \in Clients |->
            @[d] \o [i \in 1 .. Count(Run(policy, knows[c]), d) |->
                        [call |-> Len(calls'[c]), blocks |-> FALSE]]]]
    /\ SendsTo(c, <<>>)
    /\ UNCHANGED <<posted, got, waiting, membershipVars>>

Takes(d, c) ==
    /\ status[d] \in {"member", "leaving", "dismissed"}
    /\ data[c][d] # <<>>
    /\ data' = [data EXCEPT ![c][d] = Tail(@)]
    /\ got' = [got EXCEPT ![c][d] = Append(@, Head(data[c][d]).call)]
    /\ UNCHANGED <<calls, waiting, membershipVars>>

\* Mutant: the send that waits for the reception is not told.
ReceivesUnnoticed(d, c) == Takes(d, c) /\ UNCHANGED <<posted, targets, wait>>

\* Mutant: the send goes on, but the state of its message is not reset.
ReceivesHalf(d, c) ==
    /\ Takes(d, c)
    /\ IF Head(data[c][d]).blocks /\ posted[c]
       THEN SendsNext(c) /\ UNCHANGED posted
       ELSE UNCHANGED <<posted, targets, wait>>

\* Client d receives a message of c, until stop() closes the communicator; the send that
\* has waited for it goes on.
Receives(d, c) ==
    /\ Takes(d, c)
    /\ IF Head(data[c][d]).blocks /\ posted[c]
       THEN SendsNext(c) /\ posted' = [posted EXCEPT ![c] = FALSE]
       ELSE UNCHANGED <<posted, targets, wait>>

-----------------------------------------------------------------------------
(* The management thread *)

Gone(d) == status[d] \notin {"outside", "entering", "member"}

\* A message about client d arrives: that it has joined, and the view is free ...
LearnsNow(c, d) ==
    /\ waiting[c] = NoClient
    /\ targets[c] = <<>>
    /\ Learns(c, d)
    /\ UNCHANGED dataVars

\* ... or that it has joined or left, and a send holds the view: getView has found a
\* reader.
Blocks(c, d) ==
    /\ Active(c)
    /\ waiting[c] = NoClient
    /\ targets[c] # <<>>
    /\ MayLearn(c, d) \/ (d # c /\ Gone(d))
    /\ waiting' = [waiting EXCEPT ![c] = d]
    /\ wait' = [wait EXCEPT ![c] = "checked"]
    /\ UNCHANGED <<calls, targets, posted, data, got, membershipVars>>

\* The thread sleeps, ...
Sleeps(c) ==
    /\ Active(c)
    /\ wait[c] = "checked"
    /\ wait' = [wait EXCEPT ![c] = "asleep"]
    /\ UNCHANGED <<calls, targets, posted, data, got, waiting, membershipVars>>

\* ... is woken and finds the view taken by the next send, ...
Rechecks(c) ==
    /\ Active(c)
    /\ wait[c] = "woken"
    /\ targets[c] # <<>>
    /\ wait' = [wait EXCEPT ![c] = "checked"]
    /\ UNCHANGED <<calls, targets, posted, data, got, waiting, membershipVars>>

\* ... or has it, and its handler enters the client.  (That of Disembody erases nothing:
\* see CracenClient!EraseEndpoint.)
Applies(c) ==
    /\ Active(c)
    /\ wait[c] = "woken"
    /\ targets[c] = <<>>
    /\ waiting' = [waiting EXCEPT ![c] = NoClient]
    /\ wait' = [wait EXCEPT ![c] = "running"]
    /\ \/ Learns(c, waiting[c])
       \/ Gone(waiting[c]) /\ UNCHANGED membershipVars
    /\ UNCHANGED <<calls, targets, posted, data, got>>

-----------------------------------------------------------------------------
(* The steps of the context *)

Comes(c) == (Enters(c) \/ Joins(c)) /\ UNCHANGED dataVars

\* A program calls stop while its other thread may be sending.
Stops(c) == Leaves(c) /\ UNCHANGED dataVars

\* Mutant: the handler takes the view before it looks whom the message is about.
AcknowledgedWithView(c) ==
    /\ waiting[c] = NoClient
    /\ targets[c] = <<>>
    /\ Dismissed(c)
    /\ UNCHANGED dataVars

\* The acknowledgement of its Disembody: the handler does not need the view, but the
\* thread must be free to receive.
Acknowledged(c) ==
    /\ waiting[c] = NoClient
    /\ Dismissed(c)
    /\ UNCHANGED dataVars

\* stop() closes the communicators, which ends their receiving only: a send under way goes
\* on, and goes on to hold the view.
Closes(c) == Left(c) /\ UNCHANGED dataVars

Thread(c) == Sleeps(c) \/ Rechecks(c) \/ Applies(c) \/ Acknowledged(c) \/ Closes(c)

Next ==
    \E c \in Clients :
        \/ \E policy \in SendWith : SendCalled(c, policy) \/ AsyncSend(c, policy)
        \/ PostsSmall(c) \/ PostsLarge(c)
        \/ \E d \in Clients : Receives(c, d) \/ LearnsNow(c, d) \/ Blocks(c, d)
        \/ Thread(c)
        \/ Comes(c) \/ Stops(c)

Spec == Init /\ [][Next]_vars

\* A send under way goes on, programs receive as long as they have not called stop, and
\* the management thread runs: Acknowledged is the promise of the context (StopReturns of
\* CracenContext).  Nobody has to come, to call send or to leave.
Fairness ==
    \A c \in Clients :
        /\ WF_vars(PostsSmall(c) \/ PostsLarge(c))
        /\ \A d \in Clients : WF_vars(status[c] = "member" /\ Receives(c, d))
        /\ WF_vars(Thread(c))

FairSpec == Spec /\ Fairness

-----------------------------------------------------------------------------
(* Properties *)

\* The type of every variable; a message waits only for a send under way, and a thread
\* that waits for the view does so for somebody.
TypeOK ==
    /\ MembershipTypeOK
    /\ calls \in [Clients -> Seq(SendWith)]
    /\ targets \in [Clients -> Seq(Clients)]
    /\ posted \in [Clients -> BOOLEAN]
    /\ data \in [Clients -> [Clients -> Seq(Messages)]]
    /\ got \in [Clients -> [Clients -> Seq(1 .. MaxCalls)]]
    /\ waiting \in [Clients -> Clients \cup {NoClient}]
    /\ wait \in [Clients -> {"running", "checked", "asleep", "woken"}]
    /\ \A c \in Clients :
        /\ posted[c] => targets[c] # <<>>
        /\ (wait[c] = "running") = (waiting[c] = NoClient)

\* The calls of c whose messages d has received or will receive, in this order.
CallsSeen(c, d) == got[c][d] \o [k \in DOMAIN data[c][d] |-> data[c][d][k].call]

\* How often d is sent the message of call k of c.
Copies(c, d, k) == Count(CallsSeen(c, d), k)

\* Whatever joins and leaves meanwhile, a call sends only to clients that have joined and
\* are neighbours, once per edge between the two roles, to nobody of a role its policy
\* does not name, and with round_robin to one client in all; a client is sent the
\* messages of the calls in their order.
DataToPeers ==
    \A c \in Clients :
        /\ \A d \in Clients :
            /\ CallsSeen(c, d) # <<>> => status[d] \notin {"outside", "entering"}
            /\ \A i, j \in DOMAIN CallsSeen(c, d) :
                i < j => CallsSeen(c, d)[i] <= CallsSeen(c, d)[j]
        /\ \A k \in DOMAIN calls[c] :
            LET policy == calls[c][k] IN
            /\ \A d \in Clients :
                /\ Copies(c, d, k) <= Links[c][d]
                /\ policy.name # "broadcast_any" /\ policy.role # RoleOf[d]
                        => Copies(c, d, k) = 0
            /\ policy.name = "round_robin" =>
                \A d, e \in Clients : d # e => Copies(c, d, k) = 0 \/ Copies(c, e, k) = 0

\* The send of client c waits for a client that does not receive any more.
Hangs(c) == posted[c] /\ Gone(Head(targets[c]))

\* A send returns, to however many clients and whatever they do, unless it waits for
\* ever for a large message to be received by a client that stops.
CallsReturn ==
    \A c \in Sources :
        []<>(targets[c] = <<>>) \/ <>[]Hangs(c)

\* The management thread sleeps in getView, nobody reads and nobody will wake it.
Unwoken(c) == wait[c] = "asleep" /\ targets[c] = <<>>

\* stop() returns although a send holds the view that the management thread may need,
\* unless the thread is in getView behind a send that hangs, or has missed the wake-up.
LeavesUnlessBlocked ==
    \A c \in Sources :
        \/ []<>(status[c] \notin {"leaving", "dismissed"})
        \/ <>[](Unwoken(c) \/ (waiting[c] # NoClient /\ Hangs(c)))

=============================================================================
