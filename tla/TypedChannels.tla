---------------------------- MODULE TypedChannels ----------------------------
(***************************************************************************)
(* What a Cracen2 object promises its program, whatever its threads and    *)
(* queues do: one bounded channel per message type.  receive hands over    *)
(* the messages of a type in the order in which they have arrived and      *)
(* leaves none out; nothing arrives after release() and nothing is handed  *)
(* over after the destructor.                                              *)
(***************************************************************************)
EXTENDS Naturals, Sequences

CONSTANTS
    Types,
    NoType,
    Room            \* Room[t]: the most messages of type t between network and program

VARIABLES
    arrived,        \* arrived[t]: messages of type t that have arrived so far
    channel,        \* channel[t]: the numbers of those not handed over, oldest first
    wanted,         \* the type a call of receive waits for
    state

channelVars == <<arrived, channel, wanted, state>>

Init ==
    /\ arrived = [t \in Types |-> 0]
    /\ channel = [t \in Types |-> <<>>]
    /\ wanted = NoType
    /\ state = "open"

Arrive(t) ==
    /\ state = "open"
    /\ arrived' = [arrived EXCEPT ![t] = @ + 1]
    /\ Len(channel[t]) < Room[t]
    /\ channel' = [channel EXCEPT ![t] = Append(@, arrived'[t])]
    /\ UNCHANGED <<wanted, state>>

Call(t) ==
    /\ state # "destroyed"
    /\ wanted = NoType
    /\ wanted' = t
    /\ UNCHANGED <<arrived, channel, state>>

HandOver ==
    /\ state # "destroyed"
    /\ wanted # NoType
    /\ wanted' = NoType
    /\ channel[wanted] # <<>>
    /\ channel' = [channel EXCEPT ![wanted] = Tail(@)]
    /\ UNCHANGED <<arrived, state>>

Release ==
    /\ state = "open"
    /\ state' = "released"
    /\ UNCHANGED <<arrived, channel, wanted>>

\* A call under way ends without a message.
Destroy ==
    /\ state = "released"
    /\ state' = "destroyed"
    /\ wanted' = NoType
    /\ UNCHANGED <<arrived, channel>>

Next ==
    \/ \E t \in Types : Arrive(t) \/ Call(t)
    \/ HandOver \/ Release \/ Destroy

Spec == Init /\ [][Next]_channelVars

=============================================================================
