----------------------------- MODULE Transport -----------------------------
(***************************************************************************)
(* What the management network and Cracen2 rely on: a socket hands over    *)
(* every message that was sent to its endpoint at most once, whole, and,   *)
(* if Ordered, those of one sender in the order in which they were sent.   *)
(* None is lost or garbled between sockets that have not left their        *)
(* connections or lost step with a peer.  Nothing is promised between      *)
(* senders, and nothing about messages nobody receives.                    *)
(***************************************************************************)
EXTENDS Integers, Sequences

CONSTANTS
    Addresses,  \* of sockets
    Ordered     \* as in Communicator

VARIABLES
    sent,       \* the number of messages sent so far
    underway,   \* messages on their way, numbered in the order sent
    received,   \* received[to]: what has been handed over
    gone,       \* the sockets that have left their connections or lost step
    garbled     \* the numbers of messages in whose place others are handed over

transportVars == <<sent, underway, received, gone, garbled>>

TransportInit ==
    /\ sent = 0
    /\ underway = {}
    /\ received = [to \in Addresses |-> <<>>]
    /\ gone = {}
    /\ garbled = {}

Send(from, to) ==
    /\ sent' = sent + 1
    /\ underway' = underway \cup {[from |-> from, to |-> to, number |-> sent']}
    /\ UNCHANGED <<received, gone, garbled>>

\* No older message from the sender of m to its receiver is on its way.
IsOldest(m) ==
    \A other \in underway :
        other.from = m.from /\ other.to = m.to => m.number <= other.number

HandOver(m) ==
    /\ Ordered => IsOldest(m)
    /\ underway' = underway \ {m}
    /\ received' = [received EXCEPT ![m.to] = Append(@, m)]

Deliver(m) == HandOver(m) /\ UNCHANGED <<sent, gone, garbled>>

\* A receiver that has lost step with its peer is handed something else in the place of
\* a message, at once or later.
Garble(m) ==
    /\ gone' = gone \cup {m.to}
    /\ garbled' = garbled \cup {m.number}
    /\ HandOver(m) \/ UNCHANGED <<underway, received>>
    /\ UNCHANGED sent

\* Messages from and to sockets that have left, or lost step, may be lost.
Loses ==
    /\ underway' \subseteq underway
    /\ \A m \in underway \ underway' : {m.from, m.to} \cap gone' # {}
    /\ UNCHANGED <<sent, received, garbled>>

Leave(address) ==
    /\ gone' = gone \cup {address}
    /\ Loses

Lose == UNCHANGED gone /\ Loses

TransportNext ==
    \/ \E from, to \in Addresses : Send(from, to)
    \/ \E m \in underway : Deliver(m) \/ Garble(m)
    \/ \E address \in Addresses : Leave(address)
    \/ Lose

TransportSpec == TransportInit /\ [][TransportNext]_transportVars

=============================================================================
