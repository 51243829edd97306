----------------------------- MODULE Membership -----------------------------
(***************************************************************************)
(* What a context promises its programs, whatever happens on the           *)
(* management network: a client lists under a role only clients that have  *)
(* joined, that have that role and whose role is a neighbour of its own,   *)
(* each at most once per edge between the two roles; it forgets only       *)
(* clients that are about to leave, and nothing in its list changes before *)
(* it has joined or after it has been dismissed.                           *)
(***************************************************************************)
EXTENDS Integers, Sequences, FiniteSets, SequencesExt

CONSTANTS
    Clients,
    Roles,
    RoleOf,             \* [Clients -> Roles]
    Links               \* Links[c][d]: edges between the roles of c and d

ASSUME MembershipAssumption ==
    /\ RoleOf \in [Clients -> Roles]
    /\ Links \in [Clients -> [Clients -> Nat]]

VARIABLES
    status,             \* status[c]: how far client c is
    knows               \* knows[c][r]: the clients c lists under role r

membershipVars == <<status, knows>>

\* dismissed: the server has acknowledged that the client leaves.
Statuses == {"outside", "entering", "member", "leaving", "dismissed", "left", "dead"}

MembershipTypeOK ==
    /\ status \in [Clients -> Statuses]
    /\ knows \in [Clients -> [Roles -> Seq(Clients)]]

MembershipInit ==
    /\ status = [c \in Clients |-> "outside"]
    /\ knows = [c \in Clients |-> [r \in Roles |-> <<>>]]

Becomes(c, from, to) ==
    /\ status[c] = from
    /\ status' = [status EXCEPT ![c] = to]
    /\ UNCHANGED knows

Enters(c) == Becomes(c, "outside", "entering")
Joins(c) == Becomes(c, "entering", "member")
Leaves(c) == Becomes(c, "member", "leaving")
Dismissed(c) == Becomes(c, "leaving", "dismissed")
Left(c) == Becomes(c, "dismissed", "left")
Dies(c) ==
    \E from \in {"entering", "member", "leaving", "dismissed"} : Becomes(c, from, "dead")

\* Client c keeps its list.
Active(c) == status[c] \in {"member", "leaving"}

\* What client c may learn: that client d of a neighbouring role has joined.
MayLearn(c, d) ==
    /\ Active(c)
    /\ d # c
    /\ status[d] \notin {"outside", "entering"}
    /\ Cardinality({k \in DOMAIN knows[c][RoleOf[d]] : knows[c][RoleOf[d]][k] = d})
            < Links[c][d]

Learns(c, d) ==
    /\ MayLearn(c, d)
    /\ knows' = [knows EXCEPT ![c][RoleOf[d]] = Append(@, d)]
    /\ UNCHANGED status

Forgets(c, d) ==
    /\ Active(c)
    /\ status[d] \notin {"outside", "entering", "member"}
    /\ \E k \in DOMAIN knows[c][RoleOf[d]] :
        /\ knows[c][RoleOf[d]][k] = d
        /\ knows' = [knows EXCEPT ![c][RoleOf[d]] = RemoveAt(@, k)]
    /\ UNCHANGED status

MembershipNext ==
    \E c \in Clients :
        \/ Enters(c) \/ Joins(c) \/ Leaves(c) \/ Dismissed(c) \/ Left(c) \/ Dies(c)
        \/ \E d \in Clients : Learns(c, d) \/ Forgets(c, d)

MembershipSpec == MembershipInit /\ [][MembershipNext]_membershipVars

=============================================================================
