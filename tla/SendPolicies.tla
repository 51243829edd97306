---------------------------- MODULE SendPolicies ----------------------------
(***************************************************************************)
(* The send policies (send_policies/broadcast.hpp, round_robin.hpp): what  *)
(* run() picks from a role map, a function from roles to the sequences of  *)
(* their endpoints.  std::map iterates over the roles in ascending order.  *)
(***************************************************************************)
EXTENDS Integers, Sequences, FiniteSets

\* The places of a role map, and those of them that its iterator has reached with one.
Slots(map) == UNION {{role} \X DOMAIN map[role] : role \in DOMAIN map}
UpTo(map, slot) ==
    {s \in Slots(map) : s[1] < slot[1] \/ (s[1] = slot[1] /\ s[2] <= slot[2])}

\* Every endpoint of every role.
broadcast_any(map) ==
    [k \in 1 .. Cardinality(Slots(map)) |->
        LET slot == CHOOSE s \in Slots(map) : Cardinality(UpTo(map, s)) = k
        IN  map[slot[1]][slot[2]]]

\* Mutant: the role is not looked at.
broadcast_role_any(map, role) == broadcast_any(map)

\* Every endpoint of one role.
broadcast_role(map, role) == IF role \in DOMAIN map THEN map[role] ELSE <<>>

\* The endpoint of one role whose turn it is.
round_robin(map, role, counter) ==
    IF role \in DOMAIN map /\ map[role] # <<>>
    THEN <<map[role][(counter % Len(map[role])) + 1]>>
    ELSE <<>>

\* The policy object is passed to send by value: run() increments the counter of a
\* copy, and the next call starts from the same one again.
Run(policy, map) ==
    CASE policy.name = "broadcast_any" -> broadcast_any(map)
      [] policy.name = "broadcast_role" -> broadcast_role(map, policy.role)
      [] policy.name = "round_robin" -> round_robin(map, policy.role, policy.counter)

Policies(roles, counters) ==
    [name : {"broadcast_any"}]
        \cup [name : {"broadcast_role"}, role : roles]
        \cup [name : {"round_robin"}, role : roles, counter : counters]

=============================================================================
