----------------------------- MODULE MCDataPlane -----------------------------
(* One client that sends and two that receive, for TLC. *)
EXTENDS DataPlane

CONSTANTS alice, bob, carol

\* alice feeds the role of bob and carol.
MCRoles == [c \in Clients |-> IF c = alice THEN 0 ELSE 1]
MCLinks == [c \in Clients |-> [d \in Clients |-> IF MCRoles[c] # MCRoles[d] THEN 1 ELSE 0]]

MCPolicies ==
    { [name |-> "broadcast_role", role |-> 0], [name |-> "broadcast_any"],
      [name |-> "round_robin", role |-> 1, counter |-> 0] }

=============================================================================
