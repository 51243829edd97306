--------------------------- MODULE MCCracenContext ---------------------------
(* Three clients of a context for TLC: alice, bob and carol. *)
EXTENDS CracenContext

CONSTANTS alice, bob, carol, anyHost, node1, node2

\* The context of the repository's tests, a chain of roles with one client each.
MCPath == << <<0, 1>>, <<1, 2>> >>
MCChainRoles == [c \in Clients |-> CASE c = alice -> 0 [] c = bob -> 1 [] OTHER -> 2]

\* Two clients of the same role behind one, the case a send policy chooses from.
MCFanRoles == [c \in Clients |-> IF c = alice THEN 0 ELSE 1]

\* Two roles that exchange data in both directions.
MCEdge == << <<0, 1>> >>

\* alice and bob run on one host, carol on another.
MCHosts == [c \in Clients |-> IF c = carol THEN node2 ELSE node1]

\* Sockets bound to every interface, the port of each its own.
MCDistinctPorts ==
    [c \in Clients |-> <<anyHost, CASE c = alice -> 1 [] c = bob -> 2 [] OTHER -> 3>>]

MCServerEndpoint == <<node1, 9>>

=============================================================================
