----------------------------- MODULE MCBoostMpi -----------------------------
(* Two sockets of one process and one of another. *)
EXTENDS BoostMpi, TLC

CONSTANTS near, other, remote

MCAnySource == -1
MCRankOf == [s \in Sockets |-> IF s = remote THEN 1 ELSE 0]
MCRequested == [s \in Sockets |-> IF s = remote THEN 1 ELSE 0]

\* The sockets of the first process are treated alike.
MCSymmetry == Permutations(Sockets \ {remote})

=============================================================================
