----------------------- MODULE MCCoarseGrainedLocked -----------------------
(* The threads of a CracenClient: its management thread, one or two threads
   that send, and the program waiting for a number of neighbours. *)
EXTENDS CoarseGrainedLocked, TLC

CONSTANTS manager, manager2, sender, program

\* A sender takes any map, the program waits for one entry.
MCNeeded == [r \in Readers |-> IF r = program THEN 1 ELSE 0]

\* Entries come and go.
MCChanges == {1, -1}

=============================================================================
