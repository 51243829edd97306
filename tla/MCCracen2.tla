----------------------------- MODULE MCCracen2 -----------------------------
(* A Cracen2 of two message types with short queues. *)
EXTENDS Cracen2

CONSTANTS int, float

\* Queues of one message each.
MCQueueSizes == [t \in Types |-> 1]

\* Enough of one type to fill its queue and the hand of the receiver, and one of the
\* other type behind them.
MCArrivals == [t \in Types |-> IF t = int THEN 2 ELSE 1]

=============================================================================
