--------------------------- MODULE MCExecutionPool ---------------------------
(* Two workers of one pool, and two callers that share a permit of three. *)
EXTENDS ExecutionPool

CONSTANTS w1, w2, m1

MCWorker == {w1, w2}
MCPool == <<<<w1, w2>>>>
MCParent == {m1}
MCWidth == [m \in MCParent |-> 3]

Ordered(class, count, panics) ==
  [kind |-> "ordered", priority |-> class, items |-> count, hint |-> w1, parent |-> m1,
   token |-> FALSE, faulty |-> panics]

\* Two jobs of high priority, or one of each other priority, or a job for the
\* first worker that may be cancelled.
MCCall ==
  {Ordered("high", 2, FALSE), Ordered("normal", 1, FALSE), Ordered("background", 1, TRUE),
   [kind |-> "single", priority |-> "high", items |-> 1, hint |-> w1, parent |-> m1,
    token |-> TRUE, faulty |-> FALSE]}
=============================================================================
