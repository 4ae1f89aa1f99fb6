----------------------------- MODULE MCGovernor -----------------------------
(* Small instances of the resource governor. *)
EXTENDS Governor, TLC

\* With two schedulable threads: a call of each priority, the background one
\* as wide as the machine, and one that is over its class's limit.
MCCall == {[class |-> "Mutation", request |-> Tokens(1, 0, 1)],
           [class |-> "ForegroundBounded", request |-> Tokens(1, 1, 0)],
           [class |-> "Bulk", request |-> Tokens(2, 0, 0)],
           [class |-> "ForegroundPoint", request |-> Tokens(2, 0, 0)]}

Symmetry == Permutations(Caller)
=============================================================================
