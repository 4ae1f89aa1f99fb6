---------------------- MODULE MCTransactionResolution ----------------------
(* Instances of TransactionResolution for TLC. *)
EXTENDS TransactionResolution, TLC

CONSTANTS c1, c2, c3, k1

Ask(paths, tokens, classes) == [path : paths, token : tokens, class : classes]

MixedCalls ==
  Ask({"explicit"}, {k1}, {"Strict", "Memory"}) \cup Ask({"statement"}, {k1}, {"Strict"})
    \cup Ask({"statement"}, {None}, {"Memory"}) \cup Ask({"plain"}, {None}, {"Strict"})
StatementCalls == Ask({"statement"}, {k1, None}, {"Strict"}) \cup Ask({"plain"}, {None}, {"Strict"})
CallSymmetry == Permutations(Call)
=============================================================================
