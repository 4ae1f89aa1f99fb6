-------------------------- MODULE MCNativeCommit --------------------------
(* Instances of NativeCommit for TLC. *)
EXTENDS StoreRefinement, TLC

CONSTANTS t1, t2, t3, k1, k2, b1

Batch(keys, class, blob) == [keys |-> keys, class |-> class, blob |-> blob]

Inline(classes) == {Batch({k1, k2}, c, NoBlob) : c \in classes}
Large(classes) == {Batch({k2}, c, b1) : c \in classes}

EveryBatch == Inline(Class) \cup Large(Class) \cup {Batch({k1}, "Group", NoBlob)}
SynchronizedInline == Inline({"Strict", "Group"}) \cup {Batch({k1}, "Group", NoBlob)}
StrictBatches == Inline({"Strict"}) \cup Large({"Strict"})
TxnSymmetry == Permutations(Txn)
===========================================================================
