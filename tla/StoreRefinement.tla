--------------------------- MODULE StoreRefinement ---------------------------
(* NativeCommit implements SnapshotStore: the commits are the COMMIT       *)
(* records of the WAL, the stable ones those of its synchronized part.     *)
EXTENDS NativeCommit

CommitOf(entry) == [txn |-> entry.txn, csn |-> entry.csn]
CommitsIn(n) == {CommitOf(wal[i]) : i \in {j \in 1..n : wal[j].kind = "commit"}}

StatusOf(p) ==
  CASE p \in {"prepared", "running"} -> "open"
    [] p \in {"rejected", "failed"} -> "refused"
    [] OTHER -> p

\* The refinement mapping, one name per variable of the store that the commit
\* path does not have.
CommittedBar == CommitsIn(Len(wal))
StableBar == CommitsIn(walSynced)
ShownBar == IF mode = "up" THEN visible ELSE -1
StatusBar == [t \in Txn |-> StatusOf(phase[t])]

Store == INSTANCE SnapshotStore
  WITH committed <- CommittedBar, stable <- StableBar, shown <- ShownBar,
       status <- StatusBar, batch <- plan, receipt <- ackCsn

(***************************************************************************)
(* Every behaviour of the commit path, with its files, cohorts, faults and *)
(* recoveries, is one of a snapshot-isolated store in which a receipt of a *)
(* synchronized class is never lost, a definite failure is never           *)
(* committed, a batch never commits over a write its snapshot did not see, *)
(* and recovery shows exactly the surviving commits (commit_report_at,     *)
(* commit_group_at, open_with_marker_mode).                                *)
(***************************************************************************)
ImplementsStore == Store!Spec
=============================================================================
