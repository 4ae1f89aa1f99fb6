---------------------------- MODULE SnapshotStore ----------------------------
(***************************************************************************)
(* What the native commit path promises its clients, without files, pages, *)
(* blobs, cohorts or recovery: a store that clients write by batches under *)
(* snapshot isolation, first committer wins, with a durability class per   *)
(* batch.                                                                  *)
(*                                                                         *)
(* The store is the set of the commits it holds.  Commits are numbered     *)
(* from 1 without gaps; faults remove the newest ones, never one that is   *)
(* stable; the store shows all of them when it opens, and what it shows    *)
(* moves only with an acknowledgement.                                     *)
(***************************************************************************)
EXTENDS Integers

CONSTANT Txn      \* batches

VARIABLES
  committed,  \* the commits the store holds: [txn, csn]
  stable,     \* those that no fault removes
  shown,      \* the newest commit a new snapshot sees; Closed when not open
  status,     \* what the client of each batch knows
  batch,      \* each batch: the snapshot it read, its keys, its class
  receipt     \* the commit number its acknowledgement names

vars == <<committed, stable, shown, status, batch, receipt>>

Closed == -1

Holds(t) == \E e \in committed : e.txn = t

\* c is the number of the newest commit of C, 0 when C is empty.
Csns(C) == {0} \cup {e.csn : e \in C}
IsTop(C, c) == c \in Csns(C) /\ \A e \in C : e.csn <= c

\* C holds the oldest commits of D.
Oldest(C, D) == C \subseteq D /\ \A e \in C : \A d \in D : d.csn < e.csn => d \in C

Init ==
  /\ committed = {} /\ stable = {} /\ shown = 0
  /\ \A t \in Txn : status[t] = "unused"

-----------------------------------------------------------------------------
\* Steps that only add to what the clients know: the status of the others,
\* the batches and the receipts stay.
Learn(T, s) == \A t \in Txn : status'[t] = IF t \in T THEN s ELSE status[t]

\* A batch begins with the snapshot the store shows.
Prepare(t) ==
  /\ shown # Closed /\ status[t] = "unused"
  /\ Learn({t}, "open")
  /\ batch'[t].read = shown /\ \A u \in Txn \ {t} : batch'[u] = batch[u]
  /\ UNCHANGED <<committed, stable, shown, receipt>>

\* First committer wins: no commit newer than the snapshot wrote one of its
\* keys.  The commit takes the next number.
Commits(t) ==
  /\ status[t] = "open" /\ ~Holds(t)
  /\ \A e \in committed : batch[e.txn].keys \cap batch[t].keys # {} => e.csn <= batch[t].read
  /\ \E c \in Csns(committed) : IsTop(committed, c) /\ committed' = committed \cup {[txn |-> t, csn |-> c + 1]}

Commit(t) == Commits(t) /\ UNCHANGED <<stable, shown, status, batch, receipt>>

\* Everything committed so far becomes stable.
Harden == stable' = committed /\ UNCHANGED <<committed, shown, status, batch, receipt>>

\* The clients of T learn that their batches are committed, durably unless
\* they asked for Memory; from then on every snapshot sees them.
Acknowledge(T) ==
  /\ shown # Closed
  /\ \A t \in T :
       /\ status[t] = "open"
       /\ \E e \in committed : /\ e.txn = t /\ e.csn = receipt'[t] /\ e.csn > shown
                               /\ batch[t].class # "Memory" => e \in stable
  /\ \A t \in Txn \ T : receipt'[t] = receipt[t]
  /\ Learn(T, "acked")
  /\ IsTop(committed, shown')
  /\ UNCHANGED <<committed, stable, batch>>

\* A definite refusal: the batch is not committed and never will be.
Refuse(t) ==
  /\ status[t] = "open" /\ ~Holds(t)
  /\ Learn({t}, "refused")
  /\ UNCHANGED <<committed, stable, shown, batch, receipt>>

\* The client cannot tell whether its batch is committed.
LoseReply(t) ==
  /\ status[t] = "open" /\ Learn({t}, "unknown")
  /\ UNCHANGED committed \/ Commits(t)
  /\ UNCHANGED <<stable, shown, batch, receipt>>

\* The store closes, by an error, a kill or a power loss.  The oldest commits
\* survive, every stable one among them; open batches are refused for good
\* only if they are not committed.
Close ==
  /\ shown' = Closed
  /\ \A t \in Txn : IF status[t] = "open"
                    THEN status'[t] = "unknown" \/ (status'[t] = "refused" /\ ~Holds(t))
                    ELSE status'[t] = status[t]
  /\ \/ UNCHANGED <<committed, stable>>
     \/ UNCHANGED stable /\ \E t \in Txn : Commits(t) /\ status'[t] = "unknown"
     \/ stable \subseteq committed' /\ Oldest(committed', committed) /\ stable' = committed'
  /\ UNCHANGED <<batch, receipt>>

\* Recovery shows every commit the store holds; it may synchronize them.
Reopen ==
  /\ shown = Closed
  /\ IsTop(committed, shown')
  /\ stable' \in {stable, committed}
  /\ UNCHANGED <<committed, status, batch, receipt>>

Next ==
  \/ \E t \in Txn : Prepare(t) \/ Commit(t) \/ Refuse(t) \/ LoseReply(t)
  \/ Harden \/ \E T \in SUBSET Txn : Acknowledge(T)
  \/ Close \/ Reopen

Spec == Init /\ [][Next]_vars
=============================================================================
