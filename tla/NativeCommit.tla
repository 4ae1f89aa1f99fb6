---------------------------- MODULE NativeCommit ----------------------------
(***************************************************************************)
(* The commit path of the native database and its recovery.                *)
(*                                                                         *)
(* One handle owns one directory.  A client prepares a detached write      *)
(* batch against a snapshot; the handle commits batches one at a time      *)
(* (commit_optimistic) or as one group cohort (commit_group).  A commit    *)
(* publishes blobs, appends copy-on-write pages, appends one WAL           *)
(* transaction and finally installs the new root set.  Where it            *)
(* synchronizes depends on its durability class:                           *)
(*                                                                         *)
(*   Strict, Group alone   blobs, pages, sync pages, WAL, sync WAL, publish*)
(*   Memory                blobs, pages, WAL, publish                      *)
(*   Group cohort          (blobs, pages, WAL) for every member,           *)
(*                         sync pages, sync WAL, publish                   *)
(*                                                                         *)
(* Every step between two of those effects is an action, so a crash can    *)
(* fall between any two of them.  Three files are modelled, each with the  *)
(* part of it that is known to be stable: the page file, the WAL and the   *)
(* set of blob files.  Contents are abstracted: a page holds the           *)
(* transaction that wrote it, a root maps each key to a page.              *)
(***************************************************************************)
EXTENDS Integers, FiniteSets, Sequences, FiniteSetsExt

CONSTANTS Txn,          \* detached write batches
          Key,          \* write keys (ConflictTable's WriteKey)
          Content,      \* contents large enough to be stored as a blob
          NoBlob,       \* the batch stores its values inline
          Workload,     \* the batches a client may prepare
          MaxCohort,    \* bound on the members of one cohort
          Faults,       \* the faults the environment may inject
          MaxFaults     \* bound on their number

Class == {"Strict", "Group", "Memory"}

\* "io"         a write or a synchronization returns an error
\* "kill"       the process dies; what it wrote stays in the files
\* "power"      power is lost; exactly what was synchronized survives
\* "writeback"  power is lost; any of the unsynchronized writes survive too
FaultKinds == {"io", "kill", "power", "writeback"}

ASSUME ConstantsAssumption ==
  /\ NoBlob \notin Content
  /\ Workload \subseteq [keys : SUBSET Key, class : Class, blob : Content \cup {NoBlob}]
  /\ \A w \in Workload : w.keys # {}
  /\ MaxCohort \in Nat \ {0}
  /\ Faults \subseteq FaultKinds
  /\ MaxFaults \in Nat

VARIABLES
  \* the handle
  mode,           \* "up", "down", or "refused": open returned an error
  pc,             \* the next step of the commit that holds the writer lock
  grouped,        \* that commit is a cohort
  cohort,         \* its transactions, in cohort order
  pos,            \* the member being staged
  nextRoot,       \* the root being built
  nextConflicts,  \* the conflict table to install with it
  visible,        \* visible CSN of the installed root set, 0 at genesis
  root,           \* the installed root: the page that holds each key, 0 if none
  conflicts,      \* CSN of the latest writer of each key, 0 if none
  blobIndex,      \* the blobs the handle knows of; their number is its generation
  pagesPoisoned,  \* an append or synchronization of the page file failed
  walPoisoned,    \* the same for the WAL
  \* the files
  pages,          \* the page file: the transaction that wrote each page
  pagesSynced,    \* length of its stable prefix
  wal,            \* the WAL, one entry per record that recovery tells apart
  walSynced,      \* length of its stable prefix
  blobTemps,      \* contents with a temporary blob file
  blobs,          \* contents with a final blob file
  blobData,       \* those with a file whose data was synchronized
  blobNames,      \* those whose final name was synchronized with its directory
  blobTorn,       \* final files that lost their data to a power loss
  \* the clients
  phase,          \* what a client knows of its batch
  plan,           \* the batch: snapshot it read, keys, class, blob
  ackCsn,         \* the CSN its receipt names
  faults          \* faults injected so far

handle == <<mode, pc, grouped, cohort, pos, nextRoot, nextConflicts, visible,
            root, conflicts, blobIndex, pagesPoisoned, walPoisoned>>
blobFiles == <<blobTemps, blobs, blobData, blobNames, blobTorn>>
files == <<pages, pagesSynced, wal, walSynced, blobFiles>>
clients == <<phase, plan, ackCsn>>
vars == <<handle, files, clients, faults>>

-----------------------------------------------------------------------------
Phase == {"unused", "prepared", "running", "acked", "rejected", "failed", "unknown"}
Step == {"idle", "admit", "stage", "promote", "syncDirectory", "pages", "syncPages",
         "wal", "syncWal", "publish"}

Plan == [read : Nat, keys : SUBSET Key, class : Class, blob : Content \cup {NoBlob}]
NoPlan == [read |-> 0, keys |-> {}, class |-> "Strict", blob |-> NoBlob]

Root == [Key -> Nat]
EmptyRoot == [k \in Key |-> 0]

\* Records of one transaction: BEGIN (with its mutations) and COMMIT, or the
\* ABORT that recovery writes.  A COMMIT names its CSN and its roots.  The blob
\* generation it also carries never fails an open here: it only grows, and that
\* of the last COMMIT is the floor of the store it is compared with.
BeginEntry(t) == [kind |-> "begin", txn |-> t, csn |-> 0, root |-> EmptyRoot]
AbortEntry(t) == [kind |-> "abort", txn |-> t, csn |-> 0, root |-> EmptyRoot]
CommitEntry(t, c, r) == [kind |-> "commit", txn |-> t, csn |-> c, root |-> r]

Entry == [kind : {"begin", "abort", "commit"}, txn : Txn, csn : Nat, root : Root]

HandleOK ==
  /\ mode \in {"up", "down", "refused"}
  /\ pc \in Step
  /\ grouped \in BOOLEAN
  /\ cohort \in Seq(Txn)
  /\ pos \in Nat
  /\ nextRoot \in Root /\ root \in Root
  /\ nextConflicts \in [Key -> Nat] /\ conflicts \in [Key -> Nat]
  /\ visible \in Nat
  /\ pagesPoisoned \in BOOLEAN /\ walPoisoned \in BOOLEAN

FilesOK ==
  /\ pages \in Seq(Txn) /\ pagesSynced \in 0..Len(pages)
  /\ wal \in Seq(Entry) /\ walSynced \in 0..Len(wal)
  /\ blobTemps \subseteq Content /\ blobs \subseteq Content /\ blobData \subseteq Content
  /\ blobNames \subseteq blobs /\ blobTorn \subseteq blobs /\ blobIndex \subseteq blobs

ClientsOK ==
  /\ phase \in [Txn -> Phase]
  /\ plan \in [Txn -> Plan]
  /\ ackCsn \in [Txn -> Nat]

TypeOK == HandleOK /\ FilesOK /\ ClientsOK /\ faults \in 0..MaxFaults

Init ==
  /\ mode = "up" /\ pc = "idle" /\ grouped = FALSE /\ cohort = <<>> /\ pos = 0
  /\ nextRoot = EmptyRoot /\ nextConflicts = EmptyRoot
  /\ visible = 0 /\ root = EmptyRoot /\ conflicts = EmptyRoot
  /\ pagesPoisoned = FALSE /\ walPoisoned = FALSE
  /\ pages = <<>> /\ pagesSynced = 0 /\ wal = <<>> /\ walSynced = 0
  /\ blobTemps = {} /\ blobs = {} /\ blobData = {} /\ blobNames = {} /\ blobTorn = {}
  /\ blobIndex = {}
  /\ phase = [t \in Txn |-> "unused"]
  /\ plan = [t \in Txn |-> NoPlan]
  /\ ackCsn = [t \in Txn |-> 0]
  /\ faults = 0

-----------------------------------------------------------------------------
(* A client prepares a batch against the current snapshot (begin_batch).   *)
PrepareBatch(t) ==
  /\ mode = "up" /\ pc = "idle"
  /\ phase[t] = "unused"
  /\ \E w \in Workload :
       plan' = [plan EXCEPT ![t] = [read |-> visible, keys |-> w.keys,
                                    class |-> w.class, blob |-> w.blob]]
  /\ phase' = [phase EXCEPT ![t] = "prepared"]
  /\ UNCHANGED <<handle, files, ackCsn, faults>>

\* ConflictTable::validate: no key has a writer newer than the snapshot.
Validates(table, t) == \A k \in plan[t].keys : table[k] <= plan[t].read

\* ConflictTable::publish_committed
PublishCommitted(table, t, c) ==
  [k \in Key |-> IF k \in plan[t].keys /\ table[k] < c THEN c ELSE table[k]]

\* Commits are steps of one thread under the writer lock; `held` is what only
\* begin and end of a commit change.
held == <<mode, grouped, cohort, visible, root, conflicts, pagesPoisoned, walPoisoned>>

ReleaseWriter ==
  /\ pc' = "idle" /\ grouped' = FALSE /\ cohort' = <<>> /\ pos' = 0
  /\ nextRoot' = EmptyRoot /\ nextConflicts' = EmptyRoot

\* Mutant: a commit starts from the empty root instead of the current one.
BaseRootNotRebased == EmptyRoot

\* The root a commit builds on: base_roots of the root transaction.
BaseRoot == root

\* commit_optimistic: take the writer lock, validate against the conflict
\* table, rebase on the current root.
BeginSingleton(t) ==
  /\ mode = "up" /\ pc = "idle"
  /\ phase[t] = "prepared"
  /\ Validates(conflicts, t)
  /\ phase' = [phase EXCEPT ![t] = "running"]
  /\ pc' = "stage" /\ grouped' = FALSE /\ cohort' = <<t>> /\ pos' = 1
  /\ nextRoot' = BaseRoot
  /\ nextConflicts' = PublishCommitted(conflicts, t, visible + 1)
  /\ UNCHANGED <<mode, visible, root, conflicts, blobIndex, pagesPoisoned, walPoisoned,
                 files, plan, ackCsn, faults>>

RejectSingleton(t) ==
  /\ mode = "up" /\ pc = "idle"
  /\ phase[t] = "prepared"
  /\ ~Validates(conflicts, t)
  /\ phase' = [phase EXCEPT ![t] = "rejected"]
  /\ UNCHANGED <<handle, files, plan, ackCsn, faults>>

\* commit_group_at: take the writer lock, then admit the batches in order.
BeginGroup ==
  /\ mode = "up" /\ pc = "idle"
  /\ \E t \in Txn : phase[t] = "prepared"
  /\ pc' = "admit" /\ grouped' = TRUE /\ cohort' = <<>> /\ pos' = 1
  /\ nextRoot' = BaseRoot /\ nextConflicts' = conflicts
  /\ UNCHANGED <<mode, visible, root, conflicts, blobIndex, pagesPoisoned, walPoisoned,
                 files, clients, faults>>

\* One turn of the loop of GroupCommitAdmissionContext::admit.  A member is
\* validated against the table as the accepted members before it leave it.
\* Mutant: only against the table of the commits before the cohort.
AdmissibleBeforeCohort(t) == plan[t].class = "Group" /\ Validates(conflicts, t)

Admissible(t) == plan[t].class = "Group" /\ Validates(nextConflicts, t)

AdmitMember(t) ==
  /\ mode = "up" /\ pc = "admit"
  /\ phase[t] = "prepared" /\ Admissible(t)
  /\ Len(cohort) < MaxCohort
  /\ phase' = [phase EXCEPT ![t] = "running"]
  /\ cohort' = Append(cohort, t)
  /\ nextConflicts' = PublishCommitted(nextConflicts, t, visible + Len(cohort) + 1)
  /\ UNCHANGED <<mode, pc, grouped, pos, nextRoot, visible, root, conflicts, blobIndex,
                 pagesPoisoned, walPoisoned, files, plan, ackCsn, faults>>

RejectMember(t) ==
  /\ mode = "up" /\ pc = "admit"
  /\ phase[t] = "prepared" /\ ~Admissible(t)
  /\ phase' = [phase EXCEPT ![t] = "rejected"]
  /\ UNCHANGED <<handle, files, plan, ackCsn, faults>>

EndAdmission ==
  /\ mode = "up" /\ pc = "admit" /\ cohort # <<>>
  /\ pc' = "stage"
  /\ UNCHANGED <<held, pos, nextRoot, nextConflicts, blobIndex, files, clients, faults>>

\* Nobody was admitted: the cohort writes nothing.
EndEmptyAdmission ==
  /\ mode = "up" /\ pc = "admit" /\ cohort = <<>>
  /\ ReleaseWriter
  /\ UNCHANGED <<mode, visible, root, conflicts, blobIndex, pagesPoisoned, walPoisoned,
                 files, clients, faults>>

-----------------------------------------------------------------------------
(* The durable steps of one member, in the order of the code.              *)
Current == cohort[pos]
Blob == plan[Current].blob

\* Mutant: a lone Group commit is not synchronized.
SynchronizeStrictOnly == grouped \/ plan[cohort[1]].class = "Strict"

\* A cohort synchronizes whatever its members say; a singleton unless Memory.
Synchronize == grouped \/ plan[cohort[1]].class # "Memory"

\* Mutants: no directory synchronization; a Memory commit without WAL
\* records; a cohort without page synchronization.
AfterPromoteNoSync == "pages"
AfterPagesMemorySkipsWal == IF grouped THEN "wal" ELSE IF Synchronize THEN "syncPages" ELSE "publish"
AfterWalNoPageSync ==
  IF pos < Len(cohort) THEN "stage" ELSE IF Synchronize THEN "syncWal" ELSE "publish"

\* Where the order of the durable steps depends on the class.
AfterPromote == IF Synchronize THEN "syncDirectory" ELSE "pages"
AfterPages == IF Synchronize /\ ~grouped THEN "syncPages" ELSE "wal"
AfterWal ==
  IF pos < Len(cohort) THEN "stage"
  ELSE IF grouped THEN "syncPages"
  ELSE IF Synchronize THEN "syncWal" ELSE "publish"

SkipBlob ==
  /\ mode = "up" /\ pc = "stage" /\ Blob = NoBlob
  /\ pc' = "pages"
  /\ UNCHANGED <<held, pos, nextRoot, nextConflicts, blobIndex, files, clients, faults>>

\* BlobStore::stage finds the final file: nothing is written or synchronized.
ReuseBlob ==
  /\ mode = "up" /\ pc = "stage" /\ Blob \in blobs
  /\ blobIndex' = blobIndex \cup {Blob}
  /\ pc' = "pages"
  /\ UNCHANGED <<held, pos, nextRoot, nextConflicts, files, clients, faults>>

StageBlob ==
  /\ mode = "up" /\ pc = "stage" /\ Blob \in Content \ (blobs \cup blobTemps)
  /\ blobTemps' = blobTemps \cup {Blob}
  /\ blobData' = IF Synchronize THEN blobData \cup {Blob} ELSE blobData
  /\ pc' = "promote"
  /\ UNCHANGED <<held, pos, nextRoot, nextConflicts, blobIndex, pages, pagesSynced, wal,
                 walSynced, blobs, blobNames, blobTorn, clients, faults>>

\* BlobStore::publish renames; the index learns of the blob after the
\* directory is synchronized, or at once when nothing is synchronized.
PromoteBlob ==
  /\ mode = "up" /\ pc = "promote"
  /\ blobTemps' = blobTemps \ {Blob}
  /\ blobs' = blobs \cup {Blob}
  /\ blobIndex' = IF Synchronize THEN blobIndex ELSE blobIndex \cup {Blob}
  /\ pc' = AfterPromote
  /\ UNCHANGED <<held, pos, nextRoot, nextConflicts, pages, pagesSynced, wal, walSynced,
                 blobData, blobNames, blobTorn, clients, faults>>

SyncBlobDirectory ==
  /\ mode = "up" /\ pc = "syncDirectory"
  /\ blobNames' = blobs
  /\ blobIndex' = blobIndex \cup {Blob}
  /\ pc' = "pages"
  /\ UNCHANGED <<held, pos, nextRoot, nextConflicts, pages, pagesSynced, wal, walSynced,
                 blobTemps, blobs, blobData, blobTorn, clients, faults>>

\* commit_engine_roots appends copy-on-write pages; the keys the batch does not
\* write keep their pages.
AppendPages ==
  /\ mode = "up" /\ pc = "pages" /\ ~pagesPoisoned
  /\ pages' = Append(pages, Current)
  /\ nextRoot' = [k \in Key |-> IF k \in plan[Current].keys THEN Len(pages) + 1
                                                           ELSE nextRoot[k]]
  /\ pc' = AfterPages
  /\ UNCHANGED <<held, pos, nextConflicts, blobIndex, pagesSynced, wal, walSynced,
                 blobFiles, clients, faults>>

SyncPages ==
  /\ mode = "up" /\ pc = "syncPages" /\ ~pagesPoisoned
  /\ pagesSynced' = Len(pages)
  /\ pc' = IF grouped THEN "syncWal" ELSE "wal"
  /\ UNCHANGED <<held, pos, nextRoot, nextConflicts, blobIndex, pages, wal, walSynced,
                 blobFiles, clients, faults>>

\* encode_transaction and WalFile::append_records; a cohort then stages its
\* next member on the root this one built.
\* Mutant: a commit takes the visible CSN, not the one after it.
TransactionRecordsAtVisible ==
  <<BeginEntry(Current), CommitEntry(Current, visible + pos - 1, nextRoot)>>

TransactionRecords ==
  <<BeginEntry(Current), CommitEntry(Current, visible + pos, nextRoot)>>

AppendWal ==
  /\ mode = "up" /\ pc = "wal" /\ ~walPoisoned
  /\ wal' = wal \o TransactionRecords
  /\ pos' = IF pos < Len(cohort) THEN pos + 1 ELSE pos
  /\ pc' = AfterWal
  /\ UNCHANGED <<held, nextRoot, nextConflicts, blobIndex, pages, pagesSynced, walSynced,
                 blobFiles, clients, faults>>

SyncWal ==
  /\ mode = "up" /\ pc = "syncWal" /\ ~walPoisoned
  /\ walSynced' = Len(wal)
  /\ pc' = "publish"
  /\ UNCHANGED <<held, pos, nextRoot, nextConflicts, blobIndex, pages, pagesSynced, wal,
                 blobFiles, clients, faults>>

InCohort(t) == \E i \in 1..Len(cohort) : cohort[i] = t
PositionOf(t) == CHOOSE i \in 1..Len(cohort) : cohort[i] = t

\* RootTransaction::commit or RootGroupTransaction::publish, the conflict table
\* and the receipts.
PublishRoot ==
  /\ mode = "up" /\ pc = "publish"
  /\ visible' = visible + Len(cohort)
  /\ root' = nextRoot /\ conflicts' = nextConflicts
  /\ phase' = [t \in Txn |-> IF InCohort(t) THEN "acked" ELSE phase[t]]
  /\ ackCsn' = [t \in Txn |-> IF InCohort(t) THEN visible + PositionOf(t) ELSE ackCsn[t]]
  /\ ReleaseWriter
  /\ UNCHANGED <<mode, blobIndex, pagesPoisoned, walPoisoned, files, plan, faults>>

\* A checkpoint or outcome record is appended and synchronized by itself
\* (checkpoint_at, reserve_optimistic_resolution, begin_resolution).  Recovery
\* of commits ignores it; what matters here is that it synchronizes the WAL.
SyncOtherRecord ==
  /\ mode = "up" /\ pc = "idle" /\ ~walPoisoned
  /\ walSynced' = Len(wal)
  /\ UNCHANGED <<handle, pages, pagesSynced, wal, blobFiles, clients, faults>>

-----------------------------------------------------------------------------
(* Errors.  A singleton that fails releases the writer lock and the handle *)
(* goes on; after a failed cohort the handle is dropped (the contract of   *)
(* commit_group, which the scheduler keeps by closing the database).       *)
DropHandle ==
  /\ mode' = "down"
  /\ ReleaseWriter
  /\ visible' = 0 /\ root' = EmptyRoot /\ conflicts' = EmptyRoot
  /\ blobIndex' = {} /\ pagesPoisoned' = FALSE /\ walPoisoned' = FALSE
  /\ phase' = [t \in Txn |-> CASE phase[t] = "running" -> "unknown"
                               [] phase[t] = "prepared" -> "failed"
                               [] OTHER -> phase[t]]
  /\ UNCHANGED <<plan, ackCsn>>

GiveUp(outcome, badPages, badWal) ==
  \/ /\ grouped
     /\ DropHandle
  \/ /\ ~grouped
     /\ ReleaseWriter
     /\ pagesPoisoned' = IF badPages THEN TRUE ELSE pagesPoisoned
     /\ walPoisoned' = IF badWal THEN TRUE ELSE walPoisoned
     /\ phase' = [phase EXCEPT ![Current] = outcome]
     /\ UNCHANGED <<mode, visible, root, conflicts, blobIndex, plan, ackCsn>>

Inject(fault) == fault \in Faults /\ faults < MaxFaults /\ faults' = faults + 1

\* The step finds what an earlier failure left behind: a temporary blob file,
\* or a poisoned file.
FailBlocked ==
  /\ mode = "up"
  /\ \/ pc = "stage" /\ Blob \in blobTemps \ blobs
     \/ pc \in {"pages", "syncPages"} /\ pagesPoisoned
     \/ pc \in {"wal", "syncWal"} /\ walPoisoned
  /\ GiveUp("failed", FALSE, FALSE)
  /\ UNCHANGED <<files, faults>>

FailBlob ==
  /\ mode = "up" /\ Inject("io")
  /\ \/ /\ pc = "stage" /\ Blob \in Content \ (blobs \cup blobTemps)
        /\ blobTemps' \in {blobTemps, blobTemps \cup {Blob}}
     \/ /\ pc \in {"promote", "syncDirectory"}
        /\ UNCHANGED blobTemps
  /\ GiveUp("failed", FALSE, FALSE)
  /\ UNCHANGED <<pages, pagesSynced, wal, walSynced, blobs, blobData, blobNames, blobTorn>>

\* A failed append or synchronization poisons the page file; a failure while
\* the tree is being built only leaves pages nobody refers to.
FailPages ==
  /\ mode = "up" /\ Inject("io")
  /\ \/ /\ pc = "pages" /\ ~pagesPoisoned
        /\ pages' \in {pages, Append(pages, Current)}
        /\ \E bad \in BOOLEAN : GiveUp("failed", bad, FALSE)
     \/ /\ pc = "syncPages" /\ ~pagesPoisoned
        /\ UNCHANGED pages
        /\ GiveUp("failed", TRUE, FALSE)
  /\ UNCHANGED <<pagesSynced, wal, walSynced, blobFiles>>

\* Mutant: a failed append is reported as a definite failure.
WalFailureDefinite == "failed"

\* After the append began nobody knows whether the records will be recovered.
WalFailure == "unknown"

\* A failed append leaves a prefix of the transaction's records.
FailWal ==
  /\ mode = "up" /\ Inject("io")
  /\ \/ /\ pc = "wal" /\ ~walPoisoned
        /\ \E written \in {<<>>, <<BeginEntry(Current)>>, TransactionRecords} :
             wal' = wal \o written
     \/ /\ pc = "syncWal" /\ ~walPoisoned
        /\ UNCHANGED wal
  /\ GiveUp(WalFailure, FALSE, TRUE)
  /\ UNCHANGED <<pages, pagesSynced, walSynced, blobFiles>>

-----------------------------------------------------------------------------
(* Crashes.  The process may die in the middle of a WAL append.            *)
Kill ==
  /\ mode = "up" /\ Inject("kill")
  /\ DropHandle
  /\ \/ UNCHANGED wal
     \/ /\ pc = "wal" /\ ~walPoisoned
        /\ wal' = Append(wal, BeginEntry(Current))
  /\ UNCHANGED <<pages, pagesSynced, walSynced, blobFiles>>

\* The files after a power loss hold these parts of what was written.
Survive(newPages, newWal, names, data) ==
  /\ pages' = SubSeq(pages, 1, newPages) /\ pagesSynced' = newPages
  /\ wal' = SubSeq(wal, 1, newWal) /\ walSynced' = newWal
  /\ blobs' = names /\ blobNames' = names
  /\ blobData' = data /\ blobTorn' = names \ data
  /\ UNCHANGED blobTemps

PowerLoss ==
  /\ mode \in {"up", "down"}
  /\ DropHandle
  /\ \/ /\ Inject("power")
        /\ Survive(pagesSynced, walSynced, blobNames, blobData \cap blobNames)
     \/ /\ Inject("writeback")
        /\ \E newPages \in pagesSynced..Len(pages), newWal \in walSynced..Len(wal),
              names \in {n \in SUBSET blobs : blobNames \subseteq n} :
             \E data \in {d \in SUBSET names : blobData \cap names \subseteq d} :
               Survive(newPages, newWal, names, data)

-----------------------------------------------------------------------------
(* Open: open_with_marker_mode, recover_wal_after, recover_committed_roots *)
(* and replay_conflicts.                                                   *)
CommitsOf(log) == {i \in 1..Len(log) : log[i].kind = "commit"}

\* recover_wal_after: every record belongs to one transaction at a time.
WellFormed(log) ==
  \A i \in 1..Len(log) :
    IF log[i].kind = "begin"
    THEN i < Len(log) => log[i + 1].kind # "begin" /\ log[i + 1].txn = log[i].txn
    ELSE i > 1 /\ log[i - 1].kind = "begin" /\ log[i - 1].txn = log[i].txn

\* The transaction at the end of the log has neither COMMIT nor ABORT.
Dangling(log) == log # <<>> /\ log[Len(log)].kind = "begin"

\* validate_commit_sequence_after: CSNs count up from 1 and a snapshot is
\* never newer than the commit before it.
ContiguousCsns(log) ==
  \A i \in CommitsOf(log) :
    /\ \/ log[i].csn = 1
       \/ \E j \in CommitsOf(log) : j < i /\ log[j].csn = log[i].csn - 1
    /\ \A j \in CommitsOf(log) : j < i => log[j].csn < log[i].csn
    /\ plan[log[i].txn].read < log[i].csn

WritersOf(log, k) == {i \in CommitsOf(log) : k \in plan[log[i].txn].keys}

RecoveredCsn(log) == IF CommitsOf(log) = {} THEN 0 ELSE log[Max(CommitsOf(log))].csn
RecoveredRoot(log) == IF CommitsOf(log) = {} THEN EmptyRoot ELSE log[Max(CommitsOf(log))].root
RecoveredConflicts(log) ==
  [k \in Key |-> IF WritersOf(log, k) = {} THEN 0 ELSE log[Max(WritersOf(log, k))].csn]

\* Every retained root is structurally complete; the latest one is also decoded,
\* which reads its blobs.
RootsComplete(log) ==
  /\ \A i \in CommitsOf(log), k \in Key : log[i].root[k] <= Len(pages)
  /\ \A k \in Key :
       LET page == RecoveredRoot(log)[k]
       IN  page # 0 => plan[pages[page]].blob \in blobs \cup {NoBlob}

\* replay_conflicts validates every commit against the ones before it.
ConflictsReplay(log) ==
  \A i, j \in CommitsOf(log) :
    i < j => \A k \in plan[log[i].txn].keys \cap plan[log[j].txn].keys :
               log[i].csn <= plan[log[j].txn].read

\* The WAL is read, and a dangling transaction closed by a synchronized ABORT,
\* once every blob file decodes and before the roots are validated.
LogReadable == blobTorn = {} /\ WellFormed(wal)
Recoverable == LogReadable /\ ContiguousCsns(wal) /\ RootsComplete(wal) /\ ConflictsReplay(wal)

CloseDangling ==
  IF LogReadable /\ Dangling(wal)
  THEN /\ wal' = Append(wal, AbortEntry(wal[Len(wal)].txn))
       /\ walSynced' = Len(wal) + 1
  ELSE UNCHANGED <<wal, walSynced>>

Open ==
  /\ mode = "down" /\ Recoverable
  /\ mode' = "up"
  /\ CloseDangling
  /\ visible' = RecoveredCsn(wal)
  /\ root' = RecoveredRoot(wal)
  /\ conflicts' = RecoveredConflicts(wal)
  /\ blobIndex' = blobs
  /\ blobTemps' = {} /\ blobData' = blobData \cap blobs
  /\ UNCHANGED <<pc, grouped, cohort, pos, nextRoot, nextConflicts, pagesPoisoned, walPoisoned,
                 pages, pagesSynced, blobs, blobNames, blobTorn, clients, faults>>

OpenRefused ==
  /\ mode = "down" /\ ~Recoverable
  /\ mode' = "refused"
  /\ CloseDangling
  /\ UNCHANGED <<pc, grouped, cohort, pos, nextRoot, nextConflicts, visible, root, conflicts,
                 blobIndex, pagesPoisoned, walPoisoned, pages, pagesSynced, blobFiles, clients,
                 faults>>

-----------------------------------------------------------------------------
Next ==
  \/ \E t \in Txn : \/ PrepareBatch(t) \/ BeginSingleton(t) \/ RejectSingleton(t)
                    \/ AdmitMember(t) \/ RejectMember(t)
  \/ BeginGroup \/ EndAdmission \/ EndEmptyAdmission
  \/ SkipBlob \/ ReuseBlob \/ StageBlob \/ PromoteBlob \/ SyncBlobDirectory
  \/ AppendPages \/ SyncPages \/ AppendWal \/ SyncWal \/ PublishRoot \/ SyncOtherRecord
  \/ FailBlocked \/ FailBlob \/ FailPages \/ FailWal
  \/ Kill \/ PowerLoss \/ Open \/ OpenRefused

Spec == Init /\ [][Next]_vars

-----------------------------------------------------------------------------
CommittedAt(t, c, n) ==
  \E i \in 1..n : wal[i].kind = "commit" /\ wal[i].txn = t /\ wal[i].csn = c

(***************************************************************************)
(* A Strict or Group receipt is backed by a COMMIT record in the stable    *)
(* part of the WAL, with the CSN the receipt names, whatever fails later   *)
(* (commit_report_at, GroupCommitStorage::commit).                         *)
(***************************************************************************)
AckDurable ==
  \A t \in Txn : phase[t] = "acked" /\ plan[t].class # "Memory" => CommittedAt(t, ackCsn[t], walSynced)

(***************************************************************************)
(* First committer wins: of two commits in the log that write a common     *)
(* key, the later one read a snapshot that contains the earlier one, also  *)
(* for members of one cohort (ConflictTable::validate, admit, and the      *)
(* table that replay_conflicts rebuilds).                                  *)
(***************************************************************************)
FirstCommitterWins ==
  \A i, j \in CommitsOf(wal) :
    i < j /\ plan[wal[i].txn].keys \cap plan[wal[j].txn].keys # {}
      => wal[i].csn <= plan[wal[j].txn].read

(***************************************************************************)
(* The installed root shows, for every key, the page of the last commit    *)
(* that wrote it: no commit of a cohort or after a recovery builds on a    *)
(* stale root.                                                             *)
(***************************************************************************)
RootShowsLastWriter ==
  mode = "up" =>
    \A k \in Key :
      LET writers == {i \in WritersOf(wal, k) : wal[i].csn <= visible}
      IN  IF writers = {} THEN root[k] = 0
          ELSE root[k] \in 1..Len(pages) /\ pages[root[k]] = wal[Max(writers)].txn

(***************************************************************************)
(* A batch whose client was told it did not commit has no COMMIT record,   *)
(* so no recovery brings it back.                                          *)
(***************************************************************************)
RejectedNeverCommits ==
  \A t \in Txn : phase[t] \in {"rejected", "failed"} => \A i \in CommitsOf(wal) : wal[i].txn # t

(***************************************************************************)
(* As long as power holds, nothing that was acknowledged is lost: a        *)
(* receipt of any class names a COMMIT record that is in the log from then *)
(* on, and a handle that goes down, killed or dropped after a failed       *)
(* cohort, leaves a directory that open accepts (commit_report_at,         *)
(* commit_group, open_with_marker_mode).                                   *)
(***************************************************************************)
KeptWhilePowered ==
  [][\/ PowerLoss
     \/ /\ mode = "up" /\ mode' = "down" => Recoverable'
        /\ \A t \in Txn :
             phase'[t] = "acked" /\ (phase[t] = "acked" => CommittedAt(t, ackCsn[t], Len(wal)))
               => CommittedAt(t, ackCsn[t], Len(wal))']_vars

(***************************************************************************)
(* One fault, a loss of arbitrary unsynchronized writes included, leaves a *)
(* directory that open accepts when every batch was Strict: blob data,     *)
(* blob name, pages and records are synchronized in the order in which     *)
(* open depends on them.                                                   *)
(***************************************************************************)
StrictOpens ==
  mode = "refused" => \E t \in Txn : phase[t] # "unused" /\ plan[t].class # "Strict"

(***************************************************************************)
(* Open never refuses a directory that holds a write it acknowledged with  *)
(* Strict or Group durability.                                             *)
(***************************************************************************)
AckedRecover ==
  mode = "refused" => \A t \in Txn : ~(phase[t] = "acked" /\ plan[t].class # "Memory")

=============================================================================
