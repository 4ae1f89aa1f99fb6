# Hyphae: TLA+ models of the native database

Hyphae is an embedded and served data store. Its native database keeps one data
directory: a write-ahead log (WAL) shared by all engines, copy-on-write page files,
content-addressed blob files, root manifests, snapshot pins and retention anchors. One
process owns a directory at a time. This project models the parts of it where steps of
several actors, crashes and partial failures meet, checks them with TLC on small
instances, and proves the central promises of the commit path and of the resource governor
with TLAPS for every instance.

Paths below are relative to the repository. `RT` is
`crates/hyphae-native-runtime/src/lib.rs`; `GC` is `group_commit.rs`, `governor.rs` and
`execution.rs` are beside it; `OP` is `crates/hyphae-native-product/src/operation.rs`.
`PROJECT.json` maps every definition to the lines it models.

## 1. The system

| Part | State | Operations that change it | Interacts with | What is hard |
|---|---|---|---|---|
| Commit path (`RT`, `wal_codec.rs`, `hyphae-native-mvcc`) | root set, conflict table, page file, WAL, blob store | prepare a batch, commit one, commit a cohort, recover | every store, scheduler | order of synchronizations per durability class, crashes between them, cohort members that conflict with each other |
| Page file, WAL, blob store (`hyphae-native-pages`, `-wal`, `-blobs`) | file contents, stable prefix, poison flag | append, sync, stage, promote, repair | commit path, maintenance | uncertain outcome of a failed sync, files whose name is not yet stable |
| Maintenance (`RT`, `snapshot_pins.rs`, `hyphae-native-manifest`) | page generations, manifests, pins, anchors | vacuum, checkpoint, pin, unpin, collect generations, retain WAL, collect blobs | commit path, open | each operation changes several files; what one removes another may need; caller goes on after an error |
| Commit scheduler (`GC`) | gate, channel, request controls, expiry budget | prepare, submit, enqueue, cancel, wait, collect, execute, sweep, shut down | governor, commit path, expiry | worker, clients and owner run concurrently; bounded queue with weighted slots; deadlines against late answers |
| Active expiry (`RT`, `GC`) | deadline, budget, due keys | sweep | scheduler | fairness between foreground and sweep |
| Durable transaction resolutions (`RT`, `wal_codec.rs`, `OP`) | reservations and outcomes in the WAL, statuses in the session | reserve, commit, fail, recover, look up | commit path, retention, sessions | outcome of a transaction whose client lost its answer, retries, two paths that take runtime ids at different times |
| Resource governor (`governor.rs`) | units in use, waiters by class | admit, shrink, release, cancel | every operation | turns handed from thread to thread, lost wake-ups, starvation |
| Execution pool (`execution.rs`) | worker threads, queues, targeted slots, child permits | submit, take, complete, cancel, shut down | governor, queries | hand-off, cancellation against completion, shutdown |
| Sessions and daemon (`local_session.rs`, `hyphae-native-product`, `hyphae-native-daemon`) | connections, sessions, tokens | handshake, requests, drain | scheduler | drain against new work |
| Directory ownership (`directory.rs`) | lock, format marker | create, open | all | crash during creation |
| Backup and migration (`backup.rs`, `migration.rs`, `external_migration.rs`) | copied files, manifest | export, import | maintenance | crash before the final manifest |
| B+tree (`hyphae-native-btree`) | none: pure copy-on-write | insert, delete, scan | commit path | splits and merges |
| Catalog, records, structures, SQL, search, vectors | data of one root | pure functions of a snapshot | commit path | arithmetic and ranking |
| Legacy storage (`hyphae-storage`), engine, query, retrieval | append log, snapshots | append, rotate, open | server | crash between log and snapshot |
| Protocol, server, client, CLI, agent hooks, embedding | transport and user interface | requests | sessions | agent spool |

The correctness properties that matter, part by part:

- *Commit path.* A receipt is durable to the degree its class promises. Of two
  transactions that write a common key, the later read the earlier. The installed root
  shows the last writer of each key. A definite failure never turns into a commit. A
  directory opens after any crash.
- *Maintenance.* No acknowledged commit is lost, the current root and every pinned root
  stay readable, transaction identifiers are not used twice, leftovers of an interrupted
  operation block nothing, and a directory opens.
- *Scheduler.* What a client is told is true. Requests run in admission order. A cohort
  runs whole and alone. The slot count is exact. Shutdown drains. A due sweep is delayed
  by a bounded amount. Every call and every shutdown ends.
- *Resolutions.* A token commits once. Open comes to a definite outcome for every
  reservation, and it stays. A status lookup tells the truth.
- *Governor.* It never grants more than it has. A turn is never lost, nobody who must act
  sleeps, and background work that fits is overtaken a bounded number of times.
- *Execution pool.* Every job runs once or is withdrawn, every child permit comes back, no
  job waits for sleeping workers, and every call ends.

## 2. Modules

| Module | Models |
|---|---|
| `NativeCommit` | the commit path and recovery, every durable step an action |
| `SnapshotStore` | what the commit path promises: a snapshot-isolated store without files |
| `StoreRefinement` | the mapping under which `NativeCommit` implements `SnapshotStore` |
| `NativeCommitProofs`, `ReceiptProofs`, `FirstCommitterProofs` | theorems about the commit path: types, receipts, conflicts |
| `RefinementProofs` | the proof that `NativeCommit` implements `SnapshotStore` |
| `Retention` | vacuum, checkpoint, pins, WAL retention, blob collection and the recovery of all of them |
| `CommitScheduler` | worker, clients and owner of the scheduler, with active expiry |
| `TransactionResolution` | outcome reservations, the two commit paths that make them, recovery and lookups |
| `Governor`, `GovernorProofs` | admission against the budgets, and its theorems |
| `ExecutionPool` | the worker pool and the subdivision of a permit |
| `MC...` | instances for TLC |

### NativeCommit

A client prepares a batch (`PrepareBatch`), which fixes its snapshot, keys, class and blob.
The handle commits one batch (`BeginSingleton`) or a cohort (`BeginGroup`, `AdmitMember`,
`RejectMember`). Each member then goes through the blob steps (`SkipBlob`, `ReuseBlob`,
`StageBlob`, `PromoteBlob`, `SyncBlobDirectory`), `AppendPages`, `SyncPages`, `AppendWal`,
`SyncWal` and `PublishRoot`; `AfterPromote`, `AfterPages` and `AfterWal` give the order for
its class. `SyncOtherRecord` is the synchronization of the WAL by a checkpoint or an
outcome reservation. `Fail*` are I/O errors, with the poison flags and the outcome the
caller is told; `Kill` leaves the files as they are; `PowerLoss` keeps what was
synchronized, and under `"writeback"` an arbitrary part of the rest. `CloseDangling`,
`Open` and `OpenRefused` are recovery with its validations.

Abstractions: a page holds the transaction that wrote it, a root maps a key to a page, a
WAL transaction is a BEGIN entry and a COMMIT entry, block packing and checksums are
reduced to "the file holds a prefix of what was appended". The blob generation of a COMMIT
is left to `Retention`: it only grows, and the last one is the floor of the store it is
compared with, so it refuses no open here. `refused` is terminal.

### Retention

Every maintenance operation takes the handle exclusively, so one is in progress at a time
and `pc` names the boundary it passed last. The boundaries are those at which the code's
own interruption points are (`VacuumBoundary`, `CheckpointBoundary`, `SnapshotPinBoundary`,
`WalRetentionBoundary`). A page file is the set of CSNs whose roots it holds, the logical
state is one blob, a WAL record is one block. A commit is one Strict step here, since
`NativeCommit` takes it apart. `BuildCandidate` and its successors publish a candidate
generation only if the current one holds more than one root: otherwise the copy is not
smaller and the code discards it (`DiscardCandidate`). `FailFirst`, `FailFile`, `FailWal`
and `FailPoisoned` are the errors after which the code leaves the handle usable or
poisoned.

The recovery is cut where it changes the directory: `OpenStores` removes temporary anchors and
manifests, `CompleteReset` and `CompletePending` finish a pending retention (first the WAL,
then the name of the anchor), `CloseDangling` ends an open vacuum, `CollectGenerations` removes
temporary pins and retired page files, `PrunePrefix` old manifests, and `Open` the older anchor.
`OpenRefused` is the failure of each of their validations. Kills and power losses fall
between these steps as they do between those of a live handle.

A rename or removal and the synchronization of its directory are two calls in the code. A step
makes both; `KillInterrupted` and `FailFile` stop a step between them (`Interrupted`,
`InterruptedOpen`), and `collect_blobs_at` synchronizes only after its last removal. `unsynced`
keeps for each of the directories `data`, `roots`, `pins` and `blobs` what it held before each
change that is not synchronized. `SyncDirectory` empties it, and is taken exactly where the code
calls `sync_directory`: an open that removes nothing from a directory leaves it as it is.
`PowerLoss` takes every directory back to its last synchronization or to any state since; the
changes of one directory are lost in reverse order, as in a journal. `sync_directory` does
nothing on Windows, so the model is of the Unix build. `trusted` and `undone` record that
power took back a change from which the program had gone on.

### CommitScheduler

An action ends where threads meet: at the gate's mutex, the channel, the atomic control
of a request and the read-write lock around the database. Clients: `EnterPrepare`,
`LockPrepare`, `Prepare` (`begin_optimistic`), `Submit`, `CheckQueued`, `Offer`
(`admit_command`), `Seal`, `OfferCohort` (explicit cohorts), `Cancel`, `DropHandle`,
`Receive`, `Poll` (`await_response`). Worker: one action per step of `run_scheduler`,
`collect_group_requests`, `execute_group_requests`, `execute_single_request` and
`execute_active_expiry`. Owner: `StopAdmission`, `SendMarker`, `Join` (`stop_and_join`).
What a commit does is abstracted to committed, rejected or failed.

Left out: timing evidence and diagnostic counters, memory units of the governor (compute
and I/O units are `Permits`), poisoned locks, which only follow a panic. The arms for a
full channel in `admit_command` are not modelled because `SlotsExact` shows that they are
not reached. The responses of a cohort that meets a failed sweep are closed with the
receiver, a few worker steps later than in the code.

### TransactionResolution

A resolved commit first writes a reservation to the WAL: a resolution id, a token and the
runtime id the commit will use. The explicit path (`commit_optimistic_resolved`) takes the
runtime id with the reservation; the statement path (`begin`, `begin_resolution`, `commit`)
takes it when it publishes (`IdAfterReservation`). A commit writes no second record: open
finds the outcome by the runtime id (`Resolved`) and appends it.

`Reserve` and `Reserved` are the append and the synchronization of the reservation; `Resume`
is a statement that comes back with its token while the runtime id is still free;
`RefuseExplicit` and `RefuseStatement` turn a held token away; `StartPlain` is a commit
without a reservation. `AppendCommit`, `SyncCommit` and `Publish` follow `commit_report_at`,
`Refuse`, `FailBefore` and `FailWal` its errors by what `OP` makes of them. `RetainWal` is
WAL retention with its guard. `Open`, `Persist` and `FinishOpen` are recovery, one written
outcome a step, so that a crash falls between any two. `StatusById` and `Durable` are the
lookups by id and by token.

A call holds the handle from begin to end, so calls do not overlap. Abstractions: a batch is
its call, a pair of principal and token is a token, a random id is the call that drew it,
there is one session, and the mutations of a transaction are part of its BEGIN. A refusal
before the reservation changes nothing and is left out. The session forgets old statuses;
what it then answers is the lookup by token, which `StatusTrue` covers as well.

### Governor

One action per critical section of `admit_queued_owned`, and one more where the code looks at
the cancellation flag before it waits: `Enter`, `Enqueue` or `EnqueueFull`, `LoopCancelled`
or `LoopContinues`, `Claim`, `LoopTimedOut` or `Park`, `Wake`. `TryAdmit`, `Release` and
`ShrinkTo` are the calls that do not wait; `CancelStore` and `CancelNotify` the two halves of
a cancellation; `Expire` a deadline. `SelectNext` is `select_next_locked`, and every action
that ends with it in the code contains it. The budgets are computed as the policy computes
them, from the calibrated numbers. `passed` is history: foreground admissions made while
background work that fitted was waiting.

### ExecutionPool

Every section under `wake_lock` is one action. Callers: `Begin`, `Subdivide` (child permits
of the parent), `SubmitGeneric`, `SubmitTargeted`, `Register`, `AwaitAll`, `Listen`,
`Withdraw`. Workers: `Take`, `Rest`, `Finish`, `Store`, `SignalSingle`, `SignalOrdered`, the
order in which `complete_job` drops the permit, stores the outcome and sends the message.
`CancelStore`, `CancelSend` and `Shutdown` come from outside.

Left out: stealing between NUMA pools, which no policy enables since
`calibration_has_safe_numa_residency_evidence` returns false; spurious wake-ups, after which a
worker only looks again; submissions to a closed pool, which its last owner rules out; and the
exhaustion of a 64-bit generation.

## 3. What the runs check

The instances are small because the interesting cases are. Deadlock is not checked: the
systems are modelled with a finite workload, and a client that has nothing more to submit
or a refused directory really stops. Each component has one type invariant, `TypeOK`. It is
proved for `NativeCommit` and `Governor`. For the other components TLC confirms it with the
constants of `retention_crash`, `scheduler_sweeps`, `pool` and `resolution`, but it is no
property of a run.

### NativeCommit

Three batches, two keys, one blob content, cohorts of up to two, `Txn` symmetric (nothing
distinguishes batches but their plan). Three batches are needed for a batch that conflicts
with one member of a cohort and not with the other, and for a commit before and one after
a cohort. One fault may fall at any step.

| Run | Workload and faults | Shows |
|---|---|---|
| `commit_faults` | all classes; one of I/O error, kill, power loss, writeback | `AckDurable`, `FirstCommitterWins`, `RejectedNeverCommits`, `StrictOpens`, `RootShowsLastWriter`, `KeptWhilePowered`, and `ImplementsStore`: the refinement of `SnapshotStore` |

### Retention

Up to four commits (vacuums included), two manifests, two blobs, one pin, two faults; two
anchors in the first run, one in the second. Two anchors are needed for an anchor that follows
another, two manifests for a checkpoint after a pin's, four commits for commit, retain,
commit, vacuum, and one more after any of them, two blobs for a retired or orphaned one beside a
live one, two faults for a power loss that takes back what a kill left unsynchronized. The
properties of the first run also hold with `MaxCsn = 5`, `MaxBlob = 1`, and with three faults
under `MaxCsn = 3`, `MaxEpoch = 1`, `MaxBlob = 0`.

| Run | Faults | Shows |
|---|---|---|
| `retention_crash` | two of kill and power loss | `AckedKept`, `RootServed`, `PinsReadable`, `TxnIdsFresh`, `StagingClear`, `RefusedOnlyRetired`, `CompletionDropsRetired` |
| `retention_errors` | two of I/O error, kill and orphaned blob | `RefusedOnlyOvertaken` |

The `RefusedOnly...` invariants say in which situations open refuses a directory. Section 5
shows that each of these situations is reached. `AckedKept`, `TxnIdsFresh` and
`CompletionDropsRetired` exclude one case, a change to an anchor file that power takes back
after an open went on from it (`"anchors" \in undone`); section 5 shows that each of them
fails there. `RootServed`, `PinsReadable` and `StagingClear` exclude nothing.

### CommitScheduler

| Run | Instance | Shows |
|---|---|---|
| `scheduler_mixed` | a cohort of two and a controlled group request, which may be cancelled or expire; queue of two; one governor unit; expiry with budget one; storage and sweep may fail | `OutcomesDefinite`, `SlotsExact`, `BatchIsolated`, `ShutdownDrains` |
| `scheduler_sweeps` | three group requests that do not wait for a slot; queue of two; expiry with budget one; storage and sweep may fail | `SweepDelayBounded` |
| `scheduler_live` | three blocking callers, two group and one single, on a queue of two, one unit; storage may fail; fair | `Fifo`, `CallsEnd`, `ShutdownEnds` |

A queue of two with three requests is full, empty and in between; a batch of two lets a
collection reach its limit, end by another command, end by the marker and end by time; one
unit lets the worker and a preparing client wait for each other. Time is nondeterministic:
a deadline may pass between any two steps. The requests of `scheduler_sweeps` are
interchangeable (`Symmetry`). A pending handle (`"handle"`) is cancelled, dropped and answered
as a member of a cohort is, and admitted as a blocking caller is, so it has no instance of its
own.

### TransactionResolution, Governor, ExecutionPool

| Run | Instance | Shows |
|---|---|---|
| `resolution` | three calls: explicit (Strict or Memory) and statement with one token, statement without, plain; two of I/O error, kill, power loss | `TokenCommitsOnce`, `StatusTrue`, `SettledStays`, `OpenSettles` |
| `governor` | three threads, four calls of four classes, a queue of two, burst of one, one deadline or cancellation; fair | `SelectionSound`, `NoLostWakeup`, `BurstBounded`, `WithinBudget`, `TokensExact`, `AdmissionsReturn` |
| `pool` | two workers, two callers that share a permit of three, two calls of every priority, panics, a cancellable targeted job; fair | `NestedExact`, `ReturnsClean`, `ResultsHonest`, `NoJobStranded`, `NoStarvation`, `PoolCallsReturn`, `JoinsEnd` |

Three resolved calls let a commit, its retry and a stranger meet; two faults let a recovery
be interrupted. `StatusTrue` names two exceptions, `IdGivenBack` and `Retried`; section 5
shows that both happen. Three threads at the governor are a holder, a selected ticket and
one behind it; the background call is as wide as the machine. In the pool two workers let a
notification go to the wrong one. Calls are interchangeable in `resolution` (`CallSymmetry`).

*Fairness.* It is assumed only of threads that can run. `scheduler_live`: weak
fairness of the worker, of the owner inside a shutdown and of each client inside a call; the
waits for a permit are bounded in the code (`execution_admission_wait`), so their end is a
step of the thread, too. `governor` and `pool`: only that the process as a whole goes on
while some thread that is inside a call can step (`WF_vars` of the disjunction), and that
work which holds tokens, and operations given to workers, end. Nothing obliges a client to
call, a deadline to pass, a token to be cancelled, or an owner to shut down. A client that
finds the scheduler's queue full is not promised a slot, it only goes on asking: that all
calls end still holds because the worker empties the queue and callers are finitely many.
`NativeCommit`, `Retention` and `TransactionResolution` have safety properties only. That a call
ends is written `[]<>`: the caller is again and again outside of the call. As a caller is either
inside or outside, this says the same as that being inside leads to being outside.

Every property of a passing run has a mutant in `PROJECT.json`: a plausible slip in one
definition under which TLC finds the property violated.

## 4. What is proved

The theorems hold for every value of the constants that satisfies the named assumption of
the module.

- `ConstantsAssumption` (`NativeCommit`): any set of batches and keys, any workload, cohort
  bound and number of faults of every kind; a batch writes at least one key.
- `GovernorAssumption`: any threads, mode, calls and bounds, on a machine with at least one
  of each resource and a place in the queue; the threads are finitely many.

| Theorem | Says |
|---|---|
| `NativeCommitProofs!TypeCorrect` | `Spec => []TypeOK` |
| `ReceiptProofs!ReceiptsDurable` | `Spec => []AckDurable` |
| `ReceiptProofs!RejectionsDefinite` | `Spec => []RejectedNeverCommits` |
| `FirstCommitterProofs!FirstCommitterAlwaysWins` | `Spec => []FirstCommitterWins` |
| `RefinementProofs!CommitPathIsAStore` | `Spec => ImplementsStore` |
| `GovernorProofs!GovernorTypes` | `Spec => []TypeOK` |
| `GovernorProofs!SelectionIsLive` | `SelectionSound` and `NoLostWakeup` always hold |
| `GovernorProofs!AlwaysSelectionSound` | `Spec => []SelectionSound` |
| `GovernorProofs!BurstAlwaysBounded` | `Spec => []BurstBounded` |
| `GovernorProofs!AlwaysWithinBudget` | `Spec => []WithinBudget` |
| `GovernorProofs!TokensAlwaysExact` | `Spec => []TokensExact` |
| `GovernorProofs!LimitsSound` | each class limit is at least one and at most the whole, for every mode and machine |

- *Types.* `TypeOK` is not inductive: the member at position `pos` must be a member.
  `TypeInv` adds `CohortOK`, the shape of the cohort at each step of the commit. The
  interesting part is recovery, whose CSN, root and conflict table are computed from the
  log (`MaxOfPositions`, `TypeOfRecovery`).
- *Receipts.* `ReceiptInv` follows a commit through the log. `Staged` is the number of
  members whose records are written. Those have a COMMIT with the CSN they will be
  acknowledged with (`Logged`), in the stable part once the synchronization is over
  (`LoggedStable`); all the others, and every batch reported as rejected or failed, have
  none (`Unlogged`). `AckDurable` is added because a receipt must survive what later steps
  do to the log: append, cut at a failure, lose a suffix, close a dangling transaction.
  These are the `Log...` lemmas.
- *First committer.* `ConflictInv` says that the installed conflict table is at least the
  CSN of every commit in the log that wrote a key (`ConflictsCover`), that the table being
  built also covers admitted members (`NextCover`), that members of a cohort have no key in
  common (`PendingDisjoint`) and that what was validated stays free of conflicts until it
  is logged (`PendingClear`). Recovery rebuilds a table that covers the log it found
  (`RecoveredCovers`).
- *Refinement.* `CommittedBar` is the set of COMMIT records, `StableBar` those of the stable
  part, `ShownBar` the visible CSN. The steps need one more invariant, `NumberInv`: CSNs grow
  along the log, and while the WAL is usable the newest one is the visible CSN plus the
  members that are logged. So the next member takes the next number, which is what the
  store's `Commit` does. Every action maps to one step of the store or to none; the conflict
  check comes from `ConflictInv`, acknowledgement and loss from `ReceiptInv`.
- *Governor.* `GovernorInv` is `Shape /\ Turns /\ NoLostWakeup /\ WithinBudget`. None of the
  conjuncts is inductive alone: that a claim stays within the budget needs that the selected
  ticket still fits, which needs that no other caller takes tokens while a ticket waits,
  which needs the types and the mutex discipline (`Shape`). `TokensExact` counts the tokens of
  all permits. `TokenInv` adds that only a caller in `"holding"` owns any; a step changes
  the permit of one caller, and the count moves by the same amount as the counter
  (`TakenBalance`, `ReturnedBalance`).

Only model-checked:

- the liveness properties (`AdmissionsReturn`, `PoolCallsReturn`, `JoinsEnd`, `CallsEnd`,
  `ShutdownEnds`), which are out of the prover's reach;
- `RootShowsLastWriter`, `StrictOpens` and `KeptWhilePowered` of `NativeCommit`: they speak of
  what `Open` computes by going through the whole log, page by page, and a proof that this
  fold shows the last writer is an induction over the log;
- all of `CommitScheduler`, `ExecutionPool`, `Retention` and `TransactionResolution`.

## 5. Where code and documents disagree

Three of these are runs that TLC violates; `PROJECT.json` quotes the sentence they contradict.

| Run | What happens |
|---|---|
| `retention_revacuum` | retain, commit, vacuum, reopen: refused, without any fault |
| `retention_failed_anchor` | a failed anchor publication does not poison the handle; commits acknowledged after it are dropped at the next open |
| `resolution_reused_id` | a statement reserves its outcome and is refused before it writes; the next commit uses the same runtime id, and after a restart the refused token is reported as committed, with the CSN of the other batch |

The following were found the same way. Each is a property that TLC violates within a minute
under the constants given; the rest of the configuration is that of the run named first.

| From | Constants and property | What happens |
|---|---|---|
| `commit_faults` | fault power; `AckedRecover` | a WAL-only synchronization (`checkpoint_at`, RT:21329) makes a Memory commit's records durable and not its pages; after a power loss open refuses the directory, acknowledged Strict commits included (mixed-durability-scheduler-v1.md:14 says no class weakens another) |
| `commit_faults` | `Workload <- StrictBatches`, `MaxCohort = 1`, faults kill and power, `MaxFaults = 2`; `AckedRecover` | `BlobStore::stage` takes an existing file as published. A killed process renamed it and never synchronized its directory, so a Strict commit that reuses it is acknowledged and lost with the next power loss (mixed-durability-scheduler-v1.md:110 promises the blob synchronization) |
| `commit_faults` | `Workload <- SynchronizedInline`, fault writeback; `AckedRecover` | `GroupCommitStorage::commit` appends the records of a cohort before the pages are synchronized; if only the records reach the disk, open refuses the directory (group-commit-v1.md:125 promises a valid prefix) |
| `commit_faults` | `Workload <- SynchronizedInline`, faults kill and power, `MaxFaults = 2`; `AckedRecover` | the same cohort is killed, recovered by the next open without a page synchronization, and its records become durable by a WAL-only synchronization (group-commit-v1.md:127) |
| `retention_errors` | faults kill and orphan, `Pin = {}`, `MaxEpoch = 0`; `NeverRefused` | `vacuum_pages_at` logs one blob generation and installs another after an orphaned blob; a checkpoint then writes a manifest that the next open rejects (blob-collection-v1.md:143) |
| `retention_errors` | faults io and kill; `PinsReadable` | an error after the rename of a pin file leaves a stable pin that the handle does not know, and vacuum removes its generation (snapshot-pins-v1.md:66) |
| `retention_errors` | faults io and kill, `Pin = {}`, `MaxEpoch = 0`; `NeverRefused` | `collect_retired_page_generations` removes the generation that a vacuum COMMIT of uncertain outcome names (page-vacuum-v1.md:35) |
| `retention_crash` | `Pin = {}`, `MaxEpoch = 0`; `NeverRefused` | a process is killed before it synchronizes the vacuum COMMIT; the next open accepts it, does not synchronize the WAL either, and removes the prior generation; a power loss then takes the COMMIT (page-vacuum-v1.md:35) |
| `retention_crash` | `Pin = {}`; `AckedKept` or `TxnIdsFresh` without the condition on `undone` | a process is killed between the rename of an anchor to `.pending` and the synchronization of the data directory (hyphae-native-wal lib.rs:1266); open empties and synchronizes the WAL before it synchronizes that directory, and a power loss takes the name back: the database is empty (wal-retention-v1.md:173 puts the synchronization first) |
| `retention_crash` | `Pin = {}`; `CompletionDropsRetired` without the condition on `undone` | a process is killed between the rename of an anchor to `.hywa` and the synchronization (hyphae-native-wal lib.rs:1295); open goes on and synchronizes nothing, a Strict commit is acknowledged, a power loss brings `.pending` back, and the next open truncates the WAL with that commit in it (wal-retention-v1.md:213 authorizes only bytes at or below the retired sequence) |
| `retention_crash` | `RefusedOnlyRetired` without the disjunct on `"pins"` | an unpin is killed between the removal and the synchronization (snapshot_pins.rs:437); open collects the page generation, a power loss brings the pin back, and every later open fails (snapshot-pins-v1.md:139 promises the complete pin or none) |
| `retention_crash` | `RefusedOnlyRetired` without the disjunct on `"manifests"` | a checkpoint is killed between the rename of its manifest and the synchronization (hyphae-native-manifest lib.rs:833); after the next open a retention binds that manifest, and a power loss takes it (wal-retention-v1.md:63 asks for the relevant directory entries) |
| `retention_crash` | fault kill; `AnchorNamesCheckpoint` | an anchor binds a manifest whose checkpoint record was never written; recovery still works (wal-retention-v1.md:142) |
| `scheduler_mixed` | `Api <- ControlledApi`, `Cohorts = {}`, `Expires = FALSE`; `CancelledEndsCollection` | a cancelled or expired group request joins a collection instead of ending it (mixed-durability-scheduler-v1.md:51) |
| `scheduler_sweeps` | `SweepWithinBudget` | requests collected around the deadline of a sweep are not counted against its budget (active-expiry-scheduler-v1.md:90, group_commit.rs:2006) |
| `scheduler_mixed` | `ExpiryFailureReported` | a sweep fails between the gate and the send of the marker: shutdown reports unavailable in place of that failure (comment at group_commit.rs:1407) |

The documents are in `docs/native`. `AckedRecover`, `AnchorNamesCheckpoint`,
`CancelledEndsCollection`, `SweepWithinBudget` and `ExpiryFailureReported` are defined for
these rows and are in no run.

Three observations that the properties allow for:

- `StatusTrue` without `Retried` fails in five steps and without a fault: an explicit call
  commits, a second one with the same token is turned away, and `handle_explicit_commit_error`
  records the existing, committed resolution as rolled back in the session, where a lookup by
  id finds it first. The lookup by token stays right. product-error-v1.md:188 says that no
  adapter reports rollback unless it is proven.
- `submit_single_targeted` wakes its worker and leaves `waiting_by_worker` set until it runs, so
  a generic submission in between may pick the same worker while another one sleeps. The job
  is not stranded (`NoJobStranded`), it waits for the targeted one.
- `BurstBounded` counts background work that would have fitted. Work too wide for what is free
  is passed over without a bound while narrower calls keep the machine busy.

## 6. What is not modelled

`PROJECT.json` lists every component with its reason.

- SQL, structures, search, vectors, catalog, codecs and embedding are pure functions of one
  snapshot: what they change reaches disk through one commit. They are most of the code.
- Protocol codecs, HTTP server, clients and user interface: no property here speaks of them.

The following parts have state that could be modelled, and nothing here covers them:

- The product service and the daemon: an owner thread behind a bounded queue, reads beside it
  under a read-write lock, admission, sessions, cancellation and drain. Of these only the
  statuses that a session remembers are modelled (`TransactionResolution`).
- Directory ownership: the lock, and the promotion of `FORMAT.pending` to `FORMAT` with its
  interruption points. All modules start from an owned directory.
- Backup and restore: a checkpoint under the exclusive handle, which is in `Retention`, then a
  copy to a staging directory, its verification and its rename.
- The B+tree, a pure algorithm whose splits depend on encoded sizes. The modules take a tree
  as a map.
- The legacy storage engine, with its log and snapshots, and the files of the agent hooks.

The modules are composed where they meet on the same state: the scheduler's units stand for
the governor, the pool carries the subdivision of a governor permit, resolutions and retention
keep the parts of the commit path they depend on. A single model of all of them would be out
of TLC's reach.
