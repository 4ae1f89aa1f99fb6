----------------------------- MODULE Retention ------------------------------
(***************************************************************************)
(* Maintenance of the native database: page vacuum, root checkpoints,      *)
(* snapshot pins, WAL retention and blob collection, and the open that     *)
(* recovers a directory they were interrupted in.                          *)
(*                                                                         *)
(* Every operation takes the handle exclusively, so one is in progress at  *)
(* a time; it is cut at its durable boundaries (the interruption points    *)
(* VacuumBoundary, CheckpointBoundary, SnapshotPinBoundary and             *)
(* WalRetentionBoundary), and the process may die or fail at each, and     *)
(* between a rename or removal and the synchronization of its directory.   *)
(* pc is the boundary passed last.  A commit is one step here, always      *)
(* Strict: module NativeCommit takes it apart.                             *)
(*                                                                         *)
(* Data is abstracted to what decides whether a directory opens and what   *)
(* it shows.  A page file is the set of CSNs whose roots are complete in   *)
(* it.  The whole logical state is one value, kept in a blob: `blob` of a  *)
(* root names the blob it reads, 0 for none.  A WAL record is one block;   *)
(* digests are replaced by the contents they stand for.                    *)
(***************************************************************************)
EXTENDS Integers, FiniteSets, Sequences, FiniteSetsExt, Functions

CONSTANTS Pin,            \* snapshot pin identities
          NoPin,          \* the checkpoint in progress is not for a pin
          NoAnchor,       \* no retention anchor
          Faults,         \* the faults the environment may inject
          MaxFaults,      \* bound on their number
          MaxCsn,         \* bound on commits, vacuums included
          MaxManifest,    \* bound on manifest generations
          MaxEpoch,       \* bound on retention anchors
          MaxBlob         \* bound on blobs ever written

\* "kill"    the process dies between two steps
\* "power"   power is lost: what was not synchronized may be lost
\* "orphan"  the process dies in a commit that has published its blob
\* "io"      a step returns an error and the caller goes on with the handle
FaultKinds == {"kill", "power", "orphan", "io"}

ASSUME RetentionAssumption ==
  /\ NoPin \notin Pin
  /\ Faults \subseteq FaultKinds
  /\ {MaxFaults, MaxCsn, MaxManifest, MaxEpoch, MaxBlob} \subseteq Nat

VARIABLES
  \* the handle
  mode,         \* "up", "down", or "refused": open returned an error
  pc,           \* the boundary the operation in progress passed last
  job,          \* the pin a checkpoint is taken for, or NoPin
  root,         \* the current root set
  blobGen,      \* BlobStore::generation
  known,        \* RootManifestStore::manifests: generation -> root set
  epochs,       \* WalRetentionStore::anchors: epoch -> anchor
  candidate,    \* WalRetentionStore::candidate
  pinned,       \* SnapshotPinStore::pins: id -> pin
  lastCheckpoint, \* sequence of the last checkpoint record, 0 if none
  lastSeq,      \* WalFile::last_sequence, absolute
  nextTxn,      \* next_transaction_id
  walPoisoned,
  \* the directory
  wal,          \* the WAL file
  platter,      \* what the disk holds of it after its last synchronization
  pages,        \* page generation -> CSNs whose roots its file holds
  pageTmp,      \* a candidate generation has a temporary file
  blobs,        \* blob files
  manifests,    \* manifest files: generation -> root set
  manifestTmp,  \* generations with a temporary manifest
  anchors,      \* stable anchor files: epoch -> anchor
  pending,      \* the .pending anchor file
  anchorTmp,    \* a temporary anchor file exists
  pins,         \* pin files: id -> pin
  pinTmp,       \* ids with a temporary pin file
  unsynced,     \* directory -> what it held before each change not yet synchronized
  \* observation
  acked,        \* CSN of the last acknowledged commit
  history,      \* the blob each CSN's root reads
  usedTxn,      \* the largest transaction id that was acknowledged
  nextBlob,     \* the next blob content to be written
  trusted,      \* the program went on from a change that is not synchronized
  undone,       \* kinds of files such a change to which a power loss took back
  faults

stores == <<known, epochs, candidate, pinned>>
handle == <<mode, pc, job, root, blobGen, stores, lastCheckpoint, lastSeq, nextTxn, walPoisoned>>
walFile == <<wal, platter>>
pageFiles == <<pages, pageTmp>>
manifestFiles == <<manifests, manifestTmp>>
anchorFiles == <<anchors, pending, anchorTmp>>
pinFiles == <<pins, pinTmp>>
files == <<walFile, pageFiles, blobs, manifestFiles, anchorFiles, pinFiles, unsynced>>
undoing == <<trusted, undone>>
ghosts == <<acked, history, usedTxn, nextBlob, undoing, faults>>
vars == <<handle, files, ghosts>>

-----------------------------------------------------------------------------
Extend(f, x, v) == [y \in DOMAIN f \cup {x} |-> IF y = x THEN v ELSE f[y]]
Without(f, S) == Restrict(f, DOMAIN f \ S)
EmptyFcn == [x \in {} |-> 0]
Latest(f) == f[Max(DOMAIN f)]

\* RootSet: visible CSN, page generation, retention floor, blob generation, the
\* blob its state reads, and the WAL block of its commit.
NoRoot == [csn |-> 0, gen |-> 1, floor |-> 0, blobGen |-> 0, blob |-> 0, seq |-> 0]

\* Records that recovery tells apart: COMMIT of a transaction or of a vacuum,
\* the BEGIN of an unfinished vacuum, its ABORT, and CHECKPOINT.
Record(kind, seq, txn, r, mgen, prev) ==
  [kind |-> kind, seq |-> seq, txn |-> txn, root |-> r, mgen |-> mgen, prev |-> prev]

Boundary ==
  {"idle", "CandidateSynchronized", "CandidatePublished", "VacuumBegun", "VacuumLogged",
   "RootPublished", "ManifestStaged", "ManifestPublished", "CheckpointAppended", "PinAuthority",
   "RecordSynchronized", "AnchorStaged", "AnchorPending", "WalReset", "WalSynchronized",
   "AnchorStabilized", "ManifestPrefixRemoved", "ReferencesTraced",
   "StoresOpened", "ResetCompleted", "RetentionCompleted", "GenerationsCollected", "PrefixPruned"}

\* pages-*.hydb and wal-anchor-* lie in the data directory, the other stores
\* have a directory of their own.
Directory == {"data", "roots", "pins", "blobs"}
Entries ==
  [data |-> [pages |-> pages, anchors |-> anchors, pending |-> pending],
   roots |-> manifests, pins |-> pins, blobs |-> blobs]

RootOK(r) ==
  /\ r.csn \in 0..MaxCsn /\ r.gen \in Nat \ {0} /\ r.floor \in 0..r.csn
  /\ r.blobGen \in 0..MaxBlob /\ r.blob \in 0..MaxBlob /\ r.seq \in Nat

TypeOK ==
  /\ mode \in {"up", "down", "refused"} /\ pc \in Boundary /\ job \in Pin \cup {NoPin}
  /\ RootOK(root) /\ blobGen \in 0..MaxBlob
  /\ DOMAIN known \subseteq 1..MaxManifest /\ DOMAIN manifests \subseteq 1..MaxManifest
  /\ \A g \in DOMAIN manifests : RootOK(manifests[g])
  /\ DOMAIN epochs \subseteq 1..MaxEpoch /\ DOMAIN anchors \subseteq 1..MaxEpoch
  /\ DOMAIN pinned \subseteq Pin /\ DOMAIN pins \subseteq Pin /\ pinTmp \subseteq Pin
  /\ manifestTmp \subseteq 1..MaxManifest
  /\ {lastCheckpoint, lastSeq, nextTxn, acked, usedTxn} \subseteq Nat
  /\ {walPoisoned, pageTmp, anchorTmp, trusted} \subseteq BOOLEAN
  /\ \A i \in 1..Len(wal) : RootOK(wal[i].root) /\ wal[i].seq = wal[1].seq + i - 1
  /\ DOMAIN pages \subseteq Nat \ {0} /\ \A g \in DOMAIN pages : pages[g] \subseteq 1..MaxCsn
  /\ blobs \subseteq 1..MaxBlob /\ Len(history) <= MaxCsn
  /\ nextBlob \in 1..MaxBlob + 1 /\ faults \in 0..MaxFaults
  /\ DOMAIN unsynced = Directory /\ unsynced.blobs \subseteq SUBSET (1..MaxBlob)
  /\ \A e \in unsynced.data : DOMAIN e.pages \subseteq Nat \ {0} /\ DOMAIN e.anchors \subseteq 1..MaxEpoch
  /\ \A e \in unsynced.roots : DOMAIN e \subseteq 1..MaxManifest
  /\ \A e \in unsynced.pins : DOMAIN e \subseteq Pin
  /\ undone \subseteq {"anchors", "manifests", "pins"}

Init ==
  /\ mode = "up" /\ pc = "idle" /\ job = NoPin /\ root = NoRoot /\ blobGen = 0
  /\ known = EmptyFcn /\ epochs = EmptyFcn /\ candidate = NoAnchor /\ pinned = EmptyFcn
  /\ lastCheckpoint = 0 /\ lastSeq = 0 /\ nextTxn = 1 /\ walPoisoned = FALSE
  /\ wal = <<>> /\ platter = <<>>
  /\ pages = [g \in {1} |-> {}] /\ pageTmp = FALSE
  /\ blobs = {}
  /\ manifests = EmptyFcn /\ manifestTmp = {}
  /\ anchors = EmptyFcn /\ pending = NoAnchor /\ anchorTmp = FALSE
  /\ pins = EmptyFcn /\ pinTmp = {}
  /\ unsynced = [d \in Directory |-> {}]
  /\ acked = 0 /\ history = <<>> /\ usedTxn = 0 /\ nextBlob = 1 /\ faults = 0
  /\ trusted = FALSE /\ undone = {}

Inject(fault) == fault \in Faults /\ faults < MaxFaults /\ faults' = faults + 1

At(boundary) == mode = "up" /\ pc = boundary

\* WalFile::append_records of one record, without synchronization.
AppendRecord(kind, txn, r, mgen, prev) ==
  wal' = Append(wal, Record(kind, lastSeq + 1, txn, r, mgen, prev))

\* sync_directory: every earlier change of the directory is on disk as well.
SyncDirectory(d) == unsynced' = [unsynced EXCEPT ![d] = {}]
SyncDirectoryIf(changed, d) == IF changed THEN SyncDirectory(d) ELSE UNCHANGED unsynced

\* A change of the directory that no synchronization follows.  Only a power loss
\* tells it from a synchronized one.
LeaveUnsynced(d) ==
  unsynced' = IF "power" \in Faults THEN [unsynced EXCEPT ![d] = @ \cup {Entries[d]}] ELSE unsynced

Trust == trusted' = (trusted \/ \E d \in Directory : unsynced'[d] # {}) /\ UNCHANGED undone

\* The logical state of CSN c reads blob b from now on (a crash may make CSN c
\* be used again).
Remember(c, b) == history' = Append(SubSeq(history, 1, c - 1), b)

-----------------------------------------------------------------------------
(* A Strict commit, with or without a blob of its own.                     *)
\* Mutant: the receipt does not wait for the WAL.
SyncCommitSkipped == UNCHANGED platter

SyncCommit == platter' = wal'

Commit ==
  /\ At("idle") /\ ~walPoisoned /\ root.csn < MaxCsn
  /\ \E fresh \in BOOLEAN :
       LET b == IF fresh THEN nextBlob ELSE root.blob
           r == [csn |-> root.csn + 1, gen |-> root.gen,
                 floor |-> IF root.csn = 0 THEN 1 ELSE root.floor,
                 blobGen |-> IF fresh THEN blobGen + 1 ELSE blobGen,
                 blob |-> b, seq |-> lastSeq + 1]
       IN  /\ fresh => nextBlob <= MaxBlob
           /\ root' = r /\ blobGen' = r.blobGen
           /\ blobs' = IF fresh THEN blobs \cup {b} ELSE blobs
           /\ nextBlob' = IF fresh THEN nextBlob + 1 ELSE nextBlob
           /\ SyncDirectoryIf(fresh, "blobs")
           /\ pages' = [pages EXCEPT ![root.gen] = @ \cup {r.csn}]
           /\ AppendRecord("commit", nextTxn, r, 0, 0) /\ SyncCommit
           /\ Remember(r.csn, b)
           /\ acked' = r.csn
  /\ lastSeq' = lastSeq + 1 /\ nextTxn' = nextTxn + 1 /\ usedTxn' = nextTxn
  /\ UNCHANGED <<mode, pc, job, stores, lastCheckpoint, walPoisoned, pageTmp, manifestFiles,
                 anchorFiles, pinFiles, undoing, faults>>

-----------------------------------------------------------------------------
(* vacuum_pages_at.  The candidate holds the current root only; it is      *)
(* smaller when the active file also holds superseded roots.               *)
BuildCandidate ==
  /\ At("idle") /\ root.csn \in 1..MaxCsn - 1 /\ ~pageTmp
  /\ pageTmp' = TRUE /\ pc' = "CandidateSynchronized"
  /\ UNCHANGED <<mode, job, root, blobGen, stores, lastCheckpoint, lastSeq, nextTxn, walPoisoned,
                 walFile, pages, blobs, manifestFiles, anchorFiles, pinFiles, unsynced, ghosts>>

DiscardCandidate ==
  /\ At("CandidateSynchronized")
  /\ pageTmp' = FALSE /\ SyncDirectory("data") /\ pc' = "idle"
  /\ UNCHANGED <<mode, job, root, blobGen, stores, lastCheckpoint, lastSeq, nextTxn, walPoisoned,
                 walFile, pages, blobs, manifestFiles, anchorFiles, pinFiles, ghosts>>

RenameCandidate ==
  /\ pageTmp' = FALSE
  /\ pages' = Extend(pages, root.gen + 1, {root.csn + 1})

PublishGeneration ==
  /\ At("CandidateSynchronized") /\ Cardinality(pages[root.gen]) > 1
  /\ RenameCandidate /\ SyncDirectory("data") /\ pc' = "CandidatePublished"
  /\ UNCHANGED <<mode, job, root, blobGen, stores, lastCheckpoint, lastSeq, nextTxn, walPoisoned,
                 walFile, blobs, manifestFiles, anchorFiles, pinFiles, ghosts>>

\* append_vacuum_wal: BEGIN and the mutation, then COMMIT, then synchronization.
\* The COMMIT carries the blob generation of the root the vacuum started from.
VacuumRoot(gen) ==
  [csn |-> root.csn + 1, gen |-> root.gen + 1, floor |-> root.csn + 1, blobGen |-> gen,
   blob |-> root.blob, seq |-> lastSeq + 1]

AppendVacuumBegin ==
  /\ At("CandidatePublished") /\ ~walPoisoned
  /\ AppendRecord("begin", nextTxn, NoRoot, 0, 0)
  /\ lastSeq' = lastSeq + 1 /\ pc' = "VacuumBegun"
  /\ UNCHANGED <<mode, job, root, blobGen, stores, lastCheckpoint, nextTxn, walPoisoned,
                 platter, pageFiles, blobs, manifestFiles, anchorFiles, pinFiles, unsynced, ghosts>>

AppendVacuumCommit ==
  /\ At("VacuumBegun") /\ ~walPoisoned
  /\ AppendRecord("vacuum", nextTxn, VacuumRoot(root.blobGen), 0, 0)
  /\ lastSeq' = lastSeq + 1 /\ pc' = "VacuumLogged"
  /\ Remember(root.csn + 1, root.blob)
  /\ UNCHANGED <<mode, job, root, blobGen, stores, lastCheckpoint, nextTxn, walPoisoned, platter,
                 pageFiles, blobs, manifestFiles, anchorFiles, pinFiles, unsynced, acked, usedTxn, nextBlob,
                 undoing, faults>>

\* Synchronize the WAL and install the root; unlike the COMMIT record it takes
\* the blob generation from the blob store.
SyncVacuum ==
  /\ At("VacuumLogged") /\ ~walPoisoned
  /\ platter' = wal
  /\ root' = [wal[Len(wal)].root EXCEPT !.blobGen = blobGen]
  /\ nextTxn' = nextTxn + 1 /\ pc' = "RootPublished"
  /\ UNCHANGED <<mode, job, blobGen, stores, lastCheckpoint, lastSeq, walPoisoned, wal, pageFiles,
                 blobs, manifestFiles, anchorFiles, pinFiles, unsynced, ghosts>>

\* Mutant: the prior generation is removed whether or not a pin names it.
RetainedGenerationsUnpinned(active, held) == {active}

\* SnapshotPinStore::references_generation and pinned_generations
RetainedGenerations(active, held) == {active} \cup {held[p].root.gen : p \in DOMAIN held}

\* remove_page_generation_if_unpinned, and the receipt
RemovePriorGeneration ==
  pages' = Without(pages, {root.gen - 1} \ RetainedGenerations(root.gen, pinned))

RetirePriorGeneration ==
  /\ At("RootPublished")
  /\ RemovePriorGeneration /\ SyncDirectoryIf(pages' # pages, "data")
  /\ pc' = "idle" /\ acked' = root.csn /\ usedTxn' = nextTxn - 1
  /\ UNCHANGED <<mode, job, root, blobGen, stores, lastCheckpoint, lastSeq, nextTxn, walPoisoned,
                 walFile, pageTmp, blobs, manifestFiles, anchorFiles, pinFiles, history, nextBlob,
                 undoing, faults>>

\* collect_page_generation_files keeps the active generation and the pinned ones.
Collected(active, held) == DOMAIN pages \ RetainedGenerations(active, held)

RemoveGenerations(retired) ==
  /\ pages' = Without(pages, retired)
  /\ pageTmp' = FALSE /\ SyncDirectoryIf(pageFiles' # pageFiles, "data")

\* collect_retired_page_generations
CollectRetired ==
  /\ At("idle")
  /\ RemoveGenerations(Collected(root.gen, pinned))
  /\ UNCHANGED <<handle, walFile, blobs, manifestFiles, anchorFiles, pinFiles, ghosts>>

-----------------------------------------------------------------------------
(* checkpoint_at, by itself or as the first half of pin_current_at.        *)
NextManifest == IF known = EmptyFcn THEN 1 ELSE Max(DOMAIN known) + 1

\* RootManifestStore::stage refuses a name that is taken.
StageManifest(p) ==
  /\ At("idle") /\ root.csn # 0 /\ p \notin DOMAIN pinned
  /\ NextManifest \in 1..MaxManifest \ (manifestTmp \cup DOMAIN manifests)
  /\ manifestTmp' = manifestTmp \cup {NextManifest} /\ job' = p /\ pc' = "ManifestStaged"
  /\ UNCHANGED <<mode, root, blobGen, stores, lastCheckpoint, lastSeq, nextTxn, walPoisoned,
                 walFile, pageFiles, blobs, manifests, anchorFiles, pinFiles, unsynced, ghosts>>

RenameManifest ==
  /\ manifestTmp' = manifestTmp \ {NextManifest}
  /\ manifests' = Extend(manifests, NextManifest, root)

PublishManifest ==
  /\ At("ManifestStaged")
  /\ RenameManifest /\ SyncDirectory("roots")
  /\ known' = Extend(known, NextManifest, root)
  /\ pc' = "ManifestPublished"
  /\ UNCHANGED <<mode, job, root, blobGen, epochs, candidate, pinned, lastCheckpoint, lastSeq,
                 nextTxn, walPoisoned, walFile, pageFiles, blobs, anchorFiles, pinFiles, ghosts>>

AppendCheckpoint ==
  /\ At("ManifestPublished") /\ ~walPoisoned
  /\ AppendRecord("checkpoint", nextTxn, root, Max(DOMAIN known), lastCheckpoint)
  /\ lastSeq' = lastSeq + 1 /\ pc' = "CheckpointAppended"
  /\ UNCHANGED <<mode, job, root, blobGen, stores, lastCheckpoint, nextTxn, walPoisoned, platter,
                 pageFiles, blobs, manifestFiles, anchorFiles, pinFiles, unsynced, ghosts>>

SyncCheckpoint ==
  /\ At("CheckpointAppended") /\ ~walPoisoned
  /\ platter' = wal
  /\ nextTxn' = nextTxn + 1 /\ usedTxn' = nextTxn /\ lastCheckpoint' = lastSeq
  /\ pc' = IF job = NoPin THEN "idle" ELSE "PinAuthority"
  /\ UNCHANGED <<mode, job, root, blobGen, stores, lastSeq, walPoisoned, wal, pageFiles, blobs,
                 manifestFiles, anchorFiles, pinFiles, unsynced, acked, history, nextBlob, undoing, faults>>

\* SnapshotPin::from_manifest
PinRecord == [mgen |-> Max(DOMAIN known), root |-> root]

StagePin ==
  /\ At("PinAuthority") /\ job \notin pinTmp \cup DOMAIN pins
  /\ pinTmp' = pinTmp \cup {job} /\ pc' = "RecordSynchronized"
  /\ UNCHANGED <<mode, job, root, blobGen, stores, lastCheckpoint, lastSeq, nextTxn, walPoisoned,
                 walFile, pageFiles, blobs, manifestFiles, anchorFiles, pins, unsynced, ghosts>>

\* The stage finds what an earlier failure left under its name.
StagePinBlocked ==
  /\ At("PinAuthority") /\ job \in pinTmp \cup DOMAIN pins
  /\ pc' = "idle" /\ job' = NoPin
  /\ UNCHANGED <<mode, root, blobGen, stores, lastCheckpoint, lastSeq, nextTxn, walPoisoned,
                 files, ghosts>>

RenamePin ==
  /\ pinTmp' = pinTmp \ {job}
  /\ pins' = Extend(pins, job, PinRecord)

PublishPin ==
  /\ At("RecordSynchronized")
  /\ RenamePin /\ SyncDirectory("pins")
  /\ pinned' = Extend(pinned, job, PinRecord)
  /\ pc' = "idle" /\ job' = NoPin
  /\ UNCHANGED <<mode, root, blobGen, known, epochs, candidate, lastCheckpoint, lastSeq, nextTxn,
                 walPoisoned, walFile, pageFiles, blobs, manifestFiles, anchorFiles, ghosts>>

\* SnapshotPinStore::remove: the file, its directory, then memory.
RemovePin(p) == p \in DOMAIN pinned \cap DOMAIN pins /\ pins' = Without(pins, {p})

Unpin(p) ==
  /\ At("idle")
  /\ RemovePin(p) /\ SyncDirectory("pins") /\ pinned' = Without(pinned, {p})
  /\ UNCHANGED <<mode, pc, job, root, blobGen, known, epochs, candidate, lastCheckpoint, lastSeq,
                 nextTxn, walPoisoned, walFile, pageFiles, blobs, manifestFiles, anchorFiles,
                 pinTmp, ghosts>>

-----------------------------------------------------------------------------
(* truncate_wal_at_retention_checkpoint_at                                 *)
NextAnchor ==
  [epoch |-> IF epochs = EmptyFcn THEN 1 ELSE Max(DOMAIN epochs) + 1,
   retired |-> lastSeq, checkpoint |-> lastCheckpoint, base |-> root.csn,
   mgen |-> Max(DOMAIN known), rootSeq |-> Latest(known).seq, nextTxn |-> nextTxn]

\* The anchor of the previous retention already covers this state.
AlreadyRetained ==
  /\ epochs # EmptyFcn /\ wal = <<>>
  /\ Latest(epochs).checkpoint = lastCheckpoint
  /\ Latest(epochs).mgen = Max(DOMAIN known)
  /\ Latest(epochs).retired = lastSeq

\* Mutant: neither need the checkpoint be the last block nor its manifest current.
EligibleStaleCheckpoint ==
  /\ root.csn # 0 /\ known # EmptyFcn /\ lastCheckpoint # 0
  /\ \A p \in DOMAIN pinned : pinned[p].mgen = Max(DOMAIN known)
  /\ candidate = NoAnchor /\ Cardinality(DOMAIN epochs) <= 1
  /\ ~AlreadyRetained

\* prepare_wal_retention
Eligible ==
  /\ root.csn # 0 /\ root.floor = root.csn
  /\ known # EmptyFcn /\ Latest(known) = root
  /\ \A p \in DOMAIN pinned : pinned[p].mgen = Max(DOMAIN known)
  /\ lastCheckpoint # 0 /\ lastCheckpoint = lastSeq
  /\ candidate = NoAnchor /\ Cardinality(DOMAIN epochs) <= 1
  /\ ~AlreadyRetained

\* WalRetentionStore::stage refuses a name that is taken.
AnchorNameFree ==
  /\ ~anchorTmp /\ pending = NoAnchor /\ NextAnchor.epoch \in 1..MaxEpoch \ DOMAIN anchors

StageAnchor ==
  /\ At("idle") /\ Eligible /\ AnchorNameFree
  /\ anchorTmp' = TRUE /\ pc' = "AnchorStaged"
  /\ UNCHANGED <<mode, job, root, blobGen, stores, lastCheckpoint, lastSeq, nextTxn, walPoisoned,
                 walFile, pageFiles, blobs, manifestFiles, anchors, pending, pinFiles, unsynced, ghosts>>

RenameAnchorPending ==
  /\ anchorTmp' = FALSE /\ pending' = NextAnchor /\ UNCHANGED anchors

PublishCandidate ==
  /\ At("AnchorStaged")
  /\ RenameAnchorPending /\ SyncDirectory("data")
  /\ candidate' = NextAnchor /\ pc' = "AnchorPending"
  /\ UNCHANGED <<mode, job, root, blobGen, known, epochs, pinned, lastCheckpoint, lastSeq, nextTxn,
                 walPoisoned, walFile, pageFiles, blobs, manifestFiles, pinFiles, ghosts>>

\* WalFile::reset_after, not synchronized yet; sequences go on counting.
ResetWal ==
  /\ At("AnchorPending")
  /\ wal' = <<>> /\ pc' = "WalReset" /\ walPoisoned' = FALSE
  /\ UNCHANGED <<mode, job, root, blobGen, stores, lastCheckpoint, lastSeq, nextTxn, platter,
                 pageFiles, blobs, manifestFiles, anchorFiles, pinFiles, unsynced, ghosts>>

SyncReset ==
  /\ At("WalReset")
  /\ platter' = wal /\ pc' = "WalSynchronized"
  /\ UNCHANGED <<mode, job, root, blobGen, stores, lastCheckpoint, lastSeq, nextTxn, walPoisoned,
                 wal, pageFiles, blobs, manifestFiles, anchorFiles, pinFiles, unsynced, ghosts>>

RenameAnchorStable ==
  /\ anchors' = Extend(anchors, pending.epoch, pending) /\ pending' = NoAnchor
  /\ UNCHANGED anchorTmp

\* Mutant: the anchor is stable in memory only.
StabilizeCandidateInMemory ==
  /\ At("WalSynchronized")
  /\ epochs' = Extend(epochs, candidate.epoch, candidate) /\ candidate' = NoAnchor
  /\ pc' = "AnchorStabilized"
  /\ UNCHANGED <<mode, job, root, blobGen, known, pinned, lastCheckpoint, lastSeq, nextTxn,
                 walPoisoned, files, ghosts>>

StabilizeCandidate ==
  /\ At("WalSynchronized")
  /\ RenameAnchorStable /\ SyncDirectory("data")
  /\ epochs' = Extend(epochs, candidate.epoch, candidate) /\ candidate' = NoAnchor
  /\ pc' = "AnchorStabilized"
  /\ UNCHANGED <<mode, job, root, blobGen, known, pinned, lastCheckpoint, lastSeq, nextTxn,
                 walPoisoned, walFile, pageFiles, blobs, manifestFiles, pinFiles, ghosts>>

\* RootManifestStore::prune_before
From(f, first) == Restrict(f, {g \in DOMAIN f : g >= first})

PruneManifests ==
  /\ At("AnchorStabilized")
  /\ manifests' = From(manifests, Latest(epochs).mgen)
  /\ SyncDirectoryIf(manifests' # manifests, "roots")
  /\ known' = From(known, Latest(epochs).mgen)
  /\ pc' = "ManifestPrefixRemoved"
  /\ UNCHANGED <<mode, job, root, blobGen, epochs, candidate, pinned, lastCheckpoint, lastSeq,
                 nextTxn, walPoisoned, walFile, pageFiles, blobs, manifestTmp, anchorFiles,
                 pinFiles, ghosts>>

RemovePriorAnchor ==
  /\ At("ManifestPrefixRemoved")
  /\ anchors' = From(anchors, Max(DOMAIN epochs)) /\ SyncDirectoryIf(anchors' # anchors, "data")
  /\ epochs' = From(epochs, Max(DOMAIN epochs))
  /\ pc' = "idle"
  /\ UNCHANGED <<mode, job, root, blobGen, known, candidate, pinned, lastCheckpoint, lastSeq,
                 nextTxn, walPoisoned, walFile, pageFiles, blobs, manifestFiles, pending,
                 anchorTmp, pinFiles, ghosts>>

-----------------------------------------------------------------------------
(* collect_blobs_at: a sole retained root, then one removal at a time.     *)
\* blob_collection_eligibility
Collectible ==
  /\ \A p \in DOMAIN pinned : pinned[p].root = root
  /\ epochs # EmptyFcn /\ candidate = NoAnchor /\ Cardinality(DOMAIN epochs) = 1
  /\ wal = <<>> /\ Cardinality(DOMAIN known) = 1
  /\ Latest(epochs).mgen = Max(DOMAIN known) /\ Latest(known) = root
  /\ root.csn # 0 /\ root.floor = root.csn /\ root.blobGen <= blobGen
  /\ Latest(epochs).base = root.csn /\ Latest(epochs).rootSeq = root.seq
  /\ Latest(epochs).checkpoint = lastCheckpoint

TraceReferences ==
  /\ At("idle") /\ Collectible
  /\ pc' = "ReferencesTraced"
  /\ UNCHANGED <<mode, job, root, blobGen, stores, lastCheckpoint, lastSeq, nextTxn, walPoisoned,
                 files, ghosts>>

\* Mutant: the live blob is a candidate too.
RemoveUnreferencedAny(b) ==
  /\ At("ReferencesTraced") /\ b \in blobs
  /\ blobs' = blobs \ {b} /\ LeaveUnsynced("blobs")
  /\ UNCHANGED <<handle, walFile, pageFiles, manifestFiles, anchorFiles, pinFiles, ghosts>>

\* prune_unreferenced; the directory is synchronized after the last removal.
RemoveUnreferenced(b) ==
  /\ At("ReferencesTraced") /\ b \in blobs \ {root.blob}
  /\ blobs' = blobs \ {b} /\ LeaveUnsynced("blobs")
  /\ UNCHANGED <<handle, walFile, pageFiles, manifestFiles, anchorFiles, pinFiles, ghosts>>

EndCollection ==
  /\ At("ReferencesTraced") /\ blobs \subseteq {root.blob}
  /\ SyncDirectory("blobs") /\ pc' = "idle"
  /\ UNCHANGED <<mode, job, root, blobGen, stores, lastCheckpoint, lastSeq, nextTxn, walPoisoned,
                 walFile, pageFiles, blobs, manifestFiles, anchorFiles, pinFiles, ghosts>>

-----------------------------------------------------------------------------
(* A step that renames or removes and then synchronizes the directory may  *)
(* be interrupted in between: the change is there, nothing in memory knows *)
(* and a power loss may still undo it.  No later open synchronizes a       *)
(* directory it does not change.                                           *)
InterruptedPages ==
  /\ \/ At("CandidateSynchronized") /\ Cardinality(pages[root.gen]) > 1 /\ RenameCandidate
     \/ At("RootPublished") /\ RemovePriorGeneration /\ UNCHANGED pageTmp
     \/ /\ At("idle") /\ UNCHANGED pageTmp
        /\ \E retired \in SUBSET Collected(root.gen, pinned) : pages' = Without(pages, retired)
  /\ pages' # pages /\ LeaveUnsynced("data")
  /\ UNCHANGED <<manifestFiles, anchorFiles, pinFiles>>

InterruptedManifests ==
  /\ \/ At("ManifestStaged") /\ RenameManifest
     \/ /\ At("AnchorStabilized") /\ UNCHANGED manifestTmp
        /\ \E g \in 1..Latest(epochs).mgen : manifests' = From(manifests, g)
  /\ manifests' # manifests /\ LeaveUnsynced("roots")
  /\ UNCHANGED <<pageFiles, anchorFiles, pinFiles>>

InterruptedPins ==
  /\ \/ At("RecordSynchronized") /\ RenamePin
     \/ At("idle") /\ UNCHANGED pinTmp /\ \E p \in Pin : RemovePin(p)
  /\ LeaveUnsynced("pins")
  /\ UNCHANGED <<pageFiles, manifestFiles, anchorFiles>>

InterruptedAnchors ==
  /\ \/ At("AnchorStaged") /\ RenameAnchorPending
     \/ At("WalSynchronized") /\ RenameAnchorStable
     \/ /\ At("ManifestPrefixRemoved") /\ anchors' = From(anchors, Max(DOMAIN epochs))
        /\ anchors' # anchors /\ UNCHANGED <<pending, anchorTmp>>
  /\ LeaveUnsynced("data")
  /\ UNCHANGED <<pageFiles, manifestFiles, pinFiles>>

Interrupted == InterruptedPages \/ InterruptedManifests \/ InterruptedPins \/ InterruptedAnchors

-----------------------------------------------------------------------------
(* Errors.  The operation returns, the handle stays open.  A failed WAL    *)
(* write or synchronization poisons the WAL.                               *)
FailFirst ==
  /\ At("idle") /\ Inject("io") /\ root.csn # 0
  /\ \/ /\ NextManifest \in 1..MaxManifest \ (manifestTmp \cup DOMAIN manifests)
        /\ manifestTmp' = manifestTmp \cup {NextManifest}
        /\ UNCHANGED anchorTmp
     \/ /\ Eligible /\ AnchorNameFree
        /\ anchorTmp' = TRUE
        /\ UNCHANGED manifestTmp
  /\ UNCHANGED <<handle, walFile, pageFiles, blobs, manifests, anchors, pending, pinFiles, unsynced,
                 acked, history, usedTxn, nextBlob, undoing>>

\* WalRetentionStore::remove_before forgets the anchors before it synchronizes.
FailFile ==
  /\ mode = "up" /\ Inject("io")
  /\ \/ Interrupted
     \/ /\ pc = "PinAuthority" /\ job \notin pinTmp \cup DOMAIN pins
        /\ pinTmp' = pinTmp \cup {job}
        /\ UNCHANGED <<pageFiles, manifestFiles, anchorFiles, pins, unsynced>>
     \/ /\ pc \in {"CandidateSynchronized", "CandidatePublished", "RootPublished", "ManifestStaged",
                   "RecordSynchronized", "AnchorStaged", "WalSynchronized", "AnchorStabilized",
                   "ManifestPrefixRemoved", "ReferencesTraced"}
        /\ UNCHANGED <<pageFiles, manifestFiles, anchorFiles, pinFiles, unsynced>>
  /\ epochs' = IF pc = "ManifestPrefixRemoved" /\ anchors' # anchors
               THEN From(epochs, Max(DOMAIN epochs)) ELSE epochs
  /\ pc' = "idle" /\ job' = NoPin /\ Trust
  /\ UNCHANGED <<mode, root, blobGen, known, candidate, pinned, lastCheckpoint, lastSeq, nextTxn,
                 walPoisoned, walFile, blobs, acked, history, usedTxn, nextBlob>>

\* Mutant: the writer goes on after a failed write.
PoisonWalNot == UNCHANGED walPoisoned

PoisonWal == walPoisoned' = TRUE

FailWal ==
  /\ mode = "up" /\ Inject("io")
  /\ \/ /\ pc = "CandidatePublished"
        /\ \/ UNCHANGED wal
           \/ AppendRecord("begin", nextTxn, NoRoot, 0, 0)
        /\ UNCHANGED history
     \/ /\ pc = "VacuumBegun"
        /\ \/ UNCHANGED <<wal, history>>
           \/ /\ AppendRecord("vacuum", nextTxn, VacuumRoot(root.blobGen), 0, 0)
              /\ Remember(root.csn + 1, root.blob)
     \/ /\ pc = "ManifestPublished"
        /\ \/ UNCHANGED wal
           \/ AppendRecord("checkpoint", nextTxn, root, Max(DOMAIN known), lastCheckpoint)
        /\ UNCHANGED history
     \/ /\ pc \in {"VacuumLogged", "CheckpointAppended", "WalReset"}
        /\ UNCHANGED <<wal, history>>
     \/ /\ pc = "AnchorPending"
        /\ wal' \in {wal, <<>>}
        /\ UNCHANGED history
  /\ pc' = "idle" /\ job' = NoPin /\ PoisonWal
  /\ UNCHANGED <<mode, root, blobGen, stores, lastCheckpoint, lastSeq, nextTxn, platter,
                 pageFiles, blobs, manifestFiles, anchorFiles, pinFiles, unsynced, acked, usedTxn, nextBlob, undoing>>

\* A step meets the poisoned WAL.
FailPoisoned ==
  /\ mode = "up" /\ walPoisoned
  /\ pc \in {"CandidatePublished", "ManifestPublished"}
  /\ pc' = "idle" /\ job' = NoPin
  /\ UNCHANGED <<mode, root, blobGen, stores, lastCheckpoint, lastSeq, nextTxn, walPoisoned,
                 files, ghosts>>

-----------------------------------------------------------------------------
(* Open, in the order of open_with_marker_mode, cut where it has changed   *)
(* the directory; nothing is kept in memory until it succeeds.             *)
Commits(log) == SelectSeq(log, LAMBDA r : r.kind \in {"commit", "vacuum"})
Checkpoints(log) == SelectSeq(log, LAMBDA r : r.kind = "checkpoint")
Base == IF anchors = EmptyFcn THEN NoAnchor ELSE Latest(anchors)
BaseRoot == IF Base = NoAnchor THEN NoRoot ELSE manifests[Base.mgen]

\* RootManifestStore::open_from: no gap from the base to the latest generation.
ManifestChain(a) ==
  LET first == IF a = NoAnchor THEN 1 ELSE a.mgen
      kept == {g \in DOMAIN manifests : g >= first}
  IN  /\ kept # {} => kept = first..Max(kept)
      /\ a # NoAnchor => first \in kept

\* validate_retention_anchor
AnchorBinds(a) ==
  /\ a.mgen \in DOMAIN manifests
  /\ manifests[a.mgen].csn = a.base /\ manifests[a.mgen].floor = a.base
  /\ manifests[a.mgen].seq = a.rootSeq

\* WalRetentionStore::open: two stable anchors are consecutive, and then none is
\* pending; a pending one is the next.
AnchorChain ==
  /\ Cardinality(DOMAIN anchors) <= 2
  /\ Cardinality(DOMAIN anchors) = 2 => pending = NoAnchor /\ Max(DOMAIN anchors) - 1 \in DOMAIN anchors
  /\ pending # NoAnchor =>
       pending.epoch = IF anchors = EmptyFcn THEN 1 ELSE Max(DOMAIN anchors) + 1

StoresOpenable == AnchorChain /\ ManifestChain(IF pending # NoAnchor THEN pending ELSE Base)

Dangling == wal # <<>> /\ wal[Len(wal)].kind = "begin"

\* The blocks of the file follow the retired ones.
WalFollows == wal # <<>> => wal[1].seq = (IF Base = NoAnchor THEN 0 ELSE Base.retired) + 1

Opening(boundary) == mode = "down" /\ pc = boundary

\* Mutant: temporary files of manifests stay.
RemoveStagesKept ==
  /\ anchorTmp' = FALSE /\ UNCHANGED <<manifestTmp, unsynced>>

\* WalRetentionStore::open and RootManifestStore::open_from remove the temporary
\* files they find, and synchronize their directory only then.
RemoveStages ==
  /\ anchorTmp' = FALSE /\ manifestTmp' = {}
  /\ unsynced' = [unsynced EXCEPT !.data = IF anchorTmp THEN {} ELSE @,
                                  !.roots = IF manifestTmp # {} THEN {} ELSE @]

OpenStores ==
  /\ Opening("idle") /\ StoresOpenable
  /\ RemoveStages /\ Trust
  /\ pc' = IF pending # NoAnchor THEN "StoresOpened" ELSE "RetentionCompleted"
  /\ UNCHANGED <<mode, job, root, blobGen, stores, lastCheckpoint, lastSeq, nextTxn, walPoisoned,
                 walFile, pageFiles, blobs, manifests, anchors, pending, pinFiles, acked, history,
                 usedTxn, nextBlob, faults>>

\* complete_pending_wal_retention: the WAL, then stabilize_candidate.
CompleteReset ==
  /\ Opening("StoresOpened") /\ AnchorBinds(pending)
  /\ wal' = <<>> /\ platter' = <<>> /\ pc' = "ResetCompleted"
  /\ UNCHANGED <<mode, job, root, blobGen, stores, lastCheckpoint, lastSeq, nextTxn, walPoisoned,
                 pageFiles, blobs, manifestFiles, anchorFiles, pinFiles, unsynced, ghosts>>

CompletePending ==
  /\ Opening("ResetCompleted")
  /\ RenameAnchorStable /\ SyncDirectory("data") /\ pc' = "RetentionCompleted"
  /\ UNCHANGED <<mode, job, root, blobGen, stores, lastCheckpoint, lastSeq, nextTxn, walPoisoned,
                 walFile, pageFiles, blobs, manifestFiles, pinFiles, ghosts>>

\* WalRecovery closes a vacuum that has no COMMIT.
CloseDangling ==
  /\ Opening("RetentionCompleted") /\ WalFollows /\ Dangling
  /\ LET last == wal[Len(wal)] IN
       wal' = Append(wal, Record("abort", last.seq + 1, last.txn, NoRoot, 0, 0))
  /\ platter' = wal'
  /\ UNCHANGED <<handle, pageFiles, blobs, manifestFiles, anchorFiles, pinFiles, unsynced, ghosts>>

Suffix == Commits(wal)
LastRoot == IF Suffix = <<>> THEN BaseRoot ELSE Suffix[Len(Suffix)].root
RecoveredBlobGen == Max({LastRoot.blobGen, Cardinality(blobs)})

\* validate_commit_sequence_after
SequenceValid ==
  \A i \in 1..Len(Suffix) :
    LET r == Suffix[i].root
        prior == IF i = 1 THEN BaseRoot ELSE Suffix[i - 1].root
    IN  /\ r.csn = prior.csn + 1 /\ r.blobGen >= prior.blobGen
        /\ \/ prior.csn = 0 /\ r.gen = 1 /\ r.floor = 1 /\ Suffix[i].kind = "commit"
           \/ prior.csn # 0 /\ r.gen = prior.gen /\ r.floor = prior.floor /\ Suffix[i].kind = "commit"
           \/ /\ prior.csn # 0 /\ r.gen = prior.gen + 1 /\ r.floor = r.csn
              /\ Suffix[i].kind = "vacuum" /\ r.blobGen = prior.blobGen

Reads(r) == /\ r.gen \in DOMAIN pages /\ r.csn \in pages[r.gen]
            /\ r.blob \in blobs \cup {0}

\* recover_committed_roots, the retained base: it must live in the active page
\* generation, under the floor of the last commit.
BaseCurrent == BaseRoot.csn # 0 => BaseRoot.gen = LastRoot.gen /\ BaseRoot.floor = LastRoot.floor

RootsValid ==
  /\ LastRoot.gen \in DOMAIN pages
  /\ BaseRoot.csn # 0 => BaseRoot.blobGen <= RecoveredBlobGen /\ BaseRoot.csn \in pages[LastRoot.gen]
  /\ \A i \in 1..Len(Suffix) :
       /\ Suffix[i].root.blobGen <= RecoveredBlobGen
       /\ Suffix[i].root.csn >= LastRoot.floor =>
            Suffix[i].root.gen = LastRoot.gen /\ Suffix[i].root.csn \in pages[LastRoot.gen]
  /\ LastRoot.csn # 0 => Reads(LastRoot)

\* recover_checkpoint and validate_checkpoints: records chain from the base, and
\* each names a manifest equal to the root committed at its CSN.
CommittedRoots == {Suffix[i].root : i \in 1..Len(Suffix)} \cup {BaseRoot}

CheckpointsChain ==
  LET marks == Checkpoints(wal) IN
    \A i \in 1..Len(marks) :
      /\ marks[i].prev = IF i > 1 THEN marks[i - 1].seq
                         ELSE IF Base # NoAnchor THEN Base.checkpoint ELSE 0
      /\ marks[i].mgen \in DOMAIN manifests /\ manifests[marks[i].mgen].csn = marks[i].root.csn
      /\ i > 1 => marks[i].mgen > marks[i - 1].mgen
      /\ i = 1 /\ Base # NoAnchor => marks[i].mgen > Base.mgen

CheckpointsMatch ==
  LET marks == Checkpoints(wal) IN
    \A i \in 1..Len(marks) : manifests[marks[i].mgen] \in CommittedRoots

\* validate_snapshot_pins
PinAuthorized(pin) ==
  \/ \E i \in 1..Len(wal) : wal[i].kind = "checkpoint" /\ wal[i].mgen = pin.mgen
                            /\ wal[i].root.csn = pin.root.csn
  \/ Base # NoAnchor /\ Base.mgen = pin.mgen /\ Base.base = pin.root.csn /\ Base.rootSeq = pin.root.seq

PinsValid ==
  \A p \in DOMAIN pins :
    /\ pins[p].mgen \in DOMAIN manifests /\ manifests[pins[p].mgen] = pins[p].root
    /\ PinAuthorized(pins[p]) /\ pins[p].root.blobGen <= RecoveredBlobGen
    /\ Reads(pins[p].root)

Openable ==
  /\ Base # NoAnchor => AnchorBinds(Base)
  /\ WalFollows /\ SequenceValid /\ BaseCurrent /\ RootsValid
  /\ CheckpointsChain /\ CheckpointsMatch /\ PinsValid

TxnsOf(log) == {log[i].txn : i \in 1..Len(log)}

\* finish_open_recovery: cleanup_temporaries of the pins, then the page files.
CollectGenerations ==
  /\ Opening("RetentionCompleted") /\ ~Dangling /\ Openable
  /\ pages' = Without(pages, Collected(LastRoot.gen, pins)) /\ pageTmp' = FALSE
  /\ pinTmp' = {}
  /\ unsynced' = [unsynced EXCEPT !.data = IF pageFiles' # pageFiles THEN {} ELSE @,
                                  !.pins = IF pinTmp # {} THEN {} ELSE @]
  /\ pc' = "GenerationsCollected"
  /\ UNCHANGED <<mode, job, root, blobGen, stores, lastCheckpoint, lastSeq, nextTxn, walPoisoned,
                 walFile, blobs, manifestFiles, anchorFiles, pins, ghosts>>

\* prune_recovered_manifest_prefix
PrunePrefix ==
  /\ Opening("GenerationsCollected")
  /\ manifests' = IF Base = NoAnchor THEN manifests ELSE From(manifests, Base.mgen)
  /\ SyncDirectoryIf(manifests' # manifests, "roots") /\ pc' = "PrefixPruned"
  /\ UNCHANGED <<mode, job, root, blobGen, stores, lastCheckpoint, lastSeq, nextTxn, walPoisoned,
                 walFile, pageFiles, blobs, manifestTmp, anchorFiles, pinFiles, ghosts>>

\* Mutant: transaction ids restart after the retained suffix.
RecoveredTxnSuffixOnly == Max({1} \cup {t + 1 : t \in TxnsOf(wal)})

\* wal_recovery_metadata
RecoveredTxn ==
  Max({1} \cup {t + 1 : t \in TxnsOf(wal)} \cup (IF Base = NoAnchor THEN {} ELSE {Base.nextTxn}))

\* cleanup_stale_wal_anchors, and the handle.
Open ==
  /\ Opening("PrefixPruned")
  /\ anchors' = IF Base = NoAnchor THEN anchors ELSE From(anchors, Base.epoch)
  /\ SyncDirectoryIf(anchors' # anchors, "data")
  /\ mode' = "up" /\ pc' = "idle" /\ root' = LastRoot /\ blobGen' = RecoveredBlobGen
  /\ known' = manifests /\ epochs' = anchors' /\ pinned' = pins
  /\ lastCheckpoint' = IF Checkpoints(wal) # <<>> THEN Checkpoints(wal)[Len(Checkpoints(wal))].seq
                       ELSE IF Base # NoAnchor THEN Base.checkpoint ELSE 0
  /\ lastSeq' = IF wal # <<>> THEN wal[Len(wal)].seq
                ELSE IF Base # NoAnchor THEN Base.retired ELSE 0
  /\ nextTxn' = RecoveredTxn
  /\ UNCHANGED <<job, candidate, walPoisoned, walFile, pageFiles, blobs, manifestFiles, pending,
                 anchorTmp, pinFiles, ghosts>>

\* Open fails: at the stores, at the pending anchor, or at what it recovers.
OpenRefused ==
  /\ \/ Opening("idle") /\ ~StoresOpenable
     \/ Opening("StoresOpened") /\ ~AnchorBinds(pending)
     \/ Opening("RetentionCompleted") /\ Dangling /\ ~WalFollows
     \/ Opening("RetentionCompleted") /\ ~Dangling /\ ~Openable
  /\ mode' = "refused"
  /\ UNCHANGED <<pc, job, root, blobGen, stores, lastCheckpoint, lastSeq, nextTxn, walPoisoned,
                 files, ghosts>>

\* Its renames and removals may be interrupted as well.
InterruptedOpen ==
  \/ /\ Opening("ResetCompleted") /\ RenameAnchorStable /\ LeaveUnsynced("data")
     /\ UNCHANGED <<pageFiles, manifestFiles, pinFiles>>
  \/ /\ Opening("RetentionCompleted") /\ ~Dangling /\ Openable
     /\ \E retired \in SUBSET Collected(LastRoot.gen, pins) \ {{}} : pages' = Without(pages, retired)
     /\ LeaveUnsynced("data")
     /\ UNCHANGED <<pageTmp, manifestFiles, anchorFiles, pinFiles>>
  \/ /\ Opening("GenerationsCollected") /\ Base # NoAnchor
     /\ \E g \in 1..Base.mgen : manifests' = From(manifests, g)
     /\ manifests' # manifests /\ LeaveUnsynced("roots")
     /\ UNCHANGED <<pageFiles, manifestTmp, anchorFiles, pinFiles>>
  \/ /\ Opening("PrefixPruned") /\ Base # NoAnchor
     /\ anchors' = From(anchors, Base.epoch) /\ anchors' # anchors /\ LeaveUnsynced("data")
     /\ UNCHANGED <<pageFiles, manifestFiles, pending, anchorTmp, pinFiles>>

-----------------------------------------------------------------------------
(* Crashes, of a handle and of an open.                                    *)
DropHandle ==
  /\ mode' = "down" /\ pc' = "idle" /\ job' = NoPin
  /\ root' = NoRoot /\ blobGen' = 0
  /\ known' = EmptyFcn /\ epochs' = EmptyFcn /\ candidate' = NoAnchor /\ pinned' = EmptyFcn
  /\ lastCheckpoint' = 0 /\ lastSeq' = 0 /\ nextTxn' = 1 /\ walPoisoned' = FALSE

Kill ==
  /\ mode = "up" \/ (mode = "down" /\ pc # "idle")
  /\ Inject("kill")
  /\ DropHandle
  /\ UNCHANGED <<files, acked, history, usedTxn, nextBlob, undoing>>

KillInterrupted ==
  /\ Inject("kill")
  /\ Interrupted \/ InterruptedOpen
  /\ DropHandle
  /\ UNCHANGED <<walFile, blobs, acked, history, usedTxn, nextBlob, undoing>>

\* A commit dies after its blob is published and before its WAL records.
KillOrphan ==
  /\ At("idle") /\ Inject("orphan") /\ nextBlob <= MaxBlob
  /\ blobs' = blobs \cup {nextBlob} /\ nextBlob' = nextBlob + 1
  /\ SyncDirectory("blobs")
  /\ DropHandle
  /\ UNCHANGED <<walFile, pageFiles, manifestFiles, anchorFiles, pinFiles, acked, history, usedTxn,
                 undoing>>

\* A power loss takes WAL blocks that were not synchronized, or brings back a
\* truncated WAL ...
Survivors ==
  IF wal = <<>> THEN {wal, platter} ELSE {SubSeq(wal, 1, n) : n \in Len(platter)..Len(wal)}

\* ... and takes each directory back to its last synchronization or to any state
\* since.  A file that keeps its name keeps its contents, and temporary files
\* stay: open removes them either way.
Images(d) == unsynced[d] \cup {Entries[d]}

Names == [anchors |-> <<anchors, pending>>, manifests |-> manifests, pins |-> pins]

PowerLoss ==
  /\ mode # "refused" /\ Inject("power")
  /\ mode = "down" /\ pc = "idle" => wal # platter \/ \E d \in Directory : unsynced[d] # {}
  /\ DropHandle
  /\ wal' \in Survivors /\ platter' = wal'
  /\ \E image \in Images("data") :
       /\ pages' = [g \in DOMAIN image.pages |-> IF g \in DOMAIN pages THEN pages[g] ELSE image.pages[g]]
       /\ anchors' = image.anchors /\ pending' = image.pending
  /\ manifests' \in Images("roots") /\ pins' \in Images("pins") /\ blobs' \in Images("blobs")
  /\ unsynced' = [d \in Directory |-> {}]
  /\ undone' = undone \cup {kind \in DOMAIN Names : trusted /\ Names'[kind] # Names[kind]}
  /\ trusted' = FALSE
  /\ UNCHANGED <<pageTmp, manifestTmp, anchorTmp, pinTmp, acked, history, usedTxn, nextBlob>>

-----------------------------------------------------------------------------
Vacuum == \/ BuildCandidate \/ DiscardCandidate \/ PublishGeneration \/ AppendVacuumBegin
          \/ AppendVacuumCommit \/ SyncVacuum \/ RetirePriorGeneration \/ CollectRetired

Checkpoint == \/ \E p \in Pin \cup {NoPin} : StageManifest(p)
              \/ PublishManifest \/ AppendCheckpoint \/ SyncCheckpoint

Pinning == StagePin \/ StagePinBlocked \/ PublishPin \/ \E p \in Pin : Unpin(p)

Truncate == \/ StageAnchor \/ PublishCandidate \/ ResetWal \/ SyncReset \/ StabilizeCandidate
            \/ PruneManifests \/ RemovePriorAnchor

CollectBlobs == TraceReferences \/ (\E b \in 1..MaxBlob : RemoveUnreferenced(b)) \/ EndCollection

Failure == FailFirst \/ FailFile \/ FailWal \/ FailPoisoned

Crash == Kill \/ KillInterrupted \/ KillOrphan \/ PowerLoss

Recovery == \/ OpenStores \/ CompleteReset \/ CompletePending \/ CloseDangling
            \/ CollectGenerations \/ PrunePrefix \/ Open \/ OpenRefused

Next == \/ Commit \/ Vacuum \/ Checkpoint \/ Pinning \/ Truncate \/ CollectBlobs
        \/ Failure \/ Crash \/ Recovery

Spec == Init /\ [][Next]_vars

-----------------------------------------------------------------------------
(***************************************************************************)
(* An open database shows every acknowledged commit: no crash between two  *)
(* steps of vacuum, checkpoint, retention or collection loses one, nor one *)
(* between a rename and the synchronization of its directory, as long as   *)
(* power takes back no change to an anchor file that the program went on   *)
(* from (truncate_wal_at_retention_checkpoint_at, open_wal_state).  Where  *)
(* it does, section 5 of the README has the trace.                         *)
(***************************************************************************)
AckedKept == mode = "up" /\ "anchors" \notin undone => root.csn >= acked

(***************************************************************************)
(* The current root can be read at every boundary of every operation, and  *)
(* reads the state its commit left: its page generation and its blob are   *)
(* there (remove_page_generation_if_unpinned, collect_page_generation_files,*)
(* prune_unreferenced).                                                    *)
(***************************************************************************)
RootServed ==
  mode = "up" /\ root.csn # 0 => Reads(root) /\ root.blob = history[root.csn]

(***************************************************************************)
(* After kills and power losses, open refuses a directory for few reasons  *)
(* only.  A vacuum followed the last WAL retention, so that the anchored   *)
(* root lies in a generation that is gone; or an open went on from a       *)
(* vacuum whose COMMIT was never synchronized and retired the prior        *)
(* generation, and power took the COMMIT; or power took back a change that *)
(* an open had gone on from without synchronizing its directory: to an     *)
(* anchor file, the rename of a manifest that was anchored since, or the   *)
(* removal of a pin whose pages were collected since                       *)
(* (recover_committed_roots, collect_page_generation_files,                *)
(* validate_snapshot_pins).                                                *)
(***************************************************************************)
RefusedOnlyRetired ==
  mode = "refused" =>
    \/ "anchors" \in undone
    \/ "manifests" \in undone /\ \E a \in {pending, Base} \ {NoAnchor} : a.mgen \notin DOMAIN manifests
    \/ "pins" \in undone /\ ~PinsValid
    \/ ~BaseCurrent
    \/ LastRoot.gen \notin DOMAIN pages

(***************************************************************************)
(* After errors the caller goes on from and commits that die with a blob   *)
(* published, there are two further reasons and no other: maintenance      *)
(* overtook a pin file that its memory did not know, or a manifest differs *)
(* from the committed root of its checkpoint in the blob generation alone  *)
(* (validate_snapshot_pins, validate_checkpoints,                          *)
(* BlobStore::open_with_generation_floor).                                 *)
(***************************************************************************)
RefusedOnlyOvertaken ==
  mode = "refused" =>
    \/ ~BaseCurrent
    \/ LastRoot.gen \notin DOMAIN pages
    \/ ~PinsValid
    \/ \E g \in DOMAIN manifests, r \in CommittedRoots :
         manifests[g] # r /\ [manifests[g] EXCEPT !.blobGen = r.blobGen] = r

(***************************************************************************)
(* Completing a pending retention at open drops no block but the ones its  *)
(* anchor retires, unless power brought the pending name back after an     *)
(* open had made the anchor stable and gone on                             *)
(* (complete_pending_wal_retention, stabilize_candidate).                  *)
(***************************************************************************)
CompletionDropsRetired ==
  [][mode = "down" /\ pc = "StoresOpened" /\ pc' = "ResetCompleted" /\ wal # <<>>
       /\ "anchors" \notin undone
       => wal[Len(wal)].seq <= pending.retired]_vars

(***************************************************************************)
(* Reopen returns the complete prior or the complete new state for every   *)
(* boundary: open refuses no directory.                                    *)
(***************************************************************************)
NeverRefused == mode # "refused"

(***************************************************************************)
(* Every stable pin can be opened: its manifest is retained and equals the *)
(* pinned root, and its page generation and blob are still there, whatever *)
(* vacuum, retention and collection did since (pin_current_at,             *)
(* open_pinned_snapshot).                                                  *)
(***************************************************************************)
PinsReadable ==
  mode = "up" =>
    \A p \in DOMAIN pins :
      /\ pins[p].mgen \in DOMAIN manifests /\ manifests[pins[p].mgen] = pins[p].root
      /\ Reads(pins[p].root) /\ pins[p].root.blob = history[pins[p].root.csn]

(***************************************************************************)
(* A transaction id that was acknowledged is never given out again, also   *)
(* when the WAL that held it was retired (the anchor's next_transaction_id),*)
(* with the exception of AckedKept.                                        *)
(***************************************************************************)
TxnIdsFresh == mode = "up" /\ "anchors" \notin undone => nextTxn > usedTxn

(***************************************************************************)
(* After a crash nothing an operation left behind stops the next one: the  *)
(* names that a checkpoint, a pin and a retention stage under are free     *)
(* (RootManifestStore::stage, SnapshotPinStore::stage,                     *)
(* WalRetentionStore::stage).                                              *)
(***************************************************************************)
StagingClear ==
  At("idle") =>
    /\ NextManifest \notin manifestTmp \cup DOMAIN manifests
    /\ pinTmp = {} /\ ~anchorTmp /\ pending = NoAnchor
    /\ DOMAIN pins = DOMAIN pinned

(***************************************************************************)
(* The stable anchor binds the manifest of the checkpoint record that was  *)
(* the last block of the WAL it retired (prepare_wal_retention).  The code *)
(* does not guarantee this: see section 5 of the README.                   *)
(***************************************************************************)
AnchorNamesCheckpoint ==
  At("AnchorStaged") => wal # <<>> /\ wal[Len(wal)].kind = "checkpoint" /\ wal[Len(wal)].mgen = NextAnchor.mgen

=============================================================================
