------------------------- MODULE NativeCommitProofs -------------------------
(* Theorems about NativeCommit, for every value of its constants. *)
EXTENDS NativeCommit, WellFoundedInduction, TLAPS

-----------------------------------------------------------------------------
(* A non-empty set of positions of a sequence has a greatest member, which *)
(* is the one Max returns: recovery's last commit is well defined.         *)
LEMMA MaxOfPositions ==
  ASSUME NEW n \in Nat, NEW S \in SUBSET (1..n), S # {}
  PROVE  Max(S) \in S /\ \A x \in S : x <= Max(S)
<1> DEFINE T == {n - x : x \in S}
<1>1. T \subseteq Nat
  OBVIOUS
<1>2. T # {}
  BY Zenon
<1>3. PICK m \in T : \A y \in T : ~(<<y, m>> \in OpToRel(<, Nat))
  BY <1>1, <1>2, WFMin, NatLessThanWellFounded, Zenon
<1>4. PICK x \in S : m = n - x
  OBVIOUS
<1>5. \A y \in S : x >= y
  <2> TAKE y \in S
  <2>1. n - y \in T /\ n - y \in Nat /\ m \in Nat
    OBVIOUS
  <2>2. ~(n - y < m)
    BY Zenon, <1>3, <2>1 DEF OpToRel
  <2> QED
    BY <1>4, <2>1, <2>2
<1>6. Max(S) \in S /\ \A y \in S : Max(S) >= y
  BY Zenon, <1>5 DEF Max
<1> QED
  BY <1>6

-----------------------------------------------------------------------------
(* Type correctness.  The member being staged must be one of the cohort,   *)
(* so the type invariant is proved together with the shape of the cohort.  *)
CohortOK ==
  /\ mode # "up" => pc = "idle"
  /\ pc = "idle" => cohort = <<>>
  /\ pc \notin {"idle", "admit"} => pos \in 1..Len(cohort)
  /\ pc = "admit" => grouped /\ pos = 1
  /\ pc # "idle" /\ ~grouped => Len(cohort) = 1
  /\ pc = "promote" => Blob \in Content
  /\ pc = "syncDirectory" => Blob \in blobs

TypeInv == TypeOK /\ CohortOK

(* The records of one transaction and what DropHandle and GiveUp leave.    *)
LEMMA TypeOfRecords ==
  ASSUME TypeInv, pc \notin {"idle", "admit"}
  PROVE  /\ Current \in Txn
         /\ BeginEntry(Current) \in Entry
         /\ TransactionRecords \in Seq(Entry) /\ Len(TransactionRecords) = 2
<1>1. Current \in Txn
  BY DEF TypeInv, TypeOK, HandleOK, CohortOK, Current
<1>2. EmptyRoot \in Root
  BY DEF EmptyRoot, Root
<1>3. visible + pos \in Nat /\ nextRoot \in Root
  BY DEF TypeInv, TypeOK, HandleOK
<1>4. BeginEntry(Current) \in Entry
  BY <1>1, <1>2 DEF BeginEntry, Entry
<1>5. CommitEntry(Current, visible + pos, nextRoot) \in Entry
  BY <1>1, <1>3 DEF CommitEntry, Entry
<1> QED
  BY <1>1, <1>4, <1>5 DEF TransactionRecords

LEMMA TypeOfEmptyRoot == EmptyRoot \in Root /\ EmptyRoot \in [Key -> Nat]
  BY DEF EmptyRoot, Root

LEMMA TypeOfReleaseWriter ==
  ASSUME ReleaseWriter
  PROVE  /\ pc' \in Step /\ grouped' \in BOOLEAN /\ cohort' \in Seq(Txn) /\ pos' \in Nat
         /\ nextRoot' \in Root /\ nextConflicts' \in [Key -> Nat]
         /\ CohortOK'
<1>1. grouped' \in BOOLEAN
  BY Zenon DEF ReleaseWriter
<1> QED
  BY <1>1, TypeOfEmptyRoot DEF ReleaseWriter, Step, CohortOK

LEMMA TypeOfDropHandle ==
  ASSUME TypeInv, DropHandle
  PROVE  HandleOK' /\ ClientsOK' /\ CohortOK' /\ blobIndex' = {}
<1>1. HandleOK'
  <2>1. pagesPoisoned' \in BOOLEAN /\ walPoisoned' \in BOOLEAN
    BY Zenon DEF DropHandle
  <2> QED
    BY <2>1, TypeOfReleaseWriter, TypeOfEmptyRoot DEF HandleOK, DropHandle
<1>2. ClientsOK'
  BY DEF TypeInv, TypeOK, ClientsOK, DropHandle, Phase
<1> QED
  BY <1>1, <1>2 DEF CohortOK, DropHandle, ReleaseWriter

LEMMA TypeOfGiveUp ==
  ASSUME TypeInv, NEW outcome \in {"failed", "unknown"}, NEW badPages, NEW badWal,
         GiveUp(outcome, badPages, badWal), pc \notin {"idle", "admit"}
  PROVE  HandleOK' /\ ClientsOK' /\ CohortOK' /\ blobIndex' \in {blobIndex, {}}
<1>1. CASE DropHandle
  BY <1>1, TypeOfDropHandle
<1>2. CASE ~grouped
  <2>1. Current \in Txn
    BY TypeOfRecords
  <2>2. ~(grouped /\ DropHandle)
    BY <1>2
  <2>3. /\ ReleaseWriter
        /\ pagesPoisoned' = IF badPages THEN TRUE ELSE pagesPoisoned
        /\ walPoisoned' = IF badWal THEN TRUE ELSE walPoisoned
        /\ phase' = [phase EXCEPT ![Current] = outcome]
        /\ UNCHANGED <<mode, visible, root, conflicts, blobIndex, plan, ackCsn>>
    BY <2>2, Zenon DEF GiveUp
  <2>4. pagesPoisoned' \in BOOLEAN /\ walPoisoned' \in BOOLEAN
    BY <2>3, Zenon DEF TypeInv, TypeOK, HandleOK
  <2>5. HandleOK'
    BY Zenon, <2>3, <2>4, TypeOfReleaseWriter DEF TypeInv, TypeOK, HandleOK
  <2>6. ClientsOK'
    BY <2>1, <2>3 DEF TypeInv, TypeOK, ClientsOK, Phase
  <2> QED
    BY <2>3, <2>5, <2>6 DEF CohortOK, ReleaseWriter
<1> QED
  BY Zenon, <1>1, <1>2 DEF GiveUp

LEMMA TypeOfRecovery ==
  ASSUME TypeInv
  PROVE  /\ CommitsOf(wal) \subseteq 1..Len(wal)
         /\ RecoveredCsn(wal) \in Nat
         /\ RecoveredRoot(wal) \in Root
         /\ RecoveredConflicts(wal) \in [Key -> Nat]
<1>1. wal \in Seq(Entry) /\ Len(wal) \in Nat
  BY DEF TypeInv, TypeOK, FilesOK
<1>2. CommitsOf(wal) \subseteq 1..Len(wal)
  BY DEF CommitsOf
<1>3. \A i \in 1..Len(wal) : wal[i].csn \in Nat /\ wal[i].root \in Root
  <2>1. \A i \in 1..Len(wal) : wal[i] \in Entry
    BY <1>1
  <2> QED
    BY <2>1 DEF Entry
<1>4. \A S \in SUBSET CommitsOf(wal) : S # {} => Max(S) \in 1..Len(wal)
  BY Zenon, <1>1, <1>2, MaxOfPositions
<1>5. EmptyRoot \in Root
  BY DEF EmptyRoot, Root
<1>6. RecoveredCsn(wal) \in Nat
  BY <1>3, <1>4 DEF RecoveredCsn
<1>7. RecoveredRoot(wal) \in Root
  BY <1>3, <1>4, <1>5 DEF RecoveredRoot
<1>8. RecoveredConflicts(wal) \in [Key -> Nat]
  <2>1. \A k \in Key : WritersOf(wal, k) \in SUBSET CommitsOf(wal)
    BY DEF WritersOf
  <2>2. \A k \in Key : WritersOf(wal, k) # {} => wal[Max(WritersOf(wal, k))].csn \in Nat
    BY <1>3, <1>4, <2>1
  <2> QED
    BY <2>2 DEF RecoveredConflicts
<1> QED
  BY <1>2, <1>6, <1>7, <1>8

LEMMA TypeOfCloseDangling ==
  ASSUME TypeInv, CloseDangling
  PROVE  wal' \in Seq(Entry) /\ walSynced' \in 0..Len(wal')
<1>1. CASE LogReadable /\ Dangling(wal)
  <2>1. wal # <<>> /\ wal \in Seq(Entry)
    BY <1>1 DEF TypeInv, TypeOK, FilesOK, Dangling
  <2>2. wal[Len(wal)] \in Entry
    BY <2>1
  <2>3. AbortEntry(wal[Len(wal)].txn) \in Entry
    <3>1. wal[Len(wal)].txn \in Txn /\ EmptyRoot \in Root
      BY <2>2 DEF Entry, EmptyRoot, Root
    <3> QED
      BY <3>1 DEF AbortEntry, Entry
  <2>4. wal' = Append(wal, AbortEntry(wal[Len(wal)].txn)) /\ walSynced' = Len(wal) + 1
    BY <1>1 DEF CloseDangling
  <2> QED
    BY <2>1, <2>3, <2>4
<1>2. CASE ~(LogReadable /\ Dangling(wal))
  BY <1>2 DEF CloseDangling, TypeInv, TypeOK, FilesOK
<1> QED
  BY <1>1, <1>2

LEMMA TypeOfPublishCommitted ==
  ASSUME NEW table \in [Key -> Nat], NEW t, NEW c \in Nat
  PROVE  PublishCommitted(table, t, c) \in [Key -> Nat]
  BY DEF PublishCommitted

LEMMA TypeOfInject ==
  ASSUME TypeInv, NEW fault, Inject(fault)
  PROVE  faults' \in 0..MaxFaults
  BY ConstantsAssumption DEF Inject, TypeInv, TypeOK

LEMMA PositionInCohort ==
  ASSUME NEW t, InCohort(t)
  PROVE  PositionOf(t) \in 1..Len(cohort) /\ cohort[PositionOf(t)] = t
  BY DEF InCohort, PositionOf

(* The initial states are well typed.                                      *)
LEMMA TypeInit == Init => TypeInv
<1> SUFFICES ASSUME Init PROVE TypeInv
  OBVIOUS
<1>1. NoPlan \in Plan
  BY DEF NoPlan, Plan, Class
<1>2. grouped \in BOOLEAN /\ pagesPoisoned \in BOOLEAN /\ walPoisoned \in BOOLEAN
  BY Zenon DEF Init
<1>3. HandleOK
  BY <1>2, TypeOfEmptyRoot DEF Init, HandleOK, Step
<1>4. FilesOK
  BY DEF Init, FilesOK
<1>5. ClientsOK
  BY <1>1 DEF Init, ClientsOK, Phase
<1> QED
  BY <1>3, <1>4, <1>5, ConstantsAssumption DEF Init, TypeInv, TypeOK, CohortOK

(* What a step leaves alone keeps its type.                                *)
LEMMA SameFiles ==
  ASSUME TypeInv, UNCHANGED <<files, blobIndex>>
  PROVE  FilesOK'
  BY DEF files, blobFiles, TypeInv, TypeOK, FilesOK

LEMMA SameClients ==
  ASSUME TypeInv, UNCHANGED clients
  PROVE  ClientsOK'
  BY DEF clients, TypeInv, TypeOK, ClientsOK

(* A step outside every commit that changes only files and clients.        *)
LEMMA TypeOfIdle ==
  ASSUME TypeInv, UNCHANGED <<handle, faults>>, pc \in {"idle", "admit"}
  PROVE  HandleOK' /\ CohortOK' /\ faults' \in 0..MaxFaults
<1>1. HandleOK'
  BY DEF handle, TypeInv, TypeOK, HandleOK
<1>2. CohortOK'
  BY DEF handle, TypeInv, CohortOK
<1> QED
  BY <1>1, <1>2 DEF TypeInv, TypeOK

(* A durable step of the member being staged.                              *)
LEMMA TypeOfStep ==
  ASSUME TypeInv, mode = "up", pc \notin {"idle", "admit"},
         UNCHANGED <<held, nextConflicts, clients, faults>>,
         pc' \in Step \ {"idle", "admit"}, pos' \in {pos} \cup (1..Len(cohort)),
         nextRoot' \in {nextRoot} \cup Root, FilesOK',
         pc' = "promote" => Blob' \in Content, pc' = "syncDirectory" => Blob' \in blobs'
  PROVE  TypeInv'
<1>1. HandleOK'
  BY DEF held, TypeInv, TypeOK, HandleOK
<1>2. CohortOK'
  BY DEF held, TypeInv, CohortOK
<1>3. ClientsOK'
  BY SameClients
<1> QED
  BY <1>1, <1>2, <1>3 DEF TypeInv, TypeOK

(* The first step of a commit.                                             *)
LEMMA TypeOfBegin ==
  ASSUME TypeInv, pc' \in Step, grouped' \in BOOLEAN, cohort' \in Seq(Txn), pos' = 1,
         nextRoot' = BaseRoot, nextConflicts' \in [Key -> Nat],
         UNCHANGED <<mode, visible, root, conflicts, pagesPoisoned, walPoisoned>>
  PROVE  HandleOK'
  BY DEF BaseRoot, TypeInv, TypeOK, HandleOK

LEMMA TypePrepareBatch ==
  ASSUME TypeInv, NEW t \in Txn, PrepareBatch(t)
  PROVE  TypeInv'
<1>1. PICK w \in Workload :
        plan' = [plan EXCEPT ![t] = [read |-> visible, keys |-> w.keys,
                                     class |-> w.class, blob |-> w.blob]]
  BY Zenon DEF PrepareBatch
<1>2. w \in [keys : SUBSET Key, class : Class, blob : Content \cup {NoBlob}]
  BY ConstantsAssumption
<1>3. [read |-> visible, keys |-> w.keys, class |-> w.class, blob |-> w.blob] \in Plan
  BY <1>2 DEF Plan, TypeInv, TypeOK, HandleOK
<1>4. plan' \in [Txn -> Plan]
  BY <1>1, <1>3 DEF TypeInv, TypeOK, ClientsOK
<1> QED
  BY SMT, SMTT(30), <1>4 DEF PrepareBatch, handle, files, blobFiles, Phase, TypeInv, TypeOK, HandleOK, FilesOK, ClientsOK, CohortOK, Blob, Current

LEMMA TypeBeginSingleton ==
  ASSUME TypeInv, NEW t \in Txn, BeginSingleton(t)
  PROVE  TypeInv'
<1>1. visible + 1 \in Nat /\ conflicts \in [Key -> Nat]
  BY DEF TypeInv, TypeOK, HandleOK
<1>2. nextConflicts' \in [Key -> Nat]
  BY <1>1, TypeOfPublishCommitted DEF BeginSingleton
<1>3. cohort' \in Seq(Txn) /\ Len(cohort') = 1 /\ pos' = 1 /\ pc' = "stage" /\ ~grouped' /\ mode' = "up"
  BY DEF BeginSingleton
<1>4. phase' \in [Txn -> Phase]
  BY DEF BeginSingleton, Phase, TypeInv, TypeOK, ClientsOK
<1>5. grouped' \in BOOLEAN
  BY Zenon DEF BeginSingleton
<1>6. HandleOK'
  BY SMT, SMTT(30), <1>2, <1>3, <1>5 DEF BeginSingleton, BaseRoot, Step, TypeInv, TypeOK, HandleOK
<1>7. FilesOK' /\ ClientsOK' /\ faults' \in 0..MaxFaults
  BY SMT, SMTT(30), <1>4 DEF BeginSingleton, files, blobFiles, TypeInv, TypeOK, FilesOK, ClientsOK
<1> QED
  BY <1>3, <1>6, <1>7 DEF TypeInv, TypeOK, CohortOK

LEMMA TypeRejectSingleton ==
  ASSUME TypeInv, NEW t \in Txn, RejectSingleton(t)
  PROVE  TypeInv'
<1>1. phase' \in [Txn -> Phase]
  BY DEF RejectSingleton, Phase, TypeInv, TypeOK, ClientsOK
<1>2. ClientsOK'
  BY <1>1 DEF RejectSingleton, TypeInv, TypeOK, ClientsOK
<1>3. FilesOK'
  BY SameFiles DEF RejectSingleton, handle
<1> QED
  BY <1>2, <1>3, TypeOfIdle DEF RejectSingleton, TypeInv, TypeOK

LEMMA TypeAdmitMember ==
  ASSUME TypeInv, NEW t \in Txn, AdmitMember(t)
  PROVE  TypeInv'
<1>1. visible + Len(cohort) + 1 \in Nat /\ nextConflicts \in [Key -> Nat]
  BY DEF TypeInv, TypeOK, HandleOK
<1>2. nextConflicts' \in [Key -> Nat]
  BY <1>1, TypeOfPublishCommitted DEF AdmitMember
<1>3. HandleOK'
  BY <1>2 DEF AdmitMember, TypeInv, TypeOK, HandleOK
<1>4. CohortOK'
  BY DEF AdmitMember, TypeInv, CohortOK
<1>5. ClientsOK'
  BY DEF AdmitMember, Phase, TypeInv, TypeOK, ClientsOK
<1> QED
  BY <1>3, <1>4, <1>5, SameFiles DEF AdmitMember, TypeInv, TypeOK

LEMMA TypeRejectMember ==
  ASSUME TypeInv, NEW t \in Txn, RejectMember(t)
  PROVE  TypeInv'
<1>1. phase' \in [Txn -> Phase]
  BY DEF RejectMember, Phase, TypeInv, TypeOK, ClientsOK
<1>2. ClientsOK'
  BY SMT, SMTT(30), <1>1 DEF RejectMember, TypeInv, TypeOK, ClientsOK
<1>3. FilesOK'
  BY SameFiles DEF RejectMember, handle
<1> QED
  BY <1>2, <1>3, TypeOfIdle DEF RejectMember, TypeInv, TypeOK

LEMMA TypeBeginGroup ==
  ASSUME TypeInv, BeginGroup
  PROVE  TypeInv'
<1>1. HandleOK'
  <2>1. nextConflicts' \in [Key -> Nat]
    BY DEF BeginGroup, TypeInv, TypeOK, HandleOK
  <2>2. grouped' \in BOOLEAN
    BY Zenon DEF BeginGroup
  <2> QED
    BY <2>1, <2>2, TypeOfBegin DEF BeginGroup, Step
<1>2. CohortOK'
  BY DEF BeginGroup, CohortOK
<1> QED
  BY <1>1, <1>2, SameFiles, SameClients DEF BeginGroup, TypeInv, TypeOK

LEMMA TypeEndAdmission ==
  ASSUME TypeInv, EndAdmission
  PROVE  TypeInv'
<1>1. HandleOK'
  BY DEF EndAdmission, held, Step, TypeInv, TypeOK, HandleOK
<1>2. CohortOK'
  BY DEF EndAdmission, held, TypeInv, TypeOK, HandleOK, CohortOK
<1> QED
  BY <1>1, <1>2, SameFiles, SameClients DEF EndAdmission, TypeInv, TypeOK

LEMMA TypeEndEmptyAdmission ==
  ASSUME TypeInv, EndEmptyAdmission
  PROVE  TypeInv'
<1>1. HandleOK'
  BY Zenon, TypeOfReleaseWriter DEF EndEmptyAdmission, TypeInv, TypeOK, HandleOK
<1>2. CohortOK'
  BY TypeOfReleaseWriter DEF EndEmptyAdmission
<1> QED
  BY <1>1, <1>2, SameFiles, SameClients DEF EndEmptyAdmission, TypeInv, TypeOK

LEMMA TypeSkipBlob ==
  ASSUME TypeInv, SkipBlob
  PROVE  TypeInv'
<1>1. FilesOK'
  BY SameFiles DEF SkipBlob
<1> QED
  BY <1>1, TypeOfStep DEF SkipBlob, Step

LEMMA TypeReuseBlob ==
  ASSUME TypeInv, ReuseBlob
  PROVE  TypeInv'
<1>1. FilesOK'
  BY DEF ReuseBlob, files, blobFiles, TypeInv, TypeOK, FilesOK
<1> QED
  BY <1>1, TypeOfStep DEF ReuseBlob, Step

LEMMA TypeStageBlob ==
  ASSUME TypeInv, StageBlob
  PROVE  TypeInv'
<1>1. FilesOK'
  BY DEF StageBlob, TypeInv, TypeOK, FilesOK
<1>2. Blob \in Content /\ Blob' = Blob
  BY SMT, SMTT(30) DEF StageBlob, held, clients, Blob, Current
<1> QED
  BY <1>1, <1>2, TypeOfStep DEF StageBlob, Step

LEMMA TypePromoteBlob ==
  ASSUME TypeInv, PromoteBlob
  PROVE  TypeInv'
<1>1. Blob \in Content /\ Blob' = Blob
  BY SMT, SMTT(30) DEF PromoteBlob, held, clients, Blob, Current, TypeInv, CohortOK
<1>2. FilesOK'
  BY <1>1 DEF PromoteBlob, TypeInv, TypeOK, FilesOK
<1>3. pc' \in {"syncDirectory", "pages"} /\ Blob' \in blobs'
  BY <1>1 DEF PromoteBlob, AfterPromote
<1> QED
  BY <1>2, <1>3, TypeOfStep DEF PromoteBlob, Step

LEMMA TypeSyncBlobDirectory ==
  ASSUME TypeInv, SyncBlobDirectory
  PROVE  TypeInv'
<1>1. Blob \in blobs
  BY DEF SyncBlobDirectory, TypeInv, CohortOK
<1>2. FilesOK'
  BY <1>1 DEF SyncBlobDirectory, TypeInv, TypeOK, FilesOK
<1> QED
  BY <1>2, TypeOfStep DEF SyncBlobDirectory, Step

LEMMA TypeAppendPages ==
  ASSUME TypeInv, AppendPages
  PROVE  TypeInv'
<1>1. Current \in Txn
  BY TypeOfRecords DEF AppendPages
<1>2. pages' \in Seq(Txn) /\ Len(pages') = Len(pages) + 1
  BY SMT, SMTT(30), <1>1 DEF AppendPages, TypeInv, TypeOK, FilesOK
<1>3. nextRoot' \in Root
  BY SMT, SMTT(30) DEF AppendPages, Root, TypeInv, TypeOK, HandleOK, FilesOK
<1>4. FilesOK'
  BY SMT, SMTT(30), <1>2 DEF AppendPages, blobFiles, TypeInv, TypeOK, FilesOK
<1>5. pc' \in {"syncPages", "wal"}
  BY SMT, SMTT(30) DEF AppendPages, AfterPages
<1> QED
  BY SMT, SMTT(30), <1>3, <1>4, <1>5, TypeOfStep DEF AppendPages, Step

LEMMA TypeSyncPages ==
  ASSUME TypeInv, SyncPages
  PROVE  TypeInv'
<1>1. FilesOK'
  BY SMT, SMTT(30) DEF SyncPages, blobFiles, TypeInv, TypeOK, FilesOK
<1>2. pc' \in {"syncWal", "wal"}
  BY DEF SyncPages
<1> QED
  BY <1>1, <1>2, TypeOfStep DEF SyncPages, Step

LEMMA TypeAppendWal ==
  ASSUME TypeInv, AppendWal
  PROVE  TypeInv'
<1>1. TransactionRecords \in Seq(Entry)
  BY TypeOfRecords DEF AppendWal
<1>2. wal' \in Seq(Entry) /\ Len(wal') >= Len(wal)
  BY <1>1 DEF AppendWal, TypeInv, TypeOK, FilesOK
<1>3. FilesOK'
  BY SMT, SMTT(30), <1>2 DEF AppendWal, blobFiles, TypeInv, TypeOK, FilesOK
<1>4. pc' \in {"stage", "syncPages", "syncWal", "publish"}
  BY DEF AppendWal, AfterWal
<1>5. pos' \in 1..Len(cohort)
  BY SMT, SMTT(30) DEF AppendWal, TypeInv, TypeOK, HandleOK, CohortOK
<1> QED
  BY <1>3, <1>4, <1>5, TypeOfStep DEF AppendWal, Step

LEMMA TypeSyncWal ==
  ASSUME TypeInv, SyncWal
  PROVE  TypeInv'
<1>1. FilesOK'
  BY SMT, SMTT(30) DEF SyncWal, blobFiles, TypeInv, TypeOK, FilesOK
<1> QED
  BY SMT, SMTT(30), <1>1, TypeOfStep DEF SyncWal, Step

LEMMA TypePublishRoot ==
  ASSUME TypeInv, PublishRoot
  PROVE  TypeInv'
<1>1. cohort \in Seq(Txn) /\ visible \in Nat /\ Len(cohort) \in Nat /\ ackCsn \in [Txn -> Nat]
  BY DEF TypeInv, TypeOK, HandleOK, ClientsOK
<1>2. ASSUME NEW t \in Txn, InCohort(t) PROVE visible + PositionOf(t) \in Nat
  BY <1>1, <1>2, PositionInCohort
<1>3. ackCsn' \in [Txn -> Nat]
  BY <1>1, <1>2 DEF PublishRoot
<1>4. phase' \in [Txn -> Phase]
  BY SMT, SMTT(30) DEF PublishRoot, Phase, TypeInv, TypeOK, ClientsOK
<1>5. HandleOK' /\ CohortOK'
  BY SMT, SMTT(30), TypeOfReleaseWriter DEF PublishRoot, TypeInv, TypeOK, HandleOK
<1>6. FilesOK' /\ ClientsOK' /\ faults' \in 0..MaxFaults
  BY SMT, SMTT(30), <1>3, <1>4 DEF PublishRoot, files, blobFiles, TypeInv, TypeOK, FilesOK, ClientsOK
<1> QED
  BY <1>5, <1>6 DEF TypeInv, TypeOK

LEMMA TypeSyncOtherRecord ==
  ASSUME TypeInv, SyncOtherRecord
  PROVE  TypeInv'
<1>1. FilesOK'
  BY SMT, SMTT(30) DEF SyncOtherRecord, handle, blobFiles, TypeInv, TypeOK, FilesOK
<1> QED
  BY <1>1, SameClients, TypeOfIdle DEF SyncOtherRecord, TypeInv, TypeOK

LEMMA TypeFailBlocked ==
  ASSUME TypeInv, FailBlocked
  PROVE  TypeInv'
<1>1. pc \notin {"idle", "admit"} /\ GiveUp("failed", FALSE, FALSE)
  BY Zenon DEF FailBlocked
<1>2. HandleOK' /\ ClientsOK' /\ CohortOK' /\ blobIndex' \in {blobIndex, {}}
  BY Zenon, <1>1, TypeOfGiveUp
<1>3. FilesOK' /\ faults' \in 0..MaxFaults
  BY SMT, SMTT(30), <1>2 DEF FailBlocked, files, blobFiles, TypeInv, TypeOK, FilesOK
<1> QED
  BY Zenon, <1>2, <1>3 DEF TypeInv, TypeOK

LEMMA TypeFailBlob ==
  ASSUME TypeInv, FailBlob
  PROVE  TypeInv'
<1>1. pc \notin {"idle", "admit"} /\ GiveUp("failed", FALSE, FALSE)
  BY Zenon DEF FailBlob
<1>2. HandleOK' /\ ClientsOK' /\ CohortOK' /\ blobIndex' \in {blobIndex, {}}
  BY Zenon, <1>1, TypeOfGiveUp
<1>3. FilesOK'
  BY SMT, SMTT(30), <1>2 DEF FailBlob, TypeInv, TypeOK, FilesOK
<1>4. faults' \in 0..MaxFaults
  BY SMT, SMTT(30), TypeOfInject DEF FailBlob
<1> QED
  BY Zenon, <1>2, <1>3, <1>4 DEF TypeInv, TypeOK

LEMMA TypeFailPages ==
  ASSUME TypeInv, FailPages
  PROVE  TypeInv'
<1>1. /\ pc \notin {"idle", "admit"}
      /\ \E bad \in BOOLEAN : GiveUp("failed", bad, FALSE)
      /\ pages' \in {pages, Append(pages, Current)}
  BY Zenon DEF FailPages
<1>2. HandleOK' /\ ClientsOK' /\ CohortOK' /\ blobIndex' \in {blobIndex, {}}
  BY Zenon, <1>1, TypeOfGiveUp
<1>3. pages' \in Seq(Txn) /\ Len(pages') >= Len(pages)
  BY SMT, SMTT(30), <1>1, TypeOfRecords DEF TypeInv, TypeOK, FilesOK
<1>4. FilesOK'
  BY SMT, SMTT(30), <1>2, <1>3 DEF FailPages, blobFiles, TypeInv, TypeOK, FilesOK
<1>5. faults' \in 0..MaxFaults
  BY SMT, SMTT(30), TypeOfInject DEF FailPages
<1> QED
  BY Zenon, <1>2, <1>4, <1>5 DEF TypeInv, TypeOK

LEMMA TypeFailWal ==
  ASSUME TypeInv, FailWal
  PROVE  TypeInv'
<1>1. /\ pc \notin {"idle", "admit"}
      /\ GiveUp("unknown", FALSE, TRUE)
      /\ \E written \in {<<>>, <<BeginEntry(Current)>>, TransactionRecords} : wal' = wal \o written
  <2>1. CASE wal' = wal
    <3>1. wal = wal \o <<>>
      BY DEF TypeInv, TypeOK, FilesOK
    <3> QED
      BY Zenon, <2>1, <3>1 DEF FailWal, WalFailure
  <2> QED
    BY Zenon, <2>1 DEF FailWal, WalFailure
<1>2. HandleOK' /\ ClientsOK' /\ CohortOK' /\ blobIndex' \in {blobIndex, {}}
  BY Zenon, <1>1, TypeOfGiveUp
<1>3. wal' \in Seq(Entry) /\ Len(wal') >= Len(wal)
  <2>1. BeginEntry(Current) \in Entry /\ TransactionRecords \in Seq(Entry)
    BY <1>1, TypeOfRecords
  <2>2. <<>> \in Seq(Entry) /\ <<BeginEntry(Current)>> \in Seq(Entry)
    BY <2>1
  <2>3. wal \in Seq(Entry)
    BY DEF TypeInv, TypeOK, FilesOK
  <2>4. PICK written \in Seq(Entry) : wal' = wal \o written
    BY Zenon, <1>1, <2>1, <2>2
  <2> QED
    BY <2>3, <2>4
<1>4. FilesOK'
  BY SMT, SMTT(30), <1>2, <1>3 DEF FailWal, blobFiles, TypeInv, TypeOK, FilesOK
<1>5. faults' \in 0..MaxFaults
  BY TypeOfInject DEF FailWal
<1> QED
  BY Zenon, <1>2, <1>4, <1>5 DEF TypeInv, TypeOK

LEMMA TypeKill ==
  ASSUME TypeInv, Kill
  PROVE  TypeInv'
<1>1. HandleOK' /\ ClientsOK' /\ CohortOK' /\ blobIndex' = {}
  BY TypeOfDropHandle DEF Kill
<1>2. wal' \in Seq(Entry) /\ Len(wal') >= Len(wal)
  <2>1. CASE wal' = wal
    BY <2>1 DEF TypeInv, TypeOK, FilesOK
  <2>2. CASE pc = "wal" /\ wal' = Append(wal, BeginEntry(Current))
    BY SMT, SMTT(30), <2>2, TypeOfRecords DEF TypeInv, TypeOK, FilesOK
  <2> QED
    BY <2>1, <2>2 DEF Kill
<1>3. FilesOK'
  BY SMT, SMTT(30), <1>1, <1>2 DEF Kill, blobFiles, TypeInv, TypeOK, FilesOK
<1>4. faults' \in 0..MaxFaults
  BY TypeOfInject DEF Kill
<1> QED
  BY <1>1, <1>3, <1>4 DEF TypeInv, TypeOK

LEMMA TypePowerLoss ==
  ASSUME TypeInv, PowerLoss
  PROVE  TypeInv'
<1>1. HandleOK' /\ ClientsOK' /\ CohortOK' /\ blobIndex' = {}
  BY SMT, SMTT(30), TypeOfDropHandle DEF PowerLoss
<1>2. faults' \in 0..MaxFaults
  BY TypeOfInject DEF PowerLoss
<1>3. PICK newPages \in 0..Len(pages), newWal \in 0..Len(wal), names \in SUBSET blobs :
        \E data \in SUBSET names : Survive(newPages, newWal, names, data)
  <2>1. CASE Inject("power")
    BY SMT, SMTT(30), <2>1 DEF PowerLoss, TypeInv, TypeOK, FilesOK
  <2>2. CASE Inject("writeback")
    BY SMT, SMTT(30), <2>2 DEF PowerLoss, TypeInv, TypeOK, FilesOK
  <2> QED
    BY SMT, SMTT(30), <2>1, <2>2 DEF PowerLoss
<1>4. PICK data \in SUBSET names : Survive(newPages, newWal, names, data)
  BY <1>3
<1>5. /\ SubSeq(pages, 1, newPages) \in Seq(Txn) /\ Len(SubSeq(pages, 1, newPages)) = newPages
      /\ SubSeq(wal, 1, newWal) \in Seq(Entry) /\ Len(SubSeq(wal, 1, newWal)) = newWal
  BY SMT, SMTT(30) DEF TypeInv, TypeOK, FilesOK
<1>6. FilesOK'
  BY SMT, SMTT(30), <1>1, <1>4, <1>5 DEF Survive, TypeInv, TypeOK, FilesOK
<1> QED
  BY <1>1, <1>2, <1>6 DEF TypeInv, TypeOK

LEMMA TypeOpen ==
  ASSUME TypeInv, Open
  PROVE  TypeInv'
<1>1. CloseDangling
  BY SMT, SMTT(30) DEF Open
<1>2. HandleOK'
  BY SMT, SMTT(30), TypeOfRecovery DEF Open, TypeInv, TypeOK, HandleOK
<1>3. FilesOK'
  BY SMT, SMTT(30), <1>1, TypeOfCloseDangling DEF Open, TypeInv, TypeOK, FilesOK
<1>4. CohortOK'
  BY SMT, SMTT(30) DEF Open, TypeInv, CohortOK
<1> QED
  BY SMT, SMTT(30), <1>2, <1>3, <1>4, SameClients DEF Open, TypeInv, TypeOK

LEMMA TypeOpenRefused ==
  ASSUME TypeInv, OpenRefused
  PROVE  TypeInv'
<1>1. CloseDangling
  BY DEF OpenRefused
<1>2. HandleOK'
  BY SMT, SMTT(30) DEF OpenRefused, TypeInv, TypeOK, HandleOK
<1>3. FilesOK'
  BY SMT, SMTT(30), <1>1, TypeOfCloseDangling DEF OpenRefused, blobFiles, TypeInv, TypeOK, FilesOK
<1>4. CohortOK'
  BY SMT, SMTT(30) DEF OpenRefused, TypeInv, CohortOK
<1> QED
  BY SMT, SMTT(30), <1>2, <1>3, <1>4, SameClients DEF OpenRefused, TypeInv, TypeOK

(* The type invariant is inductive: one step per action of Next.           *)
LEMMA TypeNext == TypeInv /\ [Next]_vars => TypeInv'
<1> SUFFICES ASSUME TypeInv, [Next]_vars PROVE TypeInv'
  OBVIOUS
<1>1. CASE UNCHANGED vars
  <2>1. UNCHANGED <<handle, files, clients, faults>>
    BY <1>1 DEF vars
  <2>2. HandleOK' /\ faults' \in 0..MaxFaults
    BY SMT, SMTT(30), <2>1 DEF handle, TypeInv, TypeOK, HandleOK
  <2>3. Blob' = Blob
    BY SMT, SMTT(30), <2>1 DEF handle, clients, Blob, Current
  <2>4. CohortOK'
    BY SMT, SMTT(30), <2>1, <2>3 DEF handle, files, blobFiles, TypeInv, CohortOK
  <2>5. FilesOK' /\ ClientsOK'
    BY <2>1, SameFiles, SameClients DEF handle
  <2> QED
    BY Zenon, <2>2, <2>4, <2>5 DEF TypeInv, TypeOK
<1>2. CASE Next
  BY Zenon, <1>2, TypePrepareBatch, TypeBeginSingleton, TypeRejectSingleton,
     TypeAdmitMember, TypeRejectMember, TypeBeginGroup, TypeEndAdmission,
     TypeEndEmptyAdmission, TypeSkipBlob, TypeReuseBlob, TypeStageBlob,
     TypePromoteBlob, TypeSyncBlobDirectory, TypeAppendPages, TypeSyncPages,
     TypeAppendWal, TypeSyncWal, TypePublishRoot, TypeSyncOtherRecord,
     TypeFailBlocked, TypeFailBlob, TypeFailPages, TypeFailWal, TypeKill,
     TypePowerLoss, TypeOpen, TypeOpenRefused DEF Next
<1> QED
  BY <1>1, <1>2

(***************************************************************************)
(* Every reachable state of the commit path is well typed: in particular   *)
(* what recovery rebuilds from the WAL is a root and a conflict table, and *)
(* the synchronized part of each file is a prefix of it.                   *)
(***************************************************************************)
THEOREM TypeCorrect == Spec => []TypeOK
<1>1. TypeInv => TypeOK
  BY DEF TypeInv
<1> QED
  BY <1>1, TypeInit, TypeNext, PTL DEF Spec

=============================================================================
