------------------------ MODULE FirstCommitterProofs ------------------------
(* First committer wins, for every value of the constants of NativeCommit. *)
EXTENDS ReceiptProofs

-----------------------------------------------------------------------------
(* The inductive invariant.  While the WAL is usable, the conflict table   *)
(* covers every COMMIT in it whenever no member of a cohort is staged, and *)
(* the table being built covers the staged and the admitted members too;   *)
(* so what validation accepts stays free of conflicts until it is logged.  *)
Covers(table) == \A i \in CommitsOf(wal) : \A k \in plan[wal[i].txn].keys : wal[i].csn <= table[k]

ReadBelow == \A t \in Txn : phase[t] \in {"prepared", "running"} => mode = "up" /\ plan[t].read <= visible

PendingClear ==
  ~walPoisoned =>
    \A j \in Staged + 1 .. Len(cohort) : \A i \in CommitsOf(wal) :
      \A k \in plan[cohort[j]].keys :
        k \in plan[wal[i].txn].keys => wal[i].csn <= plan[cohort[j]].read

PendingDisjoint ==
  \A i, j \in 1..Len(cohort) :
    i # j => \A k \in plan[cohort[i]].keys : k \notin plan[cohort[j]].keys

ConflictsCover == mode = "up" /\ ~walPoisoned /\ Staged = 0 => Covers(conflicts)

NextCover ==
  pc # "idle" =>
    /\ ~walPoisoned => Covers(nextConflicts)
    /\ \A m \in 1..Len(cohort) : \A k \in plan[cohort[m]].keys : visible + m <= nextConflicts[k]

ConflictInv ==
  /\ ReadBelow /\ PendingClear /\ PendingDisjoint /\ ConflictsCover /\ NextCover
  /\ FirstCommitterWins

-----------------------------------------------------------------------------
LEMMA EntryTypes ==
  ASSUME TypeInv
  PROVE  /\ \A i \in CommitsOf(wal) : i \in 1..Len(wal) /\ wal[i].txn \in Txn /\ wal[i].csn \in Nat
         /\ Len(wal) \in Nat
<1>1. wal \in Seq(Entry) /\ Len(wal) \in Nat
  BY DEF TypeInv, TypeOK, FilesOK
<1>2. \A i \in 1..Len(wal) : wal[i] \in Entry
  BY <1>1
<1> QED
  BY SMT, SMTT(30), <1>1, <1>2 DEF CommitsOf, Entry

LEMMA PlanTypes ==
  ASSUME TypeInv
  PROVE  \A t \in Txn : plan[t].keys \subseteq Key /\ plan[t].read \in Nat
<1>1. \A t \in Txn : plan[t] \in Plan
  BY DEF TypeInv, TypeOK, ClientsOK
<1> QED
  BY <1>1 DEF Plan

LEMMA FirstCommitterKept ==
  ASSUME FirstCommitterWins, FewerCommits,
         \A i \in CommitsOf(wal) : plan'[wal[i].txn] = plan[wal[i].txn]
  PROVE  FirstCommitterWins'
  BY DEF FirstCommitterWins, FewerCommits

(* What a step keeps when it leaves the log and the plans alone.           *)
LEMMA FirstCommitterFrame ==
  ASSUME FirstCommitterWins, wal' = wal, plan' = plan
  PROVE  FirstCommitterWins'
  BY Zenon DEF FirstCommitterWins, CommitsOf

LEMMA PendingFrame ==
  ASSUME PendingClear, PendingDisjoint, cohort' = cohort, wal' = wal, plan' = plan, walPoisoned' = walPoisoned,
         Staged' = Staged
  PROVE  PendingClear' /\ PendingDisjoint'
<1>1. PendingClear'
  BY Zenon DEF PendingClear, CommitsOf
<1>2. PendingDisjoint'
  BY Zenon DEF PendingDisjoint
<1> QED
  BY Zenon, <1>1, <1>2

LEMMA CoversFrame ==
  ASSUME wal' = wal, plan' = plan
  PROVE  (Covers(conflicts)' <=> Covers(conflicts')) /\ (Covers(nextConflicts)' <=> Covers(nextConflicts'))
  BY Zenon DEF Covers, CommitsOf

LEMMA ConflictsCoverFrame ==
  ASSUME ConflictsCover, mode' = mode, wal' = wal, plan' = plan, walPoisoned' = walPoisoned, conflicts' = conflicts,
         Staged = 0 \/ Staged' # 0
  PROVE  ConflictsCover'
  BY Zenon, CoversFrame DEF ConflictsCover

LEMMA NextCoverFrame ==
  ASSUME NextCover, pc # "idle", cohort' = cohort, wal' = wal, plan' = plan, walPoisoned' = walPoisoned,
         nextConflicts' = nextConflicts, visible' = visible
  PROVE  NextCover'
  BY Zenon, CoversFrame DEF NextCover

LEMMA ReadFrame ==
  ASSUME ReadBelow, mode' = mode, plan' = plan, visible' = visible,
         \A t \in Txn : phase'[t] \in {"prepared", "running"} => phase[t] \in {"prepared", "running"}
  PROVE  ReadBelow'
  BY Zenon DEF ReadBelow

LEMMA CoversKept ==
  ASSUME NEW table, Covers(table), SameCommits,
         \A i \in CommitsOf(wal) : plan'[wal[i].txn] = plan[wal[i].txn]
  PROVE  Covers(table)'
  BY DEF Covers, SameCommits

LEMMA SameIsFewer == ASSUME SameCommits PROVE FewerCommits
  BY DEF SameCommits, FewerCommits

(* A step that leaves the writer lock free has no pending member.          *)
LEMMA ConflictReleased ==
  ASSUME TypeInv', pc' = "idle", FirstCommitterWins', ReadBelow', ConflictsCover'
  PROVE  ConflictInv'
<1>1. cohort' = <<>>
  BY DEF TypeInv, CohortOK
<1>2. PendingClear' /\ PendingDisjoint' /\ NextCover'
  <2>1. Staged' = 0 /\ Len(cohort') = 0
    BY <1>1 DEF Staged
  <2> QED
    BY <1>1, <2>1 DEF PendingClear, PendingDisjoint, NextCover
<1> QED
  BY <1>2 DEF ConflictInv

(* Recovery rebuilds a table that covers the log: CSNs grow along it.      *)
LEMMA RecoveredCovers ==
  ASSUME TypeInv, ContiguousCsns(wal)
  PROVE  Covers(RecoveredConflicts(wal))
<1> SUFFICES ASSUME NEW i \in CommitsOf(wal), NEW k \in plan[wal[i].txn].keys
             PROVE  wal[i].csn <= RecoveredConflicts(wal)[k]
  BY DEF Covers
<1>1. wal[i].txn \in Txn /\ wal[i].csn \in Nat /\ Len(wal) \in Nat
  BY EntryTypes
<1>2. k \in Key
  BY <1>1, PlanTypes
<1>3. i \in WritersOf(wal, k) /\ WritersOf(wal, k) \in SUBSET (1..Len(wal)) /\ WritersOf(wal, k) \subseteq CommitsOf(wal)
  BY DEF WritersOf, CommitsOf
<1>4. Max(WritersOf(wal, k)) \in WritersOf(wal, k) /\ i <= Max(WritersOf(wal, k))
  BY Zenon, <1>1, <1>3, MaxOfPositions
<1>5. RecoveredConflicts(wal)[k] = wal[Max(WritersOf(wal, k))].csn
  BY <1>2, <1>3 DEF RecoveredConflicts
<1>6. Max(WritersOf(wal, k)) \in CommitsOf(wal) /\ Max(WritersOf(wal, k)) \in 1..Len(wal) /\ i \in 1..Len(wal)
  BY <1>3, <1>4
<1>7. wal[Max(WritersOf(wal, k))].csn \in Nat
  BY <1>6, EntryTypes
<1>8. CASE i = Max(WritersOf(wal, k))
  BY <1>1, <1>5, <1>8
<1>9. CASE i < Max(WritersOf(wal, k))
  <2>1. wal[i].csn < wal[Max(WritersOf(wal, k))].csn
    BY <1>6, <1>9 DEF ContiguousCsns
  <2> QED
    BY <1>1, <1>5, <1>7, <2>1
<1> QED
  BY <1>1, <1>4, <1>6, <1>8, <1>9

(* What publishing into a table keeps and adds.                            *)
LEMMA PublishCovers ==
  ASSUME NEW table \in [Key -> Nat], NEW t, NEW c \in Nat
  PROVE  /\ \A k \in Key : table[k] <= PublishCommitted(table, t, c)[k]
         /\ \A k \in Key : k \in plan[t].keys => c <= PublishCommitted(table, t, c)[k]
         /\ PublishCommitted(table, t, c) \in [Key -> Nat]
  BY DEF PublishCommitted

LEMMA CoversMore ==
  ASSUME TypeInv, NEW table \in [Key -> Nat], Covers(table), nextConflicts' \in [Key -> Nat],
         \A k \in Key : table[k] <= nextConflicts'[k], UNCHANGED <<wal, plan>>
  PROVE  Covers(nextConflicts)'
<1> SUFFICES ASSUME NEW i \in CommitsOf(wal), NEW k \in plan[wal[i].txn].keys
             PROVE  wal[i].csn <= nextConflicts'[k]
  BY DEF Covers, CommitsOf
<1>1. wal[i].txn \in Txn /\ wal[i].csn \in Nat
  BY EntryTypes
<1>2. k \in Key
  BY <1>1, PlanTypes
<1>3. wal[i].csn <= table[k]
  BY DEF Covers
<1> QED
  BY <1>1, <1>2, <1>3

(* The records of the current member, not in conflict with the log, keep   *)
(* first committer wins.                                                   *)
LEMMA FirstCommitterLogged ==
  ASSUME TypeInv, FirstCommitterWins, PendingClear, ~walPoisoned, OneCommitMore, plan' = plan,
         pos \in 1..Len(cohort), Current = cohort[pos], Staged = pos - 1, Len(cohort) \in Nat
  PROVE  FirstCommitterWins'
<1> SUFFICES ASSUME NEW i \in CommitsOf(wal'), NEW j \in CommitsOf(wal'), i < j,
                    plan[wal'[i].txn].keys \cap plan[wal'[j].txn].keys # {}
             PROVE  wal'[i].csn <= plan[wal'[j].txn].read
  BY DEF FirstCommitterWins
<1>1. Len(wal) \in Nat /\ \A m \in CommitsOf(wal) : m \in 1..Len(wal)
  BY EntryTypes
<1>2. CASE i \in CommitsOf(wal) /\ j \in CommitsOf(wal)
  BY Zenon, <1>2 DEF OneCommitMore, FirstCommitterWins
<1>3. CASE i \in CommitsOf(wal) /\ j = Len(wal) + 2
  <2>1. wal'[i] = wal[i] /\ wal'[j].txn = cohort[pos]
    BY <1>3 DEF OneCommitMore
  <2>2. PICK k : k \in plan[wal[i].txn].keys /\ k \in plan[cohort[pos]].keys
    BY <2>1
  <2>3. pos \in Staged + 1 .. Len(cohort)
    OBVIOUS
  <2>4. wal[i].csn <= plan[cohort[pos]].read
    BY Zenon, <1>3, <2>2, <2>3 DEF PendingClear
  <2> QED
    BY <2>1, <2>4
<1>4. i # Len(wal) + 2
  <2>1. j \in 1..Len(wal) \/ j = Len(wal) + 2
    BY <1>1 DEF OneCommitMore
  <2> QED
    BY <1>1, <2>1
<1> QED
  BY SMT, SMTT(30), <1>2, <1>3, <1>4 DEF OneCommitMore

(* A singleton that fails before its append has nothing in the WAL.        *)
LEMMA FailBeforeLog ==
  ASSUME TypeInv, CohortRuns, FailBlocked \/ FailBlob \/ FailPages, ~grouped
  PROVE  Staged = 0
<1>1. pc \notin {"idle", "admit", "publish"}
  BY Zenon DEF FailBlocked, FailBlob, FailPages
<1>2. pc = "syncWal" => walPoisoned
  BY DEF FailBlocked, FailBlob, FailPages
<1>3. Len(cohort) = 1 /\ pos \in 1..Len(cohort)
  BY <1>1 DEF TypeInv, CohortOK
<1>4. pos = 1
  BY <1>3
<1>5. CASE pc = "syncWal"
  BY <1>2, <1>3, <1>5 DEF Staged, CohortRuns
<1>6. CASE pc # "syncWal"
  <2>1. ~(pc \in {"syncWal", "publish"} \/ (pc = "syncPages" /\ grouped))
    BY <1>1, <1>6
  <2>2. Staged = pos - 1
    BY <1>1, <2>1 DEF Staged
  <2> QED
    BY <1>4, <2>2
<1> QED
  BY <1>5, <1>6

(* A commit that gives up never makes a snapshot newer than the handle.    *)
LEMMA GiveUpReads ==
  ASSUME TypeInv, ReadBelow, pc \notin {"idle", "admit"},
         NEW outcome \in {"failed", "unknown"}, NEW badPages \in BOOLEAN, NEW badWal \in BOOLEAN,
         GiveUp(outcome, badPages, badWal)
  PROVE  pc' = "idle" /\ ReadBelow'
<1>1. CASE DropHandle
  BY <1>1 DEF DropHandle, ReleaseWriter, ReadBelow
<1>2. CASE ReleaseWriter /\ phase' = [phase EXCEPT ![Current] = outcome] /\ UNCHANGED <<mode, visible, plan>>
  <2>1. Current \in Txn /\ phase \in [Txn -> Phase]
    BY TypeOfRecords DEF TypeInv, TypeOK, ClientsOK
  <2> QED
    BY <1>2, <2>1 DEF ReleaseWriter, ReadBelow
<1> QED
  BY Zenon, <1>1, <1>2 DEF GiveUp

-----------------------------------------------------------------------------
LEMMA ConflictInit == Init => ConflictInv
<1> SUFFICES ASSUME Init PROVE ConflictInv
  OBVIOUS
<1>1. CommitsOf(wal) = {} /\ cohort = <<>> /\ pc = "idle" /\ \A t \in Txn : phase[t] = "unused"
  BY DEF Init, CommitsOf
<1>2. ReadBelow
  BY <1>1 DEF ReadBelow
<1>3. PendingClear /\ PendingDisjoint /\ NextCover
  BY <1>1 DEF PendingClear, PendingDisjoint, NextCover
<1>4. ConflictsCover /\ FirstCommitterWins
  BY <1>1 DEF ConflictsCover, Covers, FirstCommitterWins
<1> QED
  BY <1>2, <1>3, <1>4 DEF ConflictInv

LEMMA ConflictFacts ==
  ASSUME ReceiptInv, ConflictInv
  PROVE  /\ TypeInv /\ CohortRuns /\ Unlogged /\ ReadBelow /\ PendingClear /\ PendingDisjoint
         /\ ConflictsCover /\ NextCover /\ FirstCommitterWins
  BY DEF ReceiptInv, ConflictInv

LEMMA ConflictTypes ==
  ASSUME ReceiptInv
  PROVE  /\ phase \in [Txn -> Phase] /\ plan \in [Txn -> Plan]
         /\ conflicts \in [Key -> Nat] /\ nextConflicts \in [Key -> Nat] /\ visible \in Nat
         /\ cohort \in Seq(Txn) /\ Len(cohort) \in Nat
  BY DEF ReceiptInv, TypeInv, TypeOK, HandleOK, ClientsOK

LEMMA ConflictPrepareBatch ==
  ASSUME ReceiptInv, ConflictInv, TypeInv', NEW t \in Txn, PrepareBatch(t)
  PROVE  ConflictInv'
<1>0. /\ TypeInv /\ CohortRuns /\ Unlogged /\ ReadBelow /\ PendingClear /\ PendingDisjoint
      /\ ConflictsCover /\ NextCover /\ FirstCommitterWins
  BY ConflictFacts
<1>a. /\ phase \in [Txn -> Phase] /\ plan \in [Txn -> Plan]
      /\ conflicts \in [Key -> Nat] /\ nextConflicts \in [Key -> Nat] /\ visible \in Nat
      /\ cohort \in Seq(Txn) /\ Len(cohort) \in Nat
  BY ConflictTypes
<1>1. /\ phase' = [phase EXCEPT ![t] = "prepared"] /\ phase[t] = "unused" /\ mode = "up" /\ pc = "idle"
      /\ UNCHANGED <<mode, pc, visible, conflicts, walPoisoned, wal, walSynced>>
  BY DEF PrepareBatch, handle, files
<1>2. plan'[t].read = visible /\ \A u \in Txn : u # t => plan'[u] = plan[u]
  BY <1>a DEF PrepareBatch
<1>3. SameCommits
  BY <1>0, <1>1, WalUnchanged
<1>4. \A i \in CommitsOf(wal) : plan'[wal[i].txn] = plan[wal[i].txn]
  BY <1>0, <1>1, <1>2, EntryTypes DEF Unlogged, Committed
<1>5. FirstCommitterWins'
  BY <1>0, <1>3, <1>4, SameIsFewer, FirstCommitterKept
<1>6. ReadBelow'
  BY <1>0, <1>a, <1>1, <1>2 DEF ReadBelow
<1>7. ConflictsCover'
  <2>1. Staged = 0
    BY <1>1 DEF Staged
  <2>2. ~walPoisoned => Covers(conflicts)
    BY <1>0, <1>1, <2>1 DEF ConflictsCover
  <2>3. Covers(conflicts) => Covers(conflicts)'
    BY SMT, SMTT(30), <1>1, <1>3, <1>4 DEF Covers, SameCommits
  <2> QED
    BY <1>1, <2>2, <2>3 DEF ConflictsCover
<1> QED
  BY <1>0, <1>1, <1>5, <1>6, <1>7, ConflictReleased

LEMMA ConflictBeginSingleton ==
  ASSUME ReceiptInv, ConflictInv, TypeInv', NEW t \in Txn, BeginSingleton(t)
  PROVE  ConflictInv'
<1>0. /\ TypeInv /\ CohortRuns /\ Unlogged /\ ReadBelow /\ PendingClear /\ PendingDisjoint
      /\ ConflictsCover /\ NextCover /\ FirstCommitterWins
  BY ConflictFacts
<1>a. /\ phase \in [Txn -> Phase] /\ plan \in [Txn -> Plan]
      /\ conflicts \in [Key -> Nat] /\ nextConflicts \in [Key -> Nat] /\ visible \in Nat
      /\ cohort \in Seq(Txn) /\ Len(cohort) \in Nat
  BY ConflictTypes
<1>1. /\ phase' = [phase EXCEPT ![t] = "running"] /\ phase[t] = "prepared" /\ mode = "up" /\ pc = "idle"
      /\ pc' = "stage" /\ cohort' = <<t>> /\ pos' = 1 /\ Validates(conflicts, t)
      /\ nextConflicts' = PublishCommitted(conflicts, t, visible + 1)
      /\ UNCHANGED <<mode, visible, conflicts, walPoisoned, wal, walSynced, plan>>
  BY DEF BeginSingleton, files
<1>2. Staged = 0 /\ Staged' = 0 /\ Len(cohort') = 1 /\ cohort'[1] = t
  BY <1>1 DEF Staged
<1>4. FirstCommitterWins'
  BY Zenon, <1>0, <1>1, FirstCommitterFrame
<1>5. ReadBelow'
  BY <1>0, <1>a, <1>1 DEF ReadBelow
<1>6. ~walPoisoned => Covers(conflicts)
  BY <1>0, <1>1, <1>2 DEF ConflictsCover
<1>7. ConflictsCover'
  BY Zenon, <1>0, <1>1, <1>2, ConflictsCoverFrame
<1>8. PendingDisjoint'
  BY <1>2 DEF PendingDisjoint
<1>9. PendingClear'
  <2> SUFFICES ASSUME ~walPoisoned, NEW i \in CommitsOf(wal), NEW k \in plan[t].keys, k \in plan[wal[i].txn].keys
               PROVE  wal[i].csn <= plan[t].read
    BY SMT, SMTT(30), <1>1, <1>2 DEF PendingClear, CommitsOf
  <2>1. wal[i].csn <= conflicts[k] /\ conflicts[k] <= plan[t].read
    BY SMT, SMTT(30), <1>1, <1>6 DEF Covers, Validates
  <2>2. wal[i].csn \in Nat /\ k \in Key /\ plan[t].read \in Nat
    BY SMT, SMTT(30), <1>0, EntryTypes, PlanTypes
  <2> QED
    BY SMT, SMTT(30), <1>a, <2>1, <2>2
<1>10. NextCover'
  <2>1. /\ \A k \in Key : conflicts[k] <= nextConflicts'[k]
        /\ \A k \in Key : k \in plan[t].keys => visible + 1 <= nextConflicts'[k]
        /\ nextConflicts' \in [Key -> Nat]
    <3>1. visible + 1 \in Nat
      BY <1>a
    <3> QED
      BY SMT, SMTT(30), <1>a, <1>1, <3>1, PublishCovers
  <2>3. ~walPoisoned' => Covers(nextConflicts)'
    BY Zenon, <1>0, <1>a, <1>1, <1>6, <2>1, CoversMore
  <2>4. \A k \in plan[t].keys : visible + 1 <= nextConflicts'[k]
    BY <1>0, <2>1, PlanTypes
  <2> QED
    BY SMT, SMTT(30), <1>1, <1>2, <2>3, <2>4 DEF NextCover
<1> QED
  BY <1>4, <1>5, <1>7, <1>8, <1>9, <1>10 DEF ConflictInv

LEMMA ConflictRejections ==
  ASSUME ReceiptInv, ConflictInv, TypeInv', NEW t \in Txn, RejectSingleton(t) \/ RejectMember(t)
  PROVE  ConflictInv'
<1>0. /\ TypeInv /\ CohortRuns /\ Unlogged /\ ReadBelow /\ PendingClear /\ PendingDisjoint
      /\ ConflictsCover /\ NextCover /\ FirstCommitterWins
  BY ConflictFacts
<1>a. /\ phase \in [Txn -> Phase] /\ plan \in [Txn -> Plan]
      /\ conflicts \in [Key -> Nat] /\ nextConflicts \in [Key -> Nat] /\ visible \in Nat
      /\ cohort \in Seq(Txn) /\ Len(cohort) \in Nat
  BY ConflictTypes
<1>1. /\ phase' = [phase EXCEPT ![t] = "rejected"]
      /\ UNCHANGED <<mode, pc, pos, grouped, cohort, visible, conflicts, nextConflicts, walPoisoned, wal, plan>>
  BY DEF RejectSingleton, RejectMember, handle, files
<1>2. Staged' = Staged
  BY <1>1 DEF Staged
<1>3. \A u \in Txn : phase'[u] \in {"prepared", "running"} => phase[u] \in {"prepared", "running"}
  BY <1>a, <1>1
<1>4. ReadBelow'
  BY Zenon, <1>0, <1>1, <1>3, ReadFrame
<1>5. PendingClear' /\ PendingDisjoint' /\ FirstCommitterWins'
  BY Zenon, <1>0, <1>1, <1>2, PendingFrame, FirstCommitterFrame
<1>6. ConflictsCover'
  BY Zenon, <1>0, <1>1, <1>2, ConflictsCoverFrame
<1>7. NextCover'
  BY Zenon, <1>0, <1>1, NextCoverFrame DEF NextCover
<1> QED
  BY Zenon, <1>4, <1>5, <1>6, <1>7 DEF ConflictInv

LEMMA ConflictAdmitMember ==
  ASSUME ReceiptInv, ConflictInv, TypeInv', NEW t \in Txn, AdmitMember(t)
  PROVE  ConflictInv'
<1>0. /\ TypeInv /\ CohortRuns /\ Unlogged /\ ReadBelow /\ PendingClear /\ PendingDisjoint
      /\ ConflictsCover /\ NextCover /\ FirstCommitterWins
  BY ConflictFacts
<1>a. /\ phase \in [Txn -> Phase] /\ plan \in [Txn -> Plan]
      /\ conflicts \in [Key -> Nat] /\ nextConflicts \in [Key -> Nat] /\ visible \in Nat
      /\ cohort \in Seq(Txn) /\ Len(cohort) \in Nat
  BY ConflictTypes
<1>1. /\ phase' = [phase EXCEPT ![t] = "running"] /\ phase[t] = "prepared" /\ pc = "admit" /\ pc' = "admit"
      /\ cohort' = Append(cohort, t) /\ Validates(nextConflicts, t)
      /\ nextConflicts' = PublishCommitted(nextConflicts, t, visible + Len(cohort) + 1)
      /\ UNCHANGED <<mode, pos, grouped, visible, conflicts, walPoisoned, wal, walSynced, plan>>
  BY SMT, SMTT(30) DEF AdmitMember, Admissible, files
<1>2. Staged = 0 /\ Staged' = 0
  BY SMT, SMTT(30), <1>0, <1>1 DEF Staged, TypeInv, CohortOK
<1>3. /\ Len(cohort') = Len(cohort) + 1 /\ cohort'[Len(cohort) + 1] = t
      /\ \A i \in 1..Len(cohort) : cohort'[i] = cohort[i] /\ cohort[i] \in Txn
      /\ \A i \in 1..Len(cohort') : i \in 1..Len(cohort) \/ i = Len(cohort) + 1
  BY SMT, SMTT(30), <1>a, <1>1
<1>5. FirstCommitterWins'
  BY Zenon, <1>0, <1>1, FirstCommitterFrame
<1>6. ReadBelow'
  BY SMTT(30), <1>0, <1>a, <1>1 DEF ReadBelow
<1>7. ConflictsCover'
  BY Zenon, <1>0, <1>1, <1>2, ConflictsCoverFrame
<1>8. ~walPoisoned => Covers(nextConflicts)
  BY SMT, SMTT(30), <1>0, <1>1 DEF NextCover
<1>9. plan[t].read \in Nat /\ plan[t].keys \subseteq Key /\ plan[t].read <= visible
  BY SMT, SMTT(30), <1>0, <1>1, PlanTypes DEF ReadBelow
<1>10. \A m \in 1..Len(cohort) : \A k \in plan[cohort[m]].keys : k \notin plan[t].keys
  <2> SUFFICES ASSUME NEW m \in 1..Len(cohort), NEW k \in plan[cohort[m]].keys, k \in plan[t].keys PROVE FALSE
    OBVIOUS
  <2>1. visible + m <= nextConflicts[k] /\ nextConflicts[k] <= plan[t].read
    BY SMT, SMTT(30), <1>0, <1>1 DEF NextCover, Validates
  <2> QED
    BY SMT, SMTT(30), <1>a, <1>9, <2>1
<1>11. PendingDisjoint'
  <2> SUFFICES ASSUME NEW i \in 1..Len(cohort'), NEW j \in 1..Len(cohort'), i # j,
                      NEW k \in plan[cohort'[i]].keys, k \in plan[cohort'[j]].keys
               PROVE  FALSE
    BY Zenon, <1>1 DEF PendingDisjoint
  <2>1. CASE i \in 1..Len(cohort) /\ j \in 1..Len(cohort)
    BY Zenon, <1>0, <1>3, <2>1 DEF PendingDisjoint
  <2>2. CASE i = Len(cohort) + 1 /\ j \in 1..Len(cohort)
    BY <1>3, <1>10, <2>2
  <2>3. CASE j = Len(cohort) + 1 /\ i \in 1..Len(cohort)
    BY <1>3, <1>10, <2>3
  <2> QED
    BY SMT, SMTT(30), <1>3, <2>1, <2>2, <2>3
<1>12. PendingClear'
  <2> SUFFICES ASSUME ~walPoisoned, NEW j \in 1..Len(cohort'), NEW i \in CommitsOf(wal),
                      NEW k \in plan[cohort'[j]].keys, k \in plan[wal[i].txn].keys
               PROVE  wal[i].csn <= plan[cohort'[j]].read
    <3>1. Staged' + 1 = 1 /\ CommitsOf(wal') = CommitsOf(wal) /\ wal' = wal /\ plan' = plan /\ walPoisoned' = walPoisoned
      BY SMT, SMTT(30), <1>1, <1>2
    <3> QED
      BY SMT, SMTT(30), <3>1 DEF PendingClear
  <2>1. CASE j \in 1..Len(cohort)
    BY SMT, SMTT(30), <1>0, <1>2, <1>3, <2>1 DEF PendingClear
  <2>2. CASE j = Len(cohort) + 1
    <3>1. k \in plan[t].keys /\ cohort'[j] = t
      BY SMTT(30), <1>3, <2>2
    <3>2. wal[i].csn <= nextConflicts[k] /\ nextConflicts[k] <= plan[t].read
      BY SMT, SMTT(30), <1>1, <1>8, <3>1 DEF Covers, Validates
    <3>3. wal[i].csn \in Nat /\ k \in Key
      BY SMT, SMTT(30), <1>0, <1>9, <3>1, EntryTypes
    <3> QED
      BY SMT, SMTT(30), <1>a, <1>9, <3>1, <3>2, <3>3
  <2> QED
    BY <1>3, <2>1, <2>2
<1>13. NextCover'
  <2>1. /\ \A k \in Key : nextConflicts[k] <= nextConflicts'[k]
        /\ \A k \in Key : k \in plan[t].keys => visible + Len(cohort) + 1 <= nextConflicts'[k]
        /\ nextConflicts' \in [Key -> Nat]
    <3>1. visible + Len(cohort) + 1 \in Nat
      BY <1>a
    <3> QED
      BY Zenon, <1>a, <1>1, <3>1, PublishCovers
  <2>3. ~walPoisoned' => Covers(nextConflicts)'
    BY Zenon, <1>0, <1>a, <1>1, <1>8, <2>1, CoversMore
  <2>4. ASSUME NEW m \in 1..Len(cohort'), NEW k \in plan[cohort'[m]].keys
        PROVE  visible + m <= nextConflicts'[k]
    <3>1. CASE m \in 1..Len(cohort)
      <4>1. cohort'[m] = cohort[m] /\ cohort[m] \in Txn /\ k \in plan[cohort[m]].keys
        BY SMT, SMTT(30), <1>3, <2>4, <3>1
      <4>2. k \in Key /\ visible + m <= nextConflicts[k]
        BY SMT, SMTT(30), <1>0, <1>1, <3>1, <4>1, PlanTypes DEF NextCover
      <4> QED
        BY SMT, SMTT(30), <1>a, <2>1, <4>2
    <3>2. CASE m = Len(cohort) + 1
      <4>1. k \in plan[t].keys /\ k \in Key
        BY SMT, SMTT(30), <1>3, <1>9, <2>4, <3>2
      <4>2. visible + Len(cohort) + 1 <= nextConflicts'[k]
        BY SMT, SMTT(30), <2>1, <4>1
      <4> QED
        BY SMT, SMTT(30), <1>a, <3>2, <4>2
    <3> QED
      BY SMT, SMTT(30), <1>3, <3>1, <3>2
  <2> QED
    BY SMT, SMTT(30), <1>1, <2>3, <2>4 DEF NextCover
<1> QED
  BY <1>5, <1>6, <1>7, <1>11, <1>12, <1>13 DEF ConflictInv

LEMMA ConflictBeginGroup ==
  ASSUME ReceiptInv, ConflictInv, TypeInv', BeginGroup
  PROVE  ConflictInv'
<1>0. /\ TypeInv /\ CohortRuns /\ Unlogged /\ ReadBelow /\ PendingClear /\ PendingDisjoint
      /\ ConflictsCover /\ NextCover /\ FirstCommitterWins
  BY ConflictFacts
<1>1. /\ mode = "up" /\ pc = "idle" /\ pc' = "admit" /\ cohort' = <<>> /\ pos' = 1 /\ nextConflicts' = conflicts
      /\ UNCHANGED <<mode, visible, conflicts, walPoisoned, wal, phase, plan>>
  BY DEF BeginGroup, files, clients
<1>2. Staged = 0 /\ Staged' = 0
  BY SMTT(30), <1>1 DEF Staged
<1>3. ReadBelow' /\ FirstCommitterWins'
  BY Zenon, <1>0, <1>1, ReadFrame, FirstCommitterFrame
<1>4. PendingClear' /\ PendingDisjoint'
  BY SMTT(30), <1>1, <1>2 DEF PendingClear, PendingDisjoint
<1>5. ConflictsCover'
  BY Zenon, <1>0, <1>1, <1>2, ConflictsCoverFrame
<1>6. ~walPoisoned => Covers(conflicts)
  BY Zenon, <1>0, <1>1, <1>2 DEF ConflictsCover
<1>7. ~walPoisoned' => Covers(nextConflicts)'
  BY Zenon, <1>1, <1>6, CoversFrame
<1>8. NextCover'
  BY <1>1, <1>7 DEF NextCover
<1> QED
  BY Zenon, <1>3, <1>4, <1>5, <1>8 DEF ConflictInv

LEMMA ConflictEndEmptyAdmission ==
  ASSUME ReceiptInv, ConflictInv, TypeInv', EndEmptyAdmission
  PROVE  ConflictInv'
<1>0. /\ TypeInv /\ CohortRuns /\ Unlogged /\ ReadBelow /\ PendingClear /\ PendingDisjoint
      /\ ConflictsCover /\ NextCover /\ FirstCommitterWins
  BY ConflictFacts
<1>1. pc = "admit" /\ pc' = "idle" /\ UNCHANGED <<mode, visible, conflicts, walPoisoned, wal, phase, plan>>
  BY DEF EndEmptyAdmission, ReleaseWriter, files, clients
<1>2. Staged = 0 /\ Staged' = 0
  BY SMT, SMTT(30), <1>0, <1>1 DEF Staged, TypeInv, CohortOK
<1>3. ReadBelow' /\ FirstCommitterWins' /\ ConflictsCover'
  BY Zenon, <1>0, <1>1, <1>2, ReadFrame, FirstCommitterFrame, ConflictsCoverFrame
<1> QED
  BY <1>0, <1>1, <1>3, ConflictReleased

LEMMA ConflictQuietSteps ==
  ASSUME ReceiptInv, ConflictInv, TypeInv', QuietStep
  PROVE  ConflictInv'
<1>0. /\ TypeInv /\ CohortRuns /\ Unlogged /\ ReadBelow /\ PendingClear /\ PendingDisjoint
      /\ ConflictsCover /\ NextCover /\ FirstCommitterWins
  BY ConflictFacts
<1>1. UNCHANGED core /\ Staged' = Staged /\ (pc' = "idle" <=> pc = "idle")
  BY SMTT(30), <1>0, QuietStepsKeepCore
<1>2. UNCHANGED <<mode, cohort, visible, conflicts, nextConflicts, walPoisoned, wal, phase, plan>>
  BY <1>1 DEF core
<1>3. ReadBelow'
  BY Zenon, <1>0, <1>2, ReadFrame
<1>4. PendingClear' /\ PendingDisjoint' /\ FirstCommitterWins'
  BY Zenon, <1>0, <1>1, <1>2, PendingFrame, FirstCommitterFrame
<1>5. ConflictsCover'
  BY Zenon, <1>0, <1>1, <1>2, ConflictsCoverFrame
<1>6. NextCover'
  BY Zenon, <1>0, <1>1, <1>2, NextCoverFrame DEF NextCover
<1> QED
  BY Zenon, <1>3, <1>4, <1>5, <1>6 DEF ConflictInv

LEMMA ConflictAppendWal ==
  ASSUME ReceiptInv, ConflictInv, TypeInv', AppendWal
  PROVE  ConflictInv'
<1>0. /\ TypeInv /\ CohortRuns /\ Unlogged /\ ReadBelow /\ PendingClear /\ PendingDisjoint
      /\ ConflictsCover /\ NextCover /\ FirstCommitterWins
  BY ConflictFacts
<1>a. /\ phase \in [Txn -> Phase] /\ plan \in [Txn -> Plan]
      /\ conflicts \in [Key -> Nat] /\ nextConflicts \in [Key -> Nat] /\ visible \in Nat
      /\ cohort \in Seq(Txn) /\ Len(cohort) \in Nat
  BY ConflictTypes
<1>1. /\ pc = "wal" /\ ~walPoisoned /\ wal' = wal \o TransactionRecords /\ pc' # "idle"
      /\ UNCHANGED <<mode, grouped, cohort, visible, conflicts, nextConflicts, walPoisoned, phase, plan>>
  BY SMT, SMTT(30) DEF AppendWal, AfterWal, held, clients
<1>2. OneCommitMore
  BY SMT, SMTT(30), <1>0, <1>1, LogAppendTransaction
<1>3. pos \in 1..Len(cohort) /\ Current = cohort[pos] /\ Staged = pos - 1
  BY SMT, SMTT(30), <1>0, <1>1 DEF TypeInv, CohortOK, Current, Staged
<1>4. Staged' = pos
  BY <1>0, StagedAppendWal
<1>5. FirstCommitterWins'
  BY SMT, SMTT(30), <1>0, <1>a, <1>1, <1>2, <1>3, FirstCommitterLogged
<1>6. ReadBelow' /\ PendingDisjoint'
  BY SMT, SMTT(30), <1>0, <1>1 DEF ReadBelow, PendingDisjoint
<1>7. ConflictsCover'
  BY SMTT(30), <1>a, <1>3, <1>4 DEF ConflictsCover
<1>8. PendingClear'
  <2> SUFFICES ASSUME NEW j \in pos + 1 .. Len(cohort), NEW i \in CommitsOf(wal'),
                      NEW k \in plan[cohort[j]].keys, k \in plan[wal'[i].txn].keys
               PROVE  wal'[i].csn <= plan[cohort[j]].read
    BY Zenon, <1>1, <1>4 DEF PendingClear
  <2>1. j \in Staged + 1 .. Len(cohort) /\ j \in 1..Len(cohort) /\ j # pos
    BY SMT, SMTT(30), <1>a, <1>3
  <2>2. i # Len(wal) + 2
    BY Zenon, <1>0, <1>2, <1>3, <2>1 DEF OneCommitMore, PendingDisjoint
  <2>3. i \in CommitsOf(wal) /\ wal'[i] = wal[i]
    BY SMT, SMTT(30), <1>2, <2>2 DEF OneCommitMore
  <2> QED
    BY SMT, SMTT(30), <1>0, <1>1, <2>1, <2>3 DEF PendingClear
<1>9. NextCover'
  <2>1. Covers(nextConflicts)'
    <3> SUFFICES ASSUME NEW i \in CommitsOf(wal'), NEW k \in plan[wal'[i].txn].keys
                 PROVE  wal'[i].csn <= nextConflicts[k]
      BY Zenon, <1>1 DEF Covers
    <3>1. CASE i = Len(wal) + 2
      <4>1. wal'[i].csn = visible + pos /\ wal'[i].txn = cohort[pos]
        BY SMT, SMTT(30), <1>2, <1>3, <3>1 DEF OneCommitMore
      <4> QED
        BY SMT, SMTT(30), <1>0, <1>1, <1>3, <4>1 DEF NextCover
    <3>2. CASE i # Len(wal) + 2
      <4>1. i \in CommitsOf(wal) /\ wal'[i] = wal[i]
        BY SMT, SMTT(30), <1>2, <3>2 DEF OneCommitMore
      <4> QED
        BY SMT, SMTT(30), <1>0, <1>1, <4>1 DEF NextCover, Covers
    <3> QED
      BY SMTT(30), <3>1, <3>2
  <2> QED
    BY SMT, SMTT(30), <1>0, <1>1, <2>1 DEF NextCover
<1> QED
  BY <1>5, <1>6, <1>7, <1>8, <1>9 DEF ConflictInv

LEMMA ConflictSyncWal ==
  ASSUME ReceiptInv, ConflictInv, TypeInv', SyncWal
  PROVE  ConflictInv'
<1>0. /\ TypeInv /\ CohortRuns /\ Unlogged /\ ReadBelow /\ PendingClear /\ PendingDisjoint
      /\ ConflictsCover /\ NextCover /\ FirstCommitterWins
  BY ConflictFacts
<1>1. /\ pc = "syncWal" /\ pc' = "publish"
      /\ UNCHANGED <<mode, cohort, visible, conflicts, nextConflicts, walPoisoned, wal, phase, plan>>
  BY DEF SyncWal, held, clients
<1>2. Staged' = Staged
  BY SMTT(30), <1>1 DEF Staged
<1>3. ReadBelow'
  BY Zenon, <1>0, <1>1, ReadFrame
<1>4. PendingClear' /\ PendingDisjoint' /\ FirstCommitterWins'
  BY Zenon, <1>0, <1>1, <1>2, PendingFrame, FirstCommitterFrame
<1>5. ConflictsCover'
  BY Zenon, <1>0, <1>1, <1>2, ConflictsCoverFrame
<1>6. pc # "idle"
  BY <1>1
<1>7. NextCover'
  BY Zenon, <1>0, <1>1, <1>6, NextCoverFrame
<1> QED
  BY Zenon, <1>3, <1>4, <1>5, <1>7 DEF ConflictInv

LEMMA ConflictPublishRoot ==
  ASSUME ReceiptInv, ConflictInv, TypeInv', PublishRoot
  PROVE  ConflictInv'
<1>0. /\ TypeInv /\ CohortRuns /\ Unlogged /\ ReadBelow /\ PendingClear /\ PendingDisjoint
      /\ ConflictsCover /\ NextCover /\ FirstCommitterWins
  BY ConflictFacts
<1>a. /\ phase \in [Txn -> Phase] /\ plan \in [Txn -> Plan]
      /\ conflicts \in [Key -> Nat] /\ nextConflicts \in [Key -> Nat] /\ visible \in Nat
      /\ cohort \in Seq(Txn) /\ Len(cohort) \in Nat
  BY ConflictTypes
<1>1. /\ pc = "publish" /\ pc' = "idle" /\ visible' = visible + Len(cohort) /\ conflicts' = nextConflicts
      /\ phase' = [t \in Txn |-> IF InCohort(t) THEN "acked" ELSE phase[t]]
      /\ UNCHANGED <<mode, walPoisoned, wal, plan>>
  BY SMT, SMTT(30) DEF PublishRoot, ReleaseWriter, files
<1>2. FirstCommitterWins'
  BY Zenon, <1>0, <1>1, FirstCommitterFrame
<1>3. ReadBelow'
  <2> SUFFICES ASSUME NEW t \in Txn, phase'[t] \in {"prepared", "running"}
               PROVE  mode = "up" /\ plan[t].read <= visible'
    BY SMT, SMTT(30), <1>1 DEF ReadBelow
  <2>1. phase[t] \in {"prepared", "running"}
    BY <1>1
  <2>2. mode = "up" /\ plan[t].read <= visible /\ plan[t].read \in Nat
    BY SMT, SMTT(30), <1>0, <2>1, PlanTypes DEF ReadBelow
  <2> QED
    BY SMT, SMTT(30), <1>a, <1>1, <2>2
<1>4. ConflictsCover'
  <2>1. ~walPoisoned => Covers(nextConflicts)
    BY SMT, SMTT(30), <1>0, <1>1 DEF NextCover
  <2>2. ~walPoisoned' => Covers(conflicts)'
    BY Zenon, <1>1, <2>1, CoversFrame
  <2> QED
    BY Zenon, <2>2 DEF ConflictsCover
<1> QED
  BY SMT, SMTT(30), <1>0, <1>1, <1>2, <1>3, <1>4, ConflictReleased

LEMMA ConflictSyncOtherRecord ==
  ASSUME ReceiptInv, ConflictInv, TypeInv', SyncOtherRecord
  PROVE  ConflictInv'
<1>0. /\ TypeInv /\ CohortRuns /\ Unlogged /\ ReadBelow /\ PendingClear /\ PendingDisjoint
      /\ ConflictsCover /\ NextCover /\ FirstCommitterWins
  BY ConflictFacts
<1>1. pc = "idle" /\ UNCHANGED <<mode, pc, visible, conflicts, walPoisoned, wal, phase, plan>>
  BY DEF SyncOtherRecord, handle, clients
<1>2. Staged = 0
  BY SMTT(30), <1>1 DEF Staged
<1>3. FirstCommitterWins' /\ ReadBelow' /\ ConflictsCover'
  BY Zenon, <1>0, <1>1, <1>2, ReadFrame, FirstCommitterFrame, ConflictsCoverFrame
<1> QED
  BY SMT, SMTT(30), <1>0, <1>1, <1>3, ConflictReleased

LEMMA ConflictFailBeforeWal ==
  ASSUME ReceiptInv, ConflictInv, TypeInv', FailBlocked \/ FailBlob \/ FailPages
  PROVE  ConflictInv'
<1>0. /\ TypeInv /\ CohortRuns /\ Unlogged /\ ReadBelow /\ PendingClear /\ PendingDisjoint
      /\ ConflictsCover /\ NextCover /\ FirstCommitterWins
  BY ConflictFacts
<1>a. /\ phase \in [Txn -> Phase] /\ plan \in [Txn -> Plan]
      /\ conflicts \in [Key -> Nat] /\ nextConflicts \in [Key -> Nat] /\ visible \in Nat
      /\ cohort \in Seq(Txn) /\ Len(cohort) \in Nat
  BY ConflictTypes
<1>1. pc \notin {"idle", "admit"} /\ UNCHANGED wal
  BY Zenon DEF FailBlocked, FailBlob, FailPages, files
<1>2. PICK bad \in BOOLEAN : GiveUp("failed", bad, FALSE)
  BY Zenon DEF FailBlocked, FailBlob, FailPages
<1>3. FirstCommitterWins' /\ plan' = plan
  BY Zenon, <1>0, <1>1, <1>2 DEF FirstCommitterWins, CommitsOf, GiveUp, DropHandle
<1>4. pc' = "idle" /\ ReadBelow'
  BY Zenon, <1>0, <1>a, <1>1, <1>2, GiveUpReads DEF Phase
<1>5. ConflictsCover'
  <2>1. CASE grouped
    BY SMTT(30), <1>2, <2>1 DEF GiveUp, DropHandle, ConflictsCover
  <2>2. CASE ~grouped
    <3>1. UNCHANGED <<mode, conflicts, plan>>
      BY Zenon, <1>2, <2>2 DEF GiveUp
    <3>2. walPoisoned' = walPoisoned
      BY Zenon, <1>2, <2>2 DEF GiveUp
    <3>3. Staged = 0
      BY <1>0, <2>2, FailBeforeLog
    <3> QED
      BY SMT, SMTT(30), <1>0, <1>1, <3>1, <3>2, <3>3 DEF ConflictsCover, Covers, CommitsOf
  <2> QED
    BY <2>1, <2>2
<1> QED
  BY SMTT(30), <1>0, <1>3, <1>4, <1>5, ConflictReleased

LEMMA ConflictFailWal ==
  ASSUME ReceiptInv, ConflictInv, TypeInv', FailWal
  PROVE  ConflictInv'
<1>0. /\ TypeInv /\ CohortRuns /\ Unlogged /\ ReadBelow /\ PendingClear /\ PendingDisjoint
      /\ ConflictsCover /\ NextCover /\ FirstCommitterWins
  BY ConflictFacts
<1>a. /\ phase \in [Txn -> Phase] /\ plan \in [Txn -> Plan]
      /\ conflicts \in [Key -> Nat] /\ nextConflicts \in [Key -> Nat] /\ visible \in Nat
      /\ cohort \in Seq(Txn) /\ Len(cohort) \in Nat
  BY ConflictTypes
<1>1. pc \notin {"idle", "admit"} /\ GiveUp("unknown", FALSE, TRUE)
  BY Zenon DEF FailWal, WalFailure
<1>2. pc' = "idle" /\ ReadBelow'
  BY Zenon, <1>0, <1>a, <1>1, GiveUpReads DEF Phase
<1>3. mode' = "down" \/ walPoisoned'
  <2>1. CASE grouped
    BY <1>1, <2>1 DEF GiveUp, DropHandle
  <2>2. CASE ~grouped
    BY Zenon, <1>1, <2>2 DEF GiveUp
  <2> QED
    BY <2>1, <2>2
<1>4. ConflictsCover'
  BY <1>3 DEF ConflictsCover
<1>5. plan' = plan
  BY Zenon, <1>1 DEF GiveUp, DropHandle
<1>6. SameCommits \/ (pc = "wal" /\ ~walPoisoned /\ OneCommitMore)
  BY <1>0, LogFailWal
<1>7. FirstCommitterWins'
  <2>1. CASE SameCommits
    BY SMT, SMTT(30), <1>0, <1>5, <2>1, SameIsFewer, FirstCommitterKept
  <2>2. CASE pc = "wal" /\ ~walPoisoned /\ OneCommitMore
    <3>1. pos \in 1..Len(cohort) /\ Current = cohort[pos] /\ Staged = pos - 1
      BY SMT, SMTT(30), <1>0, <2>2 DEF TypeInv, CohortOK, Current, Staged
    <3> QED
      BY SMTT(30), <1>0, <1>a, <1>5, <2>2, <3>1, FirstCommitterLogged
  <2> QED
    BY <1>6, <2>1, <2>2
<1> QED
  BY <1>0, <1>2, <1>4, <1>7, ConflictReleased

LEMMA ConflictCrash ==
  ASSUME ReceiptInv, ConflictInv, TypeInv', Kill \/ PowerLoss
  PROVE  ConflictInv'
<1>0. /\ TypeInv /\ CohortRuns /\ Unlogged /\ ReadBelow /\ PendingClear /\ PendingDisjoint
      /\ ConflictsCover /\ NextCover /\ FirstCommitterWins
  BY ConflictFacts
<1>1. DropHandle
  BY SMT, SMTT(30) DEF Kill, PowerLoss
<1>2. mode' = "down" /\ pc' = "idle" /\ plan' = plan /\ \A t \in Txn : phase'[t] \notin {"prepared", "running"}
  BY <1>1 DEF DropHandle, ReleaseWriter
<1>3. FewerCommits
  BY <1>0, LogKill, LogPowerLoss, SameIsFewer
<1>4. FirstCommitterWins'
  BY SMT, SMTT(30), <1>0, <1>2, <1>3, FirstCommitterKept
<1>5. ReadBelow' /\ ConflictsCover'
  BY SMT, SMTT(30), <1>2 DEF ReadBelow, ConflictsCover
<1> QED
  BY SMT, SMTT(30), <1>0, <1>2, <1>4, <1>5, ConflictReleased

LEMMA ConflictOpens ==
  ASSUME ReceiptInv, ConflictInv, TypeInv', Open \/ OpenRefused
  PROVE  ConflictInv'
<1>0. /\ TypeInv /\ CohortRuns /\ Unlogged /\ ReadBelow /\ PendingClear /\ PendingDisjoint
      /\ ConflictsCover /\ NextCover /\ FirstCommitterWins
  BY ConflictFacts
<1>1. CloseDangling /\ mode = "down" /\ UNCHANGED <<pc, phase, plan>>
  BY SMT, SMTT(30) DEF Open, OpenRefused, clients
<1>2. pc' = "idle" /\ SameCommits
  BY SMT, SMTT(30), <1>0, <1>1, LogCloseDangling DEF TypeInv, CohortOK
<1>3. FirstCommitterWins'
  BY SMT, SMTT(30), <1>0, <1>1, <1>2, SameIsFewer, FirstCommitterKept
<1>4. ReadBelow'
  BY SMT, SMTT(30), <1>0, <1>1 DEF ReadBelow
<1>5. ConflictsCover'
  <2>1. CASE Open
    <3>1. conflicts' = RecoveredConflicts(wal) /\ ContiguousCsns(wal)
      BY SMT, SMTT(30), <2>1 DEF Open, Recoverable
    <3>2. Covers(RecoveredConflicts(wal))
      BY SMTT(30), <1>0, <3>1, RecoveredCovers
    <3>3. Covers(conflicts)'
      BY SMT, SMTT(30), <1>1, <1>2, <3>1, <3>2 DEF Covers, SameCommits
    <3> QED
      BY <3>3 DEF ConflictsCover
  <2>2. CASE OpenRefused
    BY SMT, SMTT(30), <2>2 DEF OpenRefused, ConflictsCover
  <2> QED
    BY <2>1, <2>2
<1> QED
  BY SMTT(30), <1>0, <1>2, <1>3, <1>4, <1>5, ConflictReleased

LEMMA ConflictNext == ReceiptInv /\ ConflictInv /\ [Next]_vars => ConflictInv'
<1> SUFFICES ASSUME ReceiptInv, ConflictInv, [Next]_vars PROVE ConflictInv'
  OBVIOUS
<1>1. TypeInv'
  BY TypeNext DEF ReceiptInv
<1>2. CASE \E t \in Txn : PrepareBatch(t) \/ BeginSingleton(t) \/ RejectSingleton(t) \/ AdmitMember(t) \/ RejectMember(t)
  BY Zenon, <1>1, <1>2, ConflictPrepareBatch, ConflictBeginSingleton, ConflictRejections, ConflictAdmitMember
<1>3. CASE BeginGroup \/ EndEmptyAdmission \/ AppendWal \/ SyncWal \/ PublishRoot \/ SyncOtherRecord
  BY Zenon, <1>1, <1>3, ConflictBeginGroup, ConflictEndEmptyAdmission, ConflictAppendWal, ConflictSyncWal,
     ConflictPublishRoot, ConflictSyncOtherRecord
<1>4. CASE FailBlocked \/ FailBlob \/ FailPages \/ FailWal \/ Kill \/ PowerLoss \/ Open \/ OpenRefused
  BY Zenon, <1>1, <1>4, ConflictFailBeforeWal, ConflictFailWal, ConflictCrash, ConflictOpens
<1>5. CASE QuietStep
  BY Zenon, <1>1, <1>5, ConflictQuietSteps
<1> QED
  BY Zenon, <1>2, <1>3, <1>4, <1>5 DEF Next, QuietStep

(***************************************************************************)
(* Of two commits in the log that write a common key, the later one read a *)
(* snapshot that contains the earlier one: for singletons, for members of  *)
(* one cohort and across recoveries, whatever faults happen                *)
(* (ConflictTable::validate, admit, replay_conflicts).                     *)
(***************************************************************************)
THEOREM FirstCommitterAlwaysWins == Spec => []FirstCommitterWins
<1>1. ConflictInv => FirstCommitterWins
  BY DEF ConflictInv
<1> QED
  BY <1>1, ReceiptInit, ReceiptNext, ConflictInit, ConflictNext, PTL DEF Spec

=============================================================================
