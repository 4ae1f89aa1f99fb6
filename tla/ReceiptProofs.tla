--------------------------- MODULE ReceiptProofs ---------------------------
(* What a receipt of the commit path is worth, for every value of the      *)
(* constants of NativeCommit: AckDurable and RejectedNeverCommits.         *)
EXTENDS NativeCommitProofs

-----------------------------------------------------------------------------
(* What a step does to the COMMIT records of the WAL: it leaves them alone, *)
(* drops a suffix of them (power loss) or adds the current member's.        *)
SameCommits == CommitsOf(wal') = CommitsOf(wal) /\ \A i \in CommitsOf(wal) : wal'[i] = wal[i]
FewerCommits == CommitsOf(wal') \subseteq CommitsOf(wal) /\ \A i \in CommitsOf(wal') : wal'[i] = wal[i]
OneCommitMore ==
  /\ CommitsOf(wal') = CommitsOf(wal) \cup {Len(wal) + 2}
  /\ \A i \in CommitsOf(wal) : wal'[i] = wal[i]
  /\ wal'[Len(wal) + 2].kind = "commit"
  /\ wal'[Len(wal) + 2].txn = Current
  /\ wal'[Len(wal) + 2].csn = visible + pos
  /\ Len(wal') = Len(wal) + 2

LEMMA LogAppendOther ==
  ASSUME wal \in Seq(Entry), NEW e \in Entry, e.kind # "commit", wal' = Append(wal, e)
  PROVE  SameCommits /\ Len(wal') = Len(wal) + 1 /\ \A i \in 1..Len(wal) : wal'[i] = wal[i]
<1>1. Len(wal') = Len(wal) + 1 /\ wal'[Len(wal) + 1] = e /\ \A i \in 1..Len(wal) : wal'[i] = wal[i]
  OBVIOUS
<1> QED
  BY SMT, SMTT(30), <1>1 DEF SameCommits, CommitsOf

LEMMA ConcatIndex ==
  ASSUME NEW S, NEW s \in Seq(S), NEW r \in Seq(S)
  PROVE  /\ s \o r \in Seq(S)
         /\ Len(s \o r) = Len(s) + Len(r)
         /\ \A i \in 1 .. Len(s) + Len(r) : (s \o r)[i] = IF i <= Len(s) THEN s[i] ELSE r[i - Len(s)]
  OBVIOUS

LEMMA ConcatTwo ==
  ASSUME NEW S, NEW s \in Seq(S), NEW r \in Seq(S), Len(r) = 2
  PROVE  /\ Len(s \o r) = Len(s) + 2
         /\ \A i \in 1..Len(s) : (s \o r)[i] = s[i]
         /\ (s \o r)[Len(s) + 1] = r[1] /\ (s \o r)[Len(s) + 2] = r[2]
<1>1. Len(s) \in Nat
  OBVIOUS
<1>2. /\ Len(s \o r) = Len(s) + 2
      /\ \A i \in 1..Len(s) + 2 : (s \o r)[i] = IF i <= Len(s) THEN s[i] ELSE r[i - Len(s)]
  <2>1. /\ Len(s \o r) = Len(s) + Len(r)
        /\ \A i \in 1 .. Len(s) + Len(r) : (s \o r)[i] = IF i <= Len(s) THEN s[i] ELSE r[i - Len(s)]
    BY ConcatIndex, Zenon
  <2> QED
    BY <2>1, Zenon
<1>3. 1..Len(s) \subseteq 1..Len(s) + 2 /\ {Len(s) + 1, Len(s) + 2} \subseteq 1..Len(s) + 2
  BY <1>1
<1>4. \A i \in 1..Len(s) : (s \o r)[i] = s[i]
  BY <1>1, <1>2, <1>3
<1>5. (Len(s) + 1) - Len(s) = 1 /\ (Len(s) + 2) - Len(s) = 2 /\ ~(Len(s) + 1 <= Len(s)) /\ ~(Len(s) + 2 <= Len(s))
  BY <1>1
<1>6. (s \o r)[Len(s) + 1] = r[1]
  BY <1>2, <1>3, <1>5
<1>7. (s \o r)[Len(s) + 2] = r[2]
  BY <1>2, <1>3, <1>5
<1> QED
  BY <1>2, <1>4, <1>6, <1>7

LEMMA LogAppendTransaction ==
  ASSUME TypeInv, pc = "wal", wal' = wal \o TransactionRecords
  PROVE  OneCommitMore /\ \A i \in 1..Len(wal) : wal'[i] = wal[i]
<1>1. TransactionRecords \in Seq(Entry) /\ Len(TransactionRecords) = 2
  BY TypeOfRecords
<1>2. wal \in Seq(Entry) /\ Len(wal) \in Nat
  BY DEF TypeInv, TypeOK, FilesOK
<1>3. /\ TransactionRecords[1] = BeginEntry(Current)
      /\ TransactionRecords[2] = CommitEntry(Current, visible + pos, nextRoot)
  BY DEF TransactionRecords
<1>4. /\ Len(wal') = Len(wal) + 2 /\ \A i \in 1..Len(wal) : wal'[i] = wal[i]
      /\ wal'[Len(wal) + 1] = TransactionRecords[1] /\ wal'[Len(wal) + 2] = TransactionRecords[2]
  BY <1>1, <1>2, ConcatTwo
<1>5. /\ wal'[Len(wal) + 1].kind = "begin" /\ wal'[Len(wal) + 2].kind = "commit"
      /\ wal'[Len(wal) + 2].txn = Current /\ wal'[Len(wal) + 2].csn = visible + pos
  BY <1>3, <1>4 DEF BeginEntry, CommitEntry
<1>6. CommitsOf(wal') = CommitsOf(wal) \cup {Len(wal) + 2}
  <2>1. 1..Len(wal') = 1..Len(wal) \cup {Len(wal) + 1, Len(wal) + 2}
    BY <1>2, <1>4
  <2> QED
    BY SMT, SMTT(30), <1>2, <1>4, <1>5, <2>1 DEF CommitsOf
<1> QED
  BY <1>4, <1>5, <1>6 DEF OneCommitMore, CommitsOf

LEMMA LogPrefix ==
  ASSUME wal \in Seq(Entry), NEW n \in 0..Len(wal), wal' = SubSeq(wal, 1, n)
  PROVE  FewerCommits /\ Len(wal') = n /\ \A i \in 1..n : wal'[i] = wal[i]
<1>1. Len(wal') = n /\ \A i \in 1..n : wal'[i] = wal[i]
  OBVIOUS
<1> QED
  BY <1>1 DEF FewerCommits, CommitsOf

(* The same, action by action.  Every step keeps the synchronized prefix of *)
(* the WAL, and only a power loss shortens the WAL.                         *)
StablePrefix ==
  /\ walSynced \in 0..Len(wal) /\ walSynced' \in walSynced..Len(wal')
  /\ Len(wal) \in Nat /\ Len(wal') \in Nat
  /\ \A i \in 1..walSynced : wal'[i] = wal[i]
Grows == Len(wal') >= Len(wal) /\ \A i \in 1..Len(wal) : wal'[i] = wal[i]

LEMMA LogFailWal ==
  ASSUME TypeInv, FailWal
  PROVE  StablePrefix /\ Grows /\ (SameCommits \/ (pc = "wal" /\ ~walPoisoned /\ OneCommitMore))
<1>1. wal \in Seq(Entry) /\ Len(wal) \in Nat /\ walSynced \in 0..Len(wal) /\ walSynced' = walSynced
  BY DEF FailWal, TypeInv, TypeOK, FilesOK
<1>2. CASE wal' = wal
  BY <1>1, <1>2 DEF StablePrefix, Grows, SameCommits
<1>3. CASE pc = "wal" /\ ~walPoisoned /\ wal' = wal \o <<BeginEntry(Current)>>
  <2>1. BeginEntry(Current) \in Entry
    BY <1>3, TypeOfRecords
  <2>2. BeginEntry(Current).kind # "commit"
    BY DEF BeginEntry
  <2>3. wal' = Append(wal, BeginEntry(Current))
    BY <1>1, <1>3, <2>1
  <2> QED
    BY <1>1, <2>1, <2>2, <2>3, LogAppendOther DEF StablePrefix, Grows
<1>4. CASE pc = "wal" /\ ~walPoisoned /\ wal' = wal \o TransactionRecords
  <2>1. OneCommitMore /\ \A i \in 1..Len(wal) : wal'[i] = wal[i]
    BY <1>4, LogAppendTransaction
  <2>2. Len(wal') = Len(wal) + 2
    BY <2>1 DEF OneCommitMore
  <2> QED
    BY <1>1, <1>4, <2>1, <2>2 DEF StablePrefix, Grows
<1>5. wal \o <<>> = wal
  BY <1>1
<1> QED
  BY <1>2, <1>3, <1>4, <1>5 DEF FailWal

LEMMA LogKill ==
  ASSUME TypeInv, Kill
  PROVE  StablePrefix /\ Grows /\ SameCommits
<1>1. wal \in Seq(Entry) /\ Len(wal) \in Nat /\ walSynced \in 0..Len(wal) /\ walSynced' = walSynced
  BY DEF Kill, TypeInv, TypeOK, FilesOK
<1>2. CASE wal' = wal
  BY <1>1, <1>2 DEF StablePrefix, Grows, SameCommits
<1>3. CASE pc = "wal" /\ wal' = Append(wal, BeginEntry(Current))
  <2>1. BeginEntry(Current) \in Entry
    BY <1>3, TypeOfRecords
  <2>2. BeginEntry(Current).kind # "commit"
    BY DEF BeginEntry
  <2> QED
    BY <1>1, <1>3, <2>1, <2>2, LogAppendOther DEF StablePrefix, Grows
<1> QED
  BY <1>2, <1>3 DEF Kill

LEMMA LogCloseDangling ==
  ASSUME TypeInv, CloseDangling
  PROVE  StablePrefix /\ Grows /\ SameCommits
<1>1. wal \in Seq(Entry) /\ Len(wal) \in Nat /\ walSynced \in 0..Len(wal)
  BY DEF TypeInv, TypeOK, FilesOK
<1>2. CASE LogReadable /\ Dangling(wal)
  <2>1. wal[Len(wal)] \in Entry
    BY <1>1, <1>2 DEF Dangling
  <2>2. AbortEntry(wal[Len(wal)].txn) \in Entry
    BY <2>1, TypeOfEmptyRoot DEF AbortEntry, Entry
  <2>3. AbortEntry(wal[Len(wal)].txn).kind # "commit"
    BY DEF AbortEntry
  <2>4. wal' = Append(wal, AbortEntry(wal[Len(wal)].txn)) /\ walSynced' = Len(wal) + 1
    BY <1>2 DEF CloseDangling
  <2>5. SameCommits /\ Len(wal') = Len(wal) + 1 /\ \A i \in 1..Len(wal) : wal'[i] = wal[i]
    BY <1>1, <2>2, <2>3, <2>4, LogAppendOther
  <2> QED
    BY <1>1, <2>4, <2>5 DEF StablePrefix, Grows
<1>3. CASE ~(LogReadable /\ Dangling(wal))
  BY <1>1, <1>3 DEF CloseDangling, StablePrefix, Grows, SameCommits
<1> QED
  BY <1>2, <1>3

LEMMA LogPowerLoss ==
  ASSUME TypeInv, PowerLoss
  PROVE  StablePrefix /\ FewerCommits
<1>1. wal \in Seq(Entry) /\ Len(wal) \in Nat /\ walSynced \in 0..Len(wal)
  BY DEF TypeInv, TypeOK, FilesOK
<1>2. PICK n \in walSynced..Len(wal) : wal' = SubSeq(wal, 1, n) /\ walSynced' = n
  BY <1>1 DEF PowerLoss, Survive
<1>3. FewerCommits /\ Len(wal') = n /\ \A i \in 1..n : wal'[i] = wal[i]
  BY <1>1, <1>2, LogPrefix
<1> QED
  BY <1>1, <1>2, <1>3 DEF StablePrefix

-----------------------------------------------------------------------------
(* The inductive invariant.  Staged counts the members of the cohort whose *)
(* records are in the WAL; the receipt of a member is already backed by    *)
(* then, and the members after it have left no COMMIT behind.              *)
Staged ==
  IF pc = "idle" THEN 0
  ELSE IF pc \in {"syncWal", "publish"} \/ (pc = "syncPages" /\ grouped) THEN Len(cohort)
  ELSE pos - 1

Committed(t) == \E i \in CommitsOf(wal) : wal[i].txn = t

CohortRuns ==
  /\ \A i \in 1..Len(cohort) : phase[cohort[i]] = "running"
  /\ \A i, j \in 1..Len(cohort) : cohort[i] = cohort[j] => i = j
  /\ Staged > 0 => ~walPoisoned

Unlogged ==
  /\ \A t \in Txn : phase[t] \in {"unused", "prepared", "rejected", "failed"} => ~Committed(t)
  /\ \A i \in Staged + 1 .. Len(cohort) : ~Committed(cohort[i])

Logged == \A i \in 1..Staged : CommittedAt(cohort[i], visible + i, Len(wal))

LoggedStable ==
  pc = "publish" /\ Synchronize =>
    \A i \in 1..Len(cohort) : CommittedAt(cohort[i], visible + i, walSynced)

ReceiptInv == TypeInv /\ CohortRuns /\ Unlogged /\ Logged /\ LoggedStable /\ AckDurable

LEMMA StagedRange ==
  ASSUME TypeInv
  PROVE  Staged \in 0..Len(cohort) /\ Len(cohort) \in Nat /\ (Staged = Len(cohort) \/ Staged = pos - 1)
  BY DEF TypeInv, TypeOK, HandleOK, CohortOK, Staged

LEMMA StagedAppendWal ==
  ASSUME TypeInv, AppendWal
  PROVE  Staged = pos - 1 /\ Staged' = pos
<1>1. cohort \in Seq(Txn) /\ Len(cohort) \in Nat
  BY DEF TypeInv, TypeOK, HandleOK
<1>2. pc = "wal" /\ pos \in 1..Len(cohort)
  BY DEF AppendWal, TypeInv, CohortOK
<1>3. UNCHANGED <<cohort, grouped>> /\ pos' = (IF pos < Len(cohort) THEN pos + 1 ELSE pos) /\ pc' = AfterWal
  BY DEF AppendWal, held
<1>4. Staged = pos - 1
  BY <1>2 DEF Staged
<1>5. CASE pos < Len(cohort)
  BY <1>1, <1>2, <1>3, <1>5 DEF AfterWal, Staged
<1>6. CASE pos = Len(cohort)
  <2>1. pc' \in {"syncWal", "publish"} \/ (pc' = "syncPages" /\ grouped')
    BY <1>1, <1>3, <1>6 DEF AfterWal
  <2> QED
    BY <1>3, <1>4, <1>6, <2>1 DEF Staged
<1> QED
  BY <1>1, <1>2, <1>4, <1>5, <1>6

(* The steps between two changes of the WAL.                               *)
core == <<mode, grouped, cohort, visible, conflicts, nextConflicts, walPoisoned, wal, walSynced,
          phase, plan, ackCsn>>
QuietStep ==
  \/ EndAdmission \/ SkipBlob \/ ReuseBlob \/ StageBlob \/ PromoteBlob \/ SyncBlobDirectory
  \/ AppendPages \/ SyncPages
  \/ UNCHANGED vars

LEMMA QuietStepsKeepCore ==
  ASSUME TypeInv, QuietStep
  PROVE  UNCHANGED core /\ Staged' = Staged /\ (pc' = "publish" => pc = "publish") /\ (pc' = "idle" <=> pc = "idle")
<1>1. CASE EndAdmission
  BY <1>1 DEF EndAdmission, core, held, files, clients, Staged, TypeInv, CohortOK
<1>2. CASE SkipBlob
  BY <1>2 DEF SkipBlob, core, held, files, clients, Staged
<1>3. CASE ReuseBlob
  BY <1>3 DEF ReuseBlob, core, held, files, clients, Staged
<1>4. CASE StageBlob
  BY <1>4 DEF StageBlob, core, held, clients, Staged
<1>5. CASE PromoteBlob
  BY <1>5 DEF PromoteBlob, AfterPromote, core, held, clients, Staged
<1>6. CASE SyncBlobDirectory
  BY <1>6 DEF SyncBlobDirectory, core, held, clients, Staged
<1>7. CASE AppendPages
  <2>1. UNCHANGED core /\ pos' = pos /\ pc = "pages"
    BY <1>7 DEF AppendPages, core, held, clients
  <2>2. pc' = "wal" \/ (pc' = "syncPages" /\ ~grouped)
    BY <1>7 DEF AppendPages, AfterPages
  <2> QED
    BY <2>1, <2>2 DEF Staged, core
<1>8. CASE SyncPages
  <2>1. UNCHANGED core /\ pos' = pos /\ pc = "syncPages" /\ pc' = IF grouped THEN "syncWal" ELSE "wal"
    BY <1>8 DEF SyncPages, core, held, clients
  <2> QED
    BY <2>1 DEF Staged, core
<1>9. CASE UNCHANGED vars
  BY <1>9 DEF vars, handle, files, clients, core, Staged
<1> QED
  BY SMTT(30), <1>1, <1>2, <1>3, <1>4, <1>5, <1>6, <1>7, <1>8, <1>9 DEF QuietStep


(* A quiet step keeps the invariant: all of it is about core, Staged and   *)
(* whether the commit is about to publish.                                 *)
LEMMA ReceiptQuiet ==
  ASSUME ReceiptInv, TypeInv', QuietStep
  PROVE  ReceiptInv'
<1>1. TypeInv
  BY DEF ReceiptInv
<1>2. UNCHANGED core /\ Staged' = Staged /\ (pc' = "publish" => pc = "publish")
  BY <1>1, QuietStepsKeepCore
<1>3. CohortRuns' /\ Unlogged' /\ Logged' /\ AckDurable'
  BY SMT, SMTT(30), <1>2 DEF ReceiptInv, core, CohortRuns, Unlogged, Logged, AckDurable, Committed, CommittedAt, CommitsOf
<1>4. LoggedStable'
  BY SMT, SMTT(30), <1>2 DEF ReceiptInv, core, LoggedStable, Synchronize, CommittedAt
<1> QED
  BY <1>3, <1>4 DEF ReceiptInv

(* A step that leaves the writer lock free has nothing staged.             *)
LEMMA ReceiptReleased ==
  ASSUME TypeInv', pc' = "idle", AckDurable',
         \A t \in Txn : phase'[t] \in {"unused", "prepared", "rejected", "failed"} => ~Committed(t)'
  PROVE  ReceiptInv'
<1>1. cohort' = <<>> /\ Staged' = 0
  BY DEF TypeInv, CohortOK, Staged
<1>2. CohortRuns' /\ Unlogged' /\ Logged' /\ LoggedStable'
  BY <1>1 DEF CohortRuns, Unlogged, Logged, LoggedStable
<1> QED
  BY <1>2 DEF ReceiptInv

(* Receipts given earlier stay good while the synchronized prefix stays.   *)
LEMMA AckDurableKept ==
  ASSUME AckDurable, StablePrefix,
         \A t \in Txn : phase'[t] = "acked" => phase[t] = "acked" /\ plan'[t] = plan[t] /\ ackCsn'[t] = ackCsn[t]
  PROVE  AckDurable'
<1>1. \A i \in 1..walSynced : wal'[i] = wal[i] /\ i \in 1..walSynced'
  BY DEF StablePrefix
<1> SUFFICES ASSUME NEW t \in Txn, phase'[t] = "acked" /\ plan'[t].class # "Memory"
             PROVE  CommittedAt(t, ackCsn[t], walSynced)'
  BY SMT, SMTT(30) DEF AckDurable
<1>2. CommittedAt(t, ackCsn[t], walSynced)
  BY SMT, SMTT(30) DEF AckDurable
<1>3. PICK i \in 1..walSynced : wal[i].kind = "commit" /\ wal[i].txn = t /\ wal[i].csn = ackCsn[t]
  BY <1>2 DEF CommittedAt
<1> QED
  BY SMT, SMTT(30), <1>1, <1>3 DEF CommittedAt

LEMMA CommittedSame == ASSUME SameCommits PROVE \A t : Committed(t)' <=> Committed(t)
  BY DEF SameCommits, Committed

LEMMA CommittedFewer == ASSUME FewerCommits PROVE \A t : Committed(t)' => Committed(t)
  BY DEF FewerCommits, Committed

LEMMA CommittedOneMore == ASSUME OneCommitMore PROVE \A t : Committed(t)' => Committed(t) \/ t = Current
  BY DEF OneCommitMore, Committed

LEMMA WalUnchanged == ASSUME TypeInv, UNCHANGED <<wal, walSynced>> PROVE StablePrefix /\ Grows /\ SameCommits
  BY DEF TypeInv, TypeOK, FilesOK, StablePrefix, Grows, SameCommits

(* What a client learns when its commit gives up.                          *)
LEMMA GiveUpPhases ==
  ASSUME ReceiptInv, pc \notin {"idle", "admit"}, NEW outcome, outcome \in {"failed", "unknown"},
         NEW badPages \in BOOLEAN, NEW badWal \in BOOLEAN, GiveUp(outcome, badPages, badWal),
         outcome = "failed" /\ ~grouped => Staged = 0
  PROVE  /\ pc' = "idle"
         /\ \A t \in Txn : /\ phase'[t] \in {"unused", "prepared", "rejected", "failed"} => ~Committed(t)
                           /\ phase'[t] = "acked" => phase[t] = "acked"
                           /\ plan'[t] = plan[t] /\ ackCsn'[t] = ackCsn[t]
         /\ outcome = "unknown" => phase'[Current] = "unknown"
<1>1. /\ TypeInv /\ Unlogged /\ CohortRuns
      /\ phase \in [Txn -> Phase] /\ Current \in Txn
      /\ pos \in 1..Len(cohort) /\ Current = cohort[pos] /\ Staged \in 0..Len(cohort) /\ Len(cohort) \in Nat
  BY SMT, SMTT(30), TypeOfRecords, StagedRange DEF ReceiptInv, TypeInv, TypeOK, ClientsOK, CohortOK, Current
<1>2. CASE grouped /\ DropHandle
  <2>1. phase[Current] = "running"
    BY <1>1 DEF CohortRuns
  <2> QED
    BY <1>1, <1>2, <2>1 DEF DropHandle, ReleaseWriter, Unlogged
<1>3. CASE ~grouped /\ ReleaseWriter /\ phase' = [phase EXCEPT ![Current] = outcome] /\ UNCHANGED <<plan, ackCsn>>
  <2>1. Staged = 0 => ~Committed(Current)
    BY <1>1, <1>3 DEF Unlogged
  <2> QED
    BY SMT, SMTT(30), <1>1, <1>3, <2>1 DEF ReleaseWriter, Unlogged
<1> QED
  BY Zenon, <1>2, <1>3 DEF GiveUp


-----------------------------------------------------------------------------
LEMMA ReceiptInit == Init => ReceiptInv
<1> SUFFICES ASSUME Init PROVE ReceiptInv
  OBVIOUS
<1>1. TypeInv
  BY TypeInit
<1>2. CommitsOf(wal) = {} /\ cohort = <<>> /\ Staged = 0
  BY DEF Init, CommitsOf, Staged
<1>3. CohortRuns /\ Unlogged /\ Logged /\ LoggedStable
  BY <1>2 DEF Init, CohortRuns, Unlogged, Logged, LoggedStable, Committed
<1>4. AckDurable
  BY DEF Init, AckDurable
<1> QED
  BY <1>1, <1>3, <1>4 DEF ReceiptInv

LEMMA ReceiptFacts ==
  ASSUME ReceiptInv
  PROVE  /\ TypeInv /\ phase \in [Txn -> Phase] /\ plan \in [Txn -> Plan] /\ ackCsn \in [Txn -> Nat]
         /\ CohortRuns /\ Unlogged /\ Logged /\ LoggedStable /\ AckDurable
  BY DEF ReceiptInv, TypeInv, TypeOK, ClientsOK

LEMMA ReceiptPrepareBatch ==
  ASSUME ReceiptInv, TypeInv', NEW t \in Txn, PrepareBatch(t)
  PROVE  ReceiptInv'
<1>0. /\ TypeInv /\ phase \in [Txn -> Phase] /\ plan \in [Txn -> Plan] /\ ackCsn \in [Txn -> Nat]
      /\ CohortRuns /\ Unlogged /\ Logged /\ LoggedStable /\ AckDurable
  BY ReceiptFacts
<1>1. /\ phase' = [phase EXCEPT ![t] = "prepared"] /\ phase[t] = "unused" /\ pc' = "idle"
      /\ \A u \in Txn : phase'[u] = "acked" => phase[u] = "acked" /\ plan'[u] = plan[u] /\ ackCsn'[u] = ackCsn[u]
  BY SMT, SMTT(30), <1>0 DEF PrepareBatch, handle
<1>2. UNCHANGED <<wal, walSynced>>
  BY SMT, SMTT(30) DEF PrepareBatch, files
<1>3. AckDurable'
  BY SMT, SMTT(30), <1>0, <1>1, <1>2, WalUnchanged, AckDurableKept
<1>4. \A u \in Txn : phase'[u] \in {"unused", "prepared", "rejected", "failed"} => ~Committed(u)'
  BY SMT, SMTT(30), <1>0, <1>1, <1>2, WalUnchanged, CommittedSame DEF Unlogged
<1> QED
  BY SMT, SMTT(30), <1>0, <1>1, <1>3, <1>4, ReceiptReleased

LEMMA ReceiptBeginSingleton ==
  ASSUME ReceiptInv, TypeInv', NEW t \in Txn, BeginSingleton(t)
  PROVE  ReceiptInv'
<1>0. /\ TypeInv /\ phase \in [Txn -> Phase] /\ plan \in [Txn -> Plan] /\ ackCsn \in [Txn -> Nat]
      /\ CohortRuns /\ Unlogged /\ Logged /\ LoggedStable /\ AckDurable
  BY ReceiptFacts
<1>1. /\ phase' = [phase EXCEPT ![t] = "running"] /\ phase[t] = "prepared"
      /\ cohort' = <<t>> /\ Len(cohort') = 1 /\ cohort'[1] = t /\ Staged' = 0 /\ pc' = "stage"
      /\ UNCHANGED <<wal, walSynced, plan, ackCsn>>
  BY SMT, SMTT(30), <1>0 DEF BeginSingleton, files, Staged
<1>2. \A u : Committed(u)' <=> Committed(u)
  BY <1>0, <1>1, WalUnchanged, CommittedSame
<1>3. AckDurable'
  BY <1>0, <1>1, WalUnchanged, AckDurableKept
<1>4. CohortRuns' /\ Logged' /\ LoggedStable'
  BY SMT, SMTT(30), <1>0, <1>1 DEF CohortRuns, Logged, LoggedStable
<1>5. Unlogged'
  BY SMT, SMTT(30), <1>0, <1>1, <1>2 DEF Unlogged
<1> QED
  BY <1>0, <1>3, <1>4, <1>5 DEF ReceiptInv

LEMMA ReceiptRejectSingleton ==
  ASSUME ReceiptInv, TypeInv', NEW t \in Txn, RejectSingleton(t)
  PROVE  ReceiptInv'
<1>0. /\ TypeInv /\ phase \in [Txn -> Phase] /\ plan \in [Txn -> Plan] /\ ackCsn \in [Txn -> Nat]
      /\ CohortRuns /\ Unlogged /\ Logged /\ LoggedStable /\ AckDurable
  BY ReceiptFacts
<1>1. /\ phase' = [phase EXCEPT ![t] = "rejected"] /\ phase[t] = "prepared" /\ pc' = "idle"
      /\ UNCHANGED <<wal, walSynced, plan, ackCsn>>
  BY SMT, SMTT(30) DEF RejectSingleton, handle, files
<1>2. AckDurable'
  BY <1>0, <1>1, WalUnchanged, AckDurableKept
<1>3. \A u \in Txn : phase'[u] \in {"unused", "prepared", "rejected", "failed"} => ~Committed(u)'
  BY SMT, SMTT(30), <1>0, <1>1, WalUnchanged, CommittedSame DEF Unlogged
<1> QED
  BY SMT, SMTT(30), <1>0, <1>1, <1>2, <1>3, ReceiptReleased

LEMMA ReceiptAdmitMember ==
  ASSUME ReceiptInv, TypeInv', NEW t \in Txn, AdmitMember(t)
  PROVE  ReceiptInv'
<1>0. /\ TypeInv /\ phase \in [Txn -> Phase] /\ plan \in [Txn -> Plan] /\ ackCsn \in [Txn -> Nat]
      /\ CohortRuns /\ Unlogged /\ Logged /\ LoggedStable /\ AckDurable
  BY ReceiptFacts
<1>1. /\ phase' = [phase EXCEPT ![t] = "running"] /\ phase[t] = "prepared"
      /\ cohort' = Append(cohort, t) /\ pc' = "admit" /\ Staged' = 0 /\ Staged = 0
      /\ UNCHANGED <<wal, walSynced, plan, ackCsn>>
  BY SMT, SMTT(30), <1>0 DEF AdmitMember, files, Staged, TypeInv, CohortOK
<1>2. cohort \in Seq(Txn)
  BY SMT, SMTT(30), <1>0 DEF TypeInv, TypeOK, HandleOK
<1>3. /\ Len(cohort') = Len(cohort) + 1 /\ cohort'[Len(cohort) + 1] = t
      /\ \A i \in 1..Len(cohort) : cohort'[i] = cohort[i] /\ cohort[i] \in Txn
  BY SMT, SMTT(30), <1>1, <1>2
<1>4. \A u : Committed(u)' <=> Committed(u)
  BY <1>0, <1>1, WalUnchanged, CommittedSame
<1>5. AckDurable'
  BY <1>0, <1>1, WalUnchanged, AckDurableKept
<1>6. Len(cohort) \in Nat /\ \A i \in 1..Len(cohort') : i \in 1..Len(cohort) \/ i = Len(cohort) + 1
  BY <1>2, <1>3
<1>7. \A i \in 1..Len(cohort) : cohort[i] # t
  BY SMT, SMTT(30), <1>0, <1>1 DEF CohortRuns
<1>8. CohortRuns'
  <2>1. \A i \in 1..Len(cohort') : phase'[cohort'[i]] = "running"
    BY SMT, SMTT(30), <1>0, <1>1, <1>3, <1>6 DEF CohortRuns
  <2>2. \A i, j \in 1..Len(cohort') : cohort'[i] = cohort'[j] => i = j
    <3>1. \A i, j \in 1..Len(cohort) : cohort[i] = cohort[j] => i = j
      BY Zenon, <1>0 DEF CohortRuns
    <3> QED
      BY SMT, SMTT(30), <1>3, <1>6, <1>7, <3>1
  <2> QED
    BY SMT, SMTT(30), <1>1, <2>1, <2>2 DEF CohortRuns
<1>9. Unlogged'
  <2>1. \A u \in Txn : phase'[u] \in {"unused", "prepared", "rejected", "failed"} => ~Committed(u)'
    BY <1>0, <1>1, <1>4 DEF Unlogged
  <2>2. \A i \in 1..Len(cohort') : ~Committed(cohort[i])'
    BY SMT, SMTT(30), <1>0, <1>1, <1>3, <1>4, <1>6 DEF Unlogged
  <2> QED
    BY SMT, SMTT(30), <1>1, <2>1, <2>2 DEF Unlogged, Committed
<1>10. Logged' /\ LoggedStable'
  BY <1>1 DEF Logged, LoggedStable
<1> QED
  BY <1>0, <1>5, <1>8, <1>9, <1>10 DEF ReceiptInv

LEMMA ReceiptRejectMember ==
  ASSUME ReceiptInv, TypeInv', NEW t \in Txn, RejectMember(t)
  PROVE  ReceiptInv'
<1>0. /\ TypeInv /\ phase \in [Txn -> Phase] /\ plan \in [Txn -> Plan] /\ ackCsn \in [Txn -> Nat]
      /\ CohortRuns /\ Unlogged /\ Logged /\ LoggedStable /\ AckDurable
  BY ReceiptFacts
<1>1. /\ phase' = [phase EXCEPT ![t] = "rejected"] /\ phase[t] = "prepared"
      /\ pc = "admit" /\ pc' = "admit" /\ Staged' = 0 /\ Staged = 0
      /\ UNCHANGED <<wal, walSynced, plan, ackCsn, cohort, grouped, visible>>
  BY SMT, SMTT(30), <1>0 DEF RejectMember, handle, files, Staged, TypeInv, CohortOK
<1>2. \A u : Committed(u)' <=> Committed(u)
  BY SMT, SMTT(30), <1>0, <1>1, WalUnchanged, CommittedSame
<1>3. AckDurable'
  BY SMT, SMTT(30), <1>0, <1>1, WalUnchanged, AckDurableKept
<1>4. \A i \in 1..Len(cohort) : cohort[i] \in Txn /\ cohort[i] # t
  <2>1. cohort \in Seq(Txn) /\ \A i \in 1..Len(cohort) : phase[cohort[i]] = "running"
    BY <1>0, Zenon DEF CohortRuns, TypeInv, TypeOK, HandleOK
  <2> QED
    BY <1>1, <2>1
<1>5. CohortRuns' /\ Logged' /\ LoggedStable'
  BY SMT, SMTT(30), <1>0, <1>1, <1>4 DEF CohortRuns, Logged, LoggedStable
<1>6. Unlogged'
  BY SMT, SMTT(30), <1>0, <1>1, <1>2, <1>4 DEF Unlogged
<1> QED
  BY <1>0, <1>3, <1>5, <1>6 DEF ReceiptInv

LEMMA ReceiptBeginGroup ==
  ASSUME ReceiptInv, TypeInv', BeginGroup
  PROVE  ReceiptInv'
<1>0. /\ TypeInv /\ phase \in [Txn -> Phase] /\ plan \in [Txn -> Plan] /\ ackCsn \in [Txn -> Nat]
      /\ CohortRuns /\ Unlogged /\ Logged /\ LoggedStable /\ AckDurable
  BY ReceiptFacts
<1>1. pc' = "admit" /\ Staged' = 0 /\ cohort' = <<>> /\ UNCHANGED <<wal, walSynced, phase, plan, ackCsn>>
  BY SMT, SMTT(30) DEF BeginGroup, files, clients, Staged
<1>2. \A u : Committed(u)' <=> Committed(u)
  BY <1>0, <1>1, WalUnchanged, CommittedSame
<1>3. AckDurable'
  BY <1>0, <1>1, WalUnchanged, AckDurableKept
<1>4. CohortRuns' /\ Logged' /\ LoggedStable' /\ Unlogged'
  BY SMT, SMTT(30), <1>0, <1>1, <1>2 DEF CohortRuns, Logged, LoggedStable, Unlogged
<1> QED
  BY <1>0, <1>3, <1>4 DEF ReceiptInv

LEMMA ReceiptEndEmptyAdmission ==
  ASSUME ReceiptInv, TypeInv', EndEmptyAdmission
  PROVE  ReceiptInv'
<1>0. /\ TypeInv /\ phase \in [Txn -> Phase] /\ plan \in [Txn -> Plan] /\ ackCsn \in [Txn -> Nat]
      /\ CohortRuns /\ Unlogged /\ Logged /\ LoggedStable /\ AckDurable
  BY ReceiptFacts
<1>1. pc' = "idle" /\ UNCHANGED <<wal, walSynced, phase, plan, ackCsn>>
  BY SMT, SMTT(30) DEF EndEmptyAdmission, ReleaseWriter, files, clients
<1>2. AckDurable'
  BY <1>0, <1>1, WalUnchanged, AckDurableKept
<1>3. \A u \in Txn : phase'[u] \in {"unused", "prepared", "rejected", "failed"} => ~Committed(u)'
  BY SMT, SMTT(30), <1>0, <1>1, WalUnchanged, CommittedSame DEF Unlogged
<1> QED
  BY SMT, SMTT(30), <1>0, <1>1, <1>2, <1>3, ReceiptReleased

LEMMA ReceiptAppendWal ==
  ASSUME ReceiptInv, TypeInv', AppendWal
  PROVE  ReceiptInv'
<1>0. /\ TypeInv /\ phase \in [Txn -> Phase] /\ plan \in [Txn -> Plan] /\ ackCsn \in [Txn -> Nat]
      /\ CohortRuns /\ Unlogged /\ Logged /\ LoggedStable /\ AckDurable
  BY ReceiptFacts
<1>1. /\ pc = "wal" /\ ~walPoisoned /\ wal' = wal \o TransactionRecords
      /\ UNCHANGED <<grouped, cohort, visible, walPoisoned, walSynced, phase, plan, ackCsn>>
  BY SMT, SMTT(30) DEF AppendWal, held, clients
<1>2. OneCommitMore /\ \A i \in 1..Len(wal) : wal'[i] = wal[i]
  BY SMT, SMTT(30), <1>0, <1>1, LogAppendTransaction
<1>3. /\ cohort \in Seq(Txn) /\ Len(cohort) \in Nat /\ pos \in 1..Len(cohort) /\ Current = cohort[pos]
      /\ Len(wal) \in Nat /\ walSynced \in 0..Len(wal)
  <2>1. cohort \in Seq(Txn) /\ Len(wal) \in Nat /\ walSynced \in 0..Len(wal)
    BY SMT, SMTT(30), <1>0 DEF TypeInv, TypeOK, HandleOK, FilesOK
  <2>2. pos \in 1..Len(cohort)
    BY SMT, SMTT(30), <1>0, <1>1 DEF TypeInv, CohortOK
  <2> QED
    BY <2>1, <2>2 DEF Current
<1>4. Staged = pos - 1 /\ Staged' = pos
  BY <1>0, StagedAppendWal
<1>5. Len(wal') = Len(wal) + 2
  BY SMT, SMTT(30), <1>2 DEF OneCommitMore
<1>6. StablePrefix
  BY SMT, SMTT(30), <1>1, <1>2, <1>3, <1>5 DEF StablePrefix
<1>7. AckDurable'
  BY SMT, SMTT(30), <1>0, <1>1, <1>6, AckDurableKept
<1>8. CohortRuns'
  BY SMT, SMTT(30), <1>0, <1>1, <1>3, <1>4 DEF CohortRuns
<1>9. Unlogged'
  <2>1. \A u : Committed(u)' => Committed(u) \/ u = cohort[pos]
    BY SMT, SMTT(30), <1>2, <1>3, CommittedOneMore
  <2>2. \A i \in 1..Len(cohort) : cohort[i] \in Txn /\ phase[cohort[i]] = "running"
    BY SMT, SMTT(30), <1>0, <1>3 DEF CohortRuns
  <2>3. \A i \in pos + 1 .. Len(cohort) : ~Committed(cohort[i]) /\ cohort[i] # cohort[pos]
    <3> TAKE i \in pos + 1 .. Len(cohort)
    <3>1. i \in 1..Len(cohort) /\ i # pos /\ i \in Staged + 1 .. Len(cohort)
      BY <1>3, <1>4
    <3> QED
      BY SMT, SMTT(30), <1>0, <1>3, <3>1 DEF Unlogged, CohortRuns
  <2>4. \A u \in Txn : phase[u] \in {"unused", "prepared", "rejected", "failed"} => ~Committed(u)'
    BY SMT, SMTT(30), <1>0, <1>3, <2>1, <2>2 DEF Unlogged
  <2>5. \A i \in pos + 1 .. Len(cohort) : ~Committed(cohort[i])'
    BY Zenon, <1>1, <2>1, <2>3 DEF Committed
  <2> QED
    BY SMT, SMTT(30), <1>1, <1>4, <2>4, <2>5 DEF Unlogged
<1>10. Logged'
  <2> SUFFICES ASSUME NEW i \in 1..pos PROVE CommittedAt(cohort[i], visible + i, Len(wal))'
    BY SMT, SMTT(30), <1>1, <1>4 DEF Logged
  <2>1. CASE i = pos
    <3>1. Len(wal) + 2 \in 1..Len(wal')
      BY <1>3, <1>5
    <3>2. /\ wal'[Len(wal) + 2].kind = "commit" /\ wal'[Len(wal) + 2].txn = cohort[pos]
          /\ wal'[Len(wal) + 2].csn = visible + pos
      BY SMT, SMTT(30), <1>2, <1>3 DEF OneCommitMore
    <3> QED
      BY <1>1, <2>1, <3>1, <3>2, Zenon DEF CommittedAt
  <2>2. CASE i \in 1..Staged
    <3>1. PICK j \in 1..Len(wal) : wal[j].kind = "commit" /\ wal[j].txn = cohort[i] /\ wal[j].csn = visible + i
      BY SMT, SMTT(30), <1>0, <2>2 DEF Logged, CommittedAt
    <3>2. j \in 1..Len(wal') /\ wal'[j] = wal[j]
      BY SMT, SMTT(30), <1>2, <1>3, <1>5
    <3> QED
      BY SMT, SMTT(30), <1>1, <3>1, <3>2 DEF CommittedAt
  <2> QED
    BY SMT, SMTT(30), <1>3, <1>4, <2>1, <2>2
<1>11. LoggedStable'
  <2>1. pc' = "publish" => ~Synchronize
    BY SMT, SMTT(30), <1>1 DEF AppendWal, AfterWal, Synchronize
  <2> QED
    BY SMT, SMTT(30), <1>1, <2>1 DEF LoggedStable, Synchronize
<1> QED
  BY <1>0, <1>7, <1>8, <1>9, <1>10, <1>11 DEF ReceiptInv

LEMMA ReceiptSyncWal ==
  ASSUME ReceiptInv, TypeInv', SyncWal
  PROVE  ReceiptInv'
<1>0. /\ TypeInv /\ phase \in [Txn -> Phase] /\ plan \in [Txn -> Plan] /\ ackCsn \in [Txn -> Nat]
      /\ CohortRuns /\ Unlogged /\ Logged /\ LoggedStable /\ AckDurable
  BY ReceiptFacts
<1>1. /\ pc = "syncWal" /\ pc' = "publish" /\ walSynced' = Len(wal)
      /\ UNCHANGED <<wal, grouped, cohort, visible, walPoisoned, phase, plan, ackCsn>>
  BY DEF SyncWal, held, clients
<1>2. Staged = Len(cohort) /\ Staged' = Len(cohort)
  BY SMTT(30), <1>1 DEF Staged
<1>3. StablePrefix /\ SameCommits
  BY SMT, SMTT(30), <1>0, <1>1 DEF StablePrefix, SameCommits, TypeInv, TypeOK, FilesOK
<1>4. AckDurable'
  BY SMTT(30), <1>0, <1>1, <1>3, AckDurableKept
<1>5. CohortRuns'
  BY SMT, SMTT(30), <1>0, <1>1, <1>2 DEF CohortRuns
<1>6. Unlogged'
  BY SMT, SMTT(30), <1>0, <1>1, <1>2, <1>3, CommittedSame DEF Unlogged, Committed
<1>7. \A i \in 1..Len(cohort) : CommittedAt(cohort[i], visible + i, Len(wal))
  BY <1>0, <1>2 DEF Logged
<1>8. Logged'
  BY SMT, SMTT(30), <1>1, <1>2, <1>7 DEF Logged, CommittedAt
<1>9. LoggedStable'
  BY SMT, SMTT(30), <1>1, <1>7 DEF LoggedStable, CommittedAt
<1> QED
  BY Zenon, <1>4, <1>5, <1>6, <1>8, <1>9 DEF ReceiptInv

LEMMA ReceiptPublishRoot ==
  ASSUME ReceiptInv, TypeInv', PublishRoot
  PROVE  ReceiptInv'
<1>0. /\ TypeInv /\ phase \in [Txn -> Phase] /\ plan \in [Txn -> Plan] /\ ackCsn \in [Txn -> Nat]
      /\ CohortRuns /\ Unlogged /\ Logged /\ LoggedStable /\ AckDurable
  BY ReceiptFacts
<1>1. /\ pc = "publish" /\ pc' = "idle" /\ UNCHANGED <<wal, walSynced, plan>>
      /\ phase' = [t \in Txn |-> IF InCohort(t) THEN "acked" ELSE phase[t]]
      /\ ackCsn' = [t \in Txn |-> IF InCohort(t) THEN visible + PositionOf(t) ELSE ackCsn[t]]
  BY Zenon DEF PublishRoot, ReleaseWriter, files
<1>2. \A u \in Txn : phase'[u] \in {"unused", "prepared", "rejected", "failed"} => ~Committed(u)'
  BY SMT, SMTT(30), <1>0, <1>1, WalUnchanged, CommittedSame DEF Unlogged
<1>3. AckDurable'
  <2> SUFFICES ASSUME NEW t \in Txn, phase'[t] = "acked", plan'[t].class # "Memory"
               PROVE  CommittedAt(t, ackCsn[t], walSynced)'
    BY Zenon DEF AckDurable
  <2>1. CASE InCohort(t)
    <3>1. PositionOf(t) \in 1..Len(cohort) /\ cohort[PositionOf(t)] = t
      BY SMTT(30), <2>1, PositionInCohort
    <3>2. grouped \/ cohort[1] = t
      BY SMT, SMTT(30), <1>0, <1>1, <3>1 DEF TypeInv, CohortOK
    <3>3. Synchronize
      BY SMT, SMTT(30), <1>1, <3>2 DEF Synchronize
    <3>4. CommittedAt(t, visible + PositionOf(t), walSynced)
      BY SMT, SMTT(30), <1>0, <1>1, <3>1, <3>3 DEF LoggedStable
    <3> QED
      BY SMT, SMTT(30), <1>1, <2>1, <3>4 DEF CommittedAt
  <2>2. CASE ~InCohort(t)
    BY SMT, SMTT(30), <1>0, <1>1, <2>2 DEF AckDurable, CommittedAt
  <2> QED
    BY SMT, SMTT(30), <2>1, <2>2
<1> QED
  BY SMT, SMTT(30), <1>0, <1>1, <1>2, <1>3, ReceiptReleased

LEMMA ReceiptSyncOtherRecord ==
  ASSUME ReceiptInv, TypeInv', SyncOtherRecord
  PROVE  ReceiptInv'
<1>0. /\ TypeInv /\ phase \in [Txn -> Phase] /\ plan \in [Txn -> Plan] /\ ackCsn \in [Txn -> Nat]
      /\ CohortRuns /\ Unlogged /\ Logged /\ LoggedStable /\ AckDurable
  BY ReceiptFacts
<1>1. pc' = "idle" /\ walSynced' = Len(wal) /\ UNCHANGED <<wal, phase, plan, ackCsn>>
  BY SMTT(30) DEF SyncOtherRecord, handle, clients
<1>2. StablePrefix /\ SameCommits
  BY SMT, SMTT(30), <1>0, <1>1 DEF StablePrefix, SameCommits, TypeInv, TypeOK, FilesOK
<1>3. AckDurable'
  BY SMTT(30), <1>0, <1>1, <1>2, AckDurableKept
<1>4. \A u \in Txn : phase'[u] \in {"unused", "prepared", "rejected", "failed"} => ~Committed(u)'
  BY SMTT(30), <1>0, <1>1, <1>2, CommittedSame DEF Unlogged
<1> QED
  BY SMTT(30), <1>0, <1>1, <1>3, <1>4, ReceiptReleased

LEMMA ReceiptFailBeforeWal ==
  ASSUME ReceiptInv, TypeInv', FailBlocked \/ FailBlob \/ FailPages
  PROVE  ReceiptInv'
<1>0. /\ TypeInv /\ phase \in [Txn -> Phase] /\ plan \in [Txn -> Plan] /\ ackCsn \in [Txn -> Nat]
      /\ CohortRuns /\ Unlogged /\ Logged /\ LoggedStable /\ AckDurable
  BY ReceiptFacts
<1>1. pc \notin {"idle", "admit"} /\ UNCHANGED <<wal, walSynced>>
  BY Zenon DEF FailBlocked, FailBlob, FailPages, files
<1>g. PICK bad \in BOOLEAN : GiveUp("failed", bad, FALSE)
  BY Zenon DEF FailBlocked, FailBlob, FailPages
<1>2. ~grouped => Staged = 0
  <2>1. pc = "syncWal" => walPoisoned
    BY SMT, SMTT(30) DEF FailBlocked, FailBlob, FailPages
  <2>2. pc # "publish"
    BY Zenon DEF FailBlocked, FailBlob, FailPages
  <2>3. pos \in 1..Len(cohort) /\ (~grouped => Len(cohort) = 1)
    BY SMT, SMTT(30), <1>0, <1>1 DEF TypeInv, CohortOK
  <2>4. CASE pc = "syncWal"
    BY <1>0, <2>1, <2>3, <2>4 DEF Staged, CohortRuns
  <2>5. CASE pc # "syncWal"
    <3> SUFFICES ASSUME ~grouped PROVE Staged = 0
      OBVIOUS
    <3>0. Len(cohort) = 1 /\ pos \in 1..Len(cohort)
      BY <2>3, Zenon
    <3>1. pos = 1
      BY <3>0
    <3>2. pc # "idle"
      BY <1>1, Zenon
    <3>3. ~(pc \in {"syncWal", "publish"} \/ (pc = "syncPages" /\ grouped))
      BY <2>2, <2>5
    <3>4. Staged = pos - 1
      BY <3>2, <3>3, Zenon DEF Staged
    <3> QED
      BY <3>1, <3>4
  <2> QED
    BY <2>4, <2>5
<1>3. /\ pc' = "idle"
      /\ \A t \in Txn : /\ phase'[t] \in {"unused", "prepared", "rejected", "failed"} => ~Committed(t)
                        /\ phase'[t] = "acked" => phase[t] = "acked"
                        /\ plan'[t] = plan[t] /\ ackCsn'[t] = ackCsn[t]
  BY Zenon, <1>1, <1>2, <1>g, GiveUpPhases
<1>4. AckDurable'
  BY Zenon, <1>0, <1>1, <1>3, WalUnchanged, AckDurableKept
<1>5. \A u \in Txn : phase'[u] \in {"unused", "prepared", "rejected", "failed"} => ~Committed(u)'
  BY SMT, SMTT(30), <1>0, <1>1, <1>3, WalUnchanged, CommittedSame
<1> QED
  BY Zenon, <1>0, <1>3, <1>4, <1>5, ReceiptReleased

LEMMA ReceiptFailWal ==
  ASSUME ReceiptInv, TypeInv', FailWal
  PROVE  ReceiptInv'
<1>0. /\ TypeInv /\ phase \in [Txn -> Phase] /\ plan \in [Txn -> Plan] /\ ackCsn \in [Txn -> Nat]
      /\ CohortRuns /\ Unlogged /\ Logged /\ LoggedStable /\ AckDurable
  BY ReceiptFacts
<1>1. pc \notin {"idle", "admit"} /\ GiveUp("unknown", FALSE, TRUE)
  BY Zenon DEF FailWal, WalFailure
<1>2. /\ pc' = "idle" /\ phase'[Current] = "unknown"
      /\ \A t \in Txn : /\ phase'[t] \in {"unused", "prepared", "rejected", "failed"} => ~Committed(t)
                        /\ phase'[t] = "acked" => phase[t] = "acked"
                        /\ plan'[t] = plan[t] /\ ackCsn'[t] = ackCsn[t]
  BY Zenon, <1>1, GiveUpPhases
<1>3. StablePrefix /\ (SameCommits \/ OneCommitMore)
  BY <1>0, LogFailWal
<1>4. AckDurable'
  BY Zenon, <1>0, <1>2, <1>3, AckDurableKept
<1>5. \A u : Committed(u)' => Committed(u) \/ u = Current
  BY SMTT(30), <1>3, CommittedSame, CommittedOneMore
<1>6. \A u \in Txn : phase'[u] \in {"unused", "prepared", "rejected", "failed"} => ~Committed(u)'
  BY SMT, SMTT(30), <1>2, <1>5
<1> QED
  BY Zenon, <1>0, <1>2, <1>4, <1>6, ReceiptReleased

LEMMA ReceiptCrash ==
  ASSUME ReceiptInv, TypeInv', Kill \/ PowerLoss
  PROVE  ReceiptInv'
<1>0. /\ TypeInv /\ phase \in [Txn -> Phase] /\ plan \in [Txn -> Plan] /\ ackCsn \in [Txn -> Nat]
      /\ CohortRuns /\ Unlogged /\ Logged /\ LoggedStable /\ AckDurable
  BY ReceiptFacts
<1>1. DropHandle
  BY SMT, SMTT(30) DEF Kill, PowerLoss
<1>2. StablePrefix /\ \A t : Committed(t)' => Committed(t)
  BY <1>0, LogKill, LogPowerLoss, CommittedSame, CommittedFewer
<1>3. /\ pc' = "idle" /\ UNCHANGED <<plan, ackCsn>>
      /\ \A t \in Txn : /\ phase'[t] \in {"unused", "prepared", "rejected", "failed"} =>
                             phase[t] \in {"unused", "prepared", "rejected", "failed"}
                        /\ phase'[t] = "acked" => phase[t] = "acked"
  BY <1>1 DEF DropHandle, ReleaseWriter
<1>4. AckDurable'
  BY SMTT(30), <1>0, <1>2, <1>3, AckDurableKept
<1>5. \A u \in Txn : phase'[u] \in {"unused", "prepared", "rejected", "failed"} => ~Committed(u)'
  BY Zenon, <1>0, <1>2, <1>3 DEF Unlogged
<1> QED
  BY SMTT(30), <1>0, <1>3, <1>4, <1>5, ReceiptReleased

LEMMA ReceiptOpens ==
  ASSUME ReceiptInv, TypeInv', Open \/ OpenRefused
  PROVE  ReceiptInv'
<1>0. /\ TypeInv /\ phase \in [Txn -> Phase] /\ plan \in [Txn -> Plan] /\ ackCsn \in [Txn -> Nat]
      /\ CohortRuns /\ Unlogged /\ Logged /\ LoggedStable /\ AckDurable
  BY ReceiptFacts
<1>1. CloseDangling /\ UNCHANGED <<pc, cohort, phase, plan, ackCsn>>
  BY SMT, SMTT(30) DEF Open, OpenRefused, clients
<1>2. StablePrefix /\ \A t : Committed(t)' <=> Committed(t)
  BY SMT, SMTT(30), <1>0, <1>1, LogCloseDangling, CommittedSame
<1>3. AckDurable'
  BY <1>0, <1>1, <1>2, AckDurableKept
<1>4. \A u \in Txn : phase'[u] \in {"unused", "prepared", "rejected", "failed"} => ~Committed(u)'
  BY SMTT(30), <1>0, <1>1, <1>2 DEF Unlogged
<1>5. mode = "down"
  BY Zenon DEF Open, OpenRefused
<1>6. pc' = "idle"
  BY SMT, SMTT(30), <1>0, <1>1, <1>5 DEF TypeInv, CohortOK
<1> QED
  BY Zenon, <1>0, <1>3, <1>4, <1>6, ReceiptReleased

LEMMA ReceiptNext == ReceiptInv /\ [Next]_vars => ReceiptInv'
<1> SUFFICES ASSUME ReceiptInv, [Next]_vars PROVE ReceiptInv'
  OBVIOUS
<1>1. TypeInv'
  BY TypeNext DEF ReceiptInv
<1>2. CASE \E t \in Txn : PrepareBatch(t) \/ BeginSingleton(t) \/ RejectSingleton(t) \/ AdmitMember(t) \/ RejectMember(t)
  BY Zenon, <1>1, <1>2, ReceiptPrepareBatch, ReceiptBeginSingleton, ReceiptRejectSingleton, ReceiptAdmitMember,
     ReceiptRejectMember
<1>3. CASE BeginGroup \/ EndEmptyAdmission \/ AppendWal \/ SyncWal \/ PublishRoot \/ SyncOtherRecord
  BY Zenon, <1>1, <1>3, ReceiptBeginGroup, ReceiptEndEmptyAdmission, ReceiptAppendWal, ReceiptSyncWal,
     ReceiptPublishRoot, ReceiptSyncOtherRecord
<1>4. CASE FailBlocked \/ FailBlob \/ FailPages \/ FailWal \/ Kill \/ PowerLoss \/ Open \/ OpenRefused
  BY Zenon, <1>1, <1>4, ReceiptFailBeforeWal, ReceiptFailWal, ReceiptCrash, ReceiptOpens
<1>5. CASE QuietStep
  BY Zenon, <1>1, <1>5, ReceiptQuiet
<1> QED
  BY Zenon, <1>2, <1>3, <1>4, <1>5 DEF Next, QuietStep

(***************************************************************************)
(* A Strict or Group receipt is backed by a COMMIT record with its CSN in  *)
(* the synchronized part of the WAL, through every fault and recovery      *)
(* (commit_report_at, GroupCommitStorage::commit).                         *)
(***************************************************************************)
THEOREM ReceiptsDurable == Spec => []AckDurable
<1>1. ReceiptInv => AckDurable
  BY DEF ReceiptInv
<1> QED
  BY <1>1, ReceiptInit, ReceiptNext, PTL DEF Spec

(***************************************************************************)
(* A batch whose client was told it did not commit never has a COMMIT      *)
(* record: a definite failure is reported only before the WAL append       *)
(* began (commit_report_at, admit).                                        *)
(***************************************************************************)
THEOREM RejectionsDefinite == Spec => []RejectedNeverCommits
<1>1. ReceiptInv => RejectedNeverCommits
  BY SMT, SMTT(30) DEF ReceiptInv, Unlogged, Committed, RejectedNeverCommits
<1> QED
  BY <1>1, ReceiptInit, ReceiptNext, PTL DEF Spec

=============================================================================
