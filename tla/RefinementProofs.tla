-------------------------- MODULE RefinementProofs --------------------------
(* NativeCommit implements SnapshotStore, for every value of its constants. *)
EXTENDS StoreRefinement, FirstCommitterProofs

-----------------------------------------------------------------------------
(* The numbers of the commits.  Numbers grow along the log; while the WAL  *)
(* is usable, the newest one is the visible CSN plus the members of the    *)
(* running cohort that are logged, so the next member takes the next one.  *)
Numbered == \A i, j \in CommitsOf(wal) : i < j => wal[i].csn < wal[j].csn
TopIn(log, c) ==
  /\ c = 0 \/ \E i \in CommitsOf(log) : log[i].csn = c
  /\ \A i \in CommitsOf(log) : log[i].csn <= c
NewestKnown == mode = "up" /\ ~walPoisoned => TopIn(wal, visible + Staged)
NumberInv == Numbered /\ NewestKnown

LEMMA NumberedFewer ==
  ASSUME TypeInv, Numbered, FewerCommits
  PROVE  Numbered'
  BY Zenon DEF Numbered, FewerCommits

LEMMA TopSame ==
  ASSUME NEW c, TopIn(wal, c), SameCommits
  PROVE  TopIn(wal', c)
  BY Zenon DEF TopIn, SameCommits

LEMMA TopMore ==
  ASSUME TypeInv, Numbered, pc = "wal", TopIn(wal, visible + pos - 1), OneCommitMore
  PROVE  Numbered' /\ TopIn(wal', visible + pos)
<1> DEFINE n == Len(wal) + 2
<1>1. /\ visible \in Nat /\ pos \in Nat /\ Len(wal) \in Nat
      /\ CommitsOf(wal) \subseteq 1..Len(wal) /\ \A i \in CommitsOf(wal) : wal[i].csn \in Nat
  BY EntryTypes DEF TypeInv, TypeOK, HandleOK, CommitsOf
<1>2. /\ CommitsOf(wal') = CommitsOf(wal) \cup {n}
      /\ \A i \in CommitsOf(wal) : wal'[i] = wal[i]
      /\ wal'[n].csn = visible + pos
  BY DEF OneCommitMore
<1>3. \A i \in CommitsOf(wal) : i < n /\ wal'[i].csn < visible + pos
  <2> TAKE i \in CommitsOf(wal)
  <2>1. wal[i].csn <= visible + pos - 1 /\ wal'[i] = wal[i]
    BY <1>2 DEF TopIn
  <2> QED
    BY <1>1, <2>1
<1> HIDE DEF n
<1>4. Numbered'
  <2> SUFFICES ASSUME NEW i \in CommitsOf(wal'), NEW j \in CommitsOf(wal'), i < j
               PROVE  wal'[i].csn < wal'[j].csn
    BY Zenon DEF Numbered
  <2>1. i # n
    BY <1>1, <1>2, <1>3 DEF n
  <2>2. CASE j = n
    BY <1>2, <1>3, <2>1, <2>2
  <2>3. CASE j # n
    BY <1>2, <2>1, <2>3, Zenon DEF Numbered
  <2> QED
    BY <2>2, <2>3
<1>5. \A i \in CommitsOf(wal') : wal'[i].csn <= visible + pos
  <2> TAKE i \in CommitsOf(wal')
  <2>1. CASE i = n
    BY <1>1, <1>2, <2>1
  <2>2. CASE i # n
    BY <1>1, <1>2, <1>3, <2>2
  <2> QED
    BY <2>1, <2>2
<1>6. \E i \in CommitsOf(wal') : wal'[i].csn = visible + pos
  BY <1>2
<1> QED
  BY <1>4, <1>5, <1>6, Zenon DEF TopIn

-----------------------------------------------------------------------------
(* The mapped variables, step by step.                                     *)
LEMMA CommitsBarFacts ==
  /\ CommittedBar = {CommitOf(wal[i]) : i \in CommitsOf(wal)}
  /\ CommittedBar' = {CommitOf(wal'[i]) : i \in CommitsOf(wal')}
  BY Zenon DEF CommittedBar, CommitsIn, CommitsOf

LEMMA BarSame == ASSUME SameCommits PROVE CommittedBar' = CommittedBar
  BY CommitsBarFacts, Zenon DEF SameCommits

LEMMA BarMore ==
  ASSUME OneCommitMore
  PROVE  CommittedBar' = CommittedBar \cup {[txn |-> Current, csn |-> visible + pos]}
<1>1. CommitOf(wal'[Len(wal) + 2]) = [txn |-> Current, csn |-> visible + pos]
  BY Zenon DEF OneCommitMore, CommitOf
<1>2. {CommitOf(wal'[i]) : i \in CommitsOf(wal) \cup {Len(wal) + 2}}
        = {CommitOf(wal'[i]) : i \in CommitsOf(wal)} \cup {CommitOf(wal'[Len(wal) + 2])}
  OBVIOUS
<1> QED
  <2>1. CommitsOf(wal') = CommitsOf(wal) \cup {Len(wal) + 2} /\ \A i \in CommitsOf(wal) : wal'[i] = wal[i]
    BY DEF OneCommitMore
  <2>2. {CommitOf(wal'[i]) : i \in CommitsOf(wal)} = CommittedBar
    BY <2>1, CommitsBarFacts, Zenon
  <2> QED
    BY <1>1, <1>2, <2>1, <2>2, CommitsBarFacts

LEMMA StableSame ==
  ASSUME StablePrefix, walSynced' = walSynced
  PROVE  StableBar' = StableBar
<1>1. \A i \in 1..walSynced : wal'[i] = wal[i]
  BY Zenon DEF StablePrefix
<1> QED
  BY <1>1, Zenon DEF StableBar, CommitsIn

LEMMA StableAll ==
  ASSUME walSynced' = Len(wal')
  PROVE  StableBar' = CommittedBar'
  BY Zenon DEF StableBar, CommittedBar

LEMMA BarHolds == \A t : Store!Holds(t) <=> Committed(t)
<1>1. \A i : CommitOf(wal[i]).txn = wal[i].txn
  BY DEF CommitOf
<1> QED
  BY <1>1, CommitsBarFacts, Zenon DEF Store!Holds, Committed

LEMMA BarTop ==
  ASSUME NEW c, TopIn(wal, c)
  PROVE  Store!IsTop(CommittedBar, c)
<1>1. \A i : CommitOf(wal[i]).csn = wal[i].csn
  BY DEF CommitOf
<1> QED
  BY <1>1, CommitsBarFacts, Zenon DEF Store!IsTop, Store!Csns, TopIn

-----------------------------------------------------------------------------
(* The numbers are right in every reachable state.                         *)
LEMMA NumberInit == Init => NumberInv
<1> SUFFICES ASSUME Init PROVE NumberInv
  OBVIOUS
<1>1. CommitsOf(wal) = {} /\ visible + Staged = 0
  BY DEF Init, CommitsOf, Staged
<1> QED
  BY <1>1 DEF NumberInv, Numbered, NewestKnown, TopIn

LEMMA NumberFrame ==
  ASSUME NumberInv, wal' = wal, mode' = mode, walPoisoned' = walPoisoned,
         (visible + Staged)' = visible + Staged
  PROVE  NumberInv'
<1>1. Numbered'
  BY Zenon DEF NumberInv, Numbered
<1>2. NewestKnown'
  BY Zenon DEF NumberInv, NewestKnown
<1> QED
  BY <1>1, <1>2, Zenon DEF NumberInv

LEMMA NumberDown ==
  ASSUME TypeInv, NumberInv, FewerCommits, mode' # "up" \/ walPoisoned'
  PROVE  NumberInv'
<1>1. Numbered'
  BY NumberedFewer, Zenon DEF NumberInv
<1> QED
  BY <1>1, Zenon DEF NumberInv, NewestKnown

(* The steps around a commit: nothing is staged before or after.           *)
Around ==
  \/ \E t \in Txn : PrepareBatch(t) \/ BeginSingleton(t) \/ RejectSingleton(t) \/ AdmitMember(t) \/ RejectMember(t)
  \/ BeginGroup \/ EndEmptyAdmission \/ SyncOtherRecord

LEMMA AroundFrame ==
  ASSUME TypeInv, Around
  PROVE  /\ wal' = wal /\ mode' = mode /\ walPoisoned' = walPoisoned /\ visible' = visible
         /\ Staged = 0 /\ Staged' = 0
<1>1. pc = "admit" => pos = 1
  BY DEF TypeInv, CohortOK
<1>2. ASSUME NEW t \in Txn, PrepareBatch(t) \/ RejectSingleton(t) \/ RejectMember(t)
      PROVE  /\ wal' = wal /\ mode' = mode /\ walPoisoned' = walPoisoned /\ visible' = visible
             /\ pc' = pc /\ pos' = pos /\ (pc = "idle" \/ pc = "admit")
  BY <1>2 DEF PrepareBatch, RejectSingleton, RejectMember, handle, files
<1>3. ASSUME NEW t \in Txn, BeginSingleton(t)
      PROVE  /\ wal' = wal /\ mode' = mode /\ walPoisoned' = walPoisoned /\ visible' = visible
             /\ pc' = "stage" /\ pos' = 1 /\ pc = "idle"
  BY <1>3 DEF BeginSingleton, files
<1>4. ASSUME NEW t \in Txn, AdmitMember(t)
      PROVE  /\ wal' = wal /\ mode' = mode /\ walPoisoned' = walPoisoned /\ visible' = visible
             /\ pc' = pc /\ pos' = pos /\ pc = "admit"
  BY <1>4 DEF AdmitMember, files
<1>5. ASSUME BeginGroup
      PROVE  /\ wal' = wal /\ mode' = mode /\ walPoisoned' = walPoisoned /\ visible' = visible
             /\ pc' = "admit" /\ pos' = 1 /\ pc = "idle"
  BY <1>5 DEF BeginGroup, files
<1>6. ASSUME EndEmptyAdmission
      PROVE  /\ wal' = wal /\ mode' = mode /\ walPoisoned' = walPoisoned /\ visible' = visible
             /\ pc' = "idle" /\ pc = "admit"
  BY <1>6 DEF EndEmptyAdmission, ReleaseWriter, files
<1>7. ASSUME SyncOtherRecord
      PROVE  /\ wal' = wal /\ mode' = mode /\ walPoisoned' = walPoisoned /\ visible' = visible
             /\ pc' = "idle" /\ pc = "idle"
  BY <1>7 DEF SyncOtherRecord, handle
<1>8. /\ wal' = wal /\ mode' = mode /\ walPoisoned' = walPoisoned /\ visible' = visible
      /\ pc = "idle" \/ pc = "admit"
      /\ pc' = "idle" \/ (pc' \in {"admit", "stage"} /\ pos' = 1)
  BY <1>1, <1>2, <1>3, <1>4, <1>5, <1>6, <1>7 DEF Around
<1> QED
  BY <1>1, <1>8 DEF Staged

LEMMA NumberAppendWal ==
  ASSUME ReceiptInv, NumberInv, AppendWal
  PROVE  NumberInv'
<1>1. TypeInv /\ visible \in Nat /\ pos \in Nat
  BY DEF ReceiptInv, TypeInv, TypeOK, HandleOK
<1>2. /\ mode = "up" /\ pc = "wal" /\ ~walPoisoned /\ wal' = wal \o TransactionRecords
      /\ mode' = mode /\ visible' = visible /\ walPoisoned' = walPoisoned
  BY DEF AppendWal, held
<1>3. OneCommitMore
  BY <1>1, <1>2, LogAppendTransaction
<1>4. Staged = pos - 1 /\ Staged' = pos
  BY <1>1, StagedAppendWal
<1>5. visible + Staged = visible + pos - 1
  BY <1>1, <1>4
<1>6. TopIn(wal, visible + pos - 1)
  BY <1>2, <1>5 DEF NumberInv, NewestKnown
<1>7. Numbered' /\ TopIn(wal', visible + pos)
  BY <1>1, <1>2, <1>3, <1>6, TopMore DEF NumberInv
<1> QED
  BY <1>2, <1>4, <1>7, Zenon DEF NumberInv, NewestKnown

LEMMA NumberSyncWal ==
  ASSUME ReceiptInv, NumberInv, SyncWal
  PROVE  NumberInv'
<1>1. /\ pc = "syncWal" /\ pc' = "publish" /\ wal' = wal /\ mode' = mode /\ cohort' = cohort
      /\ walPoisoned' = walPoisoned /\ visible' = visible
  BY DEF SyncWal, held
<1>2. Staged' = Staged
  BY <1>1 DEF Staged
<1> QED
  BY <1>1, <1>2, NumberFrame

LEMMA NumberPublishRoot ==
  ASSUME ReceiptInv, NumberInv, PublishRoot
  PROVE  NumberInv'
<1>1. /\ pc = "publish" /\ pc' = "idle" /\ wal' = wal /\ mode' = mode
      /\ walPoisoned' = walPoisoned /\ visible' = visible + Len(cohort)
  BY DEF PublishRoot, ReleaseWriter, files
<1>2. visible \in Nat /\ Len(cohort) \in Nat
  BY DEF ReceiptInv, TypeInv, TypeOK, HandleOK
<1>3. Staged = Len(cohort) /\ Staged' = 0
  BY <1>1 DEF Staged
<1> QED
  BY <1>1, <1>2, <1>3, NumberFrame

LEMMA NumberFailBeforeWal ==
  ASSUME ReceiptInv, NumberInv, FailBlocked \/ FailBlob \/ FailPages
  PROVE  NumberInv'
<1>1. TypeInv /\ CohortRuns
  BY DEF ReceiptInv
<1>2. wal' = wal
  BY Zenon DEF FailBlocked, FailBlob, FailPages, files
<1>3. PICK bad \in BOOLEAN : GiveUp("failed", bad, FALSE)
  BY Zenon DEF FailBlocked, FailBlob, FailPages
<1>4. CASE grouped
  <2>1. mode' # "up"
    BY <1>3, <1>4 DEF GiveUp, DropHandle
  <2>2. FewerCommits
    BY <1>2 DEF FewerCommits
  <2> QED
    BY <1>1, <2>1, <2>2, NumberDown, Zenon
<1>5. CASE ~grouped
  <2>1. mode' = mode /\ visible' = visible /\ walPoisoned' = walPoisoned /\ pc' = "idle"
    BY <1>3, <1>5, Zenon DEF GiveUp, ReleaseWriter
  <2>2. Staged = 0 /\ Staged' = 0
    BY <1>1, <1>5, <2>1, FailBeforeLog DEF Staged
  <2> QED
    BY <1>2, <2>1, <2>2, NumberFrame
<1> QED
  BY <1>4, <1>5

LEMMA NumberFailWal ==
  ASSUME ReceiptInv, NumberInv, FailWal
  PROVE  NumberInv'
<1>1. TypeInv /\ visible \in Nat /\ pos \in Nat
  BY DEF ReceiptInv, TypeInv, TypeOK, HandleOK
<1>2. mode = "up" /\ GiveUp("unknown", FALSE, TRUE)
  BY Zenon DEF FailWal, WalFailure
<1>3. mode' # "up" \/ walPoisoned'
  BY <1>2, Zenon DEF GiveUp, DropHandle
<1>4. CASE SameCommits
  <2>1. FewerCommits
    BY <1>4, SameIsFewer
  <2> QED
    BY <1>1, <1>3, <2>1, NumberDown, Zenon
<1>5. CASE pc = "wal" /\ ~walPoisoned /\ OneCommitMore
  <2>1. Staged = pos - 1
    BY <1>5 DEF Staged
  <2>2. TopIn(wal, visible + Staged) /\ Numbered
    BY <1>2, <1>5 DEF NumberInv, NewestKnown
  <2>3. visible + Staged = visible + pos - 1
    BY <1>1, <2>1
  <2>4. Numbered'
    BY <1>1, <1>5, <2>2, <2>3, TopMore
  <2> QED
    BY <1>3, <2>4, Zenon DEF NumberInv, NewestKnown
<1> QED
  BY <1>1, <1>4, <1>5, LogFailWal

(* Recovery takes the number of the last COMMIT, which is the newest.      *)
LEMMA RecoveredTop ==
  ASSUME TypeInv, Numbered
  PROVE  TopIn(wal, RecoveredCsn(wal))
<1>1. /\ Len(wal) \in Nat /\ CommitsOf(wal) \in SUBSET (1..Len(wal))
      /\ \A i \in CommitsOf(wal) : wal[i].csn \in Nat
  BY EntryTypes DEF CommitsOf
<1>2. CASE CommitsOf(wal) = {}
  BY <1>2 DEF RecoveredCsn, TopIn
<1>3. CASE CommitsOf(wal) # {}
  <2> DEFINE m == Max(CommitsOf(wal))
  <2>1. m \in CommitsOf(wal) /\ \A i \in CommitsOf(wal) : i <= m
    BY <1>1, <1>3, MaxOfPositions, Zenon
  <2>2. RecoveredCsn(wal) = wal[m].csn
    BY <1>3 DEF RecoveredCsn
  <2> HIDE DEF m
  <2>3. ASSUME NEW i \in CommitsOf(wal)
        PROVE  wal[i].csn <= wal[m].csn
    <3>1. i = m \/ i < m
      BY <1>1, <2>1
    <3> QED
      BY <1>1, <2>1, <3>1 DEF Numbered
  <2> QED
    BY <2>1, <2>2, <2>3, Zenon DEF TopIn
<1> QED
  BY <1>2, <1>3

LEMMA NumberOpen ==
  ASSUME ReceiptInv, NumberInv, Open
  PROVE  NumberInv'
<1>1. TypeInv /\ Numbered
  BY DEF ReceiptInv, NumberInv
<1>2. /\ CloseDangling /\ visible' = RecoveredCsn(wal) /\ pc' = pc /\ mode = "down"
  BY DEF Open
<1>3. SameCommits
  BY <1>1, <1>2, LogCloseDangling
<1>4. Numbered'
  BY <1>1, <1>3, SameIsFewer, NumberedFewer
<1>5. TopIn(wal', RecoveredCsn(wal))
  BY <1>1, <1>3, RecoveredTop, TopSame
<1>6. Staged' = 0 /\ RecoveredCsn(wal) \in Nat
  BY <1>1, <1>2, TypeOfRecovery DEF TypeInv, CohortOK, Staged
<1>7. (visible + Staged)' = RecoveredCsn(wal)
  BY <1>2, <1>6
<1> QED
  BY <1>4, <1>5, <1>7, Zenon DEF NumberInv, NewestKnown

LEMMA NumberNext == ReceiptInv /\ NumberInv /\ [Next]_vars => NumberInv'
<1> SUFFICES ASSUME ReceiptInv, NumberInv, [Next]_vars PROVE NumberInv'
  OBVIOUS
<1>1. TypeInv
  BY DEF ReceiptInv
<1>2. CASE Around
  <2>1. /\ wal' = wal /\ mode' = mode /\ walPoisoned' = walPoisoned /\ visible' = visible
        /\ Staged = 0 /\ Staged' = 0
    BY <1>1, <1>2, AroundFrame
  <2> QED
    BY <2>1, NumberFrame
<1>3. CASE QuietStep
  <2>1. UNCHANGED core /\ Staged' = Staged
    BY <1>1, <1>3, QuietStepsKeepCore
  <2>2. wal' = wal /\ mode' = mode /\ walPoisoned' = walPoisoned /\ visible' = visible
    BY <2>1 DEF core
  <2> QED
    BY <2>1, <2>2, NumberFrame
<1>4. CASE Kill \/ PowerLoss \/ OpenRefused
  <2>1. FewerCommits
    BY <1>1, <1>4, LogKill, LogPowerLoss, LogCloseDangling, SameIsFewer DEF OpenRefused
  <2>2. mode' # "up"
    BY <1>4 DEF Kill, PowerLoss, OpenRefused, DropHandle
  <2> QED
    BY <1>1, <2>1, <2>2, NumberDown, Zenon
<1> QED
  BY <1>2, <1>3, <1>4, NumberAppendWal, NumberSyncWal, NumberPublishRoot, NumberFailBeforeWal, NumberFailWal,
     NumberOpen, Zenon DEF Next, Around, QuietStep

-----------------------------------------------------------------------------
(* Every step of the commit path is a step of the store, or none.          *)
LEMMA StatusFacts ==
  /\ \A t \in Txn : StatusBar[t] = StatusOf(phase[t]) /\ StatusBar'[t] = StatusOf(phase'[t])
  /\ StatusOf("unused") = "unused" /\ StatusOf("acked") = "acked" /\ StatusOf("unknown") = "unknown"
  /\ StatusOf("prepared") = "open" /\ StatusOf("running") = "open"
  /\ StatusOf("rejected") = "refused" /\ StatusOf("failed") = "refused"
<1>1. \A t \in Txn : StatusBar[t] = StatusOf(phase[t]) /\ StatusBar'[t] = StatusOf(phase'[t])
  BY Zenon DEF StatusBar
<1> QED
  BY <1>1 DEF StatusOf

\* One batch changes its status.
LEMMA StatusLearn ==
  ASSUME phase \in [Txn -> Phase], NEW t \in Txn, NEW p, phase' = [phase EXCEPT ![t] = p]
  PROVE  /\ StatusBar'[t] = StatusOf(p) /\ \A u \in Txn \ {t} : StatusBar'[u] = StatusBar[u]
         /\ Store!Learn({t}, StatusOf(p))
<1>1. phase'[t] = p /\ \A u \in Txn \ {t} : phase'[u] = phase[u]
  OBVIOUS
<1>2. StatusBar'[t] = StatusOf(p) /\ \A u \in Txn \ {t} : StatusBar'[u] = StatusBar[u]
  BY <1>1, StatusFacts, Zenon
<1> QED
  BY <1>2 DEF Store!Learn

LEMMA StatusSame ==
  ASSUME \A t \in Txn : StatusOf(phase'[t]) = StatusOf(phase[t])
  PROVE  StatusBar' = StatusBar
  BY Zenon DEF StatusBar

\* A running or prepared batch: what the client sees is the same.
LEMMA StatusRuns ==
  ASSUME phase \in [Txn -> Phase], NEW t \in Txn, phase[t] = "prepared",
         phase' = [phase EXCEPT ![t] = "running"]
  PROVE  StatusBar' = StatusBar
<1>1. phase'[t] = "running" /\ \A u \in Txn \ {t} : phase'[u] = phase[u]
  OBVIOUS
<1> QED
  BY <1>1, StatusFacts, StatusSame

LEMMA ShownOpen ==
  ASSUME TypeInv, mode = "up"
  PROVE  ShownBar = visible /\ ShownBar # Store!Closed
<1>1. ShownBar = visible /\ visible \in Nat
  BY DEF TypeInv, TypeOK, HandleOK, ShownBar
<1> QED
  BY <1>1 DEF Store!Closed

LEMMA ShownSame ==
  ASSUME mode' = mode, visible' = visible
  PROVE  ShownBar' = ShownBar
  BY Zenon DEF ShownBar

LEMMA StorePrepare ==
  ASSUME ReceiptInv, NEW t \in Txn, PrepareBatch(t)
  PROVE  Store!Prepare(t)
<1>1. TypeInv /\ phase \in [Txn -> Phase] /\ plan \in [Txn -> Plan]
  BY ReceiptFacts
<1>2. /\ mode = "up" /\ phase[t] = "unused" /\ phase' = [phase EXCEPT ![t] = "prepared"]
      /\ mode' = mode /\ visible' = visible /\ wal' = wal /\ walSynced' = walSynced /\ ackCsn' = ackCsn
  BY DEF PrepareBatch, handle, files
<1>3. plan'[t].read = visible /\ \A u \in Txn \ {t} : plan'[u] = plan[u]
  BY <1>1 DEF PrepareBatch
<1>4. StatusBar[t] = "unused" /\ Store!Learn({t}, "open")
  <2>1. Store!Learn({t}, StatusOf("prepared"))
    BY <1>1, <1>2, StatusLearn, Zenon
  <2> QED
    BY <1>2, <2>1, StatusFacts
<1>5. StablePrefix /\ SameCommits
  BY <1>1, <1>2, WalUnchanged
<1>6. CommittedBar' = CommittedBar /\ StableBar' = StableBar
  BY <1>2, <1>5, BarSame, StableSame
<1>7. ShownBar = visible /\ ShownBar # Store!Closed /\ ShownBar' = ShownBar
  BY <1>1, <1>2, ShownOpen, ShownSame
<1> QED
  BY <1>2, <1>3, <1>4, <1>6, <1>7, Zenon DEF Store!Prepare

LEMMA StoreRefuse ==
  ASSUME ReceiptInv, NEW t \in Txn, RejectSingleton(t) \/ RejectMember(t)
  PROVE  Store!Refuse(t)
<1>1. TypeInv /\ phase \in [Txn -> Phase] /\ Unlogged
  BY ReceiptFacts
<1>2. /\ phase[t] = "prepared" /\ phase' = [phase EXCEPT ![t] = "rejected"] /\ plan' = plan
      /\ mode' = mode /\ visible' = visible /\ wal' = wal /\ walSynced' = walSynced /\ ackCsn' = ackCsn
  BY DEF RejectSingleton, RejectMember, handle, files
<1>3. StatusBar[t] = "open" /\ Store!Learn({t}, "refused")
  <2>1. Store!Learn({t}, StatusOf("rejected"))
    BY <1>1, <1>2, StatusLearn, Zenon
  <2> QED
    BY <1>2, <2>1, StatusFacts
<1>4. ~Store!Holds(t)
  BY <1>1, <1>2, BarHolds DEF Unlogged
<1>5. StablePrefix /\ SameCommits
  BY <1>1, <1>2, WalUnchanged
<1>6. CommittedBar' = CommittedBar /\ StableBar' = StableBar /\ ShownBar' = ShownBar
  BY <1>2, <1>5, BarSame, StableSame, ShownSame
<1> QED
  BY <1>2, <1>3, <1>4, <1>6, Zenon DEF Store!Refuse

(* The steps that the store does not see.                                  *)
LEMMA StoreStutter ==
  ASSUME TypeInv, UNCHANGED <<wal, walSynced, mode, visible, plan, ackCsn>>, StatusBar' = StatusBar
  PROVE  UNCHANGED Store!vars
<1>1. StablePrefix /\ SameCommits
  BY WalUnchanged
<1>2. CommittedBar' = CommittedBar /\ StableBar' = StableBar /\ ShownBar' = ShownBar
  BY <1>1, BarSame, StableSame, ShownSame
<1> QED
  BY <1>2, Zenon DEF Store!vars

LEMMA StoreUnseen ==
  ASSUME ReceiptInv,
         \/ \E t \in Txn : BeginSingleton(t) \/ AdmitMember(t)
         \/ BeginGroup \/ EndEmptyAdmission \/ QuietStep
  PROVE  UNCHANGED Store!vars
<1>1. TypeInv /\ phase \in [Txn -> Phase]
  BY ReceiptFacts
<1>2. ASSUME NEW t \in Txn, BeginSingleton(t) \/ AdmitMember(t)
      PROVE  UNCHANGED <<wal, walSynced, mode, visible, plan, ackCsn>> /\ StatusBar' = StatusBar
  <2>1. /\ UNCHANGED <<wal, walSynced, mode, visible, plan, ackCsn>>
        /\ phase[t] = "prepared" /\ phase' = [phase EXCEPT ![t] = "running"]
    BY SMT, SMTT(30), <1>2 DEF BeginSingleton, AdmitMember, files
  <2> QED
    BY <1>1, <2>1, StatusRuns, Zenon
<1>3. ASSUME BeginGroup \/ EndEmptyAdmission
      PROVE  UNCHANGED <<wal, walSynced, mode, visible, plan, ackCsn>> /\ phase' = phase
  BY <1>3 DEF BeginGroup, EndEmptyAdmission, files, clients
<1>4. ASSUME QuietStep
      PROVE  UNCHANGED <<wal, walSynced, mode, visible, plan, ackCsn>> /\ phase' = phase
  BY <1>1, <1>4, QuietStepsKeepCore DEF core
<1>5. phase' = phase => StatusBar' = StatusBar
  BY Zenon DEF StatusBar
<1> QED
  BY <1>1, <1>2, <1>3, <1>4, <1>5, StoreStutter, Zenon

LEMMA StoreHarden ==
  ASSUME ReceiptInv, SyncWal \/ SyncOtherRecord
  PROVE  Store!Harden
<1>1. TypeInv /\ Len(wal) \in Nat
  BY ReceiptFacts, EntryTypes
<1>2. UNCHANGED <<wal, mode, visible, phase, plan, ackCsn>> /\ walSynced' = Len(wal)
  BY DEF SyncWal, SyncOtherRecord, held, handle, clients
<1>3. CommittedBar' = CommittedBar /\ StableBar' = CommittedBar
  BY <1>2, StableAll, Zenon DEF CommittedBar, CommitsIn
<1>4. ShownBar' = ShownBar /\ StatusBar' = StatusBar
  BY <1>2, Zenon DEF ShownBar, StatusBar
<1> QED
  BY <1>2, <1>3, <1>4, Zenon DEF Store!Harden

\* The member whose records are appended may commit, and takes the next number.
LEMMA MemberCommits ==
  ASSUME ReceiptInv, ConflictInv, NumberInv, mode = "up", pc = "wal", ~walPoisoned, OneCommitMore
  PROVE  Current \in Txn /\ phase[Current] = "running" /\ Store!Commits(Current)
<1>1. /\ TypeInv /\ Unlogged /\ CohortRuns /\ PendingClear
      /\ visible \in Nat /\ pos \in 1..Len(cohort) /\ Len(cohort) \in Nat /\ Current = cohort[pos]
      /\ Current \in Txn
  <2>1. TypeInv /\ Unlogged /\ CohortRuns /\ PendingClear
    BY DEF ReceiptInv, ConflictInv
  <2>2. visible \in Nat /\ Len(cohort) \in Nat
    BY <2>1 DEF TypeInv, TypeOK, HandleOK
  <2>3. pos \in 1..Len(cohort)
    BY <2>1 DEF TypeInv, CohortOK
  <2>4. Current \in Txn
    BY <2>1, TypeOfRecords
  <2> QED
    BY <2>1, <2>2, <2>3, <2>4 DEF Current
<1>2. Staged = pos - 1
  BY DEF Staged
<1>3. pos \in Staged + 1 .. Len(cohort)
  BY <1>1, <1>2
<1>4. phase[Current] = "running"
  BY <1>1 DEF CohortRuns
<1>5. StatusBar[Current] = "open"
  BY <1>1, <1>4, StatusFacts
<1>6. ~Store!Holds(Current)
  <2>1. ~Committed(cohort[pos])
    BY <1>1, <1>3, Zenon DEF Unlogged
  <2> QED
    BY <1>1, <2>1, BarHolds
<1>7. \A i \in CommitsOf(wal) : \A k \in plan[Current].keys :
        k \in plan[wal[i].txn].keys => wal[i].csn <= plan[Current].read
  BY <1>1, <1>3, Zenon DEF PendingClear
<1>8. ASSUME NEW e \in CommittedBar, plan[e.txn].keys \cap plan[Current].keys # {}
      PROVE  e.csn <= plan[Current].read
  <2>1. PICK i \in CommitsOf(wal) : e = CommitOf(wal[i])
    BY CommitsBarFacts, Zenon
  <2>2. e.txn = wal[i].txn /\ e.csn = wal[i].csn
    BY <2>1 DEF CommitOf
  <2>3. PICK k \in plan[Current].keys : k \in plan[wal[i].txn].keys
    BY <1>8, <2>2
  <2> QED
    BY <1>7, <2>2, <2>3, Zenon
<1>9. Store!IsTop(CommittedBar, visible + pos - 1)
  <2>1. TopIn(wal, visible + Staged)
    BY DEF NumberInv, NewestKnown
  <2>2. visible + Staged = visible + pos - 1
    BY <1>1, <1>2
  <2> QED
    BY <2>1, <2>2, BarTop
<1>10. CommittedBar' = CommittedBar \cup {[txn |-> Current, csn |-> (visible + pos - 1) + 1]}
  <2>1. (visible + pos - 1) + 1 = visible + pos
    BY <1>1
  <2> QED
    BY <2>1, BarMore
<1>11. visible + pos - 1 \in Store!Csns(CommittedBar)
  BY <1>9, Zenon DEF Store!IsTop
<1>12. \E c \in Store!Csns(CommittedBar) :
         Store!IsTop(CommittedBar, c) /\ CommittedBar' = CommittedBar \cup {[txn |-> Current, csn |-> c + 1]}
  BY <1>9, <1>10, <1>11, Zenon
<1> QED
  BY <1>1, <1>4, <1>5, <1>6, <1>8, <1>12, Zenon DEF Store!Commits

LEMMA StoreCommit ==
  ASSUME ReceiptInv, ConflictInv, NumberInv, AppendWal
  PROVE  Current \in Txn /\ Store!Commit(Current)
<1>1. TypeInv
  BY DEF ReceiptInv
<1>2. /\ mode = "up" /\ pc = "wal" /\ ~walPoisoned /\ wal' = wal \o TransactionRecords
      /\ UNCHANGED <<mode, visible, walSynced, phase, plan, ackCsn>>
  BY DEF AppendWal, held, clients
<1>3. OneCommitMore /\ \A i \in 1..Len(wal) : wal'[i] = wal[i]
  BY <1>1, <1>2, LogAppendTransaction
<1>4. Current \in Txn /\ Store!Commits(Current)
  BY <1>2, <1>3, MemberCommits
<1>5. StableBar' = StableBar
  <2>1. walSynced \in 0..Len(wal) /\ Len(wal) \in Nat
    BY <1>1 DEF TypeInv, TypeOK, FilesOK
  <2>2. \A i \in 1..walSynced : wal'[i] = wal[i]
    BY <1>3, <2>1
  <2> QED
    BY <1>2, <2>2, Zenon DEF StableBar, CommitsIn
<1>6. ShownBar' = ShownBar /\ StatusBar' = StatusBar
  BY <1>2, Zenon DEF ShownBar, StatusBar
<1> QED
  BY <1>2, <1>4, <1>5, <1>6, Zenon DEF Store!Commit

(* The receipts of a cohort are acknowledgements of commits the store      *)
(* holds, and from then on it shows the newest one.                        *)
LEMMA CommittedAtBar ==
  ASSUME NEW t, NEW c, NEW n, CommittedAt(t, c, n)
  PROVE  \E e \in CommitsIn(n) : e.txn = t /\ e.csn = c
<1>1. PICK i \in 1..n : wal[i].kind = "commit" /\ wal[i].txn = t /\ wal[i].csn = c
  BY DEF CommittedAt
<1>2. CommitOf(wal[i]) \in CommitsIn(n)
  BY <1>1, Zenon DEF CommitsIn
<1>3. CommitOf(wal[i]).txn = t /\ CommitOf(wal[i]).csn = c
  BY SMT, SMTT(30), <1>1 DEF CommitOf
<1> QED
  BY <1>2, <1>3, Zenon

LEMMA StablePart ==
  ASSUME TypeInv
  PROVE  CommitsIn(walSynced) \subseteq CommittedBar
<1>1. 1..walSynced \subseteq 1..Len(wal)
  BY DEF TypeInv, TypeOK, FilesOK
<1> QED
  BY <1>1, Zenon DEF CommitsIn, CommittedBar

LEMMA StoreAcknowledge ==
  ASSUME ReceiptInv, NumberInv, PublishRoot
  PROVE  Store!Acknowledge({t \in Txn : InCohort(t)})
<1> DEFINE T == {t \in Txn : InCohort(t)}
<1>1. /\ TypeInv /\ CohortRuns /\ Logged /\ LoggedStable
      /\ visible \in Nat /\ Len(cohort) \in Nat
  BY DEF ReceiptInv, TypeInv, TypeOK, HandleOK
<1>2. /\ mode = "up" /\ pc = "publish" /\ mode' = mode /\ visible' = visible + Len(cohort)
      /\ UNCHANGED <<wal, walSynced, plan>>
      /\ phase' = [t \in Txn |-> IF InCohort(t) THEN "acked" ELSE phase[t]]
      /\ ackCsn' = [t \in Txn |-> IF InCohort(t) THEN visible + PositionOf(t) ELSE ackCsn[t]]
  BY DEF PublishRoot, files
<1>3. Staged = Len(cohort)
  BY <1>2 DEF Staged
<1>4. CommittedBar' = CommittedBar /\ StableBar' = StableBar
  BY <1>2, Zenon DEF CommittedBar, StableBar, CommitsIn
<1>5. ShownBar = visible /\ ShownBar # Store!Closed /\ ShownBar' = visible + Len(cohort)
  <2>1. ShownBar' = visible'
    BY <1>2, Zenon DEF ShownBar
  <2> QED
    BY <1>1, <1>2, <2>1, ShownOpen
<1>6. Len(cohort) > 0
  BY SMT, SMTT(30), <1>1, <1>2 DEF TypeInv, CohortOK
<1>7. Store!IsTop(CommittedBar, ShownBar')
  <2>1. ~walPoisoned
    BY <1>1, <1>3, <1>6 DEF CohortRuns
  <2>2. TopIn(wal, visible + Len(cohort))
    BY <1>2, <1>3, <2>1 DEF NumberInv, NewestKnown
  <2> QED
    BY <1>5, <2>2, BarTop
<1>8. Store!Learn(T, "acked")
  <2>1. \A t \in Txn : phase'[t] = IF t \in T THEN "acked" ELSE phase[t]
    BY <1>2
  <2>2. \A t \in Txn : StatusBar'[t] = IF t \in T THEN "acked" ELSE StatusBar[t]
    BY SMT, SMTT(30), <2>1, StatusFacts
  <2> QED
    BY <2>2 DEF Store!Learn
<1>9. ASSUME NEW t \in T
      PROVE  /\ StatusBar[t] = "open"
             /\ \E e \in CommittedBar : /\ e.txn = t /\ e.csn = ackCsn'[t] /\ e.csn > ShownBar
                                        /\ plan[t].class # "Memory" => e \in StableBar
  <2>1. PositionOf(t) \in 1..Len(cohort) /\ cohort[PositionOf(t)] = t /\ t \in Txn
    BY PositionInCohort
  <2> DEFINE i == PositionOf(t)
  <2>2. ackCsn'[t] = visible + i /\ visible + i > visible
    BY SMT, SMTT(30), <1>1, <1>2, <2>1
  <2>3. StatusBar[t] = "open"
    BY <1>1, <2>1, StatusFacts DEF CohortRuns
  <2>4. PICK d \in CommittedBar : d.txn = t /\ d.csn = visible + i
    <3>1. CommittedAt(t, visible + i, Len(wal))
      BY <1>1, <1>3, <2>1 DEF Logged
    <3> QED
      BY <3>1, CommittedAtBar DEF CommittedBar
  <2>5. ASSUME plan[t].class # "Memory"
        PROVE  \E e \in StableBar : e.txn = t /\ e.csn = visible + i
    <3>1. grouped \/ cohort[1] = t
      <4>1. ~grouped => Len(cohort) = 1
        BY SMT, SMTT(30), <1>1, <1>2 DEF TypeInv, CohortOK
      <4> QED
        BY <2>1, <4>1
    <3>2. Synchronize
      BY <2>5, <3>1 DEF Synchronize
    <3>3. CommittedAt(t, visible + i, walSynced)
      BY SMT, SMTT(30), <1>1, <1>2, <2>1, <3>2 DEF LoggedStable
    <3> QED
      BY <3>3, CommittedAtBar DEF StableBar
  <2>6. StableBar \subseteq CommittedBar
    BY <1>1, StablePart DEF StableBar
  <2> HIDE DEF i
  <2>7. \E e \in CommittedBar : e.txn = t /\ e.csn = visible + i /\ (plan[t].class # "Memory" => e \in StableBar)
    BY <2>4, <2>5, <2>6, Zenon
  <2> QED
    BY <1>5, <2>2, <2>3, <2>7
<1>10. \A t \in Txn \ T : ackCsn'[t] = ackCsn[t]
  BY <1>2
<1> HIDE DEF T
<1>11. Store!Acknowledge(T)
  BY <1>2, <1>4, <1>5, <1>7, <1>8, <1>9, <1>10, Zenon DEF Store!Acknowledge
<1> QED
  BY <1>11 DEF T

-----------------------------------------------------------------------------
(* Errors and crashes.  A dropped handle closes the store: running batches *)
(* are left in doubt, prepared ones are not in the log.                    *)
Closing ==
  /\ ShownBar' = Store!Closed
  /\ \A t \in Txn : IF StatusBar[t] = "open"
                    THEN StatusBar'[t] = "unknown" \/ (StatusBar'[t] = "refused" /\ ~Store!Holds(t))
                    ELSE StatusBar'[t] = StatusBar[t]
  /\ UNCHANGED <<plan, ackCsn>>

LEMMA DropCloses ==
  ASSUME ReceiptInv, DropHandle
  PROVE  Closing /\ \A t \in Txn : phase[t] = "running" => StatusBar'[t] = "unknown"
<1>1. phase \in [Txn -> Phase] /\ Unlogged
  BY ReceiptFacts
<1>2. /\ mode' = "down" /\ UNCHANGED <<plan, ackCsn>>
      /\ phase' = [t \in Txn |-> CASE phase[t] = "running" -> "unknown"
                                   [] phase[t] = "prepared" -> "failed"
                                   [] OTHER -> phase[t]]
  BY DEF DropHandle
<1>3. ShownBar' = Store!Closed
  BY <1>2 DEF ShownBar, Store!Closed
<1>4. ASSUME NEW t \in Txn
      PROVE  /\ phase[t] = "running" => StatusBar'[t] = "unknown"
             /\ IF StatusBar[t] = "open"
                THEN StatusBar'[t] = "unknown" \/ (StatusBar'[t] = "refused" /\ ~Store!Holds(t))
                ELSE StatusBar'[t] = StatusBar[t]
  <2>1. CASE phase[t] = "running"
    <3>1. phase'[t] = "unknown"
      BY <1>2, <2>1
    <3> QED
      BY SMT, SMTT(30), <2>1, <3>1, StatusFacts
  <2>2. CASE phase[t] = "prepared"
    <3>1. phase'[t] = "failed"
      BY <1>2, <2>2
    <3>2. ~Store!Holds(t)
      BY <1>1, <2>2, BarHolds DEF Unlogged
    <3> QED
      BY SMT, SMTT(30), <2>2, <3>1, <3>2, StatusFacts
  <2>3. CASE phase[t] \notin {"running", "prepared"}
    <3>1. phase'[t] = phase[t]
      BY <1>2, <2>3
    <3>2. StatusBar[t] # "open"
      BY <1>1, <2>3, StatusFacts DEF StatusOf, Phase
    <3> QED
      BY <2>3, <3>1, <3>2, StatusFacts, Zenon
  <2> QED
    BY SMT, SMTT(30), <2>1, <2>2, <2>3
<1> QED
  BY <1>2, <1>3, <1>4, Zenon DEF Closing

LEMMA ClosingKeeps ==
  ASSUME Closing, CommittedBar' = CommittedBar, StableBar' = StableBar
  PROVE  Store!Close
  BY Zenon DEF Closing, Store!Close

LEMMA StoreFailBeforeWal ==
  ASSUME ReceiptInv, FailBlocked \/ FailBlob \/ FailPages
  PROVE  Store!Close \/ (Current \in Txn /\ Store!Refuse(Current))
<1>1. TypeInv /\ phase \in [Txn -> Phase] /\ Unlogged /\ CohortRuns
  BY ReceiptFacts
<1>2. wal' = wal /\ walSynced' = walSynced
  BY Zenon DEF FailBlocked, FailBlob, FailPages, files
<1>3. PICK bad \in BOOLEAN : GiveUp("failed", bad, FALSE)
  BY Zenon DEF FailBlocked, FailBlob, FailPages
<1>4. CommittedBar' = CommittedBar /\ StableBar' = StableBar
  BY <1>1, <1>2, WalUnchanged, BarSame, StableSame
<1>5. CASE grouped
  <2>1. DropHandle
    BY <1>3, <1>5 DEF GiveUp
  <2> QED
    BY <1>4, <2>1, DropCloses, ClosingKeeps
<1>6. CASE ~grouped
  <2>1. pc \notin {"idle", "admit"}
    BY Zenon DEF FailBlocked, FailBlob, FailPages
  <2>2. /\ mode' = mode /\ visible' = visible /\ phase' = [phase EXCEPT ![Current] = "failed"]
        /\ plan' = plan /\ ackCsn' = ackCsn
    BY <1>3, <1>6, Zenon DEF GiveUp
  <2>3. Current \in Txn /\ pos \in 1..Len(cohort) /\ Current = cohort[pos] /\ Staged = 0
    BY <1>1, <1>6, <2>1, TypeOfRecords, FailBeforeLog DEF Current, TypeInv, CohortOK
  <2>4. StatusBar[Current] = "open"
    BY SMT, SMTT(30), <1>1, <2>3, StatusFacts DEF CohortRuns
  <2>5. ~Store!Holds(Current)
    <3>1. pos \in Staged + 1 .. Len(cohort)
      BY <2>3
    <3>2. ~Committed(cohort[pos])
      BY <1>1, <3>1, Zenon DEF Unlogged
    <3> QED
      BY <2>3, <3>2, BarHolds
  <2>6. Store!Learn({Current}, "refused")
    <3>1. Store!Learn({Current}, StatusOf("failed"))
      BY <1>1, <2>2, <2>3, StatusLearn, Zenon
    <3> QED
      BY <3>1, StatusFacts
  <2>7. ShownBar' = ShownBar
    BY <2>2, ShownSame
  <2> QED
    BY <1>4, <2>2, <2>3, <2>4, <2>5, <2>6, <2>7, Zenon DEF Store!Refuse
<1> QED
  BY <1>5, <1>6

LEMMA StoreFailWal ==
  ASSUME ReceiptInv, ConflictInv, NumberInv, FailWal
  PROVE  Store!Close \/ (Current \in Txn /\ Store!LoseReply(Current))
<1>1. TypeInv /\ phase \in [Txn -> Phase] /\ CohortRuns
  BY ReceiptFacts
<1>2. mode = "up" /\ pc \in {"wal", "syncWal"} /\ walSynced' = walSynced /\ GiveUp("unknown", FALSE, TRUE)
  BY Zenon DEF FailWal, WalFailure
<1>3. StablePrefix /\ (SameCommits \/ (pc = "wal" /\ ~walPoisoned /\ OneCommitMore))
  BY <1>1, LogFailWal
<1>4. StableBar' = StableBar
  BY <1>2, <1>3, StableSame
<1>5. CommittedBar' = CommittedBar \/ Store!Commits(Current)
  BY <1>2, <1>3, BarSame, MemberCommits
<1>6. Current \in Txn /\ phase[Current] = "running"
  <2>1. Current \in Txn /\ pos \in 1..Len(cohort) /\ Current = cohort[pos]
    BY SMT, SMTT(30), <1>1, <1>2, TypeOfRecords DEF Current, TypeInv, CohortOK
  <2> QED
    BY <1>1, <2>1 DEF CohortRuns
<1>7. CASE grouped
  <2>1. Closing /\ StatusBar'[Current] = "unknown"
    BY <1>2, <1>6, <1>7, DropCloses DEF GiveUp
  <2> QED
    BY <1>4, <1>5, <1>6, <2>1, Zenon DEF Closing, Store!Close
<1>8. CASE ~grouped
  <2>1. /\ mode' = mode /\ visible' = visible /\ phase' = [phase EXCEPT ![Current] = "unknown"]
        /\ plan' = plan /\ ackCsn' = ackCsn
    BY <1>2, <1>8, Zenon DEF GiveUp
  <2>2. StatusBar[Current] = "open" /\ Store!Learn({Current}, "unknown")
    <3>1. Store!Learn({Current}, StatusOf("unknown"))
      BY <1>1, <1>6, <2>1, StatusLearn, Zenon
    <3> QED
      BY SMT, SMTT(30), <1>6, <3>1, StatusFacts
  <2>3. ShownBar' = ShownBar
    BY <2>1, ShownSame
  <2> QED
    BY <1>4, <1>5, <1>6, <2>1, <2>2, <2>3, Zenon DEF Store!LoseReply
<1> QED
  BY <1>7, <1>8

LEMMA StoreKill ==
  ASSUME ReceiptInv, Kill
  PROVE  Store!Close
<1>1. TypeInv /\ DropHandle /\ walSynced' = walSynced
  BY ReceiptFacts DEF Kill
<1>2. StablePrefix /\ SameCommits
  BY <1>1, LogKill
<1> QED
  BY <1>1, <1>2, BarSame, StableSame, DropCloses, ClosingKeeps

(* A power loss keeps a prefix of the log that contains the synchronized   *)
(* one: the oldest commits, every stable one among them.                   *)
LEMMA StorePowerLoss ==
  ASSUME ReceiptInv, NumberInv, PowerLoss
  PROVE  Store!Close
<1>1. TypeInv /\ DropHandle /\ Numbered
  BY ReceiptFacts DEF PowerLoss, NumberInv
<1>2. wal \in Seq(Entry) /\ Len(wal) \in Nat /\ walSynced \in 0..Len(wal)
  BY <1>1 DEF TypeInv, TypeOK, FilesOK
<1>3. PICK n \in walSynced..Len(wal) : wal' = SubSeq(wal, 1, n) /\ walSynced' = n
  BY <1>2 DEF PowerLoss, Survive
<1>4. n \in 0..Len(wal)
  BY <1>2
<1>5. FewerCommits /\ Len(wal') = n /\ \A i \in 1..n : wal'[i] = wal[i]
  BY <1>2, <1>3, <1>4, LogPrefix
<1>6. StableBar' = CommittedBar'
  BY <1>3, <1>5, StableAll
<1>7. CommittedBar' = CommitsIn(n)
  BY <1>5, Zenon DEF CommittedBar, CommitsIn
<1>8. StableBar \subseteq CommittedBar'
  <2>1. 1..walSynced \subseteq 1..n
    BY <1>2, <1>3
  <2> QED
    BY <1>7, <2>1, Zenon DEF StableBar, CommitsIn
<1>9. CommittedBar' \subseteq CommittedBar
  <2>1. 1..n \subseteq 1..Len(wal)
    BY <1>2, <1>3
  <2> QED
    BY <1>7, <2>1, Zenon DEF CommittedBar, CommitsIn
<1>10. ASSUME NEW e \in CommittedBar', NEW d \in CommittedBar, d.csn < e.csn
       PROVE  d \in CommittedBar'
  <2>1. PICK i \in 1..n : wal[i].kind = "commit" /\ e = CommitOf(wal[i])
    BY <1>7, Zenon DEF CommitsIn
  <2>2. PICK j \in CommitsOf(wal) : d = CommitOf(wal[j])
    BY CommitsBarFacts, Zenon
  <2>3. /\ e.csn = wal[i].csn /\ d.csn = wal[j].csn /\ i \in CommitsOf(wal)
        /\ wal[j].kind = "commit" /\ j \in 1..Len(wal)
    BY SMT, SMTT(30), <1>2, <1>3, <2>1, <2>2 DEF CommitOf, CommitsOf
  <2>4. wal[i].csn \in Nat /\ wal[j].csn \in Nat
    BY SMT, SMTT(30), <1>1, <2>2, <2>3, EntryTypes
  <2>5. ~(i < j)
    <3>1. i < j => wal[i].csn < wal[j].csn
      BY <1>1, <2>2, <2>3, Zenon DEF Numbered
    <3>2. wal[j].csn < wal[i].csn
      BY <1>10, <2>3
    <3> QED
      BY SMT, SMTT(30), <2>4, <3>1, <3>2
  <2>6. j \in 1..n
    BY SMT, SMTT(30), <1>2, <1>4, <2>1, <2>3, <2>5
  <2> QED
    BY <1>7, <2>2, <2>3, <2>6, Zenon DEF CommitsIn
<1>11. Store!Oldest(CommittedBar', CommittedBar)
  BY <1>9, <1>10, Zenon DEF Store!Oldest
<1>12. Closing
  BY <1>1, DropCloses
<1> QED
  BY <1>6, <1>8, <1>11, <1>12, Zenon DEF Closing, Store!Close

(* Recovery keeps the commits and may synchronize them with its ABORT.     *)
LEMMA DanglingBar ==
  ASSUME TypeInv, CloseDangling
  PROVE  CommittedBar' = CommittedBar /\ StableBar' \in {StableBar, CommittedBar}
<1>1. StablePrefix /\ SameCommits /\ Len(wal) \in Nat /\ wal \in Seq(Entry)
  BY SMT, SMTT(30), LogCloseDangling DEF TypeInv, TypeOK, FilesOK
<1>2. CommittedBar' = CommittedBar
  BY <1>1, BarSame
<1>3. walSynced' = walSynced \/ walSynced' = Len(wal')
  BY <1>1 DEF CloseDangling
<1> QED
  BY <1>1, <1>2, <1>3, StableSame, StableAll

LEMMA StoreOpen ==
  ASSUME ReceiptInv, NumberInv, Open
  PROVE  Store!Reopen
<1>1. TypeInv /\ Numbered
  BY ReceiptFacts DEF NumberInv
<1>2. /\ CloseDangling /\ visible' = RecoveredCsn(wal) /\ mode = "down" /\ mode' = "up"
      /\ UNCHANGED <<phase, plan, ackCsn>>
  BY DEF Open, clients
<1>3. CommittedBar' = CommittedBar /\ StableBar' \in {StableBar, CommittedBar}
  BY <1>1, <1>2, DanglingBar
<1>4. ShownBar = Store!Closed /\ ShownBar' = RecoveredCsn(wal)
  BY <1>2 DEF ShownBar, Store!Closed
<1>5. Store!IsTop(CommittedBar, ShownBar')
  BY <1>1, <1>4, RecoveredTop, BarTop
<1>6. StatusBar' = StatusBar
  BY <1>2, Zenon DEF StatusBar
<1> QED
  BY <1>2, <1>3, <1>4, <1>5, <1>6, Zenon DEF Store!Reopen

LEMMA StoreOpenRefused ==
  ASSUME ReceiptInv, OpenRefused
  PROVE  Store!Harden \/ UNCHANGED Store!vars
<1>1. TypeInv
  BY ReceiptFacts
<1>2. CloseDangling /\ mode = "down" /\ mode' = "refused" /\ UNCHANGED <<phase, plan, ackCsn>>
  BY DEF OpenRefused, clients
<1>3. CommittedBar' = CommittedBar /\ StableBar' \in {StableBar, CommittedBar}
  BY <1>1, <1>2, DanglingBar
<1>4. ShownBar' = ShownBar
  BY <1>2 DEF ShownBar
<1>5. StatusBar' = StatusBar
  BY <1>2, Zenon DEF StatusBar
<1> QED
  BY <1>2, <1>3, <1>4, <1>5, Zenon DEF Store!Harden, Store!vars

-----------------------------------------------------------------------------
(* The initial states and the steps together.                              *)
LEMMA StoreInit == Init => Store!Init
<1> SUFFICES ASSUME Init PROVE Store!Init
  OBVIOUS
<1>1. wal = <<>> /\ walSynced = 0 /\ mode = "up" /\ visible = 0 /\ phase = [t \in Txn |-> "unused"]
  BY SMT, SMTT(30) DEF Init
<1>2. CommittedBar = {} /\ StableBar = {} /\ ShownBar = 0
  BY <1>1 DEF CommittedBar, StableBar, CommitsIn, ShownBar
<1>3. \A t \in Txn : StatusBar[t] = "unused"
  BY SMT, SMTT(30), <1>1, StatusFacts
<1> QED
  BY <1>2, <1>3, Zenon DEF Store!Init

LEMMA StoreNext ==
  ReceiptInv /\ ConflictInv /\ NumberInv /\ [Next]_vars => [Store!Next]_(Store!vars)
<1> SUFFICES ASSUME ReceiptInv, ConflictInv, NumberInv, [Next]_vars PROVE [Store!Next]_(Store!vars)
  OBVIOUS
<1>1. CASE \E t \in Txn : PrepareBatch(t)
  BY <1>1, StorePrepare, Zenon DEF Store!Next
<1>2. CASE \E t \in Txn : RejectSingleton(t) \/ RejectMember(t)
  BY <1>2, StoreRefuse, Zenon DEF Store!Next
<1>3. CASE \/ \E t \in Txn : BeginSingleton(t) \/ AdmitMember(t)
           \/ BeginGroup \/ EndEmptyAdmission \/ QuietStep
  BY <1>3, StoreUnseen, Zenon
<1>4. CASE SyncWal \/ SyncOtherRecord
  BY <1>4, StoreHarden, Zenon DEF Store!Next
<1>5. CASE AppendWal
  BY <1>5, StoreCommit, Zenon DEF Store!Next
<1>6. CASE PublishRoot
  <2>1. {t \in Txn : InCohort(t)} \in SUBSET Txn
    OBVIOUS
  <2> QED
    BY <1>6, <2>1, StoreAcknowledge, Zenon DEF Store!Next
<1>7. CASE FailBlocked \/ FailBlob \/ FailPages
  BY <1>7, StoreFailBeforeWal, Zenon DEF Store!Next
<1>8. CASE FailWal
  BY <1>8, StoreFailWal, Zenon DEF Store!Next
<1>9. CASE Kill \/ PowerLoss
  BY <1>9, StoreKill, StorePowerLoss, Zenon DEF Store!Next
<1>10. CASE Open
  BY <1>10, StoreOpen, Zenon DEF Store!Next
<1>11. CASE OpenRefused
  BY <1>11, StoreOpenRefused, Zenon DEF Store!Next
<1> QED
  BY <1>1, <1>2, <1>3, <1>4, <1>5, <1>6, <1>7, <1>8, <1>9, <1>10, <1>11, Zenon DEF Next, QuietStep

(***************************************************************************)
(* The commit path, with its files, cohorts, faults and recoveries, is a   *)
(* snapshot-isolated store in which durable receipts are never lost,       *)
(* definite failures never committed and numbers never reused by two       *)
(* surviving commits (commit_report_at, commit_group_at,                   *)
(* open_with_marker_mode), for any batches, keys, faults and cohort sizes. *)
(***************************************************************************)
THEOREM CommitPathIsAStore == Spec => ImplementsStore
<1>1. ReceiptInv /\ [Next]_vars => ReceiptInv'
  BY ReceiptNext
<1>2. ReceiptInv /\ ConflictInv /\ [Next]_vars => ConflictInv'
  BY ConflictNext
<1>3. ReceiptInv /\ NumberInv /\ [Next]_vars => NumberInv'
  BY NumberNext
<1>4. ReceiptInv /\ ConflictInv /\ NumberInv /\ [Next]_vars => [Store!Next]_(Store!vars)
  BY StoreNext
<1> QED
  BY <1>1, <1>2, <1>3, <1>4, ReceiptInit, ConflictInit, NumberInit, StoreInit, PTL
  DEF Spec, ImplementsStore, Store!Spec
=============================================================================
