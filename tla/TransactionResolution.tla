----------------------- MODULE TransactionResolution -----------------------
(***************************************************************************)
(* Durable transaction outcomes: how a client that lost the answer to a    *)
(* commit learns what became of it.                                        *)
(*                                                                         *)
(* Before it publishes, a resolved commit reserves an outcome: a           *)
(* synchronized WAL record binds a resolution id and an idempotency token  *)
(* to the runtime transaction id the commit will use.  A commit writes no  *)
(* second record; the next open finds out by the runtime id whether the    *)
(* reservation committed, and appends the result.  Two paths reserve:      *)
(*                                                                         *)
(*   explicit   commit_optimistic_resolved, which takes the runtime id     *)
(*              when it reserves                                           *)
(*   statement  begin, begin_resolution, commit, which takes it when it    *)
(*              publishes                                                  *)
(*                                                                         *)
(* and "plain" commits (the schedulers, maintenance) reserve nothing.  The *)
(* handle is held for the whole call, so calls do not overlap; a crash can *)
(* fall between any two writes of one.  The product's session keeps a      *)
(* second, volatile memory of outcomes, which answers first.               *)
(*                                                                         *)
(* A resolution id is random and new; the call that reserved it stands for *)
(* it.  A token stands for the pair of principal and token.                *)
(***************************************************************************)
EXTENDS Integers, FiniteSets, Sequences, FiniteSetsExt

CONSTANTS Call,       \* commit calls, each with a batch of its own
          Token,      \* tokens a client may supply
          None,
          Offers,     \* the calls a client may make: path, token and class
          Faults,     \* the faults the environment may inject
          MaxFaults   \* bound on their number

Path == {"explicit", "statement", "plain"}
Offer == [path : Path, token : Token \cup {None}, class : {"Strict", "Memory"}]

ASSUME ConstantsAssumption ==
  /\ None \notin Call \cup Token
  /\ Offers \subseteq Offer
  /\ Faults \subseteq {"io", "kill", "power"}
  /\ MaxFaults \in Nat

VARIABLES
  \* the handle
  mode,         \* "up", "recovering", "down", or "refused": open failed
  pc,           \* the next step of the call that holds the handle
  call,         \* that call
  run,          \* the runtime transaction id it will commit with
  named,        \* the resolution id the product knows it by
  bound,        \* the commit will update that resolution
  nextId,       \* next_transaction_id
  visible,      \* visible CSN
  poisoned,     \* an append or synchronization of the WAL failed
  resolutions,  \* transaction_resolutions, by resolution id
  pending,      \* outcomes an open has still to write
  session,      \* the product session's statuses, by resolution id
  \* the files
  log,          \* the WAL
  synced,       \* length of its stable prefix
  base,         \* what the retention anchor remembers
  \* the clients
  offer,        \* what each call asked for
  answer,       \* what it was told
  faults

current == <<pc, call, run, named, bound>>
memory == <<nextId, visible, poisoned, resolutions, session>>
files == <<log, synced, base>>
clients == <<offer, answer>>
vars == <<mode, current, memory, pending, files, clients, faults>>

\* Records of the WAL.  That a transaction's records name the call is for the
\* properties; recovery does not read it.
Outcome(r, k, n, s, c) ==
  [kind |-> "outcome", id |-> r, token |-> k, run |-> n, state |-> s, csn |-> c]
Begin(c, n) == [kind |-> "begin", id |-> c, run |-> n]
Abort(n) == [kind |-> "abort", run |-> n]
Commit(c, n, v) == [kind |-> "commit", id |-> c, run |-> n, csn |-> v]

Resolution(k, n, s, c) == [token |-> k, run |-> n, state |-> s, csn |-> c]

Status == {"unknown", "committed", "rolledback"}

\* The types of the state.
TypeOK ==
  /\ mode \in {"up", "recovering", "down", "refused"}
  /\ pc \in {"idle", "reserve", "commit", "sync", "publish"}
  /\ call \in Call \cup {None} /\ named \in Call \cup {None} /\ bound \in BOOLEAN
  /\ run \in Nat /\ nextId \in Nat /\ visible \in Nat /\ poisoned \in BOOLEAN
  /\ DOMAIN resolutions \subseteq Call /\ pending \subseteq DOMAIN resolutions
  /\ \A r \in DOMAIN resolutions :
       resolutions[r].run \in Nat /\ resolutions[r].csn \in Nat /\ resolutions[r].state \in Status
  /\ DOMAIN session \subseteq Call /\ \A r \in DOMAIN session : session[r] \in Status
  /\ synced \in 0..Len(log) /\ base \in [nextId : Nat, csn : Nat]
  /\ offer \in [Call -> Offer \cup {None}]
  /\ answer \in [Call -> {None, "committed", "rolledback", "unknown", "error", "refused", "lost"}]
  /\ faults \in 0..MaxFaults

Init ==
  /\ mode = "up" /\ pc = "idle" /\ call = None /\ run = 0 /\ named = None /\ bound = FALSE
  /\ nextId = 1 /\ visible = 0 /\ poisoned = FALSE
  /\ resolutions = <<>> /\ pending = {} /\ session = <<>>
  /\ log = <<>> /\ synced = 0 /\ base = [nextId |-> 1, csn |-> 0]
  /\ offer = [c \in Call |-> None] /\ answer = [c \in Call |-> None]
  /\ faults = 0

With(f, x, v) == [y \in DOMAIN f \cup {x} |-> IF y = x THEN v ELSE f[y]]

\* ProductSession::record_transaction
Record(r, status) == session' = IF r = None THEN session ELSE With(session, r, status)

Inject(fault) == fault \in Faults /\ faults < MaxFaults /\ faults' = faults + 1

-----------------------------------------------------------------------------
(* A call begins.                                                          *)

\* The token of a call that would use runtime id n: the supplied one, or one
\* derived from the session and the handle (explicit) or the id (statement).
TokenOf(c, o, n) ==
  IF o.token # None THEN <<"supplied", o.token>>
  ELSE IF o.path = "explicit" THEN <<"handle", c>> ELSE <<"run", n>>

\* transaction_resolution_for_token
Holders(k) == {r \in DOMAIN resolutions : resolutions[r].token = k}

\* Mutant: a statement may take over any unfinished reservation of its token.
HeldByAnotherFinished(c, o) ==
  \E r \in Holders(TokenOf(c, o, nextId)) :
    o.path = "explicit" \/ resolutions[r].state = "committed"

\* An explicit call is refused whenever its token is held; a statement goes on
\* with a reservation that was made for the runtime id it has itself.
HeldByAnother(c, o) ==
  \E r \in Holders(TokenOf(c, o, nextId)) :
    o.path = "explicit" \/ resolutions[r].run # nextId

Arrive(c, o) ==
  /\ mode = "up" /\ pc = "idle"
  /\ offer[c] = None /\ o \in Offers
  /\ offer' = [offer EXCEPT ![c] = o]

Told(c, what) == answer' = [answer EXCEPT ![c] = what]

\* TransactionCommit with a held token: the error carries the existing
\* resolution, and handle_explicit_commit_error records it as rolled back.
RefuseExplicit(c, o) ==
  /\ Arrive(c, o) /\ o.path = "explicit" /\ HeldByAnother(c, o)
  /\ \E r \in Holders(TokenOf(c, o, nextId)) : Record(r, "rolledback")
  /\ Told(c, "refused")
  /\ UNCHANGED <<mode, current, nextId, visible, poisoned, resolutions, pending, files, faults>>

RefuseStatement(c, o) ==
  /\ Arrive(c, o) /\ o.path = "statement" /\ HeldByAnother(c, o)
  /\ Told(c, "refused")
  /\ UNCHANGED <<mode, current, memory, pending, files, faults>>

Start(c, step, r, binds) ==
  /\ pc' = step /\ call' = c /\ run' = nextId /\ named' = r /\ bound' = binds

\* The reservation is appended ...
Reserve(c, o) ==
  /\ Arrive(c, o) /\ o.path # "plain" /\ ~poisoned
  /\ Holders(TokenOf(c, o, nextId)) = {}
  /\ Start(c, "reserve", c, TRUE)
  /\ log' = Append(log, Outcome(c, TokenOf(c, o, nextId), nextId, 3, 0))
  /\ UNCHANGED <<mode, memory, pending, synced, base, answer, faults>>

\* begin_resolution returns the reservation that the same token made for the
\* same runtime id, and leaves the transaction's own resolution empty.
Resume(c, o) ==
  /\ Arrive(c, o) /\ o.path = "statement" /\ ~HeldByAnother(c, o)
  /\ \E r \in Holders(TokenOf(c, o, nextId)) : Start(c, "commit", r, FALSE)
  /\ UNCHANGED <<mode, memory, pending, files, answer, faults>>

StartPlain(c, o) ==
  /\ Arrive(c, o) /\ o.path = "plain"
  /\ Start(c, "commit", None, FALSE)
  /\ UNCHANGED <<mode, memory, pending, files, answer, faults>>

\* A poisoned WAL takes no reservation.
ReserveBlocked(c, o) ==
  /\ Arrive(c, o) /\ o.path # "plain" /\ poisoned
  /\ Holders(TokenOf(c, o, nextId)) = {}
  /\ Told(c, "error")
  /\ UNCHANGED <<mode, current, memory, pending, files, faults>>

Mine == offer[call]

\* Mutant: an explicit reservation leaves the runtime id to the next call.
IdAfterReservationKept == nextId

\* reserve_optimistic_resolution takes the id; begin_resolution does not.
IdAfterReservation == IF Mine.path = "explicit" THEN run + 1 ELSE nextId

\* ... and synchronized; only then does the handle know it.
Reserved ==
  /\ mode = "up" /\ pc = "reserve"
  /\ synced' = Len(log)
  /\ nextId' = IdAfterReservation
  /\ resolutions' = With(resolutions, call, Resolution(TokenOf(call, Mine, run), run, "unknown", 0))
  /\ pc' = "commit"
  /\ UNCHANGED <<mode, call, run, named, bound, visible, poisoned, pending, session, log, base,
                 clients, faults>>

-----------------------------------------------------------------------------
(* It commits, or fails.                                                   *)
Release == pc' = "idle" /\ call' = None /\ run' = 0 /\ named' = None /\ bound' = FALSE

FailReserve ==
  /\ mode = "up" /\ pc = "reserve" /\ Inject("io")
  /\ log' \in {log, SubSeq(log, 1, Len(log) - 1)}
  /\ poisoned' = TRUE
  /\ Told(call, "error") /\ Release
  /\ UNCHANGED <<mode, nextId, visible, resolutions, pending, session, synced, base, offer>>

\* commit_optimistic_report_at and commit_report_at refuse before they write:
\* a conflict, the retention floor, a constraint or a limit
\* (commit_failure_proves_rollback).
Refuse ==
  /\ mode = "up" /\ pc = "commit"
  /\ Told(call, "rolledback") /\ Record(named, "rolledback") /\ Release
  /\ UNCHANGED <<mode, nextId, visible, poisoned, resolutions, pending, files, offer, faults>>

\* Blobs or pages cannot be written, or another error that tells nothing.
FailBefore ==
  /\ mode = "up" /\ pc = "commit" /\ Inject("io")
  /\ \/ Told(call, "unknown") /\ Record(named, "unknown")
     \/ Told(call, "error") /\ UNCHANGED session
  /\ Release
  /\ UNCHANGED <<mode, nextId, visible, poisoned, resolutions, pending, files, offer>>

Records == <<Begin(call, run), Commit(call, run, visible + 1)>>

AppendCommit ==
  /\ mode = "up" /\ pc = "commit" /\ ~poisoned
  /\ log' = log \o Records
  /\ pc' = IF Mine.class = "Memory" THEN "publish" ELSE "sync"
  /\ UNCHANGED <<mode, call, run, named, bound, memory, pending, synced, base, clients, faults>>

SyncCommit ==
  /\ mode = "up" /\ pc = "sync"
  /\ synced' = Len(log)
  /\ pc' = "publish"
  /\ UNCHANGED <<mode, call, run, named, bound, memory, pending, log, base, clients, faults>>

\* The append or the synchronization fails, or finds the WAL poisoned.
FailWal ==
  /\ mode = "up"
  /\ \/ /\ pc = "commit" /\ poisoned
        /\ UNCHANGED <<log, faults>>
     \/ /\ pc = "commit" /\ ~poisoned /\ Inject("io")
        /\ \E n \in 0..2 : log' = log \o SubSeq(Records, 1, n)
     \/ /\ pc = "sync" /\ Inject("io")
        /\ UNCHANGED log
  /\ poisoned' = TRUE
  /\ Told(call, "unknown") /\ Record(named, "unknown") /\ Release
  /\ UNCHANGED <<mode, nextId, visible, resolutions, pending, synced, base, offer>>

\* The end of commit_report_at, and the product's answer.
Publish ==
  /\ mode = "up" /\ pc = "publish"
  /\ visible' = visible + 1
  /\ nextId' = run + 1
  /\ resolutions' = IF bound
                    THEN [resolutions EXCEPT ![named].state = "committed", ![named].csn = visible + 1]
                    ELSE resolutions
  /\ Told(call, "committed") /\ Record(named, "committed") /\ Release
  /\ UNCHANGED <<mode, poisoned, pending, files, offer, faults>>

-----------------------------------------------------------------------------
(* WAL retention drops the log; see Retention for its steps.               *)

\* Mutant: only outcomes nobody knows yet hold retention back.
RetentionAllowedSettled == \A r \in DOMAIN resolutions : resolutions[r].state # "unknown"

\* prepare_wal_retention: outcomes live in the log alone.
RetentionAllowed == DOMAIN resolutions = {}

RetainWal ==
  /\ mode = "up" /\ pc = "idle" /\ ~poisoned
  /\ RetentionAllowed /\ visible > 0 /\ log # <<>>
  /\ log' = <<>> /\ synced' = 0
  /\ base' = [nextId |-> nextId, csn |-> visible]
  /\ UNCHANGED <<mode, current, memory, pending, clients, faults>>

-----------------------------------------------------------------------------
(* Crashes.                                                                *)
Drop ==
  /\ mode' = "down" /\ Release
  /\ nextId' = 0 /\ visible' = 0 /\ poisoned' = FALSE
  /\ resolutions' = <<>> /\ pending' = {} /\ session' = <<>>
  /\ answer' = IF call = None THEN answer ELSE [answer EXCEPT ![call] = "lost"]
  /\ UNCHANGED <<base, offer>>

Close ==
  /\ mode = "up" /\ pc = "idle"
  /\ Drop
  /\ UNCHANGED <<log, synced, faults>>

\* The process may die in the middle of the append.
Kill ==
  /\ mode \in {"up", "recovering"} /\ Inject("kill")
  /\ Drop
  /\ \/ UNCHANGED log
     \/ pc = "commit" /\ ~poisoned /\ log' = Append(log, Begin(call, run))
  /\ UNCHANGED synced

\* Any part of the unsynchronized suffix may survive.
PowerLoss ==
  /\ mode # "refused" /\ Inject("power")
  /\ Drop
  /\ \E n \in synced..Len(log) : log' = SubSeq(log, 1, n) /\ synced' = n

-----------------------------------------------------------------------------
(* Open.                                                                   *)
Kind(kind) == {i \in 1..Len(log) : log[i].kind = kind}

\* recover_outcome: outside a transaction, after nothing but an open
\* reservation of the same id and token, and backed by its commit.
OutcomeAdmitted(i) ==
  LET o == log[i]
      Same(p) == p.id = o.id /\ p.token = o.token /\ p.run = o.run /\ p.state = 3
  IN  /\ i > 1 => log[i - 1].kind # "begin"
      /\ \A j \in Kind("outcome") :
           j < i /\ (log[j].id = o.id \/ log[j].token = o.token) => Same(log[j])
      /\ o.state = 1 => \E j \in Kind("commit") : j < i /\ log[j].run = o.run /\ log[j].csn = o.csn

\* recover_wal_after and the CSN order validated after it.
TransactionAdmitted(i) ==
  IF log[i].kind = "begin" THEN i > 1 => log[i - 1].kind # "begin"
  ELSE /\ i > 1 /\ log[i - 1].kind = "begin" /\ log[i - 1].run = log[i].run
       /\ log[i].kind = "commit" =>
            log[i].csn = 1 + Max({base.csn} \cup {log[j].csn : j \in {k \in Kind("commit") : k < i}})

Recoverable ==
  \A i \in 1..Len(log) :
    IF log[i].kind = "outcome" THEN OutcomeAdmitted(i) ELSE TransactionAdmitted(i)

\* The last outcome record of each resolution id.
OutcomeIds == {log[i].id : i \in Kind("outcome")}
LastOutcome(r) == log[Max({i \in Kind("outcome") : log[i].id = r})]

\* Mutant: a reservation without a recovered commit stays open.
ResolvedUnknown(o) ==
  LET commits == {j \in Kind("commit") : log[j].run = o.run}
  IN  CASE o.state = 1 -> Resolution(o.token, o.run, "committed", o.csn)
        [] o.state = 2 -> Resolution(o.token, o.run, "rolledback", 0)
        [] o.state = 3 /\ commits = {} -> Resolution(o.token, o.run, "unknown", 0)
        [] OTHER -> Resolution(o.token, o.run, "committed", log[Min(commits)].csn)

\* recover_transaction_resolutions
Resolved(o) ==
  LET commits == {j \in Kind("commit") : log[j].run = o.run}
  IN  CASE o.state = 1 -> Resolution(o.token, o.run, "committed", o.csn)
        [] o.state = 2 \/ commits = {} -> Resolution(o.token, o.run, "rolledback", 0)
        [] OTHER -> Resolution(o.token, o.run, "committed", log[Min(commits)].csn)

\* wal_recovery_metadata: above every id of the log and of the anchor.
RecoveredNextId == Max({base.nextId} \cup {log[i].run + 1 : i \in 1..Len(log)})
RecoveredCsn == Max({base.csn} \cup {log[i].csn : i \in Kind("commit")})

\* recover_wal_and_close_dangling writes the ABORT before anything else.
CloseDangling ==
  IF log # <<>> /\ log[Len(log)].kind = "begin"
  THEN log' = Append(log, Abort(log[Len(log)].run)) /\ synced' = Len(log) + 1
  ELSE UNCHANGED <<log, synced>>

Recover ==
  /\ mode' = "recovering"
  /\ CloseDangling
  /\ resolutions' = [r \in OutcomeIds |-> Resolved(LastOutcome(r))]
  /\ pending' = {r \in OutcomeIds :
                   LastOutcome(r).state = 3 /\ Resolved(LastOutcome(r)).state # "unknown"}
  /\ nextId' = RecoveredNextId /\ visible' = RecoveredCsn

Open ==
  /\ mode = "down"
  /\ IF Recoverable THEN Recover
     ELSE mode' = "refused" /\ UNCHANGED <<nextId, visible, resolutions, pending, log, synced>>
  /\ UNCHANGED <<current, poisoned, session, base, clients, faults>>

\* One turn of persist_recovered_outcome_updates, an append and a
\* synchronization; the ids are random, so the order is any.
Settled(r) ==
  Outcome(r, resolutions[r].token, resolutions[r].run,
          IF resolutions[r].state = "committed" THEN 1 ELSE 2, resolutions[r].csn)

Persist(r) ==
  /\ mode = "recovering" /\ r \in pending
  /\ log' = Append(log, Settled(r)) /\ synced' = Len(log) + 1
  /\ pending' = pending \ {r}
  /\ UNCHANGED <<mode, current, memory, base, clients, faults>>

\* It fails: open returns an error and the directory stays closed.
FailPersist(r) ==
  /\ mode = "recovering" /\ r \in pending /\ Inject("io")
  /\ log' \in {log, Append(log, Settled(r))}
  /\ Drop
  /\ UNCHANGED synced

FinishOpen ==
  /\ mode = "recovering" /\ pending = {}
  /\ mode' = "up"
  /\ UNCHANGED <<current, memory, pending, files, clients, faults>>

-----------------------------------------------------------------------------
Next ==
  \/ \E c \in Call, o \in Offers :
       \/ RefuseExplicit(c, o) \/ RefuseStatement(c, o) \/ Reserve(c, o)
       \/ Resume(c, o) \/ StartPlain(c, o) \/ ReserveBlocked(c, o)
  \/ Reserved \/ FailReserve \/ Refuse \/ FailBefore
  \/ AppendCommit \/ SyncCommit \/ FailWal \/ Publish
  \/ RetainWal \/ Close \/ Kill \/ PowerLoss
  \/ Open \/ FinishOpen
  \/ \E r \in Call : Persist(r) \/ FailPersist(r)

Spec == Init /\ [][Next]_vars

-----------------------------------------------------------------------------
(* What a client can ask: TransactionStatus by id and by token.            *)
Durable(r) ==
  IF resolutions[r].state = "committed" /\ \A i \in Kind("commit") : log[i].run # resolutions[r].run
  THEN "unknown"
  ELSE resolutions[r].state

StatusById(r) ==
  IF r \in DOMAIN session /\ session[r] \in {"committed", "rolledback"} THEN session[r] ELSE Durable(r)

\* The commits of resolved calls, and their tokens.
ResolvedCommits == {i \in Kind("commit") : offer[log[i].id].path # "plain"}
CommitToken(i) == TokenOf(log[i].id, offer[log[i].id], log[i].run)
Committed(k) == \E i \in ResolvedCommits : CommitToken(i) = k

(***************************************************************************)
(* A token commits at most one batch, however often its commit is retried, *)
(* on either path and across crashes and recoveries                        *)
(* (reserve_optimistic_resolution, begin_resolution).                      *)
(***************************************************************************)
TokenCommitsOnce ==
  \A i, j \in ResolvedCommits : i # j => CommitToken(i) # CommitToken(j)

\* The reservation of a statement that failed with the handle going on: its
\* runtime id is free again.
IdGivenBack(r) == offer[r].path = "statement" /\ answer[r] \in {"rolledback", "unknown", "error"}

\* Another call came back with the token of r: an explicit one was refused, or a
\* statement went on with the reservation and was rolled back.
Retried(r) ==
  \E c \in Call \ {r} :
    /\ \/ offer[c] # None /\ offer[c].path = "explicit" /\ answer[c] = "refused"
       \/ offer[c] # None /\ offer[c].path = "statement" /\ answer[c] = "rolledback"
    /\ TokenOf(c, offer[c], resolutions[r].run) = resolutions[r].token

(***************************************************************************)
(* What status lookups say is true, whichever crashes came before, with    *)
(* two exceptions and no other.  "Committed" may be the commit of a        *)
(* stranger if a statement failed and gave its runtime id back; and the    *)
(* session answers "rolled back" for a committed token after a second call *)
(* with it was turned away (resolve_transaction_status,                    *)
(* resolve_durable_transaction, recover_transaction_resolutions,           *)
(* handle_explicit_commit_error).                                          *)
(***************************************************************************)
StatusTrue ==
  mode = "up" /\ pc = "idle" =>
    \A r \in DOMAIN resolutions :
      LET own == Committed(resolutions[r].token)
      IN  /\ "committed" \in {StatusById(r), Durable(r)} => own \/ IdGivenBack(r)
          /\ Durable(r) = "rolledback" => ~own
          /\ StatusById(r) = "rolledback" => ~own \/ Retried(r)

\* The first n records hold a final outcome.
SettledAs(r, s, n) == \E i \in Kind("outcome") : i <= n /\ log[i].id = r /\ log[i].state = s

(***************************************************************************)
(* An outcome that open wrote down and synchronized is the outcome for     *)
(* ever: no later step, crash or retention takes it away                   *)
(* (persist_recovered_outcome_updates, prepare_wal_retention).             *)
(***************************************************************************)
SettledStays ==
  [][\A r \in Call, s \in {1, 2} : SettledAs(r, s, synced) => SettledAs(r, s, synced)']_vars

(***************************************************************************)
(* Every log the calls and crashes leave is one that open accepts, and     *)
(* when it returns, each reservation has a definite outcome which is       *)
(* written down (recover_outcome, finish_open_recovery).                   *)
(***************************************************************************)
OpenSettles ==
  /\ [](mode # "refused")
  /\ [][mode = "recovering" /\ mode' = "up" =>
          \A r \in OutcomeIds :
            SettledAs(r, CASE resolutions[r].state = "committed" -> 1
                           [] resolutions[r].state = "rolledback" -> 2
                           [] OTHER -> 0, Len(log))]_vars

(***************************************************************************)
(* A token that open resolves as committed has its own batch in the log,   *)
(* and the data of one resolved as rolled back is absent: what the test    *)
(* resolved_commit_boundaries_reopen_to_a_definite_outcome asserts.        *)
(***************************************************************************)
ResolvedTruly ==
  mode = "up" =>
    \A r \in DOMAIN resolutions :
      /\ resolutions[r].state = "committed" => Committed(resolutions[r].token)
      /\ resolutions[r].state = "rolledback" => ~Committed(resolutions[r].token)
=============================================================================
