--------------------------- MODULE CommitScheduler ---------------------------
(***************************************************************************)
(* The commit scheduler: the worker thread that owns the database, the     *)
(* clients that prepare batches and submit them through a bounded queue,   *)
(* and the owner that shuts the worker down.                               *)
(*                                                                         *)
(* Threads meet at four places, and an action stops at each of them: the   *)
(* gate (a mutex around accepting and the slot count), the command         *)
(* channel, the atomic control state of a request, and the read-write lock *)
(* around the database.  What a commit does inside the database is the     *)
(* subject of NativeCommit; here it either commits, is rejected for a      *)
(* reason of its own, or fails for everyone.  Time is nondeterministic: a  *)
(* deadline may pass at any step.                                          *)
(***************************************************************************)
EXTENDS Integers, FiniteSets, Sequences, FiniteSetsExt

CONSTANTS Request,        \* detached batches
          Class,          \* "single" (Strict or Memory durability) or "group"
          Api,            \* the call a client makes with its batch
          Cohorts,        \* the explicit cohorts: sequences of requests
          QueueCapacity,  \* GroupCommitConfig::queue_capacity
          MaxBatch,       \* GroupCommitConfig::max_batch_size
          Permits,        \* units of the governor that a prepared batch or the worker takes
          Budget,         \* ActiveExpiryConfig::foreground_budget
          Expires,        \* the scheduler was started with active expiry
          Faults          \* "storage": a commit, "sweep": an expiry sweep may fail

Apis == {"submit", "try", "controlled", "handle", "cohort"}
MembersOf(c) == {c[i] : i \in 1..Len(c)}

ASSUME SchedulerAssumption ==
  /\ IsFiniteSet(Request)
  /\ Class \in [Request -> {"single", "group"}]
  /\ Api \in [Request -> Apis]
  /\ Cohorts \subseteq Seq(Request)
  /\ \A c \in Cohorts :
       /\ Len(c) \in 1..MaxBatch
       /\ \A i \in 1..Len(c) : Class[c[i]] = "group" /\ Api[c[i]] = "cohort"
       /\ \A i, j \in 1..Len(c) : c[i] = c[j] => i = j
       /\ \A d \in Cohorts : d = c \/ MembersOf(c) \cap MembersOf(d) = {}
  /\ MaxBatch \in Nat \ {0} /\ QueueCapacity \in Nat /\ MaxBatch <= QueueCapacity
  /\ Permits \in Nat \ {0} /\ Budget \in Nat \ {0}
  /\ Expires \in BOOLEAN
  /\ Faults \subseteq {"storage", "sweep"}

VARIABLES
  \* the gate and the channel
  accepting,    \* new submissions are let in
  slots,        \* queued_request_slots
  queue,        \* the commands in the channel
  connected,    \* the worker still has the receiving end
  \* the clients
  stage,        \* how far each client is with its batch
  control,      \* NativeCommitControl of the request
  response,     \* its response channel: empty, one outcome, or closed
  outcome,      \* what the client was told
  \* the worker
  pc,
  hand,         \* the command just received
  kept,         \* the command that ended a collection (pending)
  batch,        \* the requests of the current execution
  limit,        \* how many may be collected
  counts,       \* counts_after_due
  index,        \* the member being claimed or answered
  claimed,      \* the members whose claim succeeded
  verdicts,     \* the outcomes to deliver to them
  termination,  \* SchedulerTermination
  \* active expiry
  due,          \* the deadline has passed
  afterDue,     \* foreground_after_due
  sweepFailed,  \* terminal_failure is set
  \* the owner and the database
  owner,        \* "serving", "sending" the marker, "joining", "done"
  returns,      \* shutdown_into_database rather than shutdown
  result,       \* what the owner was told
  database,
  \* history
  admitted,     \* requests in the order they entered the channel
  committed,    \* requests the database committed
  served        \* requests taken into an execution since the sweep became due

gateVars == <<accepting, slots, queue, connected>>
clientVars == <<stage, control, response, outcome>>
workVars == <<hand, kept, batch, limit, counts, index, claimed, verdicts, termination>>
expiryVars == <<due, afterDue, sweepFailed>>
ownerVars == <<owner, returns, result, database>>
history == <<admitted, committed, served>>
vars == <<gateVars, clientVars, pc, workVars, expiryVars, ownerVars, history>>

-----------------------------------------------------------------------------
Command == [kind : {"none", "commit", "cohort", "shutdown", "return"}, reqs : Seq(Request)]
None == [kind |-> "none", reqs |-> <<>>]
Commit(r) == [kind |-> "commit", reqs |-> <<r>>]
Cohort(c) == [kind |-> "cohort", reqs |-> c]
Marker == [kind |-> IF returns THEN "return" ELSE "shutdown", reqs |-> <<>>]

\* command_request_slots, summed over a sequence of commands.
SlotsOf(q) == MapThenSumSet(LAMBDA i : Len(q[i].reqs), 1..Len(q))

Verdict == {"committed", "rejected", "failed"}
Refusal == {"cancelled", "deadline", "saturated", "unavailable"}

TypeOK ==
  /\ accepting \in BOOLEAN /\ slots \in 0..QueueCapacity /\ connected \in BOOLEAN
  /\ queue \in Seq(Command) /\ Len(queue) <= QueueCapacity
  /\ stage \in [Request -> {"idle", "entering", "preparing", "prepared", "sealed", "checking",
                            "offering", "pending", "done"}]
  /\ control \in [Request -> {"queued", "executing", "cancelled", "completed"}]
  /\ response \in [Request -> {"empty", "closed", "cancelled"} \cup Verdict]
  /\ outcome \in [Request -> {"none", "dropped"} \cup Verdict \cup Refusal]
  /\ pc \in {"top", "release", "dispatch", "count", "collect", "sort", "claim", "admit", "lock",
             "deliver", "sweep", "stop", "close", "drop", "gone"}
  /\ hand \in Command /\ kept \in Command
  /\ batch \in Seq(Request) /\ claimed \in Seq(Request) /\ verdicts \in UNION {[S -> Verdict] : S \in SUBSET Request}
  /\ limit \in 0..MaxBatch /\ counts \in BOOLEAN /\ index \in 0..(MaxBatch + 1)
  /\ termination \in {"running", "shutdown", "return", "failed"}
  /\ due \in BOOLEAN /\ afterDue \in Nat /\ sweepFailed \in BOOLEAN
  /\ owner \in {"serving", "sending", "joining", "done"} /\ returns \in BOOLEAN
  /\ result \in {"none", "ok", "database", "expiry", "unavailable"}
  /\ database \in {"open", "closed", "returned"}
  /\ admitted \in Seq(Request) /\ committed \subseteq Request /\ served \in Nat

Init ==
  /\ accepting = TRUE /\ slots = 0 /\ queue = <<>> /\ connected = TRUE
  /\ stage = [r \in Request |-> "idle"] /\ control = [r \in Request |-> "queued"]
  /\ response = [r \in Request |-> "empty"] /\ outcome = [r \in Request |-> "none"]
  /\ pc = "top" /\ hand = None /\ kept = None /\ batch = <<>> /\ limit = 0 /\ counts = FALSE
  /\ index = 0 /\ claimed = <<>> /\ verdicts = <<>> /\ termination = "running"
  /\ due = FALSE /\ afterDue = 0 /\ sweepFailed = FALSE
  /\ owner = "serving" /\ returns = FALSE /\ result = "none" /\ database = "open"
  /\ admitted = <<>> /\ committed = {} /\ served = 0

-----------------------------------------------------------------------------
(***************************************************************************)
(* Clients.                                                                *)
(***************************************************************************)
\* Clients that hold the database for reading.
Readers == {r \in Request : stage[r] = "preparing"}

\* Units of the governor not in use: a batch keeps its permit until it is queued
\* or sealed, the worker has one while it waits for the database.
FreePermits ==
  Permits - Cardinality({r \in Request : stage[r] = "prepared"}) - (IF pc = "lock" THEN 1 ELSE 0)

Goes(r, s) == stage' = [stage EXCEPT ![r] = s]
Ends(r, o) == Goes(r, "done") /\ outcome' = [outcome EXCEPT ![r] = o]

\* begin_optimistic: ask the gate, take the database for reading, wait for a permit.
EnterPrepare(r) ==
  /\ stage[r] = "idle"
  /\ IF accepting THEN Goes(r, "entering") /\ UNCHANGED outcome ELSE Ends(r, "unavailable")
  /\ UNCHANGED <<gateVars, control, response, pc, workVars, expiryVars, ownerVars, history>>

LockPrepare(r) ==
  /\ stage[r] = "entering"
  /\ IF database = "open" THEN Goes(r, "preparing") /\ UNCHANGED outcome ELSE Ends(r, "unavailable")
  /\ UNCHANGED <<gateVars, control, response, pc, workVars, expiryVars, ownerVars, history>>

\* The wait for the permit is bounded, and so is the rest of the call, which may fail for a
\* reason of the batch; the lock is held for all of it.
PrepareUnbounded(r) ==
  /\ stage[r] = "preparing" /\ FreePermits > 0 /\ Goes(r, "prepared")
  /\ UNCHANGED <<gateVars, control, response, outcome, pc, workVars, expiryVars, ownerVars, history>>
Prepare(r) ==
  /\ stage[r] = "preparing"
  /\ \/ FreePermits > 0 /\ Goes(r, "prepared") /\ UNCHANGED outcome
     \/ Ends(r, "rejected")
  /\ UNCHANGED <<gateVars, control, response, pc, workVars, expiryVars, ownerVars, history>>

DropBatch(r) ==
  /\ stage[r] \in {"prepared", "sealed"}
  /\ Ends(r, "dropped")
  /\ UNCHANGED <<gateVars, control, response, pc, workVars, expiryVars, ownerVars, history>>

\* Queueing reduces the permit to memory before it looks at the gate; an invalid batch is refused.
Submit(r) ==
  /\ stage[r] = "prepared" /\ Api[r] # "cohort"
  /\ \/ Goes(r, "checking") /\ UNCHANGED outcome
     \/ Ends(r, "rejected")
  /\ UNCHANGED <<gateVars, control, response, pc, workVars, expiryVars, ownerVars, history>>

Seal(r) ==
  /\ stage[r] = "prepared" /\ Api[r] = "cohort"
  /\ \/ accepting /\ Goes(r, "sealed") /\ UNCHANGED outcome
     \/ accepting /\ Ends(r, "rejected")
     \/ ~accepting /\ Ends(r, "unavailable")
  /\ UNCHANGED <<gateVars, control, response, pc, workVars, expiryVars, ownerVars, history>>

\* check_queued_control, at the head of every turn of the admission loop.
CheckQueued(r) ==
  /\ stage[r] = "checking"
  /\ \/ control[r] = "queued" /\ Goes(r, "offering") /\ UNCHANGED <<control, outcome>>
     \/ control[r] = "queued" /\ Api[r] = "controlled" /\ Ends(r, "deadline")
          /\ control' = [control EXCEPT ![r] = "cancelled"]
     \/ control[r] = "cancelled" /\ Ends(r, "cancelled") /\ UNCHANGED control
  /\ UNCHANGED <<gateVars, response, pc, workVars, expiryVars, ownerVars, history>>

\* The turn under the gate's mutex.
Offer(r) ==
  /\ stage[r] = "offering" /\ Api[r] # "cohort"
  /\ \/ /\ accepting /\ slots < QueueCapacity
        /\ queue' = Append(queue, Commit(r)) /\ slots' = slots + 1
        /\ admitted' = Append(admitted, r)
        /\ Goes(r, "pending") /\ UNCHANGED outcome
     \/ /\ accepting /\ slots >= QueueCapacity
        /\ IF Api[r] = "try" THEN Ends(r, "saturated") ELSE Goes(r, "checking") /\ UNCHANGED outcome
        /\ UNCHANGED <<queue, slots, admitted>>
     \/ ~accepting /\ Ends(r, "unavailable") /\ UNCHANGED <<queue, slots, admitted>>
  /\ UNCHANGED <<accepting, connected, control, response, pc, workVars, expiryVars, ownerVars,
                 committed, served>>

\* enqueue_cohort: a full queue makes the call spin, which changes nothing.
CohortRoom(c) == slots + Len(c) <= QueueCapacity

OfferCohort(c) ==
  /\ \A r \in MembersOf(c) : stage[r] = "sealed"
  /\ \/ /\ accepting /\ CohortRoom(c)
        /\ queue' = Append(queue, Cohort(c)) /\ slots' = slots + Len(c)
        /\ admitted' = admitted \o c
        /\ stage' = [r \in Request |-> IF r \in MembersOf(c) THEN "pending" ELSE stage[r]]
        /\ UNCHANGED outcome
     \/ /\ ~accepting
        /\ stage' = [r \in Request |-> IF r \in MembersOf(c) THEN "done" ELSE stage[r]]
        /\ outcome' = [r \in Request |-> IF r \in MembersOf(c) THEN "unavailable" ELSE outcome[r]]
        /\ UNCHANGED <<queue, slots, admitted>>
  /\ UNCHANGED <<accepting, connected, control, response, pc, workVars, expiryVars, ownerVars,
                 committed, served>>

\* Who may cancel: the holder of a control from the start, of a handle once it has one.
MayCancel(r) ==
  \/ Api[r] = "controlled" /\ stage[r] \in {"checking", "offering", "pending"}
  \/ Api[r] \in {"handle", "cohort"} /\ stage[r] = "pending"

CancelState(r) == control[r] = "queued" /\ control' = [control EXCEPT ![r] = "cancelled"]

Cancel(r) ==
  /\ MayCancel(r) /\ CancelState(r)
  /\ UNCHANGED <<gateVars, stage, response, outcome, pc, workVars, expiryVars, ownerVars, history>>

\* Dropping a pending handle cancels if that is still possible.
DropHandle(r) ==
  /\ Api[r] \in {"handle", "cohort"} /\ stage[r] = "pending"
  /\ control' = [control EXCEPT ![r] = IF @ = "queued" THEN "cancelled" ELSE @]
  /\ Ends(r, "dropped")
  /\ UNCHANGED <<gateVars, response, pc, workVars, expiryVars, ownerVars, history>>

\* await_response: the answer, or the end of the channel.
Receive(r) ==
  /\ stage[r] = "pending" /\ response[r] # "empty"
  /\ Ends(r, IF response[r] = "closed" THEN "unavailable" ELSE response[r])
  /\ UNCHANGED <<gateVars, control, response, pc, workVars, expiryVars, ownerVars, history>>

\* A controlled wait also looks at its control and at its deadline.
Poll(r) ==
  /\ stage[r] = "pending" /\ Api[r] = "controlled"
  /\ \/ control[r] = "cancelled" /\ Ends(r, "cancelled") /\ UNCHANGED control
     \/ control[r] = "queued" /\ Ends(r, "deadline") /\ control' = [control EXCEPT ![r] = "cancelled"]
  /\ UNCHANGED <<gateVars, response, pc, workVars, expiryVars, ownerVars, history>>

-----------------------------------------------------------------------------
(***************************************************************************)
(* The worker.                                                             *)
(***************************************************************************)
\* run_scheduler: a due sweep that has waited for its share goes first.
Forced == due /\ afterDue >= Budget

ForceSweep ==
  /\ pc = "top" /\ Forced
  /\ pc' = "sweep"
  /\ UNCHANGED <<gateVars, clientVars, workVars, expiryVars, ownerVars, history>>

TakeKept ==
  /\ pc = "top" /\ ~Forced /\ kept # None
  /\ hand' = kept /\ kept' = None /\ pc' = "dispatch"
  /\ UNCHANGED <<gateVars, clientVars, batch, limit, counts, index, claimed, verdicts, termination,
                 expiryVars, ownerVars, history>>

\* The command kept by a collection precedes the channel.
ChannelTurnAlways == TRUE
ChannelTurn == kept = None

ReceiveCommand ==
  /\ pc = "top" /\ ~Forced /\ ChannelTurn /\ queue # <<>>
  /\ hand' = Head(queue) /\ queue' = Tail(queue) /\ pc' = "release"
  /\ UNCHANGED <<accepting, slots, connected, clientVars, kept, batch, limit, counts, index, claimed,
                 verdicts, termination, expiryVars, ownerVars, history>>

ExpiryDue ==
  /\ pc = "top" /\ ~Forced /\ ChannelTurn /\ queue = <<>> /\ due
  /\ pc' = "sweep"
  /\ UNCHANGED <<gateVars, clientVars, workVars, expiryVars, ownerVars, history>>

\* The slots of a command are given back after it left the channel.
ReleasedSlotsOne(command) == slots - (IF command.reqs = <<>> THEN 0 ELSE 1)
ReleasedSlots(command) == slots - Len(command.reqs)

Release ==
  /\ pc = "release"
  /\ slots' = ReleasedSlots(hand) /\ pc' = "dispatch"
  /\ UNCHANGED <<accepting, queue, connected, clientVars, workVars, expiryVars, ownerVars, history>>

\* Requests that join an execution after the deadline are counted for the properties.
Serve(n) == served' = IF due THEN served + n ELSE served

Remaining == IF Budget > afterDue THEN Budget - afterDue ELSE 0

\* How many requests a collection may have when a sweep is due.
CollectionLimit ==
  IF due THEN Min({MaxBatch, Max({Remaining, 1})}) ELSE MaxBatch

DispatchCommit ==
  /\ pc = "dispatch" /\ hand.kind = "commit"
  /\ batch' = hand.reqs /\ hand' = None /\ counts' = due /\ index' = 1
  /\ limit' = CollectionLimit
  /\ pc' = IF Class[hand.reqs[1]] = "group" THEN "collect" ELSE "claim"
  /\ Serve(1)
  /\ UNCHANGED <<gateVars, clientVars, kept, claimed, verdicts, termination, expiryVars, ownerVars,
                 admitted, committed>>

\* execute_explicit_cohort: a cohort larger than what is left of the budget waits for a sweep.
DispatchCohort ==
  /\ pc = "dispatch" /\ hand.kind = "cohort"
  /\ batch' = hand.reqs /\ hand' = None /\ index' = 1
  /\ pc' = IF due /\ Len(hand.reqs) > Remaining THEN "sweep" ELSE "count"
  /\ UNCHANGED <<gateVars, clientVars, kept, limit, counts, claimed, verdicts, termination,
                 expiryVars, ownerVars, history>>

CountCohort ==
  /\ pc = "count"
  /\ counts' = due /\ pc' = "claim" /\ Serve(Len(batch))
  /\ UNCHANGED <<gateVars, clientVars, hand, kept, batch, limit, index, claimed, verdicts,
                 termination, expiryVars, ownerVars, admitted, committed>>

DispatchMarkerIgnored ==
  /\ pc = "dispatch" /\ hand.kind \in {"shutdown", "return"}
  /\ hand' = None /\ pc' = "top"
  /\ UNCHANGED <<gateVars, clientVars, kept, batch, limit, counts, index, claimed, verdicts,
                 termination, expiryVars, ownerVars, history>>
DispatchMarker ==
  /\ pc = "dispatch" /\ hand.kind \in {"shutdown", "return"}
  /\ termination' = hand.kind /\ hand' = None /\ pc' = "stop"
  /\ UNCHANGED <<gateVars, clientVars, kept, batch, limit, counts, index, claimed, verdicts,
                 expiryVars, ownerVars, history>>

\* collect_group_requests: the channel is asked until the limit or the end of the wait.
CollectNext ==
  /\ pc = "collect" /\ Len(batch) < limit /\ queue # <<>>
  /\ hand' = Head(queue) /\ queue' = Tail(queue) /\ pc' = "sort"
  /\ UNCHANGED <<accepting, slots, connected, clientVars, kept, batch, limit, counts, index, claimed,
                 verdicts, termination, expiryVars, ownerVars, history>>

CollectEnd ==
  /\ pc = "collect" /\ (Len(batch) = limit \/ queue = <<>>)
  /\ pc' = "claim"
  /\ UNCHANGED <<gateVars, clientVars, workVars, expiryVars, ownerVars, history>>

\* A group request joins, any other command is kept for the next turn, the marker ends the loop.
JoinsAny(command) == command.reqs # <<>>
Joins(command) == command.kind = "commit" /\ Class[command.reqs[1]] = "group"

Sort ==
  /\ pc = "sort"
  /\ slots' = ReleasedSlots(hand) /\ hand' = None
  /\ \/ /\ Joins(hand)
        /\ batch' = batch \o hand.reqs /\ pc' = "collect" /\ Serve(1)
        /\ UNCHANGED <<kept, termination>>
     \/ /\ ~Joins(hand) /\ hand.reqs # <<>>
        /\ kept' = hand /\ pc' = "claim"
        /\ UNCHANGED <<batch, termination, served>>
     \/ /\ hand.reqs = <<>>
        /\ termination' = hand.kind /\ pc' = "claim"
        /\ UNCHANGED <<batch, kept, served>>
  /\ UNCHANGED <<accepting, queue, connected, clientVars, limit, counts, index, claimed, verdicts,
                 expiryVars, ownerVars, admitted, committed>>

\* Mutant: the foreground budget is never used up.
RecordedForegroundNot == afterDue

\* The end of an execution: record_foreground, then the next turn or the end of the loop.
RecordedForeground == IF counts /\ due THEN afterDue + Len(batch) ELSE afterDue

Finish ==
  /\ pc' = IF termination = "running" THEN "top" ELSE "stop"
  /\ afterDue' = RecordedForeground
  /\ batch' = <<>> /\ claimed' = <<>> /\ verdicts' = <<>> /\ index' = 0
  /\ UNCHANGED termination

Abandon ==
  /\ pc' = "stop" /\ termination' = "failed"
  /\ batch' = <<>> /\ claimed' = <<>> /\ verdicts' = <<>> /\ index' = 0
  /\ UNCHANGED afterDue

\* claim_execution for one member after the other; a lost claim is answered at once.
ClaimExecutionUnchecked(r) == TRUE
ClaimExecution(r) == control[r] = "queued"

ClaimNext ==
  /\ pc = "claim" /\ index <= Len(batch)
  /\ LET r == batch[index] IN
       IF ClaimExecution(r)
       THEN /\ control' = [control EXCEPT ![r] = "executing"]
            /\ claimed' = Append(claimed, r) /\ UNCHANGED response
       ELSE /\ response' = [response EXCEPT ![r] = "cancelled"]
            /\ UNCHANGED <<control, claimed>>
  /\ index' = index + 1
  /\ UNCHANGED <<gateVars, stage, outcome, pc, hand, kept, batch, limit, counts, verdicts, termination,
                 expiryVars, ownerVars, history>>

ClaimEnd ==
  /\ pc = "claim" /\ index > Len(batch)
  /\ IF claimed = <<>> THEN Finish
     ELSE pc' = "admit" /\ UNCHANGED <<afterDue, batch, claimed, verdicts, index, termination>>
  /\ UNCHANGED <<gateVars, clientVars, hand, kept, limit, counts, due, sweepFailed, ownerVars, history>>

\* admit_scheduled_commit_execution: a permit, or an error for every member after the wait.
AdmitExecution ==
  /\ pc = "admit"
  /\ IF FreePermits > 0
     THEN pc' = "lock" /\ UNCHANGED <<verdicts, index>>
     ELSE /\ pc' = "deliver" /\ index' = 1
          /\ verdicts' = [r \in MembersOf(claimed) |-> "rejected"]
  /\ UNCHANGED <<gateVars, clientVars, hand, kept, batch, limit, counts, claimed, termination,
                 expiryVars, ownerVars, history>>

\* The commit under the write lock: each member is committed or rejected, or storage fails.
Execute ==
  /\ pc = "lock" /\ Readers = {}
  /\ \/ verdicts' \in [MembersOf(claimed) -> {"committed", "rejected"}]
     \/ "storage" \in Faults /\ verdicts' = [r \in MembersOf(claimed) |-> "failed"]
  /\ committed' = committed \cup {r \in MembersOf(claimed) : verdicts'[r] = "committed"}
  /\ pc' = "deliver" /\ index' = 1
  /\ UNCHANGED <<gateVars, clientVars, hand, kept, batch, limit, counts, claimed, termination,
                 expiryVars, ownerVars, admitted, served>>

DeliverNext ==
  /\ pc = "deliver" /\ index <= Len(claimed)
  /\ control' = [control EXCEPT ![claimed[index]] = "completed"]
  /\ response' = [response EXCEPT ![claimed[index]] = verdicts[claimed[index]]]
  /\ index' = index + 1
  /\ UNCHANGED <<gateVars, stage, outcome, pc, hand, kept, batch, limit, counts, claimed, verdicts,
                 termination, expiryVars, ownerVars, history>>

DeliverEnd ==
  /\ pc = "deliver" /\ index > Len(claimed)
  /\ IF verdicts[claimed[1]] = "failed" THEN Abandon ELSE Finish
  /\ UNCHANGED <<gateVars, clientVars, hand, kept, limit, counts, due, sweepFailed, ownerVars, history>>

\* execute_active_expiry: also before a cohort that is over the budget.
Sweep ==
  /\ pc = "sweep" /\ Readers = {}
  /\ due' = FALSE /\ afterDue' = 0 /\ served' = 0
  /\ \/ /\ pc' = IF batch = <<>> THEN "top" ELSE "count"
        /\ UNCHANGED <<sweepFailed, termination, batch, index>>
     \/ /\ "sweep" \in Faults
        /\ sweepFailed' = TRUE /\ termination' = "failed" /\ pc' = "stop"
        /\ UNCHANGED <<batch, index>>
  /\ UNCHANGED <<gateVars, clientVars, hand, kept, limit, counts, claimed, verdicts, ownerVars,
                 admitted, committed>>

\* The end of run_scheduler and of the worker thread.
StopAccepting ==
  /\ pc = "stop"
  /\ accepting' = FALSE
  /\ pc' = IF termination = "return" THEN "drop" ELSE "close"
  /\ UNCHANGED <<slots, queue, connected, clientVars, workVars, expiryVars, ownerVars, history>>

CloseDatabase ==
  /\ pc = "close" /\ Readers = {}
  /\ database' = "closed" /\ pc' = "drop"
  /\ UNCHANGED <<gateVars, clientVars, workVars, expiryVars, owner, returns, result, history>>

\* The commands in the channel and the one kept are dropped with the receiver,
\* and the response channels of their requests with them.
Unanswered ==
  MembersOf(kept.reqs) \cup MembersOf(batch)
    \cup UNION {MembersOf(queue[i].reqs) : i \in 1..Len(queue)}

DropReceiver ==
  /\ pc = "drop"
  /\ connected' = FALSE /\ queue' = <<>> /\ kept' = None /\ batch' = <<>> /\ index' = 0
  /\ response' = [r \in Request |-> IF r \in Unanswered THEN "closed" ELSE response[r]]
  /\ pc' = "gone"
  /\ UNCHANGED <<accepting, slots, stage, control, outcome, hand, limit, counts, claimed, verdicts,
                 termination, expiryVars, ownerVars, history>>

-----------------------------------------------------------------------------
(***************************************************************************)
(* The owner, and time.                                                    *)
(***************************************************************************)
\* stop_and_join: stop admission under the mutex, send the marker without it, join.
StopAdmission ==
  /\ owner = "serving"
  /\ returns' \in BOOLEAN
  /\ accepting' = FALSE /\ owner' = IF accepting THEN "sending" ELSE "joining"
  /\ UNCHANGED <<slots, queue, connected, clientVars, pc, workVars, expiryVars, result, database,
                 history>>

\* The send waits for room in the channel and fails when the receiver is gone.
SendMarker ==
  /\ owner = "sending"
  /\ \/ /\ connected /\ Len(queue) < QueueCapacity
        /\ queue' = Append(queue, Marker) /\ owner' = "joining" /\ UNCHANGED result
     \/ /\ ~connected
        /\ owner' = "done" /\ result' = "unavailable" /\ UNCHANGED queue
  /\ UNCHANGED <<accepting, slots, connected, clientVars, pc, workVars, expiryVars, returns, database,
                 history>>

Join ==
  /\ owner = "joining" /\ pc = "gone" /\ (termination = "return" => Readers = {})
  /\ owner' = "done"
  /\ result' = IF sweepFailed THEN "expiry"
               ELSE IF ~returns THEN "ok"
               ELSE IF termination = "return" THEN "database" ELSE "unavailable"
  /\ database' = IF result' = "database" THEN "returned" ELSE database
  /\ UNCHANGED <<gateVars, clientVars, pc, workVars, expiryVars, returns, history>>

BecomeDue ==
  /\ Expires /\ ~due
  /\ due' = TRUE
  /\ UNCHANGED <<gateVars, clientVars, pc, workVars, afterDue, sweepFailed, ownerVars, history>>

-----------------------------------------------------------------------------
Worker ==
  \/ ForceSweep \/ TakeKept \/ ReceiveCommand \/ ExpiryDue \/ Release
  \/ DispatchCommit \/ DispatchCohort \/ CountCohort \/ DispatchMarker
  \/ CollectNext \/ CollectEnd \/ Sort \/ ClaimNext \/ ClaimEnd
  \/ AdmitExecution \/ Execute \/ DeliverNext \/ DeliverEnd \/ Sweep
  \/ StopAccepting \/ CloseDatabase \/ DropReceiver

\* What a client goes through once it has called, without a choice of its own.
Call(r) == LockPrepare(r) \/ Prepare(r) \/ CheckQueued(r) \/ Offer(r) \/ Receive(r)

Choice(r) ==
  EnterPrepare(r) \/ DropBatch(r) \/ Submit(r) \/ Seal(r) \/ Cancel(r) \/ DropHandle(r) \/ Poll(r)

Owner == SendMarker \/ Join

Next ==
  \/ Worker \/ StopAdmission \/ Owner \/ BecomeDue
  \/ \E r \in Request : Call(r) \/ Choice(r)
  \/ \E c \in Cohorts : OfferCohort(c)

Spec == Init /\ [][Next]_vars

\* Threads that are able to run do run: the worker, the owner, a client inside a call.
\* Nothing obliges a client to make a call, and no deadline to pass.
Fairness ==
  /\ WF_vars(Worker) /\ WF_vars(Owner)
  /\ \A r \in Request : WF_vars(Call(r))
  /\ \A c \in Cohorts : WF_vars(OfferCohort(c))

FairSpec == Spec /\ Fairness

-----------------------------------------------------------------------------
(***************************************************************************)
(* The slot count is the number of requests in the channel and in the      *)
(* command whose slots are about to be released, and never above the       *)
(* capacity.  So release never underflows, and an admission that finds a slot finds room in the        *)
(* channel: the Full arms of admit_command and admit_cohort_command are    *)
(* not reached (release_dequeued_request_slots).                           *)
(***************************************************************************)
SlotsExact ==
  /\ connected => slots = SlotsOf(queue) + (IF pc \in {"release", "sort"} THEN Len(hand.reqs) ELSE 0)
  /\ slots <= QueueCapacity
  /\ accepting /\ slots < QueueCapacity => Len(queue) < QueueCapacity

(***************************************************************************)
(* A client that is told cancelled, deadline exceeded, saturated,          *)
(* unavailable or rejected has a batch the database did not and will not   *)
(* commit, and a client with a receipt has one it did: the claim of the    *)
(* worker and the cancellation of a client exclude each other              *)
(* (claim_execution, cancel_state, await_response).                        *)
(***************************************************************************)
OutcomesDefinite ==
  \A r \in Request :
    /\ outcome[r] = "committed" => r \in committed
    /\ outcome[r] \in Refusal \cup {"rejected"} => r \notin committed
    /\ control[r] = "cancelled" => r \notin committed

(***************************************************************************)
(* Execution is first in first out: when a request commits, every request  *)
(* committed before was admitted before, also across the command that a    *)
(* collection keeps for the next turn (collect_group_requests).            *)
(***************************************************************************)
AdmittedBefore(s, r) == \E i, j \in 1..Len(admitted) : i < j /\ admitted[i] = s /\ admitted[j] = r
Fifo == [][\A r \in committed' \ committed : \A s \in committed : AdmittedBefore(s, r)]_vars

(***************************************************************************)
(* What executes together is one single request, one whole explicit        *)
(* cohort, or group requests, in each case a run of neighbours in          *)
(* admission order: no cohort absorbs another command, none is split       *)
(* (execute_explicit_cohort, collect_group_requests).                      *)
(***************************************************************************)
BatchIsolated ==
  pc \in {"claim", "admit", "lock", "deliver"} =>
    /\ \E i \in 1..Len(admitted) :
         i + Len(batch) - 1 <= Len(admitted) /\ batch = SubSeq(admitted, i, i + Len(batch) - 1)
    /\ \/ Len(batch) = 1 /\ Api[batch[1]] # "cohort"
       \/ batch \in Cohorts
       \/ \A i \in 1..Len(batch) : Class[batch[i]] = "group" /\ Api[batch[i]] # "cohort"

(***************************************************************************)
(* A shutdown that ends the worker by its marker drains: every request     *)
(* admitted before it is answered by the worker, none by the end of its    *)
(* channel (stop_and_join, run_scheduler).                                 *)
(***************************************************************************)
ShutdownDrains ==
  pc = "gone" /\ termination # "failed" => \A r \in Request : response[r] # "closed"

(***************************************************************************)
(* A due sweep is delayed by no more than the foreground budget and what   *)
(* the collection that was under way when it became due may still add      *)
(* (should_force_sweep, collect_group_requests,                            *)
(* explicit_cohort_exceeds_due_budget).                                    *)
(***************************************************************************)
SweepDelayBounded == served <= Budget + MaxBatch - 1

(***************************************************************************)
(* Of the requests taken into an execution after the deadline, no more     *)
(* than the foreground budget precede the sweep (collect_group_requests).  *)
(***************************************************************************)
SweepWithinBudget == served <= Budget

(***************************************************************************)
(* A cancelled command ends a collection: it does not become a member      *)
(* (collect_group_requests).  The code does not have this property: see    *)
(* section 5 of the README.                                                *)
(***************************************************************************)
CancelledEndsCollection == [][pc = "sort" /\ Joins(hand) => control[hand.reqs[1]] # "cancelled"]_vars

(***************************************************************************)
(* The owner of a scheduler that a failed sweep stopped is told of that    *)
(* failure (stop_and_join).  The code does not have this property: see     *)
(* section 5 of the README.                                                *)
(***************************************************************************)
ExpiryFailureReported == owner = "done" /\ sweepFailed => result = "expiry"

(***************************************************************************)
(* Every call ends: preparing, admission and the wait for an answer, also  *)
(* while the queue is full, the governor has no unit left, the worker      *)
(* fails or the owner shuts it down (admit_command, await_response,        *)
(* begin_optimistic).  That a client is again and again outside of a call  *)
(* is the same as InCall(r) ~> ~InCall(r).                                 *)
(***************************************************************************)
InCall(r) == stage[r] \in {"entering", "preparing", "checking", "offering", "pending"}
CallsEnd == \A r \in Request : []<>~InCall(r)

(***************************************************************************)
(* A shutdown ends, also when the channel is full and clients are inside   *)
(* their calls (stop_and_join).                                            *)
(***************************************************************************)
ShutdownEnds == owner # "serving" ~> owner = "done"

=============================================================================
