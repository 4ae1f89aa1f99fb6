---------------------------- MODULE ExecutionPool ----------------------------
(***************************************************************************)
(* The persistent worker pool (execution.rs), with the subdivision of a    *)
(* governor permit that every job carries (governor.rs).                   *)
(*                                                                         *)
(* A caller splits its parent permit into children, hands one job per      *)
(* child to the workers and waits for all of them (execute_ordered), or    *)
(* hands one job to one chosen worker and waits for it or for its          *)
(* cancellation (execute_single_targeted).  A worker looks for work under  *)
(* wake_lock and sleeps on a condition variable of its own; a submission   *)
(* wakes one worker.  Every wake_lock section is one step.                 *)
(***************************************************************************)
EXTENDS Integers, Sequences, FiniteSets

CONSTANTS Worker,        \* worker threads
          Pool,          \* their pools: non-empty sequences of workers
          Caller,        \* threads that use the pool
          Parent,        \* governor permits the callers execute under
          Width,         \* compute tokens of each parent permit
          Call,          \* the calls made: kind, priority, items, hint, parent, a
                         \* cancellation token or none, an operation that may panic or not
          BurstLimit,    \* foreground_burst_limit
          MaxCalls,      \* bound: calls made
          None

PoolIndex == DOMAIN Pool
Members(p) == {Pool[p][i] : i \in DOMAIN Pool[p]}
HomePool(w) == CHOOSE p \in PoolIndex : w \in Members(p)
Priority == {"high", "normal", "background"}
Job == Caller \X (Nat \ {0})                       \* a caller, and which of its jobs
Targeted == [job : Job, generation : Nat]           \* what a targeted slot holds
Ticket == [worker : Worker, generation : Nat]

ASSUME PoolAssumption ==
  /\ Pool \in Seq(Seq(Worker)) /\ Pool # <<>> /\ \A p \in PoolIndex : Pool[p] # <<>>
  /\ UNION {Members(p) : p \in PoolIndex} = Worker /\ IsFiniteSet(Worker)
  /\ \A p, q \in PoolIndex : Members(p) \cap Members(q) # {} => p = q  \* a thread serves one pool
  /\ Width \in [Parent -> Nat \ {0}]
  /\ Call \subseteq [kind : {"ordered", "single"}, priority : Priority, items : Nat \ {0},
                     hint : Worker, parent : Parent, token : BOOLEAN, faulty : BOOLEAN]
  /\ BurstLimit \in Nat /\ MaxCalls \in Nat
  /\ None \notin Worker \cup Call \cup Job \cup Targeted \cup Ticket

VARIABLES
  \* WakeState and the queues
  queue,          \* [PoolIndex -> Seq(job)]: accepted generic jobs
  slot,           \* targeted_slots: the targeted job of each worker, or None
  generation,     \* targeted_generations
  lastTargeted,   \* last_dispatch_was_targeted
  flagged,        \* waiting_by_worker
  nextWorker,     \* next_worker_by_pool
  sinceBackground, sinceNormal,  \* the two dispatch counters of each pool
  shutdown,
  \* the workers
  at,             \* "free", "asleep", "woken", "running", "ok", "panic", "stored", "exited"
  doing,          \* the job a worker has, or None
  \* the callers
  pc, call,
  sent,           \* children made, then jobs handed over
  answers,        \* jobs whose completion is in the caller's channel
  failed,         \* one of them panicked
  ticket,         \* the targeted ticket: worker and generation, or None
  state,          \* completion_state of a single job: "none", "ok" or "panic"
  events,         \* messages in its event channel
  token,          \* its cancellation token: "none", "stored" or "sent"
  registered,     \* its event sender is registered with the token
  \* the permits
  nested,         \* nested_usage of each parent
  child,          \* the child permits that exist, by the job that owns each
  \* history
  calls,          \* bound: calls made
  result,         \* how a caller's last call returned
  begun,          \* its jobs whose operation was started
  passed          \* by pool and priority: jobs of a higher one taken over a waiting job

wakeState == <<queue, slot, generation, lastTargeted, flagged, nextWorker,
               sinceBackground, sinceNormal, passed>>
locals == <<sent, answers, failed, ticket, state, events, registered>>
vars == <<wakeState, shutdown, at, doing, pc, call, locals, token, nested, child, calls, result,
          begun>>

Count(k) ==  \* how many jobs a call makes: what its parent and the pool allow
  LET bounds == {k.items, Width[k.parent], Cardinality(Worker)}
  IN  IF k.kind = "single" THEN 1 ELSE CHOOSE n \in bounds : \A m \in bounds : n <= m
Jobs(c) == IF call[c] = None THEN {} ELSE {<<c, i>> : i \in 1..Count(call[c])}
PriorityOf(j) == call[j[1]].priority
Accepted(p) == {queue[p][i] : i \in DOMAIN queue[p]}
All(x) == [c \in Caller |-> x]

Init ==
  /\ queue = [p \in PoolIndex |-> <<>>]
  /\ slot = [w \in Worker |-> None] /\ generation = [w \in Worker |-> 0]
  /\ lastTargeted = [w \in Worker |-> FALSE] /\ flagged = [w \in Worker |-> FALSE]
  /\ nextWorker = [p \in PoolIndex |-> 0]
  /\ sinceBackground = [p \in PoolIndex |-> 0] /\ sinceNormal = [p \in PoolIndex |-> 0]
  /\ shutdown = FALSE
  /\ at = [w \in Worker |-> "free"] /\ doing = [w \in Worker |-> None]
  /\ pc = All("idle") /\ call = All(None) /\ sent = All(0)
  /\ answers = All({}) /\ failed = All(FALSE)
  /\ ticket = All(None) /\ state = All("none") /\ events = All(0)
  /\ token = All("none") /\ registered = All(FALSE)
  /\ nested = [m \in Parent |-> 0] /\ child = {}
  /\ calls = 0 /\ result = All("none") /\ begun = {}
  /\ passed = [p \in PoolIndex |-> [normal |-> 0, background |-> 0]]

-----------------------------------------------------------------------------
(* A caller.                                                               *)

\* The entry of both calls.  A cancelled token ends a single call at once.
\* The pool is alive while a caller uses it: it is dropped by its last owner.
Begin(c) ==
  /\ pc[c] = "idle" /\ ~shutdown /\ calls < MaxCalls
  /\ calls' = calls + 1
  /\ \E k \in Call :
       /\ call' = [call EXCEPT ![c] = k]
       /\ IF k.kind = "single" /\ k.token /\ token[c] # "none"
          THEN result' = [result EXCEPT ![c] = "cancelled"] /\ UNCHANGED pc
          ELSE result' = [result EXCEPT ![c] = "none"] /\ pc' = [pc EXCEPT ![c] = "subdivide"]
  /\ begun' = {j \in begun : j[1] # c}
  /\ UNCHANGED <<wakeState, shutdown, at, doing, locals, token, nested, child>>

\* The call is over and its locals are gone, the registration with the token
\* and the receiver of its messages among them.
Return(c, r) ==
  /\ pc' = [pc EXCEPT ![c] = "idle"]
  /\ result' = [result EXCEPT ![c] = r]
  /\ sent' = [sent EXCEPT ![c] = 0]
  /\ answers' = [answers EXCEPT ![c] = {}] /\ failed' = [failed EXCEPT ![c] = FALSE]
  /\ ticket' = [ticket EXCEPT ![c] = None] /\ state' = [state EXCEPT ![c] = "none"]
  /\ events' = [events EXCEPT ![c] = 0] /\ registered' = [registered EXCEPT ![c] = FALSE]

\* Mutant: off by one.
HasRoomForMore(m) == nested[m] <= Width[m]
HasRoom(m) == nested[m] + 1 <= Width[m]

\* Dropping a child permit gives its tokens back to the parent.
DropChild(j) ==
  nested' = [nested EXCEPT ![call[j[1]].parent] = @ - 1] /\ child' = child \ {j}

\* try_subdivide_owned, one child at a time; the first refusal drops them all.
Subdivide(c) ==
  LET m == call[c].parent IN
  /\ pc[c] = "subdivide"
  /\ IF HasRoom(m)
     THEN /\ nested' = [nested EXCEPT ![m] = @ + 1]
          /\ child' = child \cup {<<c, sent[c] + 1>>}
          /\ IF sent[c] + 1 = Count(call[c])
             THEN sent' = [sent EXCEPT ![c] = 0] /\ pc' = [pc EXCEPT ![c] = "submit"]
             ELSE sent' = [sent EXCEPT ![c] = @ + 1] /\ UNCHANGED pc
          /\ UNCHANGED <<result, answers, failed, ticket, state, events, registered>>
     ELSE /\ nested' = [nested EXCEPT ![m] = @ - sent[c]]
          /\ child' = child \ Jobs(c)
          /\ Return(c, "refused")
  /\ UNCHANGED <<wakeState, shutdown, at, doing, call, token, calls, begun>>

Notify(w) == at' = [at EXCEPT ![w] = IF @ = "asleep" THEN "woken" ELSE @]

\* notify_next_pool_worker: the first worker flagged as waiting, in turn, or
\* the one whose turn it is.
NextToWake(p) ==
  LET n == Len(Pool[p])
      turn(d) == Pool[p][((nextWorker[p] + d) % n) + 1]
      found == {d \in 0..(n - 1) : flagged[turn(d)]}
      offset == IF found = {} THEN 0 ELSE CHOOSE d \in found : \A e \in found : d <= e
  IN  [worker |-> turn(offset), next |-> (nextWorker[p] + offset + 1) % n]

\* Mutant: no worker is woken.
PushSilently(p, j) ==
  queue' = [queue EXCEPT ![p] = Append(@, j)] /\ UNCHANGED <<at, nextWorker>>

\* submit_locked
Push(p, j) ==
  /\ queue' = [queue EXCEPT ![p] = Append(@, j)]
  /\ Notify(NextToWake(p).worker)
  /\ nextWorker' = [nextWorker EXCEPT ![p] = NextToWake(p).next]

SubmitGeneric(c) ==
  /\ pc[c] = "submit" /\ call[c].kind = "ordered"
  /\ Push((sent[c] % Len(Pool)) + 1, <<c, sent[c] + 1>>)
  /\ sent' = [sent EXCEPT ![c] = @ + 1]
  /\ pc' = [pc EXCEPT ![c] = IF sent[c] + 1 = Count(call[c]) THEN "await" ELSE @]
  /\ UNCHANGED <<slot, generation, lastTargeted, flagged, sinceBackground, sinceNormal, passed,
                 shutdown, doing, call, answers, failed, ticket, state, events, registered, token, nested, child, calls,
                 result, begun>>

SubmitTargeted(c) ==
  LET w == call[c].hint IN
  /\ pc[c] = "submit" /\ call[c].kind = "single"
  /\ IF slot[w] # None
     THEN Push(HomePool(w), <<c, 1>>) /\ UNCHANGED <<slot, generation, ticket>>
     ELSE /\ generation' = [generation EXCEPT ![w] = @ + 1]
          /\ slot' = [slot EXCEPT ![w] = [job |-> <<c, 1>>, generation |-> generation'[w]]]
          /\ ticket' = [ticket EXCEPT ![c] = [worker |-> w, generation |-> generation'[w]]]
          /\ Notify(w)
          /\ UNCHANGED <<queue, nextWorker>>
  /\ pc' = [pc EXCEPT ![c] = IF call[c].token THEN "register" ELSE "listen"]
  /\ UNCHANGED <<lastTargeted, flagged, sinceBackground, sinceNormal, passed, shutdown, doing,
                 call, sent, answers, failed, state, events, registered, token, nested, child,
                 calls, result, begun>>

\* register_waiter: a token that is already cancelled answers at once.
Register(c) ==
  /\ pc[c] = "register"
  /\ IF token[c] # "none" THEN events' = [events EXCEPT ![c] = @ + 1] /\ UNCHANGED registered
     ELSE registered' = [registered EXCEPT ![c] = TRUE] /\ UNCHANGED events
  /\ pc' = [pc EXCEPT ![c] = "listen"]
  /\ UNCHANGED <<wakeState, shutdown, at, doing, call, sent, answers, failed, ticket, state,
                 token, nested, child, calls, result, begun>>

\* Mutant: the first answer ends the wait.
AnsweredOnce(c) == answers[c] # {}

\* execute_ordered: every job has answered.
Answered(c) == answers[c] = Jobs(c)
AwaitAll(c) ==
  /\ pc[c] = "await" /\ Answered(c)
  /\ Return(c, IF failed[c] THEN "panic" ELSE "ok")
  /\ UNCHANGED <<wakeState, shutdown, at, doing, call, token, nested, child, calls, begun>>

\* wait_for_targeted_completion: one message, then a look at the state and
\* at the token.  A call that returns drops the receiver of its messages: a
\* worker that has not signalled yet does so to nobody.
Listen(c) ==
  /\ pc[c] = "listen" /\ events[c] > 0
  /\ IF state[c] # "none"
     THEN /\ Return(c, state[c])
          /\ doing' = [w \in Worker |-> IF doing[w] = <<c, 1>> THEN None ELSE doing[w]]
     ELSE /\ pc' = [pc EXCEPT ![c] = IF call[c].token /\ token[c] # "none" /\ ticket[c] # None
                                     THEN "withdraw" ELSE @]
          /\ events' = [events EXCEPT ![c] = @ - 1]
          /\ UNCHANGED <<result, sent, answers, failed, ticket, state, registered, doing>>
  /\ UNCHANGED <<wakeState, shutdown, at, call, token, nested, child, calls, begun>>

\* Mutant: the generation of the ticket is not compared.
SomethingQueued(t) == slot[t.worker] # None

\* The ticket still names the job in the slot.
StillQueued(t) == slot[t.worker] # None /\ slot[t.worker].generation = t.generation

\* cancel_targeted_ticket; dropping the job drops its child permit.
Withdraw(c) ==
  /\ pc[c] = "withdraw"
  /\ IF StillQueued(ticket[c])
     THEN /\ slot' = [slot EXCEPT ![ticket[c].worker] = None]
          /\ DropChild(slot[ticket[c].worker].job)
          /\ Return(c, "cancelled")
     ELSE pc' = [pc EXCEPT ![c] = "listen"] /\ UNCHANGED <<slot, nested, child, result, locals>>
  /\ UNCHANGED <<queue, generation, lastTargeted, flagged, nextWorker, sinceBackground,
                 sinceNormal, passed, shutdown, at, doing, call, token, calls, begun>>

\* GovernorCancellation::cancel: the flag, with the registered sender taken,
\* and later the message to it.
CancelStore(c) ==
  /\ token[c] = "none" /\ pc[c] # "idle" /\ call[c].token
  /\ token' = [token EXCEPT ![c] = IF registered[c] THEN "stored" ELSE "sent"]
  /\ registered' = [registered EXCEPT ![c] = FALSE]
  /\ UNCHANGED <<wakeState, shutdown, at, doing, pc, call, sent, answers, failed, ticket, state,
                 events, nested, child, calls, result, begun>>

CancelSend(c) ==
  /\ token[c] = "stored"
  /\ token' = [token EXCEPT ![c] = "sent"]
  /\ events' = [events EXCEPT ![c] = IF pc[c] # "idle" /\ call[c].token THEN @ + 1 ELSE @]
  /\ UNCHANGED <<wakeState, shutdown, at, doing, pc, call, sent, answers, failed, ticket, state,
                 registered, nested, child, calls, result, begun>>

-----------------------------------------------------------------------------
(* A worker.                                                               *)
Waits(p, x) == \E j \in Accepted(p) : PriorityOf(j) = x

\* Mutant: off by one, and normal jobs are never forced.
OrderTooLate(p) ==
  IF Waits(p, "background") /\ sinceBackground[p] > BurstLimit
  THEN <<"background", "high", "normal">>
  ELSE <<"high", "normal", "background">>

\* take_job: the order of the priorities, given the two dispatch counters.
Order(p) ==
  IF Waits(p, "background") /\ sinceBackground[p] >= BurstLimit
  THEN <<"background", "high", "normal">>
  ELSE IF Waits(p, "normal") /\ sinceNormal[p] >= BurstLimit
       THEN <<"normal", "high", "background">>
       ELSE <<"high", "normal", "background">>

\* The oldest job of the first priority that has one.
FirstJob(p) ==
  LET rank(i) == CHOOSE o \in 1..3 : Order(p)[o] = PriorityOf(queue[p][i])
      jobs == DOMAIN queue[p]
  IN  CHOOSE i \in jobs : \A k \in jobs : rank(i) < rank(k) \/ (rank(i) = rank(k) /\ i <= k)

Bump(n) == IF n < BurstLimit THEN n + 1 ELSE BurstLimit

TakeGeneric(w, p) ==
  LET i == FirstJob(p)
      x == PriorityOf(queue[p][i])
      over(y, higher) == IF x = y \/ ~Waits(p, y) THEN 0
                         ELSE passed[p][y] + IF x \in higher THEN 1 ELSE 0
  IN  /\ doing' = [doing EXCEPT ![w] = queue[p][i]]
      /\ queue' = [queue EXCEPT ![p] = SubSeq(@, 1, i - 1) \o SubSeq(@, i + 1, Len(@))]
      /\ sinceBackground' = [sinceBackground EXCEPT ![p] =
           IF x # "background" /\ Waits(p, "background") THEN Bump(@) ELSE 0]
      /\ sinceNormal' = [sinceNormal EXCEPT ![p] =
           IF x = "high" /\ Waits(p, "normal") THEN Bump(@)
           ELSE IF x = "normal" \/ ~Waits(p, "normal") THEN 0 ELSE @]
      /\ lastTargeted' = [lastTargeted EXCEPT ![w] = FALSE]
      /\ passed' = [passed EXCEPT ![p] = 
           [normal |-> over("normal", {"high"}), background |-> over("background", {"high", "normal"})]]
      /\ UNCHANGED slot

TakeTargeted(w) ==
  /\ doing' = [doing EXCEPT ![w] = slot[w].job]
  /\ slot' = [slot EXCEPT ![w] = None]
  /\ lastTargeted' = [lastTargeted EXCEPT ![w] = TRUE]
  /\ UNCHANGED <<queue, sinceBackground, sinceNormal, passed>>

\* take_worker_job
TargetedFirst(w, p) == slot[w] # None /\ (~lastTargeted[w] \/ Accepted(p) = {})

Looks(w) == at[w] \in {"free", "woken"}

Take(w) ==
  LET p == HomePool(w) IN
  /\ Looks(w) /\ (slot[w] # None \/ Accepted(p) # {})
  /\ IF TargetedFirst(w, p) THEN TakeTargeted(w) ELSE TakeGeneric(w, p)
  /\ flagged' = [flagged EXCEPT ![w] = FALSE]
  /\ at' = [at EXCEPT ![w] = "running"]
  /\ begun' = begun \cup {doing'[w]}
  /\ UNCHANGED <<generation, nextWorker, shutdown, pc, call, locals, token,
                 nested, child, calls, result>>

\* Mutant: the slot was looked at before the lock was taken.
NothingToDo(w) == slot[w] = None /\ Accepted(HomePool(w)) = {}

\* Nothing to do: leave when the pool is shut down, sleep otherwise.
Rest(w) ==
  /\ Looks(w) /\ NothingToDo(w)
  /\ at' = [at EXCEPT ![w] = IF shutdown THEN "exited" ELSE "asleep"]
  /\ flagged' = [flagged EXCEPT ![w] = ~shutdown]
  /\ UNCHANGED <<queue, slot, generation, lastTargeted, nextWorker, sinceBackground, sinceNormal,
                 passed, shutdown, doing, pc, call, locals, token, nested,
                 child, calls, result, begun>>

\* complete_job: the operation ends, normally or by a panic, and its child
\* permit is dropped with it;
Finish(w) ==
  LET j == doing[w] IN
  /\ at[w] = "running"
  /\ \E outcome \in {"ok"} \cup (IF call[j[1]].faulty THEN {"panic"} ELSE {}) :
       at' = [at EXCEPT ![w] = outcome]
  /\ DropChild(j)
  /\ UNCHANGED <<wakeState, shutdown, doing, pc, call, locals, token, calls,
                 result, begun>>

\* then the outcome is stored where a single caller looks for it,
Store(w) ==
  LET c == doing[w][1] IN
  /\ at[w] \in {"ok", "panic"} /\ call[c].kind = "single"
  /\ state' = [state EXCEPT ![c] = at[w]]
  /\ at' = [at EXCEPT ![w] = "stored"]
  /\ UNCHANGED <<wakeState, shutdown, doing, pc, call, sent, answers, failed, ticket, events,
                 registered, token, nested, child, calls, result, begun>>

\* and the caller gets its message.
SignalSingle(w) ==
  /\ at[w] = "stored"
  /\ events' = [c \in Caller |-> events[c] + IF doing[w] = <<c, 1>> THEN 1 ELSE 0]
  /\ at' = [at EXCEPT ![w] = "free"] /\ doing' = [doing EXCEPT ![w] = None]
  /\ UNCHANGED <<wakeState, shutdown, pc, call, sent, answers, failed, ticket, state, registered,
                 token, nested, child, calls, result, begun>>

SignalOrdered(w) ==
  LET c == doing[w][1] IN
  /\ at[w] \in {"ok", "panic"} /\ call[c].kind = "ordered"
  /\ answers' = [answers EXCEPT ![c] = @ \cup {doing[w]}]
  /\ failed' = [failed EXCEPT ![c] = @ \/ at[w] = "panic"]
  /\ at' = [at EXCEPT ![w] = "free"] /\ doing' = [doing EXCEPT ![w] = None]
  /\ UNCHANGED <<wakeState, shutdown, pc, call, sent, ticket, state, events, registered, token, nested, child, calls, result,
                 begun>>

\* Mutant: one sleeping worker is told.
NotifyOne ==
  LET asleep == {w \in Worker : at[w] = "asleep"}
  IN  IF asleep = {} THEN at ELSE [at EXCEPT ![CHOOSE w \in asleep : TRUE] = "woken"]
NotifyAll == [w \in Worker |-> IF at[w] = "asleep" THEN "woken" ELSE at[w]]

\* The last owner drops the pool: signal_shutdown, then the joins.
Shutdown ==
  /\ ~shutdown /\ \A c \in Caller : pc[c] = "idle"
  /\ shutdown' = TRUE
  /\ at' = NotifyAll
  /\ UNCHANGED <<wakeState, doing, pc, call, locals, token, nested, child,
                 calls, result, begun>>

Working(w) == Take(w) \/ Rest(w) \/ Finish(w) \/ Store(w) \/ SignalSingle(w) \/ SignalOrdered(w)
Calling(c) == \/ Subdivide(c) \/ SubmitGeneric(c) \/ SubmitTargeted(c) \/ Register(c)
              \/ AwaitAll(c) \/ Listen(c) \/ Withdraw(c) \/ CancelSend(c)

Next == \/ \E w \in Worker : Working(w)
        \/ \E c \in Caller : Calling(c) \/ Begin(c) \/ CancelStore(c)
        \/ Shutdown

Spec == Init /\ [][Next]_vars
\* Some thread that can run does, and the operations end; nothing is assumed
\* of a cancellation, of new calls or of the shutdown.
Running == (\E w \in Worker : Working(w)) \/ (\E c \in Caller : Calling(c))
FairSpec == Spec /\ WF_vars(Running)

-----------------------------------------------------------------------------
TypeOK ==
  /\ queue \in [PoolIndex -> Seq(Job)] /\ slot \in [Worker -> Targeted \cup {None}]
  /\ generation \in [Worker -> Nat] /\ nextWorker \in [PoolIndex -> Nat]
  /\ lastTargeted \in [Worker -> BOOLEAN] /\ flagged \in [Worker -> BOOLEAN]
  /\ sinceBackground \in [PoolIndex -> 0..BurstLimit] /\ sinceNormal \in [PoolIndex -> 0..BurstLimit]
  /\ shutdown \in BOOLEAN /\ doing \in [Worker -> Job \cup {None}]
  /\ at \in [Worker -> {"free", "asleep", "woken", "running", "ok", "panic", "stored", "exited"}]
  /\ pc \in [Caller -> {"idle", "subdivide", "submit", "register", "await", "listen", "withdraw"}]
  /\ call \in [Caller -> Call \cup {None}] /\ sent \in [Caller -> Nat]
  /\ answers \in [Caller -> SUBSET Job] /\ failed \in [Caller -> BOOLEAN]
  /\ ticket \in [Caller -> Ticket \cup {None}] /\ state \in [Caller -> {"none", "ok", "panic"}]
  /\ events \in [Caller -> Nat] /\ token \in [Caller -> {"none", "stored", "sent"}]
  /\ registered \in [Caller -> BOOLEAN] /\ calls \in 0..MaxCalls
  /\ result \in [Caller -> {"none", "refused", "ok", "panic", "cancelled"}]
  /\ nested \in [Parent -> Int] /\ child \in SUBSET Job /\ begun \in SUBSET Job
  /\ passed \in [PoolIndex -> [normal : Nat, background : Nat]]

\* The nested use of a parent permit is exactly the children that exist, and
\* never more than the parent owns: neither a panic, nor a refusal half-way,
\* nor a cancelled job loses or duplicates a token.
NestedExact ==
  \A m \in Parent : /\ nested[m] = Cardinality({j \in child : call[j[1]].parent = m})
                    /\ nested[m] <= Width[m]

\* When a call has returned, nothing of it is left in the pool: no job waiting
\* or running, and no child permit that would keep its parent's tokens.
ReturnsClean ==
  \A c \in Caller : pc[c] = "idle" =>
    /\ \A j \in child : j[1] # c
    /\ \A p \in PoolIndex : \A j \in Accepted(p) : j[1] # c
    /\ \A w \in Worker : /\ slot[w] # None => slot[w].job[1] # c
                         /\ at[w] = "running" => doing[w][1] # c

\* What a call reports is what happened: a cancelled or refused call ran none
\* of its jobs, and a call that reports an outcome ran all of them.
ResultsHonest ==
  \A c \in Caller :
    /\ result[c] \in {"cancelled", "refused"} => begun \cap Jobs(c) = {}
    /\ result[c] \in {"ok", "panic"} => Jobs(c) \subseteq begun

\* No accepted job is left to sleeping workers: the worker a slot belongs to
\* is awake, and so is some worker of a pool with queued jobs.
NoJobStranded ==
  /\ \A w \in Worker : slot[w] # None => at[w] \notin {"asleep", "exited"}
  /\ \A p \in PoolIndex : Accepted(p) # {} => \E w \in Members(p) : at[w] \notin {"asleep", "exited"}

\* take_job starves nobody: in a pool, at most BurstLimit foreground jobs in a
\* row are taken over a waiting background job, and at most BurstLimit high
\* priority ones over a waiting normal job, whoever takes them.
NoStarvation ==
  \A p \in PoolIndex : passed[p].background <= BurstLimit /\ passed[p].normal <= BurstLimit

\* Every call returns: pc[c] # "idle" ~> pc[c] = "idle".
PoolCallsReturn == \A c \in Caller : []<>(pc[c] = "idle")

\* The threads end after a shutdown, so the joins in drop return.
JoinsEnd == shutdown ~> \A w \in Worker : at[w] = "exited"
=============================================================================
