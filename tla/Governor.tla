------------------------------ MODULE Governor ------------------------------
(***************************************************************************)
(* The resource governor: admission of work against a global budget and a  *)
(* budget per workload class (governor.rs).                                *)
(*                                                                         *)
(* A caller takes tokens without waiting (try_admit) or waits in a bounded *)
(* priority queue (admit_queued_owned).  At most one waiting ticket is     *)
(* selected; only its caller may take tokens.  The queue and the counters  *)
(* are guarded by one mutex, waiting is on one condition variable, and a   *)
(* cancellation stores its flag outside the mutex and then notifies.       *)
(*                                                                         *)
(* The wait loop is split where another thread may act: at the mutex, and  *)
(* between the look at the cancellation flag and the wait.                 *)
(***************************************************************************)
EXTENDS Integers, Sequences, FiniteSets

CONSTANTS Caller,        \* threads that ask for admission
          None,          \* no ticket is selected, nobody has the mutex
          Mode,          \* GovernorMode of the policy
          Workers,       \* its calibrated_worker_limit
          IoSlots,       \* its io_slots
          MemoryBytes,   \* its memory_bytes
          QueueCapacity, \* its admission_queue_capacity
          BurstLimit,    \* its foreground_burst_limit
          Call,          \* the calls a caller may make: class and request
          MaxCalls,      \* bound: calls made
          MaxInterrupts  \* bound: deadlines that pass and cancellations

Resource == {"compute", "io", "memory"}
Foreground == {"ForegroundPoint", "ForegroundBounded", "Mutation"}
Background == {"Bulk", "Maintenance", "Recovery", "Administrative"}
Class == Foreground \cup Background
Modes == {"Latency", "Bulk", "Mixed"}

ASSUME GovernorAssumption ==
  /\ IsFiniteSet(Caller) /\ None \notin Caller
  /\ Mode \in Modes
  /\ {Workers, IoSlots, MemoryBytes, QueueCapacity} \subseteq Nat \ {0}
  /\ BurstLimit \in Nat
  /\ Call \subseteq [class : Class, request : [Resource -> Nat]]
  /\ {MaxCalls, MaxInterrupts} \subseteq Nat

-----------------------------------------------------------------------------
(* The policy: what the calibrated machine leaves to admission, and each   *)
(* class's share of it.                                                    *)
Least(a, b) == IF a < b THEN a ELSE b
Greatest(a, b) == IF a < b THEN b ELSE a
CeilDiv(a, n) == (a + n - 1) \div n

SystemThreadReserve(w) == IF w <= 1 THEN 0 ELSE Least(Greatest(w \div 12, 1), w - 1)
Schedulable(w) == Greatest(w - SystemThreadReserve(w), 1)

ClassComputeLimit(mode, class, total) ==
  LET quarter == Greatest(CeilDiv(total, 4), 1)
      half == Greatest(CeilDiv(total, 2), 1)
  IN  CASE class = "ForegroundPoint" -> 1
        [] class = "Mutation" -> Least(total, 2)
        [] mode = "Latency" -> IF class = "ForegroundBounded" THEN total ELSE quarter
        [] mode = "Bulk" -> IF class \in {"Bulk", "Recovery"} THEN total
                            ELSE IF class = "ForegroundBounded" THEN quarter ELSE half
        [] OTHER -> IF class \in {"ForegroundBounded", "Bulk"} THEN half ELSE quarter

ClassIoLimit(class, total) ==
  CASE class = "ForegroundPoint" -> 1
    [] class = "Mutation" -> Least(total, 2)
    [] class = "ForegroundBounded" -> Greatest(CeilDiv(total, 2), 1)
    [] OTHER -> total

ClassMemoryLimit(class, total) ==
  CASE class = "ForegroundPoint" -> Least(total, 64 * 1024 * 1024)
    [] class = "Mutation" -> Greatest(CeilDiv(total, 8), 1)
    [] class = "ForegroundBounded" -> Greatest(CeilDiv(total, 2), 1)
    [] OTHER -> total

Tokens(compute, io, memory) ==
  [r \in Resource |-> IF r = "compute" THEN compute ELSE IF r = "io" THEN io ELSE memory]

Capacity == Tokens(Schedulable(Workers), IoSlots, MemoryBytes)
Limit == [class \in Class |-> Tokens(ClassComputeLimit(Mode, class, Schedulable(Workers)),
                                     ClassIoLimit(class, IoSlots),
                                     ClassMemoryLimit(class, MemoryBytes))]

-----------------------------------------------------------------------------
VARIABLES
  queue,     \* callers that hold a ticket, in ticket order
  selected,  \* the selected ticket's caller, or None
  burst,     \* foreground_dispatches_since_background
  global,    \* tokens held, by resource
  classUse,  \* tokens held, by class and resource
  lock,      \* who is inside the mutex between two steps
  pc,        \* where each caller is
  call,      \* what it asks for
  held,      \* the tokens its permit owns
  expired,   \* its deadline has passed
  cancel,    \* its cancellation token: "none", "stored" or "done"
  calls,     \* bound: calls made
  interrupts,\* bound: deadlines passed and cancellations
  passed     \* history: background work that fits, passed over (see Passing)

vars == <<queue, selected, burst, global, classUse, lock, pc, call, held,
          expired, cancel, calls, interrupts, passed>>

Nothing == [r \in Resource |-> 0]
Waiting == {"loop", "ready", "waiting", "woken"}
Place == {"idle", "entering", "holding"} \cup Waiting
NoCall == [class |-> "Administrative", request |-> Nothing]

TypeOK ==
  /\ queue \in Seq(Caller) /\ selected \in Caller \cup {None}
  /\ burst \in 0..BurstLimit
  /\ global \in [Resource -> Int] /\ classUse \in [Class -> [Resource -> Int]]
  /\ lock \in Caller \cup {None}
  /\ pc \in [Caller -> Place]
  /\ call \in [Caller -> [class : Class, request : [Resource -> Nat]]]
  /\ held \in [Caller -> [Resource -> Nat]]
  /\ expired \in [Caller -> BOOLEAN]
  /\ cancel \in [Caller -> {"none", "stored", "done"}]
  /\ calls \in 0..MaxCalls /\ interrupts \in 0..MaxInterrupts
  /\ passed \in [over : BOOLEAN, count : Nat]

Init ==
  /\ queue = <<>> /\ selected = None /\ burst = 0
  /\ global = Nothing /\ classUse = [k \in Class |-> Nothing]
  /\ lock = None
  /\ pc = [c \in Caller |-> "idle"]
  /\ call = [c \in Caller |-> NoCall]
  /\ held = [c \in Caller |-> Nothing]
  /\ expired = [c \in Caller |-> FALSE]
  /\ cancel = [c \in Caller |-> "none"]
  /\ calls = 0 /\ interrupts = 0
  /\ passed = [over |-> FALSE, count |-> 0]

Plus(f, g) == [r \in Resource |-> f[r] + g[r]]
Minus(f, g) == [r \in Resource |-> f[r] - g[r]]
Within(f, g) == \A r \in Resource : f[r] <= g[r]

ClassOf(c) == call[c].class
Asks(c) == call[c].request

\* Mutant: the budget of the whole machine is not looked at.
FitsClassOnly(k, use, by) == \A r \in Resource : by[k.class][r] + k.request[r] <= Limit[k.class][r]

\* can_reserve_admission, for given counters
FitsCall(k, use, by) ==
  \A r \in Resource : /\ use[r] + k.request[r] <= Capacity[r]
                      /\ by[k.class][r] + k.request[r] <= Limit[k.class][r]

Fits(c, use, by) == FitsCall(call[c], use, by)

\* validate_request and exceeds
Valid(k) == k.request # Nothing /\ Within(k.request, Limit[k.class])

Tickets(q) == {q[i] : i \in DOMAIN q}
Without(q, c) ==  \* the queue after its one ticket of c is taken out
  LET i == CHOOSE i \in DOMAIN q : q[i] = c
  IN  [j \in 1..(Len(q) - 1) |-> IF j < i THEN q[j] ELSE q[j + 1]]
BackgroundIn(q) == {c \in Tickets(q) : ClassOf(c) \in Background}

\* The three queues in the order they are searched.
Rank(c, force) ==
  CASE ClassOf(c) \in {"ForegroundPoint", "Mutation"} -> 1
    [] ClassOf(c) = "ForegroundBounded" -> 2
    [] OTHER -> IF force THEN 0 ELSE 3

\* Mutant: background work is looked at only when it is forced.
ChoiceForcedOnly(q, b, use, by) ==
  LET fit == {i \in DOMAIN q : /\ Fits(q[i], use, by)
                               /\ ClassOf(q[i]) \in Background => b >= BurstLimit}
  IN  IF fit = {} THEN None ELSE q[CHOOSE i \in fit : \A j \in fit : i <= j]

\* select_next_locked where no ticket is selected: the first ticket that fits,
\* of the first queue that has one.
Choice(q, b, use, by) ==
  LET force == BackgroundIn(q) # {} /\ b >= BurstLimit
      fit == {i \in DOMAIN q : Fits(q[i], use, by)}
      before(i, j) == \/ Rank(q[i], force) < Rank(q[j], force)
                      \/ Rank(q[i], force) = Rank(q[j], force) /\ i <= j
  IN  IF fit = {} THEN None ELSE q[CHOOSE i \in fit : \A j \in fit : before(i, j)]

\* History for BurstBounded.  over: some background ticket fitted when the
\* selected ticket was selected.  count: foreground tickets dispatched over
\* such work since background work was last dispatched or absent.
Passing(q, sel, use, by, n) ==
  passed' = [over |-> IF sel # None THEN passed.over
                      ELSE \E c \in BackgroundIn(q) : Fits(c, use, by),
             count |-> IF BackgroundIn(q) = {} THEN 0 ELSE n]

\* The end of every critical section that changes the queue or the counters:
\* select_next_locked, then queue_changed.notify_all.  c goes on at p.
SelectNext(q, sel, b, use, by, n) ==
  /\ queue' = q /\ burst' = b /\ global' = use /\ classUse' = by
  /\ selected' = IF sel # None THEN sel ELSE Choice(q, b, use, by)
  /\ Passing(q, sel, use, by, n)

Notify(c, p) ==
  /\ pc' = [d \in Caller |-> IF d = c THEN p ELSE IF pc[d] = "waiting" THEN "woken" ELSE pc[d]]
  /\ call' = IF p = "idle" THEN [call EXCEPT ![c] = NoCall] ELSE call
  /\ expired' = IF p = "idle" THEN [expired EXCEPT ![c] = FALSE] ELSE expired

Goto(c, p) == pc' = [pc EXCEPT ![c] = p]
counters == <<queue, selected, burst, global, classUse, passed>>
bounds == <<calls, interrupts>>

-----------------------------------------------------------------------------
(* admit_queued_owned.                                                     *)
NewCall == calls < MaxCalls /\ calls' = calls + 1

Enter(c) ==
  /\ pc[c] = "idle" /\ NewCall
  /\ \E k \in Call :
       IF Valid(k) /\ cancel[c] = "none"
       THEN Goto(c, "entering") /\ call' = [call EXCEPT ![c] = k]
       ELSE UNCHANGED <<pc, call>>
  /\ UNCHANGED <<counters, lock, held, expired, cancel, interrupts>>

EnqueueFull(c) ==
  /\ pc[c] = "entering" /\ lock = None
  /\ Len(queue) >= QueueCapacity
  /\ Goto(c, "idle")
  /\ call' = [call EXCEPT ![c] = NoCall]
  /\ UNCHANGED <<counters, lock, held, expired, cancel, bounds>>

Enqueue(c) ==
  /\ pc[c] = "entering" /\ lock = None
  /\ Len(queue) < QueueCapacity
  /\ SelectNext(Append(queue, c), selected, burst, global, classUse, passed.count)
  /\ Notify(c, "loop")
  /\ lock' = c
  /\ UNCHANGED <<held, cancel, bounds>>

\* The ticket goes without tokens: cancelled or timed out.
Leave(c) ==
  /\ SelectNext(Without(queue, c), IF selected = c THEN None ELSE selected,
                burst, global, classUse, passed.count)
  /\ Notify(c, "idle")
  /\ lock' = None
  /\ UNCHANGED <<held, cancel, bounds>>

LoopCancelled(c) == pc[c] = "loop" /\ cancel[c] # "none" /\ Leave(c)

LoopContinues(c) ==
  /\ pc[c] = "loop" /\ cancel[c] = "none"
  /\ Goto(c, "ready") /\ UNCHANGED call
  /\ UNCHANGED <<counters, lock, held, expired, cancel, bounds>>

MayClaim(c) == selected = c /\ Fits(c, global, classUse)

\* Mutant: dispatches are not counted.
RecordNothing(q, c) == burst

\* record_dispatch, after c has left the queue
RecordDispatch(q, c) ==
  IF ClassOf(c) \in Foreground /\ BackgroundIn(q) # {} THEN Least(burst + 1, BurstLimit) ELSE 0

Claim(c) ==
  /\ pc[c] = "ready" /\ MayClaim(c)
  /\ LET q == Without(queue, c)
     IN  SelectNext(q, None, RecordDispatch(q, c), Plus(global, Asks(c)),
                    [classUse EXCEPT ![ClassOf(c)] = Plus(@, Asks(c))],
                    IF ClassOf(c) \in Background THEN 0
                    ELSE IF passed.over THEN passed.count + 1 ELSE passed.count)
  /\ Notify(c, "holding")
  /\ lock' = None
  /\ held' = [held EXCEPT ![c] = Asks(c)]
  /\ UNCHANGED <<cancel, bounds>>

LoopTimedOut(c) == pc[c] = "ready" /\ ~MayClaim(c) /\ expired[c] /\ Leave(c)

Park(c) ==
  /\ pc[c] = "ready" /\ ~MayClaim(c) /\ ~expired[c]
  /\ Goto(c, "waiting") /\ UNCHANGED call
  /\ lock' = None
  /\ UNCHANGED <<counters, held, expired, cancel, bounds>>

Wake(c) ==
  /\ pc[c] = "woken" /\ lock = None
  /\ Goto(c, "loop") /\ UNCHANGED call
  /\ lock' = c
  /\ UNCHANGED <<counters, held, expired, cancel, bounds>>

-----------------------------------------------------------------------------
\* Mutant: the fast path ignores the queue.
NobodyAsked == TRUE
NobodyWaits == queue = <<>>

\* try_admit and try_admit_owned: no waiting, and nobody waits ahead.
TryAdmit(c) ==
  /\ pc[c] = "idle" /\ lock = None /\ NewCall
  /\ \E k \in Call :
       IF NobodyWaits /\ FitsCall(k, global, classUse)
       THEN /\ global' = Plus(global, k.request)
            /\ classUse' = [classUse EXCEPT ![k.class] = Plus(@, k.request)]
            /\ held' = [held EXCEPT ![c] = k.request]
            /\ call' = [call EXCEPT ![c] = k]
            /\ Goto(c, "holding")
       ELSE UNCHANGED <<global, classUse, held, call, pc>>
  /\ UNCHANGED <<queue, selected, burst, passed, lock, expired, cancel, interrupts>>

\* Mutant: only the class gets its tokens back.
ReturnToClass(c, t, p) ==
  /\ SelectNext(queue, selected, burst, global, [classUse EXCEPT ![ClassOf(c)] = Minus(@, t)],
                passed.count)
  /\ held' = [held EXCEPT ![c] = Minus(@, t)]
  /\ Notify(c, p)
  /\ UNCHANGED <<lock, cancel, bounds>>
\* The tokens t go back (release_admission, shrink_admission).
Return(c, t, p) ==
  /\ SelectNext(queue, selected, burst, Minus(global, t),
                [classUse EXCEPT ![ClassOf(c)] = Minus(@, t)], passed.count)
  /\ held' = [held EXCEPT ![c] = Minus(@, t)]
  /\ Notify(c, p)
  /\ UNCHANGED <<lock, cancel, bounds>>

Release(c) == pc[c] = "holding" /\ lock = None /\ Return(c, held[c], "idle")

\* shrink_to keeps the memory and gives compute and I/O back.
ShrinkTo(c) ==
  /\ pc[c] = "holding" /\ lock = None
  /\ held[c]["memory"] > 0 /\ held[c]["compute"] + held[c]["io"] > 0
  /\ Return(c, [held[c] EXCEPT !["memory"] = 0], "holding")

-----------------------------------------------------------------------------
Interrupt == interrupts < MaxInterrupts /\ interrupts' = interrupts + 1

\* The deadline passes; wait_timeout ends.
Expire(c) ==
  /\ Interrupt
  /\ pc[c] \in Waiting /\ ~expired[c]
  /\ expired' = [expired EXCEPT ![c] = TRUE]
  /\ IF pc[c] = "waiting" THEN Goto(c, "woken") ELSE UNCHANGED pc
  /\ UNCHANGED <<counters, lock, call, held, cancel, calls>>

\* GovernorCancellation::cancel: the flag, and later the notification.
CancelStore(c) ==
  /\ Interrupt
  /\ pc[c] \in {"idle", "entering"} \cup Waiting /\ cancel[c] = "none"
  /\ cancel' = [cancel EXCEPT ![c] = "stored"]
  /\ UNCHANGED <<counters, lock, pc, call, held, expired, calls>>

\* Mutant: the notification is sent without the mutex.
CancelNotifyUnlocked(c) ==
  /\ cancel[c] = "stored"
  /\ cancel' = [cancel EXCEPT ![c] = "done"]
  /\ pc' = [d \in Caller |-> IF pc[d] = "waiting" THEN "woken" ELSE pc[d]]
  /\ UNCHANGED <<counters, lock, call, held, expired, bounds>>

CancelNotify(c) ==
  /\ cancel[c] = "stored" /\ lock = None
  /\ cancel' = [cancel EXCEPT ![c] = "done"]
  /\ pc' = [d \in Caller |-> IF pc[d] = "waiting" THEN "woken" ELSE pc[d]]
  /\ UNCHANGED <<counters, lock, call, held, expired, bounds>>

Queued(c) == \/ Enter(c) \/ EnqueueFull(c) \/ Enqueue(c) \/ LoopCancelled(c)
             \/ LoopContinues(c) \/ Claim(c) \/ LoopTimedOut(c) \/ Park(c) \/ Wake(c)

Next == \E c \in Caller : \/ Queued(c) \/ TryAdmit(c) \/ Release(c) \/ ShrinkTo(c)
                          \/ Expire(c) \/ CancelStore(c) \/ CancelNotify(c)

\* What the threads do on their own: finish the calls they made, end the work
\* that holds tokens, finish a cancellation.
Running(c) == \/ EnqueueFull(c) \/ Enqueue(c) \/ LoopCancelled(c) \/ LoopContinues(c)
              \/ Claim(c) \/ LoopTimedOut(c) \/ Park(c) \/ Wake(c) \/ Release(c) \/ CancelNotify(c)

\* The process as a whole does not stop while a thread can run; which one, and
\* whether a deadline ever passes, is left open.
Spec == Init /\ [][Next]_vars
FairSpec == Spec /\ WF_vars(\E c \in Caller : Running(c))

-----------------------------------------------------------------------------
\* Whoever is selected can take the tokens it asked for at once: between
\* select_next_locked and the claim, no other caller can use them up.
\* Otherwise the queue would stand still behind a ticket that cannot run.
SelectedFits == selected # None => selected \in Tickets(queue) /\ Fits(selected, global, classUse)

\* No waiting ticket that fits is forgotten: with none selected, every ticket
\* in the queue is too large for what is left.
NothingOverlooked == selected = None => \A c \in Tickets(queue) : ~Fits(c, global, classUse)

\* Both together: the queue moves whenever something in it can.
SelectionSound == SelectedFits /\ NothingOverlooked

\* Whoever has to act is awake: the selected caller, a caller whose
\* cancellation call is over, and a caller whose deadline has passed never
\* sleep on the condition variable.
NoLostWakeup ==
  \A c \in Caller : pc[c] = "waiting" => selected # c /\ cancel[c] # "done" /\ ~expired[c]

\* At most BurstLimit foreground calls overtake background work that would
\* have fitted, before background work runs.
BurstBounded == passed.count <= BurstLimit

\* The tokens handed out stay within the machine and within each class.
WithinBudget ==
  Within(global, Capacity) /\ \A k \in Class : Within(classUse[k], Limit[k])

\* How many of resource r the permits of the callers in S own.
Owned(S, r) == Cardinality(UNION {{c} \X (1..held[c][r]) : c \in S})

\* The counters are exactly what the permits own: nothing is lost by a
\* cancelled, timed-out or shrunk admission, and nothing is returned twice.
TokensExact ==
  \A r \in Resource :
    /\ global[r] = Owned(Caller, r)
    /\ \A k \in Class : classUse[k][r] = Owned({c \in Caller : ClassOf(c) = k}, r)

\* Every call that got into the queue comes back, with or without tokens: no caller is
\* for ever on the way, pc[c] \in {"entering"} \cup Waiting ~> pc[c] \in {"idle", "holding"}.
AdmissionsReturn == \A c \in Caller : []<>(pc[c] \in {"idle", "holding"})
=============================================================================
