--------------------------- MODULE GovernorProofs ---------------------------
(* Theorems about Governor, for every value of its constants. *)
EXTENDS Governor, FiniteSetTheorems, WellFoundedInduction, TLAPS

-----------------------------------------------------------------------------
(* The policy.                                                             *)
LEMMA ShareOfTotal ==
  ASSUME NEW t \in Nat \ {0}
  PROVE  /\ Greatest(CeilDiv(t, 4), 1) \in 1..t
         /\ Greatest(CeilDiv(t, 2), 1) \in 1..t
         /\ Greatest(CeilDiv(t, 8), 1) \in 1..t
         /\ Least(t, 2) \in 1..t
         /\ Least(t, 64 * 1024 * 1024) \in 1..t
  BY DEF Greatest, CeilDiv, Least

\* Every class may use at least one token of every resource and never more
\* than the machine has, in every mode and for every machine: no class is
\* shut out by the arithmetic of class_limits.
THEOREM LimitsSound ==
  /\ Capacity \in [Resource -> Nat \ {0}]
  /\ Limit \in [Class -> [Resource -> Nat]]
  /\ \A k \in Class, r \in Resource : Limit[k][r] \in 1..Capacity[r]
<1>1. Schedulable(Workers) \in Nat \ {0} /\ IoSlots \in Nat \ {0} /\ MemoryBytes \in Nat \ {0}
  <2>1. ASSUME NEW w \in Nat \ {0}
        PROVE  SystemThreadReserve(w) \in Nat
    BY DEF SystemThreadReserve, Least, Greatest
  <2>2. Schedulable(Workers) \in Nat \ {0}
    BY <2>1, GovernorAssumption DEF Schedulable, Greatest
  <2> QED
    BY <2>2, GovernorAssumption
<1>2. ASSUME NEW k \in Class, NEW t \in Nat \ {0}
      PROVE  /\ ClassComputeLimit(Mode, k, t) \in 1..t
             /\ ClassIoLimit(k, t) \in 1..t
             /\ ClassMemoryLimit(k, t) \in 1..t
  <2>1. ClassComputeLimit(Mode, k, t) \in 1..t
    <3> DEFINE quarter == Greatest(CeilDiv(t, 4), 1)
               half == Greatest(CeilDiv(t, 2), 1)
    <3>1. quarter \in 1..t /\ half \in 1..t /\ Least(t, 2) \in 1..t /\ 1 \in 1..t /\ t \in 1..t
      BY ShareOfTotal
    <3>2. ClassComputeLimit(Mode, k, t) \in {1, t, Least(t, 2), quarter, half}
      BY DEF ClassComputeLimit
    <3> QED
      BY <3>1, <3>2
  <2>2. ClassIoLimit(k, t) \in 1..t
    BY ShareOfTotal DEF ClassIoLimit
  <2>3. ClassMemoryLimit(k, t) \in 1..t
    BY ShareOfTotal DEF ClassMemoryLimit
  <2> QED
    BY <2>1, <2>2, <2>3
<1>3. Capacity \in [Resource -> Nat \ {0}]
  BY <1>1 DEF Capacity, Tokens
<1>4. \A k \in Class : Limit[k] \in [Resource -> Nat]
  BY <1>1, <1>2 DEF Limit, Tokens
<1>5. \A k \in Class, r \in Resource : Limit[k][r] \in 1..Capacity[r]
  BY <1>1, <1>2 DEF Limit, Capacity, Tokens
<1>6. Limit \in [Class -> [Resource -> Nat]]
  BY <1>4 DEF Limit
<1> QED
  BY <1>3, <1>5, <1>6

-----------------------------------------------------------------------------
(* Numbers and counters.                                                   *)
LEMMA NaturalIsInteger == \A n \in Nat : n \in Int
  OBVIOUS

LEMMA BelowBelow == \A a, b, m \in Int : a <= b /\ b <= m => a <= m
  OBVIOUS

LEMMA BelowFits == \A a, b, q, m \in Int : a <= b /\ b + q <= m => a + q <= m
  OBVIOUS

LEMMA SameDistance == \A a, b, c, x, y \in Int : a - x = c - y /\ b - x = c - y => a = b
  OBVIOUS

LEMMA TakenAway == \A a, b, t \in Int : a - a = 0 /\ (a + t) - t = a - 0 /\ (a - t) - (b - t) = a - b /\ a - 0 = a
  OBVIOUS

LEMMA MinusFacts ==
  ASSUME NEW f \in [Resource -> Int], NEW t \in [Resource -> Nat]
  PROVE  /\ Minus(f, t) \in [Resource -> Int]
         /\ \A r \in Resource : Minus(f, t)[r] = f[r] - t[r] /\ Minus(f, t)[r] <= f[r]
  BY DEF Minus

LEMMA PlusFacts ==
  ASSUME NEW f \in [Resource -> Int], NEW t \in [Resource -> Nat]
  PROVE  /\ Plus(f, t) \in [Resource -> Int]
         /\ \A r \in Resource : Plus(f, t)[r] = f[r] + t[r]
  BY DEF Plus

LEMMA ClassCounters ==
  ASSUME NEW f \in [Class -> [Resource -> Int]], NEW k \in Class, NEW g \in [Resource -> Int]
  PROVE  /\ [f EXCEPT ![k] = g] \in [Class -> [Resource -> Int]]
         /\ [f EXCEPT ![k] = g][k] = g /\ \A j \in Class : j # k => [f EXCEPT ![k] = g][j] = f[j]
  BY Zenon

\* One class more or less by what t says.
More(f, k, t) == [f EXCEPT ![k] = Plus(@, t)]
Less(f, k, t) == [f EXCEPT ![k] = Minus(@, t)]
Part(k, j, n) == IF k = j THEN n ELSE 0

LEMMA ClassPlus ==
  ASSUME NEW f \in [Class -> [Resource -> Int]], NEW k \in Class, NEW t \in [Resource -> Nat],
         NEW j \in Class, NEW r \in Resource
  PROVE  /\ More(f, k, t)[j][r] = f[j][r] + Part(k, j, t[r])
         /\ Less(f, k, t)[j][r] = f[j][r] - Part(k, j, t[r])
<1>1. f[j] \in [Resource -> Int] /\ f[j][r] \in Int
  BY Zenon
<1>2. \A a \in Int : a = a + 0 /\ a = a - 0
  OBVIOUS
<1>3. CASE j = k
  <2>1. More(f, k, t)[j] = Plus(f[j], t) /\ Less(f, k, t)[j] = Minus(f[j], t)
    BY <1>3, Zenon DEF More, Less
  <2>2. Plus(f[j], t)[r] = f[j][r] + t[r] /\ Minus(f[j], t)[r] = f[j][r] - t[r]
    BY <1>1, PlusFacts, MinusFacts, Zenon
  <2> QED
    BY <1>3, <2>1, <2>2, Zenon DEF Part
<1>4. CASE j # k
  <2>1. More(f, k, t)[j] = f[j] /\ Less(f, k, t)[j] = f[j]
    BY <1>4, Zenon DEF More, Less
  <2> QED
    BY <1>1, <1>2, <1>4, <2>1, Zenon DEF Part
<1> QED
  BY <1>3, <1>4, Zenon

-----------------------------------------------------------------------------
(* The queue and the choice of the next ticket.                            *)
Injective(q) == \A i, j \in DOMAIN q : q[i] = q[j] => i = j

LEMMA SmallestOf ==
  ASSUME NEW S \in SUBSET Nat, S # {}
  PROVE  \E x \in S : \A y \in S : x <= y
<1>1. PICK m \in S : \A y \in S : ~(<<y, m>> \in OpToRel(<, Nat))
  BY WFMin, NatLessThanWellFounded, Zenon
<1>2. ASSUME NEW y \in S
      PROVE  ~(y < m)
  BY <1>1, Zenon DEF OpToRel
<1>3. \A y \in S : m <= y
  BY <1>2
<1> QED
  BY <1>3

LEMMA WithoutFacts ==
  ASSUME NEW q \in Seq(Caller), Injective(q), NEW c \in Tickets(q)
  PROVE  /\ Without(q, c) \in Seq(Caller)
         /\ Injective(Without(q, c))
         /\ Tickets(Without(q, c)) = Tickets(q) \ {c}
<1>1. PICK i \in DOMAIN q : q[i] = c
  BY DEF Tickets
<1>2. (CHOOSE k \in DOMAIN q : q[k] = c) = i
  BY <1>1 DEF Injective
<1> DEFINE w == [j \in 1..(Len(q) - 1) |-> IF j < i THEN q[j] ELSE q[j + 1]]
<1>3. Without(q, c) = w
  BY <1>2, Zenon DEF Without
<1>4. i \in 1..Len(q) /\ Len(q) \in Nat /\ Len(q) - 1 \in Nat
  BY <1>1
<1>5. \A j \in 1..(Len(q) - 1) : /\ j \in 1..Len(q) /\ j + 1 \in 1..Len(q)
                                 /\ w[j] \in Caller
                                 /\ w[j] = IF j < i THEN q[j] ELSE q[j + 1]
  BY <1>4
<1>6. w \in Seq(Caller) /\ DOMAIN w = 1..(Len(q) - 1)
  BY <1>4, <1>5
<1>7. Injective(w)
  BY <1>4, <1>5, <1>6 DEF Injective
<1>8. \A j \in DOMAIN w : w[j] \in Tickets(q) /\ w[j] # c
  BY <1>1, <1>4, <1>5, <1>6 DEF Injective, Tickets
<1>9. ASSUME NEW d \in Tickets(q), d # c
      PROVE  d \in Tickets(w)
  <2>1. PICK k \in 1..Len(q) : q[k] = d
    BY DEF Tickets
  <2>2. CASE k < i
    <3>1. k \in DOMAIN w /\ w[k] = d
      BY <1>4, <1>5, <1>6, <2>1, <2>2
    <3> QED
      BY <3>1, Zenon DEF Tickets
  <2>3. CASE k > i
    <3>1. k - 1 \in DOMAIN w /\ w[k - 1] = d
      BY <1>4, <1>5, <1>6, <2>1, <2>3
    <3> QED
      BY <3>1, Zenon DEF Tickets
  <2>4. k # i
    BY <1>1, <2>1, <1>9
  <2> QED
    BY <1>4, <2>1, <2>2, <2>3, <2>4
<1>10. Tickets(w) = Tickets(q) \ {c}
  <2>1. Tickets(w) \subseteq Tickets(q) \ {c}
    BY <1>8, Zenon DEF Tickets
  <2> QED
    BY <2>1, <1>9, Zenon
<1> QED
  BY <1>3, <1>6, <1>7, <1>10, Zenon

\* What the search of the three queues returns: a ticket that fits when there
\* is one, and a background ticket when the burst is used up and one fits.
LEMMA ChoiceFacts ==
  ASSUME NEW q \in Seq(Caller), NEW b, NEW use, NEW by,
         \A c \in Caller : ClassOf(c) \in Class
  PROVE  /\ Choice(q, b, use, by) = None => \A c \in Tickets(q) : ~Fits(c, use, by)
         /\ Choice(q, b, use, by) # None => /\ Choice(q, b, use, by) \in Tickets(q)
                                            /\ Fits(Choice(q, b, use, by), use, by)
         /\ (b >= BurstLimit /\ \E c \in BackgroundIn(q) : Fits(c, use, by))
              => Choice(q, b, use, by) \in BackgroundIn(q)
<1> DEFINE force == BackgroundIn(q) # {} /\ b >= BurstLimit
           fit == {i \in DOMAIN q : Fits(q[i], use, by)}
           rank(i) == Rank(q[i], force)
           before(i, j) == \/ rank(i) < rank(j)
                           \/ rank(i) = rank(j) /\ i <= j
           best == CHOOSE i \in fit : \A j \in fit : before(i, j)
<1>1. Choice(q, b, use, by) = IF fit = {} THEN None ELSE q[best]
  BY Zenon DEF Choice
<1>2. \A i \in DOMAIN q : rank(i) \in 0..3
  BY DEF Rank
<1>3. \A i \in DOMAIN q : q[i] \in Caller /\ q[i] \in Tickets(q) /\ i \in Nat
  BY DEF Tickets
<1>4. ASSUME fit # {}
      PROVE  best \in fit /\ \A j \in fit : before(best, j)
  <2> DEFINE ranks == {rank(i) : i \in fit}
  <2>1. ranks \in SUBSET Nat /\ ranks # {}
    BY <1>2, <1>4
  <2> HIDE DEF ranks
  <2>2. PICK m \in ranks : \A y \in ranks : m <= y
    BY <2>1, SmallestOf
  <2> DEFINE ties == {i \in fit : rank(i) = m}
  <2>3. ties \in SUBSET Nat /\ ties # {}
    BY <1>3, <2>2 DEF ranks
  <2> HIDE DEF ties
  <2>4. PICK i \in ties : \A j \in ties : i <= j
    BY <2>3, SmallestOf
  <2>5. ASSUME NEW j \in fit
        PROVE  before(i, j)
    <3>1. i \in fit /\ rank(i) = m
      BY <2>4 DEF ties
    <3>2. rank(j) \in ranks
      BY DEF ranks
    <3>3. m <= rank(j) /\ rank(j) \in Int /\ m \in Int
      BY <1>2, <2>2, <3>1, <3>2
    <3>4. CASE rank(j) = m
      <4>1. j \in ties
        BY <3>4, Zenon DEF ties
      <4> QED
        BY <4>1, <2>4, <3>1, <3>4, Zenon
    <3>5. CASE rank(j) # m
      <4> HIDE DEF rank
      <4> QED
        BY <3>1, <3>3, <3>5
    <3> QED
      BY <3>4, <3>5
  <2>6. i \in fit
    BY <2>4 DEF ties
  <2> HIDE DEF before, fit
  <2> QED
    BY <2>5, <2>6, Zenon
<1>5. ASSUME fit = {}
      PROVE  \A c \in Tickets(q) : ~Fits(c, use, by)
  BY <1>5, Zenon DEF Tickets
<1>6. ASSUME fit # {}
      PROVE  q[best] \in Caller /\ q[best] \in Tickets(q) /\ Fits(q[best], use, by) /\ q[best] # None
  <2>1. best \in DOMAIN q /\ Fits(q[best], use, by)
    BY <1>4, <1>6, Zenon
  <2> HIDE DEF best
  <2> QED
    BY <2>1, <1>3, GovernorAssumption, Zenon
<1>7. ASSUME b >= BurstLimit, NEW c \in BackgroundIn(q), Fits(c, use, by)
      PROVE  fit # {} /\ q[best] \in BackgroundIn(q)
  <2>1. PICK k \in DOMAIN q : q[k] = c
    BY <1>7, Zenon DEF BackgroundIn, Tickets
  <2>2. k \in fit /\ force
    BY <1>7, <2>1, Zenon
  <2>3. rank(k) = 0
    BY <1>7, <2>1, <2>2 DEF Rank, BackgroundIn, Background
  <2>4. best \in fit /\ before(best, k)
    BY <1>4, <2>2, Zenon
  <2>5. rank(best) = 0
    <3>1. rank(best) \in 0..3
      BY <1>2, <2>4, Zenon
    <3> HIDE DEF rank, best
    <3> QED
      BY <2>3, <2>4, <3>1
  <2>6. best \in DOMAIN q /\ q[best] \in Tickets(q)
    BY <2>4, <1>3, Zenon
  <2> HIDE DEF best
  <2>7. ClassOf(q[best]) \in Background
    BY <2>5, <2>6, <1>3 DEF Rank, Class, Foreground
  <2> QED
    BY <2>2, <2>6, <2>7, Zenon DEF BackgroundIn
<1> HIDE DEF fit, best
<1> QED
  BY <1>1, <1>5, <1>6, <1>7, Zenon

-----------------------------------------------------------------------------
(* The inductive invariant.                                                *)

\* The tickets are the callers inside the wait loop, each with one ticket;
\* whoever is inside the loop's body has the mutex, and was not cancelled for
\* good when it looked.
Shape ==
  /\ TypeOK
  /\ Injective(queue)
  /\ \A c \in Caller : c \in Tickets(queue) <=> pc[c] \in Waiting
  /\ \A c \in Caller : pc[c] \in {"loop", "ready"} => lock = c
  /\ \A c \in Caller : pc[c] = "ready" => cancel[c] # "done"

\* The burst counter is an upper bound of the overtakings that count.
Sharing ==
  /\ BackgroundIn(queue) # {} => passed.count <= burst
  /\ BackgroundIn(queue) = {} => passed.count = 0
  /\ selected # None /\ passed.over /\ ClassOf(selected) \in Foreground => burst < BurstLimit

Turns == SelectedFits /\ NothingOverlooked /\ Sharing
GovernorInv == Shape /\ Turns /\ NoLostWakeup /\ WithinBudget

LEMMA GovernorInit == Init => GovernorInv
<1> SUFFICES ASSUME Init PROVE GovernorInv
  OBVIOUS
<1>1. Nothing \in [Resource -> Nat] /\ \A r \in Resource : Nothing[r] = 0
  BY DEF Nothing
<1>2. NoCall \in [class : Class, request : [Resource -> Nat]]
  BY <1>1 DEF NoCall, Class, Background
<1>3. Tickets(queue) = {} /\ BackgroundIn(queue) = {}
  BY DEF Init, Tickets, BackgroundIn
<1>4. TypeOK
  BY <1>1, <1>2, GovernorAssumption DEF Init, TypeOK, Place
<1>5. Shape
  BY <1>3, <1>4 DEF Init, Shape, Injective, Waiting
<1>6. SelectedFits /\ NothingOverlooked /\ NoLostWakeup /\ Sharing
  BY <1>3 DEF Init, SelectedFits, NothingOverlooked, NoLostWakeup, Sharing
<1>7. WithinBudget
  BY <1>1, LimitsSound DEF Init, WithinBudget, Within
<1> QED
  BY <1>5, <1>6, <1>7 DEF GovernorInv, Turns

\* What the end of a critical section establishes, for the new queue, burst and
\* counters it is given.
LEMMA SelectNextFacts ==
  ASSUME TypeOK, NEW q \in Seq(Caller), NEW sel \in Tickets(q) \cup {None}, NEW b \in 0..BurstLimit,
         NEW use, NEW by, NEW n \in Nat,
         sel # None => Fits(sel, use, by),
         sel # None /\ passed.over /\ ClassOf(sel) \in Foreground => b < BurstLimit,
         BackgroundIn(q) # {} => n <= b,
         SelectNext(q, sel, b, use, by, n)
  PROVE  /\ queue' = q /\ burst' = b /\ global' = use /\ classUse' = by
         /\ selected' \in Tickets(q) \cup {None} /\ selected' \in Caller \cup {None}
         /\ selected' # None => Fits(selected', use, by)
         /\ selected' = None => \A c \in Tickets(q) : ~Fits(c, use, by)
         /\ selected' # None /\ passed'.over /\ ClassOf(selected') \in Foreground => b < BurstLimit
         /\ passed' \in [over : BOOLEAN, count : Nat]
         /\ BackgroundIn(q) # {} => passed'.count <= b
         /\ BackgroundIn(q) = {} => passed'.count = 0
<1>1. \A c \in Caller : ClassOf(c) \in Class
  BY DEF TypeOK, ClassOf
<1>2. queue' = q /\ burst' = b /\ global' = use /\ classUse' = by
  BY Zenon DEF SelectNext
<1> DEFINE ch == Choice(q, b, use, by)
<1>3. selected' = IF sel # None THEN sel ELSE ch
  BY Zenon DEF SelectNext
<1>4. /\ ch = None => \A c \in Tickets(q) : ~Fits(c, use, by)
      /\ ch # None => ch \in Tickets(q) /\ Fits(ch, use, by)
      /\ (b >= BurstLimit /\ \E c \in BackgroundIn(q) : Fits(c, use, by)) => ch \in BackgroundIn(q)
  BY <1>1, ChoiceFacts, Zenon
<1>5. passed' = [over |-> IF sel # None THEN passed.over
                          ELSE \E c \in BackgroundIn(q) : Fits(c, use, by),
                 count |-> IF BackgroundIn(q) = {} THEN 0 ELSE n]
  BY Zenon DEF SelectNext, Passing
<1>6. /\ passed'.over = IF sel # None THEN passed.over ELSE \E c \in BackgroundIn(q) : Fits(c, use, by)
      /\ passed'.count = IF BackgroundIn(q) = {} THEN 0 ELSE n
      /\ passed.over \in BOOLEAN
  BY <1>5 DEF TypeOK
<1>7. passed' \in [over : BOOLEAN, count : Nat]
  <2>1. (IF sel # None THEN passed.over ELSE \E c \in BackgroundIn(q) : Fits(c, use, by)) \in BOOLEAN
    BY <1>6, Zenon
  <2>2. (IF BackgroundIn(q) = {} THEN 0 ELSE n) \in Nat
    OBVIOUS
  <2> QED
    BY <1>5, <2>1, <2>2, Zenon
<1>8. Tickets(q) \subseteq Caller
  BY DEF Tickets
<1> HIDE DEF ch
<1>9. selected' # None /\ passed'.over /\ ClassOf(selected') \in Foreground => b < BurstLimit
  <2>1. CASE sel # None
    BY <1>3, <1>6, <2>1, Zenon
  <2>2. CASE sel = None
    <3> SUFFICES ASSUME passed'.over, ClassOf(selected') \in Foreground, ~(b < BurstLimit)
                 PROVE  FALSE
      OBVIOUS
    <3>1. b >= BurstLimit
      BY GovernorAssumption
    <3>2. selected' \in BackgroundIn(q)
      BY <1>3, <1>4, <1>6, <2>2, <3>1, Zenon
    <3>3. ClassOf(selected') \in Background
      BY <3>2 DEF BackgroundIn
    <3> QED
      BY <3>3 DEF Foreground, Background
  <2> QED
    BY <2>1, <2>2
<1>10. /\ selected' \in Tickets(q) \cup {None} /\ selected' \in Caller \cup {None}
       /\ selected' # None => Fits(selected', use, by)
       /\ selected' = None => \A c \in Tickets(q) : ~Fits(c, use, by)
  BY <1>3, <1>4, <1>8, Zenon
<1>11. (BackgroundIn(q) # {} => passed'.count <= b) /\ (BackgroundIn(q) = {} => passed'.count = 0)
  BY <1>6
<1> QED
  BY <1>2, <1>7, <1>9, <1>10, <1>11, Zenon

\* The same in terms of the invariant, when the waiting calls stay as they are.
LEMMA Settled ==
  ASSUME TypeOK, NEW q \in Seq(Caller), NEW sel \in Tickets(q) \cup {None}, NEW b \in 0..BurstLimit,
         NEW use, NEW by, NEW n \in Nat,
         sel # None => Fits(sel, use, by),
         sel # None /\ passed.over /\ ClassOf(sel) \in Foreground => b < BurstLimit,
         BackgroundIn(q) # {} => n <= b,
         SelectNext(q, sel, b, use, by, n),
         \A c \in Tickets(q) : call'[c] = call[c]
  PROVE  /\ queue' = q /\ burst' = b /\ global' = use /\ classUse' = by
         /\ selected' \in Caller \cup {None} /\ passed' \in [over : BOOLEAN, count : Nat]
         /\ Turns'
<1>1. /\ queue' = q /\ burst' = b /\ global' = use /\ classUse' = by
      /\ selected' \in Tickets(q) \cup {None} /\ selected' \in Caller \cup {None}
      /\ selected' # None => Fits(selected', use, by)
      /\ selected' = None => \A c \in Tickets(q) : ~Fits(c, use, by)
      /\ selected' # None /\ passed'.over /\ ClassOf(selected') \in Foreground => b < BurstLimit
      /\ passed' \in [over : BOOLEAN, count : Nat]
      /\ BackgroundIn(q) # {} => passed'.count <= b
      /\ BackgroundIn(q) = {} => passed'.count = 0
  BY SelectNextFacts, Zenon
<1>2. Tickets(queue)' = Tickets(q)
  BY <1>1, Zenon DEF Tickets
<1>3. BackgroundIn(queue)' = BackgroundIn(q)
  BY <1>2, Zenon DEF BackgroundIn, ClassOf
<1>4. SelectedFits'
  BY <1>1, <1>2, Zenon DEF SelectedFits, Fits
<1>5. NothingOverlooked'
  BY <1>1, <1>2, Zenon DEF NothingOverlooked, Fits
<1>6. selected' # None => ClassOf(selected)' = ClassOf(selected')
  BY <1>1, Zenon DEF ClassOf
<1>7. Sharing'
  BY <1>1, <1>3, <1>6, Zenon DEF Sharing
<1> QED
  BY <1>1, <1>4, <1>5, <1>7, Zenon DEF Turns

\* A step that leaves the queue and the counters alone, and every waiting call.
LEMMA QuietTurns ==
  ASSUME Turns, WithinBudget,
         queue' = queue, selected' = selected, burst' = burst, global' = global,
         classUse' = classUse, passed' = passed,
         \A c \in Tickets(queue) : call'[c] = call[c]
  PROVE  Turns' /\ WithinBudget'
<1>1. Tickets(queue)' = Tickets(queue)
  BY Zenon DEF Tickets
<1>2. BackgroundIn(queue)' = BackgroundIn(queue)
  BY <1>1, Zenon DEF BackgroundIn, ClassOf
<1>3. SelectedFits' /\ NothingOverlooked'
  BY <1>1, Zenon DEF Turns, SelectedFits, NothingOverlooked, Fits
<1>4. selected # None => ClassOf(selected)' = ClassOf(selected)
  BY Zenon DEF ClassOf, Turns, SelectedFits
<1>5. Sharing'
  BY <1>2, <1>4, Zenon DEF Turns, Sharing
<1>6. WithinBudget'
  BY Zenon DEF WithinBudget
<1> QED
  BY <1>3, <1>5, <1>6 DEF Turns

LEMMA NotifyFacts ==
  ASSUME TypeOK, NEW c \in Caller, NEW p \in {"idle", "loop", "holding"}, Notify(c, p)
  PROVE  /\ pc' \in [Caller -> Place]
         /\ pc'[c] = p
         /\ \A d \in Caller : d # c => /\ pc'[d] \in Waiting <=> pc[d] \in Waiting
                                       /\ pc'[d] \in {"loop", "ready"} => pc'[d] = pc[d]
                                       /\ call'[d] = call[d]
         /\ p # "idle" => call' = call
         /\ call' \in [Caller -> [class : Class, request : [Resource -> Nat]]]
         /\ expired' \in [Caller -> BOOLEAN]
         /\ NoLostWakeup'
<1>1. NoCall \in [class : Class, request : [Resource -> Nat]]
  BY DEF NoCall, Class, Background, Nothing
<1>2. pc' = [d \in Caller |-> IF d = c THEN p ELSE IF pc[d] = "waiting" THEN "woken" ELSE pc[d]]
  BY DEF Notify
<1>3. pc' \in [Caller -> Place] /\ pc'[c] = p
  BY <1>2 DEF TypeOK, Place, Waiting
<1>4. \A d \in Caller : d # c => /\ pc'[d] \in Waiting <=> pc[d] \in Waiting
                                 /\ pc'[d] \in {"loop", "ready"} => pc'[d] = pc[d]
  BY <1>2 DEF Waiting
<1>5. \A d \in Caller : pc'[d] # "waiting"
  BY <1>2
<1>6. call' \in [Caller -> [class : Class, request : [Resource -> Nat]]]
  BY <1>1 DEF TypeOK, Notify
<1>7. \A d \in Caller : d # c => call'[d] = call[d]
  BY DEF TypeOK, Notify
<1>8. expired' \in [Caller -> BOOLEAN]
  BY DEF TypeOK, Notify
<1> QED
  BY <1>3, <1>4, <1>5, <1>6, <1>7, <1>8, Zenon DEF NoLostWakeup, Notify

-----------------------------------------------------------------------------
(* One lemma per action, or per group of actions that end the same way.    *)
LEMMA TicketsAreCallers ==
  ASSUME TypeOK
  PROVE  Tickets(queue) \subseteq Caller
  BY DEF TypeOK, Tickets

\* The shape only depends on who waits, who has the mutex and who may be ready.
LEMMA SameShape ==
  ASSUME Shape, TypeOK', queue' = queue,
         \A d \in Caller : pc'[d] \in Waiting <=> pc[d] \in Waiting,
         \A d \in Caller : pc'[d] \in {"loop", "ready"} => lock' = d,
         \A d \in Caller : pc'[d] = "ready" => cancel'[d] # "done"
  PROVE  Shape'
<1>1. Tickets(queue)' = Tickets(queue)
  BY Zenon DEF Tickets
<1>2. Injective(queue) => Injective(queue)'
  BY Zenon DEF Injective
<1>3. Injective(queue) /\ \A d \in Caller : d \in Tickets(queue) <=> pc[d] \in Waiting
  BY Zenon DEF Shape
<1>4. \A d \in Caller : d \in Tickets(queue)' <=> pc'[d] \in Waiting
  BY <1>1, <1>3, Zenon
<1> QED
  BY <1>2, <1>3, <1>4, Zenon DEF Shape

LEMMA EnqueueStep ==
  ASSUME GovernorInv, NEW c \in Caller, Enqueue(c)
  PROVE  GovernorInv'
<1>1. TypeOK /\ Turns /\ WithinBudget
  BY DEF GovernorInv, Shape
<1> DEFINE q == Append(queue, c)
<1>2. q \in Seq(Caller) /\ Tickets(q) = Tickets(queue) \cup {c} /\ Len(q) = Len(queue) + 1
      /\ \A i \in 1..Len(q) : q[i] = IF i <= Len(queue) THEN queue[i] ELSE c
  <2>1. queue \in Seq(Caller) /\ Len(queue) \in Nat
    BY <1>1 DEF TypeOK
  <2>2. /\ q \in Seq(Caller) /\ Len(q) = Len(queue) + 1 /\ DOMAIN q = 1..Len(q)
        /\ \A i \in 1..Len(q) : q[i] = IF i <= Len(queue) THEN queue[i] ELSE c
    BY <2>1
  <2> HIDE DEF q
  <2>3. \A i \in 1..Len(queue) : i \in 1..Len(q) /\ q[i] = queue[i]
    BY <2>1, <2>2
  <2>4. Len(q) \in 1..Len(q) /\ q[Len(q)] = c
    BY <2>1, <2>2
  <2>5. Tickets(q) = Tickets(queue) \cup {c}
    <3>1. Tickets(q) \subseteq Tickets(queue) \cup {c}
      BY <2>1, <2>2 DEF Tickets
    <3>2. Tickets(queue) \subseteq Tickets(q)
      BY <2>1, <2>2, <2>3 DEF Tickets
    <3>3. c \in Tickets(q)
      BY <2>2, <2>4 DEF Tickets
    <3> QED
      BY <3>1, <3>2, <3>3, Zenon
  <2> QED
    BY <2>2, <2>5
<1>3. c \notin Tickets(queue)
  BY DEF Enqueue, GovernorInv, Shape, Waiting
<1>4. Injective(q)
  <2>1. \A i \in 1..Len(queue) : queue[i] # c
    BY <1>3 DEF Tickets, TypeOK, GovernorInv, Shape
  <2>2. \A i, j \in 1..Len(queue) : queue[i] = queue[j] => i = j
    BY DEF GovernorInv, Shape, Injective, TypeOK
  <2>3. Len(queue) \in Nat
    BY <1>1 DEF TypeOK
  <2>4. DOMAIN q = 1..Len(q)
    BY <1>2
  <2> HIDE DEF q
  <2> QED
    BY <1>2, <2>1, <2>2, <2>3, <2>4 DEF Injective
<1>6. /\ pc' \in [Caller -> Place] /\ pc'[c] = "loop"
      /\ \A d \in Caller : d # c => /\ pc'[d] \in Waiting <=> pc[d] \in Waiting
                                    /\ pc'[d] \in {"loop", "ready"} => pc'[d] = pc[d]
      /\ call' = call /\ expired' \in [Caller -> BOOLEAN] /\ NoLostWakeup'
  BY <1>1, NotifyFacts, Zenon DEF Enqueue
<1> HIDE DEF q
<1>7. /\ selected # None => selected \in Tickets(q) /\ Fits(selected, global, classUse)
      /\ BackgroundIn(q) # {} => passed.count <= burst
      /\ burst \in 0..BurstLimit /\ passed.count \in Nat
      /\ selected # None /\ passed.over /\ ClassOf(selected) \in Foreground => burst < BurstLimit
  <2>1. passed.count \in Nat /\ burst \in 0..BurstLimit /\ passed.count <= burst
    BY <1>1 DEF Turns, Sharing, TypeOK
  <2> QED
    BY <1>1, <1>2, <2>1 DEF Turns, SelectedFits, Sharing
<1>8. SelectNext(q, selected, burst, global, classUse, passed.count)
  BY DEF Enqueue, q
<1>9. /\ queue' = q /\ burst' = burst /\ global' = global /\ classUse' = classUse
      /\ selected' \in Caller \cup {None} /\ passed' \in [over : BOOLEAN, count : Nat] /\ Turns'
  <2>1. selected \in Tickets(q) \cup {None}
    BY <1>7
  <2> QED
    BY <1>1, <1>2, <1>6, <1>7, <1>8, <2>1, Settled, Zenon
<1>10. TypeOK'
  BY <1>1, <1>2, <1>6, <1>9 DEF TypeOK, Enqueue, bounds
<1>11. Tickets(queue)' = Tickets(queue) \cup {c}
  BY <1>2, <1>9, ZenonT(60) DEF Tickets
<1>12. Shape'
  <2>1. Injective(queue)'
    BY <1>4, <1>9, Zenon DEF Injective
  <2>2. \A d \in Caller : d \in Tickets(queue)' <=> pc'[d] \in Waiting
    BY <1>6, <1>11 DEF GovernorInv, Shape, Waiting
  <2>3. \A d \in Caller : pc'[d] \in {"loop", "ready"} => lock' = d
    BY <1>6, GovernorAssumption, Zenon DEF GovernorInv, Shape, Enqueue
  <2>4. \A d \in Caller : pc'[d] = "ready" => cancel'[d] # "done"
    BY <1>6 DEF GovernorInv, Shape, Enqueue
  <2> QED
    BY <1>10, <2>1, <2>2, <2>3, <2>4 DEF Shape
<1>13. WithinBudget'
  BY <1>1, <1>9, Zenon DEF WithinBudget
<1> QED
  BY <1>6, <1>9, <1>12, <1>13 DEF GovernorInv

\* The shape of the queue after the ticket of c, who has the mutex, is gone.
LEMMA TicketGone ==
  ASSUME GovernorInv, NEW c \in Caller, pc[c] \in {"loop", "ready"},
         NEW p \in {"idle", "holding"}, Notify(c, p),
         queue' = Without(queue, c), lock' = None, cancel' = cancel, TypeOK'
  PROVE  Shape'
<1>1. TypeOK /\ c \in Tickets(queue) /\ lock = c
  BY Zenon DEF GovernorInv, Shape, Waiting
<1>2. /\ Injective(Without(queue, c))
      /\ Tickets(Without(queue, c)) = Tickets(queue) \ {c}
  BY <1>1, WithoutFacts, Zenon DEF GovernorInv, Shape, TypeOK
<1>3. /\ pc'[c] = p
      /\ \A d \in Caller : d # c => /\ pc'[d] \in Waiting <=> pc[d] \in Waiting
                                    /\ pc'[d] \in {"loop", "ready"} => pc'[d] = pc[d]
  BY <1>1, NotifyFacts
<1>4. Injective(queue)' /\ Tickets(queue)' = Tickets(queue) \ {c}
  BY <1>2, ZenonT(60) DEF Injective, Tickets
<1>5. \A d \in Caller : d \in Tickets(queue)' <=> pc'[d] \in Waiting
  BY <1>3, <1>4 DEF GovernorInv, Shape, Waiting
<1>6. \A d \in Caller : pc'[d] \notin {"loop", "ready"}
  BY <1>1, <1>3, Zenon DEF GovernorInv, Shape
<1> QED
  BY <1>4, <1>5, <1>6, Zenon DEF Shape

LEMMA LeaveStep ==
  ASSUME GovernorInv, NEW c \in Caller, pc[c] \in {"loop", "ready"}, Leave(c)
  PROVE  GovernorInv'
<1>1. TypeOK /\ Turns /\ WithinBudget /\ c \in Tickets(queue)
  BY Zenon DEF GovernorInv, Shape, Waiting
<1> DEFINE q == Without(queue, c)
           sel == IF selected = c THEN None ELSE selected
<1>2. q \in Seq(Caller) /\ Tickets(q) = Tickets(queue) \ {c}
  BY <1>1, WithoutFacts, Zenon DEF GovernorInv, Shape, TypeOK
<1>3. Notify(c, "idle") /\ lock' = None /\ held' = held /\ cancel' = cancel
      /\ calls' = calls /\ interrupts' = interrupts
      /\ SelectNext(q, sel, burst, global, classUse, passed.count)
  BY DEF Leave, bounds
<1>4. /\ pc' \in [Caller -> Place] /\ NoLostWakeup'
      /\ \A d \in Caller : d # c => call'[d] = call[d]
      /\ call' \in [Caller -> [class : Class, request : [Resource -> Nat]]]
      /\ expired' \in [Caller -> BOOLEAN]
  BY <1>1, <1>3, NotifyFacts, Zenon
<1> HIDE DEF q
<1>5. BackgroundIn(q) \subseteq BackgroundIn(queue)
  BY <1>2, Zenon DEF BackgroundIn
<1>6. /\ sel \in Tickets(q) \cup {None}
      /\ sel # None => sel = selected /\ Fits(sel, global, classUse)
      /\ sel # None /\ passed.over /\ ClassOf(sel) \in Foreground => burst < BurstLimit
      /\ BackgroundIn(q) # {} => passed.count <= burst
      /\ burst \in 0..BurstLimit /\ passed.count \in Nat
  <2>1. burst \in 0..BurstLimit /\ passed.count \in Nat
    BY <1>1 DEF TypeOK
  <2>2. BackgroundIn(q) # {} => passed.count <= burst
    BY <1>1, <1>5 DEF Turns, Sharing
  <2>3. /\ sel \in Tickets(q) \cup {None}
        /\ sel # None => sel = selected /\ Fits(sel, global, classUse)
    BY <1>1, <1>2, Zenon DEF Turns, SelectedFits
  <2>4. sel # None /\ passed.over /\ ClassOf(sel) \in Foreground => burst < BurstLimit
    BY <1>1, <2>3, Zenon DEF Turns, Sharing
  <2> QED
    BY <2>1, <2>2, <2>3, <2>4
<1> HIDE DEF sel
<1>7. \A d \in Tickets(q) : call'[d] = call[d]
  BY <1>1, <1>2, <1>4, TicketsAreCallers
<1>8. /\ queue' = q /\ burst' = burst /\ global' = global /\ classUse' = classUse
      /\ selected' \in Caller \cup {None} /\ passed' \in [over : BOOLEAN, count : Nat] /\ Turns'
  BY <1>1, <1>2, <1>3, <1>6, <1>7, Settled, Zenon
<1>9. TypeOK'
  BY <1>1, <1>2, <1>3, <1>4, <1>8, Zenon DEF TypeOK
<1>10. Shape'
  BY <1>3, <1>8, <1>9, TicketGone, ZenonT(60) DEF q
<1>11. WithinBudget'
  BY <1>1, <1>8 DEF WithinBudget
<1> QED
  BY <1>4, <1>8, <1>10, <1>11, Zenon DEF GovernorInv

LEMMA ClaimStep ==
  ASSUME GovernorInv, NEW c \in Caller, Claim(c)
  PROVE  GovernorInv'
<1>1. TypeOK /\ Turns /\ WithinBudget /\ pc[c] = "ready" /\ c \in Tickets(queue) /\ selected = c
      /\ Fits(c, global, classUse)
  BY Zenon DEF GovernorInv, Shape, Waiting, Claim, MayClaim
<1> DEFINE q == Without(queue, c)
           b == RecordDispatch(q, c)
           use == Plus(global, Asks(c))
           by == [classUse EXCEPT ![ClassOf(c)] = Plus(@, Asks(c))]
           n == IF ClassOf(c) \in Background THEN 0
                ELSE IF passed.over THEN passed.count + 1 ELSE passed.count
<1>2. q \in Seq(Caller) /\ Tickets(q) = Tickets(queue) \ {c}
  BY <1>1, WithoutFacts, ZenonT(60) DEF GovernorInv, Shape, TypeOK
<1>3. Notify(c, "holding") /\ lock' = None /\ held' = [held EXCEPT ![c] = Asks(c)]
      /\ cancel' = cancel /\ calls' = calls /\ interrupts' = interrupts
      /\ SelectNext(q, None, b, use, by, n)
  BY SMT, SMTT(30) DEF Claim, bounds
<1>4. /\ pc' \in [Caller -> Place] /\ NoLostWakeup'
      /\ call' = call /\ expired' \in [Caller -> BOOLEAN]
  BY <1>1, <1>3, NotifyFacts, Zenon
<1>5. /\ global \in [Resource -> Int] /\ classUse \in [Class -> [Resource -> Int]]
      /\ Asks(c) \in [Resource -> Nat] /\ ClassOf(c) \in Class
      /\ burst \in 0..BurstLimit /\ passed.count \in Nat /\ BurstLimit \in Nat
      /\ passed.over \in BOOLEAN
  BY <1>1, GovernorAssumption, ZenonT(30) DEF TypeOK, Asks, ClassOf
<1>6. use \in [Resource -> Int] /\ by \in [Class -> [Resource -> Int]]
  BY <1>5 DEF Plus
<1> HIDE DEF q
<1>7. BackgroundIn(q) \subseteq BackgroundIn(queue)
  BY <1>2 DEF BackgroundIn
<1>8. n \in Nat /\ b \in 0..BurstLimit
  BY <1>5 DEF RecordDispatch, Least
<1>9. BackgroundIn(q) # {} => n <= b
  <2>1. CASE ClassOf(c) \in Background
    BY <2>1, <1>8
  <2>2. CASE ClassOf(c) \notin Background
    <3>1. ClassOf(c) \in Foreground
      BY <2>2, <1>5 DEF Class
    <3>2. BackgroundIn(q) # {} => passed.count <= burst
      BY <1>1, <1>7, ZenonT(60) DEF Turns, Sharing
    <3>3. passed.over => burst < BurstLimit
      BY SMT, SMTT(30), <1>1, <3>1, GovernorAssumption DEF Turns, Sharing
    <3> QED
      BY <1>5, <2>2, <3>1, <3>2, <3>3 DEF RecordDispatch, Least
  <2> QED
    BY <2>1, <2>2
<1> HIDE DEF b, use, by, n
<1>10. /\ queue' = q /\ burst' = b /\ global' = use /\ classUse' = by
       /\ selected' \in Caller \cup {None} /\ passed' \in [over : BOOLEAN, count : Nat] /\ Turns'
  BY <1>1, <1>2, <1>3, <1>4, <1>8, <1>9, Settled, Zenon
<1>11. TypeOK'
  BY <1>1, <1>2, <1>3, <1>4, <1>5, <1>6, <1>8, <1>10, ZenonT(30) DEF TypeOK
<1>12. Shape'
  BY <1>1, <1>3, <1>10, <1>11, TicketGone, Zenon DEF q
<1>13. WithinBudget'
  <2>1. Within(use, Capacity)
    BY <1>1, <1>5 DEF use, Within, Plus, Fits, FitsCall, Asks
  <2>2. ASSUME NEW k \in Class
        PROVE  Within(by[k], Limit[k])
    <3>1. CASE k = ClassOf(c)
      <4>1. \A r \in Resource : by[k][r] = classUse[k][r] + call[c].request[r]
        BY <3>1, <1>5, Zenon DEF by, Plus, Asks
      <4>2. \A r \in Resource : classUse[k][r] + call[c].request[r] <= Limit[k][r]
        BY <3>1, <1>1, Zenon DEF Fits, FitsCall, ClassOf
      <4> QED
        BY <4>1, <4>2, Zenon DEF Within
    <3>2. CASE k # ClassOf(c)
      BY <3>2, <1>1, <1>5, Zenon DEF by, WithinBudget
    <3> QED
      BY <3>1, <3>2
  <2> QED
    BY <1>10, <2>1, <2>2, ZenonT(60) DEF WithinBudget, Within
<1> QED
  BY <1>4, <1>10, <1>12, <1>13 DEF GovernorInv

LEMMA ReturnStep ==
  ASSUME GovernorInv, NEW c \in Caller, pc[c] = "holding", lock = None,
         NEW t \in [Resource -> Nat], \A r \in Resource : t[r] <= held[c][r],
         NEW p \in {"idle", "holding"}, Return(c, t, p)
  PROVE  GovernorInv'
<1>1. TypeOK /\ Turns /\ WithinBudget /\ c \notin Tickets(queue)
  BY Zenon DEF GovernorInv, Shape, Waiting
<1> DEFINE use == Minus(global, t)
           by == [classUse EXCEPT ![ClassOf(c)] = Minus(@, t)]
<1>2. /\ Notify(c, p) /\ lock' = lock /\ held' = [held EXCEPT ![c] = Minus(@, t)]
      /\ cancel' = cancel /\ calls' = calls /\ interrupts' = interrupts
      /\ SelectNext(queue, selected, burst, use, by, passed.count)
  BY Zenon DEF Return, bounds
<1>3. /\ pc' \in [Caller -> Place] /\ NoLostWakeup' /\ pc'[c] = p
      /\ \A d \in Caller : d # c => /\ call'[d] = call[d]
                                    /\ pc'[d] \in Waiting <=> pc[d] \in Waiting
                                    /\ pc'[d] \in {"loop", "ready"} => pc'[d] = pc[d]
      /\ call' \in [Caller -> [class : Class, request : [Resource -> Nat]]]
      /\ expired' \in [Caller -> BOOLEAN]
  BY <1>1, <1>2, NotifyFacts, Zenon
<1>4. /\ global \in [Resource -> Int] /\ classUse \in [Class -> [Resource -> Int]]
      /\ ClassOf(c) \in Class /\ queue \in Seq(Caller) /\ Tickets(queue) \subseteq Caller
      /\ burst \in 0..BurstLimit /\ passed.count \in Nat
      /\ held \in [Caller -> [Resource -> Nat]]
  BY <1>1, TicketsAreCallers, Zenon DEF TypeOK, ClassOf
<1>5. /\ use \in [Resource -> Int] /\ \A r \in Resource : use[r] <= global[r]
      /\ by \in [Class -> [Resource -> Int]]
      /\ \A k \in Class, r \in Resource : by[k][r] <= classUse[k][r]
  <2> DEFINE k0 == ClassOf(c)
             g == Minus(classUse[k0], t)
  <2>1. use \in [Resource -> Int] /\ \A r \in Resource : use[r] <= global[r]
    BY <1>4, MinusFacts, Zenon
  <2>2. k0 \in Class /\ classUse[k0] \in [Resource -> Int]
    BY <1>4, Zenon
  <2>3. g \in [Resource -> Int] /\ \A r \in Resource : g[r] <= classUse[k0][r]
    BY <2>2, MinusFacts, Zenon
  <2>4. by = [classUse EXCEPT ![k0] = g]
    BY Zenon
  <2> HIDE DEF use, by, g, k0
  <2>5. by \in [Class -> [Resource -> Int]] /\ by[k0] = g /\ \A j \in Class : j # k0 => by[j] = classUse[j]
    BY <1>4, <2>2, <2>3, <2>4, ClassCounters, ZenonT(60)
  <2>6. ASSUME NEW k \in Class, NEW r \in Resource PROVE by[k][r] <= classUse[k][r]
    <3>1. CASE k = k0
      BY <2>3, <2>5, <3>1, Zenon
    <3>2. CASE k # k0
      <4>1. by[k][r] = classUse[k][r] /\ classUse[k][r] \in Int
        BY <1>4, <2>5, <3>2, Zenon
      <4>2. \A a \in Int : a <= a
        OBVIOUS
      <4> QED
        BY <4>1, <4>2, Zenon
    <3> QED
      BY <3>1, <3>2, Zenon
  <2> QED
    BY <2>1, <2>5, <2>6, Zenon
<1>6. Minus(held[c], t) \in [Resource -> Nat]
  BY <1>4 DEF Minus
<1> HIDE DEF use, by
<1>7. /\ selected \in Tickets(queue) \cup {None}
      /\ selected # None => Fits(selected, use, by)
      /\ selected # None /\ passed.over /\ ClassOf(selected) \in Foreground => burst < BurstLimit
      /\ BackgroundIn(queue) # {} => passed.count <= burst
  <2>1. /\ selected # None => selected \in Tickets(queue) /\ Fits(selected, global, classUse)
        /\ selected # None /\ passed.over /\ ClassOf(selected) \in Foreground => burst < BurstLimit
        /\ BackgroundIn(queue) # {} => passed.count <= burst
    BY <1>1, Zenon DEF Turns, SelectedFits, Sharing
  <2>2. ASSUME selected # None
        PROVE  Fits(selected, use, by)
    <3>1. call[selected] \in [class : Class, request : [Resource -> Nat]]
      BY <1>1, <1>4, <2>1, <2>2, Zenon DEF TypeOK
    <3> QED
      <4> DEFINE k == call[selected]
      <4>1. k.class \in Class /\ k.request \in [Resource -> Nat]
        BY <3>1, Zenon
      <4>2. FitsCall(k, global, classUse)
        BY <2>1, <2>2, Zenon DEF Fits
      <4> HIDE DEF k
      <4>3. ASSUME NEW r \in Resource
            PROVE  /\ use[r] + k.request[r] <= Capacity[r]
                   /\ by[k.class][r] + k.request[r] <= Limit[k.class][r]
        <5>1. /\ global[r] + k.request[r] <= Capacity[r]
              /\ classUse[k.class][r] + k.request[r] <= Limit[k.class][r]
          BY <4>2, Zenon DEF FitsCall
        <5>2. /\ global[r] \in Int /\ use[r] \in Int /\ k.request[r] \in Int
              /\ classUse[k.class][r] \in Int /\ by[k.class][r] \in Int
              /\ use[r] <= global[r] /\ by[k.class][r] <= classUse[k.class][r]
          <6>1. /\ global[r] \in Int /\ use[r] \in Int /\ use[r] <= global[r]
                /\ classUse[k.class][r] \in Int /\ by[k.class][r] \in Int
                /\ by[k.class][r] <= classUse[k.class][r]
            BY <1>4, <1>5, <4>1, ZenonT(60)
          <6>2. k.request[r] \in Int
            <7>1. k.request[r] \in Nat
              BY <4>1, Zenon
            <7> QED
              BY <7>1
          <6> QED
            BY <6>1, <6>2, Zenon
        <5>3. Capacity[r] \in Int /\ Limit[k.class][r] \in Int
          BY LimitsSound, <4>1
        <5> DEFINE q == k.request[r]
                   u == use[r]
                   g == global[r]
                   v == by[k.class][r]
                   f == classUse[k.class][r]
                   m == Capacity[r]
                   l == Limit[k.class][r]
        <5>4. /\ q \in Int /\ u \in Int /\ g \in Int /\ v \in Int /\ f \in Int /\ m \in Int /\ l \in Int
              /\ u <= g /\ v <= f /\ g + q <= m /\ f + q <= l
          BY <5>1, <5>2, <5>3, Zenon
        <5> HIDE DEF q, u, g, v, f, m, l
        <5>5. u + q <= m /\ v + q <= l
          BY <5>4, BelowFits
        <5> QED
          BY <5>5, Zenon DEF q, u, g, v, f, m, l
      <4> QED
        BY <4>3, Zenon DEF Fits, FitsCall, k
  <2> QED
    BY SMT, SMTT(30), <2>1, <2>2
<1>8. \A d \in Tickets(queue) : call'[d] = call[d]
  BY <1>1, <1>3, <1>4, Zenon
<1>9. /\ queue' = queue /\ burst' = burst /\ global' = use /\ classUse' = by
      /\ selected' \in Caller \cup {None} /\ passed' \in [over : BOOLEAN, count : Nat] /\ Turns'
  BY <1>1, <1>2, <1>4, <1>7, <1>8, Settled, Zenon
<1>10. TypeOK'
  BY <1>1, <1>2, <1>3, <1>4, <1>5, <1>6, <1>9, Zenon DEF TypeOK
<1>11. Shape'
  <2>1. pc'[c] \notin Waiting /\ pc[c] \notin Waiting
    BY <1>3, Zenon DEF Waiting
  <2>2. \A d \in Caller : pc'[d] \in Waiting <=> pc[d] \in Waiting
    BY <1>3, <2>1, Zenon
  <2>3. Shape /\ \A d \in Caller : pc[d] \notin {"loop", "ready"}
    BY GovernorAssumption, ZenonT(30) DEF GovernorInv, Shape
  <2>4. \A d \in Caller : pc'[d] \notin {"loop", "ready"}
    BY <1>3, <2>3, ZenonT(30)
  <2>5. \A d \in Caller : pc'[d] # "ready"
    BY <2>4, Zenon
  <2> QED
    BY <1>9, <1>10, <2>2, <2>3, <2>4, <2>5, SameShape, Zenon
<1>12. WithinBudget'
  <2>1. Within(use, Capacity) /\ \A k \in Class : Within(by[k], Limit[k])
    <3>1. ASSUME NEW r \in Resource
          PROVE  use[r] <= Capacity[r]
      <4>1. global[r] <= Capacity[r]
        BY <1>1, Zenon DEF WithinBudget, Within
      <4>2. global[r] \in Int /\ use[r] \in Int /\ use[r] <= global[r]
        BY <1>4, <1>5, Zenon
      <4>3. Capacity[r] \in Int
        BY LimitsSound
      <4> QED
        BY <4>1, <4>2, <4>3, BelowBelow, Zenon
    <3>2. ASSUME NEW k \in Class, NEW r \in Resource
          PROVE  by[k][r] <= Limit[k][r]
      <4>1. classUse[k][r] <= Limit[k][r]
        BY <1>1, Zenon DEF WithinBudget, Within
      <4>2. classUse[k][r] \in Int /\ by[k][r] \in Int /\ by[k][r] <= classUse[k][r]
        BY <1>4, <1>5, Zenon
      <4>3. Limit[k][r] \in Int
        BY LimitsSound
      <4> QED
        BY <4>1, <4>2, <4>3, BelowBelow, Zenon
    <3> QED
      BY <3>1, <3>2, Zenon DEF Within
  <2> QED
    BY <1>9, <2>1, Zenon DEF WithinBudget, Within
<1> QED
  BY <1>3, <1>9, <1>11, <1>12, Zenon DEF GovernorInv

LEMMA TryAdmitStep ==
  ASSUME GovernorInv, NEW c \in Caller, TryAdmit(c)
  PROVE  GovernorInv'
<1>1. TypeOK /\ Turns /\ WithinBudget /\ NoLostWakeup /\ c \notin Tickets(queue) /\ pc[c] = "idle"
  BY Zenon DEF GovernorInv, Shape, Waiting, TryAdmit, NobodyWaits
<1>2. PICK k \in Call :
        IF queue = <<>> /\ FitsCall(k, global, classUse)
        THEN /\ global' = Plus(global, k.request)
             /\ classUse' = [classUse EXCEPT ![k.class] = Plus(@, k.request)]
             /\ held' = [held EXCEPT ![c] = k.request]
             /\ call' = [call EXCEPT ![c] = k]
             /\ Goto(c, "holding")
        ELSE UNCHANGED <<global, classUse, held, call, pc>>
  BY Zenon DEF TryAdmit, NobodyWaits
<1>3. /\ queue' = queue /\ selected' = selected /\ burst' = burst /\ passed' = passed
      /\ lock' = lock /\ expired' = expired /\ cancel' = cancel /\ interrupts' = interrupts
      /\ calls < MaxCalls /\ calls' = calls + 1
  BY ZenonT(60) DEF TryAdmit, NobodyWaits, NewCall
<1>4. calls' \in 0..MaxCalls
  BY SMT, SMTT(30), <1>1, <1>3, GovernorAssumption DEF TypeOK
<1>5. CASE queue = <<>> /\ FitsCall(k, global, classUse)
  <2>1. k \in [class : Class, request : [Resource -> Nat]]
    BY GovernorAssumption, Zenon
  <2>2. /\ global \in [Resource -> Int] /\ classUse \in [Class -> [Resource -> Int]]
        /\ k.request \in [Resource -> Nat] /\ k.class \in Class
    BY <1>1, <2>1 DEF TypeOK
  <2>a. /\ global' = Plus(global, k.request)
        /\ classUse' = [classUse EXCEPT ![k.class] = Plus(@, k.request)]
        /\ held' = [held EXCEPT ![c] = k.request]
        /\ call' = [call EXCEPT ![c] = k]
        /\ pc' = [pc EXCEPT ![c] = "holding"]
    BY <1>2, <1>5, Zenon DEF Goto
  <2>3. global' \in [Resource -> Int] /\ classUse' \in [Class -> [Resource -> Int]]
    <3>1. global' \in [Resource -> Int] /\ Plus(classUse[k.class], k.request) \in [Resource -> Int]
      BY <2>a, <2>2, PlusFacts, Zenon
    <3>2. classUse' = [classUse EXCEPT ![k.class] = Plus(classUse[k.class], k.request)]
      BY <2>a, Zenon
    <3>3. [classUse EXCEPT ![k.class] = Plus(classUse[k.class], k.request)] \in [Class -> [Resource -> Int]]
      BY <2>2, <3>1, ClassCounters, Zenon
    <3> QED
      BY <3>1, <3>2, <3>3, Zenon
  <2>4. /\ held' \in [Caller -> [Resource -> Nat]]
        /\ call' \in [Caller -> [class : Class, request : [Resource -> Nat]]]
        /\ pc' = [pc EXCEPT ![c] = "holding"]
    BY <1>1, <2>a, <2>1, <2>2, Zenon DEF TypeOK
  <2>5. TypeOK'
    BY <1>1, <1>3, <1>4, <2>3, <2>4, ZenonT(60) DEF TypeOK, Place
  <2>6. Tickets(queue) = {} /\ Tickets(queue)' = {} /\ BackgroundIn(queue) = {} /\ BackgroundIn(queue)' = {}
    BY <1>3, <1>5 DEF Tickets, BackgroundIn
  <2>7. selected = None
    BY <1>1, <2>6, ZenonT(60) DEF Turns, SelectedFits
  <2>8. Turns'
    BY SMT, SMTT(30), <1>1, <1>3, <2>6, <2>7 DEF Turns, SelectedFits, NothingOverlooked, Sharing
  <2>9. Shape'
    <3>1. Shape /\ pc \in [Caller -> Place]
      BY <1>1 DEF GovernorInv, TypeOK
    <3>2. pc'[c] = "holding" /\ \A d \in Caller : d # c => pc'[d] = pc[d]
      BY <2>4, <3>1
    <3>3. \A d \in Caller : pc'[d] \in Waiting <=> pc[d] \in Waiting
      BY <1>1, <3>2, Zenon DEF Waiting
    <3>4. /\ \A d \in Caller : pc'[d] \in {"loop", "ready"} => lock' = d
          /\ \A d \in Caller : pc'[d] = "ready" => cancel'[d] # "done"
      BY <1>3, <3>1, <3>2, Zenon DEF Shape
    <3> QED
      BY <1>3, <2>5, <3>1, <3>3, <3>4, SameShape, ZenonT(60)
  <2>10. NoLostWakeup'
    BY <1>1, <1>3, <2>4, Zenon DEF NoLostWakeup, TypeOK
  <2>11. WithinBudget'
    <3>1. \A r \in Resource : global'[r] <= Capacity[r]
      BY <1>5, <2>a, <2>2, Zenon DEF Plus, FitsCall
    <3>2. \A r \in Resource : classUse'[k.class][r] <= Limit[k.class][r]
      BY <1>5, <2>a, <2>2, ZenonT(60) DEF Plus, FitsCall
    <3>3. \A j \in Class : j # k.class => classUse'[j] = classUse[j]
      BY SMT, SMTT(30), <2>a, <2>2
    <3> QED
      BY <1>1, <3>1, <3>2, <3>3, Zenon DEF WithinBudget, Within
  <2> QED
    BY <2>8, <2>9, <2>10, <2>11, Zenon DEF GovernorInv
<1>6. CASE ~(queue = <<>> /\ FitsCall(k, global, classUse))
  <2>1. global' = global /\ classUse' = classUse /\ held' = held /\ call' = call /\ pc' = pc
    BY SMT, SMTT(30), <1>2, <1>6
  <2>2. Turns' /\ WithinBudget'
    BY <1>1, <1>3, <2>1, QuietTurns, ZenonT(60)
  <2>3. TypeOK'
    BY SMT, SMTT(30), <1>1, <1>3, <1>4, <2>1 DEF TypeOK
  <2>4. Shape'
    <3>1. Shape
      BY DEF GovernorInv
    <3> QED
      BY <1>3, <2>1, <2>3, <3>1, SameShape, Zenon DEF Shape
  <2>5. NoLostWakeup'
    BY <1>1, <1>3, <2>1, ZenonT(30) DEF NoLostWakeup
  <2> QED
    BY <2>2, <2>4, <2>5, ZenonT(60) DEF GovernorInv
<1> QED
  BY <1>5, <1>6, Zenon

\* The steps that leave the queue and the counters alone.
LEMMA EnterStep ==
  ASSUME GovernorInv, NEW c \in Caller, Enter(c) \/ EnqueueFull(c)
  PROVE  GovernorInv'
<1>1. /\ TypeOK /\ Turns /\ WithinBudget /\ NoLostWakeup
      /\ pc[c] \in {"idle", "entering"} /\ c \notin Tickets(queue)
  BY Zenon DEF GovernorInv, Shape, Waiting, Enter, EnqueueFull
<1>2. /\ queue' = queue /\ selected' = selected /\ burst' = burst /\ global' = global
      /\ classUse' = classUse /\ passed' = passed /\ lock' = lock /\ held' = held
      /\ expired' = expired /\ cancel' = cancel /\ interrupts' = interrupts
  BY Zenon DEF Enter, EnqueueFull, counters, bounds
<1>3. calls' \in 0..MaxCalls
  <2>1. calls' = calls \/ (calls < MaxCalls /\ calls' = calls + 1)
    BY Zenon DEF Enter, EnqueueFull, NewCall, bounds
  <2>2. calls \in 0..MaxCalls
    BY <1>1, Zenon DEF TypeOK
  <2>3. MaxCalls \in Nat
    BY GovernorAssumption, Zenon
  <2>4. \A n, m \in Nat : n < m /\ n \in 0..m => n + 1 \in 0..m
    OBVIOUS
  <2>5. calls \in Nat
    BY <2>2
  <2> QED
    BY <2>1, <2>2, <2>3, <2>4, <2>5, Zenon
<1>4. NoCall \in [class : Class, request : [Resource -> Nat]]
  BY DEF NoCall, Class, Background, Nothing
<1>5. PICK k \in Call \cup {NoCall} : call' = [call EXCEPT ![c] = k] \/ call' = call
  BY GovernorAssumption, ZenonT(30) DEF Enter, EnqueueFull
<1>6. /\ call' \in [Caller -> [class : Class, request : [Resource -> Nat]]]
      /\ \A d \in Tickets(queue) : call'[d] = call[d]
  <2>1. /\ k \in [class : Class, request : [Resource -> Nat]]
        /\ call \in [Caller -> [class : Class, request : [Resource -> Nat]]]
        /\ Tickets(queue) \subseteq Caller
    BY <1>1, <1>4, GovernorAssumption, TicketsAreCallers, ZenonT(30) DEF TypeOK
  <2>2. call' \in [Caller -> [class : Class, request : [Resource -> Nat]]]
    BY <1>5, <2>1, Zenon
  <2>3. \A d \in Caller : d # c => call'[d] = call[d]
    BY <1>5, <2>1, ZenonT(60)
  <2> QED
    BY <1>1, <2>1, <2>2, <2>3, Zenon
<1>7. \E p \in {"idle", "entering"} : pc' = [pc EXCEPT ![c] = p] \/ pc' = pc
  BY DEF Enter, EnqueueFull, Goto
<1>8. /\ pc' \in [Caller -> Place]
      /\ \A d \in Caller : pc'[d] \in Waiting \cup {"loop", "ready"} \/ pc[d] \in Waiting => pc'[d] = pc[d]
  BY <1>1, <1>7, ZenonT(30) DEF TypeOK, Place, Waiting
<1>9. TypeOK'
  BY <1>1, <1>2, <1>3, <1>6, <1>8, Zenon DEF TypeOK
<1>10. Turns' /\ WithinBudget'
  BY <1>1, <1>2, <1>6, QuietTurns, Zenon
<1>11. NoLostWakeup'
  BY <1>1, <1>2, <1>8, ZenonT(30) DEF NoLostWakeup, Waiting
<1>12. Shape'
  <2>1. Shape
    BY DEF GovernorInv
  <2>2. \A d \in Caller : pc'[d] \in Waiting <=> pc[d] \in Waiting
    BY <1>8, Zenon
  <2>3. \A d \in Caller : pc'[d] \in {"loop", "ready"} => pc'[d] = pc[d]
    BY <1>8, Zenon
  <2>4. /\ \A d \in Caller : pc'[d] \in {"loop", "ready"} => lock' = d
        /\ \A d \in Caller : pc'[d] = "ready" => cancel'[d] # "done"
    BY <1>2, <2>1, <2>3, ZenonT(30) DEF Shape
  <2> QED
    BY <1>2, <1>9, <2>1, <2>2, <2>4, SameShape, ZenonT(60)
<1> QED
  BY <1>10, <1>11, <1>12, Zenon DEF GovernorInv

LEMMA WaitStep ==
  ASSUME GovernorInv, NEW c \in Caller, LoopContinues(c) \/ Park(c) \/ Wake(c)
  PROVE  GovernorInv'
<1>1. TypeOK /\ Turns /\ WithinBudget /\ NoLostWakeup
  BY Zenon DEF GovernorInv, Shape
<1>2. /\ queue' = queue /\ selected' = selected /\ burst' = burst /\ global' = global
      /\ classUse' = classUse /\ passed' = passed /\ held' = held /\ call' = call
      /\ expired' = expired /\ cancel' = cancel /\ calls' = calls /\ interrupts' = interrupts
  BY Zenon DEF LoopContinues, Park, Wake, counters, bounds
<1>3. Turns' /\ WithinBudget'
  BY <1>1, <1>2, QuietTurns, ZenonT(60)
<1>4. \/ pc[c] = "loop" /\ cancel[c] # "done" /\ lock' = lock /\ pc' = [pc EXCEPT ![c] = "ready"]
      \/ pc[c] = "ready" /\ ~MayClaim(c) /\ ~expired[c] /\ lock' = None /\ pc' = [pc EXCEPT ![c] = "waiting"]
      \/ pc[c] = "woken" /\ lock = None /\ lock' = c /\ pc' = [pc EXCEPT ![c] = "loop"]
  BY SMT, SMTT(30) DEF LoopContinues, Park, Wake, Goto
<1>5. /\ Shape /\ pc \in [Caller -> Place] /\ lock \in Caller \cup {None}
      /\ \A d \in Caller : pc[d] \in {"loop", "ready"} => lock = d
      /\ \A d \in Caller : pc[d] = "ready" => cancel[d] # "done"
  BY <1>1, Zenon DEF GovernorInv, Shape, TypeOK
<1>6. pc' \in [Caller -> Place] /\ lock' \in Caller \cup {None}
  BY <1>4, <1>5 DEF Place, Waiting
<1>7. TypeOK'
  BY <1>1, <1>2, <1>6, Zenon DEF TypeOK
<1>8. /\ pc[c] \in Waiting /\ pc'[c] \in Waiting
      /\ \A d \in Caller : d # c => pc'[d] = pc[d]
  BY <1>4, <1>5, Zenon DEF Waiting
<1>9. \A d \in Caller : pc'[d] \in Waiting <=> pc[d] \in Waiting
  BY <1>8, Zenon
<1>10. \A d \in Caller : pc'[d] \in {"loop", "ready"} => lock' = d
  <2> SUFFICES ASSUME NEW d \in Caller, pc'[d] \in {"loop", "ready"} PROVE lock' = d
    BY Zenon
  <2>1. CASE d # c
    <3>1. lock = d
      BY <1>5, <1>8, <2>1, Zenon
    <3>2. pc[c] \notin {"loop", "ready"} /\ lock # None
      BY <1>5, <2>1, <3>1, GovernorAssumption, ZenonT(60)
    <3> QED
      BY <1>4, <3>2, Zenon
  <2>2. CASE d = c
    <3>1. pc[c] = "loop" => lock = c
      BY <1>5, ZenonT(60)
    <3>2. pc[c] = "ready" => pc'[c] = "waiting"
      BY <1>4, <1>5
    <3> QED
      BY <1>4, <2>2, <3>1, <3>2
  <2> QED
    BY <2>1, <2>2, Zenon
<1>11. \A d \in Caller : pc'[d] = "ready" => cancel'[d] # "done"
  BY <1>2, <1>4, <1>5, Zenon
<1>12. Shape'
  BY <1>2, <1>5, <1>7, <1>9, <1>10, <1>11, SameShape, ZenonT(60)
<1>13. NoLostWakeup'
  <2> SUFFICES ASSUME NEW d \in Caller, pc'[d] = "waiting"
               PROVE  selected # d /\ cancel[d] # "done" /\ ~expired[d]
    BY <1>2, Zenon DEF NoLostWakeup
  <2>1. CASE pc[d] = "waiting"
    BY <1>1, <2>1, Zenon DEF NoLostWakeup
  <2>2. CASE pc[d] # "waiting"
    <3>1. d = c /\ pc[c] = "ready" /\ ~MayClaim(c) /\ ~expired[c]
      BY <1>4, <1>5, <2>2, Zenon
    <3>2. selected = c => MayClaim(c)
      BY <1>1, GovernorAssumption, Zenon DEF Turns, SelectedFits, MayClaim
    <3> QED
      BY <1>5, <3>1, <3>2, Zenon
  <2> QED
    BY SMT, SMTT(30), <2>1, <2>2
<1> QED
  BY <1>3, <1>12, <1>13, Zenon DEF GovernorInv

LEMMA InterruptStep ==
  ASSUME GovernorInv, NEW c \in Caller, Expire(c) \/ CancelStore(c) \/ CancelNotify(c)
  PROVE  GovernorInv'
<1>1. TypeOK /\ Turns /\ WithinBudget /\ NoLostWakeup
  BY DEF GovernorInv, Shape
<1>2. /\ queue' = queue /\ selected' = selected /\ burst' = burst /\ global' = global
      /\ classUse' = classUse /\ passed' = passed /\ held' = held /\ call' = call
      /\ lock' = lock /\ calls' = calls
  BY DEF Expire, CancelStore, CancelNotify, counters, bounds
<1>3. Turns' /\ WithinBudget'
  BY <1>1, <1>2, QuietTurns, Zenon
<1>4. /\ interrupts' \in 0..MaxInterrupts
      /\ expired' \in [Caller -> BOOLEAN]
      /\ cancel' \in [Caller -> {"none", "stored", "done"}]
  <2>1. /\ interrupts \in 0..MaxInterrupts /\ MaxInterrupts \in Nat /\ expired \in [Caller -> BOOLEAN]
        /\ cancel \in [Caller -> {"none", "stored", "done"}]
    BY <1>1, GovernorAssumption, Zenon DEF TypeOK
  <2>2. CASE Expire(c)
    <3>1. /\ interrupts < MaxInterrupts /\ interrupts' = interrupts + 1 /\ cancel' = cancel
          /\ expired' = [expired EXCEPT ![c] = TRUE]
      BY <2>2 DEF Expire, Interrupt
    <3> QED
      BY <2>1, <3>1
  <2>3. CASE CancelStore(c)
    <3>1. /\ interrupts < MaxInterrupts /\ interrupts' = interrupts + 1 /\ expired' = expired
          /\ cancel' = [cancel EXCEPT ![c] = "stored"]
      BY <2>3 DEF CancelStore, Interrupt
    <3> QED
      BY <2>1, <3>1
  <2>4. CASE CancelNotify(c)
    <3>1. /\ interrupts' = interrupts /\ expired' = expired
          /\ cancel' = [cancel EXCEPT ![c] = "done"]
      BY <2>4, Zenon DEF CancelNotify, bounds
    <3> QED
      BY <2>1, <3>1, Zenon
  <2> QED
    BY <2>2, <2>3, <2>4, Zenon
<1>5. /\ pc' \in [Caller -> Place]
      /\ \A d \in Caller : pc'[d] = pc[d] \/ (pc[d] = "waiting" /\ pc'[d] = "woken")
  <2>1. pc \in [Caller -> Place]
    BY <1>1, Zenon DEF TypeOK
  <2>2. CASE Expire(c)
    BY <2>1, <2>2 DEF Expire, Goto, Place, Waiting
  <2>3. CASE CancelStore(c)
    BY <2>1, <2>3, Zenon DEF CancelStore
  <2>4. CASE CancelNotify(c)
    BY <2>1, <2>4, ZenonT(60) DEF CancelNotify, Place, Waiting
  <2> QED
    BY <2>2, <2>3, <2>4, Zenon
<1>6. TypeOK'
  BY SMT, SMTT(30), <1>1, <1>2, <1>4, <1>5 DEF TypeOK
<1>7. /\ Shape /\ cancel \in [Caller -> {"none", "stored", "done"}]
      /\ \A d \in Caller : pc[d] \in {"loop", "ready"} => lock = d
      /\ \A d \in Caller : pc[d] = "ready" => cancel[d] # "done"
  BY <1>1, Zenon DEF GovernorInv, Shape, TypeOK
<1>8. \A d \in Caller : pc'[d] = "ready" => cancel'[d] # "done"
  <2>1. CASE CancelNotify(c)
    <3>1. lock = None
      BY <2>1 DEF CancelNotify
    <3> QED
      BY <1>5, <1>7, <3>1, GovernorAssumption, Zenon
  <2>2. CASE Expire(c) \/ CancelStore(c)
    <3>1. cancel' = cancel \/ cancel' = [cancel EXCEPT ![c] = "stored"]
      BY SMT, SMTT(30), <2>2 DEF Expire, CancelStore
    <3> QED
      BY <1>5, <1>7, <3>1
  <2> QED
    BY <2>1, <2>2, Zenon
<1>9. Shape'
  <2>1. \A d \in Caller : pc'[d] \in Waiting <=> pc[d] \in Waiting
    BY <1>5, Zenon DEF Waiting
  <2>2. \A d \in Caller : pc'[d] \in {"loop", "ready"} => lock' = d
    BY <1>2, <1>5, <1>7
  <2> QED
    BY <1>2, <1>6, <1>7, <1>8, <2>1, <2>2, SameShape, Zenon
<1>10. NoLostWakeup'
  <2>1. CASE CancelNotify(c)
    BY <2>1, Zenon DEF CancelNotify, NoLostWakeup
  <2>2. CASE Expire(c)
    BY <1>1, <1>2, <1>5, <2>2, ZenonT(60) DEF Expire, NoLostWakeup, Goto, TypeOK
  <2>3. CASE CancelStore(c)
    BY SMT, SMTT(30), <1>1, <1>2, <2>3 DEF CancelStore, NoLostWakeup, TypeOK
  <2> QED
    BY <2>1, <2>2, <2>3, Zenon
<1> QED
  BY <1>3, <1>9, <1>10 DEF GovernorInv

LEMMA GovernorNext == GovernorInv /\ [Next]_vars => GovernorInv'
<1> SUFFICES ASSUME GovernorInv, [Next]_vars PROVE GovernorInv'
  BY Zenon
<1>1. ASSUME NEW c \in Caller, LoopCancelled(c) \/ LoopTimedOut(c)
      PROVE  GovernorInv'
  BY <1>1, LeaveStep, Zenon DEF LoopCancelled, LoopTimedOut
<1>2. ASSUME NEW c \in Caller, Release(c)
      PROVE  GovernorInv'
  <2>1. held[c] \in [Resource -> Nat]
    BY Zenon DEF GovernorInv, Shape, TypeOK
  <2> QED
    BY <1>2, <2>1, ReturnStep DEF Release
<1>3. ASSUME NEW c \in Caller, ShrinkTo(c)
      PROVE  GovernorInv'
  <2> DEFINE t == [held[c] EXCEPT !["memory"] = 0]
  <2>1. held[c] \in [Resource -> Nat]
    BY DEF GovernorInv, Shape, TypeOK
  <2>2. t \in [Resource -> Nat] /\ \A r \in Resource : t[r] <= held[c][r]
    <3>1. \A r \in Resource : t[r] = IF r = "memory" THEN 0 ELSE held[c][r]
      BY <2>1
    <3>2. t \in [Resource -> Nat]
      BY <2>1, Zenon, 0 \in Nat
    <3> HIDE DEF t
    <3> QED
      BY <2>1, <3>1, <3>2
  <2>3. pc[c] = "holding" /\ lock = None /\ Return(c, t, "holding")
    BY <1>3 DEF ShrinkTo
  <2> HIDE DEF t
  <2> QED
    BY <2>2, <2>3, ReturnStep, Zenon
<1>4. CASE UNCHANGED vars
  <2>1. /\ queue' = queue /\ selected' = selected /\ burst' = burst /\ global' = global
        /\ classUse' = classUse /\ passed' = passed /\ held' = held /\ call' = call
        /\ lock' = lock /\ calls' = calls /\ interrupts' = interrupts /\ pc' = pc
        /\ expired' = expired /\ cancel' = cancel
    BY <1>4 DEF vars
  <2>2. Turns' /\ WithinBudget'
    BY <2>1, QuietTurns DEF GovernorInv
  <2>3. Shape'
    <3>1. Shape /\ TypeOK
      BY DEF GovernorInv, Shape
    <3>2. TypeOK'
      BY <2>1, <3>1, Zenon DEF TypeOK
    <3>3. /\ \A d \in Caller : pc'[d] \in {"loop", "ready"} => lock' = d
          /\ \A d \in Caller : pc'[d] = "ready" => cancel'[d] # "done"
          /\ \A d \in Caller : pc'[d] \in Waiting <=> pc[d] \in Waiting
      BY <2>1, <3>1, Zenon DEF Shape
    <3> QED
      BY <2>1, <3>1, <3>2, <3>3, SameShape, ZenonT(60)
  <2>4. NoLostWakeup'
    BY <2>1, Zenon DEF GovernorInv, NoLostWakeup
  <2> QED
    BY <2>2, <2>3, <2>4 DEF GovernorInv
<1> QED
  BY <1>1, <1>2, <1>3, <1>4, EnqueueStep, ClaimStep, TryAdmitStep, EnterStep, WaitStep,
     InterruptStep, Zenon DEF Next, Queued

\* The governor's state is well typed: tickets are callers, the burst is within
\* its limit, and what a permit holds is never negative.
THEOREM GovernorTypes == Spec => []TypeOK
<1>1. GovernorInv => TypeOK
  BY DEF GovernorInv, Shape
<1> QED
  BY <1>1, GovernorInit, GovernorNext, PTL DEF Spec

\* Whoever is selected can take its tokens, nothing that fits is overlooked, and
\* whoever must act is awake: admission never stands still while work fits.
THEOREM SelectionIsLive == Spec => [](SelectionSound /\ NoLostWakeup)
<1>1. GovernorInv => SelectionSound /\ NoLostWakeup
  BY DEF GovernorInv, Turns, SelectionSound
<1> QED
  BY <1>1, GovernorInit, GovernorNext, PTL DEF Spec

\* Foreground work overtakes background work that fits at most BurstLimit times.
THEOREM BurstAlwaysBounded == Spec => []BurstBounded
<1>1. GovernorInv => BurstBounded
  <2> SUFFICES ASSUME GovernorInv PROVE BurstBounded
    BY Zenon
  <2>1. burst \in 0..BurstLimit /\ passed \in [over : BOOLEAN, count : Nat]
    BY Zenon DEF GovernorInv, Shape, TypeOK
  <2>2. BurstLimit \in Nat /\ passed.count \in Nat
    BY <2>1, GovernorAssumption, Zenon
  <2>3. passed.count <= burst \/ passed.count = 0
    BY Zenon DEF GovernorInv, Turns, Sharing
  <2> QED
    BY <2>1, <2>2, <2>3 DEF BurstBounded
<1> QED
  BY <1>1, GovernorInit, GovernorNext, PTL DEF Spec

\* Neither the machine nor a class is ever over-committed.
THEOREM AlwaysWithinBudget == Spec => []WithinBudget
<1>1. GovernorInv => WithinBudget
  BY DEF GovernorInv
<1> QED
  BY <1>1, GovernorInit, GovernorNext, PTL DEF Spec

-----------------------------------------------------------------------------
(* The counters against the permits: a sum over callers is the number of   *)
(* pairs of a caller and one of its tokens, so that taking one caller out  *)
(* of the sum is a fact about disjoint finite sets.                        *)
\* The items a function counts, one pair for each: a sum as a cardinality.
Items(f, S) == UNION {{c} \X (1..f[c]) : c \in S}

LEMMA ItemsOf ==
  ASSUME NEW S, NEW f, NEW x
  PROVE  x \in Items(f, S) <=> \E c \in S : \E i \in 1..f[c] : x = <<c, i>>
<1>1. x \in Items(f, S) <=> \E c \in S : x \in {c} \X (1..f[c])
  BY Zenon DEF Items
<1>2. ASSUME NEW c PROVE x \in {c} \X (1..f[c]) <=> \E i \in 1..f[c] : x = <<c, i>>
  BY SMT
<1> QED
  BY <1>1, <1>2, Zenon

\* What one member of S adds to the sum.
LEMMA ItemsSplit ==
  ASSUME NEW S, IsFiniteSet(S), NEW f, \A c \in S : f[c] \in Nat, NEW c
  PROVE  /\ IsFiniteSet(Items(f, S)) /\ Cardinality(Items(f, S)) \in Nat
         /\ Cardinality(Items(f, S \ {c})) \in Nat
         /\ Cardinality(Items(f, S)) =
              Cardinality(Items(f, S \ {c})) + (IF c \in S THEN f[c] ELSE 0)
<1>1. ASSUME NEW d \in S
      PROVE  IsFiniteSet({d} \X (1..f[d])) /\ Cardinality({d} \X (1..f[d])) = f[d]
  <2>1. f[d] \in Nat
    OBVIOUS
  <2>2. IsFiniteSet(1..f[d]) /\ Cardinality(1..f[d]) = f[d]
    <3>1. 1 \in Int /\ f[d] \in Int
      BY <2>1
    <3>2. IsFiniteSet(1..f[d]) /\ Cardinality(1..f[d]) = IF 1 > f[d] THEN 0 ELSE f[d] - 1 + 1
      BY <3>1, FS_Interval, Zenon
    <3> QED
      BY <2>1, <3>2
  <2>3. IsFiniteSet({d}) /\ Cardinality({d}) = 1
    BY FS_Singleton, Zenon
  <2>4. /\ IsFiniteSet({d} \X (1..f[d]))
        /\ Cardinality({d} \X (1..f[d])) = Cardinality({d}) * Cardinality(1..f[d])
    BY <2>2, <2>3, FS_Product, Zenon
  <2> QED
    BY <2>1, <2>2, <2>3, <2>4
<1>2. ASSUME NEW R \in SUBSET S
      PROVE  IsFiniteSet(Items(f, R)) /\ Cardinality(Items(f, R)) \in Nat
  <2> DEFINE g == [d \in R |-> {d} \X (1..f[d])]
             T == {{d} \X (1..f[d]) : d \in R}
  <2>1. g \in Surjection(R, T)
    BY Zenon DEF Surjection
  <2>2. IsFiniteSet(R)
    BY FS_Subset
  <2>3. IsFiniteSet(T)
    BY <2>1, <2>2, FS_Surjection, Zenon
  <2>4. \A U \in T : IsFiniteSet(U)
    BY <1>1, Zenon
  <2> QED
    BY <2>3, <2>4, FS_UNION, FS_CardinalityType, Zenon DEF Items
<1>3. CASE c \notin S
  <2>1. S \ {c} = S
    BY <1>3, Zenon
  <2> QED
    BY <1>2, <1>3, <2>1
<1>4. CASE c \in S
  <2> DEFINE A == Items(f, S \ {c})
             B == {c} \X (1..f[c])
  <2>1. Items(f, S) = A \cup B
    <3>1. ASSUME NEW x PROVE x \in Items(f, S) <=> x \in A \cup B
      <4>1. x \in B <=> \E i \in 1..f[c] : x = <<c, i>>
        BY SMT
      <4>2. x \in A <=> \E d \in S \ {c} : \E i \in 1..f[d] : x = <<d, i>>
        BY ItemsOf, SMT
      <4>3. x \in Items(f, S) <=> \E d \in S : \E i \in 1..f[d] : x = <<d, i>>
        BY ItemsOf, SMT
      <4> HIDE DEF A, B
      <4> QED
        BY <1>4, <4>1, <4>2, <4>3, Zenon
    <3> HIDE DEF A, B
    <3> QED
      BY <3>1, Zenon
  <2>2. A \cap B = {}
    <3>1. ASSUME NEW x, x \in A, x \in B PROVE FALSE
      <4>1. PICK d \in S \ {c} : \E i \in 1..f[d] : x = <<d, i>>
        BY <3>1, ItemsOf, SMT
      <4>2. PICK i \in 1..f[d] : x = <<d, i>>
        BY <4>1, Zenon
      <4> QED
        BY <3>1, <4>2, Zenon
    <3> QED
      BY <3>1, Zenon
  <2>3. IsFiniteSet(A) /\ Cardinality(A) \in Nat
    BY <1>2, Zenon
  <2>4. IsFiniteSet(B) /\ Cardinality(B) = f[c]
    BY <1>1, <1>4
  <2> HIDE DEF A, B
  <2>5. Cardinality(A \cup B) = Cardinality(A) + Cardinality(B) - Cardinality(A \cap B)
    BY <2>3, <2>4, FS_Union, Zenon
  <2>6. Cardinality(A \cap B) = 0
    BY <2>2, FS_EmptySet, Zenon
  <2>7. f[c] \in Nat
    BY <1>4, Zenon
  <2>8. Cardinality(Items(f, S)) = Cardinality(A) + f[c]
    BY <2>1, <2>3, <2>4, <2>5, <2>6, <2>7
  <2> QED
    BY <1>2, <1>4, <2>3, <2>8, Zenon DEF A
<1> QED
  BY <1>3, <1>4, ZenonT(60)

LEMMA ItemsSame ==
  ASSUME NEW S, NEW f, NEW g, \A c \in S : f[c] = g[c]
  PROVE  Items(f, S) = Items(g, S)
  <1>1. ASSUME NEW x PROVE x \in Items(f, S) <=> x \in Items(g, S)
    BY ItemsOf, SMT
  <1> QED
    BY <1>1, Zenon

Of(r) == [c \in Caller |-> held[c][r]]
OfClass(k) == {c \in Caller : ClassOf(c) = k}

LEMMA OwnedItems ==
  ASSUME NEW S \in SUBSET Caller, NEW r
  PROVE  Owned(S, r) = Cardinality(Items(Of(r), S))
<1>1. \A c \in S : {c} \X (1..held[c][r]) = {c} \X (1..Of(r)[c])
  BY Zenon DEF Of
<1>2. UNION {{c} \X (1..held[c][r]) : c \in S} = UNION {{c} \X (1..Of(r)[c]) : c \in S}
  BY <1>1, ZenonT(60)
<1> QED
  BY <1>2, Zenon DEF Owned, Items

\* Who holds no permit owns nothing.
PermitsOwn == \A c \in Caller : pc[c] # "holding" => held[c] = Nothing

TokenInv == TokensExact /\ PermitsOwn

\* A step in which only c's tokens or class change moves every sum by what c
\* has taken or returned.
LEMMA OneCaller ==
  ASSUME TypeOK, TypeOK', NEW c \in Caller, NEW r \in Resource,
         \A d \in Caller \ {c} : held'[d] = held[d] /\ call'[d] = call[d]
  PROVE  /\ Owned(Caller, r)' - held'[c][r] = Owned(Caller, r) - held[c][r]
         /\ Owned(Caller, r) \in Nat /\ Owned(Caller, r)' \in Nat
         /\ \A k \in Class :
              /\ Owned(OfClass(k), r)' - (IF ClassOf(c)' = k THEN held'[c][r] ELSE 0)
                   = Owned(OfClass(k), r) - (IF ClassOf(c) = k THEN held[c][r] ELSE 0)
              /\ Owned(OfClass(k), r) \in Nat /\ Owned(OfClass(k), r)' \in Nat
<1>1. /\ \A d \in Caller : held[d][r] \in Nat /\ held'[d][r] \in Nat
      /\ \A d \in Caller : Of(r)[d] = held[d][r] /\ Of(r)'[d] = held'[d][r]
  BY DEF TypeOK, Of
<1>2. IsFiniteSet(Caller)
  BY GovernorAssumption, Zenon
<1>3. ASSUME NEW S \in SUBSET Caller, NEW T \in SUBSET Caller, S \ {c} = T \ {c}
      PROVE  /\ Cardinality(Items(Of(r), S)) \in Nat /\ Cardinality(Items(Of(r)', T)) \in Nat
             /\ Cardinality(Items(Of(r)', T)) - (IF c \in T THEN held'[c][r] ELSE 0)
                  = Cardinality(Items(Of(r), S)) - (IF c \in S THEN held[c][r] ELSE 0)
  <2>1. IsFiniteSet(S) /\ IsFiniteSet(T)
    BY <1>2, FS_Subset
  <2>2. (\A d \in S : Of(r)[d] \in Nat) /\ (\A d \in T : Of(r)'[d] \in Nat)
    BY <1>1, Zenon
  <2>3. \A d \in S \ {c} : Of(r)[d] = Of(r)'[d]
    BY <1>1, ZenonT(60)
  <2>4. Items(Of(r), S \ {c}) = Items(Of(r)', T \ {c})
    <3>1. Items(Of(r), S \ {c}) = Items(Of(r)', S \ {c})
      BY <2>3, ItemsSame, Zenon
    <3> QED
      BY <1>3, <3>1, Zenon
  <2>5. /\ Cardinality(Items(Of(r), S)) \in Nat /\ Cardinality(Items(Of(r), S \ {c})) \in Nat
        /\ Cardinality(Items(Of(r), S)) =
             Cardinality(Items(Of(r), S \ {c})) + (IF c \in S THEN Of(r)[c] ELSE 0)
    BY <2>1, <2>2, ItemsSplit, ZenonT(60)
  <2>6. /\ Cardinality(Items(Of(r)', T)) \in Nat
        /\ Cardinality(Items(Of(r)', T)) =
             Cardinality(Items(Of(r)', T \ {c})) + (IF c \in T THEN Of(r)'[c] ELSE 0)
    BY <2>1, <2>2, ItemsSplit, ZenonT(60)
  <2> DEFINE old == Cardinality(Items(Of(r), S))
             new == Cardinality(Items(Of(r)', T))
             rest == Cardinality(Items(Of(r), S \ {c}))
             mine == IF c \in S THEN held[c][r] ELSE 0
             mine1 == IF c \in T THEN held'[c][r] ELSE 0
  <2>7. rest \in Nat /\ old \in Nat /\ old = rest + mine
    BY <1>1, <2>5, Zenon
  <2>8. new \in Nat /\ new = rest + mine1
    BY <1>1, <2>4, <2>6, Zenon
  <2>9. mine \in Nat /\ mine1 \in Nat
    BY <1>1, Zenon
  <2>10. new - mine1 = old - mine
    <3> HIDE DEF old, new, rest, mine, mine1
    <3> QED
      BY <2>7, <2>8, <2>9
  <2> QED
    BY <2>7, <2>8, <2>10, Zenon
<1>4. ASSUME NEW S \in SUBSET Caller
      PROVE  Owned(S, r) = Cardinality(Items(Of(r), S))
  BY OwnedItems, ZenonT(60)
<1>5. /\ Owned(Caller, r)' = Cardinality(Items(Of(r)', Caller))
      /\ \A k \in Class : Owned(OfClass(k), r)' = Cardinality(Items(Of(r)', OfClass(k)'))
  <2>1. ASSUME NEW S \in SUBSET Caller
        PROVE  UNION {{d} \X (1..held'[d][r]) : d \in S} = UNION {{d} \X (1..Of(r)'[d]) : d \in S}
    <3>1. \A d \in S : {d} \X (1..held'[d][r]) = {d} \X (1..Of(r)'[d])
      BY <1>1, Zenon
    <3> QED
      BY <3>1, ZenonT(60)
  <2>2. \A k \in Class : OfClass(k)' \in SUBSET Caller
    BY DEF OfClass
  <2>3. Owned(Caller, r)' = Cardinality(Items(Of(r)', Caller))
    BY <2>1, Zenon DEF Owned, Items
  <2>4. ASSUME NEW k \in Class
        PROVE  Owned(OfClass(k), r)' = Cardinality(Items(Of(r)', OfClass(k)'))
    BY <2>1, <2>2, Zenon DEF Owned, Items
  <2> QED
    BY <2>3, <2>4
<1>6. ASSUME NEW k \in Class
      PROVE  /\ OfClass(k) \in SUBSET Caller /\ OfClass(k)' \in SUBSET Caller
             /\ OfClass(k) \ {c} = OfClass(k)' \ {c}
             /\ c \in OfClass(k) <=> ClassOf(c) = k
             /\ c \in OfClass(k)' <=> ClassOf(c)' = k
  BY DEF OfClass, ClassOf
<1>7. /\ Owned(Caller, r)' - held'[c][r] = Owned(Caller, r) - held[c][r]
      /\ Owned(Caller, r) \in Nat /\ Owned(Caller, r)' \in Nat
  <2>1. /\ Cardinality(Items(Of(r), Caller)) \in Nat /\ Cardinality(Items(Of(r)', Caller)) \in Nat
        /\ Cardinality(Items(Of(r)', Caller)) - held'[c][r] = Cardinality(Items(Of(r), Caller)) - held[c][r]
    <3>1. Caller \in SUBSET Caller /\ c \in Caller
      OBVIOUS
    <3> QED
      BY <1>3, <3>1, Zenon
  <2>2. Owned(Caller, r) = Cardinality(Items(Of(r), Caller))
    BY <1>4, Zenon
  <2> QED
    BY <1>5, <2>1, <2>2, Zenon
<1>8. ASSUME NEW k \in Class
      PROVE  /\ Owned(OfClass(k), r)' - (IF ClassOf(c)' = k THEN held'[c][r] ELSE 0)
                   = Owned(OfClass(k), r) - (IF ClassOf(c) = k THEN held[c][r] ELSE 0)
             /\ Owned(OfClass(k), r) \in Nat /\ Owned(OfClass(k), r)' \in Nat
  <2>1. /\ Cardinality(Items(Of(r), OfClass(k))) \in Nat
        /\ Cardinality(Items(Of(r)', OfClass(k)')) \in Nat
        /\ Cardinality(Items(Of(r)', OfClass(k)')) - (IF c \in OfClass(k)' THEN held'[c][r] ELSE 0)
             = Cardinality(Items(Of(r), OfClass(k))) - (IF c \in OfClass(k) THEN held[c][r] ELSE 0)
    BY <1>3, <1>6, Zenon
  <2>2. Owned(OfClass(k), r) = Cardinality(Items(Of(r), OfClass(k)))
    BY <1>4, <1>6, Zenon
  <2> QED
    BY <1>5, <1>6, <2>1, <2>2, Zenon
<1> QED
  BY <1>7, <1>8, Zenon

\* What a step of c may do to the counters: move them by what c holds.
Balanced(c) ==
  \A r \in Resource :
    /\ global'[r] - held'[c][r] = global[r] - held[c][r]
    /\ \A k \in Class :
         classUse'[k][r] - (IF ClassOf(c)' = k THEN held'[c][r] ELSE 0)
           = classUse[k][r] - (IF ClassOf(c) = k THEN held[c][r] ELSE 0)

OthersKeep(c) == \A d \in Caller \ {c} : held'[d] = held[d] /\ call'[d] = call[d]

\* From what c has taken or returned to the counters of the next state.
LEMMA Accounted ==
  ASSUME TypeOK, TypeOK', TokensExact, NEW c \in Caller, OthersKeep(c), Balanced(c)
  PROVE  TokensExact'
<1>0. /\ held \in [Caller -> [Resource -> Nat]] /\ held' \in [Caller -> [Resource -> Nat]]
      /\ global' \in [Resource -> Int] /\ classUse' \in [Class -> [Resource -> Int]]
  BY Zenon DEF TypeOK
<1>a. \A d \in Caller \ {c} : held'[d] = held[d] /\ call'[d] = call[d]
  BY Zenon DEF OthersKeep
<1>1. ASSUME NEW r \in Resource
      PROVE  global'[r] = Owned(Caller, r)'
  <2> DEFINE own == Owned(Caller, r)
             own1 == Owned(Caller, r)'
             g1 == global'[r]
             h == held[c][r]
             h1 == held'[c][r]
  <2>1. g1 - h1 = own - h
    BY Zenon DEF TokensExact, Balanced
  <2>2. own1 - h1 = own - h /\ own \in Nat /\ own1 \in Nat
    BY <1>a, OneCaller, Zenon
  <2>3. h \in Nat /\ h1 \in Nat /\ g1 \in Int
    BY <1>0, Zenon
  <2> HIDE DEF own, own1, g1, h, h1
  <2>4. g1 = own1
    BY <2>1, <2>2, <2>3
  <2> QED
    BY <2>4, Zenon DEF g1, own1
<1>2. ASSUME NEW r \in Resource, NEW k \in Class
      PROVE  classUse'[k][r] = Owned(OfClass(k), r)'
  <2> DEFINE own == Owned(OfClass(k), r)
             own1 == Owned(OfClass(k), r)'
             u1 == classUse'[k][r]
             mine == IF ClassOf(c) = k THEN held[c][r] ELSE 0
             mine1 == IF ClassOf(c)' = k THEN held'[c][r] ELSE 0
  <2>0. classUse[k][r] = own
    BY Zenon DEF TokensExact, OfClass
  <2>1. u1 - mine1 = own - mine
    BY <2>0, Zenon DEF Balanced
  <2>2. own1 - mine1 = own - mine /\ own \in Nat /\ own1 \in Nat
    BY <1>a, OneCaller, Zenon
  <2>3. mine \in Nat /\ mine1 \in Nat /\ u1 \in Int
    <3>1. 0 \in Nat
      OBVIOUS
    <3> QED
      BY <1>0, <3>1, Zenon
  <2> HIDE DEF own, own1, u1, mine, mine1
  <2>4. u1 = own1
    BY <2>1, <2>2, <2>3
  <2> QED
    BY <2>4, Zenon DEF u1, own1
<1> QED
  BY <1>1, <1>2, Zenon DEF TokensExact, OfClass

\* The steps that neither take nor return tokens: their caller has no permit,
\* or nothing about it changes.
LEMMA TokensKept ==
  ASSUME TypeOK, TypeOK', TokenInv, NEW c \in Caller,
         held' = held, global' = global, classUse' = classUse,
         \A d \in Caller : pc'[d] = "holding" <=> pc[d] = "holding",
         \A d \in Caller \ {c} : call'[d] = call[d],
         pc[c] = "holding" => call'[c] = call[c]
  PROVE  TokenInv'
<1>1. PermitsOwn'
  BY ZenonT(60) DEF TokenInv, PermitsOwn
<1>2. ASSUME NEW r \in Resource, NEW k \in Class
      PROVE  classUse'[k][r] - (IF ClassOf(c)' = k THEN held'[c][r] ELSE 0)
               = classUse[k][r] - (IF ClassOf(c) = k THEN held[c][r] ELSE 0)
  <2>1. CASE pc[c] = "holding"
    BY <2>1, Zenon DEF ClassOf
  <2>2. CASE pc[c] # "holding"
    <3>1. held[c][r] = 0 /\ held'[c][r] = 0
      BY <2>2 DEF TokenInv, PermitsOwn, Nothing
    <3> QED
      BY <3>1, Zenon
  <2> QED
    BY <2>1, <2>2
<1>3. TokensExact'
  <2>1. OthersKeep(c)
    BY Zenon DEF OthersKeep
  <2>2. Balanced(c)
    BY <1>2, Zenon DEF Balanced
  <2> QED
    BY <2>1, <2>2, Accounted, Zenon DEF TokenInv
<1> QED
  BY <1>1, <1>3 DEF TokenInv

\* The counters when c takes t, and when it returns t.
Takes(c, k, t) ==
  /\ held' = [held EXCEPT ![c] = t]
  /\ global' = Plus(global, t)
  /\ classUse' = More(classUse, k, t)

GivesBack(c, k, t) ==
  /\ held' = [held EXCEPT ![c] = Minus(@, t)]
  /\ global' = Minus(global, t)
  /\ classUse' = Less(classUse, k, t)

OthersPermitsStay(c) ==
  \A d \in Caller \ {c} : call'[d] = call[d] /\ (pc'[d] = "holding" <=> pc[d] = "holding")

LEMMA CountersTyped ==
  ASSUME TypeOK
  PROVE  /\ global \in [Resource -> Int] /\ classUse \in [Class -> [Resource -> Int]]
         /\ held \in [Caller -> [Resource -> Nat]]
  BY Zenon DEF TypeOK

\* Taking away again what was added, and what is held changes by as much.
TakenEven(g, u, k, t, j, r) ==
  /\ Plus(g, t)[r] - t[r] = g[r] - 0
  /\ More(u, k, t)[j][r] - Part(k, j, t[r]) = u[j][r] - 0

ReturnedEven(g, u, k, h, t, j, r) ==
  /\ Minus(g, t)[r] - Minus(h, t)[r] = g[r] - h[r]
  /\ Less(u, k, t)[j][r] - Part(k, j, Minus(h, t)[r]) = u[j][r] - Part(k, j, h[r])

LEMMA TakenBalance ==
  ASSUME NEW g \in [Resource -> Int], NEW u \in [Class -> [Resource -> Int]], NEW k \in Class,
         NEW t \in [Resource -> Nat], NEW j \in Class, NEW r \in Resource
  PROVE  TakenEven(g, u, k, t, j, r)
<1>1. Plus(g, t)[r] = g[r] + t[r]
  BY PlusFacts, Zenon
<1>2. More(u, k, t)[j][r] = u[j][r] + Part(k, j, t[r])
  BY ClassPlus, Zenon
<1>3. g[r] \in Int /\ u[j][r] \in Int /\ t[r] \in Nat
  BY Zenon
<1> DEFINE m == Part(k, j, t[r])
           v == u[j][r]
           w == More(u, k, t)[j][r]
<1>4. w = v + m /\ v \in Int /\ m \in Nat
  BY <1>2, <1>3 DEF Part
<1>5. Plus(g, t)[r] - t[r] = g[r] - 0
  BY <1>1, <1>3
<1> HIDE DEF m, v, w
<1>6. w - m = v - 0
  BY <1>4
<1> QED
  BY <1>5, <1>6, Zenon DEF m, v, w, TakenEven

LEMMA ReturnedBalance ==
  ASSUME NEW g \in [Resource -> Int], NEW u \in [Class -> [Resource -> Int]], NEW k \in Class,
         NEW h \in [Resource -> Nat], NEW t \in [Resource -> Nat], NEW j \in Class, NEW r \in Resource
  PROVE  ReturnedEven(g, u, k, h, t, j, r)
<1>1. Minus(g, t)[r] = g[r] - t[r]
  BY MinusFacts, Zenon
<1>2. Less(u, k, t)[j][r] = u[j][r] - Part(k, j, t[r])
  BY ClassPlus, ZenonT(60)
<1>3. g[r] \in Int /\ u[j][r] \in Int /\ t[r] \in Nat /\ h[r] \in Nat
  BY Zenon
<1>4. Minus(h, t)[r] = h[r] - t[r]
  BY Zenon DEF Minus
<1> DEFINE m == Part(k, j, t[r])
           x == Part(k, j, h[r])
           y == Part(k, j, Minus(h, t)[r])
           v == u[j][r]
           w == Less(u, k, t)[j][r]
<1>5. w = v - m /\ y = x - m /\ v \in Int /\ m \in Nat /\ x \in Nat
  BY <1>2, <1>3, <1>4 DEF Part
<1>6. Minus(g, t)[r] - Minus(h, t)[r] = g[r] - h[r]
  BY <1>1, <1>3, <1>4
<1> HIDE DEF m, x, y, v, w
<1>7. w - y = v - x
  BY <1>5
<1> QED
  BY <1>6, <1>7, Zenon DEF m, x, y, v, w, ReturnedEven

\* The steps that take tokens: c had none.
LEMMA TokensTaken ==
  ASSUME TypeOK, TypeOK', TokenInv, NEW c \in Caller, NEW k \in Class, NEW t \in [Resource -> Nat],
         pc[c] # "holding", pc'[c] = "holding", OthersPermitsStay(c),
         ClassOf(c)' = k, Takes(c, k, t)
  PROVE  TokenInv'
<1>1. /\ global \in [Resource -> Int] /\ classUse \in [Class -> [Resource -> Int]]
      /\ held \in [Caller -> [Resource -> Nat]]
  BY CountersTyped, Zenon
<1>2. held[c] = Nothing
  BY Zenon DEF TokenInv, PermitsOwn
<1>3. held'[c] = t /\ \A d \in Caller \ {c} : held'[d] = held[d]
  BY <1>1, Zenon DEF Takes
<1>4. PermitsOwn'
  BY <1>3, Zenon DEF TokenInv, PermitsOwn, OthersPermitsStay
<1>5. OthersKeep(c)
  BY <1>3, Zenon DEF OthersPermitsStay, OthersKeep
<1>6. ASSUME NEW r \in Resource, NEW j \in Class
      PROVE  /\ global'[r] - held'[c][r] = global[r] - held[c][r]
             /\ classUse'[j][r] - (IF ClassOf(c)' = j THEN held'[c][r] ELSE 0)
                  = classUse[j][r] - (IF ClassOf(c) = j THEN held[c][r] ELSE 0)
  <2>1. held[c][r] = 0 /\ (IF ClassOf(c) = j THEN held[c][r] ELSE 0) = 0
    BY <1>2, Zenon DEF Nothing
  <2>2. /\ Plus(global, t)[r] - t[r] = global[r] - 0
        /\ More(classUse, k, t)[j][r] - Part(k, j, t[r]) = classUse[j][r] - 0
    <3>1. TakenEven(global, classUse, k, t, j, r)
      BY <1>1, TakenBalance, Zenon
    <3> QED
      BY <3>1, Zenon DEF TakenEven
  <2>3. global' = Plus(global, t) /\ classUse' = More(classUse, k, t)
    BY Zenon DEF Takes
  <2> QED
    BY <1>3, <2>1, <2>2, <2>3, Zenon DEF Part
<1>7. Balanced(c)
  <2>1. Class # {}
    BY <1>1, Zenon
  <2> QED
    BY <1>6, <2>1, Zenon DEF Balanced
<1>8. TokensExact'
  BY <1>5, <1>7, Accounted, Zenon DEF TokenInv
<1> QED
  BY <1>4, <1>8, Zenon DEF TokenInv

\* The steps that return tokens: of a permit that goes, all of them.
LEMMA TokensReturned ==
  ASSUME TypeOK, TypeOK', TokenInv, NEW c \in Caller, NEW t \in [Resource -> Nat],
         NEW p \in {"idle", "holding"}, pc[c] = "holding", Return(c, t, p),
         p = "idle" => t = held[c]
  PROVE  TokenInv'
<1>1. GivesBack(c, ClassOf(c), t) /\ Notify(c, p)
  BY Zenon DEF Return, SelectNext, GivesBack, Less
<1>2. pc'[c] = p /\ (p # "idle" => call' = call) /\ OthersPermitsStay(c)
  <2>1. /\ pc'[c] = p /\ (p # "idle" => call' = call)
        /\ \A d \in Caller \ {c} : call'[d] = call[d] /\ (pc'[d] = "holding" <=> pc[d] = "holding")
    BY <1>1, Zenon DEF Notify, TypeOK
  <2> QED
    BY <2>1, Zenon DEF OthersPermitsStay
<1>3. /\ global \in [Resource -> Int] /\ classUse \in [Class -> [Resource -> Int]]
      /\ held \in [Caller -> [Resource -> Nat]] /\ held[c] \in [Resource -> Nat]
  BY CountersTyped, Zenon
<1>4. ClassOf(c) \in Class
  BY Zenon DEF ClassOf, TypeOK
<1>5. held'[c] = Minus(held[c], t) /\ \A d \in Caller \ {c} : held'[d] = held[d]
  BY <1>1, <1>3, Zenon DEF GivesBack
<1>6. ASSUME NEW r \in Resource, NEW j \in Class
      PROVE  /\ Minus(global, t)[r] - Minus(held[c], t)[r] = global[r] - held[c][r]
             /\ Less(classUse, ClassOf(c), t)[j][r] - Part(ClassOf(c), j, Minus(held[c], t)[r])
                  = classUse[j][r] - Part(ClassOf(c), j, held[c][r])
  <2>1. ReturnedEven(global, classUse, ClassOf(c), held[c], t, j, r)
    BY <1>3, <1>4, ReturnedBalance, Zenon
  <2> QED
    BY <2>1, Zenon DEF ReturnedEven
<1>7. p = "idle" => held'[c] = Nothing
  <2> SUFFICES ASSUME p = "idle" PROVE held'[c] = Nothing
    BY Zenon
  <2>1. held'[c] = Minus(held[c], held[c])
    BY <1>5, Zenon
  <2>2. \A r \in Resource : held[c][r] - held[c][r] = 0
    <3>1. \A n \in Nat : n - n = 0
      OBVIOUS
    <3> QED
      BY <1>3, <3>1, Zenon
  <2> QED
    BY <2>1, <2>2, Zenon DEF Minus, Nothing
<1>8. PermitsOwn'
  BY <1>2, <1>5, <1>7, Zenon DEF TokenInv, PermitsOwn, OthersPermitsStay
<1>9. OthersKeep(c)
  BY <1>2, <1>5, Zenon DEF OthersPermitsStay, OthersKeep
<1>10. ASSUME NEW r \in Resource, NEW j \in Class
       PROVE  /\ global'[r] - held'[c][r] = global[r] - held[c][r]
              /\ classUse'[j][r] - (IF ClassOf(c)' = j THEN held'[c][r] ELSE 0)
                   = classUse[j][r] - (IF ClassOf(c) = j THEN held[c][r] ELSE 0)
  <2>1. (IF ClassOf(c)' = j THEN held'[c][r] ELSE 0) = IF ClassOf(c) = j THEN held'[c][r] ELSE 0
    <3>1. CASE p = "idle"
      <4>1. held'[c][r] = 0
        BY <1>7, <3>1, Zenon DEF Nothing
      <4> QED
        BY <4>1, Zenon
    <3>2. CASE p # "idle"
      BY <1>2, <3>2, Zenon DEF ClassOf
    <3> QED
      BY <3>1, <3>2, Zenon
  <2>2. global' = Minus(global, t) /\ classUse' = Less(classUse, ClassOf(c), t)
    BY <1>1, Zenon DEF GivesBack
  <2> QED
    BY <1>5, <1>6, <2>1, <2>2, ZenonT(60) DEF Part
<1>11. Balanced(c)
  BY <1>4, <1>10, Zenon DEF Balanced
<1>12. TokensExact'
  BY <1>9, <1>11, Accounted, Zenon DEF TokenInv
<1> QED
  BY <1>8, <1>12, Zenon DEF TokenInv

LEMMA TokenInit == Init => TokenInv
<1> SUFFICES ASSUME Init PROVE TokenInv
  OBVIOUS
<1>1. PermitsOwn
  BY DEF Init, PermitsOwn
<1>2. ASSUME NEW S \in SUBSET Caller, NEW r \in Resource
      PROVE  Owned(S, r) = 0
  <2>1. \A c \in S : held[c][r] = 0
    BY DEF Init, Nothing
  <2>2. 1..0 = {}
    OBVIOUS
  <2>3. \A c \in S : {c} \X (1..held[c][r]) = {}
    BY <2>1, <2>2
  <2>4. UNION {{c} \X (1..held[c][r]) : c \in S} = {}
    BY <2>3, Zenon
  <2> QED
    BY <2>4, FS_EmptySet, ZenonT(60) DEF Owned
<1>3. \A k \in Class : {c \in Caller : ClassOf(c) = k} \in SUBSET Caller
  OBVIOUS
<1>4. \A r \in Resource : global[r] = 0 /\ \A k \in Class : classUse[k][r] = 0
  BY DEF Init, Nothing
<1>5. TokensExact
  BY <1>2, <1>3, <1>4, Zenon DEF TokensExact
<1> QED
  BY <1>1, <1>5, Zenon DEF TokenInv

LEMMA TokenNext == GovernorInv /\ GovernorInv' /\ TokenInv /\ [Next]_vars => TokenInv'
<1> SUFFICES ASSUME GovernorInv, GovernorInv', TokenInv, [Next]_vars PROVE TokenInv'
  BY Zenon
<1>1. TypeOK /\ TypeOK'
  BY DEF GovernorInv, Shape
<1>2. ASSUME NEW c \in Caller, Enter(c) \/ EnqueueFull(c)
      PROVE  TokenInv'
  <2>1. /\ held' = held /\ global' = global /\ classUse' = classUse /\ pc[c] # "holding"
        /\ pc' = pc \/ \E p \in {"idle", "entering"} : pc' = [pc EXCEPT ![c] = p]
        /\ call' = call \/ \E k \in Call \cup {NoCall} : call' = [call EXCEPT ![c] = k]
    BY <1>2, Zenon DEF Enter, EnqueueFull, counters, Goto
  <2>2. /\ \A d \in Caller : pc'[d] = "holding" <=> pc[d] = "holding"
        /\ \A d \in Caller \ {c} : call'[d] = call[d]
    BY <1>1, <2>1, ZenonT(60) DEF TypeOK
  <2> QED
    BY <1>1, <2>1, <2>2, TokensKept, Zenon
<1>3. ASSUME NEW c \in Caller, Enqueue(c) \/ (pc[c] \in Waiting /\ Leave(c))
      PROVE  TokenInv'
  <2>1. /\ held' = held /\ global' = global /\ classUse' = classUse /\ pc[c] # "holding"
        /\ \E p \in {"loop", "idle"} : Notify(c, p)
    BY <1>3, Zenon DEF Enqueue, Leave, SelectNext, Waiting
  <2>2. PICK p \in {"loop", "idle"} : Notify(c, p)
    BY <2>1, ZenonT(60)
  <2>3. /\ \A d \in Caller : pc'[d] = "holding" <=> pc[d] = "holding"
        /\ \A d \in Caller \ {c} : call'[d] = call[d]
    BY <1>1, <2>1, <2>2 DEF TypeOK, Notify
  <2> QED
    BY <1>1, <2>1, <2>3, TokensKept, Zenon
<1>4. ASSUME NEW c \in Caller, LoopContinues(c) \/ Park(c) \/ Wake(c)
      PROVE  TokenInv'
  <2>1. /\ held' = held /\ global' = global /\ classUse' = classUse /\ call' = call
        /\ pc[c] # "holding" /\ \E p \in Waiting : pc' = [pc EXCEPT ![c] = p]
    BY <1>4, Zenon DEF LoopContinues, Park, Wake, counters, Goto, Waiting
  <2>2. \A d \in Caller : pc'[d] = "holding" <=> pc[d] = "holding"
    BY <1>1, <2>1, Zenon DEF TypeOK, Waiting
  <2> QED
    BY <1>1, <2>1, <2>2, TokensKept, Zenon
<1>5. ASSUME NEW c \in Caller, Expire(c) \/ CancelStore(c) \/ CancelNotify(c)
      PROVE  TokenInv'
  <2>1. /\ held' = held /\ global' = global /\ classUse' = classUse /\ call' = call
        /\ \A d \in Caller : pc'[d] = pc[d] \/ (pc[d] = "waiting" /\ pc'[d] = "woken")
    <3>0. pc \in [Caller -> Place]
      BY <1>1, Zenon DEF TypeOK
    <3>1. held' = held /\ global' = global /\ classUse' = classUse /\ call' = call
      BY <1>5, Zenon DEF Expire, CancelStore, CancelNotify, counters
    <3>2. CASE Expire(c)
      BY <3>0, <3>1, <3>2, Zenon DEF Expire, Goto
    <3>3. CASE CancelStore(c)
      BY <3>1, <3>3, Zenon DEF CancelStore
    <3>4. CASE CancelNotify(c)
      BY <3>0, <3>1, <3>4, Zenon DEF CancelNotify, Goto
    <3> QED
      BY <1>5, <3>2, <3>3, <3>4, Zenon
  <2>2. \A d \in Caller : pc'[d] = "holding" <=> pc[d] = "holding"
    BY <2>1, Zenon
  <2> QED
    BY <1>1, <2>1, <2>2, TokensKept, Zenon
<1>6. ASSUME NEW c \in Caller, Claim(c)
      PROVE  TokenInv'
  <2>1. /\ pc[c] = "ready" /\ Notify(c, "holding") /\ held' = [held EXCEPT ![c] = Asks(c)]
        /\ global' = Plus(global, Asks(c))
        /\ classUse' = [classUse EXCEPT ![ClassOf(c)] = Plus(@, Asks(c))]
    BY <1>6, Zenon DEF Claim, SelectNext
  <2>2. call' = call /\ pc'[c] = "holding" /\ \A d \in Caller \ {c} : pc'[d] = "holding" <=> pc[d] = "holding"
    BY <2>1, Zenon DEF Notify
  <2>3. ClassOf(c) \in Class /\ Asks(c) \in [Resource -> Nat] /\ ClassOf(c)' = ClassOf(c) /\ pc[c] # "holding"
    BY <1>1, <2>1, <2>2, Zenon DEF ClassOf, Asks, TypeOK
  <2> QED
    <3>1. Takes(c, ClassOf(c), Asks(c))
      BY <2>1, Zenon DEF Takes, More
    <3>2. OthersPermitsStay(c)
      BY <2>2, Zenon DEF OthersPermitsStay
    <3> QED
      BY <1>1, <2>2, <2>3, <3>1, <3>2, TokensTaken, Zenon
<1>7. ASSUME NEW c \in Caller, TryAdmit(c)
      PROVE  TokenInv'
  <2>1. PICK k \in Call :
          IF NobodyWaits /\ FitsCall(k, global, classUse)
          THEN /\ global' = Plus(global, k.request)
               /\ classUse' = [classUse EXCEPT ![k.class] = Plus(@, k.request)]
               /\ held' = [held EXCEPT ![c] = k.request]
               /\ call' = [call EXCEPT ![c] = k]
               /\ Goto(c, "holding")
          ELSE UNCHANGED <<global, classUse, held, call, pc>>
    BY <1>7, Zenon DEF TryAdmit
  <2>2. pc[c] = "idle" /\ k.class \in Class /\ k.request \in [Resource -> Nat]
    BY <1>7, GovernorAssumption DEF TryAdmit
  <2>3. CASE NobodyWaits /\ FitsCall(k, global, classUse)
    <3>1. /\ global' = Plus(global, k.request)
          /\ classUse' = [classUse EXCEPT ![k.class] = Plus(@, k.request)]
          /\ held' = [held EXCEPT ![c] = k.request]
          /\ call' = [call EXCEPT ![c] = k] /\ pc' = [pc EXCEPT ![c] = "holding"]
      BY <2>1, <2>3, Zenon DEF Goto
    <3>2. /\ ClassOf(c)' = k.class /\ pc'[c] = "holding" /\ pc[c] # "holding"
          /\ \A d \in Caller \ {c} : call'[d] = call[d] /\ (pc'[d] = "holding" <=> pc[d] = "holding")
      BY <1>1, <2>2, <3>1, Zenon DEF ClassOf, TypeOK
    <3> QED
      <4>1. Takes(c, k.class, k.request)
        BY <3>1, Zenon DEF Takes, More
      <4>2. OthersPermitsStay(c)
        BY <3>2, Zenon DEF OthersPermitsStay
      <4> QED
        BY <1>1, <2>2, <3>1, <3>2, <4>1, <4>2, TokensTaken, ZenonT(60)
  <2>4. CASE ~(NobodyWaits /\ FitsCall(k, global, classUse))
    <3>1. global' = global /\ classUse' = classUse /\ held' = held /\ call' = call /\ pc' = pc
      BY <2>1, <2>4, Zenon
    <3> QED
      BY <1>1, <3>1, TokensKept, Zenon
  <2> QED
    BY <2>3, <2>4
<1>8. ASSUME NEW c \in Caller, Release(c)
      PROVE  TokenInv'
  <2>1. held[c] \in [Resource -> Nat] /\ pc[c] = "holding" /\ Return(c, held[c], "idle")
    BY <1>1, <1>8, Zenon DEF TypeOK, Release
  <2> QED
    BY <1>1, <2>1, TokensReturned, Zenon
<1>9. ASSUME NEW c \in Caller, ShrinkTo(c)
      PROVE  TokenInv'
  <2> DEFINE t == [held[c] EXCEPT !["memory"] = 0]
  <2>1. held[c] \in [Resource -> Nat] /\ pc[c] = "holding" /\ Return(c, t, "holding")
    BY <1>1, <1>9 DEF TypeOK, ShrinkTo
  <2>2. t \in [Resource -> Nat]
    BY <2>1, Zenon, 0 \in Nat
  <2> HIDE DEF t
  <2> QED
    BY <1>1, <2>1, <2>2, TokensReturned, ZenonT(60)
<1>10. CASE UNCHANGED vars
  <2>1. held' = held /\ global' = global /\ classUse' = classUse /\ call' = call /\ pc' = pc
    BY <1>10 DEF vars
  <2>2. PermitsOwn'
    BY <2>1, Zenon DEF TokenInv, PermitsOwn
  <2>3. TokensExact'
    <3>1. ASSUME NEW r \in Resource
          PROVE  Owned(Caller, r)' = Owned(Caller, r)
      BY <2>1, Zenon DEF Owned
    <3>2. ASSUME NEW r \in Resource, NEW k \in Class
          PROVE  Owned(OfClass(k), r)' = Owned(OfClass(k), r)
      <4>1. OfClass(k)' = OfClass(k)
        BY <2>1, Zenon DEF OfClass, ClassOf
      <4> QED
        BY <2>1, <4>1 DEF Owned
    <3> QED
      BY <2>1, <3>1, <3>2, Zenon DEF TokenInv, TokensExact, OfClass
  <2> QED
    BY <2>2, <2>3, Zenon DEF TokenInv
<1>11. ASSUME NEW c \in Caller, LoopCancelled(c) \/ LoopTimedOut(c)
       PROVE  pc[c] \in Waiting /\ Leave(c)
  BY <1>11, Zenon DEF LoopCancelled, LoopTimedOut, Waiting
<1> QED
  BY <1>2, <1>3, <1>4, <1>5, <1>6, <1>7, <1>8, <1>9, <1>10, <1>11, ZenonT(60) DEF Next, Queued

\* The selected ticket can take its tokens at once, and with none selected no
\* ticket of the queue fits: select_next_locked leaves no capacity unused.
THEOREM AlwaysSelectionSound == Spec => []SelectionSound
<1>1. GovernorInv => SelectionSound
  BY DEF GovernorInv, Turns, SelectionSound
<1> QED
  BY <1>1, GovernorInit, GovernorNext, PTL DEF Spec

\* The counters of the governor are the sums over the permits, for the machine
\* and for each class: no admission, shrink, release, timeout or cancellation
\* loses a token or returns one twice.
THEOREM TokensAlwaysExact == Spec => []TokensExact
<1>1. Init => GovernorInv /\ TokenInv
  BY GovernorInit, TokenInit, Zenon
<1>2. (GovernorInv /\ TokenInv) /\ [Next]_vars => (GovernorInv /\ TokenInv)'
  BY GovernorNext, TokenNext
<1>3. GovernorInv /\ TokenInv => TokensExact
  BY DEF TokenInv
<1> QED
  BY <1>1, <1>2, <1>3, PTL DEF Spec

=============================================================================
