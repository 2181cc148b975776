-------------------------- MODULE RateLimit_proofs --------------------------
(***************************************************************************)
(* What the limiters let through, for all limits, windows, addresses and   *)
(* devices.  Of the hits of the last windowMs, those of the window that is *)
(* open have the numbers up to its count, once each; those of the window   *)
(* before it have different numbers too.                                   *)
(***************************************************************************)
EXTENDS RateLimit, FiniteSetTheorems, FunctionTheorems, TLAPS

Hit(k) == [age: 0..(Window - 1), number: 1..Limit(k[1]), dev: Devices]

\* The hits of the window that is open, which began Window - left ticks ago.
InWindow(k) == {h \in recent[k] : h.age <= Window - left[k]}
Before(k) == {h \in recent[k] : h.age > Window - left[k]}

\* No number twice.
Numbered(S) == \A g, h \in S : g.number = h.number => g = h

\* What holds of a key whose window is over, and of one whose window is open.
Closed(k) == (\A h \in recent[k] : h.age > 0) /\ Numbered(recent[k])
Open(k) ==
  /\ hits[k] > 0
  /\ Numbered(Before(k)) /\ Numbered(InWindow(k))
  /\ \A h \in InWindow(k) : h.number <= hits[k]
  /\ \A n \in 1..Limit(k[1]) : n <= hits[k] => \E h \in InWindow(k) : h.number = n

RateInv ==
  /\ hits \in [Keys -> Nat] /\ left \in [Keys -> 0..Window]
  /\ DOMAIN recent = Keys
  /\ \A k \in Keys : /\ recent[k] \subseteq Hit(k)
                     /\ IF left[k] = 0 THEN Closed(k) ELSE Open(k)

\* Limits and windows are positive, and a request has the key of its limiter.
LEMMA LimitFacts ==
  /\ Window \in Nat \ {0}
  /\ \A k \in Keys : Limit(k[1]) \in Nat \ {0}
  /\ \A q \in Requests : \A l \in CountedBy(q) : KeyOf(l, q) \in Keys /\ KeyOf(l, q)[1] = l
BY BoundsAssumption DEF Keys, Limiters, Limit, Requests, Routes, CountedBy, KeyOf

\* Hits with different numbers are no more than the numbers there are.
LEMMA FewHits ==
  ASSUME NEW n \in Nat, NEW S, \A h \in S : h.number \in 1..n, Numbered(S)
  PROVE  IsFiniteSet(S) /\ Cardinality(S) <= n
<1> DEFINE f == [h \in S |-> h.number]
<1>1. f \in Injection(S, 1..n)
  BY Fun_IsInj DEF Numbered
<1>2. IsFiniteSet(1..n) /\ Cardinality(1..n) = n
  <2>1. /\ IsFiniteSet(1..n)
        /\ Cardinality(1..n) = IF 1 > n THEN 0 ELSE n - 1 + 1
    BY FS_Interval
  <2>2. QED
    BY <2>1
<1>3. QED
  BY <1>1, <1>2, FS_Injection

\* Where every number has a hit, there are as many hits.
LEMMA ManyHits ==
  ASSUME NEW n \in Nat, NEW S, IsFiniteSet(S), \A i \in 1..n : \E h \in S : h.number = i
  PROVE  Cardinality(S) >= n
<1> DEFINE f == [i \in 1..n |-> CHOOSE h \in S : h.number = i]
<1>1. \A i \in 1..n : f[i] \in S /\ f[i].number = i
  OBVIOUS
<1> HIDE DEF f
<1>2. f \in [1..n -> S]
  BY <1>1 DEF f
<1>3. \A i, j \in 1..n : f[i] = f[j] => i = j
  BY <1>1
<1>4. f \in Injection(1..n, S)
  BY <1>2, <1>3, Fun_IsInj
<1>5. Cardinality(1..n) = n /\ Cardinality(S) \in Nat
  <2>1. Cardinality(S) \in Nat
    BY FS_CardinalityType
  <2>2. Cardinality(1..n) = IF 1 > n THEN 0 ELSE n - 1 + 1
    BY FS_Interval
  <2>3. QED
    BY <2>1, <2>2
<1>6. QED
  BY <1>4, <1>5, FS_Injection

-----------------------------------------------------------------------------
\* A tick ages the hits that stay within the span, and drops the others.
LEMMA AgedFacts ==
  ASSUME NEW k \in Keys, NEW S \in SUBSET Hit(k)
  PROVE  /\ Aged(S) \subseteq Hit(k)
         /\ \A h \in Aged(S) : \E g \in S : /\ h.age = g.age + 1 /\ h.number = g.number
                                            /\ h = [g EXCEPT !.age = @ + 1]
         /\ \A g \in S : g.age + 1 < Window => [g EXCEPT !.age = @ + 1] \in Aged(S)
         /\ \A g \in S : [g EXCEPT !.age = @ + 1].number = g.number
         /\ \A g \in S : [g EXCEPT !.age = @ + 1].age = g.age + 1
<1>1. \A g \in S : g.age \in 0..(Window - 1) /\ g.number \in 1..Limit(k[1]) /\ g.dev \in Devices
  BY DEF Hit
<1>2. \A g \in S : /\ [g EXCEPT !.age = @ + 1].age = g.age + 1
                   /\ [g EXCEPT !.age = @ + 1].number = g.number
                   /\ (g.age + 1 < Window => [g EXCEPT !.age = @ + 1] \in Hit(k))
  BY <1>1, LimitFacts DEF Hit
<1>3. QED
  BY <1>2 DEF Aged

\* A window that goes on keeps its hits; when it is over, all that is left is its hits.
LEMMA TickKeeps == RateInv /\ Tick => RateInv'
<1>1. SUFFICES ASSUME RateInv, Tick PROVE RateInv'
  OBVIOUS
<1>2. /\ left' = [k \in Keys |-> IF left[k] = 0 THEN 0 ELSE left[k] - 1]
      /\ hits' = [k \in Keys |-> IF left[k] <= 1 THEN 0 ELSE hits[k]]
      /\ recent' = [k \in Keys |-> Aged(recent[k])]
  BY <1>1 DEF Tick
<1>3. hits' \in [Keys -> Nat] /\ left' \in [Keys -> 0..Window] /\ DOMAIN recent' = Keys
  BY SMTT(30), <1>1, <1>2, LimitFacts DEF RateInv
<1>4. ASSUME NEW k \in Keys
      PROVE  recent'[k] \subseteq Hit(k) /\ IF left'[k] = 0 THEN Closed(k)' ELSE Open(k)'
  <2> DEFINE old == recent[k]
             new == recent'[k]
             L == left[k]
  <2>1. /\ new = Aged(old) /\ old \in SUBSET Hit(k)
        /\ L \in 0..Window /\ left'[k] = IF L = 0 THEN 0 ELSE L - 1
        /\ hits[k] \in Nat /\ hits'[k] = IF L <= 1 THEN 0 ELSE hits[k]
    BY <1>1, <1>2 DEF RateInv
  <2>2. /\ new \subseteq Hit(k)
        /\ \A h \in new : \E g \in old : /\ h.age = g.age + 1 /\ h.number = g.number
                                         /\ h = [g EXCEPT !.age = @ + 1]
        /\ \A g \in old : g.age + 1 < Window => [g EXCEPT !.age = @ + 1] \in new
        /\ \A g \in old : [g EXCEPT !.age = @ + 1].number = g.number
        /\ \A g \in old : [g EXCEPT !.age = @ + 1].age = g.age + 1
    BY <2>1, AgedFacts
  <2>3. (\A g \in old : g.age \in 0..(Window - 1)) /\ Window \in Nat \ {0}
    BY <2>1, LimitFacts DEF Hit
  <2>4. IF L = 0 THEN Closed(k) ELSE Open(k)
    BY <1>1 DEF RateInv
  <2>5. ASSUME L <= 1 PROVE Closed(k)'
    <3>1. Numbered(old)
      <4>1. L = 1 => InWindow(k) = old
        BY <2>1, <2>3 DEF InWindow
      <4>2. QED
        BY <2>1, <2>4, <2>5, <4>1 DEF Closed, Open
    <3>2. Numbered(new)
      BY <2>2, <3>1 DEF Numbered
    <3>3. \A h \in new : h.age > 0
      BY <2>2, <2>3
    <3>4. QED
      BY <3>2, <3>3 DEF Closed
  <2>6. ASSUME L > 1 PROVE Open(k)'
    <3>1. Open(k) /\ left'[k] = L - 1 /\ hits'[k] = hits[k]
      BY <2>1, <2>4, <2>6
    <3>2. \A h \in InWindow(k)' : \E g \in InWindow(k) : h.number = g.number /\ h = [g EXCEPT !.age = @ + 1]
      BY <2>1, <2>2, <2>3, <3>1 DEF InWindow
    <3>3. \A h \in Before(k)' : \E g \in Before(k) : h.number = g.number /\ h = [g EXCEPT !.age = @ + 1]
      BY <2>1, <2>2, <2>3, <3>1 DEF Before
    <3>4. \A g \in InWindow(k) : [g EXCEPT !.age = @ + 1] \in InWindow(k)'
      <4>1. SUFFICES ASSUME NEW g \in InWindow(k) PROVE [g EXCEPT !.age = @ + 1] \in InWindow(k)'
        OBVIOUS
      <4>2. g \in old /\ g.age <= Window - L
        BY DEF InWindow
      <4>3. g.age + 1 < Window /\ g.age + 1 <= Window - (L - 1)
        BY <2>1, <2>3, <2>6, <4>2
      <4>4. QED
        BY <2>2, <3>1, <4>2, <4>3 DEF InWindow
    <3>5. Numbered(InWindow(k))' /\ Numbered(Before(k))'
      BY <3>1, <3>2, <3>3 DEF Numbered, Open
    <3>6. \A h \in InWindow(k)' : h.number <= hits'[k]
      BY <3>1, <3>2 DEF Open
    <3>7. \A n \in 1..Limit(k[1]) : n <= hits'[k] => \E h \in InWindow(k)' : h.number = n
      <4>1. SUFFICES ASSUME NEW n \in 1..Limit(k[1]), n <= hits'[k]
                     PROVE  \E h \in InWindow(k)' : h.number = n
        OBVIOUS
      <4>2. PICK g \in InWindow(k) : g.number = n
        BY <3>1, <4>1 DEF Open
      <4>3. g \in old
        BY DEF InWindow
      <4>4. QED
        BY <2>2, <3>4, <4>2, <4>3
    <3>8. QED
      BY <3>1, <3>5, <3>6, <3>7 DEF Open
  <2>7. QED
    BY <2>1, <2>2, <2>3, <2>5, <2>6
<1>5. QED
  BY <1>3, <1>4 DEF RateInv

\* A hit has the next number of its window, or the first of a new one.
LEMMA HitKeeps == ASSUME RateInv, NEW q \in Requests, Counted(q) PROVE RateInv'
<1>1. PICK l \in CountedBy(q) :
        LET k == KeyOf(l, q) IN
        /\ hits' = [hits EXCEPT ![k] = HitCount(k)]
        /\ left' = [left EXCEPT ![k] = WindowLeft(k)]
        /\ \/ Exceeds(k) /\ UNCHANGED recent
           \/ /\ ~Exceeds(k)
              /\ recent' = [recent EXCEPT ![k] =
                   @ \cup {[age |-> 0, number |-> HitCount(k), dev |-> q.dev]}]
  BY DEF Counted
<1> DEFINE k == KeyOf(l, q)
           new == [age |-> 0, number |-> HitCount(k), dev |-> q.dev]
<1>2. k \in Keys /\ q.dev \in Devices
  BY LimitFacts DEF Requests
<1>3. /\ hits[k] \in Nat /\ left[k] \in 0..Window /\ Limit(k[1]) \in Nat \ {0} /\ Window \in Nat \ {0}
      /\ recent[k] \subseteq Hit(k) /\ DOMAIN recent = Keys
      /\ IF left[k] = 0 THEN Closed(k) ELSE Open(k)
  BY <1>2, LimitFacts DEF RateInv
<1>4. HitCount(k) \in Nat /\ HitCount(k) >= 1 /\ WindowLeft(k) \in 1..Window
  BY <1>3 DEF HitCount, WindowLeft
<1>5. /\ hits' = [hits EXCEPT ![k] = HitCount(k)]
      /\ left' = [left EXCEPT ![k] = WindowLeft(k)]
      /\ \/ Exceeds(k) /\ UNCHANGED recent
         \/ ~Exceeds(k) /\ recent' = [recent EXCEPT ![k] = @ \cup {new}]
  BY <1>1
<1> HIDE DEF k, new
<1>6. hits' \in [Keys -> Nat] /\ left' \in [Keys -> 0..Window] /\ DOMAIN recent' = Keys
  BY <1>2, <1>4, <1>5 DEF RateInv
<1>7. ASSUME NEW j \in Keys, j # k
      PROVE  recent'[j] \subseteq Hit(j) /\ IF left'[j] = 0 THEN Closed(j)' ELSE Open(j)'
  <2>1. hits'[j] = hits[j] /\ left'[j] = left[j] /\ recent'[j] = recent[j]
    BY <1>2, <1>5, <1>7 DEF RateInv
  <2>2. QED
    BY <2>1 DEF RateInv, Closed, Open, Before, InWindow
<1>8. hits'[k] = HitCount(k) /\ left'[k] = WindowLeft(k)
  BY <1>2, <1>5 DEF RateInv
<1>9. CASE Exceeds(k)
  <2>1. recent'[k] = recent[k] /\ HitCount(k) > Limit(k[1])
    BY <1>5, <1>9 DEF Exceeds
  <2>2. left[k] # 0 /\ hits[k] >= Limit(k[1]) /\ HitCount(k) >= hits[k] /\ left'[k] = left[k]
    BY <1>3, <1>8, <2>1 DEF HitCount, WindowLeft
  <2>3. Open(k) /\ InWindow(k)' = InWindow(k) /\ Before(k)' = Before(k)
    BY <1>3, <2>1, <2>2 DEF InWindow, Before
  <2>4. \A h \in InWindow(k) : h.number \in Nat /\ h.number <= hits'[k]
    BY <1>3, <1>4, <1>8, <2>2, <2>3 DEF InWindow, Hit, Open
  <2>5. Open(k)'
    BY <1>3, <1>4, <1>8, <2>2, <2>3, <2>4 DEF Open
  <2>6. QED
    BY <1>3, <1>6, <1>7, <2>1, <2>2, <2>5 DEF RateInv
<1>10. CASE ~Exceeds(k)
  <2>1. recent'[k] = recent[k] \cup {new} /\ HitCount(k) \in 1..Limit(k[1])
    BY <1>2, <1>3, <1>4, <1>5, <1>10 DEF Exceeds
  <2>2. new \in Hit(k) /\ new.age = 0 /\ new.number = HitCount(k)
    BY <1>2, <1>3, <2>1 DEF new, Hit
  <2>3. recent'[k] \subseteq Hit(k)
    BY <1>3, <2>1, <2>2
  <2>4. CASE left[k] = 0
    <3>1. left'[k] = Window /\ hits'[k] = 1 /\ new.number = 1
      BY <1>8, <2>2, <2>4 DEF WindowLeft, HitCount
    <3>2. \A h \in recent[k] : h.age > 0 /\ h.age \in Nat
      BY <1>3, <2>4 DEF Closed, Hit
    <3>3. InWindow(k)' = {new} /\ Before(k)' = recent[k]
      BY <1>3, <2>1, <2>2, <3>1, <3>2 DEF InWindow, Before
    <3>4. Open(k)'
      BY <1>3, <2>4, <3>1, <3>3 DEF Open, Closed, Numbered
    <3>5. QED
      BY <1>3, <1>6, <1>7, <2>3, <3>1, <3>4 DEF RateInv
  <2>5. CASE left[k] # 0
    <3>1. left'[k] = left[k] /\ hits'[k] = hits[k] + 1 /\ new.number = hits[k] + 1
      BY <1>3, <1>8, <2>1, <2>2, <2>5 DEF WindowLeft, HitCount
    <3>2. Open(k) /\ \A h \in recent[k] : h.number \in Nat
      BY <1>3, <2>5 DEF Hit
    <3>3. InWindow(k)' = InWindow(k) \cup {new} /\ Before(k)' = Before(k)
      BY <1>3, <2>1, <2>2, <3>1 DEF InWindow, Before
    <3>4. \A h \in InWindow(k) : h.number \in Nat /\ h.number <= hits[k]
      BY <3>2 DEF InWindow, Open
    <3>5. Numbered(InWindow(k))' /\ Numbered(Before(k))'
      BY <1>3, <3>1, <3>2, <3>3, <3>4 DEF Numbered, Open
    <3>6. \A h \in InWindow(k)' : h.number <= hits'[k]
      BY <1>3, <3>1, <3>3, <3>4
    <3>7. \A n \in 1..Limit(k[1]) : n <= hits'[k] => \E h \in InWindow(k)' : h.number = n
      BY <1>3, <3>1, <3>2, <3>3 DEF Open
    <3>8. Open(k)'
      BY <1>3, <3>1, <3>5, <3>6, <3>7 DEF Open
    <3>9. QED
      BY <1>3, <1>6, <1>7, <2>3, <2>5, <3>1, <3>8 DEF RateInv
  <2>6. QED
    BY <2>4, <2>5
<1>11. QED
  BY <1>9, <1>10

\* The invariant holds of every state.
LEMMA RateStays ==
  /\ Init => RateInv
  /\ RateInv /\ [Next]_vars => RateInv'
<1>1. Init => RateInv
  <2>1. SUFFICES ASSUME Init PROVE RateInv
    OBVIOUS
  <2>2. hits \in [Keys -> Nat] /\ left \in [Keys -> 0..Window] /\ DOMAIN recent = Keys
    BY <2>1, LimitFacts DEF Init
  <2>3. \A k \in Keys : recent[k] = {} /\ left[k] = 0
    BY <2>1 DEF Init
  <2>4. QED
    BY <2>2, <2>3 DEF RateInv, Closed, Numbered
<1>2. ASSUME RateInv, UNCHANGED <<hits, left, recent>> PROVE RateInv'
  <2>1. hits' = hits /\ left' = left /\ recent' = recent
    BY <1>2
  <2>2. \A k \in Keys : (Closed(k)' <=> Closed(k)) /\ (Open(k)' <=> Open(k))
    BY <2>1 DEF Closed, Open, InWindow, Before
  <2>3. QED
    BY <1>2, <2>1, <2>2 DEF RateInv
<1>3. ASSUME RateInv, [Next]_vars PROVE RateInv'
  <2>1. CASE Tick
    BY <1>3, <2>1, TickKeeps
  <2>2. ASSUME NEW q \in Requests, Uncounted(q) PROVE RateInv'
    BY <1>2, <1>3, <2>2 DEF Uncounted
  <2>3. ASSUME NEW q \in Requests, Counted(q) PROVE RateInv'
    BY <1>3, <2>3, HitKeeps
  <2>4. CASE UNCHANGED vars
    BY <1>2, <1>3, <2>4 DEF vars
  <2>5. QED
    BY <1>3, <2>1, <2>2, <2>3, <2>4 DEF Next
<1>4. QED
  BY <1>1, <1>3

\* In any span of windowMs a key is let through at most twice its limit, once for
\* each of the two windows that the span can meet.
THEOREM BudgetKept == Spec => []SlidingBudget
<1>1. ASSUME RateInv, NEW k \in Keys PROVE Cardinality(recent[k]) <= 2 * Limit(k[1])
  <2> DEFINE n == Limit(k[1])
  <2>1. /\ n \in Nat /\ Window \in Nat /\ left[k] \in 0..Window /\ recent[k] \subseteq Hit(k)
        /\ IF left[k] = 0 THEN Closed(k) ELSE Open(k)
    BY <1>1, LimitFacts DEF RateInv
  <2>2. \A h \in recent[k] : h.number \in 1..n /\ h.age \in Nat
    BY <2>1 DEF Hit
  <2>3. CASE left[k] = 0
    <3>1. IsFiniteSet(recent[k]) /\ Cardinality(recent[k]) <= n
      BY <2>1, <2>2, <2>3, FewHits DEF Closed
    <3>2. QED
      BY <2>1, <3>1, FS_CardinalityType
  <2>4. CASE left[k] # 0
    <3>1. Numbered(Before(k)) /\ Numbered(InWindow(k))
      BY <2>1, <2>4 DEF Open
    <3>2. IsFiniteSet(Before(k)) /\ Cardinality(Before(k)) <= n
      BY <2>1, <2>2, <3>1, FewHits DEF Before
    <3>3. IsFiniteSet(InWindow(k)) /\ Cardinality(InWindow(k)) <= n
      BY <2>1, <2>2, <3>1, FewHits DEF InWindow
    <3>4. recent[k] = Before(k) \cup InWindow(k) /\ Before(k) \cap InWindow(k) = {}
      BY <2>1, <2>2 DEF Before, InWindow
    <3>5. /\ Cardinality(Before(k)) \in Nat /\ Cardinality(InWindow(k)) \in Nat
          /\ Cardinality(Before(k) \cap InWindow(k)) = 0
      BY <3>2, <3>3, <3>4, FS_CardinalityType, FS_EmptySet
    <3>6. Cardinality(recent[k]) =
            Cardinality(Before(k)) + Cardinality(InWindow(k)) - Cardinality(Before(k) \cap InWindow(k))
      BY <3>2, <3>3, <3>4, FS_Union
    <3>7. QED
      BY <2>1, <3>2, <3>3, <3>5, <3>6
  <2>5. QED
    BY <2>3, <2>4
<1>2. RateInv => SlidingBudget
  BY <1>1 DEF SlidingBudget
<1>3. QED
  BY <1>2, RateStays, PTL DEF Spec

\* A hit is refused only if the window that is open has let its limit through, all
\* of it within the last windowMs: a refusal is no hit that counts against the next.
THEOREM RefusalsEarned == Spec => RefusedOnlyWhenSpent
<1>1. ASSUME RateInv, [Next]_vars, NEW q \in Requests, NEW l \in Limiters,
             Counted(q), l \in CountedBy(q), last'.refused
      PROVE  Cardinality(recent[KeyOf(l, q)]) >= Limit(l)
  <2> DEFINE k == KeyOf(l, q)
             n == Limit(l)
  <2>1. Exceeds(k)
    <3>1. \A m \in CountedBy(q) : m = l
      BY <1>1 DEF CountedBy, Requests, Routes
    <3>2. QED
      BY <1>1, <3>1 DEF Counted
  <2>2. k \in Keys /\ k[1] = l /\ n \in Nat \ {0} /\ Window \in Nat \ {0}
    BY <1>1, LimitFacts
  <2>3. /\ hits[k] \in Nat /\ left[k] \in 0..Window /\ recent[k] \subseteq Hit(k)
        /\ IF left[k] = 0 THEN Closed(k) ELSE Open(k)
    BY <1>1, <2>2 DEF RateInv
  <2> HIDE DEF k, n
  <2>4. left[k] # 0 /\ hits[k] >= n
    BY <2>1, <2>2, <2>3 DEF Exceeds, HitCount, n
  <2>5. Open(k)
    BY <2>3, <2>4
  <2>6. \A i \in 1..n : \E h \in InWindow(k) : h.number = i
    BY <2>2, <2>3, <2>4, <2>5 DEF Open, n
  <2>7. \A h \in InWindow(k) : h.number \in 1..n
    BY <2>2, <2>3 DEF InWindow, Hit, n
  <2>8. \A h \in Before(k) : h.number \in 1..n
    BY <2>2, <2>3 DEF Before, Hit, n
  <2>9. IsFiniteSet(InWindow(k)) /\ IsFiniteSet(Before(k))
    BY <2>2, <2>5, <2>7, <2>8, FewHits DEF Open
  <2>10. recent[k] = InWindow(k) \cup Before(k)
    BY <2>2, <2>3 DEF InWindow, Before, Hit
  <2>11. IsFiniteSet(recent[k])
    BY <2>9, <2>10, FS_Union
  <2>12. \A i \in 1..n : \E h \in recent[k] : h.number = i
    BY <2>6 DEF InWindow
  <2>13. QED
    BY <2>2, <2>11, <2>12, ManyHits DEF k, n
<1>2. RateInv /\ [Next]_vars =>
        [\A q \in Requests, l \in Limiters :
           Counted(q) /\ l \in CountedBy(q) /\ last'.refused =>
             Cardinality(recent[KeyOf(l, q)]) >= Limit(l)]_vars
  BY <1>1
<1>3. QED
  BY <1>2, RateStays, PTL DEF Spec, RefusedOnlyWhenSpent
=============================================================================
