--------------------------- MODULE JobQueue_proofs ---------------------------
(***************************************************************************)
(* Proofs about JobQueue: an invariant of the queue that each of its       *)
(* operations keeps, under the conditions in which the processors call it, *)
(* and what each operation does to the order of the jobs that wait.        *)
(***************************************************************************)
EXTENDS JobQueue, Integers, FiniteSets, SequenceTheorems, FiniteSetTheorems, TLAPS

-----------------------------------------------------------------------------
(* Sequences: their elements, the order of these and how often each        *)
(* occurs, when one is put at an end or taken from the front.              *)

\* Some a stands before some b in s.
Before(s, a, b) == \E i, k \in DOMAIN s : i < k /\ s[i] = a /\ s[k] = b

\* How often e occurs in s.
Times(s, e) == Cardinality({k \in DOMAIN s : s[k] = e})

\* The empty sequence.
LEMMA EmptyFacts ==
  /\ ToSet(<<>>) = {}
  /\ IsInjective(<<>>)
  /\ \A a, b : ~ Before(<<>>, a, b)
  /\ \A e : Times(<<>>, e) = 0
<1>1. DOMAIN <<>> = {}
  OBVIOUS
<1>2. ASSUME NEW e PROVE Times(<<>>, e) = 0
  BY <1>1, FS_EmptySet DEF Times
<1>3. QED
  BY <1>1, <1>2 DEF ToSet, IsInjective, Before

\* An element at the end comes after all the others.
LEMMA AppendFacts ==
  ASSUME NEW S, NEW s \in Seq(S), NEW e \in S
  PROVE  /\ Append(s, e) \in Seq(S)
         /\ ToSet(Append(s, e)) = ToSet(s) \cup {e}
         /\ IsInjective(s) /\ e \notin ToSet(s) => IsInjective(Append(s, e))
         /\ \A a, b : Before(Append(s, e), a, b) <=>
                        Before(s, a, b) \/ (a \in ToSet(s) /\ b = e)
<1> DEFINE t == Append(s, e)
<1>1. /\ t \in Seq(S) /\ Len(t) = Len(s) + 1 /\ t[Len(s) + 1] = e
      /\ \A i \in 1..Len(s) : t[i] = s[i]
      /\ DOMAIN s = 1..Len(s) /\ DOMAIN t = 1..(Len(s) + 1) /\ Len(s) \in Nat
  BY AppendProperties, LenProperties
<1> HIDE DEF t
<1>2. ToSet(t) = ToSet(s) \cup {e}
  BY <1>1 DEF ToSet
<1>3. IsInjective(s) /\ e \notin ToSet(s) => IsInjective(t)
  BY <1>1 DEF ToSet, IsInjective
<1>4. ASSUME NEW a, NEW b
      PROVE  Before(t, a, b) <=> Before(s, a, b) \/ (a \in ToSet(s) /\ b = e)
  BY <1>1 DEF ToSet, Before
<1>5. QED
  BY <1>1, <1>2, <1>3, <1>4 DEF t

\* An element at the front comes before all the others.
LEMMA PrependFacts ==
  ASSUME NEW S, NEW s \in Seq(S), NEW e \in S
  PROVE  /\ <<e>> \o s \in Seq(S)
         /\ ToSet(<<e>> \o s) = ToSet(s) \cup {e}
         /\ IsInjective(s) /\ e \notin ToSet(s) => IsInjective(<<e>> \o s)
         /\ \A a, b : Before(<<e>> \o s, a, b) <=>
                        Before(s, a, b) \/ (a = e /\ b \in ToSet(s))
<1> DEFINE t == <<e>> \o s
<1>1. <<e>> \in Seq(S) /\ Len(<<e>>) = 1 /\ <<e>>[1] = e
  OBVIOUS
<1>2. /\ t \in Seq(S) /\ Len(t) = Len(s) + 1
      /\ \A i \in 1..(1 + Len(s)) : t[i] = IF i <= 1 THEN <<e>>[i] ELSE s[i - 1]
      /\ DOMAIN s = 1..Len(s) /\ DOMAIN t = 1..Len(t) /\ Len(s) \in Nat
  BY <1>1, ConcatProperties, LenProperties
<1> HIDE DEF t
<1>3. PICK n \in Nat : DOMAIN s = 1..n /\ DOMAIN t = 1..(n + 1) /\ n = Len(s)
  BY <1>2
<1>4. /\ t[1] = e
      /\ \A i \in 1..n : i + 1 \in DOMAIN t /\ t[i + 1] = s[i]
      /\ \A k \in 1..(n + 1) : k = 1 \/ (k - 1 \in 1..n /\ t[k] = s[k - 1])
  BY <1>1, <1>2, <1>3
<1>5. ToSet(t) = ToSet(s) \cup {e}
  <2>1. ASSUME NEW i \in 1..n PROVE s[i] \in ToSet(t)
    BY <1>3, <1>4 DEF ToSet
  <2>2. e \in ToSet(t)
    BY <1>3, <1>4 DEF ToSet
  <2>3. ASSUME NEW k \in 1..(n + 1) PROVE t[k] \in ToSet(s) \cup {e}
    BY <1>3, <1>4 DEF ToSet
  <2>4. QED
    BY <1>3, <2>1, <2>2, <2>3 DEF ToSet
<1>6. ASSUME IsInjective(s), e \notin ToSet(s) PROVE IsInjective(t)
  <2>1. \A i, k \in 1..n : s[i] = s[k] => i = k
    BY <1>3, <1>6 DEF IsInjective
  <2>2. \A i \in 1..n : s[i] # e
    BY <1>3, <1>6 DEF ToSet
  <2>3. \A i, k \in 1..(n + 1) : t[i] = t[k] => i = k
    BY <1>4, <2>1, <2>2
  <2>4. QED
    BY <1>3, <2>3 DEF IsInjective
<1>7. ASSUME NEW a, NEW b
      PROVE  Before(t, a, b) <=> Before(s, a, b) \/ (a = e /\ b \in ToSet(s))
  <2>1. ASSUME Before(t, a, b)
        PROVE  Before(s, a, b) \/ (a = e /\ b \in ToSet(s))
    <3>1. PICK i, k \in 1..(n + 1) : i < k /\ t[i] = a /\ t[k] = b
      BY <1>3, <2>1 DEF Before
    <3>2. k - 1 \in 1..n /\ s[k - 1] = b
      BY <1>4, <3>1
    <3>3. CASE i = 1
      BY <1>3, <1>4, <3>1, <3>2, <3>3 DEF ToSet
    <3>4. CASE i # 1
      <4>1. i - 1 \in 1..n /\ s[i - 1] = a /\ i - 1 < k - 1
        BY <1>4, <3>1, <3>4
      <4>2. QED
        BY <1>3, <3>2, <4>1 DEF Before
    <3>5. QED
      BY <3>3, <3>4
  <2>2. ASSUME Before(s, a, b) PROVE Before(t, a, b)
    <3>1. PICK i, k \in 1..n : i < k /\ s[i] = a /\ s[k] = b
      BY <1>3, <2>2 DEF Before
    <3>2. i + 1 \in DOMAIN t /\ k + 1 \in DOMAIN t /\ i + 1 < k + 1
      BY <1>4, <3>1
    <3>3. QED
      BY <1>4, <3>1, <3>2 DEF Before
  <2>3. ASSUME b \in ToSet(s) PROVE Before(t, e, b)
    <3>1. PICK k \in 1..n : s[k] = b
      BY <1>3, <2>3 DEF ToSet
    <3>2. k + 1 \in DOMAIN t /\ 1 \in DOMAIN t /\ 1 < k + 1
      BY <1>3, <1>4
    <3>3. QED
      BY <1>4, <3>1, <3>2 DEF Before
  <2>4. QED
    BY <2>1, <2>2, <2>3
<1>8. QED
  BY <1>2, <1>5, <1>6, <1>7 DEF t

\* When nothing is repeated, the head is what comes before all the others.
LEMMA TailFacts ==
  ASSUME NEW S, NEW s \in Seq(S), s # <<>>, IsInjective(s)
  PROVE  /\ Tail(s) \in Seq(S) /\ Head(s) \in S
         /\ ToSet(Tail(s)) = ToSet(s) \ {Head(s)} /\ Head(s) \in ToSet(s)
         /\ IsInjective(Tail(s))
         /\ \A a : ~ Before(s, a, Head(s))
         /\ \A a, b : Before(Tail(s), a, b) <=> Before(s, a, b) /\ a # Head(s)
<1> DEFINE t == Tail(s)
<1>1. /\ t \in Seq(S) /\ Len(t) = Len(s) - 1
      /\ \A i \in 1..Len(t) : t[i] = s[i + 1]
      /\ DOMAIN s = 1..Len(s) /\ DOMAIN t = 1..Len(t) /\ Len(s) \in Nat \ {0}
      /\ Head(s) = s[1] /\ Head(s) \in S
  BY HeadTailProperties, LenProperties, EmptySeq
<1> HIDE DEF t
<1>2. PICK n \in Nat : DOMAIN s = 1..(n + 1) /\ DOMAIN t = 1..n
  <2>1. Len(s) - 1 \in Nat /\ Len(s) = (Len(s) - 1) + 1
    BY <1>1
  <2>2. QED
    BY <1>1, <2>1
<1>3. /\ \A i \in 1..n : i + 1 \in DOMAIN s /\ t[i] = s[i + 1] /\ i + 1 # 1
      /\ \A k \in 1..(n + 1) : k = 1 \/ (k - 1 \in 1..n /\ t[k - 1] = s[k])
      /\ 1 \in DOMAIN s
  BY <1>1, <1>2
<1>4. \A k \in DOMAIN s : s[k] = Head(s) => k = 1
  BY <1>1, <1>3 DEF IsInjective
<1>5. ToSet(t) = ToSet(s) \ {Head(s)} /\ Head(s) \in ToSet(s)
  <2>1. ASSUME NEW i \in 1..n PROVE t[i] \in ToSet(s) /\ t[i] # Head(s)
    BY <1>3, <1>4 DEF ToSet
  <2>2. ASSUME NEW k \in 1..(n + 1), s[k] # Head(s) PROVE s[k] \in ToSet(t)
    BY <1>1, <1>2, <1>3, <2>2 DEF ToSet
  <2>3. Head(s) \in ToSet(s)
    BY <1>1, <1>3 DEF ToSet
  <2>4. QED
    BY <1>2, <2>1, <2>2, <2>3 DEF ToSet
<1>6. IsInjective(t)
  <2>1. ASSUME NEW i \in 1..n, NEW k \in 1..n, t[i] = t[k] PROVE i = k
    <3>1. s[i + 1] = s[k + 1] /\ i + 1 \in DOMAIN s /\ k + 1 \in DOMAIN s
      BY <1>3, <2>1
    <3>2. i + 1 = k + 1
      BY <3>1 DEF IsInjective
    <3>3. QED
      BY <3>2
  <2>2. QED
    BY <1>2, <2>1 DEF IsInjective
<1>7. \A a : ~ Before(s, a, Head(s))
  BY <1>2, <1>4 DEF Before
<1>8. ASSUME NEW a, NEW b
      PROVE  Before(t, a, b) <=> Before(s, a, b) /\ a # Head(s)
  <2>1. ASSUME Before(t, a, b) PROVE Before(s, a, b) /\ a # Head(s)
    <3>1. PICK i, k \in 1..n : i < k /\ t[i] = a /\ t[k] = b
      BY <1>2, <2>1 DEF Before
    <3>2. i + 1 < k + 1 /\ i + 1 \in DOMAIN s /\ k + 1 \in DOMAIN s
      BY <1>3, <3>1
    <3>3. QED
      BY <1>3, <1>4, <3>1, <3>2 DEF Before
  <2>2. ASSUME Before(s, a, b), a # Head(s) PROVE Before(t, a, b)
    <3>1. PICK i, k \in 1..(n + 1) : i < k /\ s[i] = a /\ s[k] = b
      BY <1>2, <2>2 DEF Before
    <3>2. i # 1 /\ k # 1
      BY <1>1, <2>2, <3>1
    <3>3. /\ i - 1 \in 1..n /\ k - 1 \in 1..n /\ i - 1 < k - 1
          /\ t[i - 1] = a /\ t[k - 1] = b
      BY <1>3, <3>1, <3>2
    <3>4. QED
      BY <1>2, <3>3 DEF Before
  <2>3. QED
    BY <2>1, <2>2
<1>9. QED
  BY <1>1, <1>5, <1>6, <1>7, <1>8 DEF t

\* An element at the end occurs once more than before.
LEMMA TimesFacts ==
  ASSUME NEW S, NEW s \in Seq(S), NEW x \in S, NEW e
  PROVE  /\ Times(s, e) \in Nat
         /\ Times(Append(s, x), e) = Times(s, e) + (IF x = e THEN 1 ELSE 0)
<1> DEFINE t == Append(s, x)
           At(r) == {k \in DOMAIN r : r[k] = e}
<1>1. /\ t[Len(s) + 1] = x
      /\ \A i \in 1..Len(s) : t[i] = s[i]
      /\ DOMAIN s = 1..Len(s) /\ DOMAIN t = 1..(Len(s) + 1) /\ Len(s) \in Nat
  BY AppendProperties, LenProperties
<1> HIDE DEF t
<1>2. IsFiniteSet(At(s)) /\ Cardinality(At(s)) \in Nat
  <2>1. IsFiniteSet(1..Len(s)) /\ At(s) \in SUBSET (1..Len(s))
    BY <1>1, FS_Interval
  <2>2. QED
    BY <2>1, FS_Subset, FS_CardinalityType
<1>3. At(t) = IF x = e THEN At(s) \cup {Len(s) + 1} ELSE At(s)
  BY <1>1
<1>4. Len(s) + 1 \notin At(s)
  BY <1>1
<1> HIDE DEF At
<1>5. Cardinality(At(t)) = Cardinality(At(s)) + (IF x = e THEN 1 ELSE 0)
  <2>1. Cardinality(At(s) \cup {Len(s) + 1}) = Cardinality(At(s)) + 1
    BY <1>2, <1>4, FS_AddElement
  <2>2. QED
    BY <1>2, <1>3, <2>1
<1>6. QED
  BY <1>2, <1>5 DEF Times, At, t

-----------------------------------------------------------------------------
(* The queue.                                                              *)

\* What defaultJobOptions and BullMQ's options have to be.
Bounds == MaxAttempts \in Nat \ {0} /\ MaxStalls \in Nat

\* How often a job has begun again, or can have.
Spent(j) == attempts[j] + stalls[j]

\* A job that is not yet exhausted has an attempt left; every retry and
\* every stall is within the options.
WithinBounds ==
  \A j \in Jobs :
    /\ attempts[j] <= MaxAttempts /\ stalls[j] <= MaxStalls + 1
    /\ Spent(j) <= MaxAttempts + MaxStalls
    /\ job[j] # "exhausted" => attempts[j] < MaxAttempts /\ stalls[j] <= MaxStalls
    /\ job[j] = "none" => Spent(j) = 0
    /\ job[j] = "delayed" => attempts[j] > 0

\* The jobs that wait are in the list once each, and no others.
ListOfWaiting ==
  /\ IsInjective(wait)
  /\ \A j \in Jobs : job[j] = "wait" <=> j \in ToSet(wait)

QueueInv == TypeOK /\ WithinBounds /\ ListOfWaiting

-----------------------------------------------------------------------------
\* An empty queue.
LEMMA InitQueue == Bounds /\ Init => QueueInv
BY EmptyFacts DEF Bounds, Init, QueueInv, TypeOK, WithinBounds, Spent, ListOfWaiting

\* A job is added once, behind the others.
LEMMA AddQueue ==
  ASSUME Bounds, QueueInv, NEW j \in Jobs, job[j] = "none", Add(j)
  PROVE  /\ QueueInv'
         /\ \A a, b : Before(wait', a, b) <=>
                        Before(wait, a, b) \/ (a \in ToSet(wait) /\ b = j)
<1> USE DEF Add, Move, QueueInv
<1>1. j \notin ToSet(wait)
  BY DEF ListOfWaiting
<1>2. TypeOK'
  BY AppendFacts DEF TypeOK
<1>3. WithinBounds'
  BY DEF WithinBounds, Spent, TypeOK
<1>4. ListOfWaiting'
  BY <1>1, AppendFacts DEF ListOfWaiting, TypeOK
<1>5. QED
  BY <1>2, <1>3, <1>4, AppendFacts DEF TypeOK

\* The worker takes a job that no waiting job comes before.
LEMMA TakeQueue ==
  ASSUME Bounds, QueueInv, NEW j \in Jobs, Take(j)
  PROVE  /\ QueueInv' /\ job[j] = "wait"
         /\ \A a : ~ Before(wait, a, j)
         /\ \A a, b : Before(wait', a, b) <=> Before(wait, a, b) /\ a # j
<1> USE DEF Take, Move, QueueInv
<1>1. job[j] = "wait"
  BY TailFacts DEF ListOfWaiting, TypeOK
<1>2. TypeOK'
  BY TailFacts DEF TypeOK, ListOfWaiting
<1>3. WithinBounds'
  BY <1>1 DEF WithinBounds, Spent, TypeOK
<1>4. ListOfWaiting'
  BY TailFacts DEF ListOfWaiting, TypeOK
<1>5. QED
  BY <1>1, <1>2, <1>3, <1>4, TailFacts DEF TypeOK, ListOfWaiting

\* The worker is done with its job.
LEMMA CompleteQueue ==
  ASSUME Bounds, QueueInv, NEW j \in Jobs, job[j] = "active", Complete(j)
  PROVE  QueueInv'
BY DEF Complete, Move, QueueInv, TypeOK, WithinBounds, Spent, ListOfWaiting, Over

\* The worker throws.
LEMMA ThrowQueue ==
  ASSUME Bounds, QueueInv, NEW j \in Jobs, job[j] = "active", Throw(j)
  PROVE  QueueInv'
<1> USE DEF Throw, Move, QueueInv
<1>1. TypeOK'
  BY DEF Bounds, TypeOK, WithinBounds, Over
<1>2. WithinBounds'
  BY DEF Bounds, WithinBounds, Spent, TypeOK
<1>3. ListOfWaiting'
  BY DEF ListOfWaiting, TypeOK
<1>4. QED
  BY <1>1, <1>2, <1>3

\* A backoff is over: the job waits behind the others.
LEMMA PromoteQueue ==
  ASSUME Bounds, QueueInv, NEW j \in Jobs, Promote(j)
  PROVE  /\ QueueInv' /\ job[j] = "delayed" /\ attempts[j] > 0
         /\ \A a, b : Before(wait, a, b) => Before(wait', a, b)
<1> USE DEF Promote, Move, QueueInv
<1>1. j \notin ToSet(wait)
  BY DEF ListOfWaiting
<1>2. TypeOK'
  BY AppendFacts DEF TypeOK
<1>3. WithinBounds'
  BY DEF WithinBounds, Spent, TypeOK
<1>4. ListOfWaiting'
  BY <1>1, AppendFacts DEF ListOfWaiting, TypeOK
<1>5. QED
  BY <1>2, <1>3, <1>4, AppendFacts DEF TypeOK, WithinBounds

\* The lock of a dead worker runs out: the job waits before the others, or fails.
LEMMA RecoverQueue ==
  ASSUME Bounds, QueueInv, NEW j \in Jobs, Recover(j)
  PROVE  /\ QueueInv' /\ job[j] = "orphan" /\ stalls'[j] = stalls[j] + 1
         /\ \A a, b : Before(wait, a, b) => Before(wait', a, b)
<1> USE DEF Recover, Move, QueueInv
<1>1. stalls'[j] = stalls[j] + 1
  BY DEF TypeOK
<1>2. CASE wait' = <<j>> \o wait /\ stalls[j] < MaxStalls /\ job' = [job EXCEPT ![j] = "wait"]
  <2>1. j \notin ToSet(wait)
    BY DEF ListOfWaiting
  <2>2. TypeOK'
    BY <1>2, PrependFacts DEF TypeOK
  <2>3. WithinBounds'
    BY <1>2 DEF Bounds, WithinBounds, Spent, TypeOK
  <2>4. ListOfWaiting'
    BY <1>2, <2>1, PrependFacts DEF ListOfWaiting, TypeOK
  <2>5. QED
    BY <1>1, <1>2, <2>2, <2>3, <2>4, PrependFacts DEF TypeOK
<1>3. CASE UNCHANGED wait /\ stalls[j] >= MaxStalls /\ job' = [job EXCEPT ![j] = "exhausted"]
  <2>1. TypeOK'
    BY <1>3 DEF TypeOK, Over
  <2>2. WithinBounds'
    BY <1>3 DEF Bounds, WithinBounds, Spent, TypeOK
  <2>3. ListOfWaiting'
    BY <1>3 DEF ListOfWaiting, TypeOK
  <2>4. QED
    BY <1>1, <1>3, <2>1, <2>2, <2>3
<1>4. QED
  BY <1>2, <1>3

\* A restart leaves the list as it was, or nothing.
LEMMA RestartQueue ==
  ASSUME Bounds, QueueInv, Restart
  PROVE  QueueInv' /\ UNCHANGED <<attempts, stalls>>
<1> USE DEF Restart, QueueInv
<1>1. CASE /\ job' = [j \in Jobs |-> IF job[j] = "active" THEN "orphan" ELSE job[j]]
           /\ UNCHANGED wait
  BY <1>1 DEF TypeOK, WithinBounds, Spent, ListOfWaiting
<1>2. CASE /\ job' = [j \in Jobs |->
                        IF job[j] \in {"none"} \cup Over THEN job[j] ELSE "lost"]
           /\ wait' = <<>>
  BY <1>2, EmptyFacts DEF TypeOK, WithinBounds, Spent, ListOfWaiting, Over
<1>3. QED
  BY <1>1, <1>2
=============================================================================
