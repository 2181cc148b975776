---------------------------- MODULE Reports_proofs ----------------------------
(***************************************************************************)
(* What users are told about their sessions, for every number of devices,  *)
(* users and sessions, every formula and every calendar.  What holds of a  *)
(* sum is proved by a set on which it fails and that has no such subset.   *)
(***************************************************************************)
EXTENDS Reports, SequenceTheorems, FiniteSetTheorems, FunctionTheorems, TLAPS

-----------------------------------------------------------------------------
(* Arithmetic.                                                             *)

\* The smaller of two numbers.
LEMMA MinOfTwo ==
  ASSUME NEW a \in Int, NEW b \in Int
  PROVE  Min({a, b}) = IF a <= b THEN a ELSE b
BY DEF Min

\* A product grows with its factor.
LEMMA ProductGrows ==
  ASSUME NEW x \in Int, NEW y \in Int, NEW w \in Nat, x <= y
  PROVE  x * w <= y * w
OBVIOUS

\* What a quotient is.
LEMMA Quotient ==
  ASSUME NEW a \in Int, NEW b \in Nat \ {0}
  PROVE  /\ a \div b \in Int
         /\ b * (a \div b) <= a
         /\ a < b * (a \div b) + b
OBVIOUS

\* A quotient grows with its dividend.
LEMMA QuotientGrows ==
  ASSUME NEW a \in Int, NEW c \in Int, NEW b \in Nat \ {0}, a <= c
  PROVE  a \div b <= c \div b
OBVIOUS

\* A quotient is bounded by what times the divisor exceeds the dividend.
LEMMA QuotientBound ==
  ASSUME NEW a \in Int, NEW b \in Nat \ {0}, NEW k \in Nat, a < b * (k + 1)
  PROVE  a \div b <= k /\ (a >= 0 => a \div b >= 0)
OBVIOUS

\* A day is in the week that its Monday begins, and the next day is in the same
\* week or the first of the next one.
LEMMA WeekFacts ==
  ASSUME NEW d \in Int
  PROVE  /\ WeekStart(d) \in Int
         /\ WeekStart(d) <= d /\ d <= WeekEnd(d)
         /\ WeekStart(d + 1) \in {WeekStart(d), WeekStart(d) + 7}
BY DEF WeekStart, WeekEnd, DayOfWeek

-----------------------------------------------------------------------------
(* The types.                                                              *)

\* The variables have their types: the sessions are those of the devices, dated
\* by any day, and the day is one of the calendar.
THEOREM TypeCorrect == Spec => []TypeOK
<1>1. Init => TypeOK
  BY DaysAssumption, EmptySeq DEF Init, TypeOK
<1>2. TypeOK /\ [Next]_vars => TypeOK'
  <2> SUFFICES ASSUME TypeOK, [Next]_vars
               PROVE  TypeOK'
    OBVIOUS
  <2>1. ASSUME NEW d \in Devices, NEW a \in Amounts \cup {Null}, NEW o \in DayOffsets,
               RecordSession(d, a, now + o)
        PROVE  TypeOK'
    <3>1. now + o \in Int
      BY DaysAssumption DEF TypeOK
    <3>2. [device |-> d, amount |-> a, day |-> now + o]
            \in [device : Devices, amount : Amounts \cup {Null}, day : Int]
      BY <3>1
    <3>3. QED
      BY <2>1, <3>2, AppendProperties DEF TypeOK, RecordSession
  <2>2. ASSUME NEW d \in Devices, NEW u \in Users \cup {None}, ChangeOwner(d, u)
        PROVE  TypeOK'
    BY <2>2 DEF TypeOK, ChangeOwner
  <2>3. CASE NextDay
    BY <2>3, DaysAssumption DEF TypeOK, NextDay
  <2>4. CASE UNCHANGED vars
    BY <2>4 DEF TypeOK, vars
  <2>5. QED
    BY <2>1, <2>2, <2>3, <2>4 DEF Next
<1>3. QED
  BY <1>1, <1>2, PTL DEF Spec

-----------------------------------------------------------------------------
(* The score.                                                              *)

TotalWeight == WeightSum(Weights)

\* The percentage before it is divided by the weights.
Percent(a) ==
  20 * ProcessedShare(a) * Weights["processedAmount"]
    + 100 * EfficiencyShare * Weights["efficiency"]
    + 10 * Co2Share(a) * Weights["co2Savings"]

\* The weights weigh something together, whatever the formula gives.
LEMMA WeightFacts ==
  ASSUME TypeOK
  PROVE  /\ Weights["processedAmount"] \in Int
         /\ Weights["efficiency"] \in Int
         /\ Weights["co2Savings"] \in Int
         /\ TotalWeight \in Nat \ {0}
<1> DEFINE given == [k \in Shares |-> IF formula[k] = Null THEN DefaultWeights[k] ELSE formula[k]]
<1>1. \A k \in Shares : formula[k] \in Int \cup {Null}
  BY FormulasAssumption DEF TypeOK
<1>2. \A k \in Shares : DefaultWeights[k] \in Int
  BY DEF Shares, DefaultWeights
<1>3. \A k \in Shares : given[k] \in Int
  BY <1>1, <1>2
<1>4. Weights = IF WeightSum(given) > 0 THEN given ELSE DefaultWeights
  BY DEF Weights
<1>5. WeightSum(DefaultWeights) = 100
  BY DEF WeightSum, DefaultWeights
<1> HIDE DEF given
<1>6. \A k \in Shares : Weights[k] \in Int
  BY <1>2, <1>3, <1>4
<1>7. TotalWeight > 0
  BY <1>4, <1>5 DEF TotalWeight
<1>8. QED
  BY <1>6, <1>7 DEF Shares, TotalWeight, WeightSum

\* The percentage is at most all of the weights if none is negative, and at least
\* none of them if the amount is not negative either; it grows with the amount if
\* the weights do that count it.
LEMMA PercentFacts ==
  ASSUME TypeOK, NEW a \in Int
  PROVE  /\ Percent(a) \in Int
         /\ (\A k \in Shares : Weights[k] >= 0) =>
              Percent(a) <= 100 * TotalWeight /\ (a >= 0 => Percent(a) >= 0)
         /\ Weights["processedAmount"] >= 0 /\ Weights["co2Savings"] >= 0 =>
              \A b \in Int : a <= b => Percent(a) <= Percent(b)
<1> DEFINE P == Weights["processedAmount"]
           E == Weights["efficiency"]
           C == Weights["co2Savings"]
<1>1. P \in Int /\ E \in Int /\ C \in Int /\ TotalWeight = P + E + C
  BY WeightFacts DEF TotalWeight, WeightSum
<1>2. (\A k \in Shares : Weights[k] >= 0) => P >= 0 /\ E >= 0 /\ C >= 0
  BY DEF Shares
<1> HIDE DEF P, E, C
<1>3. \A b \in Int : /\ ProcessedShare(b) \in Int /\ ProcessedShare(b) <= 5
                     /\ Co2Share(b) \in Int /\ Co2Share(b) <= 10
                     /\ b >= 0 => ProcessedShare(b) >= 0 /\ Co2Share(b) >= 0
                     /\ a <= b => /\ ProcessedShare(a) <= ProcessedShare(b)
                                  /\ Co2Share(a) <= Co2Share(b)
  BY MinOfTwo DEF ProcessedShare, Co2Share
<1>4. \A b \in Int : /\ Percent(b) = 20 * (ProcessedShare(b) * P) + 10 * (Co2Share(b) * C)
                     /\ ProcessedShare(b) * P \in Int /\ Co2Share(b) * C \in Int
  BY <1>1, <1>3 DEF Percent, EfficiencyShare, P, E, C
<1>5. Percent(a) \in Int
  BY <1>4
<1>6. ASSUME P >= 0, E >= 0, C >= 0
      PROVE  Percent(a) <= 100 * TotalWeight /\ (a >= 0 => Percent(a) >= 0)
  <2>1. P \in Nat /\ E \in Nat /\ C \in Nat
    BY <1>1, <1>6
  <2>2. ProcessedShare(a) * P <= 5 * P /\ Co2Share(a) * C <= 10 * C
    BY <1>3, <2>1, ProductGrows
  <2>3. a >= 0 => 0 * P <= ProcessedShare(a) * P /\ 0 * C <= Co2Share(a) * C
    BY <1>3, <2>1, ProductGrows
  <2>4. 0 * P = 0 /\ 0 * C = 0
    BY <2>1
  <2>5. QED
    BY <1>1, <1>4, <2>1, <2>2, <2>3, <2>4
<1>7. ASSUME P >= 0, C >= 0, NEW b \in Int, a <= b
      PROVE  Percent(a) <= Percent(b)
  <2>1. P \in Nat /\ C \in Nat
    BY <1>1, <1>7
  <2>2. ProcessedShare(a) * P <= ProcessedShare(b) * P /\ Co2Share(a) * C <= Co2Share(b) * C
    BY <1>3, <1>7, <2>1, ProductGrows
  <2>3. QED
    BY <1>4, <2>2
<1>8. QED
  BY <1>2, <1>5, <1>6, <1>7 DEF P, C

\* A score is at most 100 under weights of which none is negative, and a percentage
\* if the amount is not negative either; who processed more never scores less if
\* neither weight that counts the amount is negative (EcoScoreService, with its
\* caps, its Math.round and the weights it falls back on).
THEOREM ScoresAreSound == Spec => []ScoreSound
<1>1. ASSUME TypeOK
      PROVE  ScoreSound
  <2>1. \A i \in DOMAIN sessions : AmountOf(sessions[i]) \in Int
    <3>1. \A i \in DOMAIN sessions :
            sessions[i] \in [device : Devices, amount : Amounts \cup {Null}, day : Int]
      BY <1>1, ElementOfSeq, LenProperties DEF TypeOK
    <3>2. \A i \in DOMAIN sessions : sessions[i].amount \in Int \cup {Null}
      BY <3>1, AmountsAssumption
    <3>3. QED
      BY <3>2 DEF AmountOf
  <2> SUFFICES ASSUME NEW i \in DOMAIN sessions, NEW j \in DOMAIN sessions
               PROVE  /\ (\A k \in Shares : Weights[k] >= 0) =>
                           /\ EcoScore(sessions[i]) <= 100
                           /\ AmountOf(sessions[i]) >= 0 => EcoScore(sessions[i]) >= 0
                      /\ /\ Weights["processedAmount"] >= 0 /\ Weights["co2Savings"] >= 0
                         /\ AmountOf(sessions[i]) <= AmountOf(sessions[j])
                         => EcoScore(sessions[i]) <= EcoScore(sessions[j])
    BY DEF ScoreSound
  <2> DEFINE a == AmountOf(sessions[i])
             b == AmountOf(sessions[j])
             T == TotalWeight
  <2>2. a \in Int /\ b \in Int /\ T \in Nat \ {0} /\ 2 * T \in Nat \ {0}
    BY <1>1, <2>1, WeightFacts
  <2>3. /\ EcoScore(sessions[i]) = (2 * Percent(a) + T) \div (2 * T)
        /\ EcoScore(sessions[j]) = (2 * Percent(b) + T) \div (2 * T)
    BY DEF EcoScore, Percent, TotalWeight
  <2> HIDE DEF a, b, T
  <2>4. Percent(a) \in Int /\ Percent(b) \in Int
    BY <1>1, <2>2, PercentFacts
  <2>5. ASSUME \A k \in Shares : Weights[k] >= 0
        PROVE  EcoScore(sessions[i]) <= 100 /\ (a >= 0 => EcoScore(sessions[i]) >= 0)
    <3>1. Percent(a) <= 100 * T /\ (a >= 0 => Percent(a) >= 0)
      BY <1>1, <2>2, <2>5, PercentFacts DEF T
    <3>2. /\ 2 * Percent(a) + T \in Int /\ 2 * Percent(a) + T < (2 * T) * (100 + 1)
          /\ a >= 0 => 2 * Percent(a) + T >= 0
      BY <2>2, <2>4, <3>1
    <3>3. QED
      BY <2>2, <2>3, <3>2, QuotientBound
  <2>6. ASSUME Weights["processedAmount"] >= 0, Weights["co2Savings"] >= 0, a <= b
        PROVE  EcoScore(sessions[i]) <= EcoScore(sessions[j])
    <3>1. Percent(a) <= Percent(b)
      BY <1>1, <2>2, <2>6, PercentFacts
    <3>2. /\ 2 * Percent(a) + T \in Int /\ 2 * Percent(b) + T \in Int
          /\ 2 * Percent(a) + T <= 2 * Percent(b) + T
      BY <2>2, <2>4, <3>1
    <3>3. QED
      BY <2>2, <2>3, <3>2, QuotientGrows
  <2>7. QED
    BY <2>5, <2>6 DEF a, b
<1>2. QED
  BY <1>1, TypeCorrect, PTL

-----------------------------------------------------------------------------
(* The week.                                                               *)

\* What a user processed between two days depends on the sessions and on the
\* owners only.
LEMMA ProcessedKept ==
  ASSUME owner' = owner, sessions' = sessions, NEW u, NEW from, NEW to
  PROVE  Processed(u, from, to)' = Processed(u, from, to)
BY DEF Processed, SessionsOf

\* When a week ends, its figures become those of the previous week, whatever day
\* of whatever week it is (TimeseriesService.getWeeklySummary and the Mondays of
\* ReportsController).
THEOREM WeeksRollOver == Spec => WeekRollsOver
<1>1. ASSUME TypeOK, Next, WeekStart(now') # WeekStart(now), NEW u \in Users
      PROVE  LastWeek(u)' = ThisWeek(u)
  <2>1. NextDay
    BY <1>1 DEF Next, RecordSession, ChangeOwner
  <2>2. now \in Int /\ owner' = owner /\ sessions' = sessions /\ now' = now + 1
    BY <1>1, <2>1, DaysAssumption DEF TypeOK, NextDay
  <2>3. PICK from \in Int, to \in Int : from = WeekStart(now) /\ to = WeekEnd(now)
    BY <2>2, WeekFacts DEF WeekEnd
  <2>4. WeekStart(now)' - 7 = from /\ WeekEnd(now)' - 7 = to
    BY <1>1, <2>2, <2>3, WeekFacts DEF WeekEnd
  <2>5. LastWeek(u)' = Processed(u, from, to)'
    BY <2>4 DEF LastWeek
  <2>6. ThisWeek(u) = Processed(u, from, to)
    BY <2>3 DEF ThisWeek
  <2>7. QED
    BY <2>2, <2>5, <2>6, ProcessedKept
<1>2. TypeOK /\ [Next]_vars =>
        [WeekStart(now') # WeekStart(now) => \A u \in Users : LastWeek(u)' = ThisWeek(u)]_vars
  BY <1>1
<1>3. QED
  BY <1>2, TypeCorrect, PTL DEF Spec, WeekRollsOver

-----------------------------------------------------------------------------
(* Late reports.                                                           *)

\* The scores a user may be shown depend on the sessions and on the owners only.
LEMMA ScoresKept ==
  ASSUME owner' = owner, sessions' = sessions, formula' = formula, NEW u
  PROVE  EcoScores(u)' = EcoScores(u)
BY DEF EcoScores, EcoScore, Weights, Latest, SessionsOf

\* A session older than some other of the user's is not his latest.
LEMMA OlderScoresNothing ==
  ASSUME TypeOK, NEW u \in Users, NEW d \in Devices, NEW a \in Amounts \cup {Null},
         NEW t \in Int, RecordSession(d, a, t),
         NEW i \in SessionsOf(u), t < sessions[i].day
  PROVE  EcoScores(u)' = EcoScores(u)
<1> DEFINE new == [device |-> d, amount |-> a, day |-> t]
           S == [device : Devices, amount : Amounts \cup {Null}, day : Int]
<1>1. sessions \in Seq(S) /\ new \in S /\ sessions' = Append(sessions, new) /\ owner' = owner /\ formula' = formula
  BY DEF TypeOK, RecordSession
<1>2. new.device = d /\ new.day = t
  OBVIOUS
<1> HIDE DEF new, S
<1>3. /\ Len(sessions) \in Nat /\ DOMAIN sessions = 1..Len(sessions)
      /\ DOMAIN sessions' = 1..(Len(sessions) + 1)
      /\ \A k \in 1..Len(sessions) : sessions'[k] = sessions[k] /\ sessions[k] \in S
      /\ sessions'[Len(sessions) + 1] = new
  <2> USE <1>1
  <2>1. /\ Len(sessions) \in Nat /\ DOMAIN sessions = 1..Len(sessions)
        /\ sessions' \in Seq(S) /\ Len(sessions') = Len(sessions) + 1
        /\ sessions'[Len(sessions) + 1] = new
        /\ \A k \in 1..Len(sessions) : sessions'[k] = sessions[k]
    BY AppendProperties, LenProperties
  <2>2. DOMAIN sessions' = 1..(Len(sessions) + 1)
    BY <2>1, LenProperties
  <2>3. \A k \in 1..Len(sessions) : sessions[k] \in S
    BY ElementOfSeq
  <2>4. QED
    BY <2>1, <2>2, <2>3
<1>4. \A k \in DOMAIN sessions : sessions[k].day \in Int
  BY <1>3 DEF S
<1>5. /\ i \in SessionsOf(u)' /\ SessionsOf(u) \subseteq DOMAIN sessions
      /\ SessionsOf(u)' \subseteq SessionsOf(u) \cup {Len(sessions) + 1}
      /\ SessionsOf(u) \subseteq SessionsOf(u)'
  BY <1>1, <1>3 DEF SessionsOf
<1>6. Latest(u)' = Latest(u)
  <2>1. ASSUME NEW k \in Latest(u)'
        PROVE  k \in Latest(u)
    <3>1. /\ k \in SessionsOf(u)'
          /\ \A j \in SessionsOf(u)' : sessions'[j].day <= sessions'[k].day
      BY <2>1 DEF Latest
    <3>2. k # Len(sessions) + 1
      BY <1>2, <1>3, <1>4, <1>5, <3>1
    <3>3. k \in SessionsOf(u) /\ \A j \in SessionsOf(u) : sessions[j].day <= sessions[k].day
      BY <1>3, <1>5, <3>1, <3>2
    <3>4. QED
      BY <3>3 DEF Latest
  <2>2. ASSUME NEW k \in Latest(u)
        PROVE  k \in Latest(u)'
    <3>1. k \in SessionsOf(u) /\ \A j \in SessionsOf(u) : sessions[j].day <= sessions[k].day
      BY <2>2 DEF Latest
    <3>2. \A j \in SessionsOf(u)' : sessions'[j].day <= sessions'[k].day
      <4>1. sessions'[k].day = sessions[k].day /\ t <= sessions[k].day
        BY <1>3, <1>4, <1>5, <3>1
      <4>2. QED
        BY <1>2, <1>3, <1>5, <3>1, <4>1
    <3>3. QED
      BY <1>5, <3>1, <3>2 DEF Latest
  <2>3. QED
    BY <2>1, <2>2
<1>7. \A k \in Latest(u) : sessions'[k] = sessions[k]
  BY <1>3, <1>5 DEF Latest
<1>8. EcoScores(u) = {EcoScore(sessions[k]) : k \in Latest(u)}
  BY DEF EcoScores
<1>9. EcoScores(u)' = {EcoScore(sessions'[k]) : k \in Latest(u)'}
  <2>1. EcoScores(u)' = {EcoScore(sessions[k])' : k \in Latest(u)'}
    BY <1>5 DEF EcoScores
  <2>2. \A k : EcoScore(sessions[k])' = EcoScore(sessions'[k])
    BY <1>1 DEF EcoScore, Weights
  <2>3. QED
    BY <2>1, <2>2
<1>10. QED
  BY <1>6, <1>7, <1>8, <1>9

\* A report that arrives late does not hide a newer one: unless a device changes
\* hands, only a session at least as recent as all the user's others changes the
\* score he is shown (EcoScoreService.getEcoScore).
THEOREM LateReportsHideNothing == Spec => LateReportHidesNothing
<1>1. ASSUME TypeOK, Next, NEW u \in Users, EcoScores(u)' # EcoScores(u), owner' = owner
      PROVE  /\ Len(sessions') > Len(sessions)
             /\ \A i \in SessionsOf(u) : sessions[i].day <= Last(sessions').day
  <2>1. CASE sessions' = sessions
    <3>1. formula' = formula
      BY <1>1 DEF Next, RecordSession, ChangeOwner, NextDay
    <3>2. QED
      BY <1>1, <2>1, <3>1, ScoresKept
  <2>2. CASE sessions' # sessions
    <3>1. PICK d \in Devices, a \in Amounts \cup {Null}, o \in DayOffsets : RecordSession(d, a, now + o)
      BY <1>1, <2>2 DEF Next, ChangeOwner, NextDay
    <3>2. PICK t \in Int : t = now + o
      BY <1>1, DaysAssumption DEF TypeOK
    <3>3. RecordSession(d, a, t)
      BY <3>1, <3>2
    <3>4. \A i \in SessionsOf(u) : ~ (t < sessions[i].day)
      BY <1>1, <3>3, OlderScoresNothing
    <3> DEFINE new == [device |-> d, amount |-> a, day |-> t]
               S == [device : Devices, amount : Amounts \cup {Null}, day : Int]
    <3>5. sessions \in Seq(S) /\ new \in S /\ sessions' = Append(sessions, new) /\ new.day = t
      BY <1>1, <3>3 DEF TypeOK, RecordSession
    <3> HIDE DEF new
    <3>6. /\ Len(sessions) \in Nat /\ Len(sessions') = Len(sessions) + 1
          /\ Last(sessions') = new
      BY <3>5, AppendProperties, LenProperties DEF Last
    <3>7. \A i \in SessionsOf(u) : sessions[i].day \in Int
      <4>1. \A i \in DOMAIN sessions : sessions[i] \in S
        <5> HIDE DEF S
        <5>1. QED
          BY <3>5, ElementOfSeq, LenProperties
      <4>2. QED
        BY <4>1 DEF SessionsOf
    <3>8. QED
      BY <3>4, <3>5, <3>6, <3>7
  <2>3. QED
    BY <2>1, <2>2
<1>2. TypeOK /\ [Next]_vars =>
        [\A u \in Users : EcoScores(u)' # EcoScores(u) =>
           \/ owner' # owner
           \/ /\ Len(sessions') > Len(sessions)
              /\ \A i \in SessionsOf(u) : sessions[i].day <= Last(sessions').day]_vars
  BY <1>1
<1>3. QED
  BY <1>2, TypeCorrect, PTL DEF Spec, LateReportHidesNothing

-----------------------------------------------------------------------------
(* Sums.                                                                   *)

\* A set of finite sets that is not empty has a least one, as far as inclusion goes.
LEMMA LeastSet ==
  ASSUME NEW S, IsFiniteSet(S), NEW B \in SUBSET SUBSET S, B # {}
  PROVE  \E T \in B : \A U \in B : U \subseteq T => U = T
<1>1. IsWellFoundedOn(StrictSubsetOrdering(S), FiniteSubsetsOf(S))
  BY FS_StrictSubsetOrderingWellFounded
<1>2. B \subseteq FiniteSubsetsOf(S)
  BY FS_Subset DEF FiniteSubsetsOf
<1>3. \E T \in B : \A U \in B : <<U, T>> \notin StrictSubsetOrdering(S)
  BY <1>1, <1>2, WFMin
<1>4. QED
  BY <1>3 DEF StrictSubsetOrdering

\* MapThenSumSet adds the amount of an element that it chooses to the sum of the rest.
AmountSum(s, S) == MapThenSumSet(LAMBDA i : s[i].amount, S)
Chosen(T) == CHOOSE i \in T : TRUE
Adding(s, f, T) == IF T = {} THEN 0 ELSE s[Chosen(T)].amount + f[T \ {Chosen(T)}]
IsSum(s, f, S) == f = [T \in SUBSET S |-> Adding(s, f, T)]

\* The sum is what a function that adds up gives.
LEMMA SumIsChosen ==
  ASSUME NEW s, NEW S
  PROVE  AmountSum(s, S) = (CHOOSE f : IsSum(s, f, S))[S]
BY DEF AmountSum, MapThenSumSet, MapThenFoldSet, IsSum, Adding, Chosen

\* What is chosen of a set is in it.
LEMMA ChosenFacts == \A T : T # {} => Chosen(T) \in T
BY DEF Chosen

\* Two functions that add up agree on the sets that both add up.
LEMMA SumsAgree ==
  ASSUME NEW s, NEW S, IsFiniteSet(S), NEW R, NEW f, NEW g, IsSum(s, f, S), IsSum(s, g, R)
  PROVE  \A T \in SUBSET S : T \subseteq R => f[T] = g[T]
<1> DEFINE B == {T \in SUBSET S : T \subseteq R /\ f[T] # g[T]}
<1>1. SUFFICES ASSUME B # {} PROVE FALSE
  OBVIOUS
<1>2. PICK T \in B : \A U \in B : U \subseteq T => U = T
  <2>1. B \in SUBSET SUBSET S
    OBVIOUS
  <2> HIDE DEF B
  <2>2. QED
    BY <1>1, <2>1, LeastSet
<1>3. f[T] = Adding(s, f, T) /\ g[T] = Adding(s, g, T)
  BY <1>2 DEF IsSum
<1>4. T # {}
  BY <1>2, <1>3 DEF Adding
<1>5. T \ {Chosen(T)} \notin B /\ T \ {Chosen(T)} \subseteq T /\ Chosen(T) \in T
  BY <1>2, <1>4, ChosenFacts
<1>6. f[T \ {Chosen(T)}] = g[T \ {Chosen(T)}]
  BY <1>2, <1>5
<1>7. QED
  BY <1>2, <1>3, <1>4, <1>6 DEF Adding

\* There is a function that adds up.
LEMMA SumsExist ==
  ASSUME NEW s, NEW S, IsFiniteSet(S)
  PROVE  \E f : IsSum(s, f, S)
<1> DEFINE B == {T \in SUBSET S : ~ \E f : IsSum(s, f, T)}
           Sum(T) == (CHOOSE f : IsSum(s, f, T))[T]
<1>1. SUFFICES ASSUME B # {} PROVE FALSE
  OBVIOUS
<1>2. PICK T \in B : \A U \in B : U \subseteq T => U = T
  <2>1. B \in SUBSET SUBSET S
    OBVIOUS
  <2> HIDE DEF B
  <2>2. QED
    BY <1>1, <2>1, LeastSet
<1>3. ASSUME NEW U \in SUBSET T, U # T
      PROVE  /\ U = {} => Sum(U) = 0
             /\ U # {} => Sum(U) = s[Chosen(U)].amount + Sum(U \ {Chosen(U)})
  <2> DEFINE R == U \ {Chosen(U)}
             f == CHOOSE f : IsSum(s, f, U)
             g == CHOOSE g : IsSum(s, g, R)
  <2>1. IsSum(s, f, U)
    BY <1>2, <1>3
  <2>2. R \in SUBSET T /\ R # T
    BY <1>3
  <2>3. IsSum(s, g, R)
    BY <1>2, <2>2
  <2>4. IsFiniteSet(U)
    BY <1>2, <1>3, FS_Subset
  <2>5. Sum(U) = f[U] /\ Sum(R) = g[R]
    OBVIOUS
  <2> HIDE DEF f, g, Sum
  <2>6. f[R] = g[R]
    BY <2>1, <2>3, <2>4, SumsAgree
  <2>7. f[U] = Adding(s, f, U)
    BY <2>1 DEF IsSum
  <2>8. QED
    BY <2>5, <2>6, <2>7 DEF Adding
<1> HIDE DEF Sum
<1> DEFINE f == [U \in SUBSET T |->
                   IF U # T THEN Sum(U)
                   ELSE IF T = {} THEN 0 ELSE s[Chosen(T)].amount + Sum(T \ {Chosen(T)})]
<1>4. ASSUME NEW U \in SUBSET T PROVE f[U] = Adding(s, f, U)
  <2>1. CASE U = {}
    BY <1>3, <2>1 DEF Adding
  <2>2. CASE U # {}
    <3>1. U \ {Chosen(U)} \in SUBSET T /\ U \ {Chosen(U)} # T
      BY <2>2, ChosenFacts
    <3>2. f[U \ {Chosen(U)}] = Sum(U \ {Chosen(U)})
      BY <3>1
    <3>3. f[U] = s[Chosen(U)].amount + Sum(U \ {Chosen(U)})
      BY <1>3, <2>2
    <3>4. QED
      BY <2>2, <3>2, <3>3 DEF Adding
  <2>3. QED
    BY <2>1, <2>2
<1>5. f = [U \in SUBSET T |-> f[U]]
  OBVIOUS
<1> HIDE DEF f
<1>6. f = [U \in SUBSET T |-> Adding(s, f, U)]
  BY <1>4, <1>5
<1>7. QED
  BY <1>2, <1>6 DEF IsSum

\* What a sum is.
LEMMA SumStep ==
  ASSUME NEW s, NEW S, IsFiniteSet(S)
  PROVE  /\ S = {} => AmountSum(s, S) = 0
         /\ S # {} => AmountSum(s, S) = s[Chosen(S)].amount + AmountSum(s, S \ {Chosen(S)})
<1> DEFINE R == S \ {Chosen(S)}
           f == CHOOSE f : IsSum(s, f, S)
           g == CHOOSE g : IsSum(s, g, R)
<1>1. IsFiniteSet(R) /\ R \subseteq S
  BY FS_Subset
<1>2. IsSum(s, f, S) /\ IsSum(s, g, R)
  BY <1>1, SumsExist
<1>3. AmountSum(s, S) = f[S] /\ AmountSum(s, R) = g[R]
  BY SumIsChosen
<1> HIDE DEF f, g
<1>4. f[R] = g[R]
  BY <1>1, <1>2, SumsAgree
<1>5. f[S] = Adding(s, f, S)
  BY <1>2 DEF IsSum
<1>6. QED
  BY <1>3, <1>4, <1>5 DEF Adding

\* A sum of amounts is a number, whichever of them is added last.
LEMMA SumFacts ==
  ASSUME NEW s, NEW S, IsFiniteSet(S), \A i \in S : s[i].amount \in Int
  PROVE  /\ AmountSum(s, S) \in Int
         /\ \A i \in S : AmountSum(s, S) = s[i].amount + AmountSum(s, S \ {i})
<1> DEFINE Sum(T) == AmountSum(s, T)
           B == {T \in SUBSET S : ~ (Sum(T) \in Int /\ \A i \in T : Sum(T) = s[i].amount + Sum(T \ {i}))}
<1>1. SUFFICES ASSUME B # {} PROVE FALSE
  OBVIOUS
<1>2. PICK T \in B : \A U \in B : U \subseteq T => U = T
  <2>1. B \in SUBSET SUBSET S
    OBVIOUS
  <2> HIDE DEF B
  <2>2. QED
    BY <1>1, <2>1, LeastSet
<1>3. IsFiniteSet(T) /\ T \subseteq S
  BY <1>2, FS_Subset
<1>4. /\ T = {} => Sum(T) = 0
      /\ T # {} => Sum(T) = s[Chosen(T)].amount + Sum(T \ {Chosen(T)})
  BY <1>3, SumStep
<1>5. \A U \in SUBSET T : U # T => Sum(U) \in Int /\ \A i \in U : Sum(U) = s[i].amount + Sum(U \ {i})
  BY <1>2, <1>3
<1> HIDE DEF Sum
<1>6. T # {}
  BY <1>2, <1>4
<1>7. Chosen(T) \in T /\ T \ {Chosen(T)} # T
  BY <1>6, ChosenFacts
<1>8. Sum(T) \in Int
  BY <1>3, <1>4, <1>5, <1>6, <1>7
<1>9. ASSUME NEW i \in T PROVE Sum(T) = s[i].amount + Sum(T \ {i})
  <2>1. CASE i = Chosen(T)
    BY <1>4, <1>6, <2>1
  <2>2. CASE i # Chosen(T)
    <3> DEFINE c == Chosen(T)
    <3>1. i \in T \ {c} /\ T \ {c} # T /\ c \in T \ {i} /\ T \ {i} # T
      BY <1>7, <2>2
    <3>2. (T \ {c}) \ {i} = (T \ {i}) \ {c} /\ (T \ {c}) \ {i} # T
      BY <1>7
    <3>3. Sum(T \ {c}) = s[i].amount + Sum((T \ {c}) \ {i})
      BY <1>5, <3>1
    <3>4. Sum(T \ {i}) = s[c].amount + Sum((T \ {c}) \ {i})
      BY <1>5, <3>1, <3>2
    <3>5. s[i].amount \in Int /\ s[c].amount \in Int /\ Sum((T \ {c}) \ {i}) \in Int
      BY <1>3, <1>5, <1>7, <3>2
    <3>6. Sum(T) = s[c].amount + Sum(T \ {c})
      BY <1>4, <1>6
    <3> HIDE DEF c
    <3>7. QED
      BY <3>3, <3>4, <3>5, <3>6
  <2>3. QED
    BY <2>1, <2>2
<1>10. QED
  BY <1>2, <1>8, <1>9

\* The sum of the amounts of two sets apart is the sum of both sums.
LEMMA SumOfUnion ==
  ASSUME NEW s, NEW S, NEW R, IsFiniteSet(S), IsFiniteSet(R), S \cap R = {},
         \A i \in S \cup R : s[i].amount \in Int
  PROVE  AmountSum(s, S \cup R) = AmountSum(s, S) + AmountSum(s, R)
<1> DEFINE Sum(T) == AmountSum(s, T)
           B == {T \in SUBSET R : Sum(S \cup T) # Sum(S) + Sum(T)}
<1>1. SUFFICES ASSUME B # {} PROVE FALSE
  OBVIOUS
<1>2. PICK T \in B : \A U \in B : U \subseteq T => U = T
  <2>1. B \in SUBSET SUBSET R
    OBVIOUS
  <2> HIDE DEF B
  <2>2. QED
    BY <1>1, <2>1, LeastSet
<1>3. IsFiniteSet(T) /\ T \subseteq R /\ IsFiniteSet(S \cup T)
  BY <1>2, FS_Subset, FS_Union
<1>4. /\ Sum(S) \in Int /\ Sum(T) \in Int
      /\ \A i \in T : Sum(T) = s[i].amount + Sum(T \ {i})
      /\ \A i \in S \cup T : Sum(S \cup T) = s[i].amount + Sum((S \cup T) \ {i})
  BY <1>3, SumFacts
<1>5. T = {} => Sum(T) = 0
  BY <1>3, SumStep
<1>6. \A i \in T : s[i].amount \in Int /\ Sum(T \ {i}) \in Int
  <2>1. SUFFICES ASSUME NEW i \in T PROVE s[i].amount \in Int /\ Sum(T \ {i}) \in Int
    OBVIOUS
  <2>2. IsFiniteSet(T \ {i}) /\ \A j \in T \ {i} : s[j].amount \in Int
    BY <1>3, FS_Subset
  <2>3. QED
    BY <1>3, <2>2, SumFacts
<1> HIDE DEF Sum
<1>7. Sum(S \cup T) # Sum(S) + Sum(T) /\ \A U \in SUBSET T : U # T => Sum(S \cup U) = Sum(S) + Sum(U)
  BY <1>2, <1>3
<1>8. PICK i \in T : TRUE
  <2>1. ASSUME T = {} PROVE FALSE
    <3>1. S \cup T = S
      BY <2>1
    <3>2. Sum(S) # Sum(S) + Sum(T)
      BY <1>7, <3>1
    <3>3. QED
      BY <1>4, <1>5, <2>1, <3>2
  <2>2. QED
    BY <2>1
<1>9. (S \cup T) \ {i} = S \cup (T \ {i})
  BY <1>3, <1>8
<1>10. Sum(S \cup (T \ {i})) = Sum(S) + Sum(T \ {i})
  BY <1>7, <1>8
<1>11. Sum(S \cup T) = s[i].amount + Sum(S \cup (T \ {i})) /\ Sum(T) = s[i].amount + Sum(T \ {i})
  BY <1>4, <1>8, <1>9
<1> HIDE DEF B
<1>12. QED
  BY <1>4, <1>6, <1>7, <1>8, <1>10, <1>11

-----------------------------------------------------------------------------
(* Rankings.                                                               *)

Known(I) == {i \in I : sessions[i].amount # Null}

\* The sum of some sessions is that of the amounts that are known.
LEMMA AmountsAddUp ==
  ASSUME TypeOK, NEW I \in SUBSET DOMAIN sessions
  PROVE  /\ IsFiniteSet(I) /\ IsFiniteSet(Known(I)) /\ \A i \in Known(I) : sessions[i].amount \in Int
         /\ OrZero(SumAmount(sessions, I)) = AmountSum(sessions, Known(I))
         /\ AmountSum(sessions, Known(I)) \in Int
         /\ IF Known(I) = {} THEN SumAmount(sessions, I) = Null ELSE SumAmount(sessions, I) \in Int
<1>1. DOMAIN sessions = 1..Len(sessions) /\ Len(sessions) \in Nat
  BY LenProperties DEF TypeOK
<1>2. IsFiniteSet(DOMAIN sessions)
  BY <1>1, FS_Interval
<1>3. IsFiniteSet(I) /\ IsFiniteSet(Known(I))
  BY <1>2, FS_Subset DEF Known
<1>4. \A i \in Known(I) : sessions[i].amount \in Int
  <2>1. \A i \in DOMAIN sessions : sessions[i] \in [device : Devices, amount : Amounts \cup {Null}, day : Int]
    BY <1>1, ElementOfSeq DEF TypeOK
  <2>2. QED
    BY <2>1, AmountsAssumption DEF Known
<1>5. AmountSum(sessions, Known(I)) \in Int
  BY <1>3, <1>4, SumFacts
<1>6. SumAmount(sessions, I) = IF Known(I) = {} THEN Null ELSE AmountSum(sessions, Known(I))
  BY DEF SumAmount, AmountSum, Known
<1>7. Known(I) = {} => AmountSum(sessions, Known(I)) = 0
  BY <1>3, SumStep
<1>8. QED
  BY <1>3, <1>4, <1>5, <1>6, <1>7, AmountsAssumption DEF OrZero

\* The sessions that a week's ranking counts for a user are those of the summary
\* and those that devices dated later.
LEMMA WeekAddsUp ==
  ASSUME TypeOK, NEW u \in Users
  PROVE  /\ Since(u, "WEEKLY") \in SUBSET DOMAIN sessions
         /\ OrZero(Total(u, "WEEKLY")) = ThisWeek(u) + Later(u)
         /\ Since(u, "DAILY") \subseteq Since(u, "WEEKLY")
<1> DEFINE W == {i \in SessionsOf(u) : sessions[i].day \in WeekStart(now)..WeekEnd(now)}
           L == {i \in SessionsOf(u) : sessions[i].day > WeekEnd(now)}
           S == Since(u, "WEEKLY")
<1>1. /\ now \in Int /\ WeekStart(now) \in Int /\ WeekEnd(now) \in Int
      /\ WeekStart(now) <= now /\ now <= WeekEnd(now)
  <2>1. now \in Int
    BY DaysAssumption DEF TypeOK
  <2>2. WeekStart(now) \in Int /\ WeekStart(now) <= now /\ now <= WeekEnd(now)
    BY <2>1, WeekFacts
  <2>3. QED
    BY <2>1, <2>2 DEF WeekEnd
<1>2. PeriodStart("WEEKLY") = WeekStart(now) /\ PeriodStart("DAILY") = now
  BY DEF PeriodStart, WeekStart
<1>3. \A i \in SessionsOf(u) : i \in DOMAIN sessions /\ sessions[i].day \in Int
  <2>1. sessions \in Seq([device : Devices, amount : Amounts \cup {Null}, day : Int])
    BY DEF TypeOK
  <2>2. \A i \in DOMAIN sessions : sessions[i] \in [device : Devices, amount : Amounts \cup {Null}, day : Int]
    BY <2>1, LenProperties, ElementOfSeq
  <2>3. \A i \in DOMAIN sessions : sessions[i].day \in Int
    BY <2>2
  <2>4. QED
    BY <2>3 DEF SessionsOf
<1>4. S = W \cup L /\ W \cap L = {}
  BY <1>1, <1>2, <1>3 DEF Since
<1>5. W \in SUBSET DOMAIN sessions /\ L \in SUBSET DOMAIN sessions /\ S \in SUBSET DOMAIN sessions
  BY <1>3, <1>4
<1>6. Since(u, "DAILY") \subseteq S
  BY <1>1, <1>2, <1>3 DEF Since
<1>7. ThisWeek(u) = OrZero(SumAmount(sessions, W)) /\ Total(u, "WEEKLY") = SumAmount(sessions, S)
  BY DEF ThisWeek, Processed, Total
<1> HIDE DEF W, L, S
<1>8. Known(S) = Known(W) \cup Known(L) /\ Known(W) \cap Known(L) = {}
  BY <1>4 DEF Known
<1>9. AmountSum(sessions, Known(W) \cup Known(L)) =
        AmountSum(sessions, Known(W)) + AmountSum(sessions, Known(L))
  <2>1. /\ IsFiniteSet(Known(W)) /\ IsFiniteSet(Known(L))
        /\ \A i \in Known(W) \cup Known(L) : sessions[i].amount \in Int
    BY <1>5, AmountsAddUp
  <2>2. QED
    BY <1>8, <2>1, SumOfUnion
<1>10. /\ OrZero(SumAmount(sessions, S)) = AmountSum(sessions, Known(S))
       /\ OrZero(SumAmount(sessions, W)) = AmountSum(sessions, Known(W))
       /\ OrZero(SumAmount(sessions, L)) = AmountSum(sessions, Known(L))
       /\ AmountSum(sessions, Known(W)) \in Int /\ AmountSum(sessions, Known(L)) \in Int
  BY <1>5, AmountsAddUp
<1>11. OrZero(Total(u, "WEEKLY")) = ThisWeek(u) + OrZero(SumAmount(sessions, L))
  BY <1>7, <1>8, <1>9, <1>10
<1>12. QED
  BY <1>5, <1>6, <1>11 DEF S, L, Later

Listed == {u \in Users : Since(u, "WEEKLY") # {}}

\* A sequence of all who are listed has each of them, so who is not among the first
\* comes after all of them.
LEMMA RankingFacts ==
  ASSUME TypeOK, NEW l \in Rankings("WEEKLY"), NEW u \in Listed, u \notin ToSet(l)
  PROVE  /\ Len(l) = Limit
         /\ \A v \in ToSet(l) : v \in Listed /\ NotAfter(Total(v, "WEEKLY"), Total(u, "WEEKLY"))
<1> DEFINE n == Cardinality(Listed)
<1>1. IsFiniteSet(Listed)
  <2> DEFINE f == [v \in Listed |-> CHOOSE i \in Since(v, "WEEKLY") : TRUE]
  <2>1. \A v \in Listed : f[v] \in Since(v, "WEEKLY")
    BY DEF Listed
  <2>2. \A v \in Listed : \A i \in Since(v, "WEEKLY") :
          i \in DOMAIN sessions /\ owner[sessions[i].device] = v
    BY DEF Since, SessionsOf
  <2> HIDE DEF f
  <2>3. f \in [Listed -> DOMAIN sessions]
    BY <2>1, <2>2 DEF f
  <2>4. \A v, w \in Listed : f[v] = f[w] => v = w
    BY <2>1, <2>2
  <2>5. f \in Injection(Listed, DOMAIN sessions)
    BY <2>3, <2>4, Fun_IsInj
  <2>6. IsFiniteSet(DOMAIN sessions)
    <3>1. DOMAIN sessions \in SUBSET DOMAIN sessions
      OBVIOUS
    <3>2. QED
      BY <3>1, AmountsAddUp
  <2>7. QED
    BY <2>5, <2>6, FS_Injection
<1>2. n \in Nat
  BY <1>1, FS_CardinalityType
<1>3. PICK s \in [1..n -> Listed] :
        /\ \A i, j \in 1..n : i # j => s[i] # s[j]
        /\ \A j \in DOMAIN s : \A i \in 1..j : NotAfter(Total(s[i], "WEEKLY"), Total(s[j], "WEEKLY"))
        /\ l = SubSeq(s, 1, Min({Limit, Len(s)}))
  BY DEF Rankings, SetToSeqs, Listed
<1>4. s \in Seq(Listed) /\ Len(s) = n /\ DOMAIN s = 1..n
  BY <1>2, <1>3, SeqDef, LenProperties
<1>5. \A v \in Listed : \E i \in 1..n : s[i] = v
  <2>1. s \in Injection(1..n, Listed)
    BY <1>3, Fun_IsInj
  <2>2. Cardinality(1..n) = IF 1 > n THEN 0 ELSE n - 1 + 1
    BY <1>2, FS_Interval
  <2>3. Cardinality(1..n) = Cardinality(Listed)
    BY <1>2, <2>2
  <2>4. s \in Surjection(1..n, Listed)
    BY <1>1, <2>1, <2>3, FS_Injection
  <2>5. QED
    BY <2>4 DEF Surjection
<1>6. PICK j \in 1..n : s[j] = u
  BY <1>5
<1>7. PICK m \in Nat : m = Min({Limit, Len(s)}) /\ m <= n /\ (m = Limit \/ m = n)
  BY <1>2, <1>4, MinOfTwo, LimitAssumption
<1> HIDE DEF n
<1>8. l \in Seq(Listed) /\ Len(l) = m /\ DOMAIN l = 1..m /\ \A i \in 1..m : l[i] = s[i]
  <2>1. l = SubSeq(s, 1, m)
    BY <1>3, <1>7
  <2>2. \A i \in 1..m : s[i] \in Listed
    BY <1>2, <1>3, <1>7
  <2>3. l = [i \in 1..m |-> s[i]]
    BY <1>2, <1>4, <1>7, <2>1
  <2>4. l \in [1..m -> Listed]
    BY <2>2, <2>3
  <2>5. l \in Seq(Listed)
    <3>1. l \in UNION {[1..i -> Listed] : i \in Nat}
      BY <1>7, <2>4
    <3>2. QED
      BY <3>1, SeqDef
  <2>6. Len(l) = m /\ DOMAIN l = 1..m
    BY <1>7, <2>4, <2>5, LenProperties
  <2>7. QED
    BY <2>3, <2>5, <2>6
<1>9. j > m
  <2>1. ASSUME j \in 1..m PROVE FALSE
    <3>1. j \in DOMAIN l /\ l[j] = u
      BY <1>6, <1>8, <2>1
    <3>2. QED
      BY <3>1 DEF ToSet
  <2>2. QED
    BY <1>2, <1>7, <2>1
<1>10. m = Limit
  BY <1>2, <1>6, <1>7, <1>9
<1>11. ASSUME NEW v \in ToSet(l) PROVE v \in Listed /\ NotAfter(Total(v, "WEEKLY"), Total(u, "WEEKLY"))
  <2>1. PICK i \in 1..m : s[i] = v
    BY <1>8 DEF ToSet
  <2>2. i \in 1..j /\ j \in DOMAIN s /\ i \in 1..n
    BY <1>2, <1>4, <1>6, <1>7, <1>9, <2>1
  <2>3. NotAfter(Total(s[i], "WEEKLY"), Total(s[j], "WEEKLY"))
    BY <1>3, <2>2
  <2>4. QED
    BY <1>3, <1>6, <2>1, <2>2, <2>3
<1>12. QED
  BY <1>8, <1>10, <1>11

\* The ranking of a week has for everyone the amount of the weekly summary, and what
\* devices dated later, and leaves a user out for nobody who processed less, those
\* aside of whom no amount is known.
THEOREM RankingsAgree == Spec => []RankingAgreesWithWeek
<1>1. ASSUME TypeOK PROVE RankingAgreesWithWeek
  <2>1. \A u \in Users :
          /\ OrZero(Total(u, "WEEKLY")) = ThisWeek(u) + Later(u)
          /\ Since(u, "DAILY") \subseteq Since(u, "WEEKLY")
    BY <1>1, WeekAddsUp
  <2>2. ASSUME NEW u \in Users, NEW l \in Rankings("WEEKLY"),
               u \notin ToSet(l), Since(u, "WEEKLY") # {}
        PROVE  /\ Len(l) = Limit
               /\ \A v \in ToSet(l) :
                    \/ Total(v, "WEEKLY") = Null
                    \/ /\ Total(u, "WEEKLY") # Null
                       /\ ThisWeek(u) + Later(u) <= ThisWeek(v) + Later(v)
    <3>1. u \in Listed
      BY <2>2 DEF Listed
    <3>2. /\ Len(l) = Limit
          /\ \A v \in ToSet(l) : v \in Listed /\ NotAfter(Total(v, "WEEKLY"), Total(u, "WEEKLY"))
      BY <1>1, <2>2, <3>1, RankingFacts
    <3>3. \A v \in Users : Total(v, "WEEKLY") # Null =>
            Total(v, "WEEKLY") \in Int /\ Total(v, "WEEKLY") = ThisWeek(v) + Later(v)
      <4>1. SUFFICES ASSUME NEW v \in Users, Total(v, "WEEKLY") # Null
                     PROVE  Total(v, "WEEKLY") \in Int
        BY <2>1 DEF OrZero
      <4>2. Since(v, "WEEKLY") \in SUBSET DOMAIN sessions
        BY <1>1, WeekAddsUp
      <4>3. Total(v, "WEEKLY") = SumAmount(sessions, Since(v, "WEEKLY"))
        BY DEF Total
      <4>4. QED
        BY <1>1, <4>1, <4>2, <4>3, AmountsAddUp
    <3>4. ASSUME NEW v \in ToSet(l), Total(v, "WEEKLY") # Null
          PROVE  /\ Total(u, "WEEKLY") # Null
                 /\ ThisWeek(u) + Later(u) <= ThisWeek(v) + Later(v)
      <4>1. /\ v \in Users /\ Total(u, "WEEKLY") # Null
            /\ Total(v, "WEEKLY") >= Total(u, "WEEKLY")
        BY <3>2, <3>4 DEF NotAfter, Listed
      <4>2. QED
        BY <3>3, <3>4, <4>1
    <3>5. QED
      BY <3>2, <3>4
  <2>3. QED
    BY <2>1, <2>2 DEF RankingAgreesWithWeek
<1>2. QED
  BY <1>1, TypeCorrect, PTL
=============================================================================
