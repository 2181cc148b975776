------------------------------- MODULE Reports -------------------------------
(***************************************************************************)
(* What users are told about their processing sessions: the eco score of   *)
(* the latest session (EcoScoreService), the weekly summary                *)
(* (TimeseriesService, ReportsController) and the ranking (ReportsService).*)
(* Nothing of it is stored; each answer is computed from the rows of       *)
(* processing_sessions, which grow, from the owners of the devices, and    *)
(* from the day.                                                           *)
(*                                                                         *)
(* A time is its day: every period begins and ends at midnight.  Day 0 is  *)
(* a Sunday.  Arithmetic is exact, where the code uses floating point.     *)
(***************************************************************************)
EXTENDS Integers, FiniteSets, FiniteSetsExt, SequencesExt

CONSTANTS
  Devices, Users,
  Amounts,       \* values of processedAmount, which may be negative
  Formulas,      \* what the active life_score_formula may give as weights
  DayOffsets,    \* completion days that devices send, from today
  FirstDay, LastDay,
  MonthStarts,   \* the days on which months begin
  Limit,         \* entries of a ranking
  MaxSessions,   \* bound on the sessions recorded
  None,          \* no owner
  Null           \* no amount, or no weight

Shares == {"processedAmount", "efficiency", "co2Savings"}

ASSUME AmountsAssumption == Amounts \subseteq Int /\ Null \notin Int
ASSUME FormulasAssumption == Formulas \subseteq [Shares -> Int \cup {Null}]
ASSUME DaysAssumption ==
  /\ FirstDay \in Nat /\ LastDay \in Nat /\ FirstDay <= LastDay /\ DayOffsets \subseteq Int
  /\ MonthStarts \subseteq Int /\ \E m \in MonthStarts : m <= FirstDay
ASSUME LimitAssumption == Limit \in Nat \ {0} /\ MaxSessions \in Nat
ASSUME NoneAssumption == None \notin Users

VARIABLES
  formula,    \* the weights of the active formula; nothing in the code writes it
  owner,      \* the user of each device, or None
  sessions,   \* the completed sessions: device, amount and completedAt
  now         \* today

vars == <<formula, owner, sessions, now>>

-----------------------------------------------------------------------------
(* The eco score: three shares of a target, each at most 1, weighted.  No  *)
(* share and no weight has a least value: the body of an event may give a  *)
(* negative amount, and of the weights only the sum is looked at.          *)

AmountOf(s) == IF s.amount = Null THEN 0 ELSE s.amount

\* Faulty: the share is not capped.
ProcessedShareUncapped(a) == a

\* Fifths of the target of 5.
ProcessedShare(a) == Min({a, 5})

\* Tenths of the target of 5: half the amount, in the unit of the target.
Co2Share(a) == Min({a, 10})

\* efficiencyScore is written by no code: Number(undefined ?? 0).
EfficiencyShare == 0

\* Hundredths.
DefaultWeights == [processedAmount |-> 40, efficiency |-> 35, co2Savings |-> 25]

WeightSum(w) == w["processedAmount"] + w["efficiency"] + w["co2Savings"]

\* getActiveWeights: a weight that is not given is the default one, and weights
\* that weigh nothing together, or less, give way to the default ones.  So does
\* a weight that is no number, which is a formula without weights here.
Weights ==
  LET given == [k \in Shares |-> IF formula[k] = Null THEN DefaultWeights[k] ELSE formula[k]]
  IN  IF WeightSum(given) > 0 THEN given ELSE DefaultWeights

\* Math.round of the percentage.
EcoScore(s) ==
  LET w == Weights
      total == WeightSum(w)
      percent == 20 * ProcessedShare(AmountOf(s)) * w["processedAmount"]
                 + 100 * EfficiencyShare * w["efficiency"]
                 + 10 * Co2Share(AmountOf(s)) * w["co2Savings"]
  IN  (2 * percent + total) \div (2 * total)

-----------------------------------------------------------------------------
(* Queries over the sessions.                                              *)

\* The sessions that count for a user: those of the devices he owns now.
SessionsOf(u) == {i \in DOMAIN sessions : owner[sessions[i].device] = u}

\* Faulty: the session that arrived last, not the one completed last.
LatestArrived(u) ==
  LET I == SessionsOf(u) IN {i \in I : \A j \in I : j <= i}

\* ORDER BY completedAt DESC, the first row.
Latest(u) ==
  LET I == SessionsOf(u)
  IN  {i \in I : \A j \in I : sessions[j].day <= sessions[i].day}

\* The scores getEcoScore may answer; sessions of one instant tie.
EcoScores(u) == IF SessionsOf(u) = {} THEN {0} ELSE {EcoScore(sessions[i]) : i \in Latest(u)}

\* SQL's SUM: rows without a value are passed over, and no value sums to NULL.
SumAmount(s, I) ==
  LET K == {i \in I : s[i].amount # Null}
  IN  IF K = {} THEN Null ELSE MapThenSumSet(LAMBDA i : s[i].amount, K)

OrZero(x) == IF x = Null THEN 0 ELSE x

DayOfWeek(d) == d % 7

\* The controller's Monday: getDate() - day + (day === 0 ? -6 : 1).
WeekStart(d) == d - DayOfWeek(d) + IF DayOfWeek(d) = 0 THEN -6 ELSE 1

WeekEnd(d) == WeekStart(d) + 6

\* TimeseriesService.getWeeklySummary: completedAt BETWEEN from AND to.
Processed(u, from, to) ==
  OrZero(SumAmount(sessions, {i \in SessionsOf(u) : sessions[i].day \in from..to}))

ThisWeek(u) == Processed(u, WeekStart(now), WeekEnd(now))

\* Faulty: the previous week ends on this week's Monday.
LastWeekLong(u) == Processed(u, WeekStart(now) - 7, WeekEnd(now) - 6)

LastWeek(u) == Processed(u, WeekStart(now) - 7, WeekEnd(now) - 7)

\* Faulty: on a Sunday, the week is the one that begins tomorrow.
PeriodStartSunday(period) ==
  CASE period = "DAILY"   -> now
    [] period = "WEEKLY"  -> now - DayOfWeek(now) + 1
    [] period = "MONTHLY" -> Max({m \in MonthStarts : m <= now})

\* getRanking computes the Monday once more.
PeriodStart(period) ==
  CASE period = "DAILY"   -> now
    [] period = "WEEKLY"  -> now - DayOfWeek(now) + (IF DayOfWeek(now) = 0 THEN -6 ELSE 1)
    [] period = "MONTHLY" -> Max({m \in MonthStarts : m <= now})

\* A ranking has a beginning and no end: completedAt >= start.
Since(u, period) == {i \in SessionsOf(u) : sessions[i].day >= PeriodStart(period)}

Total(u, period) == SumAmount(sessions, Since(u, period))

\* PostgreSQL's ORDER BY ... DESC puts NULL before every number.
NotAfter(x, y) == x = Null \/ (y # Null /\ x >= y)

\* getRanking: the lists the database may answer, users with equal amounts in
\* any order.
Rankings(period) ==
  LET listed == {u \in Users : Since(u, period) # {}}
      ordered == {l \in SetToSeqs(listed) : \A j \in DOMAIN l : \A i \in 1..j :
                    NotAfter(Total(l[i], period), Total(l[j], period))}
  IN  {SubSeq(l, 1, Min({Limit, Len(l)})) : l \in ordered}

-----------------------------------------------------------------------------
Init ==
  /\ formula \in Formulas
  /\ owner = [d \in Devices |-> None]
  /\ sessions = <<>>
  /\ now = FirstDay

\* Faulty: the amount is the weight gained, not the weight lost.
RecordSessionGained(d, a, t) ==
  /\ Len(sessions) < MaxSessions
  /\ sessions' = Append(sessions,
       [device |-> d, amount |-> IF a = Null THEN Null ELSE 0 - a, day |-> t])
  /\ UNCHANGED <<formula, owner, now>>

\* handleProcessingCompleted; Sessions has its steps.  The time is the device's
\* when it sends one, and the amount may be missing.
RecordSession(d, a, t) ==
  /\ Len(sessions) < MaxSessions
  /\ sessions' = Append(sessions, [device |-> d, amount |-> a, day |-> t])
  /\ UNCHANGED <<formula, owner, now>>

\* What the saves of the device row do to its owner; DeviceRow has them, and
\* that one who is there is replaced or lost only when they overlap.
ChangeOwner(d, u) ==
  /\ owner[d] # u
  /\ owner' = [owner EXCEPT ![d] = u]
  /\ UNCHANGED <<formula, sessions, now>>

NextDay ==
  /\ now < LastDay
  /\ now' = now + 1
  /\ UNCHANGED <<formula, owner, sessions>>

Next ==
  \/ \E d \in Devices, a \in Amounts \cup {Null}, o \in DayOffsets : RecordSession(d, a, now + o)
  \/ \E d \in Devices, u \in Users \cup {None} : ChangeOwner(d, u)
  \/ NextDay

Spec == Init /\ [][Next]_vars

-----------------------------------------------------------------------------
TypeOK ==
  /\ formula \in Formulas
  /\ owner \in [Devices -> Users \cup {None}]
  /\ sessions \in Seq([device : Devices, amount : Amounts \cup {Null}, day : Int])
  /\ now \in FirstDay..LastDay

\* Rounding and caps included: a score is at most 100 if no weight is negative,
\* and a percentage if the amount is not negative either; who processed more
\* never scores less if neither weight that counts the amount is negative.  The
\* code sees to none of these conditions.
ScoreSound ==
  \A i, j \in DOMAIN sessions :
    /\ (\A k \in Shares : Weights[k] >= 0) =>
         /\ EcoScore(sessions[i]) <= 100
         /\ AmountOf(sessions[i]) >= 0 => EcoScore(sessions[i]) >= 0
    /\ /\ Weights["processedAmount"] >= 0 /\ Weights["co2Savings"] >= 0
       /\ AmountOf(sessions[i]) <= AmountOf(sessions[j])
       => EcoScore(sessions[i]) <= EcoScore(sessions[j])

\* What devices dated after the week.
Later(u) == OrZero(SumAmount(sessions, {i \in SessionsOf(u) : sessions[i].day > WeekEnd(now)}))

\* The ranking and the weekly summary, which compute the week separately, agree:
\* a user's weekly total is the summary's amount and what devices dated later,
\* and the day's sessions are among the week's, on Sundays too.  Whatever order
\* the database picks among equals, a user is left out of a full list for nobody
\* who processed less, and one of whom no amount is known for nobody of whom one
\* is.  The exception is the database's: users without a known amount come first.
RankingAgreesWithWeek ==
  \A u \in Users :
    /\ OrZero(Total(u, "WEEKLY")) = ThisWeek(u) + Later(u)
    /\ Since(u, "DAILY") \subseteq Since(u, "WEEKLY")
    /\ \A l \in Rankings("WEEKLY") : u \notin ToSet(l) /\ Since(u, "WEEKLY") # {} =>
         /\ Len(l) = Limit
         /\ \A v \in ToSet(l) :
              \/ Total(v, "WEEKLY") = Null
              \/ /\ Total(u, "WEEKLY") # Null
                 /\ ThisWeek(u) + Later(u) <= ThisWeek(v) + Later(v)

\* When a week ends, its figures become those of the previous week: no session
\* falls between the two windows or into both.
WeekRollsOver ==
  [][WeekStart(now') # WeekStart(now) => \A u \in Users : LastWeek(u)' = ThisWeek(u)]_vars

\* A report that arrives late does not hide a newer one: only a session at least
\* as recent as all the user's others changes the score he is shown.
LateReportHidesNothing ==
  [][\A u \in Users : EcoScores(u)' # EcoScores(u) =>
       \/ owner' # owner
       \/ /\ Len(sessions') > Len(sessions)
          /\ \A i \in SessionsOf(u) : sessions[i].day <= Last(sessions').day]_vars

\* What the code says of the score: the target is 5 kg ("assume 5kg/day target").
\* Devices send grams, so no session below 5000 should count as having met it.
TargetIsFiveKilos ==
  \A i \in DOMAIN sessions :
    ProcessedShare(AmountOf(sessions[i])) = 5 => AmountOf(sessions[i]) >= 5000
=============================================================================
