------------------------------ MODULE RateLimit ------------------------------
(***************************************************************************)
(* The two rate limiters in front of the API.  main.ts mounts              *)
(* sensorDataRateLimiter on /api/v1/sensors and generalRateLimiter on      *)
(* everything, both before Nest installs its body parser.                  *)
(*                                                                         *)
(* express-rate-limit keeps, in memory, a hit count and a reset time per   *)
(* key: the first hit opens a window, every hit counts, refused ones too,  *)
(* and a hit is refused when the count exceeds the maximum.                *)
(***************************************************************************)
EXTENDS Naturals, FiniteSets

CONSTANTS
  Devices,     \* what a request says of its device, in its body
  Ips,         \* the addresses requests come from
  SensorMax,   \* max of sensorDataRateLimiter, 300 in the code
  GeneralMax,  \* max of generalRateLimiter, 100 in the code
  Window       \* windowMs, in ticks

ASSUME BoundsAssumption ==
  /\ SensorMax \in Nat \ {0}
  /\ GeneralMax \in Nat \ {0}
  /\ Window \in Nat \ {0}

Limiters == {"sensors", "general"}
Limit(l) == IF l = "sensors" THEN SensorMax ELSE GeneralMax
Keys == Limiters \X Ips

\* What the limiters tell of a route: its method, and /sensors in its path.
Routes == {"POST sensors", "GET sensors", "other"}
Requests == [route: Routes, dev: Devices, ip: Ips]

VARIABLES
  hits,    \* totalHits of each key in its window, counted up to its limit + 1
  left,    \* ticks until the window of each key resets; 0: it has
  recent,  \* history: the hits of each key let through within the last windowMs
  last     \* the last request and what became of it

vars == <<hits, left, recent, last>>

NoRequest == [route |-> "none", refused |-> FALSE]

Init ==
  /\ hits = [k \in Keys |-> 0]
  /\ left = [k \in Keys |-> 0]
  /\ recent = [k \in Keys |-> {}]
  /\ last = NoRequest

-----------------------------------------------------------------------------
\* The limiter that counts a request, if any: the sensor limiter skips what
\* is not a POST, the general one skips paths with /sensors.
CountedBy(q) ==
  CASE q.route = "POST sensors" -> {"sensors"}
    [] q.route = "GET sensors"  -> {}
    [] q.route = "other"        -> {"general"}

\* The key is the address: the sensor limiter would take deviceId from the
\* body, but no body parser has run yet.
KeyOf(l, q) == <<l, q.ip>>

\* The count of a hit, in a new window if the old one is over; counting stops
\* at the first hit too many, which is all that is ever compared.
HitCount(k) ==
  IF left[k] = 0 THEN 1
  ELSE IF hits[k] > Limit(k[1]) THEN hits[k] ELSE hits[k] + 1

\* Faulty: every hit starts the window anew.
WindowLeftAnew(k) == Window

WindowLeft(k) == IF left[k] = 0 THEN Window ELSE left[k]

\* Faulty: one request too many.
ExceedsLate(k) == HitCount(k) > Limit(k[1]) + 1

Exceeds(k) == HitCount(k) > Limit(k[1])

Uncounted(q) ==
  /\ CountedBy(q) = {}
  /\ last' = [route |-> q.route, refused |-> FALSE]
  /\ UNCHANGED <<hits, left, recent>>

Counted(q) ==
  \E l \in CountedBy(q) :
    LET k == KeyOf(l, q) IN
    /\ hits' = [hits EXCEPT ![k] = HitCount(k)]
    /\ left' = [left EXCEPT ![k] = WindowLeft(k)]
    /\ \/ /\ Exceeds(k)
          /\ last' = [route |-> q.route, refused |-> TRUE]
          /\ UNCHANGED recent
       \/ /\ ~Exceeds(k)
          /\ last' = [route |-> q.route, refused |-> FALSE]
          \* A window lasts a tick at least, so no two hits of a key are alike.
          /\ recent' = [recent EXCEPT ![k] =
               @ \cup {[age |-> 0, number |-> HitCount(k), dev |-> q.dev]}]

\* A tick of time.  A window that is over keeps no count.
Aged(S) == {[h EXCEPT !.age = @ + 1] : h \in {g \in S : g.age + 1 < Window}}

Tick ==
  /\ left' = [k \in Keys |-> IF left[k] = 0 THEN 0 ELSE left[k] - 1]
  /\ hits' = [k \in Keys |-> IF left[k] <= 1 THEN 0 ELSE hits[k]]
  /\ recent' = [k \in Keys |-> Aged(recent[k])]
  /\ last' = NoRequest

Next == Tick \/ \E q \in Requests : Uncounted(q) \/ Counted(q)

Spec == Init /\ [][Next]_vars

-----------------------------------------------------------------------------
(* Properties.                                                             *)

\* A window opens at its first request, so two windows may meet in one span of
\* windowMs: over any such span a key gets at most twice its limit.
SlidingBudget == \A k \in Keys : Cardinality(recent[k]) <= 2 * Limit(k[1])

\* A request is refused only if its key was let through as often as the limit
\* within the last windowMs: being refused does not prolong the refusal.
RefusedOnlyWhenSpent ==
  [][\A q \in Requests, l \in Limiters :
       Counted(q) /\ l \in CountedBy(q) /\ last'.refused =>
         Cardinality(recent[KeyOf(l, q)]) >= Limit(l)]_vars

-----------------------------------------------------------------------------
(* What the README says of the limits.                                     *)

Spent(d) ==
  UNION {{<<ip, h>> : h \in {g \in recent[<<"sensors", ip>>] : g.dev = d}} : ip \in Ips}

\* A sensor request is refused only if its own device has used up the limit.
LimitPerDevice ==
  [][\A q \in Requests :
       q.route = "POST sensors" /\ Counted(q) /\ last'.refused =>
         Cardinality(Spent(q.dev)) >= SensorMax]_vars
=============================================================================
