------------------------------- MODULE Intake -------------------------------
(***************************************************************************)
(* What SensorsController and SensorsService do with the requests of one   *)
(* device: measurements, heartbeats, the announcements of food, and the    *)
(* app's reading of the latest values.  The row of the device is cut down  *)
(* to the two columns that measurements are about; DeviceRow has them all. *)
(* PROCESSING_COMPLETED is in Sessions.                                    *)
(*                                                                         *)
(* Requests are numbered in the order of their arrival, and r is the time  *)
(* at which request r arrives.  Humidity is sent in tenths.                *)
(***************************************************************************)
EXTENDS Naturals, Integers, Sequences, SequencesExt

CONSTANTS
  NumRequests,  \* requests, of every kind together
  Payloads(_),  \* what each request may be, members of Payload
  MaxRestarts,  \* bound on process restarts
  Null

ASSUME RequestsAssumption == NumRequests \in Nat
ASSUME RestartsAssumption == MaxRestarts \in Nat
ASSUME NullAssumption == Null \notin Int

Requests == 1 .. NumRequests

Statuses == {"IDLE", "PROCESSING", "COMPLETED", "ERROR"}

\* SensorDataDto, HeartbeatDto, SensorEventDto and the route they are sent to.
Payload ==
  [kind : {"data", "heartbeat", "food", "latest"},
   hasBody : BOOLEAN,            \* a body came at all
   hasValues : BOOLEAN,          \* the body has sensorData
   temperature : Int \cup {Null},
   humidity : Int \cup {Null},   \* tenths
   status : Statuses,
   measured : Nat \cup {Null},   \* timestamp, if the device sends one
   sessionId : {"absent", "number", "text"}]

ASSUME PayloadsAssumption == \A r \in Requests : Payloads(r) \subseteq Payload

VARIABLES
  at,        \* where each request is
  req,       \* its payload
  device,    \* the row of the device
  entity,    \* the device as each handler holds it
  selected,  \* the row that its save compares the entity with
  saves,     \* measurements in the order in which they updated the row
  overtaken, \* whether the row changed between some handler's read and update
  rows,      \* measurements stored in sensor_data
  queued,    \* ... queued for processing
  shown,     \* ... broadcast to the device's room
  verdict,   \* characterState and shouldAlert of each answer
  served,    \* the measurement returned as the latest; 0: none
  known,     \* measurements answered with success before each request arrived
  restarts,
  outcome, answer, sensorLog, apiLog    \* see RequestLog

store == <<device, entity, selected, saves, overtaken>>
stored == <<rows, queued, shown>>
replies == <<verdict, served>>
logs == <<outcome, answer, sensorLog, apiLog>>
vars == <<at, req, store, stored, replies, known, restarts, logs>>

Log == INSTANCE RequestLog

Blank == [exists |-> FALSE, status |-> "IDLE", beat |-> Null]
NoPayload == [kind |-> "none", hasBody |-> FALSE, hasValues |-> FALSE, temperature |-> Null,
  humidity |-> Null, status |-> "IDLE", measured |-> Null, sessionId |-> "absent"]

Init ==
  /\ at = [r \in Requests |-> "idle"]
  /\ req = [r \in Requests |-> NoPayload]
  /\ device = Blank
  /\ entity = [r \in Requests |-> Blank]
  /\ selected = [r \in Requests |-> Blank]
  /\ saves = <<>>
  /\ overtaken = FALSE
  /\ rows = {} /\ queued = {} /\ shown = {}
  /\ verdict = [r \in Requests |-> [state |-> "", alert |-> FALSE]]
  /\ served = [r \in Requests |-> 0]
  /\ known = [r \in Requests |-> {}]
  /\ restarts = 0
  /\ Log!Init

-----------------------------------------------------------------------------
(* The values.                                                             *)

SensorError == -999

\* normalizeSensorValue of a value sent in parts of a unit: what a broken or
\* absent sensor sends is no reading.
Normal(v, parts) == IF v \in {Null, parts * SensorError} THEN Null ELSE v

Temperature(p) == Normal(p.temperature, 1)

\* Math.round of a humidity in tenths.
Humidity(p) == IF Normal(p.humidity, 10) = Null THEN Null ELSE (p.humidity + 5) \div 10

\* The ValidationPipe, which sees the values after their transformation.
Valid(p) ==
  p.kind = "data" =>
    /\ p.hasBody
    /\ p.hasValues =>
         /\ Temperature(p) # Null => Temperature(p) \in -40 .. 125
         /\ Humidity(p) # Null => Humidity(p) \in 0 .. 100

Measured(r) == IF req[r].measured = Null THEN r ELSE req[r].measured

\* Faulty: COMPLETED is left to the default.
DeviceStatusForgetful(s) == IF s \in {"ERROR", "PROCESSING"} THEN s ELSE "IDLE"

\* mapProcessingStatus.
DeviceStatus(s) == IF s \in {"COMPLETED", "ERROR", "PROCESSING"} THEN s ELSE "IDLE"

\* Faulty: what the device does is asked before what its sensors say.
CharacterStateBusy(p) ==
  IF p.status = "PROCESSING" THEN "FOCUSED"
  ELSE IF p.status = "ERROR" \/ Null \in {Temperature(p), Humidity(p)} THEN "CONCERNED"
  ELSE "HAPPY"

\* estimateCharacterState.
CharacterState(p) ==
  IF p.status = "ERROR" \/ Null \in {Temperature(p), Humidity(p)} THEN "CONCERNED"
  ELSE IF p.status = "PROCESSING" THEN "FOCUSED"
  ELSE IF Temperature(p) > 40 THEN "HOT"
  ELSE IF Humidity(p) > 80 THEN "HUMID"
  ELSE "HAPPY"

Outside(v, low, high) == v # Null /\ (v < low \/ v > high)

\* shouldTriggerAlert.
Alert(p) ==
  \/ p.status = "ERROR"
  \/ Outside(Temperature(p), -10, 80)
  \/ Outside(Humidity(p), 20, 90)

-----------------------------------------------------------------------------
(* The handlers.                                                           *)

Watched(r) == req[r].kind = "data"

Goes(r, from, to) ==
  /\ at[r] = from
  /\ at' = [at EXCEPT ![r] = to]

\* A handler that needs its entity no longer drops it.
Drops(rs) ==
  /\ entity' = [r \in Requests |-> IF r \in rs THEN Blank ELSE entity[r]]
  /\ selected' = [r \in Requests |-> IF r \in rs THEN Blank ELSE selected[r]]

\* A body that the pipe refuses is answered by it.
Arrive(r, p) ==
  /\ \A q \in Requests : q < r => at[q] # "idle"
  /\ Goes(r, "idle", IF Valid(p) THEN "find" ELSE "done")
  /\ req' = [req EXCEPT ![r] = p]
  /\ known' = [known EXCEPT ![r] = {q \in Requests : req[q].kind = "data" /\ answer[q] = 201}]
  /\ IF Valid(p) THEN UNCHANGED logs ELSE Log!Raise(r, 400, p.kind = "data")
  /\ UNCHANGED <<store, stored, replies, restarts>>

\* findOrCreateByDeviceId, for every kind of request, and the assignments to
\* the entity, which food and readings do not use.
Assigned(r, e) ==
  CASE req[r].kind = "data" -> [e EXCEPT !.status = DeviceStatus(req[r].status), !.beat = Measured(r)]
    [] req[r].kind = "heartbeat" -> [e EXCEPT !.beat = Measured(r)]
    [] OTHER -> Blank

FindDevice(r) ==
  /\ Goes(r, "find", CASE req[r].kind \in {"data", "heartbeat"} -> "select"
                       [] req[r].kind = "food" -> "queue"
                       [] OTHER -> "read")
  /\ device' = [device EXCEPT !.exists = TRUE]
  /\ entity' = [entity EXCEPT ![r] = Assigned(r, device')]
  /\ UNCHANGED <<req, selected, saves, overtaken, stored, replies, known, restarts, logs>>

\* manager.save: SELECT the row again ...
SaveSelect(r) ==
  /\ Goes(r, "select", "update")
  /\ selected' = [selected EXCEPT ![r] = device]
  /\ UNCHANGED <<req, device, entity, saves, overtaken, stored, replies, known, restarts, logs>>

\* ... and UPDATE the columns in which the entity differs from it.
SaveUpdate(r) ==
  /\ Goes(r, "update", IF req[r].kind = "data" THEN "lookup" ELSE "reply")
  /\ device' = [device EXCEPT
       !.status = IF entity[r].status = selected[r].status THEN @ ELSE entity[r].status,
       !.beat = IF entity[r].beat = selected[r].beat THEN @ ELSE entity[r].beat]
  /\ saves' = IF req[r].kind = "data" THEN Append(saves, r) ELSE saves
  /\ overtaken' = (overtaken \/ \E q \in Requests \ {r} : at[q] \in {"select", "update"})
  /\ Drops({r})
  /\ UNCHANGED <<req, stored, replies, known, restarts, logs>>

\* The session is looked up if there is an id, which PostgreSQL refuses if it
\* is no number, and the row is built, from values that may be missing.
LookUpSession(r) ==
  /\ IF req[r].hasValues /\ req[r].sessionId # "text"
     THEN Goes(r, "lookup", "insert") /\ UNCHANGED logs
     ELSE Goes(r, "lookup", "done") /\ Log!Raise(r, 500, TRUE)
  /\ UNCHANGED <<req, store, stored, replies, known, restarts>>

InsertRow(r) ==
  /\ Goes(r, "insert", "queue")
  /\ rows' = rows \cup {r}
  /\ UNCHANGED <<req, store, queued, shown, replies, known, restarts, logs>>

\* The measurement for sensor-processing, the food for the character.
Enqueue(r) ==
  /\ Goes(r, "queue", "reply")
  /\ queued' = queued \cup {r}
  /\ UNCHANGED <<req, store, rows, shown, replies, known, restarts, logs>>

\* A measurement is broadcast and judged; the handler returns.
Reply(r) ==
  /\ Goes(r, "reply", "done")
  /\ IF Watched(r)
     THEN /\ shown' = shown \cup {r}
          /\ verdict' = [verdict EXCEPT ![r] =
               [state |-> CharacterState(req[r]), alert |-> Alert(req[r])]]
     ELSE UNCHANGED <<shown, verdict>>
  /\ Log!Return(r, 201, Watched(r))
  /\ UNCHANGED <<req, store, rows, queued, served, known, restarts>>

\* Faulty: the row that was inserted last is taken for the latest.
LatestInserted == {r \in rows : \A q \in rows : q <= r}

\* ORDER BY measuredAt DESC.
Latest == {r \in rows : \A q \in rows : Measured(q) <= Measured(r)}

ReadLatest(r) ==
  /\ Goes(r, "read", "done")
  /\ \E q \in IF rows = {} THEN {0} ELSE Latest : served' = [served EXCEPT ![r] = q]
  /\ Log!Return(r, 200, FALSE)
  /\ UNCHANGED <<req, store, stored, verdict, known, restarts>>

\* PostgreSQL or Redis refuses.
Fail(r) ==
  /\ \E step \in {"find", "select", "update", "lookup", "insert", "queue", "read"} : Goes(r, step, "done")
  /\ Log!Raise(r, 500, Watched(r))
  /\ Drops({r})
  /\ UNCHANGED <<req, device, saves, overtaken, stored, replies, known, restarts>>

WriteLog(r) ==
  /\ Log!WriteSensorLog(r, req[r].hasBody) \/ Log!WriteApiLog(r)
  /\ UNCHANGED <<at, req, store, stored, replies, known, restarts>>

\* The process dies; requests in flight, and those whose error was still to be
\* logged, get no answer.
Restart ==
  /\ restarts < MaxRestarts
  /\ restarts' = restarts + 1
  /\ at' = [r \in Requests |->
       IF at[r] # "idle" /\ answer[r] = 0 THEN "cut" ELSE at[r]]
  /\ Log!Restart
  /\ Drops(Requests)
  /\ UNCHANGED <<req, device, saves, overtaken, stored, replies, known>>

Handle(r) ==
  \/ FindDevice(r) \/ SaveSelect(r) \/ SaveUpdate(r) \/ LookUpSession(r)
  \/ InsertRow(r) \/ Enqueue(r) \/ Reply(r) \/ ReadLatest(r)
  \/ WriteLog(r)

Next ==
  \/ \E r \in Requests : (\E p \in Payloads(r) : Arrive(r, p)) \/ Handle(r) \/ Fail(r)
  \/ Restart

\* The event loop runs some handler as long as one can go on, and every
\* statement ends.
Fairness == WF_vars(\E r \in Requests : Handle(r))

Spec == Init /\ [][Next]_vars /\ Fairness

-----------------------------------------------------------------------------
TypeOK ==
  /\ at \in [Requests -> {"idle", "find", "select", "update", "lookup", "insert", "queue",
                          "reply", "read", "done", "cut"}]
  /\ \A r \in Requests : req[r] \in Payloads(r) \cup {NoPayload}
  /\ rows \cup queued \cup shown \subseteq Requests
  /\ sensorLog \in [Requests -> {"none", "due", "lost"} \cup Log!SensorStatuses]
  /\ apiLog \in [Requests -> {"none", "due", "lost"} \cup Log!ApiStatuses]

\* What the two logs and the answer say of a request is what became of it: a
\* success was stored, queued and broadcast; a refused body changed nothing; an
\* error was not broadcast, and was answered only when both rows had been tried
\* (RequestLoggingInterceptor around processSensorData).
LogTellsTheTruth ==
  \A r \in Requests :
    /\ Watched(r) /\ (answer[r] = 201 \/ "SUCCESS" \in {sensorLog[r], apiLog[r]})
         => r \in rows \cap queued \cap shown
    /\ "VALIDATION_FAILED" = sensorLog[r] \/ "VALIDATION_ERROR" = apiLog[r]
         => r \notin rows \cup Range(saves)
    /\ "ERROR" = sensorLog[r] \/ "SERVER_ERROR" = apiLog[r] => r \notin shown
    /\ answer[r] >= 400 => "due" \notin {sensorLog[r], apiLog[r]}
    /\ sensorLog[r] \in Log!SensorStatuses => req[r].hasBody

\* Once no measurement is under way, the device shows the status of the latest
\* measurement that getLatestSensorData returns, unless a save was overtaken, a
\* measurement arrived after a later one, or one was lost behind its save.
StatusFollowsReports ==
  \A r \in Latest :
    /\ at[r] \in {"queue", "reply", "done", "cut"}
    /\ ~overtaken
    /\ Range(saves) = rows
    /\ \A i, j \in DOMAIN saves : i < j => Measured(saves[i]) < Measured(saves[j])
    => device.status = req[r].status

\* A reading that starts after a measurement was answered returns that one or
\* one measured no earlier, whatever arrived late or failed in between.
LatestIsNewest ==
  \A r \in Requests : req[r].kind = "latest" /\ answer[r] = 200 =>
    \A q \in known[r] : served[r] # 0 /\ Measured(served[r]) >= Measured(q)

\* An alarm has a cause that the device really measured, and a broken or absent
\* sensor worries the character instead (sanitizeSensorValues before the rules).
\* A humidity up to half a percent outside 0 .. 100 is rounded into it.
AlertFromReadings ==
  \A r \in shown :
    /\ verdict[r].alert =>
         \/ req[r].status = "ERROR"
         \/ req[r].temperature \in Int /\ req[r].temperature \in (-40 .. -11) \cup (81 .. 125)
         \/ req[r].humidity \in Int /\ req[r].humidity \in (-5 .. 194) \cup (905 .. 1004)
    /\ req[r].temperature \in {Null, SensorError} \/ req[r].humidity \in {Null, 10 * SensorError}
         => verdict[r].state = "CONCERNED"

\* Again and again every request that arrived has been answered, or cut off by a
\* restart, and its rows in the logs are written or given up.
Settles ==
  []<>(\A r \in Requests : at[r] # "idle" =>
         /\ answer[r] # 0 \/ at[r] = "cut"
         /\ "due" \notin {sensorLog[r], apiLog[r]})
=============================================================================
