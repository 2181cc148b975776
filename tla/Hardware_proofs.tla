--------------------------- MODULE Hardware_proofs ---------------------------
(***************************************************************************)
(* What holds of the requests that devices send, for every number of them, *)
(* whatever they may be, and any number of restarts.                       *)
(*                                                                         *)
(* Intake: the rows of the two logs and the answers tell what became of a  *)
(* request, alarms have a cause, a reading is never older than what was    *)
(* answered before it, and the device shows the status that was reported   *)
(* last.  The invariant follows a request along its handler: what it must  *)
(* be to have come to a step (Route), what it has left behind by then      *)
(* (Stored), what it can have ended with (Ended) and what is written of    *)
(* that (Logged).  It is inductive only together with the types.           *)
(*                                                                         *)
(* Snapshots: a picture that was stored is served, and to nobody else's    *)
(* device.  The invariant relates the files, the rows and the requests:    *)
(* whose picture a file holds (FilesTrue), that a row leads to such a file *)
(* (RowsTrue), and what a request has found so far (Handled).              *)
(***************************************************************************)
EXTENDS MCHardware, SequenceTheorems, FiniteSetTheorems, TLAPS


Running == {"find", "select", "update", "lookup", "insert", "queue", "reply", "read"}

Row == [exists : BOOLEAN, status : Statuses, beat : Nat \cup {Null}]

Codes == {0, 200, 201, 400, 500}

Moods == {"", "CONCERNED", "FOCUSED", "HOT", "HUMID", "HAPPY"}

\* The values of the variables.
Types ==
  /\ at \in [Requests -> Running \cup {"idle", "done", "cut"}]
  /\ req \in [Requests -> Payload \cup {NoPayload}]
  /\ device \in Row
  /\ entity \in [Requests -> Row]
  /\ selected \in [Requests -> Row]
  /\ saves \in Seq(Requests)
  /\ overtaken \in BOOLEAN
  /\ rows \subseteq Requests /\ queued \subseteq Requests /\ shown \subseteq Requests
  /\ verdict \in [Requests -> [state : Moods, alert : BOOLEAN]]
  /\ served \in [Requests -> Nat]
  /\ known \in [Requests -> SUBSET Requests]
  /\ outcome \in [Requests -> Codes]
  /\ answer \in [Requests -> Codes]
  /\ sensorLog \in [Requests -> {"none", "due", "lost"} \cup Log!SensorStatuses]
  /\ apiLog \in [Requests -> {"none", "due", "lost"} \cup Log!ApiStatuses]

\* Where a request can be, from what it asks for.
Route ==
  \A r \in Requests :
    /\ IF at[r] = "idle" THEN req[r] = NoPayload ELSE req[r] \in Payloads(r)
    /\ at[r] \in Running => Valid(req[r])
    /\ at[r] \in {"select", "update"} => req[r].kind \in {"data", "heartbeat"}
    /\ at[r] \in {"lookup", "insert"} => Watched(r)
    /\ at[r] = "insert" => req[r].hasValues
    /\ at[r] = "queue" => req[r].kind \in {"data", "food"}
    /\ at[r] = "reply" => req[r].kind \in {"data", "heartbeat", "food"}
    /\ at[r] = "read" => req[r].kind = "latest"

\* What it has left behind, from where it is.
Stored ==
  \A r \in Requests :
    /\ at[r] \in {"idle", "find", "select", "update"} =>
         \A i \in DOMAIN saves : saves[i] # r
    /\ at[r] \in {"idle", "find", "select", "update", "lookup", "insert"} =>
         r \notin rows \cup queued \cup shown
    /\ at[r] \in {"queue", "reply"} => r \notin shown
    /\ at[r] \in {"queue", "reply"} /\ Watched(r) => r \in rows
    /\ at[r] = "reply" => r \in queued \/ ~Watched(r)
    /\ r \in rows => Watched(r) /\ req[r].hasValues /\ Valid(req[r])
    /\ r \in shown => r \in rows \cap queued

\* How it can have ended.
Ended ==
  \A r \in Requests :
    /\ outcome[r] # 0 => at[r] \in {"done", "cut"}
    /\ outcome[r] = 200 => ~Watched(r)
    /\ outcome[r] = 201 /\ Watched(r) => r \in shown
    /\ outcome[r] = 400 => r \notin rows /\ \A i \in DOMAIN saves : saves[i] # r
    /\ outcome[r] = 500 => r \notin shown

\* What is written of that.
Logged ==
  \A r \in Requests :
    /\ answer[r] \in {0, outcome[r]}
    /\ outcome[r] \in {200, 201} => answer[r] = outcome[r]
    /\ outcome[r] = 0 => sensorLog[r] = "none" /\ apiLog[r] = "none"
    /\ \/ sensorLog[r] \in {"none", "due", "lost"}
       \/ sensorLog[r] = Log!SensorStatusOf(outcome[r]) /\ req[r].hasBody
    /\ apiLog[r] \in {"none", "due", "lost", Log!ApiStatusOf(outcome[r])}
    /\ answer[r] >= 400 => sensorLog[r] # "due" /\ apiLog[r] # "due"
    /\ sensorLog[r] # "none" => Watched(r)

\* What was broadcast has been judged.
Judged ==
  \A r \in shown :
    verdict[r] = [state |-> CharacterState(req[r]), alert |-> Alert(req[r])]

\* What a reading returned is stored, and as new as what was known.
Newest ==
  \A r \in Requests :
    /\ known[r] \subseteq rows
    /\ req[r].kind = "latest" /\ answer[r] = 200 =>
         \A q \in known[r] : served[r] \in rows /\ Measured(served[r]) >= Measured(q)

\* While no save is overtaken, the row has the status that was saved last, and
\* the handlers hold it as it is.
InStep ==
  ~overtaken =>
    /\ device.status =
         IF saves = <<>> THEN "IDLE" ELSE DeviceStatus(req[saves[Len(saves)]].status)
    /\ \A r \in Requests : at[r] \in {"select", "update"} =>
         entity[r].status = IF Watched(r) THEN DeviceStatus(req[r].status) ELSE device.status
    /\ \A r \in Requests : at[r] = "update" => selected[r].status = device.status

IndInv == Types /\ Route /\ Stored /\ Ended /\ Logged /\ Judged /\ Newest /\ InStep

-----------------------------------------------------------------------------
(* What the requests are.                                                  *)

\* A request that may arrive is a payload, and none is the mark of one that
\* has not.
LEMMA PayloadFacts ==
  /\ NoPayload.kind = "none" /\ NoPayload.hasBody = FALSE
  /\ \A p \in Payload :
       /\ p.kind \in {"data", "heartbeat", "food", "latest"}
       /\ p # NoPayload
       /\ p.hasBody \in BOOLEAN /\ p.hasValues \in BOOLEAN
       /\ p.status \in Statuses
       /\ p.measured \in Nat \cup {Null}
  /\ \A r \in Requests : Payloads(r) \subseteq Payload
BY PayloadsAssumption DEF Payload, NoPayload

\* A status that the device may report is the one that is stored.
LEMMA StatusFacts ==
  \A s \in Statuses : DeviceStatus(s) = s
BY DEF Statuses, DeviceStatus

\* The empty sequence has no places.
LEMMA NoSaves == DOMAIN <<>> = {}
OBVIOUS

\* A measurement that is appended is the last.
LEMMA AppendFacts ==
  ASSUME NEW s \in Seq(Requests), NEW r \in Requests
  PROVE  /\ Append(s, r) \in Seq(Requests) /\ Append(s, r) # <<>>
         /\ Append(s, r)[Len(Append(s, r))] = r
         /\ \A i \in DOMAIN Append(s, r) :
              Append(s, r)[i] = r \/ (i \in DOMAIN s /\ Append(s, r)[i] = s[i])
<1> DEFINE t == Append(s, r)
<1>1. Len(<<>>) = 0
  OBVIOUS
<1>2. /\ t \in Seq(Requests) /\ Len(t) = Len(s) + 1 /\ t[Len(s) + 1] = r
      /\ \A i \in 1..Len(s) : t[i] = s[i]
      /\ DOMAIN s = 1..Len(s) /\ DOMAIN t = 1..(Len(s) + 1) /\ Len(s) \in Nat
  BY AppendProperties, LenProperties
<1> HIDE DEF t
<1>3. t # <<>>
  BY <1>1, <1>2
<1>4. t[Len(t)] = r /\ \A i \in DOMAIN t : t[i] = r \/ (i \in DOMAIN s /\ t[i] = s[i])
  BY <1>2
<1>5. QED
  BY <1>2, <1>3, <1>4 DEF t

-----------------------------------------------------------------------------
(* The steps.                                                              *)

\* A request under way has neither ended nor been answered.
LEMMA Underway ==
  ASSUME IndInv, NEW r \in Requests, at[r] \in Running \cup {"idle"}
  PROVE  /\ outcome[r] = 0 /\ answer[r] = 0
         /\ sensorLog[r] = "none" /\ apiLog[r] = "none"
<1>1. outcome[r] = 0
  BY DEF IndInv, Ended, Running
<1>2. QED
  BY <1>1 DEF IndInv, Logged

\* Its end is one of the codes, and makes rows due.
LEMMA EndTyped ==
  ASSUME Types, NEW r \in Requests, NEW status \in Codes, NEW watched \in BOOLEAN,
         Log!End(r, status, watched)
  PROVE  /\ outcome' \in [Requests -> Codes]
         /\ sensorLog' \in [Requests -> {"none", "due", "lost"} \cup Log!SensorStatuses]
         /\ apiLog' \in [Requests -> {"none", "due", "lost"} \cup Log!ApiStatuses]
BY DEF Types, Log!End

\* Finding the device changes neither its status nor what is stored.
LEMMA FindDeviceKeeps ==
  ASSUME IndInv, NEW r \in Requests, FindDevice(r)
  PROVE  IndInv'
<1> USE DEF IndInv, FindDevice, Goes, store, stored, replies, logs
<1>1. Types'
  <2>1. device' \in Row
    BY DEF Types, Row
  <2>2. req[r] \in Payload
    BY PayloadFacts DEF Types, Route
  <2>3. Measured(r) \in Nat
    BY <2>2, PayloadFacts DEF Measured, Requests
  <2>4. DeviceStatus(req[r].status) \in Statuses
    BY <2>2, PayloadFacts DEF DeviceStatus, Statuses
  <2>5. Assigned(r, device') \in Row
    BY <2>1, <2>3, <2>4 DEF Assigned, Row, Blank, Statuses
  <2>6. at' \in [Requests -> Running \cup {"idle", "done", "cut"}]
    BY DEF Types, Running
  <2>7. entity' \in [Requests -> Row]
    BY <2>5 DEF Types
  <2>8. UNCHANGED <<req, selected, saves, overtaken, rows, queued, shown, verdict, served,
                    known, outcome, answer, sensorLog, apiLog>>
    OBVIOUS
  <2> HIDE DEF FindDevice
  <2>9. QED
    BY <2>1, <2>6, <2>7, <2>8 DEF Types
<1>2. Route'
  BY PayloadFacts DEF Types, Route, Running, Watched
<1>3. Stored'
  BY DEF Types, Stored, Route, Running, Watched
<1>4. Ended'
  BY DEF Types, Ended, Running, Watched
<1>5. Logged'
  BY DEF Types, Logged, Watched
<1>6. Judged'
  BY DEF Judged
<1>7. Newest'
  BY DEF Newest, Measured
<1>8. InStep'
  BY PayloadFacts DEF Types, Row, InStep, Route, Running, Assigned, Watched
<1>9. QED
  BY <1>1, <1>2, <1>3, <1>4, <1>5, <1>6, <1>7, <1>8

\* A request that arrives has left nothing behind, and knows what was answered,
\* and so stored, before.
LEMMA ArriveKeeps ==
  ASSUME IndInv, NEW r \in Requests, NEW p \in Payloads(r), Arrive(r, p)
  PROVE  IndInv'
<1> USE DEF IndInv, Arrive, Goes, store, stored, replies, logs
<1>1. p \in Payload /\ at[r] = "idle" /\ req[r] = NoPayload /\ ~ Watched(r)
  <2>1. p \in Payload
    BY PayloadFacts
  <2>2. at[r] = "idle"
    OBVIOUS
  <2>3. req[r] = NoPayload
    BY <2>2 DEF Route
  <2>4. ~ Watched(r)
    BY <2>3, PayloadFacts DEF Watched
  <2>5. QED
    BY <2>1, <2>2, <2>3, <2>4
<1>2. outcome[r] = 0 /\ answer[r] = 0
  BY <1>1, Underway
<1>3. Types'
  <2>1. known' \in [Requests -> SUBSET Requests]
    BY DEF Types
  <2>2. /\ outcome' \in [Requests -> Codes]
        /\ sensorLog' \in [Requests -> {"none", "due", "lost"} \cup Log!SensorStatuses]
        /\ apiLog' \in [Requests -> {"none", "due", "lost"} \cup Log!ApiStatuses]
        /\ answer' = answer
    <3>1. CASE Valid(p)
      BY <3>1 DEF Types
    <3>2. CASE ~ Valid(p)
      <4>1. Log!Raise(r, 400, p.kind = "data")
        BY <3>2
      <4> HIDE DEF Arrive
      <4>2. QED
        BY <4>1 DEF Types, Codes, Log!Raise, Log!End
    <3>3. QED
      BY <3>1, <3>2
  <2>3. QED
    BY <1>1, <2>1, <2>2 DEF Types, Running
<1>4. Route'
  BY <1>1, PayloadFacts DEF Types, Route, Running, Watched
<1>5. Stored'
  BY <1>1 DEF Types, Stored, Running, Watched
<1>6. Ended'
  BY <1>1, <1>2 DEF Types, Ended, Stored, Running, Watched, Log!Raise, Log!End
<1>7. Logged'
  BY <1>1, <1>2 DEF Types, Logged, Watched, Log!Raise, Log!End
<1>8. Judged'
  BY <1>1 DEF Types, Judged, Stored
<1>9. Newest'
  <2>1. \A q \in Requests : req[q].kind = "data" /\ answer[q] = 201 => q \in rows
    BY DEF Types, Ended, Stored, Logged, Watched
  <2>2. \A q \in Requests : known'[q] \subseteq rows
    BY <2>1 DEF Types, Newest
  <2>3. answer' = answer
    BY DEF Log!Raise
  <2>4. \A q \in rows : q \in Requests /\ q # r
    BY <1>1 DEF Types, Stored
  <2>5. \A q \in rows : Measured(q)' = Measured(q)
    BY <2>4 DEF Types, Measured
  <2>6. QED
    BY <1>2, <2>2, <2>3, <2>4, <2>5 DEF Types, Newest
<1>10. InStep'
  <2>1. DeviceStatus(req'[saves[Len(saves)]].status) = DeviceStatus(req[saves[Len(saves)]].status)
        \/ saves = <<>>
    <3>1. CASE saves # <<>>
      <4>1. Len(saves) \in DOMAIN saves /\ saves[Len(saves)] \in Requests
        BY <3>1, EmptySeq, LenProperties DEF Types
      <4>2. saves[Len(saves)] # r
        BY <1>1, <4>1 DEF Stored
      <4>3. QED
        BY <4>1, <4>2 DEF Types
    <3>2. QED
      BY <3>1
  <2>2. QED
    BY <1>1, <2>1 DEF Types, InStep, Watched
<1>11. QED
  BY <1>3, <1>4, <1>5, <1>6, <1>7, <1>8, <1>9, <1>10

\* The SELECT sees the row as it is.
LEMMA SaveSelectKeeps ==
  ASSUME IndInv, NEW r \in Requests, SaveSelect(r)
  PROVE  IndInv'
<1> USE DEF IndInv, SaveSelect, Goes, stored, replies, logs
<1>1. Types'
  BY DEF Types, Running
<1>2. Route'
  BY DEF Types, Route, Running, Watched
<1>3. Stored'
  BY DEF Types, Stored, Watched
<1>4. Ended'
  BY DEF Types, Ended, Watched
<1>5. Logged'
  BY DEF Types, Logged, Watched
<1>6. Judged'
  BY DEF Judged
<1>7. Newest'
  BY DEF Newest, Measured
<1>8. InStep'
  BY DEF Types, InStep, Watched
<1>9. QED
  BY <1>1, <1>2, <1>3, <1>4, <1>5, <1>6, <1>7, <1>8

\* The UPDATE of a save that nothing overtook leaves its own status: no other
\* handler holds the row, and a heartbeat holds the status that is there.
LEMMA SaveUpdateKeeps ==
  ASSUME IndInv, NEW r \in Requests, SaveUpdate(r)
  PROVE  IndInv'
<1> USE DEF IndInv, SaveUpdate, Goes, Drops, stored, replies, logs
<1>1. at[r] = "update" /\ req[r] \in Payload /\ req[r].kind \in {"data", "heartbeat"}
  BY PayloadFacts DEF Types, Route
<1>2. /\ saves' \in Seq(Requests)
      /\ \A i \in DOMAIN saves' :
           (Watched(r) /\ saves'[i] = r) \/ (i \in DOMAIN saves /\ saves'[i] = saves[i])
      /\ Watched(r) => saves'[Len(saves')] = r /\ saves' # <<>>
      /\ ~ Watched(r) => saves' = saves
  <2>1. saves \in Seq(Requests) /\ saves' = IF Watched(r) THEN Append(saves, r) ELSE saves
    BY DEF Types, Watched
  <2> HIDE DEF SaveUpdate
  <2>2. QED
    BY <2>1, AppendFacts
<1>3. Types'
  BY <1>2 DEF Types, Running, Row, Blank, Statuses
<1>4. Route'
  BY <1>1 DEF Types, Route, Running, Watched
<1>5. Stored'
  BY <1>1, <1>2 DEF Types, Stored, Watched
<1>6. Ended'
  BY <1>1, <1>2 DEF Types, Ended, Watched
<1>7. Logged'
  BY DEF Types, Logged, Watched
<1>8. Judged'
  BY DEF Judged
<1>9. Newest'
  BY DEF Newest, Measured
<1>10. InStep'
  <2> SUFFICES ASSUME ~ overtaken'
               PROVE  InStep'
    BY DEF InStep
  <2>1. ~ overtaken /\ \A q \in Requests : q # r => at[q] \notin {"select", "update"}
    BY DEF Types
  <2>2. device'.status = entity[r].status
    BY <1>1, <2>1 DEF Types, Row, InStep
  <2>3. \A q \in Requests : at'[q] \notin {"select", "update"}
    BY <2>1 DEF Types
  <2>4. CASE Watched(r)
    BY <1>1, <1>2, <2>1, <2>2, <2>3, <2>4 DEF InStep
  <2>5. CASE ~ Watched(r)
    BY <1>1, <1>2, <2>1, <2>2, <2>3, <2>5 DEF InStep
  <2>6. QED
    BY <2>4, <2>5
<1>11. QED
  BY <1>3, <1>4, <1>5, <1>6, <1>7, <1>8, <1>9, <1>10

\* A measurement goes on to be stored only if it has values; one that does not
\* ends with an error, behind its save.
LEMMA LookUpSessionKeeps ==
  ASSUME IndInv, NEW r \in Requests, LookUpSession(r)
  PROVE  IndInv'
<1> USE DEF IndInv, LookUpSession, Goes, store, stored, replies, logs, Log!Raise, Log!End
<1>1. at[r] = "lookup" /\ outcome[r] = 0 /\ answer[r] = 0 /\ Watched(r)
  BY Underway DEF Route, Running
<1>2. Types'
  <2>1. /\ outcome' \in [Requests -> Codes]
        /\ sensorLog' \in [Requests -> {"none", "due", "lost"} \cup Log!SensorStatuses]
        /\ apiLog' \in [Requests -> {"none", "due", "lost"} \cup Log!ApiStatuses]
        /\ answer' = answer
    <3>1. CASE UNCHANGED logs
      BY <3>1 DEF Types
    <3>2. CASE Log!Raise(r, 500, TRUE)
      <4> HIDE DEF LookUpSession, Log!End, IndInv
      <4>1. Types /\ Log!End(r, 500, TRUE) /\ answer' = answer
        BY <3>2 DEF IndInv
      <4>2. 500 \in Codes /\ TRUE \in BOOLEAN
        BY DEF Codes
      <4> HIDE DEF Goes, store, stored, replies, logs, Log!Raise
      <4>3. QED
        BY <4>1, <4>2, EndTyped
    <3>3. QED
      BY <3>1, <3>2
  <2>2. UNCHANGED <<req, store, stored, replies, known>>
    OBVIOUS
  <2>3. at' = [at EXCEPT ![r] = "insert"] \/ at' = [at EXCEPT ![r] = "done"]
    OBVIOUS
  <2> HIDE DEF IndInv, LookUpSession, Goes, logs, Log!Raise, Log!End
  <2>4. Types
    BY DEF IndInv
  <2>5. at' \in [Requests -> Running \cup {"idle", "done", "cut"}]
    BY <2>3, <2>4 DEF Types, Running
  <2>6. QED
    BY <2>1, <2>2, <2>4, <2>5 DEF Types
<1>3. Route'
  BY DEF Types, Route, Running, Watched
<1>4. Stored'
  BY <1>1 DEF Types, Stored, Watched
<1>5. Ended'
  <2>1. r \notin shown
    BY <1>1 DEF Stored
  <2>2. UNCHANGED <<req, saves, rows, shown>>
    OBVIOUS
  <2>3. CASE UNCHANGED logs
    <3>1. \A q \in Requests : at[q] \in {"done", "cut"} => at'[q] = at[q]
      BY <1>1 DEF Types
    <3>2. Ended /\ outcome' = outcome
      BY <2>3
    <3> HIDE DEF LookUpSession, IndInv
    <3>3. QED
      BY <2>2, <3>1, <3>2 DEF Ended, Watched
  <2>4. CASE at' = [at EXCEPT ![r] = "done"] /\ Log!Raise(r, 500, TRUE)
    BY <2>1, <2>2, <2>4 DEF Types, Ended, Watched
  <2>5. QED
    BY <2>3, <2>4
<1>6. Logged'
  BY <1>1 DEF Types, Logged, Watched, Log!End
<1>7. Judged'
  BY DEF Judged
<1>8. Newest'
  BY DEF Newest, Measured
<1>9. InStep'
  BY DEF Types, InStep, Watched
<1>10. QED
  BY <1>2, <1>3, <1>4, <1>5, <1>6, <1>7, <1>8, <1>9

\* A row is inserted for a measurement with values.
LEMMA InsertRowKeeps ==
  ASSUME IndInv, NEW r \in Requests, InsertRow(r)
  PROVE  IndInv'
<1> USE DEF IndInv, InsertRow, Goes, store, replies, logs
<1>1. at[r] = "insert" /\ outcome[r] = 0 /\ Watched(r) /\ req[r].hasValues /\ Valid(req[r])
  BY DEF Types, Route, Ended, Running
<1>2. Types'
  BY DEF Types, Running
<1>3. Route'
  BY <1>1 DEF Types, Route, Running, Watched
<1>4. Stored'
  BY <1>1 DEF Types, Stored, Watched
<1>5. Ended'
  BY <1>1 DEF Types, Ended, Watched
<1>6. Logged'
  BY DEF Logged, Watched
<1>7. Judged'
  BY DEF Judged
<1>8. Newest'
  BY DEF Types, Newest, Measured
<1>9. InStep'
  BY DEF Types, InStep, Watched
<1>10. QED
  BY <1>2, <1>3, <1>4, <1>5, <1>6, <1>7, <1>8, <1>9

\* What is queued is stored, if it is a measurement.
LEMMA EnqueueKeeps ==
  ASSUME IndInv, NEW r \in Requests, Enqueue(r)
  PROVE  IndInv'
<1> USE DEF IndInv, Enqueue, Goes, store, replies, logs
<1>1. at[r] = "queue" /\ outcome[r] = 0
  BY DEF Types, Ended
<1>2. Types'
  BY DEF Types, Running
<1>3. Route'
  BY DEF Types, Route, Running, Watched
<1>4. Stored'
  BY DEF Types, Stored, Watched
<1>5. Ended'
  BY <1>1 DEF Types, Ended, Watched
<1>6. Logged'
  BY DEF Logged, Watched
<1>7. Judged'
  BY DEF Judged
<1>8. Newest'
  BY DEF Newest, Measured
<1>9. InStep'
  BY DEF Types, InStep, Watched
<1>10. QED
  BY <1>2, <1>3, <1>4, <1>5, <1>6, <1>7, <1>8, <1>9

\* A request that is answered with success has been stored and queued; a
\* measurement is broadcast and judged at once.
LEMMA ReplyKeeps ==
  ASSUME IndInv, NEW r \in Requests, Reply(r)
  PROVE  IndInv'
<1> USE DEF IndInv, Reply, Goes, store, Log!Return, Log!End
<1>1. /\ at[r] = "reply" /\ outcome[r] = 0 /\ answer[r] = 0 /\ req[r] \in Payload
      /\ req[r].kind # "latest"
  BY Underway, PayloadFacts DEF Route, Running
<1>2. Types'
  <2>1. /\ outcome' \in [Requests -> Codes] /\ answer' \in [Requests -> Codes]
        /\ sensorLog' \in [Requests -> {"none", "due", "lost"} \cup Log!SensorStatuses]
        /\ apiLog' \in [Requests -> {"none", "due", "lost"} \cup Log!ApiStatuses]
    BY DEF Types, Codes
  <2>2. CharacterState(req[r]) \in Moods /\ Alert(req[r]) \in BOOLEAN
    BY Zenon DEF CharacterState, Alert, Moods
  <2>3. shown' \subseteq Requests /\ verdict' \in [Requests -> [state : Moods, alert : BOOLEAN]]
    BY <2>2 DEF Types
  <2>4. QED
    BY <2>1, <2>3 DEF Types, Running
<1>3. Route'
  BY DEF Types, Route, Running, Watched
<1>4. Stored'
  BY DEF Types, Stored, Watched
<1>5. Ended'
  BY <1>1 DEF Types, Ended, Watched
<1>6. Logged'
  BY <1>1 DEF Types, Logged, Watched
<1>7. Judged'
  <2>1. UNCHANGED req /\ verdict \in [Requests -> [state : Moods, alert : BOOLEAN]]
    BY DEF Types
  <2>2. CASE Watched(r)
    <3>1. /\ shown' = shown \cup {r}
          /\ verdict' = [verdict EXCEPT ![r] =
               [state |-> CharacterState(req[r]), alert |-> Alert(req[r])]]
      BY <2>2
    <3>2. Judged /\ shown \subseteq Requests
      BY DEF Types
    <3> HIDE DEF Reply, IndInv
    <3>3. QED
      BY <2>1, <3>1, <3>2 DEF Judged
  <2>3. CASE ~ Watched(r)
    BY <2>1, <2>3 DEF Judged
  <2>4. QED
    BY <2>2, <2>3
<1>8. Newest'
  BY <1>1 DEF Types, Newest, Measured
<1>9. InStep'
  BY DEF Types, InStep, Watched
<1>10. QED
  BY <1>2, <1>3, <1>4, <1>5, <1>6, <1>7, <1>8, <1>9

\* A reading returns the latest of all that is stored, and what was known when
\* it arrived is still there.
LEMMA ReadLatestKeeps ==
  ASSUME IndInv, NEW r \in Requests, ReadLatest(r)
  PROVE  IndInv'
<1> USE DEF IndInv, ReadLatest, Goes, store, stored, Log!Return, Log!End
<1>1. at[r] = "read" /\ outcome[r] = 0 /\ answer[r] = 0 /\ ~ Watched(r)
  BY Underway DEF Route, Running, Watched
<1>2. PICK q : /\ q \in IF rows = {} THEN {0} ELSE Latest
               /\ served' = [served EXCEPT ![r] = q]
  OBVIOUS
<1>3. /\ q \in Nat
      /\ rows # {} => q \in rows /\ \A o \in rows : Measured(o) <= Measured(q)
  <2>1. rows \subseteq Nat
    BY DEF Types, Requests
  <2> HIDE DEF ReadLatest, IndInv
  <2>2. CASE rows = {}
    BY <1>2, <2>2
  <2>3. CASE rows # {}
    BY <1>2, <2>1, <2>3 DEF Latest
  <2>4. QED
    BY <2>2, <2>3
<1>4. Types'
  <2>1. /\ outcome' \in [Requests -> Codes] /\ answer' \in [Requests -> Codes]
        /\ sensorLog' \in [Requests -> {"none", "due", "lost"} \cup Log!SensorStatuses]
        /\ apiLog' \in [Requests -> {"none", "due", "lost"} \cup Log!ApiStatuses]
    BY DEF Types, Codes
  <2>2. QED
    BY <1>2, <1>3, <2>1 DEF Types, Running
<1>5. Route'
  BY DEF Types, Route, Running, Watched
<1>6. Stored'
  BY DEF Types, Stored, Watched
<1>7. Ended'
  BY <1>1 DEF Types, Ended, Watched
<1>8. Logged'
  BY <1>1 DEF Types, Logged, Watched
<1>9. Judged'
  BY DEF Judged
<1>10. Newest'
  <2>1. \A o \in rows : Measured(o) \in Nat
    BY PayloadFacts DEF Types, Route, Stored, Measured, Watched, Requests
  <2>2. \A o \in known[r] : o \in rows
    BY DEF Types, Newest
  <2>3. QED
    BY <1>1, <1>2, <1>3, <2>1, <2>2 DEF Types, Newest, Measured
<1>11. InStep'
  BY DEF Types, InStep, Watched
<1>12. QED
  BY <1>4, <1>5, <1>6, <1>7, <1>8, <1>9, <1>10, <1>11

\* A handler that fails has not broadcast its measurement.
LEMMA FailKeeps ==
  ASSUME IndInv, NEW r \in Requests, Fail(r)
  PROVE  IndInv'
<1> USE DEF IndInv, Fail, Goes, Drops, stored, replies, Log!Raise, Log!End
<1>1. PICK step \in {"find", "select", "update", "lookup", "insert", "queue", "read"} :
        at[r] = step /\ at' = [at EXCEPT ![r] = "done"]
  OBVIOUS
<1>2. at[r] \in Running /\ at[r] \notin {"idle", "reply"} /\ outcome[r] = 0 /\ answer[r] = 0
  BY <1>1, Underway DEF Running
<1>3. Types'
  <2>1. /\ outcome' \in [Requests -> Codes]
        /\ sensorLog' \in [Requests -> {"none", "due", "lost"} \cup Log!SensorStatuses]
        /\ apiLog' \in [Requests -> {"none", "due", "lost"} \cup Log!ApiStatuses]
        /\ answer' = answer
    BY DEF Types, Codes
  <2>2. entity' \in [Requests -> Row] /\ selected' \in [Requests -> Row]
    BY DEF Types, Row, Blank, Statuses
  <2>3. QED
    BY <1>1, <2>1, <2>2 DEF Types, Running
<1>4. Route'
  BY <1>1 DEF Types, Route, Running, Watched
<1>5. Stored'
  BY <1>1 DEF Types, Stored, Watched
<1>6. Ended'
  <2>1. r \notin shown
    BY <1>1 DEF Types, Route, Stored, Watched
  <2>2. QED
    BY <1>1, <1>2, <2>1 DEF Types, Ended, Watched
<1>7. Logged'
  BY <1>2 DEF Types, Logged, Watched
<1>8. Judged'
  BY DEF Judged
<1>9. Newest'
  BY DEF Newest, Measured
<1>10. InStep'
  BY <1>1 DEF Types, InStep, Watched
<1>11. QED
  BY <1>3, <1>4, <1>5, <1>6, <1>7, <1>8, <1>9, <1>10

\* A row of a log says how the request ended, and an error is answered behind
\* both of them.
LEMMA WriteLogKeeps ==
  ASSUME IndInv, NEW r \in Requests, WriteLog(r)
  PROVE  IndInv'
<1> USE DEF IndInv, WriteLog, store, stored, replies
<1>1. outcome' = outcome
  BY DEF Log!WriteSensorLog, Log!WriteApiLog
<1>2. outcome[r] # 0
  BY DEF Types, Logged, Log!WriteSensorLog, Log!WriteApiLog
<1>3. answer' = answer \/ answer' = [answer EXCEPT ![r] = outcome[r]]
  BY DEF Log!WriteSensorLog, Log!WriteApiLog
<1>4. Types' /\ Logged'
  <2>1. CASE Log!WriteSensorLog(r, req[r].hasBody)
    <3>1. PICK row \in {"lost"} \cup (IF req[r].hasBody THEN {Log!SensorStatusOf(outcome[r])} ELSE {}) :
            sensorLog' = [sensorLog EXCEPT ![r] = row]
      BY <2>1 DEF Log!WriteSensorLog
    <3>2. row \in {"lost"} \cup Log!SensorStatuses
      BY DEF Log!SensorStatusOf, Log!SensorStatuses
    <3>3. sensorLog[r] = "due" /\ UNCHANGED <<outcome, answer, apiLog>>
      BY <2>1 DEF Log!WriteSensorLog
    <3>4. Types'
      BY <3>1, <3>2, <3>3 DEF Types
    <3>5. Logged'
      BY <3>1, <3>3 DEF Types, Logged, Watched, Log!SensorStatusOf
    <3>6. QED
      BY <3>4, <3>5
  <2>2. CASE Log!WriteApiLog(r)
    <3>1. PICK row \in {"lost", Log!ApiStatusOf(outcome[r])} : apiLog' = [apiLog EXCEPT ![r] = row]
      BY <2>2 DEF Log!WriteApiLog
    <3>2. row \in {"lost"} \cup Log!ApiStatuses /\ row # "due"
      BY DEF Log!ApiStatusOf, Log!ApiStatuses
    <3>3. /\ apiLog[r] = "due" /\ (answer[r] # 0 \/ sensorLog[r] # "due")
          /\ answer' = [answer EXCEPT ![r] = outcome[r]]
          /\ UNCHANGED <<outcome, sensorLog>>
      BY <2>2 DEF Log!WriteApiLog
    <3>4. Types'
      BY <3>1, <3>2, <3>3 DEF Types
    <3>5. Logged'
      BY <3>1, <3>2, <3>3 DEF Types, Codes, Logged, Watched
    <3>6. QED
      BY <3>4, <3>5
  <2>3. QED
    BY <2>1, <2>2
<1>5. Route'
  BY DEF Route, Watched
<1>6. Stored'
  BY DEF Stored, Watched
<1>7. Ended'
  BY <1>1 DEF Ended, Watched
<1>8. Judged'
  BY DEF Judged
<1>9. Newest'
  BY <1>3 DEF Types, Newest, Measured, Logged
<1>10. InStep'
  BY DEF InStep, Watched
<1>11. QED
  BY <1>4, <1>5, <1>6, <1>7, <1>8, <1>9, <1>10

\* Requests that are cut off leave what they have stored, and no answer.
LEMMA RestartKeeps ==
  ASSUME IndInv, Restart
  PROVE  IndInv'
<1> USE DEF IndInv, Restart, Drops, stored, replies, Log!Restart
<1>1. Types'
  <2>1. entity' \in [Requests -> Row] /\ selected' \in [Requests -> Row]
    BY DEF Types, Row, Blank, Statuses
  <2>2. /\ sensorLog' \in [Requests -> {"none", "due", "lost"} \cup Log!SensorStatuses]
        /\ apiLog' \in [Requests -> {"none", "due", "lost"} \cup Log!ApiStatuses]
    BY DEF Types
  <2>3. QED
    BY <2>1, <2>2 DEF Types
<1>2. \A r \in Requests : at[r] \in Running => at'[r] = "cut"
  BY DEF Types, Ended, Logged, Running
<1>3. \A r \in Requests : at'[r] \in {at[r], "cut"} /\ (at[r] = "idle" <=> at'[r] = "idle")
  BY DEF Types
<1>4. Route'
  BY <1>2, <1>3 DEF Types, Route, Running, Watched
<1>5. Stored'
  BY <1>3 DEF Types, Stored, Watched
<1>6. Ended'
  BY <1>3 DEF Types, Ended, Watched
<1>7. Logged'
  BY DEF Types, Logged, Watched
<1>8. Judged'
  BY DEF Judged
<1>9. Newest'
  BY DEF Newest, Measured
<1>10. InStep'
  BY <1>2, <1>3 DEF Types, InStep, Running, Watched
<1>11. QED
  BY <1>1, <1>4, <1>5, <1>6, <1>7, <1>8, <1>9, <1>10

-----------------------------------------------------------------------------
(* The invariant, and what follows from it.                                *)

\* The invariant holds at the start and every step keeps it.
THEOREM Invariance == Spec => []IndInv
<1>1. Init => IndInv
  <2> SUFFICES ASSUME Init
               PROVE  IndInv
    OBVIOUS
  <2> USE DEF Init, Log!Init
  <2>1. Types
    <3>1. Blank \in Row
      BY DEF Row, Blank, Statuses
    <3>2. [state |-> "", alert |-> FALSE] \in [state : Moods, alert : BOOLEAN]
      BY DEF Moods
    <3>3. saves \in Seq(Requests)
      BY EmptySeq
    <3>4. 0 \in Nat /\ 0 \in Codes
      BY DEF Codes
    <3>5. QED
      BY <3>1, <3>2, <3>3, <3>4 DEF Types
  <2>2. Route /\ Judged
    BY DEF Route, Running, Judged
  <2>3. DOMAIN saves = {}
    BY NoSaves
  <2>4. Stored
    BY <2>3 DEF Stored
  <2>5. Ended
    <3>1. \A r \in Requests : outcome[r] = 0
      OBVIOUS
    <3> HIDE DEF Init
    <3>2. QED
      BY <3>1 DEF Ended
  <2>6. Logged
    BY DEF Logged
  <2>7. Newest
    BY DEF Newest
  <2>8. InStep
    BY DEF InStep, Blank
  <2>9. QED
    BY <2>1, <2>2, <2>4, <2>5, <2>6, <2>7, <2>8 DEF IndInv
<1>2. IndInv /\ [Next]_vars => IndInv'
  <2> SUFFICES ASSUME IndInv, [Next]_vars
               PROVE  IndInv'
    OBVIOUS
  <2>1. ASSUME NEW r \in Requests, NEW p \in Payloads(r), Arrive(r, p)
        PROVE  IndInv'
    BY <2>1, ArriveKeeps
  <2>2. ASSUME NEW r \in Requests, Handle(r)
        PROVE  IndInv'
    BY <2>2, FindDeviceKeeps, SaveSelectKeeps, SaveUpdateKeeps, LookUpSessionKeeps,
       InsertRowKeeps, EnqueueKeeps, ReplyKeeps, ReadLatestKeeps, WriteLogKeeps DEF Handle
  <2>3. ASSUME NEW r \in Requests, Fail(r)
        PROVE  IndInv'
    BY <2>3, FailKeeps
  <2>4. CASE Restart
    BY <2>4, RestartKeeps
  <2>5. CASE UNCHANGED vars
    BY <2>5 DEF vars, store, stored, replies, logs, IndInv, Types, Route, Stored, Ended,
                Logged, Judged, Newest, InStep, Watched, Measured
  <2>6. QED
    BY <2>1, <2>2, <2>3, <2>4, <2>5 DEF Next
<1>3. QED
  BY <1>1, <1>2, PTL DEF Spec

\* The variables have their types: a request that arrived is one of those it
\* may be, and each log has one of its own statuses.
THEOREM TypeCorrect == Spec => []TypeOK
<1>1. IndInv => TypeOK
  BY DEF IndInv, Types, Route, TypeOK, Running
<1>2. QED
  BY <1>1, Invariance, PTL

\* The two logs and the answer tell what became of a request, however it ended
\* and whatever the writing of the logs did (RequestLoggingInterceptor around
\* processSensorData).
THEOREM LogsTellTheTruth == Spec => []LogTellsTheTruth
<1>1. ASSUME IndInv
      PROVE  LogTellsTheTruth
  <2> SUFFICES ASSUME NEW r \in Requests
               PROVE
    /\ Watched(r) /\ (answer[r] = 201 \/ "SUCCESS" \in {sensorLog[r], apiLog[r]})
         => r \in rows \cap queued \cap shown
    /\ "VALIDATION_FAILED" = sensorLog[r] \/ "VALIDATION_ERROR" = apiLog[r]
         => r \notin rows \cup Range(saves)
    /\ "ERROR" = sensorLog[r] \/ "SERVER_ERROR" = apiLog[r] => r \notin shown
    /\ answer[r] >= 400 => "due" \notin {sensorLog[r], apiLog[r]}
    /\ sensorLog[r] \in Log!SensorStatuses => req[r].hasBody
    BY DEF LogTellsTheTruth
  <2>1. outcome[r] \in Codes /\ answer[r] \in {0, outcome[r]}
    BY <1>1 DEF IndInv, Types, Logged
  <2>2. outcome[r] = 0 => sensorLog[r] = "none" /\ apiLog[r] = "none"
    BY <1>1 DEF IndInv, Logged
  <2>3. /\ "SUCCESS" \in {sensorLog[r], apiLog[r]} => outcome[r] \in {200, 201}
        /\ "VALIDATION_FAILED" = sensorLog[r] \/ "VALIDATION_ERROR" = apiLog[r] => outcome[r] = 400
        /\ "ERROR" = sensorLog[r] \/ "SERVER_ERROR" = apiLog[r] => outcome[r] = 500
    BY <1>1, <2>1, <2>2 DEF IndInv, Logged, Codes, Log!SensorStatusOf, Log!ApiStatusOf
  <2>4. Watched(r) /\ outcome[r] \in {200, 201} => r \in rows \cap queued \cap shown
    BY <1>1 DEF IndInv, Ended, Stored
  <2>5. outcome[r] = 400 => r \notin rows \cup Range(saves)
    BY <1>1 DEF IndInv, Ended, Range
  <2>6. outcome[r] = 500 => r \notin shown
    BY <1>1 DEF IndInv, Ended
  <2>7. answer[r] >= 400 => sensorLog[r] # "due" /\ apiLog[r] # "due"
    BY <1>1 DEF IndInv, Logged
  <2>8. sensorLog[r] \in Log!SensorStatuses => req[r].hasBody
    BY <1>1 DEF IndInv, Logged, Log!SensorStatuses
  <2>9. QED
    BY <2>1, <2>3, <2>4, <2>5, <2>6, <2>7, <2>8
<1>2. QED
  BY <1>1, Invariance, PTL

\* A reading returns a measurement no older than any that had been answered when
\* it arrived (getLatestSensorData).
THEOREM ReadingsAreNew == Spec => []LatestIsNewest
<1>1. ASSUME IndInv
      PROVE  LatestIsNewest
  <2>1. \A r \in Requests : r # 0 /\ (\A q \in known[r] : q \in rows)
    BY <1>1 DEF IndInv, Newest, Requests
  <2>2. 0 \notin rows
    BY <1>1 DEF IndInv, Types, Requests
  <2>3. QED
    BY <1>1, <2>2 DEF IndInv, Newest, LatestIsNewest
<1>2. QED
  BY <1>1, Invariance, PTL

\* Every alarm has a cause that the device measured, and a sensor that is broken
\* or absent worries the character, for every reading the pipe lets through
\* (shouldTriggerAlert, estimateCharacterState).
THEOREM AlarmsHaveCauses == Spec => []AlertFromReadings
<1>1. ASSUME NEW p \in Payload, p.kind = "data", p.hasValues, Valid(p)
      PROVE  /\ Alert(p) =>
                  \/ p.status = "ERROR"
                  \/ p.temperature \in Int /\ p.temperature \in (-40 .. -11) \cup (81 .. 125)
                  \/ p.humidity \in Int /\ p.humidity \in (-5 .. 194) \cup (905 .. 1004)
             /\ p.temperature \in {Null, SensorError} \/ p.humidity \in {Null, 10 * SensorError}
                  => CharacterState(p) = "CONCERNED"
  <2>1. p.temperature \in Int \cup {Null} /\ p.humidity \in Int \cup {Null}
    BY DEF Payload
  <2>2. Temperature(p) # Null =>
          /\ p.temperature \in Int /\ Temperature(p) = p.temperature
          /\ Temperature(p) \in -40 .. 125
    BY <1>1, <2>1 DEF Valid, Temperature, Normal
  <2>3. Humidity(p) # Null =>
          /\ p.humidity \in Int /\ Humidity(p) = (p.humidity + 5) \div 10
          /\ Humidity(p) \in 0 .. 100
    BY <1>1, <2>1 DEF Valid, Humidity, Normal
  <2>4. Outside(Temperature(p), -10, 80) =>
          p.temperature \in Int /\ p.temperature \in (-40 .. -11) \cup (81 .. 125)
    BY <2>2 DEF Outside
  <2>5. Outside(Humidity(p), 20, 90) =>
          p.humidity \in Int /\ p.humidity \in (-5 .. 194) \cup (905 .. 1004)
    BY <2>3 DEF Outside
  <2>6. p.temperature \in {Null, SensorError} => Temperature(p) = Null
    BY DEF Temperature, Normal, SensorError
  <2>7. p.humidity \in {Null, 10 * SensorError} => Humidity(p) = Null
    BY DEF Humidity, Normal
  <2>8. QED
    BY <2>4, <2>5, <2>6, <2>7 DEF Alert, CharacterState
<1>2. ASSUME IndInv
      PROVE  AlertFromReadings
  <2> SUFFICES ASSUME NEW r \in shown
               PROVE
    /\ verdict[r].alert =>
         \/ req[r].status = "ERROR"
         \/ req[r].temperature \in Int /\ req[r].temperature \in (-40 .. -11) \cup (81 .. 125)
         \/ req[r].humidity \in Int /\ req[r].humidity \in (-5 .. 194) \cup (905 .. 1004)
    /\ req[r].temperature \in {Null, SensorError} \/ req[r].humidity \in {Null, 10 * SensorError}
         => verdict[r].state = "CONCERNED"
    BY DEF AlertFromReadings
  <2>1. r \in Requests /\ r \in rows
    BY <1>2 DEF IndInv, Types, Stored
  <2>2. Watched(r) /\ req[r].hasValues /\ Valid(req[r]) /\ req[r] \in Payload \cup {NoPayload}
    BY <1>2, <2>1 DEF IndInv, Types, Stored
  <2>3. req[r] \in Payload /\ req[r].kind = "data"
    BY <2>2, PayloadFacts DEF Watched
  <2>4. verdict[r] = [state |-> CharacterState(req[r]), alert |-> Alert(req[r])]
    BY <1>2 DEF IndInv, Judged
  <2>5. verdict[r].alert = Alert(req[r]) /\ verdict[r].state = CharacterState(req[r])
    BY <2>4
  <2>6. QED
    BY <1>1, <2>2, <2>3, <2>5
<1>3. QED
  BY <1>2, Invariance, PTL

\* When no save was overtaken, every measurement that was saved was stored, and
\* they came in the order in which they were taken, the device shows the status
\* of the one that is returned as the latest (processSensorData,
\* mapProcessingStatus).
THEOREM StatusIsReported == Spec => []StatusFollowsReports
<1>1. ASSUME IndInv
      PROVE  StatusFollowsReports
  <2> SUFFICES ASSUME NEW r \in Latest, ~ overtaken, Range(saves) = rows,
                      \A i, j \in DOMAIN saves : i < j => Measured(saves[i]) < Measured(saves[j])
               PROVE  device.status = req[r].status
    BY DEF StatusFollowsReports
  <2>1. r \in rows /\ r \in Requests /\ \A q \in rows : Measured(q) <= Measured(r)
    BY <1>1 DEF IndInv, Types, Latest
  <2>2. PICK i \in DOMAIN saves : saves[i] = r
    BY <2>1 DEF Range
  <2>3. Len(saves) \in Nat /\ DOMAIN saves = 1 .. Len(saves)
    BY <1>1, LenProperties DEF IndInv, Types
  <2>4. saves # <<>> /\ Len(saves) \in DOMAIN saves /\ saves[Len(saves)] \in rows
    BY <2>2, <2>3 DEF Range
  <2>5. \A q \in rows : Measured(q) \in Nat
    BY <1>1, PayloadFacts DEF IndInv, Types, Stored, Measured, Watched, Requests
  <2>6. i = Len(saves)
    BY <2>1, <2>2, <2>3, <2>4, <2>5
  <2>7. device.status = DeviceStatus(req[r].status)
    BY <1>1, <2>2, <2>4, <2>6 DEF IndInv, InStep
  <2>8. req[r].status \in Statuses
    BY <1>1, <2>1, PayloadFacts DEF IndInv, Types, Stored, Watched
  <2>9. QED
    BY <2>7, <2>8, StatusFacts
<1>2. QED
  BY <1>1, Invariance, PTL

-----------------------------------------------------------------------------
(* Snapshots: the invariant.                                               *)

Places == {"idle", "find", "write", "insert", "path", "send", "query", "done"}

\* Before its picture is written.
Fresh == {"idle", "find", "write"}

\* The values of the variables.
ShotTypes ==
  /\ shotAt \in [Shot!Requests -> Places]
  /\ DOMAIN ask = Shot!Requests
  /\ \A r \in Shot!Requests : ask[r] \in {[kind |-> "none"]} \cup Asks(r)
  /\ cameras \subseteq devices /\ devices \subseteq Devices
  /\ clock \in Shot!Times
  /\ stamp \in [Shot!Requests -> (0 .. MaxTime) \X (0 .. MaxTime)]
  /\ files \in [Devices \X Shot!Times -> 0 .. Shots]
  /\ code \in [Shot!Requests -> {0, 200, 201, 400, 404, 500}]
  /\ page \in [Shot!Requests -> SUBSET Shot!Requests]
  /\ kept \in [Shot!Requests -> SUBSET Shot!Requests]
  /\ IsFiniteSet(snapshots)

\* A file has a picture that its device sent in its millisecond.
FilesTrue ==
  \A f \in Devices \X Shot!Times : files[f] # 0 =>
    /\ shotAt[files[f]] \notin Fresh
    /\ ask[files[f]].device = f[1] /\ stamp[files[f]][1] = f[2]

\* A capture has left a row, and a row leads to a file.
Entered(q) ==
  /\ q \in Shot!Requests /\ shotAt[q] = "done"
  /\ ask[q].device \in devices /\ stamp[q][1] \in Shot!Times
  /\ files[<<ask[q].device, stamp[q][1]>>] # 0

\* The rows are those of captures, and no two have one id.
RowsTrue ==
  /\ \A s \in snapshots : s = Shot!Row(s.of) /\ Entered(s.of)
  /\ \A s, t \in snapshots : s.snapshotId = t.snapshotId => s = t

\* What is promised of an answer.
Fits(r, status, pictures) ==
  /\ ask[r].kind = "list" => \A c \in kept[r] :
       ask[c].device = ask[r].device /\ stamp[c][2] \in ask[r].from .. ask[r].to =>
         /\ status = 200
         /\ \/ c \in pictures
            \/ /\ Cardinality(pictures) = ask[r].limit
               /\ \A q \in pictures : stamp[q][2] \in stamp[c][2] .. ask[r].to
  /\ ask[r].kind = "image" => \A c \in kept[r] :
       ask[c].device = ask[r].device /\ stamp[c][1] = ask[r].id =>
         /\ status = 200
         /\ \A q \in pictures : q = c \/ Shot!Twins(c, q)
  /\ \A q \in pictures : ask[q].device = ask[r].device

\* Where a request can be, and what it has been answered with.
Handled(r) ==
  /\ code[r] # 0 => shotAt[r] = "done"
  /\ shotAt[r] # "idle" => ask[r] \in Asks(r)
  /\ shotAt[r] \in {"write", "insert"} => ask[r].kind = "capture" /\ ask[r].device \in devices
  /\ shotAt[r] = "insert" =>
       stamp[r][1] \in Shot!Times /\ files[<<ask[r].device, stamp[r][1]>>] # 0
  /\ shotAt[r] \in {"path", "send"} =>
       /\ ask[r].kind = "image"
       /\ \E s \in snapshots : s.snapshotId = ask[r].id /\ s.device = ask[r].device
  /\ shotAt[r] = "query" => ask[r].kind = "list" /\ ask[r].device \in devices
  /\ ask[r].kind = "capture" /\ code[r] = 201 => Shot!Row(r) \in snapshots
  /\ \A c \in kept[r] : ask[c].kind = "capture" /\ code[c] = 201
  /\ \A q \in page[r] : shotAt[q] \notin Fresh
  /\ code[r] \in {200, 404} => Fits(r, code[r], page[r])

ShotInv ==
  /\ ShotTypes /\ FilesTrue /\ RowsTrue
  /\ \A r \in Shot!Requests : Handled(r)

-----------------------------------------------------------------------------
(* Steps in general.                                                       *)

\* What a step of a request leaves alone.
Moves(r) ==
  /\ shotAt[r] # "done"
  /\ \A s \in Shot!Requests : s # r =>
       /\ shotAt'[s] = shotAt[s] /\ ask'[s] = ask[s] /\ stamp'[s] = stamp[s]
       /\ kept'[s] = kept[s] /\ code'[s] = code[s] /\ page'[s] = page[s]
  /\ shotAt[r] \notin Fresh =>
       shotAt'[r] \notin Fresh /\ ask'[r] = ask[r] /\ stamp'[r] = stamp[r]
  /\ devices \subseteq devices'

\* What may be asked.
LEMMA AskFacts ==
  ASSUME ShotInv, NEW r \in Shot!Requests, shotAt[r] # "idle"
  PROVE  /\ ask[r].device \in Devices /\ ask[r].kind \in {"capture", "image", "list"}
         /\ ask[r].kind = "list" => ask[r].limit \in Nat
<1>1. ask[r] \in Asks(r)
  BY DEF ShotInv, Handled
<1>2. ask[r] \in Shot!Captures \cup Shot!Images \cup Shot!Lists
  BY <1>1, AsksAssumption
<1>3. QED
  BY <1>2 DEF Shot!Captures, Shot!Images, Shot!Lists

\* What is known of a picture that was written stays.
LEMMA PastStays ==
  ASSUME NEW r \in Shot!Requests, Moves(r), NEW q \in Shot!Requests, shotAt[q] \notin Fresh
  PROVE  ask'[q] = ask[q] /\ stamp'[q] = stamp[q] /\ shotAt'[q] \notin Fresh
BY DEF Moves

\* A capture that was answered with success is stored.
LEMMA KeptFacts ==
  ASSUME ShotInv, NEW r \in Shot!Requests, NEW c \in kept[r]
  PROVE  /\ c \in Shot!Requests /\ Shot!Row(c) \in snapshots /\ Entered(c)
         /\ shotAt[c] \notin Fresh /\ code[c] = 201
         /\ Shot!Row(c).snapshotId = stamp[c][1] /\ Shot!Row(c).capturedAt = stamp[c][2]
         /\ Shot!Row(c).device = ask[c].device /\ Shot!Row(c).of = c
<1>1. c \in Shot!Requests
  BY DEF ShotInv, ShotTypes
<1>2. ask[c].kind = "capture" /\ code[c] = 201
  <2>1. Handled(r)
    BY DEF ShotInv
  <2>2. \A d \in kept[r] : ask[d].kind = "capture" /\ code[d] = 201
    BY <2>1 DEF Handled
  <2>3. QED
    BY <2>2
<1>3. Shot!Row(c) \in snapshots
  BY <1>1, <1>2 DEF ShotInv, Handled
<1>4. /\ Shot!Row(c).snapshotId = stamp[c][1] /\ Shot!Row(c).capturedAt = stamp[c][2]
      /\ Shot!Row(c).device = ask[c].device /\ Shot!Row(c).of = c
  BY DEF Shot!Row
<1>5. Entered(c)
  BY <1>3, <1>4 DEF ShotInv, RowsTrue
<1>6. shotAt[c] \notin Fresh
  BY <1>5 DEF Entered, Fresh
<1>7. QED
  BY <1>1, <1>2, <1>3, <1>4, <1>5, <1>6

\* A row, as the request that stored it.
LEMMA ShotRowFacts ==
  ASSUME ShotInv, NEW s \in snapshots
  PROVE  /\ s.of \in Shot!Requests /\ shotAt[s.of] \notin Fresh /\ Entered(s.of)
         /\ s = Shot!Row(s.of)
         /\ s.snapshotId = stamp[s.of][1] /\ s.capturedAt = stamp[s.of][2]
         /\ s.device = ask[s.of].device /\ s.device \in devices
         /\ Shot!Path(s) \in Devices \X Shot!Times /\ files[Shot!Path(s)] # 0
         /\ Shot!Path(s)[1] = s.device /\ Shot!Path(s)[2] = s.snapshotId
<1>1. s = Shot!Row(s.of) /\ Entered(s.of)
  BY DEF ShotInv, RowsTrue
<1>2. /\ s.snapshotId = stamp[s.of][1] /\ s.capturedAt = stamp[s.of][2]
      /\ s.device = ask[s.of].device
  BY <1>1 DEF Shot!Row
<1>3. s.of \in Shot!Requests /\ shotAt[s.of] = "done"
  BY <1>1 DEF Entered
<1>4. Shot!Path(s) = <<ask[s.of].device, stamp[s.of][1]>>
  BY <1>2 DEF Shot!Path
<1>5. ask[s.of].device \in Devices /\ stamp[s.of][1] \in Shot!Times /\ s.device \in devices
  BY <1>1, <1>2, <1>3 DEF Entered, ShotInv, ShotTypes
<1>6. Shot!Path(s) \in Devices \X Shot!Times /\ files[Shot!Path(s)] # 0
  BY <1>1, <1>4, <1>5 DEF Entered
<1>7. QED
  BY <1>1, <1>2, <1>3, <1>4, <1>5, <1>6 DEF Fresh

\* What is said of a request stays so when another one moves.
LEMMA OthersStay ==
  ASSUME ShotInv, NEW r \in Shot!Requests, Moves(r), snapshots \subseteq snapshots',
         \A f \in Devices \X Shot!Times : files[f] # 0 => files'[f] # 0,
         NEW s \in Shot!Requests, s # r
  PROVE  Handled(s)'
<1>1. /\ shotAt'[s] = shotAt[s] /\ ask'[s] = ask[s] /\ stamp'[s] = stamp[s]
      /\ kept'[s] = kept[s] /\ code'[s] = code[s] /\ page'[s] = page[s]
      /\ devices \subseteq devices'
  BY DEF Moves
<1>2. Handled(s)
  BY DEF ShotInv
<1>3. ASSUME NEW c \in kept[s]
      PROVE  ask'[c] = ask[c] /\ stamp'[c] = stamp[c] /\ code'[c] = code[c]
  <2>1. c \in Shot!Requests /\ shotAt[c] = "done"
    <3>1. c \in Shot!Requests /\ Entered(c)
      BY KeptFacts
    <3>2. QED
      BY <3>1 DEF Entered
  <2>2. c # r
    BY <2>1 DEF Moves
  <2>3. QED
    BY <2>1, <2>2 DEF Moves
<1>4. ASSUME NEW q \in page[s]
      PROVE  ask'[q] = ask[q] /\ stamp'[q] = stamp[q] /\ shotAt'[q] \notin Fresh
  <2>1. q \in Shot!Requests /\ shotAt[q] \notin Fresh
    BY <1>2 DEF Handled, ShotInv, ShotTypes
  <2>2. QED
    BY <2>1, PastStays
<1>5. shotAt'[s] = "insert" =>
        stamp'[s][1] \in Shot!Times /\ files'[<<ask'[s].device, stamp'[s][1]>>] # 0
  <2>1. SUFFICES ASSUME shotAt[s] = "insert"
                 PROVE  stamp[s][1] \in Shot!Times /\ files'[<<ask[s].device, stamp[s][1]>>] # 0
    BY <1>1
  <2>2. stamp[s][1] \in Shot!Times /\ files[<<ask[s].device, stamp[s][1]>>] # 0
    BY <1>2, <2>1 DEF Handled
  <2>3. ask[s].device \in Devices
    BY <2>1, AskFacts
  <2>4. QED
    BY <2>2, <2>3
<1>6. Shot!Row(s)' = Shot!Row(s)
  BY <1>1 DEF Shot!Row
<1>7. code'[s] \in {200, 404} => Fits(s, code[s], page[s])'
  <2>1. SUFFICES ASSUME code[s] \in {200, 404} PROVE Fits(s, code[s], page[s])'
    BY <1>1
  <2>2. Fits(s, code[s], page[s])
    BY <1>2, <2>1 DEF Handled
  <2>3. \A c \in kept[s], q \in page[s] : Shot!Twins(c, q)' <=> Shot!Twins(c, q)
    BY <1>3, <1>4 DEF Shot!Twins
  <2>4. QED
    BY <1>1, <1>3, <1>4, <2>2, <2>3 DEF Fits
<1>8. /\ code'[s] # 0 => shotAt'[s] = "done"
      /\ shotAt'[s] # "idle" => ask'[s] \in Asks(s)
      /\ shotAt'[s] \in {"write", "insert"} => ask'[s].kind = "capture" /\ ask'[s].device \in devices'
      /\ shotAt'[s] \in {"path", "send"} =>
           /\ ask'[s].kind = "image"
           /\ \E t \in snapshots' : t.snapshotId = ask'[s].id /\ t.device = ask'[s].device
      /\ shotAt'[s] = "query" => ask'[s].kind = "list" /\ ask'[s].device \in devices'
  BY <1>1, <1>2 DEF Handled
<1>9. /\ ask'[s].kind = "capture" /\ code'[s] = 201 => Shot!Row(s)' \in snapshots'
      /\ \A c \in kept'[s] : ask'[c].kind = "capture" /\ code'[c] = 201
      /\ \A q \in page'[s] : shotAt'[q] \notin Fresh
  BY <1>1, <1>2, <1>3, <1>4, <1>6 DEF Handled
<1>10. QED
  BY <1>5, <1>7, <1>8, <1>9 DEF Handled

\* So does a row.
LEMMA OldRowStays ==
  ASSUME ShotInv, NEW r \in Shot!Requests, Moves(r),
         \A f \in Devices \X Shot!Times : files[f] # 0 => files'[f] # 0, NEW s \in snapshots
  PROVE  s = Shot!Row(s.of)' /\ Entered(s.of)'
<1>1. s = Shot!Row(s.of) /\ Entered(s.of) /\ s.of # r /\ s.of \in Shot!Requests
  BY ShotRowFacts DEF Entered, Moves
<1>2. /\ shotAt'[s.of] = shotAt[s.of] /\ ask'[s.of] = ask[s.of] /\ stamp'[s.of] = stamp[s.of]
      /\ devices \subseteq devices'
  BY <1>1 DEF Moves
<1>3. <<ask[s.of].device, stamp[s.of][1]>> \in Devices \X Shot!Times
  BY <1>1 DEF Entered, ShotInv, ShotTypes
<1>4. QED
  BY <1>1, <1>2, <1>3 DEF Shot!Row, Entered

\* And a file.
LEMMA OldFileStays ==
  ASSUME ShotInv, NEW r \in Shot!Requests, Moves(r),
         NEW f \in Devices \X Shot!Times, files[f] # 0
  PROVE  /\ shotAt'[files[f]] \notin Fresh
         /\ ask'[files[f]].device = f[1] /\ stamp'[files[f]][1] = f[2]
<1>1. files[f] \in Shot!Requests
  BY ShotsAssumption DEF ShotInv, ShotTypes, Shot!Requests
<1>2. QED
  BY <1>1, PastStays DEF ShotInv, FilesTrue

\* So it is enough to look at the request that moves, if no picture is stored.
LEMMA StepKeeps ==
  ASSUME ShotInv, NEW r \in Shot!Requests, Moves(r), files' = files, snapshots' = snapshots,
         ShotTypes', Handled(r)'
  PROVE  ShotInv'
<1>1. FilesTrue'
  BY OldFileStays DEF FilesTrue
<1>2. RowsTrue'
  BY OldRowStays DEF ShotInv, RowsTrue
<1>3. \A s \in Shot!Requests : Handled(s)'
  BY OthersStay
<1>4. QED
  BY <1>1, <1>2, <1>3 DEF ShotInv

\* A step along a handler.
LEMMA StepFacts ==
  ASSUME ShotInv, NEW r \in Shot!Requests, NEW from, NEW to \in Places, Shot!Steps(r, from, to)
  PROVE  /\ shotAt[r] = from /\ shotAt'[r] = to
         /\ \A s \in Shot!Requests : s # r => shotAt'[s] = shotAt[s]
         /\ shotAt' \in [Shot!Requests -> Places] /\ ask' = ask /\ kept' = kept
BY DEF ShotInv, ShotTypes, Shot!Steps

\* An answer.
LEMMA AnswerFacts ==
  ASSUME ShotInv, NEW r \in Shot!Requests, NEW status \in {200, 201, 404, 500},
         NEW pictures \in SUBSET Shot!Requests, Shot!Answers(r, status, pictures)
  PROVE  /\ code'[r] = status /\ page'[r] = pictures
         /\ \A s \in Shot!Requests : s # r => code'[s] = code[s] /\ page'[s] = page[s]
         /\ code' \in [Shot!Requests -> {0, 200, 201, 400, 404, 500}]
         /\ page' \in [Shot!Requests -> SUBSET Shot!Requests]
BY DEF ShotInv, ShotTypes, Shot!Answers

\* A handler goes on.
LEMMA OnwardKeeps ==
  ASSUME ShotInv, NEW r \in Shot!Requests, NEW from \in Places \ {"idle", "done"},
         NEW to \in {"write", "path", "send", "query"}, Shot!Steps(r, from, to),
         from \notin Fresh => to \notin Fresh,
         UNCHANGED <<code, page, stamp, files, snapshots, clock, cameras>>,
         devices \subseteq devices', devices' \subseteq Devices,
         to = "write" => ask[r].kind = "capture" /\ ask[r].device \in devices',
         to \in {"path", "send"} =>
           /\ ask[r].kind = "image"
           /\ \E s \in snapshots : s.snapshotId = ask[r].id /\ s.device = ask[r].device,
         to = "query" => ask[r].kind = "list" /\ ask[r].device \in devices'
  PROVE  ShotInv'
<1>1. /\ shotAt[r] = from /\ shotAt'[r] = to
      /\ \A s \in Shot!Requests : s # r => shotAt'[s] = shotAt[s]
      /\ shotAt' \in [Shot!Requests -> Places] /\ ask' = ask /\ kept' = kept
  BY StepFacts DEF Places
<1>2. Moves(r)
  BY <1>1 DEF Moves
<1>3. ShotTypes'
  BY <1>1 DEF ShotInv, ShotTypes
<1>4. Handled(r)'
  <2>1. Handled(r)
    BY DEF ShotInv
  <2>2. code[r] = 0 /\ ask[r] \in Asks(r)
    BY <1>1, <2>1 DEF Handled
  <2>3. \A c \in kept'[r] : ask'[c].kind = "capture" /\ code'[c] = 201
    BY <1>1, <2>1 DEF Handled
  <2>4. \A q \in page'[r] : shotAt'[q] \notin Fresh
    <3>1. \A q \in page[r] : q \in Shot!Requests /\ shotAt[q] \notin Fresh
      BY <2>1 DEF Handled, ShotInv, ShotTypes
    <3>2. QED
      BY <1>2, <3>1, PastStays
  <2>5. QED
    BY <1>1, <2>2, <2>3, <2>4 DEF Handled
<1>5. QED
  BY <1>2, <1>3, <1>4, StepKeeps

\* A handler ends, without a new picture.
LEMMA EndKeeps ==
  ASSUME ShotInv, NEW r \in Shot!Requests, NEW from \in Places \ {"idle", "done"},
         Shot!Steps(r, from, "done"), NEW status \in {200, 404, 500},
         NEW pictures \in SUBSET Shot!Requests, Shot!Answers(r, status, pictures),
         \A q \in pictures : shotAt[q] \notin Fresh,
         UNCHANGED <<stamp, files, snapshots, clock, cameras>>,
         devices \subseteq devices', devices' \subseteq Devices,
         status \in {200, 404} => Fits(r, status, pictures)
  PROVE  ShotInv'
<1>1. /\ shotAt[r] = from /\ shotAt'[r] = "done"
      /\ \A s \in Shot!Requests : s # r => shotAt'[s] = shotAt[s]
      /\ shotAt' \in [Shot!Requests -> Places] /\ ask' = ask /\ kept' = kept
  BY StepFacts DEF Places
<1>2. /\ code'[r] = status /\ page'[r] = pictures
      /\ \A s \in Shot!Requests : s # r => code'[s] = code[s] /\ page'[s] = page[s]
      /\ code' \in [Shot!Requests -> {0, 200, 201, 400, 404, 500}]
      /\ page' \in [Shot!Requests -> SUBSET Shot!Requests]
  BY AnswerFacts
<1>3. Moves(r)
  BY <1>1, <1>2 DEF Moves, Fresh
<1>4. ShotTypes'
  BY <1>1, <1>2 DEF ShotInv, ShotTypes
<1>5. Handled(r)'
  <2>1. Handled(r)
    BY DEF ShotInv
  <2>2. ask[r] \in Asks(r)
    BY <1>1, <2>1 DEF Handled
  <2>3. \A c \in kept'[r] : ask'[c].kind = "capture" /\ code'[c] = 201
    <3>1. \A c \in kept[r] : ask[c].kind = "capture" /\ code[c] = 201 /\ c \in Shot!Requests
      BY <2>1 DEF Handled, ShotInv, ShotTypes
    <3>2. \A c \in kept[r] : c # r
      BY <1>1, <2>1, <3>1 DEF Handled
    <3>3. QED
      BY <1>1, <1>2, <3>1, <3>2
  <2>4. \A q \in page'[r] : shotAt'[q] \notin Fresh
    BY <1>2, <1>3, PastStays
  <2>5. status \in {200, 404} => Fits(r, code[r], page[r])'
    <3>1. \A c, q : Shot!Twins(c, q)' <=> Shot!Twins(c, q)
      BY <1>1 DEF Shot!Twins
    <3>2. QED
      BY <1>1, <1>2, <3>1 DEF Fits
  <2>6. QED
    BY <1>1, <1>2, <2>2, <2>3, <2>4, <2>5 DEF Handled
<1>6. QED
  BY <1>3, <1>4, <1>5, StepKeeps

-----------------------------------------------------------------------------
(* The steps.                                                              *)

\* Rows of devices change, and time passes.
LEMMA AroundKeeps ==
  ASSUME ShotInv, Shot!Tick \/ \E d \in Devices : Shot!RegisterCamera(d) \/ Shot!RemoveCamera(d)
  PROVE  ShotInv'
<1>1. /\ UNCHANGED <<shotAt, ask, kept, stamp, files, snapshots, code, page>>
      /\ devices \subseteq devices' /\ devices' \subseteq Devices /\ cameras' \subseteq devices'
      /\ clock' \in Shot!Times
  <2>1. /\ cameras \subseteq devices /\ devices \subseteq Devices
        /\ clock \in Shot!Times /\ MaxTime \in Nat
    BY TimeAssumption DEF ShotInv, ShotTypes
  <2>2. CASE Shot!Tick
    BY <2>1, <2>2 DEF Shot!Tick, Shot!handler, Shot!row, Shot!album, Shot!answers, Shot!Times
  <2>3. ASSUME NEW d \in Devices, Shot!RegisterCamera(d) \/ Shot!RemoveCamera(d)
        PROVE  /\ UNCHANGED <<shotAt, ask, kept, stamp, files, snapshots, code, page>>
               /\ devices \subseteq devices' /\ devices' \subseteq Devices
               /\ cameras' \subseteq devices' /\ clock' \in Shot!Times
    BY <2>1, <2>3 DEF Shot!RegisterCamera, Shot!RemoveCamera,
                      Shot!handler, Shot!album, Shot!answers
  <2>4. QED
    BY <2>2, <2>3
<1>2. ShotTypes'
  BY <1>1 DEF ShotInv, ShotTypes
<1>3. FilesTrue'
  BY <1>1 DEF ShotInv, FilesTrue
<1>4. RowsTrue'
  <2>1. \A q : Shot!Row(q)' = Shot!Row(q) /\ (Entered(q) => Entered(q)')
    BY <1>1 DEF Shot!Row, Entered
  <2>2. QED
    BY <1>1, <2>1 DEF ShotInv, RowsTrue
<1>5. ASSUME NEW r \in Shot!Requests PROVE Handled(r)'
  <2>1. Handled(r)
    BY DEF ShotInv
  <2>2. Fits(r, code[r], page[r])' <=> Fits(r, code[r], page[r])
    BY <1>1 DEF Fits, Shot!Twins
  <2>3. Shot!Row(r)' = Shot!Row(r)
    BY <1>1 DEF Shot!Row
  <2>4. QED
    BY <1>1, <2>1, <2>2, <2>3 DEF Handled
<1>6. QED
  BY <1>2, <1>3, <1>4, <1>5 DEF ShotInv

\* A request comes, and may be refused.
LEMMA ArriveShotKeeps ==
  ASSUME ShotInv, NEW r \in Shot!Requests, NEW a \in Asks(r), Shot!Arrive(r, a) PROVE ShotInv'
<1>1. PICK refused \in BOOLEAN :
        /\ refused <=> a.kind = "capture" /\ ~a.complete
        /\ shotAt' = [shotAt EXCEPT ![r] = IF refused THEN "done" ELSE "find"]
        /\ code' = [code EXCEPT ![r] = IF refused THEN 400 ELSE 0]
  BY DEF Shot!Arrive
<1>2. /\ shotAt[r] = "idle" /\ ask' = [ask EXCEPT ![r] = a]
      /\ kept' = [kept EXCEPT ![r] =
           {q \in Shot!Requests : ask[q].kind = "capture" /\ code[q] = 201}]
      /\ UNCHANGED <<devices, cameras, clock, stamp, files, snapshots, page>>
  BY DEF Shot!Arrive, Shot!row, Shot!album
<1>3. /\ shotAt'[r] \in {"done", "find"}
      /\ code'[r] \in {0, 400} /\ ask'[r] = a
      /\ code'[r] # 0 => shotAt'[r] = "done"
      /\ kept'[r] = {q \in Shot!Requests : ask[q].kind = "capture" /\ code[q] = 201}
      /\ \A s \in Shot!Requests : s # r =>
           shotAt'[s] = shotAt[s] /\ code'[s] = code[s] /\ ask'[s] = ask[s] /\ kept'[s] = kept[s]
  BY <1>1, <1>2 DEF ShotInv, ShotTypes
<1>4. Handled(r)
  BY DEF ShotInv
<1>5. Moves(r)
  BY <1>2, <1>3 DEF Moves, Fresh
<1>6. ShotTypes'
  <2>1. shotAt' \in [Shot!Requests -> Places]
    BY <1>1 DEF ShotInv, ShotTypes, Places
  <2>2. code' \in [Shot!Requests -> {0, 200, 201, 400, 404, 500}]
    BY <1>1 DEF ShotInv, ShotTypes
  <2>3. DOMAIN ask' = Shot!Requests /\ kept' \in [Shot!Requests -> SUBSET Shot!Requests]
    BY <1>2 DEF ShotInv, ShotTypes
  <2>4. \A s \in Shot!Requests : ask'[s] \in {[kind |-> "none"]} \cup Asks(s)
    BY <1>3 DEF ShotInv, ShotTypes
  <2>5. QED
    BY <1>2, <2>1, <2>2, <2>3, <2>4 DEF ShotInv, ShotTypes
<1>7. Handled(r)'
  <2>1. \A c \in kept'[r] : ask'[c].kind = "capture" /\ code'[c] = 201
    <3>1. code[r] = 0
      BY <1>2, <1>4 DEF Handled
    <3>2. \A c \in kept'[r] : c \in Shot!Requests /\ c # r /\ ask[c].kind = "capture" /\ code[c] = 201
      BY <1>3, <3>1
    <3>3. QED
      BY <1>3, <3>2
  <2>2. \A q \in page'[r] : shotAt'[q] \notin Fresh
    <3>1. \A q \in page[r] : q \in Shot!Requests /\ shotAt[q] \notin Fresh
      BY <1>4 DEF Handled, ShotInv, ShotTypes
    <3>2. QED
      BY <1>2, <1>5, <3>1, PastStays
  <2>3. /\ shotAt'[r] \notin {"write", "insert", "path", "send", "query"}
        /\ code'[r] \notin {200, 201, 404} /\ ask'[r] \in Asks(r)
    BY <1>3
  <2>4. code'[r] # 0 => shotAt'[r] = "done"
    BY <1>3
  <2>5. QED
    BY <2>1, <2>2, <2>3, <2>4 DEF Handled
<1>8. QED
  BY <1>2, <1>5, <1>6, <1>7, StepKeeps

\* A capture finds its device, or makes it.
LEMMA FindForCaptureKeeps ==
  ASSUME ShotInv, NEW r \in Shot!Requests, Shot!FindForCapture(r) PROVE ShotInv'
<1>1. /\ ask[r].kind = "capture" /\ devices' = devices \cup {ask[r].device}
      /\ UNCHANGED <<cameras, clock, stamp, files, snapshots>>
      /\ \/ Shot!Steps(r, "find", "write") /\ UNCHANGED <<code, page>>
         \/ Shot!Steps(r, "find", "done") /\ Shot!Answers(r, 404, {})
  BY DEF Shot!FindForCapture, Shot!album, Shot!answers
<1>2. shotAt[r] # "idle"
  BY <1>1 DEF Shot!Steps
<1>3. devices \subseteq devices' /\ devices' \subseteq Devices /\ ask[r].device \in devices'
  BY <1>1, <1>2, AskFacts DEF ShotInv, ShotTypes
<1>4. CASE Shot!Steps(r, "find", "write") /\ UNCHANGED <<code, page>>
  BY <1>1, <1>3, <1>4, OnwardKeeps DEF Places, Fresh
<1>5. CASE Shot!Steps(r, "find", "done") /\ Shot!Answers(r, 404, {})
  <2>1. Fits(r, 404, {})
    BY <1>1 DEF Fits
  <2>2. QED
    BY <1>1, <1>3, <1>5, <2>1, EndKeeps DEF Places
<1>6. QED
  BY <1>1, <1>4, <1>5

\* The picture that a request for an image looks for is there, once it was found.
LEMMA ImageFacts ==
  ASSUME ShotInv, NEW r \in Shot!Requests, shotAt[r] \in {"path", "send"},
         NEW s \in snapshots, s.snapshotId = ask[r].id
  PROVE  ask[r].kind = "image" /\ s.device = ask[r].device
<1>1. Handled(r)
  BY DEF ShotInv
<1>2. ask[r].kind = "image" /\ \E t \in snapshots : t.snapshotId = ask[r].id /\ t.device = ask[r].device
  BY <1>1 DEF Handled
<1>3. QED
  BY <1>2 DEF ShotInv, RowsTrue

\* An image is asked for by its id.
LEMMA FindForImageKeeps ==
  ASSUME ShotInv, NEW r \in Shot!Requests, Shot!FindForImage(r) PROVE ShotInv'
<1> DEFINE found == \E s \in snapshots : s.snapshotId = ask[r].id /\ s.device = ask[r].device
<1>1. /\ ask[r].kind = "image" /\ UNCHANGED <<devices, cameras, clock, stamp, files, snapshots>>
      /\ \/ found /\ Shot!Steps(r, "find", "path") /\ UNCHANGED <<code, page>>
         \/ ~found /\ Shot!Steps(r, "find", "done") /\ Shot!Answers(r, 404, {})
  BY DEF Shot!FindForImage, Shot!row, Shot!album, Shot!answers
<1>2. devices \subseteq devices' /\ devices' \subseteq Devices
  BY <1>1 DEF ShotInv, ShotTypes
<1>3. CASE found /\ Shot!Steps(r, "find", "path") /\ UNCHANGED <<code, page>>
  BY <1>1, <1>2, <1>3, OnwardKeeps DEF Places, Fresh
<1>4. CASE ~found /\ Shot!Steps(r, "find", "done") /\ Shot!Answers(r, 404, {})
  <2>1. \A c \in kept[r] : ~ (ask[c].device = ask[r].device /\ stamp[c][1] = ask[r].id)
    BY <1>4, KeptFacts
  <2>2. Fits(r, 404, {})
    BY <1>1, <2>1 DEF Fits
  <2>3. QED
    BY <1>1, <1>2, <1>4, <2>2, EndKeeps DEF Places
<1>5. QED
  BY <1>1, <1>3, <1>4

\* Its file is there.
LEMMA FindPathKeeps ==
  ASSUME ShotInv, NEW r \in Shot!Requests, Shot!FindPath(r) PROVE ShotInv'
<1>1. PICK s \in snapshots :
        /\ s.snapshotId = ask[r].id
        /\ \/ Shot!Steps(r, "path", "send") /\ UNCHANGED <<code, page>>
           \/ files[Shot!Path(s)] = 0
  BY DEF Shot!FindPath, Shot!answers
<1>2. shotAt[r] = "path" /\ UNCHANGED <<devices, cameras, clock, stamp, files, snapshots>>
  BY DEF Shot!FindPath, Shot!row, Shot!album
<1>3. Shot!Steps(r, "path", "send") /\ UNCHANGED <<code, page>>
  BY <1>1, ShotRowFacts
<1>4. ask[r].kind = "image" /\ s.device = ask[r].device
  BY <1>1, <1>2, ImageFacts
<1>5. devices \subseteq devices' /\ devices' \subseteq Devices
  BY <1>2 DEF ShotInv, ShotTypes
<1>6. QED
  BY <1>1, <1>2, <1>3, <1>4, <1>5, OnwardKeeps DEF Places, Fresh

\* What the file holds is sent.
LEMMA SendFileKeeps ==
  ASSUME ShotInv, NEW r \in Shot!Requests, Shot!SendFile(r) PROVE ShotInv'
<1>1. /\ Shot!Steps(r, "send", "done")
      /\ UNCHANGED <<devices, cameras, clock, stamp, files, snapshots>>
  BY DEF Shot!SendFile, Shot!row, Shot!album
<1>2. PICK s \in snapshots :
        s.snapshotId = ask[r].id /\ Shot!Answers(r, 200, {files[Shot!Path(s)]})
  BY DEF Shot!SendFile
<1>3. PICK q : q = files[Shot!Path(s)]
  OBVIOUS
<1>4. /\ Shot!Path(s) \in Devices \X Shot!Times /\ q # 0
      /\ Shot!Path(s)[1] = s.device /\ Shot!Path(s)[2] = s.snapshotId
  BY <1>3, ShotRowFacts
<1>5. q \in Shot!Requests /\ shotAt[q] \notin Fresh
      /\ ask[q].device = s.device /\ stamp[q][1] = s.snapshotId
  <2>1. q \in Shot!Requests
    BY <1>3, <1>4, ShotsAssumption DEF ShotInv, ShotTypes, Shot!Requests
  <2>2. QED
    BY <1>3, <1>4, <2>1 DEF ShotInv, FilesTrue
<1>6. shotAt[r] = "send"
  BY <1>1 DEF Shot!Steps
<1>7. ask[r].kind = "image" /\ s.device = ask[r].device
  BY <1>2, <1>6, ImageFacts
<1>8. Fits(r, 200, {q})
  BY <1>2, <1>5, <1>7 DEF Fits, Shot!Twins
<1>9. devices \subseteq devices' /\ devices' \subseteq Devices
  BY <1>1 DEF ShotInv, ShotTypes
<1>10. Shot!Answers(r, 200, {q})
  BY <1>2, <1>3
<1>11. QED
  BY <1>1, <1>5, <1>8, <1>9, <1>10, EndKeeps DEF Places

\* A list is asked for.
LEMMA FindForListKeeps ==
  ASSUME ShotInv, NEW r \in Shot!Requests, Shot!FindForList(r) PROVE ShotInv'
<1>1. /\ ask[r].kind = "list" /\ UNCHANGED <<devices, cameras, clock, stamp, files, snapshots>>
      /\ \/ /\ ask[r].device \in devices
            /\ Shot!Steps(r, "find", "query") /\ UNCHANGED <<code, page>>
         \/ /\ ask[r].device \notin devices
            /\ Shot!Steps(r, "find", "done") /\ Shot!Answers(r, 404, {})
  BY DEF Shot!FindForList, Shot!row, Shot!album, Shot!answers
<1>2. devices \subseteq devices' /\ devices' \subseteq Devices
  BY <1>1 DEF ShotInv, ShotTypes
<1>3. CASE /\ ask[r].device \in devices
           /\ Shot!Steps(r, "find", "query") /\ UNCHANGED <<code, page>>
  BY <1>1, <1>2, <1>3, OnwardKeeps DEF Places, Fresh
<1>4. CASE /\ ask[r].device \notin devices
           /\ Shot!Steps(r, "find", "done") /\ Shot!Answers(r, 404, {})
  <2>1. \A c \in kept[r] : ask[c].device \in devices
    BY KeptFacts DEF Entered
  <2>2. Fits(r, 404, {})
    BY <1>1, <1>4, <2>1 DEF Fits
  <2>3. QED
    BY <1>1, <1>2, <1>4, <2>2, EndKeeps DEF Places
<1>5. QED
  BY <1>1, <1>3, <1>4

\* A step fails.
LEMMA FailShotKeeps ==
  ASSUME ShotInv, NEW r \in Shot!Requests, Shot!Fail(r) PROVE ShotInv'
<1>1. /\ UNCHANGED <<devices, cameras, clock, stamp, files, snapshots>>
      /\ Shot!Answers(r, 500, {})
  BY DEF Shot!Fail, Shot!row, Shot!album
<1>2. PICK from \in {"find", "write", "insert", "path", "send", "query"} :
        Shot!Steps(r, from, "done")
  BY DEF Shot!Fail
<1>3. devices \subseteq devices' /\ devices' \subseteq Devices
  BY <1>1 DEF ShotInv, ShotTypes
<1>4. QED
  BY <1>1, <1>2, <1>3, EndKeeps DEF Places

\* A picture is written, and lies in the file of its millisecond from then on.
LEMMA WriteFileKeeps ==
  ASSUME ShotInv, NEW r \in Shot!Requests, Shot!WriteFile(r) PROVE ShotInv'
<1>1. PICK now \in {clock, clock + 1} \cap Shot!Times :
        stamp' = [stamp EXCEPT ![r] = <<clock, now>>] /\ clock' = now
  BY DEF Shot!WriteFile
<1>2. /\ Shot!Steps(r, "write", "insert")
      /\ files' = [files EXCEPT ![<<ask[r].device, clock>>] = r]
      /\ UNCHANGED <<devices, cameras, snapshots, code, page>>
  BY DEF Shot!WriteFile, Shot!row, Shot!answers
<1>3. /\ shotAt[r] = "write" /\ shotAt'[r] = "insert"
      /\ \A s \in Shot!Requests : s # r => shotAt'[s] = shotAt[s]
      /\ shotAt' \in [Shot!Requests -> Places] /\ ask' = ask /\ kept' = kept
  BY <1>2, StepFacts DEF Places
<1>4. /\ stamp'[r] = <<clock, now>> /\ stamp'[r][1] = clock
      /\ \A s \in Shot!Requests : s # r => stamp'[s] = stamp[s]
  BY <1>1 DEF ShotInv, ShotTypes
<1>5. /\ Handled(r) /\ ask[r] \in Asks(r) /\ code[r] = 0
      /\ ask[r].kind = "capture" /\ ask[r].device \in devices
  <2>1. Handled(r) /\ shotAt[r] = "write"
    BY <1>3 DEF ShotInv
  <2>2. QED
    BY <2>1 DEF Handled
<1>6. PICK k : k = <<ask[r].device, clock>>
  OBVIOUS
<1>7. /\ k \in Devices \X Shot!Times /\ k[1] = ask[r].device /\ k[2] = clock
      /\ files'[k] = r /\ r # 0
      /\ \A f \in Devices \X Shot!Times : f # k => files'[f] = files[f]
  BY <1>2, <1>5, <1>6 DEF ShotInv, ShotTypes, Shot!Requests
<1>8. Moves(r)
  BY <1>2, <1>3, <1>4 DEF Moves, Fresh
<1>9. ShotTypes'
  <2>1. clock \in 0 .. MaxTime /\ now \in 0 .. MaxTime
    BY TimeAssumption DEF ShotInv, ShotTypes, Shot!Times
  <2>2. stamp' \in [Shot!Requests -> (0 .. MaxTime) \X (0 .. MaxTime)]
    BY <1>1, <2>1 DEF ShotInv, ShotTypes
  <2>3. files' \in [Devices \X Shot!Times -> 0 .. Shots]
    <3>1. r \in 0 .. Shots
      BY ShotsAssumption DEF Shot!Requests
    <3>2. files \in [Devices \X Shot!Times -> 0 .. Shots]
      BY DEF ShotInv, ShotTypes
    <3>3. QED
      BY <1>2, <3>1, <3>2
  <2>4. QED
    BY <1>1, <1>2, <1>3, <2>2, <2>3 DEF ShotInv, ShotTypes
<1>10. FilesTrue'
  <2>1. ASSUME NEW f \in Devices \X Shot!Times, files'[f] # 0
        PROVE  /\ shotAt'[files'[f]] \notin Fresh
               /\ ask'[files'[f]].device = f[1] /\ stamp'[files'[f]][1] = f[2]
    <3>1. CASE f = k
      BY <1>3, <1>4, <1>7, <3>1 DEF Fresh
    <3>2. CASE f # k
      BY <1>7, <1>8, <2>1, <3>2, OldFileStays
    <3>3. QED
      BY <3>1, <3>2
  <2>2. QED
    BY <2>1 DEF FilesTrue
<1>11. \A f \in Devices \X Shot!Times : files[f] # 0 => files'[f] # 0
  BY <1>7
<1>12. RowsTrue'
  BY <1>2, <1>8, <1>11, OldRowStays DEF ShotInv, RowsTrue
<1>13. Handled(r)'
  <2>1. stamp'[r][1] \in Shot!Times /\ files'[<<ask'[r].device, stamp'[r][1]>>] # 0
    BY <1>3, <1>4, <1>6, <1>7 DEF ShotInv, ShotTypes
  <2>2. \A c \in kept'[r] : ask'[c].kind = "capture" /\ code'[c] = 201
    BY <1>2, <1>3, <1>5 DEF Handled
  <2>3. \A q \in page'[r] : shotAt'[q] \notin Fresh
    <3>1. \A q \in page[r] : q \in Shot!Requests /\ shotAt[q] \notin Fresh
      BY <1>5 DEF Handled, ShotInv, ShotTypes
    <3>2. QED
      BY <1>2, <1>8, <3>1, PastStays
  <2>4. shotAt'[r] = "insert" /\ code'[r] = 0 /\ ask'[r] = ask[r] /\ devices' = devices
    BY <1>2, <1>3, <1>5
  <2>5. QED
    BY <1>5, <2>1, <2>2, <2>3, <2>4 DEF Handled
<1>14. \A s \in Shot!Requests : s # r => Handled(s)'
  BY <1>2, <1>8, <1>11, OthersStay
<1>15. QED
  BY <1>9, <1>10, <1>12, <1>13, <1>14 DEF ShotInv

\* Its row is stored, unless the id is taken.
LEMMA InsertShotKeeps ==
  ASSUME ShotInv, NEW r \in Shot!Requests, Shot!InsertRow(r) PROVE ShotInv'
<1> DEFINE taken == \E s \in snapshots : s.snapshotId = Shot!Row(r).snapshotId
<1>1. /\ Shot!Steps(r, "insert", "done")
      /\ UNCHANGED <<devices, cameras, clock, stamp, files>>
      /\ \/ taken /\ Shot!Answers(r, 500, {}) /\ UNCHANGED snapshots
         \/ /\ ~taken /\ Shot!Answers(r, 201, {})
            /\ snapshots' = snapshots \cup {Shot!Row(r)}
  BY DEF Shot!InsertRow, Shot!row
<1>2. /\ shotAt[r] = "insert" /\ shotAt'[r] = "done"
      /\ \A s \in Shot!Requests : s # r => shotAt'[s] = shotAt[s]
      /\ shotAt' \in [Shot!Requests -> Places] /\ ask' = ask /\ kept' = kept
  BY <1>1, StepFacts DEF Places
<1>3. CASE taken /\ Shot!Answers(r, 500, {}) /\ UNCHANGED snapshots
  <2>1. devices \subseteq devices' /\ devices' \subseteq Devices
    BY <1>1 DEF ShotInv, ShotTypes
  <2>2. QED
    BY <1>1, <1>3, <2>1, EndKeeps DEF Places
<1>4. CASE /\ ~taken /\ Shot!Answers(r, 201, {})
           /\ snapshots' = snapshots \cup {Shot!Row(r)}
  <2>1. /\ code'[r] = 201 /\ page'[r] = {}
        /\ \A s \in Shot!Requests : s # r => code'[s] = code[s] /\ page'[s] = page[s]
        /\ code' \in [Shot!Requests -> {0, 200, 201, 400, 404, 500}]
        /\ page' \in [Shot!Requests -> SUBSET Shot!Requests]
    BY <1>4, AnswerFacts
  <2>2. /\ Handled(r) /\ code[r] = 0 /\ ask[r] \in Asks(r) /\ ask[r].kind = "capture"
        /\ ask[r].device \in devices /\ stamp[r][1] \in Shot!Times
        /\ files[<<ask[r].device, stamp[r][1]>>] # 0
    BY <1>2 DEF ShotInv, Handled
  <2>3. Moves(r)
    BY <1>1, <1>2, <2>1 DEF Moves, Fresh
  <2>4. Shot!Row(r)' = Shot!Row(r) /\ Shot!Row(r).of = r
    BY <1>1, <1>2 DEF Shot!Row
  <2>5. ShotTypes'
    <3>1. IsFiniteSet(snapshots')
      BY <1>4, FS_AddElement DEF ShotInv, ShotTypes
    <3>2. QED
      BY <1>1, <1>2, <2>1, <3>1 DEF ShotInv, ShotTypes
  <2>6. FilesTrue'
    BY <1>1, <2>3, OldFileStays DEF FilesTrue
  <2>7. RowsTrue'
    <3>1. \A s \in snapshots : s = Shot!Row(s.of)' /\ Entered(s.of)'
      BY <1>1, <2>3, OldRowStays
    <3>2. Entered(r)'
      BY <1>1, <1>2, <2>2 DEF Entered
    <3>3. \A s \in snapshots' : s = Shot!Row(s.of)' /\ Entered(s.of)'
      BY <1>4, <2>4, <3>1, <3>2
    <3>4. \A s, t \in snapshots' : s.snapshotId = t.snapshotId => s = t
      BY <1>4 DEF ShotInv, RowsTrue
    <3>5. QED
      BY <3>3, <3>4 DEF RowsTrue
  <2>8. Handled(r)'
    <3>1. \A c \in kept'[r] : ask'[c].kind = "capture" /\ code'[c] = 201
      <4>1. \A c \in kept[r] : ask[c].kind = "capture" /\ code[c] = 201 /\ c \in Shot!Requests
        BY <2>2 DEF Handled, ShotInv, ShotTypes
      <4>2. \A c \in kept[r] : c # r
        BY <2>2, <4>1
      <4>3. QED
        BY <1>2, <2>1, <4>1, <4>2
    <3>2. Shot!Row(r)' \in snapshots'
      BY <1>4, <2>4
    <3>3. QED
      BY <1>2, <2>1, <2>2, <3>1, <3>2 DEF Handled
  <2>9. \A s \in Shot!Requests : s # r => Handled(s)'
    BY <1>1, <1>4, <2>3, OthersStay
  <2>10. QED
    BY <2>5, <2>6, <2>7, <2>8, <2>9 DEF ShotInv
<1>5. QED
  BY <1>1, <1>3, <1>4

\* An instance counts as everybody does.
LEMMA SameCountOfShots == \A S : Shot!Cardinality(S) = Cardinality(S)
BY DEF Shot!Cardinality, Cardinality

\* The smaller of two numbers.
LEMMA SmallerOfTwo ==
  ASSUME NEW a \in Nat, NEW b \in Nat
  PROVE  /\ Shot!Min({a, b}) \in {a, b}
         /\ Shot!Min({a, b}) <= a /\ Shot!Min({a, b}) <= b
<1>1. \E x \in {a, b} : \A y \in {a, b} : x <= y
  OBVIOUS
<1>2. QED
  BY <1>1 DEF Shot!Min

\* The newest are listed.
LEMMA QueryListKeeps ==
  ASSUME ShotInv, NEW r \in Shot!Requests, Shot!QueryList(r) PROVE ShotInv'
<1>1. PICK found : found = {s \in snapshots : /\ s.device = ask[r].device
                                              /\ s.capturedAt \in ask[r].from .. ask[r].to}
  OBVIOUS
<1>2. PICK listed \in Shot!kSubset(Shot!Min({ask[r].limit, Shot!Cardinality(found)}), found) :
        /\ \A s \in listed, t \in found \ listed : s.capturedAt >= t.capturedAt
        /\ Shot!Answers(r, 200, {s.of : s \in listed})
  BY <1>1 DEF Shot!QueryList
<1>3. /\ Shot!Steps(r, "query", "done")
      /\ UNCHANGED <<devices, cameras, clock, stamp, files, snapshots>>
  BY DEF Shot!QueryList, Shot!row, Shot!album
<1>4. shotAt[r] = "query" /\ ask[r].kind = "list" /\ ask[r].limit \in Nat
  BY <1>3, AskFacts DEF Shot!Steps, ShotInv, Handled
<1>5. /\ IsFiniteSet(found) /\ IsFiniteSet(listed) /\ listed \subseteq found /\ found \subseteq snapshots
      /\ Cardinality(listed) <= Cardinality(found)
      /\ Cardinality(listed) = Cardinality(found) => listed = found
      /\ Cardinality(listed) = Shot!Min({ask[r].limit, Cardinality(found)})
  <2>1. found \subseteq snapshots /\ IsFiniteSet(snapshots)
    BY <1>1 DEF ShotInv, ShotTypes
  <2>2. IsFiniteSet(found)
    BY <2>1, FS_Subset
  <2>3. listed \subseteq found /\ Cardinality(listed) = Shot!Min({ask[r].limit, Cardinality(found)})
    BY <1>2, SameCountOfShots DEF Shot!kSubset
  <2>4. QED
    BY <2>1, <2>2, <2>3, FS_Subset
<1>6. Cardinality(found) \in Nat /\ Cardinality(listed) \in Nat
  BY <1>5, FS_CardinalityType
<1>7. listed # found => Cardinality(listed) = ask[r].limit
  BY <1>4, <1>5, <1>6, SmallerOfTwo
<1>8. PICK pictures : pictures = {s.of : s \in listed}
  OBVIOUS
<1>9. \A s \in listed : /\ s \in snapshots /\ s.of \in Shot!Requests /\ shotAt[s.of] \notin Fresh
                        /\ s = Shot!Row(s.of) /\ s.capturedAt = stamp[s.of][2]
                        /\ ask[s.of].device = ask[r].device
  BY <1>1, <1>5, ShotRowFacts
<1>10. Cardinality(pictures) = Cardinality(listed)
  <2>1. PICK f : f = [s \in listed |-> s.of]
    OBVIOUS
  <2>2. f \in Surjection(listed, pictures) /\ f \in Injection(listed, pictures)
    <3>1. f \in [listed -> pictures] /\ \A s \in listed : f[s] = s.of
      BY <1>8, <2>1
    <3>2. \A p \in pictures : \E s \in listed : f[s] = p
      BY <1>8, <3>1
    <3>3. \A s, t \in listed : f[s] = f[t] => s = t
      BY <1>9, <3>1
    <3>4. QED
      BY <3>1, <3>2, <3>3 DEF Surjection, Injection, IsInjective
  <2>3. QED
    BY <1>5, <2>2, FS_Surjection
<1>11. ASSUME NEW c \in kept[r], ask[c].device = ask[r].device,
              stamp[c][2] \in ask[r].from .. ask[r].to, c \notin pictures
       PROVE  /\ Cardinality(pictures) = ask[r].limit
              /\ \A q \in pictures : stamp[q][2] \in stamp[c][2] .. ask[r].to
  <2>1. PICK t : t = Shot!Row(c)
    OBVIOUS
  <2>2. t \in found /\ t.capturedAt = stamp[c][2] /\ t.of = c
    BY <1>1, <1>11, <2>1, KeptFacts
  <2>3. t \notin listed
    BY <1>8, <1>11, <2>2
  <2>4. \A s \in listed : stamp[s.of][2] >= stamp[c][2] /\ stamp[s.of][2] \in ask[r].from .. ask[r].to
    BY <1>1, <1>2, <1>5, <1>9, <2>2, <2>3
  <2>5. Cardinality(pictures) = ask[r].limit
    BY <1>7, <1>10, <2>2, <2>3
  <2>6. QED
    BY <1>8, <2>4, <2>5
<1>12. pictures \subseteq Shot!Requests /\ \A q \in pictures :
         shotAt[q] \notin Fresh /\ ask[q].device = ask[r].device
  BY <1>8, <1>9
<1>13. Fits(r, 200, pictures)
  BY <1>4, <1>11, <1>12 DEF Fits
<1>14. devices \subseteq devices' /\ devices' \subseteq Devices
  BY <1>3 DEF ShotInv, ShotTypes
<1>15. Shot!Answers(r, 200, pictures)
  BY <1>2, <1>8
<1>16. QED
  BY <1>3, <1>12, <1>13, <1>14, <1>15, EndKeeps DEF Places

-----------------------------------------------------------------------------
(* The invariant holds, and what follows from it.                          *)

\* Nothing is stored at first.
LEMMA ShotsStart == Shot!Init => ShotInv
<1> SUFFICES ASSUME Shot!Init PROVE ShotInv
  OBVIOUS
<1>1. ShotTypes
  <2>1. 1 \in Shot!Times /\ 0 \in 0 .. MaxTime /\ 0 \in 0 .. Shots
    BY TimeAssumption, ShotsAssumption DEF Shot!Times
  <2>2. stamp \in [Shot!Requests -> (0 .. MaxTime) \X (0 .. MaxTime)]
    BY <2>1 DEF Shot!Init
  <2>3. files \in [Devices \X Shot!Times -> 0 .. Shots]
    BY <2>1 DEF Shot!Init
  <2>4. IsFiniteSet(snapshots)
    BY FS_EmptySet DEF Shot!Init
  <2>5. QED
    BY <2>1, <2>2, <2>3, <2>4 DEF Shot!Init, ShotTypes, Places
<1>2. FilesTrue /\ RowsTrue
  BY DEF Shot!Init, FilesTrue, RowsTrue
<1>3. ASSUME NEW r \in Shot!Requests PROVE Handled(r)
  <2>1. shotAt[r] = "idle" /\ code[r] = 0 /\ page[r] = {} /\ kept[r] = {}
    BY DEF Shot!Init
  <2>2. QED
    BY <2>1 DEF Handled
<1>4. QED
  BY <1>1, <1>2, <1>3 DEF ShotInv

\* Every step keeps it.
LEMMA ShotsKeep == ShotInv /\ Shot!Next => ShotInv'
<1> SUFFICES ASSUME ShotInv, Shot!Next PROVE ShotInv'
  OBVIOUS
<1>1. CASE Shot!Tick \/ \E d \in Devices : Shot!RegisterCamera(d) \/ Shot!RemoveCamera(d)
  BY <1>1, AroundKeeps
<1>2. ASSUME NEW r \in Shot!Requests,
             (\E a \in Asks(r) : Shot!Arrive(r, a)) \/ Shot!Handle(r) \/ Shot!Fail(r)
      PROVE  ShotInv'
  BY <1>2, ArriveShotKeeps, FindForCaptureKeeps, WriteFileKeeps, InsertShotKeeps,
     FindForImageKeeps, FindPathKeeps, SendFileKeeps, FindForListKeeps, QueryListKeeps,
     FailShotKeeps DEF Shot!Handle
<1>3. QED
  BY <1>1, <1>2 DEF Shot!Next

\* The invariant, and the types with it, at every step.
LEMMA ShotsStay ==
  /\ HardwareInit => ShotInv
  /\ ShotInv /\ [HardwareNext]_<<area, vars, album>> => ShotInv'
<1>1. HardwareInit => ShotInv
  BY ShotsStart DEF HardwareInit
<1>2. ASSUME ShotInv, HardwareNext, area = "snapshots" PROVE ShotInv'
  BY <1>2, ShotsKeep DEF HardwareNext
<1>3. ASSUME ShotInv, UNCHANGED album PROVE ShotInv'
  <2>1. UNCHANGED <<shotAt, ask, devices, cameras, clock, stamp, files, snapshots, code, page, kept>>
    BY <1>3 DEF album
  <2>2. ShotTypes' /\ FilesTrue'
    BY <1>3, <2>1 DEF ShotInv, ShotTypes, FilesTrue
  <2>3. \A q : Shot!Row(q)' = Shot!Row(q) /\ (Entered(q) => Entered(q)')
    BY <2>1 DEF Shot!Row, Entered
  <2>4. RowsTrue'
    BY <1>3, <2>1, <2>3 DEF ShotInv, RowsTrue
  <2>5. ASSUME NEW r \in Shot!Requests PROVE Handled(r)'
    <3>1. Handled(r)
      BY <1>3 DEF ShotInv
    <3>2. Fits(r, code[r], page[r])' <=> Fits(r, code[r], page[r])
      BY <2>1 DEF Fits, Shot!Twins
    <3>3. QED
      BY <2>1, <2>3, <3>1, <3>2 DEF Handled
  <2>6. QED
    BY <2>2, <2>4, <2>5 DEF ShotInv
<1>4. QED
  BY <1>1, <1>2, <1>3 DEF HardwareNext

\* What a device was told is stored can be had from then on, and is its own
\* (CameraService.captureSnapshot, listSnapshots and getSnapshotImagePath).
THEOREM SnapshotsServed == HardwareSpec => []SnapshotServed
<1>1. ShotInv => SnapshotServed
  <2> SUFFICES ASSUME ShotInv, NEW r \in Shot!Requests, code[r] \in {200, 404}
               PROVE  Shot!SnapshotServed!(r)!2
    BY DEF SnapshotServed, Shot!SnapshotServed
  <2>1. Fits(r, code[r], page[r])
    BY DEF ShotInv, Handled
  <2>2. QED
    BY <2>1, SameCountOfShots DEF Fits
<1>2. QED
  BY <1>1, ShotsStay, PTL DEF HardwareSpec

\* Every variable of the requests of a device and of the snapshots has its type.
THEOREM HardwareTypeCorrect == HardwareSpec => []HardwareTypeOK
<1>1. HardwareSpec => Spec
  <2>1. HardwareInit => Init
    BY DEF HardwareInit
  <2>2. [HardwareNext]_<<area, vars, album>> => [Next]_vars
    BY DEF HardwareNext
  <2>3. QED
    BY <2>1, <2>2, PTL DEF HardwareSpec, Spec
<1>2. ShotInv => Shot!TypeOK
  <2> SUFFICES ASSUME ShotInv PROVE Shot!TypeOK
    OBVIOUS
  <2>1. \A s \in snapshots : \E r \in Shot!Requests : s = Shot!Row(r)
    BY ShotRowFacts
  <2>2. QED
    BY <2>1 DEF ShotInv, ShotTypes, Shot!TypeOK, Places
<1>3. QED
  BY <1>1, <1>2, ShotsStay, TypeCorrect, PTL DEF HardwareSpec, HardwareTypeOK
=============================================================================
