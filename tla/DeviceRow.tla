------------------------------ MODULE DeviceRow ------------------------------
(***************************************************************************)
(* The row of the devices table of the backend, and every handler that     *)
(* reads it, changes it in memory and saves it:                            *)
(*                                                                         *)
(*   pair            DevicesService.pairDevice                             *)
(*   heartbeat       SensorsService.processHeartbeat                       *)
(*   sensorData      SensorsService.processSensorData (its device part)    *)
(*   registerCamera  CameraService.registerCamera                          *)
(*   removeCamera    CameraService.removeCamera                            *)
(*   updateDevice    DevicesController.updateDevice                        *)
(*   command         DeviceControlProcessor.process (its device part)      *)
(*   ensure          findOrCreateByDeviceId and nothing more (snapshot     *)
(*                   capture, latest sensor data, sensor events)           *)
(*                                                                         *)
(* Node runs one handler at a time up to its next await, so a step here is *)
(* the code between two answers of the database.  Repository.save of an    *)
(* entity that has an id takes two of them: it SELECTs the row, compares   *)
(* the entity in memory with it, and then UPDATEs the columns that differ. *)
(* A column whose value in memory is undefined is left out.                *)
(***************************************************************************)
EXTENDS Naturals, FiniteSets

CONSTANTS
  DeviceIds,    \* device identifiers, chosen by the hardware
  Users,        \* accounts that may own a device
  Slots,        \* handlers in flight at once: each slot runs one at a time
  Kinds,        \* the handlers in play, a subset of AllKinds
  Names,        \* device names
  Connections,  \* connection states a PATCH may carry
  Statuses,     \* device states that reports, commands and PATCHes carry
  Times,        \* heartbeat timestamps
  Urls,         \* camera stream addresses
  Cameras,      \* camera model and credentials, as one value
  Settings,     \* keys of deviceConfig that a command can set
  None,         \* SQL null
  Undefined     \* JavaScript undefined

AllKinds == {"pair", "heartbeat", "sensorData", "registerCamera",
             "removeCamera", "updateDevice", "command", "ensure"}

ASSUME KindsAssumption == Kinds \subseteq AllKinds
ASSUME NoneAssumption == None \notin Users

Columns == {"user", "deviceName", "connectionStatus", "deviceStatus",
            "lastHeartbeat", "deviceConfig", "rtspUrl", "camera"}

\* The values of each column; the addresses, names and times are opaque.
Domain ==
  [user |-> Users \cup {None}, deviceName |-> Names \cup {None},
   connectionStatus |-> Connections \cup {"ONLINE", "OFFLINE"},
   deviceStatus |-> Statuses \cup {"IDLE"},
   lastHeartbeat |-> Times \cup {None}, deviceConfig |-> SUBSET Settings,
   rtspUrl |-> Urls \cup {None}, camera |-> Cameras \cup {None}]

\* In memory a column may also be undefined: the owner, when its relation was
\* not loaded, and a field that a request left out.
MemDomain(c) ==
  IF c = "deviceConfig" THEN Domain[c] ELSE Domain[c] \cup {Undefined}

ASSUME UndefinedAssumption ==
  /\ \A c \in Columns \ {"deviceConfig"} : Undefined \notin Domain[c]
  /\ \A S \in SUBSET Settings : Undefined # S

\* A row as the database creates it: every column at its default.
BlankRow ==
  [user |-> None, deviceName |-> None, connectionStatus |-> "OFFLINE",
   deviceStatus |-> "IDLE", lastHeartbeat |-> None, deviceConfig |-> {},
   rtspUrl |-> None, camera |-> None]

-----------------------------------------------------------------------------
(* Requests: the handler, its device, the account behind it and the        *)
(* columns it assigns.  The DTOs are classes whose fields are all defined  *)
(* (the compiler targets ES2023), so a handler that copies a field which   *)
(* the body left out assigns undefined.                                    *)

Requests(kind, byWhom, patches) ==
  [kind: {kind}, dev: DeviceIds, by: byWhom, patch: patches]

PairRequests ==
  UNION {Requests("pair", {u}, [user: {u}] \cup [user: {u}, deviceName: Names])
           : u \in Users}

HeartbeatRequests ==
  Requests("heartbeat", {None},
           [connectionStatus: {"ONLINE"}, lastHeartbeat: Times])

SensorDataRequests ==
  Requests("sensorData", {None},
           [deviceStatus: Statuses, connectionStatus: {"ONLINE"},
            lastHeartbeat: Times])

\* The credentials are optional, or null.
RegisterCameraRequests ==
  Requests("registerCamera", {None},
           [rtspUrl: Urls, camera: Cameras \cup {None, Undefined},
            connectionStatus: {"ONLINE"}, lastHeartbeat: Times])

RemoveCameraRequests ==
  Requests("removeCamera", {None}, [rtspUrl: {None}, camera: {None}])

\* UpdateDeviceDto: any of the three fields; a name may also be null.
UpdateDeviceRequests ==
  Requests("updateDevice", Users,
           [deviceName: Names \cup {None, Undefined},
            connectionStatus: Connections \cup {Undefined},
            deviceStatus: Statuses \cup {Undefined}])

\* START, RESUME, PAUSE and STOP set the status; SET_TEMPERATURE and
\* UPDATE_INTERVAL add a key to the configuration.
CommandRequests ==
  Requests("command", {None},
           [deviceStatus: Statuses \cap {"PROCESSING", "IDLE"},
            lastHeartbeat: Times]
           \cup [deviceConfig: {{s} : s \in Settings}, lastHeartbeat: Times])

EnsureRequests == Requests("ensure", {None}, {<<>>})

AllRequests ==
  {q \in UNION {PairRequests, HeartbeatRequests, SensorDataRequests,
                RegisterCameraRequests, RemoveCameraRequests,
                UpdateDeviceRequests, CommandRequests, EnsureRequests}
     : q.kind \in Kinds}

\* The handlers whose find leaves the user relation out.
WithoutUser == {"removeCamera", "updateDevice", "command"}
\* The handlers that check the row in an earlier find of their own.
Guarded == {"registerCamera", "removeCamera", "updateDevice"}

-----------------------------------------------------------------------------
VARIABLES
  known,      \* devices that have a row
  rows,       \* the rows; BlankRow for a device without one
  pc,         \* where each slot's handler is
  req,        \* the request of each slot
  mem,        \* the entity each handler holds in memory
  diff,       \* the columns save has found to differ
  reply,      \* the last answer of each slot
  overtaken,  \* history: columns others changed since the entity was read
  unguarded   \* history: columns others changed since the handler's check

vars == <<known, rows, pc, req, mem, diff, reply, overtaken, unguarded>>

NoRequest == [kind |-> "none", dev |-> None, by |-> None, patch |-> <<>>]

Init ==
  /\ known = {}
  /\ rows = [d \in DeviceIds |-> BlankRow]
  /\ pc = [s \in Slots |-> "idle"]
  /\ req = [s \in Slots |-> NoRequest]
  /\ mem = [s \in Slots |-> BlankRow]
  /\ diff = [s \in Slots |-> {}]
  /\ reply = [s \in Slots |-> "none"]
  /\ overtaken = [s \in Slots |-> {}]
  /\ unguarded = [s \in Slots |-> {}]

Row(s) == rows[req[s].dev]
HasRow(s) == req[s].dev \in known

-----------------------------------------------------------------------------
(* Operators.                                                              *)

\* Faulty: a relation that was not loaded reads as null.
LoadedNull(kind, row) ==
  IF kind \in WithoutUser THEN [row EXCEPT !.user = None] ELSE row

\* The entity a find returns: without the relation, user is undefined.
Loaded(kind, row) ==
  IF kind \in WithoutUser THEN [row EXCEPT !.user = Undefined] ELSE row

\* Faulty: a command replaces the configuration.
AssignedReplaced(entity, patch) ==
  [c \in Columns |-> IF c \in DOMAIN patch THEN patch[c] ELSE entity[c]]

\* Faulty: assignments give way to what the row holds (??= for =).
AssignedIfNull(entity, patch) ==
  [c \in Columns |->
     IF c \notin DOMAIN patch \/ entity[c] # None THEN entity[c] ELSE patch[c]]

\* The entity after the handler's assignments; deviceConfig is merged.
Assigned(entity, patch) ==
  [c \in Columns |->
     IF c \notin DOMAIN patch THEN entity[c]
     ELSE IF c = "deviceConfig" THEN entity[c] \cup patch[c]
     ELSE patch[c]]

\* Faulty: undefined is written like any other value.
DifferingAll(entity, row) == {c \in Columns : entity[c] # row[c]}

\* The columns save writes: defined in memory and different in the row.
Differing(entity, row) ==
  {c \in Columns : entity[c] # Undefined /\ entity[c] # row[c]}

Merged(row, entity, cols) ==
  [c \in Columns |-> IF c \in cols THEN entity[c] ELSE row[c]]

\* Slot s ends its handler with an answer.
Answer(s, a) ==
  /\ pc' = [pc EXCEPT ![s] = "idle"]
  /\ req' = [req EXCEPT ![s] = NoRequest]
  /\ mem' = [mem EXCEPT ![s] = BlankRow]
  /\ diff' = [diff EXCEPT ![s] = {}]
  /\ reply' = [reply EXCEPT ![s] = a]

Forget(s) ==
  /\ overtaken' = [overtaken EXCEPT ![s] = {}]
  /\ unguarded' = [unguarded EXCEPT ![s] = {}]

\* What a write of slot s adds to the history of the handlers that are at
\* work on the same device in one of these phases; its own starts afresh.
Note(hist, s, new, phases) ==
  [t \in Slots |->
     IF t = s THEN {}
     ELSE IF pc[t] \in phases /\ req[t].dev = req[s].dev
     THEN hist[t] \cup {c \in Columns : new[c] # Row(s)[c]}
     ELSE hist[t]]

Write(s, new) ==
  /\ known' = known \cup {req[s].dev}
  /\ rows' = [rows EXCEPT ![req[s].dev] = new]
  /\ overtaken' = Note(overtaken, s, new, {"select", "update"})
  /\ unguarded' = Note(unguarded, s, new, {"find", "insert", "select", "update"})

-----------------------------------------------------------------------------
(* The steps of a handler.                                                 *)

\* A request arrives.  The worker takes one job at a time, and a command
\* exists only for a device that has a row.
Arrive(s) ==
  /\ pc[s] = "idle"
  /\ \E q \in AllRequests :
       /\ q.kind = "command" => /\ q.dev \in known
                                /\ \A t \in Slots : req[t].kind # "command"
       /\ req' = [req EXCEPT ![s] = q]
       /\ pc' = [pc EXCEPT ![s] = IF q.kind \in Guarded THEN "check" ELSE "find"]
  /\ reply' = [reply EXCEPT ![s] = "none"]
  /\ Forget(s)
  /\ UNCHANGED <<known, rows, mem, diff>>

\* Faulty: the check only asks for the row.
MayProceedFound(s) == req[s].kind = "registerCamera" \/ HasRow(s)

\* The check of a guarded handler, in a find of its own.
MayProceed(s) ==
  CASE req[s].kind = "registerCamera" -> HasRow(s) => Row(s).rtspUrl = None
    [] req[s].kind = "removeCamera"   -> HasRow(s) /\ Row(s).rtspUrl # None
    [] req[s].kind = "updateDevice"   -> HasRow(s) /\ Row(s).user = req[s].by

Check(s) ==
  /\ pc[s] = "check"
  /\ MayProceed(s)
  /\ pc' = [pc EXCEPT ![s] = "find"]
  /\ Forget(s)
  /\ UNCHANGED <<known, rows, req, mem, diff, reply>>

Refuse(s) ==
  /\ pc[s] = "check"
  /\ ~MayProceed(s)
  /\ Answer(s, "refused")
  /\ Forget(s)
  /\ UNCHANGED <<known, rows>>

\* Pairing checks the owner on the entity it will save.
OwnedByOther(s) ==
  req[s].kind = "pair" /\ Row(s).user \notin {None, req[s].by}

FindConflict(s) ==
  /\ pc[s] = "find"
  /\ HasRow(s)
  /\ OwnedByOther(s)
  /\ Answer(s, "refused")
  /\ Forget(s)
  /\ UNCHANGED <<known, rows>>

FindEnsured(s) ==
  /\ pc[s] = "find"
  /\ HasRow(s)
  /\ req[s].kind = "ensure"
  /\ Answer(s, "ok")
  /\ Forget(s)
  /\ UNCHANGED <<known, rows>>

\* The entity is read and the handler's assignments are made.
Find(s) ==
  /\ pc[s] = "find"
  /\ HasRow(s)
  /\ req[s].kind # "ensure"
  /\ ~OwnedByOther(s)
  /\ mem' = [mem EXCEPT ![s] = Assigned(Loaded(req[s].kind, Row(s)), req[s].patch)]
  /\ pc' = [pc EXCEPT ![s] = "select"]
  /\ overtaken' = [overtaken EXCEPT ![s] = {}]
  /\ UNCHANGED <<known, rows, req, diff, reply, unguarded>>

\* No row: pairing inserts its own, the others the blank one.  registerCamera
\* may run findOrCreate twice; the first of the two decides nothing else.
\* Rows are never deleted, so the finds of removeCamera, updateDevice and
\* command, and the second find of findOrCreate, always see one.
FindNothing(s) ==
  /\ pc[s] = "find"
  /\ ~HasRow(s)
  /\ mem' = [mem EXCEPT ![s] = IF req[s].kind = "pair"
                               THEN Assigned(BlankRow, req[s].patch)
                               ELSE BlankRow]
  /\ pc' = [pc EXCEPT ![s] = "insert"]
  /\ overtaken' = [overtaken EXCEPT ![s] = {}]
  /\ UNCHANGED <<known, rows, req, diff, reply, unguarded>>

\* The INSERT of pairDevice answers; the one of findOrCreate finds again.
InsertPaired(s) ==
  /\ pc[s] = "insert"
  /\ ~HasRow(s)
  /\ req[s].kind = "pair"
  /\ Write(s, mem[s])
  /\ Answer(s, "ok")

\* Faulty: findOrCreate finds again without having inserted.
InsertBlankLost(s) ==
  /\ pc[s] = "insert"
  /\ ~HasRow(s)
  /\ req[s].kind # "pair"
  /\ pc' = [pc EXCEPT ![s] = "find"]
  /\ UNCHANGED <<known, rows, req, mem, diff, reply, overtaken, unguarded>>

InsertBlank(s) ==
  /\ pc[s] = "insert"
  /\ ~HasRow(s)
  /\ req[s].kind # "pair"
  /\ Write(s, mem[s])
  /\ pc' = [pc EXCEPT ![s] = "find"]
  /\ UNCHANGED <<req, mem, diff, reply>>

\* deviceId has a unique index: the slower of two INSERTs fails.
InsertDuplicate(s) ==
  /\ pc[s] = "insert"
  /\ HasRow(s)
  /\ Answer(s, "error")
  /\ Forget(s)
  /\ UNCHANGED <<known, rows>>

\* save, first half: read the row again and compare.
SaveSelect(s) ==
  /\ pc[s] = "select"
  /\ diff' = [diff EXCEPT ![s] = Differing(mem[s], Row(s))]
  /\ pc' = [pc EXCEPT ![s] = "update"]
  /\ UNCHANGED <<known, rows, req, mem, reply, overtaken, unguarded>>

\* save, second half: write the columns that differed.
SaveUpdate(s) ==
  /\ pc[s] = "update"
  /\ Write(s, Merged(Row(s), mem[s], diff[s]))
  /\ Answer(s, "ok")

\* The database refuses or drops a statement: the handler throws.
Fail(s) ==
  /\ pc[s] # "idle"
  /\ Answer(s, "error")
  /\ Forget(s)
  /\ UNCHANGED <<known, rows>>

-----------------------------------------------------------------------------
Step(s) ==
  \/ Check(s) \/ Refuse(s)
  \/ FindConflict(s) \/ FindEnsured(s) \/ Find(s) \/ FindNothing(s)
  \/ InsertPaired(s) \/ InsertBlank(s) \/ InsertDuplicate(s)
  \/ SaveSelect(s) \/ SaveUpdate(s)

Next == \E s \in Slots : Arrive(s) \/ Step(s) \/ Fail(s)

Spec == Init /\ [][Next]_vars

\* The event loop resumes a handler whose statement was answered, and the
\* driver answers every statement.
FairSpec == Spec /\ \A s \in Slots : WF_vars(Step(s))

-----------------------------------------------------------------------------
(* Invariants.                                                             *)

Phases == {"idle", "check", "find", "insert", "select", "update"}

\* Types: every stored row has a value of the column's type in every column,
\* the owner included, which undefined must never reach.
TypeOK ==
  /\ known \subseteq DeviceIds
  /\ DOMAIN rows = DeviceIds
  /\ \A d \in DeviceIds : DOMAIN rows[d] = Columns
  /\ \A d \in DeviceIds : \A c \in Columns : rows[d][c] \in Domain[c]
  /\ pc \in [Slots -> Phases]
  /\ req \in [Slots -> AllRequests \cup {NoRequest}]
  /\ DOMAIN mem = Slots
  /\ \A s \in Slots : DOMAIN mem[s] = Columns
  /\ \A s \in Slots : \A c \in Columns : mem[s][c] \in MemDomain(c)
  /\ diff \in [Slots -> SUBSET Columns]
  /\ reply \in [Slots -> {"none", "ok", "refused", "error"}]
  /\ overtaken \in [Slots -> SUBSET Columns]
  /\ unguarded \in [Slots -> SUBSET Columns]

\* What each handler knows of the row it is about to save, column by column.
EntityInv(s) ==
  pc[s] \in {"select", "update"} =>
    /\ \A c \in Columns \ DOMAIN req[s].patch :
         mem[s][c] \in {Undefined, Row(s)[c]} \/ c \in overtaken[s]
    /\ \A c \in DOMAIN req[s].patch \ {"deviceConfig"} :
         mem[s][c] = req[s].patch[c]
    /\ "deviceConfig" \in DOMAIN req[s].patch =>
         req[s].patch["deviceConfig"] \subseteq mem[s]["deviceConfig"]
    /\ \/ Row(s)["deviceConfig"] \subseteq mem[s]["deviceConfig"]
       \/ "deviceConfig" \in overtaken[s]
    /\ req[s].kind \in WithoutUser => mem[s]["user"] = Undefined
    /\ req[s].kind = "pair" =>
         Row(s)["user"] \in {None, req[s].by} \/ "user" \in overtaken[s]

\* What the comparison of save has established, up to later overlap.
DiffInv(s) ==
  pc[s] = "update" =>
    /\ \A c \in diff[s] : mem[s][c] # Undefined
    /\ \A c \in diff[s] \ DOMAIN req[s].patch : c \in overtaken[s]
    /\ \A c \in Columns \ diff[s] :
         mem[s][c] \in {Undefined, Row(s)[c]} \/ c \in overtaken[s]

\* What is left of the check a guarded handler made, up to later overlap.
GuardInv(s) ==
  pc[s] \notin {"idle", "check"} =>
    /\ req[s].kind = "registerCamera" =>
         Row(s)["rtspUrl"] = None \/ "rtspUrl" \in unguarded[s]
    /\ req[s].kind = "updateDevice" =>
         Row(s)["user"] = req[s].by \/ "user" \in unguarded[s]

RowInv(s) ==
  /\ pc[s] = "idle" => req[s] = NoRequest
  /\ pc[s] # "idle" => req[s] \in AllRequests
  /\ pc[s] = "check" => req[s].kind \in Guarded
  /\ pc[s] \in {"select", "update"} => HasRow(s) /\ req[s].kind # "ensure"
  /\ pc[s] \notin {"idle", "check"} /\ req[s].kind \in WithoutUser => HasRow(s)
  /\ pc[s] = "insert" =>
       mem[s] = IF req[s].kind = "pair"
                THEN Assigned(BlankRow, req[s].patch) ELSE BlankRow

SlotInv(s) == RowInv(s) /\ EntityInv(s) /\ DiffInv(s) /\ GuardInv(s)

\* The inductive invariant behind the action properties below: while a
\* handler holds an entity, whatever it holds and did not assign is what the
\* row holds, except for columns that others have changed meanwhile.
IndInv ==
  /\ TypeOK
  /\ \A d \in DeviceIds \ known : rows[d] = BlankRow
  /\ \A s \in Slots : SlotInv(s)

-----------------------------------------------------------------------------
(* Properties.                                                             *)

\* Slot s completes a save in this step.
Saves(s) == pc[s] = "update" /\ pc'[s] = "idle" /\ reply'[s] = "ok"
\* A column of the row that s is at work on, before and after the step.
Changes(s, c) == rows'[req[s].dev][c] # Row(s)[c]
\* The columns s gives a value to.
Assigns(s) == {c \in DOMAIN req[s].patch : req[s].patch[c] # Undefined}

\* save writes the whole entity, so a handler may write columns it never
\* assigned.  It does so only for columns that another handler changed after
\* it read the row: without an overlap on the device, a heartbeat, a report, a
\* pairing, a camera change and a command disturb only what they assign, and
\* a field that a request leaves out is never written.
OnlyOverlapLosesColumns ==
  [][\A s \in Slots : Saves(s) =>
       \A c \in Columns \ Assigns(s) :
         Changes(s, c) => c \in overtaken[s] \ DOMAIN req[s].patch]_vars

\* The owner of a device is replaced or dropped only by a handler that loads
\* the owner and was overtaken by another owner since: never by a PATCH, a
\* camera removal or a command, whatever they overlap with, and never by a
\* pairing whose conflict check saw the owner.
OnlyOverlapChangesOwner ==
  [][\A s \in Slots : Saves(s) /\ Row(s).user # None /\ Changes(s, "user") =>
       req[s].kind \notin WithoutUser /\ "user" \in overtaken[s]]_vars

\* A registered camera is overwritten by another registration only when the
\* address appeared after the "already registered" check of the latter.
OnlyOverlapReplacesCamera ==
  [][\A s \in Slots :
       Saves(s) /\ req[s].kind = "registerCamera" /\ Row(s).rtspUrl # None =>
         "rtspUrl" \in unguarded[s]]_vars

\* A PATCH lands on a device of somebody else only when the owner changed
\* between the ownership check of the controller and the save.
PatchByOwner ==
  [][\A s \in Slots :
       Saves(s) /\ req[s].kind = "updateDevice" /\ Row(s).user # req[s].by =>
         "user" \in unguarded[s]]_vars

\* A handler that answers ok has stored what it assigned: save leaves out a
\* column only if the row held the value, or if another handler changed the
\* column while this one was at work.
EffectStored ==
  [][\A s \in Slots : Saves(s) =>
       \A c \in Assigns(s) :
         \/ c \in overtaken[s]
         \/ c # "deviceConfig" /\ rows'[req[s].dev][c] = req[s].patch[c]
         \/ c = "deviceConfig"
            /\ req[s].patch[c] \subseteq rows'[req[s].dev][c]]_vars

\* Settings accumulate: SET_TEMPERATURE keeps the interval and UPDATE_INTERVAL
\* the temperature; a save drops a setting only if it was overtaken by it.
SettingsAccumulate ==
  [][\A s \in Slots : Saves(s) =>
       \/ Row(s).deviceConfig \subseteq rows'[req[s].dev].deviceConfig
       \/ "deviceConfig" \in overtaken[s]]_vars

\* Every request is answered: no handler goes around its find and insert for
\* ever, even when others insert the same device first.
Answered == \A s \in Slots : pc[s] # "idle" ~> pc[s] = "idle"

-----------------------------------------------------------------------------
(* What the code's own checks and documents say of overlapping handlers.   *)

\* The conflict check of pairDevice: a device of one user is not given to
\* another.
OwnerNotReassigned ==
  [][\A d \in DeviceIds :
       rows[d].user # None => rows'[d].user \in {rows[d].user, None}]_vars
=============================================================================
