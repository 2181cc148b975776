----------------------------- MODULE Snapshots ------------------------------
(***************************************************************************)
(* The pictures that devices send (CameraController.capture and            *)
(* CameraService.captureSnapshot), each a file and a row, and the app's    *)
(* requests for their list and for one of them.  A picture is named by the *)
(* request that brought it; requests are numbered in order of arrival.     *)
(* The row of the device is cut down to whether there is one and whether   *)
(* it has a camera; DeviceRow has the handlers that change it.             *)
(***************************************************************************)
EXTENDS Naturals, FiniteSets, FiniteSetsExt

CONSTANTS
  Shots,      \* the number of requests, captures and readings together
  Devices,
  MaxTime,    \* bound on the clock, in milliseconds
  Asks(_)     \* what each request may ask

Requests == 1 .. Shots
Times == 1 .. MaxTime

\* A capture is refused at once if it has no (known) triggerType or no image.
\* An image is asked for by its id, and a list by its limit, its start and its end.
Captures == [kind : {"capture"}, device : Devices, complete : BOOLEAN]
Images == [kind : {"image"}, device : Devices, id : Times]
Lists == [kind : {"list"}, device : Devices, limit : 1 .. 100, from : Times, to : Times]

VARIABLES
  at,       \* where each request is
  ask,      \* what it asks
  devices,  \* the devices that have a row
  cameras,  \* ... and an rtspUrl in it
  clock,
  stamp,    \* Date.now() and new Date() of each capture; <<0, 0>>: none yet
  files,    \* the picture in each file, by directory and name; 0: no file
  rows,     \* the table of snapshots
  code,     \* the status code of each answer; 0: none
  page,     \* the pictures in an answered list, or the one in an answered image
  kept      \* the captures answered with success before each request arrived

handler == <<at, ask, kept>>
row == <<devices, cameras>>
album == <<files, rows>>
answers == <<code, page>>
vars == <<handler, row, clock, stamp, album, answers>>

Init ==
  /\ at = [r \in Requests |-> "idle"]
  /\ ask = [r \in Requests |-> [kind |-> "none"]]
  /\ devices = {}
  /\ cameras = {}
  /\ clock = 1
  /\ stamp = [r \in Requests |-> <<0, 0>>]
  /\ files = [f \in Devices \X Times |-> 0]
  /\ rows = {}
  /\ code = [r \in Requests |-> 0]
  /\ page = [r \in Requests |-> {}]
  /\ kept = [r \in Requests |-> {}]

\* The picture with which request r came, as a row: snapshotId is
\* snapshot-<milliseconds>, imageUrl ends in <milliseconds>.jpg.
Row(r) == [snapshotId |-> stamp[r][1], device |-> ask[r].device, capturedAt |-> stamp[r][2], of |-> r]

\* Faulty: the file is looked for under the time of capture.
PathByTime(s) == <<s.device, s.capturedAt>>

\* getSnapshotImagePath.
Path(s) == <<s.device, s.snapshotId>>

-----------------------------------------------------------------------------
RegisterCamera(d) ==
  /\ d \notin cameras
  /\ devices' = devices \cup {d}
  /\ cameras' = cameras \cup {d}
  /\ UNCHANGED <<handler, clock, stamp, album, answers>>

RemoveCamera(d) ==
  /\ d \in cameras
  /\ cameras' = cameras \ {d}
  /\ UNCHANGED <<handler, devices, clock, stamp, album, answers>>

Tick ==
  /\ clock < MaxTime
  /\ clock' = clock + 1
  /\ UNCHANGED <<handler, row, stamp, album, answers>>

Steps(r, from, to) ==
  /\ at[r] = from
  /\ at' = [at EXCEPT ![r] = to]
  /\ UNCHANGED <<ask, kept>>

Answers(r, status, pictures) ==
  /\ code' = [code EXCEPT ![r] = status]
  /\ page' = [page EXCEPT ![r] = pictures]

Arrive(r, a) ==
  /\ \A q \in Requests : q < r => at[q] # "idle"
  /\ at[r] = "idle"
  /\ LET refused == a.kind = "capture" /\ ~a.complete
     IN /\ at' = [at EXCEPT ![r] = IF refused THEN "done" ELSE "find"]
        /\ code' = [code EXCEPT ![r] = IF refused THEN 400 ELSE 0]
  /\ ask' = [ask EXCEPT ![r] = a]
  /\ kept' = [kept EXCEPT ![r] = {q \in Requests : ask[q].kind = "capture" /\ code[q] = 201}]
  /\ UNCHANGED <<row, clock, stamp, album, page>>

\* The device is found or created, and only then has to have a camera.
FindForCapture(r) ==
  /\ ask[r].kind = "capture"
  /\ devices' = devices \cup {ask[r].device}
  /\ IF ask[r].device \in cameras
     THEN Steps(r, "find", "write") /\ UNCHANGED answers
     ELSE Steps(r, "find", "done") /\ Answers(r, 404, {})
  /\ UNCHANGED <<cameras, clock, stamp, album>>

\* The clock is read twice, for the names and for the time of capture, before
\* the picture is written; a file of the same millisecond is overwritten.
WriteFile(r) ==
  /\ Steps(r, "write", "insert")
  /\ \E now \in {clock, clock + 1} \cap Times :
       /\ stamp' = [stamp EXCEPT ![r] = <<clock, now>>]
       /\ clock' = now
  /\ files' = [files EXCEPT ![<<ask[r].device, clock>>] = r]
  /\ UNCHANGED <<row, rows, answers>>

\* snapshotId is unique over all devices.
InsertRow(r) ==
  /\ Steps(r, "insert", "done")
  /\ IF \E s \in rows : s.snapshotId = Row(r).snapshotId
     THEN Answers(r, 500, {}) /\ UNCHANGED rows
     ELSE Answers(r, 201, {}) /\ rows' = rows \cup {Row(r)}
  /\ UNCHANGED <<row, clock, stamp, files>>

\* getSnapshotImage: the row, which must be of the device in the path ...
FindForImage(r) ==
  /\ ask[r].kind = "image"
  /\ IF \E s \in rows : s.snapshotId = ask[r].id /\ s.device = ask[r].device
     THEN Steps(r, "find", "path") /\ UNCHANGED answers
     ELSE Steps(r, "find", "done") /\ Answers(r, 404, {})
  /\ UNCHANGED <<row, clock, stamp, album>>

\* ... the row again, and the file at its path ...
FindPath(r) ==
  /\ at[r] = "path"
  /\ \E s \in rows :
       /\ s.snapshotId = ask[r].id
       /\ IF files[Path(s)] # 0
          THEN Steps(r, "path", "send") /\ UNCHANGED answers
          ELSE Steps(r, "path", "done") /\ Answers(r, 404, {})
  /\ UNCHANGED <<row, clock, stamp, album>>

\* ... which is read when it is sent.
SendFile(r) ==
  /\ Steps(r, "send", "done")
  /\ \E s \in rows : s.snapshotId = ask[r].id /\ Answers(r, 200, {files[Path(s)]})
  /\ UNCHANGED <<row, clock, stamp, album>>

\* listSnapshots: the device must have a row ...
FindForList(r) ==
  /\ ask[r].kind = "list"
  /\ IF ask[r].device \in devices
     THEN Steps(r, "find", "query") /\ UNCHANGED answers
     ELSE Steps(r, "find", "done") /\ Answers(r, 404, {})
  /\ UNCHANGED <<row, clock, stamp, album>>

\* ... the newest come first, and `limit' of them are returned.
QueryList(r) ==
  LET found == {s \in rows : /\ s.device = ask[r].device
                             /\ s.capturedAt \in ask[r].from .. ask[r].to}
  IN /\ Steps(r, "query", "done")
     /\ \E listed \in kSubset(Min({ask[r].limit, Cardinality(found)}), found) :
          /\ \A s \in listed, t \in found \ listed : s.capturedAt >= t.capturedAt
          /\ Answers(r, 200, {s.of : s \in listed})
     /\ UNCHANGED <<row, clock, stamp, album>>

\* A statement, or the disk, fails; what is stored stays.  A process that dies
\* leaves the same behind.
Fail(r) ==
  /\ \E step \in {"find", "write", "insert", "path", "send", "query"} : Steps(r, step, "done")
  /\ Answers(r, 500, {})
  /\ UNCHANGED <<row, clock, stamp, album>>

Handle(r) ==
  \/ FindForCapture(r) \/ WriteFile(r) \/ InsertRow(r)
  \/ FindForImage(r) \/ FindPath(r) \/ SendFile(r)
  \/ FindForList(r) \/ QueryList(r)

Next ==
  \/ \E r \in Requests : (\E a \in Asks(r) : Arrive(r, a)) \/ Handle(r) \/ Fail(r)
  \/ \E d \in Devices : RegisterCamera(d) \/ RemoveCamera(d)
  \/ Tick

Spec == Init /\ [][Next]_vars

-----------------------------------------------------------------------------
TypeOK ==
  /\ at \in [Requests -> {"idle", "find", "write", "insert", "path", "send", "query", "done"}]
  /\ \A r \in Requests : ask[r] \in {[kind |-> "none"]} \cup Asks(r)
  /\ cameras \subseteq devices /\ devices \subseteq Devices
  /\ files \in [Devices \X Times -> 0 .. Shots]
  /\ \A s \in rows : \E r \in Requests : s = Row(r)
  /\ page \in [Requests -> SUBSET Requests]

Twins(c, d) == c # d /\ stamp[c][1] = stamp[d][1] /\ ask[c].device = ask[d].device

\* What a device was told is stored can be had from then on: a list whose span
\* holds the picture shows it, or is full of pictures of that span that are no
\* older; its id leads to the picture, unless
\* the same device sent another in the same millisecond; and an id never leads to
\* a picture of another device, whatever failed between file and row.
SnapshotServed ==
  \A r \in Requests : code[r] \in {200, 404} =>
    /\ ask[r].kind = "list" => \A c \in kept[r] :
         ask[c].device = ask[r].device /\ stamp[c][2] \in ask[r].from .. ask[r].to =>
           /\ code[r] = 200
           /\ \/ c \in page[r]
              \/ /\ Cardinality(page[r]) = ask[r].limit
                 /\ \A q \in page[r] : stamp[q][2] \in stamp[c][2] .. ask[r].to
    /\ ask[r].kind = "image" => \A c \in kept[r] :
         ask[c].device = ask[r].device /\ stamp[c][1] = ask[r].id =>
           /\ code[r] = 200
           /\ \A q \in page[r] : q = c \/ Twins(c, q)
    /\ \A q \in page[r] : ask[q].device = ask[r].device
=============================================================================
