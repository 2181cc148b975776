----------------------------- MODULE MCHardware -----------------------------
(***************************************************************************)
(* Instances of Intake and of Snapshots for TLC, side by side: the two     *)
(* share no state that either changes for the other, so a behaviour is one *)
(* of the first or one of the second, as `area' says from the start.       *)
(***************************************************************************)
EXTENDS Intake

CONSTANTS Shots, Devices, MaxTime, Asks(_)

VARIABLES
  area,
  shotAt, ask, devices, cameras, clock, stamp, files, snapshots, code, page, kept

album == <<shotAt, ask, devices, cameras, clock, stamp, files, snapshots, code, page, kept>>

Shot == INSTANCE Snapshots WITH at <- shotAt, rows <- snapshots

ASSUME ShotsAssumption == Shots \in Nat
ASSUME TimeAssumption == MaxTime \in Nat \ {0}
ASSUME AsksAssumption ==
  \A r \in Shot!Requests : Asks(r) \subseteq Shot!Captures \cup Shot!Images \cup Shot!Lists

HardwareInit ==
  /\ area \in {"intake", "snapshots"}
  /\ Init
  /\ Shot!Init

HardwareNext ==
  \/ area = "intake" /\ Next /\ UNCHANGED <<area, album>>
  \/ area = "snapshots" /\ Shot!Next /\ UNCHANGED <<area, vars>>

HardwareSpec == HardwareInit /\ [][HardwareNext]_<<area, vars, album>> /\ Fairness

HardwareTypeOK == TypeOK /\ Shot!TypeOK
SnapshotServed == Shot!SnapshotServed

-----------------------------------------------------------------------------
(* The instance.                                                           *)

Sent(kind, temperature, humidity, status, measured) ==
  [kind |-> kind, hasBody |-> TRUE, hasValues |-> TRUE, temperature |-> temperature,
   humidity |-> humidity, status |-> status, measured |-> measured, sessionId |-> "absent"]

Bare(kind) == Sent(kind, Null, Null, "IDLE", Null)

\* The third request reads; the second may be a measurement taken before the
\* first, at the bound of the alarm and with a broken sensor.
HardwarePayloads(r) ==
  CASE r = 1 ->
         {[Sent("data", 81, 196, "COMPLETED", Null) EXCEPT !.sessionId = "number"],
          [Sent("data", SensorError, 904, "IDLE", Null) EXCEPT !.sessionId = "text"],
          [Bare("data") EXCEPT !.hasValues = FALSE],
          [Bare("data") EXCEPT !.hasValues = FALSE, !.hasBody = FALSE]}
    [] r = 2 -> {Sent("data", 80, 10 * SensorError, "PROCESSING", 0), Bare("heartbeat"), Bare("food")}
    [] OTHER -> {Bare("latest")}

\* Two captures, the second of which may be of another device or incomplete,
\* and a reading.
HardwareAsks(r) ==
  CASE r = 1 -> {[kind |-> "capture", device |-> CHOOSE d \in Devices : TRUE, complete |-> TRUE]}
    [] r = 2 -> Shot!Captures
    [] OTHER -> Shot!Images \cup
         {a \in [kind : {"list"}, device : Devices, limit : {1, 20},
                 from : 1 .. MaxTime, to : 1 .. MaxTime] : a.from <= a.to}
=============================================================================
