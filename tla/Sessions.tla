------------------------------ MODULE Sessions ------------------------------
(***************************************************************************)
(* From the event with which a device reports that a run is completed      *)
(* (SensorsService.handleEvent) to the report its owner reads: the         *)
(* processing session, the jobs queued for it, and the worker that writes  *)
(* the chat message and the notification (ReportGenerationProcessor).      *)
(*                                                                         *)
(* All requests are of one device.  A session is named by the request that *)
(* stored it, and so is its report job: handleProcessingCompleted stores a *)
(* session per request, also when a device repeats one that failed.        *)
(***************************************************************************)
EXTENDS Naturals, FiniteSets, SequencesExt

CONSTANTS
  Requests,      \* PROCESSING_COMPLETED events
  Users,
  MaxAttempts, MaxStalls, Queues,   \* see JobQueue
  MaxCrashes,    \* bound on process restarts
  None

ASSUME AttemptsAssumption == MaxAttempts \in Nat \ {0}
ASSUME StallsAssumption == MaxStalls \in Nat
ASSUME CrashesAssumption == MaxCrashes \in Nat
ASSUME QueuesAssumption == Queues \subseteq {"redis", "memory"}
ASSUME NoneAssumption == None \notin Users \cup Requests

VARIABLES
  owner,      \* the user of the device, or None
  at,         \* where each handler is
  seen,       \* the owner that the handler read with the device
  sessions,   \* the rows of processing_sessions
  job, wait, attempts, stalls,   \* the queue of report-generation
  worker,     \* what the report worker does next
  active,     \* the session of its job, or None
  messages,   \* rows of chat_messages per session
  shown,      \* broadcasts to the device's room per session
  notes,      \* rows of notification_history per session
  crashes,    \* restarts so far
  missed      \* history: reports whose last attempt found nobody to report to

device == <<owner>>
handlers == <<at, seen, sessions>>
queue == <<job, wait, attempts, stalls>>
work == <<worker, active>>
reports == <<messages, shown, notes>>
vars == <<device, handlers, queue, work, reports, crashes, missed>>

Queue == INSTANCE JobQueue WITH Jobs <- Requests

Init ==
  /\ owner = None
  /\ at = [r \in Requests |-> "idle"]
  /\ seen = [r \in Requests |-> None]
  /\ sessions = {}
  /\ Queue!Init
  /\ worker = "idle"
  /\ active = None
  /\ messages = [r \in Requests |-> 0]
  /\ shown = [r \in Requests |-> 0]
  /\ notes = [r \in Requests |-> 0]
  /\ crashes = 0
  /\ missed = {}

\* What the saves of the device row do to its owner, at any moment: a pairing
\* sets it, and saves that overlap replace it or write NULL over it (DeviceRow
\* has the saves, and the proof that nothing but an overlap does that).
ChangeOwner(u) ==
  /\ u # owner
  /\ owner' = u
  /\ UNCHANGED <<handlers, queue, work, reports, crashes, missed>>

-----------------------------------------------------------------------------
(* handleEvent, for PROCESSING_COMPLETED.                                  *)

Goes(r, from, to) ==
  /\ at[r] = from
  /\ at' = [at EXCEPT ![r] = to]
  /\ UNCHANGED <<device, work, reports, crashes, missed>>

Arrive(r) ==
  /\ Goes(r, "idle", "device")
  /\ UNCHANGED <<seen, sessions, queue>>

\* The device is found with its user.  An event without eventData ends here.
FindDevice(r) ==
  /\ \/ Goes(r, "device", "insert")
     \/ Goes(r, "device", "ignored")
  /\ seen' = [seen EXCEPT ![r] = owner]
  /\ UNCHANGED <<sessions, queue>>

InsertSession(r) ==
  /\ Goes(r, "insert", "character")
  /\ sessions' = sessions \cup {r}
  /\ UNCHANGED <<seen, queue>>

\* Faulty: a session without an owner is queued, one with an owner is not.
QueueCharacterInverted(r) ==
  /\ Goes(r, "character", IF seen[r] # None THEN "ok" ELSE "report")
  /\ UNCHANGED <<seen, sessions, queue>>

\* The job for the character, whose worker only logs.  A report is queued if
\* the device had an owner when it was read.
QueueCharacter(r) ==
  /\ Goes(r, "character", IF seen[r] # None THEN "report" ELSE "ok")
  /\ UNCHANGED <<seen, sessions, queue>>

QueueReport(r) ==
  /\ Goes(r, "report", "ok")
  /\ Queue!Add(r)
  /\ UNCHANGED <<seen, sessions>>

\* The database or Redis refuses: the request is answered with an error, and
\* what was stored stays.
FailRequest(r) ==
  /\ \E from \in {"device", "insert", "character", "report"} : Goes(r, from, "failed")
  /\ UNCHANGED <<seen, sessions, queue>>

-----------------------------------------------------------------------------
(* The report worker.                                                      *)

WorkerIdles ==
  /\ worker' = "idle"
  /\ active' = None
  /\ UNCHANGED <<device, handlers, reports, crashes, missed>>

TakeJob ==
  /\ worker = "idle"
  /\ \E r \in Requests : Queue!Take(r) /\ active' = r
  /\ worker' = "find"
  /\ UNCHANGED <<device, handlers, reports, crashes, missed>>

WorkerGoes(from, to) ==
  /\ worker = from
  /\ worker' = to
  /\ UNCHANGED <<device, handlers, queue, active, crashes>>

\* Whether the session is there, and somebody to report to.
Found == active \in sessions /\ owner # None

\* Without either the job ends quietly, with nothing written.
FindSession ==
  /\ WorkerGoes("find", IF Found THEN "score" ELSE "return")
  /\ missed' = IF Found THEN missed \ {active} ELSE missed \cup {active}
  /\ UNCHANGED reports

\* calculateEcoScoreForSession only reads; Reports has what it computes.
CalculateScore ==
  /\ WorkerGoes("score", "message")
  /\ UNCHANGED <<reports, missed>>

SaveMessage ==
  /\ WorkerGoes("message", "broadcast")
  /\ messages' = [messages EXCEPT ![active] = @ + 1]
  /\ UNCHANGED <<shown, notes, missed>>

\* Faulty: a message whose broadcast is skipped.
BroadcastNothing ==
  /\ WorkerGoes("broadcast", "notify")
  /\ UNCHANGED <<reports, missed>>

Broadcast ==
  /\ WorkerGoes("broadcast", "notify")
  /\ shown' = [shown EXCEPT ![active] = @ + 1]
  /\ UNCHANGED <<messages, notes, missed>>

LogNotification ==
  /\ WorkerGoes("notify", "return")
  /\ notes' = [notes EXCEPT ![active] = @ + 1]
  /\ UNCHANGED <<messages, shown, missed>>

CompleteJob ==
  /\ worker = "return"
  /\ Queue!Complete(active)
  /\ WorkerIdles

\* Faulty: the error is swallowed and the job counts as done.
FailJobSwallowed ==
  /\ worker \in {"find", "score", "message", "notify"}
  /\ Queue!Complete(active)
  /\ WorkerIdles

\* A statement fails: process logs the error and throws it again.
FailJob ==
  /\ worker \in {"find", "score", "message", "notify"}
  /\ Queue!Throw(active)
  /\ WorkerIdles

\* BullMQ's timers: a backoff, or the lock of a dead worker, runs out.
QueueTimer(r) ==
  /\ Queue!Promote(r) \/ Queue!Recover(r)
  /\ UNCHANGED <<device, handlers, work, reports, crashes, missed>>

\* The process dies and starts again.  Requests in flight are gone.
Crash ==
  /\ crashes < MaxCrashes
  /\ crashes' = crashes + 1
  /\ at' = [r \in Requests |-> IF at[r] \in {"idle", "ok", "ignored"} THEN at[r] ELSE "failed"]
  /\ worker' = "idle"
  /\ active' = None
  /\ Queue!Restart
  /\ UNCHANGED <<device, seen, sessions, reports, missed>>

-----------------------------------------------------------------------------
Handle(r) ==
  \/ FindDevice(r) \/ InsertSession(r) \/ QueueCharacter(r) \/ QueueReport(r)

Worker ==
  \/ TakeJob \/ FindSession \/ CalculateScore \/ SaveMessage \/ Broadcast
  \/ LogNotification \/ CompleteJob

Next ==
  \/ \E u \in Users \cup {None} : ChangeOwner(u)
  \/ \E r \in Requests : Arrive(r) \/ Handle(r) \/ FailRequest(r) \/ QueueTimer(r)
  \/ Worker \/ FailJob
  \/ Crash

Spec == Init /\ [][Next]_vars

\* Handlers that have begun are resumed, the worker goes on while there are
\* jobs, and BullMQ's timers run out.  Nothing obliges a device to report.
FairSpec ==
  /\ Spec
  /\ WF_vars(Worker)
  /\ \A r \in Requests : WF_vars(Handle(r)) /\ WF_vars(QueueTimer(r))

-----------------------------------------------------------------------------
Waiting == {"device", "insert", "character", "report"}

\* Types, and how often a session can be reported: once per attempt that
\* failed late and once per stall that the job survived.
TypeOK ==
  /\ owner \in Users \cup {None}
  /\ at \in [Requests -> Waiting \cup {"idle", "ok", "ignored", "failed"}]
  /\ seen \in [Requests -> Users \cup {None}]
  /\ sessions \subseteq Requests
  /\ Queue!TypeOK
  /\ worker \in {"idle", "find", "score", "message", "broadcast", "notify", "return"}
  /\ active \in Requests \cup {None}
  /\ messages \in [Requests -> 0..(MaxAttempts + MaxStalls)]
  /\ shown \in [Requests -> Nat]
  /\ notes \in [Requests -> 0..(1 + MaxStalls)]
  /\ crashes \in 0..MaxCrashes
  /\ missed \subseteq Requests

\* Through every retry and restart a report is written in one order: what is
\* notified was shown in the room, and what was shown is a stored message.
ReportInOrder ==
  \A r \in Requests : notes[r] <= shown[r] /\ shown[r] <= messages[r]

\* A device that got its answer can forget the run: the session is stored,
\* and a report was queued unless nobody owned the device when the handler read
\* it.  A pairing in between is missed, and no other cause leaves a run unqueued.
AnsweredIsReported ==
  \A r \in Requests : at[r] = "ok" =>
    r \in sessions /\ (job[r] = "none" <=> seen[r] = None)

-----------------------------------------------------------------------------
(* What the queue promises, abstractly.                                    *)

Stage == [r \in Requests |->
            CASE job[r] = "none"                  -> "absent"
              [] job[r] \in {"exhausted", "lost"} -> "dropped"
              [] job[r] = "completed"             ->
                   IF r \in missed THEN "dropped" ELSE "delivered"
              [] OTHER                            -> "owed"]

Delivery == INSTANCE AtLeastOnce WITH
  Items <- Requests, stage <- Stage, effect <- {r \in Requests : notes[r] > 0}

\* A queued report is written at least once and then delivered, or is dropped:
\* with the queue or its last attempt, or because its last attempt found that the
\* device had lost its owner.  It is not touched afterwards, whatever fails or
\* dies and whoever owns the device meanwhile.
ImplementsDelivery == Delivery!Spec
=============================================================================
