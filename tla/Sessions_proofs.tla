--------------------------- MODULE Sessions_proofs ---------------------------
(***************************************************************************)
(* Proofs about Sessions: the inductive invariant IndInv, from it the      *)
(* invariants, and that the reports implement AtLeastOnce, for every set   *)
(* of requests and users and every setting of the queue.                   *)
(***************************************************************************)
EXTENDS Sessions, Integers, SequenceTheorems, FiniteSetTheorems, TLAPS

Laws == INSTANCE JobQueue_proofs WITH Jobs <- Requests

-----------------------------------------------------------------------------
(* The inductive invariant.                                                *)

\* The types, without the bounds that CountInv implies.
Types ==
  /\ owner \in Users \cup {None}
  /\ at \in [Requests -> Waiting \cup {"idle", "ok", "ignored", "failed"}]
  /\ seen \in [Requests -> Users \cup {None}]
  /\ sessions \subseteq Requests
  /\ worker \in {"idle", "find", "score", "message", "broadcast", "notify", "return"}
  /\ active \in Requests \cup {None}
  /\ messages \in [Requests -> Nat]
  /\ shown \in [Requests -> Nat]
  /\ notes \in [Requests -> Nat]
  /\ crashes \in 0..MaxCrashes
  /\ missed \subseteq Requests

QueueInv == Laws!QueueInv

\* The worker has a job if and only if one job is active, and it is that one.
WorkerInv ==
  /\ worker = "idle" <=> active = None
  /\ \A r \in Requests : job[r] = "active" <=> r = active

\* The session is stored before anything is queued, and a report is queued
\* only for an owner, whom the device may lose again.
HandlerInv ==
  \A r \in Requests :
    /\ at[r] \in {"character", "report"} => r \in sessions
    /\ at[r] = "report" => seen[r] # None
    /\ job[r] # "none" => at[r] = "ok" /\ seen[r] # None

\* Whether a report was written, or notified of, since the last retry.
Written == {"broadcast", "notify", "return"}
Interrupted(r) == job[r] \in {"orphan", "completed", "lost"}
OpenMessage(r) == (r = active /\ worker \in Written) \/ Interrupted(r)
OpenNote(r) == (r = active /\ worker = "return") \/ Interrupted(r)

\* A message is written at most once per retry, a notification at most once
\* per stall, and either once more since.
CountInv ==
  \A r \in Requests :
    /\ messages[r] <= Laws!Spent(r) + (IF OpenMessage(r) THEN 1 ELSE 0)
    /\ notes[r] <= stalls[r] + (IF OpenNote(r) THEN 1 ELSE 0)

\* Between two of its writes the worker has one more of the former.
AheadInv ==
  /\ worker = "broadcast" => shown[active] < messages[active]
  /\ worker = "notify" => notes[active] < shown[active]

\* A job ends well only after its notification, or when it found nobody to notify.
DoneInv ==
  /\ worker = "return" => notes[active] > 0 \/ active \in missed
  /\ \A r \in Requests : job[r] = "completed" => notes[r] > 0 \/ r \in missed

IndInv ==
  /\ Types /\ QueueInv /\ WorkerInv /\ HandlerInv /\ AnsweredIsReported
  /\ CountInv /\ AheadInv /\ ReportInOrder /\ DoneInv

-----------------------------------------------------------------------------
(* The queue, under the names of its proofs.                               *)

\* The options of the queue are what its laws ask of them.
LEMMA BoundsHold == Laws!Bounds
BY AttemptsAssumption, StallsAssumption DEF Laws!Bounds

\* The operations of the queue are those that its laws are about.
LEMMA SameQueue ==
  /\ Queue!Init <=> Laws!Init
  /\ Queue!TypeOK <=> Laws!TypeOK
  /\ Queue!Restart <=> Laws!Restart
  /\ \A r \in Requests :
       /\ Queue!Add(r) <=> Laws!Add(r)
       /\ Queue!Take(r) <=> Laws!Take(r)
       /\ Queue!Complete(r) <=> Laws!Complete(r)
       /\ Queue!Throw(r) <=> Laws!Throw(r)
       /\ Queue!Promote(r) <=> Laws!Promote(r)
       /\ Queue!Recover(r) <=> Laws!Recover(r)
<1> USE DEF Queue!Over, Laws!Over, Queue!Move, Laws!Move
<1>1. Queue!Init <=> Laws!Init
  BY DEF Queue!Init, Laws!Init
<1>2. Queue!TypeOK <=> Laws!TypeOK
  BY DEF Queue!TypeOK, Laws!TypeOK
<1>3. Queue!Restart <=> Laws!Restart
  BY DEF Queue!Restart, Laws!Restart
<1>4. ASSUME NEW r \in Requests
      PROVE  /\ Queue!Add(r) <=> Laws!Add(r)
             /\ Queue!Take(r) <=> Laws!Take(r)
             /\ Queue!Complete(r) <=> Laws!Complete(r)
             /\ Queue!Throw(r) <=> Laws!Throw(r)
             /\ Queue!Promote(r) <=> Laws!Promote(r)
             /\ Queue!Recover(r) <=> Laws!Recover(r)
  BY DEF Queue!Add, Laws!Add, Queue!Take, Laws!Take, Queue!Complete, Laws!Complete,
     Queue!Throw, Laws!Throw, Queue!Promote, Laws!Promote, Queue!Recover, Laws!Recover
<1>5. QED
  BY <1>1, <1>2, <1>3, <1>4

\* What QueueInv says of the types, under the names of the model.
QueueTypes ==
  /\ Queue!TypeOK /\ DOMAIN job = Requests
  /\ attempts \in [Requests -> Nat] /\ stalls \in [Requests -> Nat]

\* A queue that keeps its invariant keeps its types.
LEMMA QueueTyped == (QueueInv => QueueTypes) /\ (QueueInv' => QueueTypes')
BY DEF QueueTypes, QueueInv, Laws!QueueInv, Laws!TypeOK, Queue!TypeOK, Laws!Over,
   Queue!Over

\* The worker's job, when it has one, and its session.
LEMMA ActiveJob ==
  ASSUME IndInv, worker # "idle"
  PROVE  active \in Requests /\ job[active] = "active" /\ active \in sessions
BY DEF IndInv, Types, WorkerInv, HandlerInv, AnsweredIsReported

-----------------------------------------------------------------------------
(* What a step leaves alone.                                               *)

\* A step that leaves alone what a part of the invariant is about keeps that part.
LEMMA Frames ==
  ASSUME IndInv
  PROVE  /\ UNCHANGED queue => QueueInv'
         /\ UNCHANGED <<worker, active, job>> => WorkerInv'
         /\ UNCHANGED <<at, seen, sessions, job>> =>
              HandlerInv' /\ AnsweredIsReported'
         /\ UNCHANGED <<queue, worker, active, messages, notes>> => CountInv'
         /\ UNCHANGED <<worker, active, messages, shown, notes>> => AheadInv'
         /\ UNCHANGED <<messages, shown, notes>> => ReportInOrder'
         /\ UNCHANGED <<worker, active, notes, job, missed>> => DoneInv'
<1> USE DEF IndInv, queue
<1>1. UNCHANGED queue => QueueInv'
  BY DEF QueueInv, Laws!QueueInv, Laws!TypeOK, Laws!WithinBounds, Laws!Spent,
     Laws!ListOfWaiting, Laws!Over
<1>2. UNCHANGED <<worker, active, job>> => WorkerInv'
  BY DEF WorkerInv
<1>3. UNCHANGED <<at, seen, sessions, job>> => HandlerInv' /\ AnsweredIsReported'
  BY DEF HandlerInv, AnsweredIsReported
<1>4. UNCHANGED <<queue, worker, active, messages, notes>> => CountInv'
  BY DEF CountInv, Laws!Spent, OpenMessage, OpenNote, Interrupted
<1>5. UNCHANGED <<worker, active, messages, shown, notes>> => AheadInv'
  BY DEF AheadInv
<1>6. UNCHANGED <<messages, shown, notes>> => ReportInOrder'
  BY DEF ReportInOrder
<1>7. UNCHANGED <<worker, active, notes, job, missed>> => DoneInv'
  BY DEF DoneInv
<1>8. QED
  BY <1>1, <1>2, <1>3, <1>4, <1>5, <1>6, <1>7

-----------------------------------------------------------------------------
(* The initial states.                                                     *)

\* No run has been reported, nothing is stored or queued.
LEMMA InitInv == Init => IndInv
<1> SUFFICES ASSUME Init PROVE IndInv
  OBVIOUS
<1> USE DEF Init
<1>1. QueueInv
  BY BoundsHold, SameQueue, Laws!InitQueue DEF QueueInv
<1>2. /\ job = [r \in Requests |-> "none"] /\ attempts = [r \in Requests |-> 0]
      /\ stalls = [r \in Requests |-> 0]
  BY DEF Queue!Init
<1>3. Types
  BY CrashesAssumption DEF Types
<1>4. WorkerInv
  BY <1>2, NoneAssumption DEF WorkerInv
<1>5. HandlerInv /\ AnsweredIsReported
  BY <1>2 DEF HandlerInv, AnsweredIsReported
<1>6. CountInv
  BY <1>2 DEF CountInv, Laws!Spent, OpenMessage, OpenNote, Interrupted, Written
<1>7. AheadInv /\ ReportInOrder /\ DoneInv
  BY <1>2 DEF AheadInv, ReportInOrder, DoneInv
<1>8. QED
  BY <1>1, <1>3, <1>4, <1>5, <1>6, <1>7 DEF IndInv

-----------------------------------------------------------------------------
(* Each step.                                                              *)

\* The device gets another owner, or loses its own.
LEMMA OwnerStep ==
  ASSUME IndInv, NEW u \in Users \cup {None}, ChangeOwner(u)
  PROVE  IndInv'
<1> USE DEF IndInv, ChangeOwner, handlers, queue, work, reports
<1>1. Types'
  BY DEF Types
<1>2. QED
  BY <1>1, Frames

\* Steps of the handler before the report is queued, and its failure.
LEMMA HandlerSteps ==
  ASSUME IndInv, NEW r \in Requests,
         Arrive(r) \/ FindDevice(r) \/ InsertSession(r) \/ QueueCharacter(r)
           \/ FailRequest(r)
  PROVE  IndInv'
<1> USE DEF IndInv, Goes, device, queue, work, reports
<1>1. UNCHANGED <<owner, queue, worker, active, messages, shown, notes, crashes, missed>>
  BY DEF Arrive, FindDevice, InsertSession, QueueCharacter, FailRequest
<1>2. Types'
  BY DEF Arrive, FindDevice, InsertSession, QueueCharacter, FailRequest, Types, Waiting
<1>3. HandlerInv' /\ AnsweredIsReported'
  <2> USE DEF Types, Waiting, HandlerInv, AnsweredIsReported
  <2>1. job[r] = "none"
    BY DEF Arrive, FindDevice, InsertSession, QueueCharacter, FailRequest
  <2>2. CASE Arrive(r)
    BY <2>1, <2>2 DEF Arrive
  <2>3. CASE FindDevice(r)
    BY <2>1, <2>3 DEF FindDevice
  <2>4. CASE InsertSession(r)
    BY <2>1, <2>4 DEF InsertSession
  <2>5. CASE QueueCharacter(r)
    BY <2>1, <2>5 DEF QueueCharacter
  <2>6. CASE FailRequest(r)
    BY <2>1, <2>6 DEF FailRequest
  <2>7. QED
    BY <2>2, <2>3, <2>4, <2>5, <2>6
<1>4. QED
  BY <1>1, <1>2, <1>3, Frames

\* The report is queued.
LEMMA QueueReportStep ==
  ASSUME IndInv, NEW r \in Requests, QueueReport(r)
  PROVE  IndInv'
<1> USE DEF IndInv, QueueReport, Goes, device, work, reports
<1>1. job[r] = "none"
  BY DEF HandlerInv
<1>2. QueueInv'
  BY <1>1, SameQueue, BoundsHold, Laws!AddQueue DEF QueueInv
<1>3. /\ job'[r] = "wait" /\ \A s \in Requests \ {r} : job'[s] = job[s]
      /\ UNCHANGED <<attempts, stalls>>
  BY QueueTyped DEF QueueTypes, Queue!Add, Queue!Move
<1>4. Types'
  BY DEF Types
<1>5. WorkerInv'
  BY <1>1, <1>3 DEF WorkerInv
<1>6. HandlerInv' /\ AnsweredIsReported'
  BY <1>3 DEF HandlerInv, AnsweredIsReported, Types
<1>7. CountInv'
  BY <1>1, <1>3 DEF CountInv, Laws!Spent, OpenMessage, OpenNote, Interrupted
<1>8. DoneInv'
  BY <1>3 DEF DoneInv
<1>9. QED
  BY <1>2, <1>4, <1>5, <1>6, <1>7, <1>8, Frames

\* The worker takes the oldest job.
LEMMA TakeStep ==
  ASSUME IndInv, TakeJob
  PROVE  IndInv'
<1> USE DEF IndInv, TakeJob, device, handlers, reports
<1>1. PICK r \in Requests : Queue!Take(r) /\ active' = r
  OBVIOUS
<1>2. QueueInv' /\ job[r] = "wait"
  BY <1>1, SameQueue, BoundsHold, Laws!TakeQueue DEF QueueInv
<1>3. /\ job'[r] = "active" /\ \A s \in Requests \ {r} : job'[s] = job[s]
      /\ UNCHANGED <<attempts, stalls>>
  BY <1>1, QueueTyped DEF QueueTypes, Queue!Take, Queue!Move
<1>4. Types'
  BY <1>1 DEF Types
<1>5. WorkerInv'
  BY <1>1, <1>3, NoneAssumption DEF WorkerInv
<1>6. HandlerInv' /\ AnsweredIsReported'
  BY <1>2, <1>3 DEF HandlerInv, AnsweredIsReported
<1>7. CountInv'
  BY <1>2, <1>3, NoneAssumption
  DEF CountInv, Laws!Spent, OpenMessage, OpenNote, Interrupted, Written, WorkerInv
<1>8. AheadInv' /\ DoneInv'
  BY <1>3 DEF AheadInv, DoneInv
<1>9. QED
  BY <1>2, <1>4, <1>5, <1>6, <1>7, <1>8, Frames

\* The worker reads; it goes on only with somebody to report to.
LEMMA ReadSteps ==
  ASSUME IndInv, FindSession \/ CalculateScore
  PROVE  IndInv'
<1> USE DEF IndInv, WorkerGoes, device, handlers, queue, reports
<1>1. active \in Requests /\ job[active] = "active"
  BY ActiveJob DEF FindSession, CalculateScore
<1>2. /\ UNCHANGED <<owner, at, seen, sessions, queue, active, messages, shown, notes,
                     crashes>>
      /\ worker # "idle" /\ worker \notin Written
      /\ worker' \in {"score", "message", "return"}
      /\ worker' = "return" => active \in missed'
      /\ missed' \subseteq Requests
      /\ \A r \in Requests \ {active} : r \in missed <=> r \in missed'
  BY <1>1 DEF FindSession, CalculateScore, Written, Types
<1> USE <1>2
<1>3. Types'
  BY DEF Types
<1>4. WorkerInv'
  BY DEF WorkerInv
<1>5. CountInv'
  <2> SUFFICES ASSUME NEW r \in Requests
               PROVE  /\ messages[r] <= Laws!Spent(r) + (IF OpenMessage(r)' THEN 1 ELSE 0)
                      /\ notes[r] <= stalls[r] + (IF OpenNote(r)' THEN 1 ELSE 0)
    BY DEF CountInv, Laws!Spent
  <2>1. /\ messages[r] <= Laws!Spent(r) + (IF OpenMessage(r) THEN 1 ELSE 0)
        /\ notes[r] <= stalls[r] + (IF OpenNote(r) THEN 1 ELSE 0)
    BY DEF CountInv
  <2>2. messages[r] \in Nat /\ notes[r] \in Nat /\ Laws!Spent(r) \in Nat /\ stalls[r] \in Nat
    BY QueueTyped DEF QueueTypes, Types, Laws!Spent
  <2>3. (OpenMessage(r) => OpenMessage(r)') /\ (OpenNote(r) => OpenNote(r)')
    BY DEF OpenMessage, OpenNote, Interrupted, Written
  <2> HIDE DEF IndInv
  <2>4. QED
    BY <2>1, <2>2, <2>3
<1>6. AheadInv'
  BY DEF AheadInv
<1>7. DoneInv'
  BY <1>1 DEF DoneInv
<1>8. QED
  BY <1>3, <1>4, <1>5, <1>6, <1>7, Frames

\* The worker writes the message, shows it and logs the notification.
LEMMA WriteSteps ==
  ASSUME IndInv, SaveMessage \/ Broadcast \/ LogNotification
  PROVE  IndInv'
<1> USE DEF IndInv, WorkerGoes, device, handlers, queue
<1>1. active \in Requests /\ job[active] = "active"
  BY ActiveJob DEF SaveMessage, Broadcast, LogNotification
<1>2. WorkerInv'
  BY DEF SaveMessage, Broadcast, LogNotification, WorkerInv
<1>3. UNCHANGED <<owner, at, seen, sessions, queue, active, crashes, missed>>
  BY DEF SaveMessage, Broadcast, LogNotification
<1>4. \A r \in Requests : Laws!Spent(r) \in Nat /\ stalls[r] \in Nat
  BY QueueTyped DEF QueueTypes, Laws!Spent
<1>5. ~ Interrupted(active)
  BY <1>1 DEF Interrupted
<1>6. CASE SaveMessage
  <2>1. /\ messages'[active] = messages[active] + 1
        /\ \A r \in Requests \ {active} : messages'[r] = messages[r]
        /\ messages' \in [Requests -> Nat]
    BY <1>1, <1>6 DEF SaveMessage, Types
  <2> USE <1>6 DEF SaveMessage
  <2>2. Types'
    BY <2>1 DEF Types
  <2>3. CountInv'
    BY <1>1, <1>4, <1>5, <2>1
    DEF CountInv, Laws!Spent, OpenMessage, OpenNote, Interrupted, Written, Types
  <2>4. AheadInv' /\ ReportInOrder'
    BY <1>1, <2>1 DEF AheadInv, ReportInOrder, Types
  <2>5. DoneInv'
    BY DEF DoneInv
  <2>6. QED
    BY <1>2, <1>3, <2>2, <2>3, <2>4, <2>5, Frames
<1>7. CASE Broadcast
  <2>1. /\ shown'[active] = shown[active] + 1
        /\ \A r \in Requests \ {active} : shown'[r] = shown[r]
        /\ shown' \in [Requests -> Nat]
    BY <1>1, <1>7 DEF Broadcast, Types
  <2> USE <1>7 DEF Broadcast
  <2>2. Types'
    BY <2>1 DEF Types
  <2>3. CountInv'
    BY DEF CountInv, Laws!Spent, OpenMessage, OpenNote, Interrupted, Written
  <2>4. AheadInv' /\ ReportInOrder'
    BY <1>1, <2>1 DEF AheadInv, ReportInOrder, Types
  <2>5. DoneInv'
    BY DEF DoneInv
  <2>6. QED
    BY <1>2, <1>3, <2>2, <2>3, <2>4, <2>5, Frames
<1>8. CASE LogNotification
  <2>1. /\ notes'[active] = notes[active] + 1
        /\ \A r \in Requests \ {active} : notes'[r] = notes[r]
        /\ notes' \in [Requests -> Nat]
    BY <1>1, <1>8 DEF LogNotification, Types
  <2> USE <1>8 DEF LogNotification
  <2>2. Types'
    BY <2>1 DEF Types
  <2>3. CountInv'
    BY <1>1, <1>4, <1>5, <2>1
    DEF CountInv, Laws!Spent, OpenMessage, OpenNote, Interrupted, Written, Types
  <2>4. AheadInv' /\ ReportInOrder'
    BY <1>1, <2>1 DEF AheadInv, ReportInOrder, Types
  <2>5. DoneInv'
    BY <1>1, <2>1 DEF DoneInv, Types
  <2>6. QED
    BY <1>2, <1>3, <2>2, <2>3, <2>4, <2>5, Frames
<1>9. QED
  BY <1>6, <1>7, <1>8

\* The worker leaves its job, done or failed.
LEMMA LeaveSteps ==
  ASSUME IndInv, CompleteJob \/ FailJob
  PROVE  IndInv'
<1> USE DEF IndInv, WorkerIdles, device, handlers, reports
<1>1. active \in Requests /\ job[active] = "active"
  BY ActiveJob DEF CompleteJob, FailJob
<1>2. /\ QueueInv'
      /\ UNCHANGED stalls
      /\ \A r \in Requests \ {active} : job'[r] = job[r] /\ attempts'[r] = attempts[r]
      /\ \/ attempts' = attempts /\ worker = "return" /\ job'[active] = "completed"
         \/ /\ attempts'[active] = attempts[active] + 1 /\ worker # "return"
            /\ job'[active] \in {"delayed", "exhausted"}
  <2>1. CASE CompleteJob
    <3>1. QueueInv'
      BY <1>1, <2>1, SameQueue, BoundsHold, Laws!CompleteQueue DEF CompleteJob, QueueInv
    <3>2. QED
      BY <1>1, <2>1, <3>1, QueueTyped
      DEF CompleteJob, Queue!Complete, Queue!Move, QueueTypes
  <2>2. CASE FailJob
    <3>1. QueueInv'
      BY <1>1, <2>2, SameQueue, BoundsHold, Laws!ThrowQueue DEF FailJob, QueueInv
    <3>2. QED
      BY <1>1, <2>2, <3>1, QueueTyped
      DEF FailJob, Queue!Throw, Queue!Move, QueueTypes
  <2>3. QED
    BY <2>1, <2>2
<1>3. /\ UNCHANGED <<owner, at, seen, sessions, messages, shown, notes, crashes, missed>>
      /\ worker' = "idle" /\ active' = None
  BY DEF CompleteJob, FailJob
<1> USE <1>3
<1>4. Types'
  BY DEF Types
<1>5. WorkerInv'
  BY <1>2, NoneAssumption DEF WorkerInv
<1>6. HandlerInv' /\ AnsweredIsReported'
  BY <1>1, <1>2 DEF HandlerInv, AnsweredIsReported
<1>7. CountInv'
  <2> SUFFICES ASSUME NEW r \in Requests
               PROVE  /\ messages[r] <= Laws!Spent(r)' + (IF OpenMessage(r)' THEN 1 ELSE 0)
                      /\ notes[r] <= stalls[r] + (IF OpenNote(r)' THEN 1 ELSE 0)
    BY <1>2 DEF CountInv
  <2>1. /\ messages[r] <= Laws!Spent(r) + (IF OpenMessage(r) THEN 1 ELSE 0)
        /\ notes[r] <= stalls[r] + (IF OpenNote(r) THEN 1 ELSE 0)
    BY DEF CountInv
  <2>2. messages[r] \in Nat /\ notes[r] \in Nat /\ attempts[r] \in Nat /\ stalls[r] \in Nat
    BY QueueTyped DEF QueueTypes, Types
  <2> HIDE DEF IndInv
  <2>3. CASE r # active
    BY <1>2, <2>1, <2>2, <2>3, NoneAssumption
    DEF Laws!Spent, OpenMessage, OpenNote, Interrupted
  <2>4. CASE r = active /\ job'[active] = "completed" /\ attempts' = attempts
    <3>1. OpenMessage(r)' /\ OpenNote(r)'
      BY <2>4 DEF OpenMessage, OpenNote, Interrupted
    <3>2. QED
      BY <1>2, <2>1, <2>2, <2>4, <3>1 DEF Laws!Spent
  <2>5. CASE /\ r = active /\ attempts'[active] = attempts[active] + 1
             /\ worker # "return"
    <3>1. ~ OpenNote(r)
      BY <1>1, <2>5 DEF OpenNote, Interrupted
    <3>2. QED
      BY <1>2, <2>1, <2>2, <2>5, <3>1 DEF Laws!Spent
  <2>6. QED
    BY <1>2, <2>3, <2>4, <2>5
<1>8. AheadInv' /\ DoneInv'
  BY <1>1, <1>2 DEF AheadInv, DoneInv
<1>9. QED
  BY <1>2, <1>4, <1>5, <1>6, <1>7, <1>8, Frames

\* A backoff or the lock of a dead worker runs out.
LEMMA TimerSteps ==
  ASSUME IndInv, NEW r \in Requests, QueueTimer(r)
  PROVE  IndInv'
<1> USE DEF IndInv
<1>1. UNCHANGED <<owner, at, seen, sessions, worker, active, messages, shown, notes,
                  crashes, missed>>
  BY DEF QueueTimer, device, handlers, work, reports
<1>2. /\ QueueInv'
      /\ job[r] \in {"delayed", "orphan"} /\ job'[r] \in {"wait", "exhausted"}
      /\ \A s \in Requests \ {r} :
           job'[s] = job[s] /\ attempts'[s] = attempts[s] /\ stalls'[s] = stalls[s]
      /\ attempts'[r] = attempts[r]
      /\ \/ job[r] = "delayed" /\ stalls'[r] = stalls[r]
         \/ job[r] = "orphan"  /\ stalls'[r] = stalls[r] + 1
  <2>1. QueueTypes
    BY QueueTyped
  <2>2. CASE Queue!Promote(r)
    <3>1. QueueInv'
      BY <2>2, SameQueue, BoundsHold, Laws!PromoteQueue DEF QueueInv
    <3>2. QED
      BY <2>1, <2>2, <3>1 DEF QueueTypes, Queue!Promote, Queue!Move
  <2>3. CASE Queue!Recover(r)
    <3>1. QueueInv'
      BY <2>3, SameQueue, BoundsHold, Laws!RecoverQueue DEF QueueInv
    <3>2. QED
      BY <2>1, <2>3, <3>1 DEF QueueTypes, Queue!Recover, Queue!Move
  <2>4. QED
    BY <2>2, <2>3 DEF QueueTimer
<1> USE <1>1
<1>3. Types'
  BY DEF Types
<1>4. WorkerInv'
  BY <1>2 DEF WorkerInv
<1>5. HandlerInv' /\ AnsweredIsReported'
  BY <1>2 DEF HandlerInv, AnsweredIsReported
<1>6. CountInv'
  <2> SUFFICES ASSUME NEW s \in Requests
               PROVE  /\ messages[s] <= Laws!Spent(s)' + (IF OpenMessage(s)' THEN 1 ELSE 0)
                      /\ notes[s] <= stalls'[s] + (IF OpenNote(s)' THEN 1 ELSE 0)
    BY DEF CountInv
  <2>1. /\ messages[s] <= Laws!Spent(s) + (IF OpenMessage(s) THEN 1 ELSE 0)
        /\ notes[s] <= stalls[s] + (IF OpenNote(s) THEN 1 ELSE 0)
    BY DEF CountInv
  <2>2. messages[s] \in Nat /\ notes[s] \in Nat /\ attempts[s] \in Nat /\ stalls[s] \in Nat
    BY QueueTyped DEF QueueTypes, Types
  <2>3. job[r] = "delayed" => ~ OpenMessage(r) /\ ~ OpenNote(r)
    BY DEF OpenMessage, OpenNote, Interrupted, WorkerInv
  <2> HIDE DEF IndInv
  <2>4. CASE s # r
    BY <1>2, <2>1, <2>4 DEF Laws!Spent, OpenMessage, OpenNote, Interrupted
  <2>5. CASE s = r /\ job[r] = "delayed"
    BY <1>2, <2>1, <2>2, <2>3, <2>5 DEF Laws!Spent
  <2>6. CASE s = r /\ job[r] = "orphan"
    BY <1>2, <2>1, <2>2, <2>6 DEF Laws!Spent
  <2>7. QED
    BY <1>2, <2>4, <2>5, <2>6
<1>7. DoneInv'
  BY <1>2 DEF DoneInv
<1>8. QED
  BY <1>2, <1>3, <1>4, <1>5, <1>6, <1>7, Frames

\* The process dies and starts again.
LEMMA CrashStep ==
  ASSUME IndInv, Crash
  PROVE  IndInv'
<1> USE DEF IndInv, Crash, device, reports
<1>1. QueueInv' /\ UNCHANGED <<attempts, stalls>>
  BY SameQueue, BoundsHold, Laws!RestartQueue DEF QueueInv
<1>2. ASSUME NEW r \in Requests
      PROVE  /\ job'[r] # "active"
             /\ job[r] = "none" <=> job'[r] = "none"
             /\ job'[r] \in {"completed", "wait", "delayed", "exhausted"} =>
                  job[r] = job'[r]
             /\ job[r] = "completed" => job'[r] = "completed"
             /\ job[r] \in {"active", "orphan", "lost"} => job'[r] \in {"orphan", "lost"}
  BY DEF Queue!Restart, Queue!Over
<1>3. Types'
  BY CrashesAssumption DEF Types
<1>4. WorkerInv'
  BY <1>2, NoneAssumption DEF WorkerInv
<1>5. HandlerInv' /\ AnsweredIsReported'
  BY <1>2 DEF HandlerInv, AnsweredIsReported
<1>6. CountInv'
  <2> SUFFICES ASSUME NEW r \in Requests
               PROVE  /\ messages[r] <= Laws!Spent(r) + (IF OpenMessage(r)' THEN 1 ELSE 0)
                      /\ notes[r] <= stalls[r] + (IF OpenNote(r)' THEN 1 ELSE 0)
    BY <1>1 DEF CountInv, Laws!Spent
  <2>1. /\ messages[r] <= Laws!Spent(r) + (IF OpenMessage(r) THEN 1 ELSE 0)
        /\ notes[r] <= stalls[r] + (IF OpenNote(r) THEN 1 ELSE 0)
    BY DEF CountInv
  <2>2. messages[r] \in Nat /\ notes[r] \in Nat /\ Laws!Spent(r) \in Nat /\ stalls[r] \in Nat
    BY QueueTyped DEF QueueTypes, Types, Laws!Spent
  <2>3. (OpenMessage(r) => OpenMessage(r)') /\ (OpenNote(r) => OpenNote(r)')
    BY <1>2 DEF OpenMessage, OpenNote, Interrupted, WorkerInv
  <2> HIDE DEF IndInv
  <2>4. QED
    BY <2>1, <2>2, <2>3
<1>7. AheadInv' /\ DoneInv'
  BY <1>2 DEF AheadInv, DoneInv
<1>8. QED
  BY <1>1, <1>3, <1>4, <1>5, <1>6, <1>7, Frames

-----------------------------------------------------------------------------
(* The invariants.                                                         *)

\* IndInv holds throughout, whatever fails or dies.
THEOREM Invariance == Spec => []IndInv
<1>1. Init => IndInv
  BY InitInv
<1>2. IndInv /\ [Next]_vars => IndInv'
  <2> SUFFICES ASSUME IndInv, [Next]_vars PROVE IndInv'
    OBVIOUS
  <2>1. ASSUME NEW u \in Users \cup {None}, ChangeOwner(u) PROVE IndInv'
    BY <2>1, OwnerStep
  <2>2. ASSUME NEW r \in Requests, Arrive(r) \/ Handle(r) \/ FailRequest(r)
        PROVE  IndInv'
    BY <2>2, HandlerSteps, QueueReportStep DEF Handle
  <2>3. ASSUME NEW r \in Requests, QueueTimer(r) PROVE IndInv'
    BY <2>3, TimerSteps
  <2>4. CASE TakeJob
    BY <2>4, TakeStep
  <2>5. CASE FindSession \/ CalculateScore
    BY <2>5, ReadSteps
  <2>6. CASE SaveMessage \/ Broadcast \/ LogNotification
    BY <2>6, WriteSteps
  <2>7. CASE CompleteJob \/ FailJob
    BY <2>7, LeaveSteps
  <2>8. CASE Crash
    BY <2>8, CrashStep
  <2>9. CASE UNCHANGED vars
    <3>1. Types'
      BY <2>9 DEF IndInv, Types, vars, device, handlers, work, reports
    <3>2. QED
      BY <2>9, <3>1, Frames DEF vars, device, handlers, queue, work, reports, IndInv
  <2>10. QED
    BY <2>1, <2>2, <2>3, <2>4, <2>5, <2>6, <2>7, <2>8, <2>9 DEF Next, Worker
<1>3. QED
  BY <1>1, <1>2, PTL DEF Spec

\* Every variable has its type; a session has at most a message per attempt
\* and stall, and a notification per stall and one more.
THEOREM TypeCorrect == Spec => []TypeOK
<1>1. IndInv => TypeOK
  <2> SUFFICES ASSUME IndInv PROVE TypeOK
    OBVIOUS
  <2>1. Queue!TypeOK
    BY QueueTyped DEF IndInv, QueueTypes
  <2>2. ASSUME NEW r \in Requests
        PROVE  /\ messages[r] \in 0..(MaxAttempts + MaxStalls)
               /\ notes[r] \in 0..(1 + MaxStalls)
    <3>1. /\ messages[r] <= Laws!Spent(r) + (IF OpenMessage(r) THEN 1 ELSE 0)
          /\ notes[r] <= stalls[r] + (IF OpenNote(r) THEN 1 ELSE 0)
      BY DEF IndInv, CountInv
    <3>2. /\ messages[r] \in Nat /\ notes[r] \in Nat
          /\ attempts[r] \in Nat /\ stalls[r] \in Nat
      BY QueueTyped DEF IndInv, QueueTypes, Types
    <3>3. /\ stalls[r] <= MaxStalls + 1 /\ Laws!Spent(r) <= MaxAttempts + MaxStalls
          /\ job[r] # "exhausted" => attempts[r] < MaxAttempts /\ stalls[r] <= MaxStalls
      BY DEF IndInv, QueueInv, Laws!QueueInv, Laws!WithinBounds
    <3>4. OpenMessage(r) \/ OpenNote(r) => job[r] # "exhausted"
      BY DEF OpenMessage, OpenNote, Interrupted, IndInv, WorkerInv
    <3>5. QED
      BY <3>1, <3>2, <3>3, <3>4, AttemptsAssumption, StallsAssumption DEF Laws!Spent
  <2>3. QED
    BY <2>1, <2>2 DEF IndInv, Types, TypeOK
<1>2. QED
  BY <1>1, Invariance, PTL

\* What is notified was shown, and what was shown is a stored message, through
\* every retry and restart.
THEOREM ReportsInOrder == Spec => []ReportInOrder
BY Invariance, PTL DEF IndInv

\* A run whose event was answered is stored, and its report was queued if and
\* only if the handler read an owner.
THEOREM AnsweredRunsReported == Spec => []AnsweredIsReported
BY Invariance, PTL DEF IndInv

-----------------------------------------------------------------------------
(* The implementation of AtLeastOnce.                                      *)

\* Stage, request by request.
LEMMA StageFunction ==
  /\ Stage = [r \in Requests |-> Stage[r]]
  /\ Stage' = [r \in Requests |-> Stage'[r]]
BY DEF Stage

\* Some of the reports that are owed are dropped, or none.
LEMMA DropOrStutter ==
  ASSUME UNCHANGED notes,
         \A r \in Requests : \/ Stage'[r] = Stage[r]
                             \/ Stage[r] = "owed" /\ Stage'[r] = "dropped"
  PROVE  Delivery!Next
<1> DEFINE D == {r \in Requests : Stage[r] = "owed" /\ Stage'[r] = "dropped"}
<1>1. Stage' = [r \in Requests |-> IF r \in D THEN "dropped" ELSE Stage[r]]
  BY StageFunction
<1>2. D \in SUBSET {r \in Requests : Stage[r] = "owed"}
  OBVIOUS
<1>3. Delivery!Drop
  BY <1>1, <1>2 DEF Delivery!Drop
<1>4. QED
  BY <1>3 DEF Delivery!Next

\* Every step is a step of AtLeastOnce or leaves its state alone.
LEMMA DeliveryStep ==
  ASSUME IndInv, [Next]_vars
  PROVE  [Delivery!Next]_(Delivery!vars)
<1> USE DEF IndInv
<1>1. ASSUME UNCHANGED <<job, notes, missed>>
      PROVE  Delivery!Next
  BY <1>1, DropOrStutter DEF Stage
<1>2. ASSUME NEW r \in Requests,
             Arrive(r) \/ FindDevice(r) \/ InsertSession(r)
               \/ QueueCharacter(r) \/ FailRequest(r)
      PROVE  Delivery!Next
  BY <1>1, <1>2 DEF Arrive, FindDevice, InsertSession, QueueCharacter,
     FailRequest, Goes, queue, reports
<1>3. ASSUME NEW u \in Users \cup {None}, ChangeOwner(u)
      PROVE  Delivery!Next
  BY <1>1, <1>3 DEF ChangeOwner, queue, reports
<1>4. ASSUME NEW r \in Requests, QueueReport(r)
      PROVE  Delivery!Next
  <2>1. job[r] = "none"
    BY <1>4 DEF QueueReport, Goes, HandlerInv
  <2>2. job'[r] = "wait" /\ \A s \in Requests \ {r} : job'[s] = job[s]
    BY <1>4, QueueTyped DEF QueueReport, QueueTypes, Queue!Add, Queue!Move
  <2>3. UNCHANGED <<notes, missed>>
    BY <1>4 DEF QueueReport, Goes, reports
  <2>4. Stage[r] = "absent" /\ Stage'[r] = "owed"
    BY <2>1, <2>2 DEF Stage
  <2>5. \A s \in Requests \ {r} : Stage'[s] = Stage[s]
    BY <2>2, <2>3 DEF Stage
  <2>6. Delivery!Accept(r)
    BY <2>3, <2>4, <2>5, StageFunction DEF Delivery!Accept, Delivery!Move
  <2>7. QED
    BY <2>6 DEF Delivery!Next
<1>5. ASSUME NEW r \in Requests, QueueTimer(r)
      PROVE  Delivery!Next
  <2>1. /\ job[r] \in {"delayed", "orphan"} /\ job'[r] \in {"wait", "exhausted"}
        /\ \A s \in Requests \ {r} : job'[s] = job[s]
        /\ UNCHANGED <<notes, missed>>
    BY <1>5, QueueTyped
    DEF QueueTimer, Queue!Promote, Queue!Recover, Queue!Move, QueueTypes, reports
  <2>2. Stage[r] = "owed" /\ Stage'[r] \in {"owed", "dropped"}
    BY <2>1 DEF Stage
  <2>3. \A s \in Requests \ {r} : Stage'[s] = Stage[s]
    BY <2>1 DEF Stage
  <2>4. QED
    BY <2>1, <2>2, <2>3, DropOrStutter
<1>6. ASSUME TakeJob
      PROVE  Delivery!Next
  <2>1. PICK r \in Requests : Queue!Take(r)
    BY <1>6 DEF TakeJob
  <2>2. job[r] = "wait"
    BY <2>1, SameQueue, BoundsHold, Laws!TakeQueue DEF QueueInv
  <2>3. job'[r] = "active" /\ \A s \in Requests \ {r} : job'[s] = job[s]
    BY <2>1, QueueTyped DEF QueueTypes, Queue!Take, Queue!Move
  <2>4. \A s \in Requests : Stage'[s] = Stage[s]
    BY <1>6, <2>2, <2>3 DEF Stage, TakeJob
  <2>5. QED
    BY <1>6, <2>4, DropOrStutter DEF TakeJob, reports
<1>7. ASSUME FindSession \/ CalculateScore \/ SaveMessage \/ Broadcast
      PROVE  Delivery!Next
  <2>1. CASE FindSession
    <3>1. active \in Requests /\ job[active] = "active"
      BY <2>1, ActiveJob DEF FindSession, WorkerGoes
    <3>2. \A s \in Requests \ {active} : s \in missed <=> s \in missed'
      BY <2>1 DEF FindSession
    <3>3. UNCHANGED <<job, notes>>
      BY <2>1 DEF FindSession, WorkerGoes, queue, reports
    <3>4. \A s \in Requests : Stage'[s] = Stage[s]
      BY <3>1, <3>2, <3>3 DEF Stage
    <3>5. QED
      BY <3>3, <3>4, DropOrStutter
  <2>2. CASE CalculateScore \/ SaveMessage \/ Broadcast
    BY <1>1, <2>2
    DEF CalculateScore, SaveMessage, Broadcast, WorkerGoes, queue, reports
  <2>3. QED
    BY <1>7, <2>1, <2>2
<1>8. ASSUME LogNotification
      PROVE  Delivery!Next
  <2> USE <1>8 DEF LogNotification, WorkerGoes, queue
  <2>1. active \in Requests /\ job[active] = "active"
    BY ActiveJob
  <2>2. Stage[active] = "owed" /\ Stage' = Stage
    BY <2>1 DEF Stage
  <2>3. {r \in Requests : notes'[r] > 0} = {r \in Requests : notes[r] > 0} \cup {active}
    BY <2>1 DEF Types
  <2>4. PICK r \in Requests : r = active
    BY <2>1
  <2>5. Delivery!TakeEffect(r)
    BY <2>2, <2>3, <2>4 DEF Delivery!TakeEffect
  <2>6. QED
    BY <2>5 DEF Delivery!Next
<1>9. ASSUME CompleteJob
      PROVE  Delivery!Next
  <2> USE <1>9 DEF CompleteJob, WorkerIdles, reports
  <2>1. /\ active \in Requests /\ job[active] = "active"
        /\ notes[active] > 0 \/ active \in missed
    BY ActiveJob DEF DoneInv
  <2>2. job'[active] = "completed" /\ \A s \in Requests \ {active} : job'[s] = job[s]
    BY <2>1, QueueTyped DEF QueueTypes, Queue!Complete, Queue!Move
  <2>3. /\ Stage[active] = "owed"
        /\ Stage'[active] = IF active \in missed THEN "dropped" ELSE "delivered"
    BY <2>1, <2>2 DEF Stage
  <2>4. \A s \in Requests \ {active} : Stage'[s] = Stage[s]
    BY <2>2 DEF Stage
  <2>5. CASE active \in missed
    BY <2>3, <2>4, <2>5, DropOrStutter
  <2>6. CASE active \notin missed
    <3>1. Delivery!Deliver(active)
      BY <2>1, <2>3, <2>4, <2>6, StageFunction DEF Delivery!Deliver, Delivery!Move
    <3>2. QED
      BY <2>1, <3>1 DEF Delivery!Next
  <2>7. QED
    BY <2>5, <2>6
<1>10. ASSUME FailJob
       PROVE  Delivery!Next
  <2> USE <1>10 DEF FailJob, WorkerIdles, reports
  <2>1. active \in Requests /\ job[active] = "active"
    BY ActiveJob
  <2>2. /\ job'[active] \in {"delayed", "exhausted"}
        /\ \A s \in Requests \ {active} : job'[s] = job[s]
    BY <2>1, QueueTyped DEF QueueTypes, Queue!Throw, Queue!Move
  <2>3. Stage[active] = "owed" /\ Stage'[active] \in {"owed", "dropped"}
    BY <2>1, <2>2 DEF Stage
  <2>4. \A s \in Requests \ {active} : Stage'[s] = Stage[s]
    BY <2>2 DEF Stage
  <2>5. QED
    BY <2>3, <2>4, DropOrStutter
<1>11. ASSUME Crash
       PROVE  Delivery!Next
  <2>1. UNCHANGED <<notes, missed>>
    BY <1>11 DEF Crash, reports
  <2>2. ASSUME NEW r \in Requests
        PROVE  \/ job'[r] = job[r]
               \/ /\ job[r] \in {"wait", "active", "delayed", "orphan"}
                  /\ job'[r] \in {"orphan", "lost"}
    BY <1>11, QueueTyped DEF Crash, Queue!Restart, Queue!Over, QueueTypes, Queue!TypeOK
  <2>3. \A r \in Requests : \/ Stage'[r] = Stage[r]
                            \/ Stage[r] = "owed" /\ Stage'[r] = "dropped"
    BY <2>1, <2>2 DEF Stage
  <2>4. QED
    BY <2>1, <2>3, DropOrStutter
<1>12. CASE UNCHANGED vars
  BY <1>12 DEF vars, queue, reports, Delivery!vars, Stage
<1>13. QED
  BY <1>2, <1>3, <1>4, <1>5, <1>6, <1>7, <1>8, <1>9, <1>10, <1>11, <1>12
  DEF Next, Handle, Worker

\* A queued report is written at least once and then delivered, or dropped, and
\* is then left alone, whoever owns the device meanwhile: Sessions implements
\* AtLeastOnce.
THEOREM ReportsDelivered == Spec => ImplementsDelivery
<1>1. Init => Delivery!Init
  <2> SUFFICES ASSUME Init PROVE Delivery!Init
    OBVIOUS
  <2>1. \A r \in Requests : job[r] = "none" /\ notes[r] = 0
    BY DEF Init, Queue!Init
  <2>2. \A r \in Requests : Stage[r] = "absent"
    BY <2>1 DEF Stage
  <2>3. QED
    BY <2>1, <2>2, StageFunction DEF Delivery!Init
<1>2. QED
  BY <1>1, Invariance, DeliveryStep, PTL DEF Spec, ImplementsDelivery, Delivery!Spec
=============================================================================
