---------------------------- MODULE DeviceCommands ----------------------------
(***************************************************************************)
(* The life of a device command: the HTTP handler that records it and      *)
(* queues a job for it (DevicesService.sendCommand), the queue, the worker *)
(* that carries it out (DeviceControlProcessor.process), and the handler   *)
(* with which the device itself acknowledges it                            *)
(* (DevicesService.acknowledgeCommand).  All of them run in one process.   *)
(*                                                                         *)
(* The queue is JobQueue, whose jobs are the commands.                     *)
(*                                                                         *)
(* As in DeviceRow, a step is the code between two answers of the          *)
(* database, and save is a SELECT and an UPDATE of what differs.           *)
(***************************************************************************)
EXTENDS Naturals, Sequences, FiniteSets, SequencesExt

CONSTANTS
  Commands,      \* command identifiers
  Ackers,        \* acknowledgements of the device in flight at once
  Verdicts,      \* what the body of an acknowledgement may give as status
  MaxAttempts,   \* defaultJobOptions.attempts
  MaxStalls,     \* BullMQ's maxStalledCount
  Queues,        \* what a restart may find, see JobQueue
  MaxCrashes,    \* bound on process restarts
  None           \* no command, and the status of a command without a row

ASSUME AttemptsAssumption == MaxAttempts \in Nat \ {0}
ASSUME StallsAssumption == MaxStalls \in Nat
ASSUME CrashesAssumption == MaxCrashes \in Nat
ASSUME QueuesAssumption == Queues \subseteq {"redis", "memory"}
ASSUME NoneAssumption ==
  None \notin Commands \cup Verdicts \cup {"PENDING", "SENT", "ACKED"}

VARIABLES
  status,    \* the status column of each command, None before the INSERT
  sender,    \* the sendCommand handler of each command
  job, wait, attempts, stalls,   \* the queue, see JobQueue
  worker,    \* what the worker does next
  active,    \* the command of the worker's job, or None
  differs,   \* whether the worker's last SELECT found another status
  acker,     \* the acknowledgement handlers
  crashes,   \* restarts so far
  enqueued,  \* history: the commands in the order of their jobs
  applied,   \* history: the commands in the order they reached the device row
  writer     \* history: who wrote the status of each command last

vars == <<status, sender, job, wait, attempts, stalls, worker, active, differs,
          acker, crashes, enqueued, applied, writer>>
queue == <<job, wait, attempts, stalls>>
work == <<worker, active, differs>>

Queue == INSTANCE JobQueue WITH Jobs <- Commands

IdleAck == [at |-> "idle", cmd |-> None, verdict |-> None, differs |-> FALSE]

Init ==
  /\ status = [c \in Commands |-> None]
  /\ sender = [c \in Commands |-> "idle"]
  /\ Queue!Init
  /\ worker = "idle"
  /\ active = None
  /\ differs = FALSE
  /\ acker = [a \in Ackers |-> IdleAck]
  /\ crashes = 0
  /\ enqueued = <<>>
  /\ applied = <<>>
  /\ writer = [c \in Commands |-> "nobody"]

-----------------------------------------------------------------------------
(* sendCommand: the row first, then the job.                               *)

\* A statement stores v as the status of c, in the name of w, if it differs
\* from what was selected; a save without a difference writes no status.
Store(c, v, w, different) ==
  /\ status' = [status EXCEPT ![c] = IF different THEN v ELSE @]
  /\ writer' = [writer EXCEPT ![c] = IF different THEN w ELSE @]

RecordCommand(c) ==
  /\ sender[c] = "idle"
  /\ sender' = [sender EXCEPT ![c] = "saved"]
  /\ Store(c, "PENDING", "handler", TRUE)
  /\ UNCHANGED <<queue, work, acker, crashes, enqueued, applied>>

\* With NODE_ENV 'test' enqueueCommand returns before the queue: not modelled,
\* a program that runs the unit tests has no worker either.
EnqueueCommand(c) ==
  /\ sender[c] = "saved"
  /\ sender' = [sender EXCEPT ![c] = "sent"]
  /\ Queue!Add(c)
  /\ enqueued' = Append(enqueued, c)
  /\ UNCHANGED <<status, work, acker, crashes, applied, writer>>

\* Redis refuses the job: the request fails and the row stays PENDING.
EnqueueFails(c) ==
  /\ sender[c] = "saved"
  /\ sender' = [sender EXCEPT ![c] = "failed"]
  /\ UNCHANGED <<status, queue, work, acker, crashes, enqueued, applied, writer>>

-----------------------------------------------------------------------------
(* The worker.  The find of process loads the command and its device; the  *)
(* row of a job's command is always there, so the early returns for a      *)
(* missing command or device are not reached.                              *)

TakeJob ==
  /\ worker = "idle"
  /\ \E c \in Commands : Queue!Take(c) /\ active' = c
  /\ worker' = "selectSent"
  /\ UNCHANGED <<status, sender, differs, acker, crashes, enqueued, applied,
                 writer>>

WorkerGoes(from, to) ==
  /\ worker = from
  /\ worker' = to
  /\ UNCHANGED <<sender, queue, active, acker, crashes, enqueued>>

SelectSent ==
  /\ WorkerGoes("selectSent", "updateSent")
  /\ differs' = (status[active] # "SENT")
  /\ UNCHANGED <<status, writer, applied>>

UpdateSent ==
  /\ WorkerGoes("updateSent", "apply")
  /\ Store(active, "SENT", "worker", differs)
  /\ UNCHANGED <<differs, applied>>

\* Faulty: the status moves on without the device row being saved.
ApplyNothing ==
  /\ WorkerGoes("apply", "selectAcked")
  /\ UNCHANGED <<status, writer, differs, applied>>

\* applyDeviceSideEffects and the save of the device; DeviceRow has the
\* detail of that save.
ApplyCommand ==
  /\ WorkerGoes("apply", "selectAcked")
  /\ applied' = Append(applied, active)
  /\ UNCHANGED <<status, writer, differs>>

\* Faulty: the comparison of the first save is reused by the second.
SelectAckedStale ==
  /\ WorkerGoes("selectAcked", "updateAcked")
  /\ UNCHANGED <<status, writer, differs, applied>>

SelectAcked ==
  /\ WorkerGoes("selectAcked", "updateAcked")
  /\ differs' = (status[active] # "ACKED")
  /\ UNCHANGED <<status, writer, applied>>

UpdateAcked ==
  /\ WorkerGoes("updateAcked", "return")
  /\ Store(active, "ACKED", "worker", differs)
  /\ UNCHANGED <<differs, applied>>

\* The worker leaves its job.
WorkerLeaves ==
  /\ worker' = "idle"
  /\ active' = None
  /\ UNCHANGED <<status, sender, differs, acker, crashes, enqueued, applied,
                 writer>>

CompleteJob ==
  /\ worker = "return"
  /\ Queue!Complete(active)
  /\ WorkerLeaves

\* A statement fails and process throws.
FailJob ==
  /\ worker \notin {"idle", "return"}
  /\ Queue!Throw(active)
  /\ WorkerLeaves

\* BullMQ's timers: a backoff, or the lock of a dead worker, runs out.
QueueTimer(c) ==
  /\ Queue!Promote(c) \/ Queue!Recover(c)
  /\ UNCHANGED <<status, sender, work, acker, crashes, enqueued, applied, writer>>

-----------------------------------------------------------------------------
(* acknowledgeCommand: the device reports a status.  Nothing checks it:    *)
(* PENDING and SENT are stored like ACKED and FAILED.                      *)

AckFind(a) ==
  /\ acker[a].at = "idle"
  /\ \E c \in Commands, v \in Verdicts :
       /\ status[c] # None
       /\ acker' = [acker EXCEPT ![a] =
                      [at |-> "select", cmd |-> c, verdict |-> v, differs |-> FALSE]]
  /\ UNCHANGED <<status, sender, queue, work, crashes, enqueued, applied, writer>>

AckSelect(a) ==
  /\ acker[a].at = "select"
  /\ acker' = [acker EXCEPT ![a].at = "update",
                            ![a].differs = status[acker[a].cmd] # acker[a].verdict]
  /\ UNCHANGED <<status, sender, queue, work, crashes, enqueued, applied, writer>>

AckUpdate(a) ==
  /\ acker[a].at = "update"
  /\ Store(acker[a].cmd, acker[a].verdict, "device", acker[a].differs)
  /\ acker' = [acker EXCEPT ![a] = IdleAck]
  /\ UNCHANGED <<sender, queue, work, crashes, enqueued, applied>>

\* A statement fails, or the column does not hold the status that was given.
AckFails(a) ==
  /\ acker[a].at # "idle"
  /\ acker' = [acker EXCEPT ![a] = IdleAck]
  /\ UNCHANGED <<status, sender, queue, work, crashes, enqueued, applied, writer>>

-----------------------------------------------------------------------------
\* The process dies and starts again.  Requests in flight are gone.
Crash ==
  /\ crashes < MaxCrashes
  /\ crashes' = crashes + 1
  /\ sender' = [c \in Commands |-> IF sender[c] = "saved" THEN "failed" ELSE sender[c]]
  /\ acker' = [a \in Ackers |-> IdleAck]
  /\ worker' = "idle"
  /\ active' = None
  /\ differs' = FALSE
  /\ Queue!Restart
  /\ UNCHANGED <<status, enqueued, applied, writer>>

-----------------------------------------------------------------------------
Worker ==
  \/ TakeJob \/ SelectSent \/ UpdateSent \/ ApplyCommand
  \/ SelectAcked \/ UpdateAcked \/ CompleteJob

Next ==
  \/ \E c \in Commands : RecordCommand(c) \/ EnqueueCommand(c) \/ EnqueueFails(c)
                         \/ QueueTimer(c)
  \/ Worker \/ FailJob
  \/ \E a \in Ackers : AckFind(a) \/ AckSelect(a) \/ AckUpdate(a) \/ AckFails(a)
  \/ Crash

Spec == Init /\ [][Next]_vars

\* The worker goes on while there are jobs, backoffs and locks run out, and
\* handlers that have begun are resumed.  Nothing obliges a user or a device to call.
FairSpec ==
  /\ Spec
  /\ WF_vars(Worker)
  /\ \A c \in Commands : WF_vars(EnqueueCommand(c)) /\ WF_vars(QueueTimer(c))
  /\ \A a \in Ackers : WF_vars(AckSelect(a) \/ AckUpdate(a))

-----------------------------------------------------------------------------
(* Invariants.                                                             *)

TypeOK ==
  /\ status \in [Commands -> {None, "PENDING", "SENT", "ACKED"} \cup Verdicts]
  /\ sender \in [Commands -> {"idle", "saved", "sent", "failed"}]
  /\ Queue!TypeOK
  /\ worker \in {"idle", "selectSent", "updateSent", "apply", "selectAcked",
                 "updateAcked", "return"}
  /\ active \in Commands \cup {None}
  /\ differs \in BOOLEAN
  /\ acker \in [Ackers -> [at: {"idle", "select", "update"},
                           cmd: Commands \cup {None},
                           verdict: Verdicts \cup {None},
                           differs: BOOLEAN]]
  /\ crashes \in 0..MaxCrashes
  /\ enqueued \in Seq(Commands)
  /\ applied \in Seq(Commands)
  /\ writer \in [Commands -> {"nobody", "handler", "worker", "device"}]

\* A command shows ACKED only if it was applied to the device row or the
\* device has had the last word, at whatever step a job failed or the process died.
AckedMeansDone ==
  \A c \in Commands :
    status[c] = "ACKED" => c \in ToSet(applied) \/ writer[c] = "device"

\* The command of a completed job was applied, and it shows ACKED unless the
\* device has had the last word: only an acknowledgement, which may give any
\* status, can take a completed command back to PENDING or SENT, never the
\* worker's own two saves, however the two handlers interleave.
CompletedIsSettled ==
  \A c \in Commands : job[c] = "completed" =>
    /\ c \in ToSet(applied)
    /\ status[c] = "ACKED" \/ writer[c] = "device"

\* Commands reach the device in the order they were queued; only a command
\* that was tried again, after an error or a restart, may come after later ones.
OrderKept ==
  \A i, j \in DOMAIN enqueued :
    i < j /\ attempts[enqueued[i]] = 0 /\ stalls[enqueued[i]] = 0 =>
    \A k, l \in DOMAIN applied :
      applied[k] = enqueued[j] /\ applied[l] = enqueued[i] => l < k

\* A command is applied at most once per attempt and per stall it survived.
AppliedBounded ==
  \A c \in Commands :
    Cardinality({k \in DOMAIN applied : applied[k] = c}) <= MaxAttempts + MaxStalls

-----------------------------------------------------------------------------
(* What the queue promises, abstractly.                                    *)

\* A command is owed from its row on, although its job is not queued yet.
Stage == [c \in Commands |->
            CASE status[c] = None                          -> "absent"
              [] job[c] = "completed"                      -> "delivered"
              [] job[c] \in {"exhausted", "lost"}          -> "dropped"
              [] job[c] = "none" /\ sender[c] = "failed"   -> "dropped"
              [] OTHER                                     -> "owed"]

Delivery == INSTANCE AtLeastOnce WITH
  Items <- Commands, stage <- Stage, effect <- ToSet(applied)

\* A recorded command is delivered, after it took effect at least once, or
\* is dropped, and is not touched afterwards; whatever fails or dies.
ImplementsDelivery == Delivery!Spec
=============================================================================
