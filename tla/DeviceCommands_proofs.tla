------------------------ MODULE DeviceCommands_proofs ------------------------
(***************************************************************************)
(* Proofs about DeviceCommands: the inductive invariant IndInv, from it    *)
(* the invariants, and that the specification implements AtLeastOnce, for  *)
(* every set of commands, of acknowledgements and every setting of the     *)
(* queue.                                                                  *)
(***************************************************************************)
EXTENDS DeviceCommands, Integers, SequenceTheorems, FiniteSetTheorems, TLAPS

Laws == INSTANCE JobQueue_proofs WITH Jobs <- Commands

-----------------------------------------------------------------------------
(* The inductive invariant.                                                *)

\* The worker has a job if and only if one job is active, and it is that one.
WorkerInv ==
  /\ worker = "idle" <=> active = None
  /\ \A c \in Commands : job[c] = "active" <=> c = active

\* A command has a row once its handler began, and a job once it ended well.
RecordInv ==
  /\ \A c \in Commands : status[c] = None <=> sender[c] = "idle"
  /\ \A c \in Commands : job[c] # "none" <=> sender[c] = "sent"

\* The histories: a command has a job when it is in enqueued, once, and only
\* such a command is applied.
HistoryInv ==
  /\ IsInjective(enqueued)
  /\ \A c \in Commands : job[c] # "none" <=> c \in ToSet(enqueued)
  /\ ToSet(applied) \subseteq ToSet(enqueued)

Settled(c) == status[c] = "ACKED" \/ writer[c] = "device"
Past == {"selectAcked", "updateAcked", "return"}

\* What the worker has achieved for its command when it is past the device
\* row, whatever acknowledgements were stored meanwhile.
DoneInv ==
  /\ worker \in Past => active \in ToSet(applied)
  /\ worker = "updateAcked" /\ ~ differs => Settled(active)
  /\ worker = "return" => Settled(active)
  /\ CompletedIsSettled

AckerInv ==
  \A a \in Ackers : acker[a].at # "idle" =>
    /\ acker[a].cmd \in Commands
    /\ acker[a].verdict \in Verdicts
    /\ status[acker[a].cmd] # None

\* Whether the command took effect since its last retry.
Open(c) ==
  \/ c = active /\ worker \in Past
  \/ job[c] \in {"orphan", "completed", "lost"}

\* A command took effect at most once per retry, and once more since.
CountInv ==
  \A c \in Commands :
    Laws!Times(applied, c) <= Laws!Spent(c) + (IF Open(c) THEN 1 ELSE 0)

\* While a command waits or runs for the first time, all commands queued
\* after it wait behind it and have had no effect.
BehindInv ==
  \A i, j \in DOMAIN enqueued :
    i < j /\ Laws!Spent(enqueued[i]) = 0 /\ job[enqueued[i]] \in {"wait", "active"} =>
      /\ job[enqueued[j]] = "wait"
      /\ enqueued[j] \notin ToSet(applied)
      /\ job[enqueued[i]] = "wait" => Laws!Before(wait, enqueued[i], enqueued[j])

QueueInv == Laws!QueueInv

IndInv ==
  /\ TypeOK /\ QueueInv /\ WorkerInv /\ RecordInv /\ HistoryInv
  /\ DoneInv /\ AckerInv /\ AckedMeansDone
  /\ CountInv /\ BehindInv /\ OrderKept

-----------------------------------------------------------------------------
(* The queue, under the names of its proofs.                               *)

\* The options of the queue are what its laws ask of them.
LEMMA BoundsHold == Laws!Bounds
BY AttemptsAssumption, StallsAssumption DEF Laws!Bounds

\* The operations of the queue are those that its laws are about.
LEMMA SameQueue ==
  /\ Queue!Init <=> Laws!Init
  /\ Queue!TypeOK <=> Laws!TypeOK
  /\ Queue!Restart <=> Laws!Restart
  /\ \A c \in Commands :
       /\ Queue!Add(c) <=> Laws!Add(c)
       /\ Queue!Take(c) <=> Laws!Take(c)
       /\ Queue!Complete(c) <=> Laws!Complete(c)
       /\ Queue!Throw(c) <=> Laws!Throw(c)
       /\ Queue!Promote(c) <=> Laws!Promote(c)
       /\ Queue!Recover(c) <=> Laws!Recover(c)
<1> USE DEF Queue!Over, Laws!Over, Queue!Move, Laws!Move
<1>1. Queue!Init <=> Laws!Init
  BY DEF Queue!Init, Laws!Init
<1>2. Queue!TypeOK <=> Laws!TypeOK
  BY DEF Queue!TypeOK, Laws!TypeOK
<1>3. Queue!Restart <=> Laws!Restart
  BY DEF Queue!Restart, Laws!Restart
<1>4. ASSUME NEW c \in Commands
      PROVE  /\ Queue!Add(c) <=> Laws!Add(c)
             /\ Queue!Take(c) <=> Laws!Take(c)
             /\ Queue!Complete(c) <=> Laws!Complete(c)
             /\ Queue!Throw(c) <=> Laws!Throw(c)
             /\ Queue!Promote(c) <=> Laws!Promote(c)
             /\ Queue!Recover(c) <=> Laws!Recover(c)
  BY DEF Queue!Add, Laws!Add, Queue!Take, Laws!Take, Queue!Complete, Laws!Complete,
     Queue!Throw, Laws!Throw, Queue!Promote, Laws!Promote, Queue!Recover, Laws!Recover
<1>5. QED
  BY <1>1, <1>2, <1>3, <1>4

\* A queue that keeps its invariant keeps its types.
LEMMA QueueTypes == QueueInv' => Queue!TypeOK'
BY DEF QueueInv, Laws!QueueInv, Laws!TypeOK, Queue!TypeOK, Laws!Over, Queue!Over

\* The laws use the same operators of the libraries.
LEMMA SameOperators ==
  /\ \A s : Laws!ToSet(s) = ToSet(s)
  /\ \A s : Laws!IsInjective(s) <=> IsInjective(s)
  /\ \A S : Laws!Cardinality(S) = Cardinality(S)
BY DEF Laws!ToSet, ToSet, Laws!IsInjective, IsInjective, Laws!Cardinality, Cardinality

\* The worker's job, when it has one.
LEMMA ActiveJob ==
  ASSUME IndInv, worker # "idle"
  PROVE  active \in Commands /\ job[active] = "active" /\ status[active] # None
BY DEF IndInv, TypeOK, WorkerInv, RecordInv

-----------------------------------------------------------------------------
(* What a step leaves alone.                                               *)

\* A step that leaves alone what a part of the invariant is about keeps that part.
LEMMA Frames ==
  ASSUME IndInv
  PROVE  /\ UNCHANGED queue => QueueInv'
         /\ UNCHANGED <<worker, active, job>> => WorkerInv'
         /\ UNCHANGED <<status, sender, job>> => RecordInv'
         /\ UNCHANGED <<job, enqueued, applied>> => HistoryInv'
         /\ UNCHANGED <<status, writer, job, worker, active, differs, applied>> => DoneInv'
         /\ UNCHANGED <<status, acker>> => AckerInv'
         /\ UNCHANGED <<status, writer, applied>> => AckedMeansDone'
         /\ UNCHANGED <<queue, worker, active, applied>> => CountInv'
         /\ UNCHANGED <<queue, enqueued, applied>> => BehindInv'
         /\ UNCHANGED <<attempts, stalls, enqueued, applied>> => OrderKept'
<1> USE DEF IndInv, queue
<1>1. UNCHANGED queue => QueueInv'
  BY DEF QueueInv, Laws!QueueInv, Laws!TypeOK, Laws!WithinBounds, Laws!Spent,
     Laws!ListOfWaiting, Laws!Over
<1>2. UNCHANGED <<worker, active, job>> => WorkerInv'
  BY DEF WorkerInv
<1>3. UNCHANGED <<status, sender, job>> => RecordInv'
  BY DEF RecordInv
<1>4. UNCHANGED <<job, enqueued, applied>> => HistoryInv'
  BY DEF HistoryInv
<1>5. UNCHANGED <<status, writer, job, worker, active, differs, applied>> => DoneInv'
  BY DEF DoneInv, Settled, CompletedIsSettled
<1>6. UNCHANGED <<status, acker>> => AckerInv'
  BY DEF AckerInv
<1>7. UNCHANGED <<status, writer, applied>> => AckedMeansDone'
  BY DEF AckedMeansDone
<1>8. UNCHANGED <<queue, worker, active, applied>> => CountInv'
  BY DEF CountInv, Laws!Spent, Open
<1>9. UNCHANGED <<queue, enqueued, applied>> => BehindInv'
  BY DEF BehindInv, Laws!Spent
<1>10. UNCHANGED <<attempts, stalls, enqueued, applied>> => OrderKept'
  BY DEF OrderKept
<1>11. QED
  BY <1>1, <1>2, <1>3, <1>4, <1>5, <1>6, <1>7, <1>8, <1>9, <1>10

-----------------------------------------------------------------------------
(* The initial states.                                                     *)

\* Nothing is recorded, queued or done.
LEMMA InitInv == Init => IndInv
<1> SUFFICES ASSUME Init PROVE IndInv
  OBVIOUS
<1> USE DEF Init
<1>1. QueueInv
  BY BoundsHold, SameQueue, Laws!InitQueue DEF QueueInv
<1>2. /\ job = [c \in Commands |-> "none"] /\ attempts = [c \in Commands |-> 0]
      /\ stalls = [c \in Commands |-> 0]
  BY DEF Queue!Init
<1>3. TypeOK
  <2>1. Queue!TypeOK
    BY <1>1, SameQueue DEF QueueInv, Laws!QueueInv
  <2>2. IdleAck \in [at: {"idle", "select", "update"}, cmd: Commands \cup {None},
                     verdict: Verdicts \cup {None}, differs: BOOLEAN]
    BY DEF IdleAck
  <2>3. crashes \in 0..MaxCrashes
    BY CrashesAssumption
  <2>4. enqueued \in Seq(Commands) /\ applied \in Seq(Commands)
    BY EmptySeq
  <2>5. QED
    BY <2>1, <2>2, <2>3, <2>4 DEF TypeOK
<1>4. WorkerInv
  BY <1>2, NoneAssumption DEF WorkerInv
<1>5. RecordInv
  BY <1>2 DEF RecordInv
<1>6. HistoryInv
  BY <1>2, Laws!EmptyFacts, SameOperators DEF HistoryInv
<1>7. DoneInv /\ AckedMeansDone
  BY <1>2, NoneAssumption DEF DoneInv, Past, CompletedIsSettled, AckedMeansDone
<1>8. AckerInv
  BY DEF AckerInv, IdleAck
<1>9. CountInv
  BY <1>2, Laws!EmptyFacts DEF CountInv, Laws!Spent, Open
<1>10. BehindInv /\ OrderKept
  <2>1. DOMAIN enqueued = {}
    OBVIOUS
  <2>2. QED
    BY <2>1 DEF BehindInv, OrderKept
<1>11. QED
  BY <1>1, <1>3, <1>4, <1>5, <1>6, <1>7, <1>8, <1>9, <1>10 DEF IndInv

-----------------------------------------------------------------------------
(* Each step.                                                              *)

\* Steps of the handler that records a command.
LEMMA SenderSteps ==
  ASSUME IndInv, NEW c \in Commands,
         RecordCommand(c) \/ EnqueueCommand(c) \/ EnqueueFails(c)
  PROVE  IndInv'
<1> USE DEF IndInv
<1>1. CASE RecordCommand(c)
  <2> USE <1>1, NoneAssumption DEF RecordCommand, Store, queue, work
  <2>1. TypeOK'
    BY DEF TypeOK, Queue!TypeOK
  <2>2. RecordInv'
    BY DEF RecordInv, TypeOK
  <2>3. job[c] = "none" /\ status[c] = None
    BY DEF RecordInv
  <2>4. DoneInv'
    BY <2>3 DEF DoneInv, Settled, CompletedIsSettled, TypeOK, WorkerInv, Past
  <2>5. AckerInv'
    BY DEF AckerInv, TypeOK
  <2>6. AckedMeansDone'
    BY DEF AckedMeansDone, TypeOK
  <2>7. QED
    BY <2>1, <2>2, <2>4, <2>5, <2>6, Frames
<1>2. CASE EnqueueCommand(c)
  <2> USE <1>2 DEF EnqueueCommand, work
  <2>1. job[c] = "none" /\ c \notin ToSet(enqueued) /\ c \notin ToSet(applied)
    BY DEF RecordInv, HistoryInv
  <2>2. job' = [job EXCEPT ![c] = "wait"] /\ UNCHANGED <<attempts, stalls>>
    BY DEF Queue!Add, Queue!Move
  <2>3. /\ QueueInv'
        /\ \A a, b : Laws!Before(wait', a, b) <=>
                       Laws!Before(wait, a, b) \/ (a \in ToSet(wait) /\ b = c)
    BY <2>1, SameQueue, SameOperators, BoundsHold, Laws!AddQueue DEF QueueInv
  <2>4. TypeOK'
    <3>1. Queue!TypeOK'
      BY <2>3, QueueTypes
    <3>2. QED
      BY <3>1, Laws!AppendFacts DEF TypeOK
  <2>5. WorkerInv'
    BY <2>1, <2>2 DEF WorkerInv, TypeOK, Queue!TypeOK
  <2>6. RecordInv'
    BY <2>1, <2>2 DEF RecordInv, TypeOK, Queue!TypeOK
  <2>7. HistoryInv'
    BY <2>1, <2>2, Laws!AppendFacts, SameOperators DEF HistoryInv, TypeOK, Queue!TypeOK
  <2>8. DoneInv'
    BY <2>1, <2>2 DEF DoneInv, Settled, CompletedIsSettled, TypeOK, Queue!TypeOK
  <2>9. CountInv'
    BY <2>1, <2>2 DEF CountInv, Laws!Spent, Open, TypeOK, Queue!TypeOK
  <2>10. PICK n \in Nat :
           /\ DOMAIN enqueued = 1..n /\ DOMAIN enqueued' = 1..(n + 1)
           /\ \A i \in 1..n : /\ enqueued'[i] = enqueued[i]
                              /\ enqueued[i] \in Commands /\ enqueued[i] # c
           /\ enqueued'[n + 1] = c
    BY <2>1, AppendProperties, LenProperties DEF TypeOK, ToSet
  <2>11. BehindInv'
    <3> SUFFICES ASSUME NEW i \in 1..(n + 1), NEW j \in 1..(n + 1), i < j,
                        Laws!Spent(enqueued[i])' = 0,
                        job'[enqueued'[i]] \in {"wait", "active"}
                 PROVE  /\ job'[enqueued'[j]] = "wait"
                        /\ enqueued'[j] \notin ToSet(applied')
                        /\ job'[enqueued'[i]] = "wait" =>
                             Laws!Before(wait', enqueued'[i], enqueued'[j])
      BY <2>10 DEF BehindInv
    <3>1. i \in 1..n /\ job'[enqueued'[i]] = job[enqueued[i]]
      BY <2>2, <2>10 DEF TypeOK, Queue!TypeOK
    <3>2. CASE j \in 1..n
      <4>1. job'[enqueued'[j]] = job[enqueued[j]]
        BY <2>2, <2>10, <3>2 DEF TypeOK, Queue!TypeOK
      <4>2. QED
        BY SMTT(30), <2>2, <2>3, <2>10, <3>1, <3>2, <4>1 DEF BehindInv, Laws!Spent
    <3>3. CASE j = n + 1
      <4>1. job'[c] = "wait"
        BY <2>2 DEF TypeOK, Queue!TypeOK
      <4>2. job[enqueued[i]] = "wait" => enqueued[i] \in ToSet(wait)
        BY <2>10, <3>1, SameOperators DEF QueueInv, Laws!QueueInv, Laws!ListOfWaiting
      <4>3. QED
        BY <2>1, <2>3, <2>10, <3>1, <3>3, <4>1, <4>2
    <3>4. j \in 1..n \/ j = n + 1
      OBVIOUS
    <3>5. QED
      BY <3>2, <3>3, <3>4
  <2>12. OrderKept'
    <3>1. \A k \in DOMAIN applied : applied[k] # c
      BY <2>1 DEF ToSet
    <3>2. QED
      BY <2>2, <2>10, <3>1 DEF OrderKept
  <2>13. QED
    BY <2>3, <2>4, <2>5, <2>6, <2>7, <2>8, <2>9, <2>11, <2>12, Frames
<1>3. CASE EnqueueFails(c)
  <2> USE <1>3 DEF EnqueueFails, queue, work
  <2>1. TypeOK'
    BY DEF TypeOK, Queue!TypeOK
  <2>2. RecordInv'
    BY DEF RecordInv, TypeOK
  <2>3. QED
    BY <2>1, <2>2, Frames
<1>4. QED
  BY <1>1, <1>2, <1>3

\* The worker takes the oldest job.
LEMMA TakeStep ==
  ASSUME IndInv, TakeJob
  PROVE  IndInv'
<1> USE DEF IndInv, TakeJob
<1>1. PICK c \in Commands : Queue!Take(c) /\ active' = c
  OBVIOUS
<1>2. job' = [job EXCEPT ![c] = "active"] /\ UNCHANGED <<attempts, stalls>>
  BY <1>1 DEF Queue!Take, Queue!Move
<1>3. /\ QueueInv' /\ job[c] = "wait"
      /\ \A a : ~ Laws!Before(wait, a, c)
      /\ \A a, b : Laws!Before(wait', a, b) <=> Laws!Before(wait, a, b) /\ a # c
  BY <1>1, SameQueue, SameOperators, BoundsHold, Laws!TakeQueue DEF QueueInv
<1>4. TypeOK'
  BY <1>1, <1>3, QueueTypes DEF TypeOK
<1>5. WorkerInv'
  BY <1>1, <1>2, NoneAssumption DEF WorkerInv, TypeOK, Queue!TypeOK
<1>6. RecordInv'
  BY <1>2, <1>3 DEF RecordInv, TypeOK, Queue!TypeOK
<1>7. HistoryInv'
  BY <1>2, <1>3 DEF HistoryInv, TypeOK, Queue!TypeOK
<1>8. DoneInv'
  BY <1>2 DEF DoneInv, Past, CompletedIsSettled, TypeOK, Queue!TypeOK
<1>9. CountInv'
  BY <1>2, <1>3 DEF CountInv, Laws!Spent, Open, WorkerInv, Past, TypeOK, Queue!TypeOK
<1>10. BehindInv'
  <2> SUFFICES ASSUME NEW i \in DOMAIN enqueued, NEW j \in DOMAIN enqueued, i < j,
                      Laws!Spent(enqueued[i]) = 0,
                      job'[enqueued[i]] \in {"wait", "active"}
               PROVE  /\ job'[enqueued[j]] = "wait"
                      /\ enqueued[j] \notin ToSet(applied)
                      /\ job'[enqueued[i]] = "wait" =>
                           Laws!Before(wait', enqueued[i], enqueued[j])
    BY <1>2 DEF BehindInv, Laws!Spent
  <2>1. /\ enqueued[i] \in Commands /\ enqueued[j] \in Commands
        /\ enqueued[i] # enqueued[j]
    BY LenProperties DEF HistoryInv, IsInjective, TypeOK
  <2>2. job[enqueued[i]] \in {"wait", "active"}
    BY <1>2, <1>3, <2>1 DEF TypeOK, Queue!TypeOK
  <2>3. /\ job[enqueued[j]] = "wait" /\ enqueued[j] \notin ToSet(applied)
        /\ job[enqueued[i]] = "wait" => Laws!Before(wait, enqueued[i], enqueued[j])
    BY <2>2 DEF BehindInv
  <2>4. job[enqueued[i]] = "wait"
    BY <2>1, <2>2, NoneAssumption DEF WorkerInv
  <2>5. enqueued[j] # c
    BY <1>3, <2>3, <2>4
  <2>6. QED
    BY <1>2, <1>3, <2>1, <2>3, <2>4, <2>5 DEF TypeOK, Queue!TypeOK
<1>11. QED
  BY <1>2, <1>3, <1>4, <1>5, <1>6, <1>7, <1>8, <1>9, <1>10, Frames

\* The worker saves that the command was sent.
LEMMA SentSteps ==
  ASSUME IndInv, SelectSent \/ UpdateSent
  PROVE  IndInv'
<1> USE DEF IndInv, WorkerGoes, queue
<1>1. CASE SelectSent
  <2> USE <1>1 DEF SelectSent
  <2>1. TypeOK'
    BY DEF TypeOK, Queue!TypeOK
  <2>2. WorkerInv'
    BY DEF WorkerInv
  <2>3. DoneInv'
    BY DEF DoneInv, Past, CompletedIsSettled
  <2>4. CountInv'
    BY DEF CountInv, Laws!Spent, Open, Past
  <2>5. QED
    BY <2>1, <2>2, <2>3, <2>4, Frames
<1>2. CASE UpdateSent
  <2> USE <1>2, NoneAssumption DEF UpdateSent
  <2>1. active \in Commands /\ job[active] = "active" /\ status[active] # None
    BY ActiveJob
  <2>2. \/ /\ status' = [status EXCEPT ![active] = "SENT"]
           /\ writer' = [writer EXCEPT ![active] = "worker"]
        \/ UNCHANGED <<status, writer>>
    BY DEF TypeOK, Store
  <2>3. TypeOK'
    BY <2>1, <2>2 DEF TypeOK, Queue!TypeOK
  <2>4. WorkerInv'
    BY DEF WorkerInv
  <2>5. RecordInv'
    BY <2>1, <2>2 DEF RecordInv, TypeOK
  <2>6. DoneInv'
    BY <2>1, <2>2 DEF DoneInv, Past, CompletedIsSettled, TypeOK
  <2>7. AckerInv'
    BY <2>1, <2>2 DEF AckerInv, TypeOK
  <2>8. AckedMeansDone'
    BY <2>1, <2>2 DEF AckedMeansDone, TypeOK
  <2>9. CountInv'
    BY DEF CountInv, Laws!Spent, Open, Past
  <2>10. QED
    BY <2>3, <2>4, <2>5, <2>6, <2>7, <2>8, <2>9, Frames
<1>3. QED
  BY <1>1, <1>2

\* The command takes effect.
LEMMA ApplyStep ==
  ASSUME IndInv, ApplyCommand
  PROVE  IndInv'
<1> USE DEF IndInv, ApplyCommand, WorkerGoes, queue
<1>1. active \in Commands /\ job[active] = "active"
  BY ActiveJob
<1>2. ToSet(applied') = ToSet(applied) \cup {active}
  BY <1>1, Laws!AppendFacts, SameOperators DEF TypeOK
<1>3. TypeOK'
  BY <1>1, AppendProperties DEF TypeOK, Queue!TypeOK
<1>4. WorkerInv'
  BY DEF WorkerInv
<1>5. HistoryInv'
  BY <1>1, <1>2 DEF HistoryInv
<1>6. DoneInv'
  BY <1>2 DEF DoneInv, Past, CompletedIsSettled
<1>7. AckedMeansDone'
  BY <1>2 DEF AckedMeansDone
<1>8. CountInv'
  <2> SUFFICES ASSUME NEW c \in Commands
               PROVE  Laws!Times(applied', c) <= Laws!Spent(c) + (IF Open(c)' THEN 1 ELSE 0)
    BY DEF CountInv, Laws!Spent
  <2>1. /\ Laws!Times(applied, c) \in Nat
        /\ Laws!Times(applied', c) = Laws!Times(applied, c) + (IF active = c THEN 1 ELSE 0)
    BY <1>1, Laws!TimesFacts DEF TypeOK
  <2>2. Laws!Times(applied, c) <= Laws!Spent(c) + (IF Open(c) THEN 1 ELSE 0)
    BY DEF CountInv
  <2>3. Laws!Spent(c) \in Nat
    BY DEF Laws!Spent, TypeOK, Queue!TypeOK
  <2>4. /\ Open(c)' <=> c = active \/ Open(c)
        /\ c = active => ~ Open(c)
    BY <1>1 DEF Open, Past
  <2>5. QED
    BY <2>1, <2>2, <2>3, <2>4
<1>9. BehindInv'
  <2> SUFFICES ASSUME NEW i \in DOMAIN enqueued, NEW j \in DOMAIN enqueued, i < j,
                      Laws!Spent(enqueued[i]) = 0,
                      job[enqueued[i]] \in {"wait", "active"}
               PROVE  /\ job[enqueued[j]] = "wait"
                      /\ enqueued[j] \notin ToSet(applied')
                      /\ job[enqueued[i]] = "wait" =>
                           Laws!Before(wait, enqueued[i], enqueued[j])
    BY DEF BehindInv, Laws!Spent
  <2>1. /\ job[enqueued[j]] = "wait" /\ enqueued[j] \notin ToSet(applied)
        /\ job[enqueued[i]] = "wait" => Laws!Before(wait, enqueued[i], enqueued[j])
    BY DEF BehindInv
  <2>2. QED
    BY <1>1, <1>2, <2>1
<1>10. OrderKept'
  <2> SUFFICES ASSUME NEW i \in DOMAIN enqueued, NEW j \in DOMAIN enqueued, i < j,
                      Laws!Spent(enqueued[i]) = 0,
                      NEW k \in DOMAIN applied', NEW l \in DOMAIN applied',
                      applied'[k] = enqueued[j], applied'[l] = enqueued[i]
               PROVE  l < k
    BY DEF OrderKept, Laws!Spent
  <2>1. PICK n \in Nat :
          /\ DOMAIN applied = 1..n /\ DOMAIN applied' = 1..(n + 1)
          /\ \A m \in 1..n : applied'[m] = applied[m]
          /\ applied'[n + 1] = active
    BY <1>1, AppendProperties, LenProperties DEF TypeOK
  <2>2. /\ enqueued[i] \in Commands /\ enqueued[j] \in Commands
        /\ enqueued[i] # enqueued[j]
    BY LenProperties DEF HistoryInv, IsInjective, TypeOK
  <2>3. CASE k \in 1..n /\ l \in 1..n
    <3>1. attempts[enqueued[i]] = 0 /\ stalls[enqueued[i]] = 0
      BY <2>2 DEF Laws!Spent, TypeOK, Queue!TypeOK
    <3>2. applied[k] = enqueued[j] /\ applied[l] = enqueued[i]
      BY <2>1, <2>3
    <3>3. QED
      BY <2>1, <2>3, <3>1, <3>2 DEF OrderKept
  <2>4. CASE k = n + 1 /\ l \in 1..n
    BY <2>4
  <2>5. CASE l = n + 1
    <3>1. enqueued[i] = active /\ k \in 1..n
      BY <2>1, <2>2, <2>5
    <3>2. enqueued[j] \notin ToSet(applied)
      BY <1>1, <3>1 DEF BehindInv
    <3>3. applied[k] = enqueued[j]
      BY <2>1, <3>1
    <3>4. QED
      BY <2>1, <3>1, <3>2, <3>3 DEF ToSet
  <2>6. QED
    BY <2>1, <2>3, <2>4, <2>5
<1>11. QED
  BY <1>3, <1>4, <1>5, <1>6, <1>7, <1>8, <1>9, <1>10, Frames

\* The worker saves that the command was carried out.
LEMMA AckedSteps ==
  ASSUME IndInv, SelectAcked \/ UpdateAcked
  PROVE  IndInv'
<1> USE DEF IndInv, WorkerGoes, queue
<1>1. active \in Commands /\ job[active] = "active" /\ status[active] # None
  BY ActiveJob DEF SelectAcked, UpdateAcked
<1>2. CASE SelectAcked
  <2> USE <1>2 DEF SelectAcked
  <2>1. TypeOK'
    BY DEF TypeOK, Queue!TypeOK
  <2>2. WorkerInv'
    BY DEF WorkerInv
  <2>3. DoneInv'
    BY DEF DoneInv, Settled, Past, CompletedIsSettled
  <2>4. CountInv'
    BY DEF CountInv, Laws!Spent, Open, Past
  <2>5. QED
    BY <2>1, <2>2, <2>3, <2>4, Frames
<1>3. CASE UpdateAcked
  <2> USE <1>3, NoneAssumption DEF UpdateAcked
  <2>1. \/ /\ differs
           /\ status' = [status EXCEPT ![active] = "ACKED"]
           /\ writer' = [writer EXCEPT ![active] = "worker"]
        \/ ~ differs /\ UNCHANGED <<status, writer>>
    BY DEF TypeOK, Store
  <2>2. TypeOK'
    BY <1>1, <2>1 DEF TypeOK, Queue!TypeOK
  <2>3. WorkerInv'
    BY DEF WorkerInv
  <2>4. RecordInv'
    BY <1>1, <2>1 DEF RecordInv, TypeOK
  <2>5. DoneInv'
    BY <1>1, <2>1 DEF DoneInv, Settled, Past, CompletedIsSettled, TypeOK
  <2>6. AckerInv'
    BY <1>1, <2>1 DEF AckerInv, TypeOK
  <2>7. AckedMeansDone'
    BY <1>1, <2>1 DEF AckedMeansDone, DoneInv, Past, TypeOK
  <2>8. CountInv'
    BY DEF CountInv, Laws!Spent, Open, Past
  <2>9. QED
    BY <2>2, <2>3, <2>4, <2>5, <2>6, <2>7, <2>8, Frames
<1>4. QED
  BY <1>2, <1>3

\* The worker leaves its job, done or failed.
LEMMA LeaveSteps ==
  ASSUME IndInv, CompleteJob \/ FailJob
  PROVE  IndInv'
<1> USE DEF IndInv, WorkerLeaves
<1>1. active \in Commands /\ job[active] = "active"
  BY ActiveJob DEF CompleteJob, FailJob
<1>2. /\ QueueInv'
      /\ UNCHANGED <<wait, stalls>>
      /\ \A c \in Commands \ {active} : job'[c] = job[c] /\ attempts'[c] = attempts[c]
      /\ \/ attempts' = attempts /\ worker = "return" /\ job'[active] = "completed"
         \/ attempts'[active] = attempts[active] + 1
            /\ job'[active] \in {"delayed", "exhausted"}
  <2> USE DEF TypeOK, Queue!TypeOK, Queue!Move
  <2>1. CASE CompleteJob
    <3>1. QueueInv'
      BY <1>1, <2>1, SameQueue, BoundsHold, Laws!CompleteQueue DEF CompleteJob, QueueInv
    <3>2. QED
      BY <1>1, <2>1, <3>1 DEF CompleteJob, Queue!Complete
  <2>2. CASE FailJob
    <3>1. QueueInv'
      BY <1>1, <2>2, SameQueue, BoundsHold, Laws!ThrowQueue DEF FailJob, QueueInv
    <3>2. QED
      BY <1>1, <2>2, <3>1 DEF FailJob, Queue!Throw
  <2>3. QED
    BY <2>1, <2>2
<1>3. UNCHANGED <<status, sender, differs, acker, crashes, enqueued, applied, writer>>
      /\ worker' = "idle" /\ active' = None
  BY DEF CompleteJob, FailJob
<1> USE <1>3
<1>4. TypeOK'
  BY <1>2, QueueTypes DEF TypeOK
<1>5. WorkerInv'
  BY <1>2, NoneAssumption DEF WorkerInv
<1>6. RecordInv'
  BY <1>1, <1>2 DEF RecordInv
<1>7. HistoryInv'
  BY <1>1, <1>2 DEF HistoryInv
<1>8. DoneInv'
  BY <1>2 DEF DoneInv, Settled, Past, CompletedIsSettled
<1>9. CountInv'
  <2> SUFFICES ASSUME NEW c \in Commands
               PROVE  Laws!Times(applied, c) <= Laws!Spent(c)' + (IF Open(c)' THEN 1 ELSE 0)
    BY DEF CountInv
  <2>1. Laws!Times(applied, c) <= Laws!Spent(c) + (IF Open(c) THEN 1 ELSE 0)
    BY DEF CountInv
  <2>2. /\ Laws!Times(applied, c) \in Nat
        /\ attempts[c] \in Nat /\ stalls[c] \in Nat
    BY <1>1, Laws!TimesFacts DEF TypeOK, Queue!TypeOK
  <2>3. CASE c # active
    BY <1>2, <2>1, <2>3, NoneAssumption DEF Laws!Spent, Open
  <2>4. CASE c = active /\ job'[active] = "completed" /\ attempts' = attempts
    <3>1. Open(c)'
      BY <2>4 DEF Open
    <3>2. QED
      BY <1>2, <2>1, <2>2, <2>4, <3>1 DEF Laws!Spent
  <2>5. CASE c = active /\ attempts'[active] = attempts[active] + 1
    BY <1>2, <2>1, <2>2, <2>5 DEF Laws!Spent
  <2>6. QED
    BY <1>2, <2>3, <2>4, <2>5
<1>10. \A c \in Commands : Laws!Spent(c)' = 0 => Laws!Spent(c) = 0
  BY <1>1, <1>2 DEF Laws!Spent, TypeOK, Queue!TypeOK
<1>11. \A i \in DOMAIN enqueued : enqueued[i] \in Commands
  BY LenProperties DEF TypeOK
<1>12. BehindInv'
  <2> SUFFICES ASSUME NEW i \in DOMAIN enqueued, NEW j \in DOMAIN enqueued, i < j,
                      Laws!Spent(enqueued[i])' = 0,
                      job'[enqueued[i]] \in {"wait", "active"}
               PROVE  /\ job'[enqueued[j]] = "wait"
                      /\ enqueued[j] \notin ToSet(applied)
                      /\ job'[enqueued[i]] = "wait" =>
                           Laws!Before(wait, enqueued[i], enqueued[j])
    BY <1>2 DEF BehindInv
  <2>1. enqueued[i] # active /\ Laws!Spent(enqueued[i]) = 0
    BY <1>2, <1>10, <1>11
  <2>2. /\ job[enqueued[j]] = "wait" /\ enqueued[j] \notin ToSet(applied)
        /\ job[enqueued[i]] = "wait" => Laws!Before(wait, enqueued[i], enqueued[j])
    BY <1>2, <1>11, <2>1 DEF BehindInv
  <2>3. QED
    BY <1>1, <1>2, <1>11, <2>1, <2>2
<1>13. OrderKept'
  <2> SUFFICES ASSUME NEW i \in DOMAIN enqueued, NEW j \in DOMAIN enqueued, i < j,
                      attempts'[enqueued[i]] = 0, stalls'[enqueued[i]] = 0
               PROVE  attempts[enqueued[i]] = 0 /\ stalls[enqueued[i]] = 0
    BY DEF OrderKept
  <2>1. enqueued[i] \in Commands
    BY <1>11
  <2>2. QED
    BY SMTT(30), <1>1, <1>2, <2>1 DEF TypeOK, Queue!TypeOK
<1>14. QED
  BY <1>2, <1>4, <1>5, <1>6, <1>7, <1>8, <1>9, <1>12, <1>13, Frames

\* A backoff or the lock of a dead worker runs out.
LEMMA TimerSteps ==
  ASSUME IndInv, NEW c \in Commands, QueueTimer(c)
  PROVE  IndInv'
<1> USE DEF IndInv
<1>1. /\ QueueInv'
      /\ job[c] \in {"delayed", "orphan"} /\ job'[c] \in {"wait", "exhausted"}
      /\ \A d \in Commands \ {c} :
           job'[d] = job[d] /\ attempts'[d] = attempts[d] /\ stalls'[d] = stalls[d]
      /\ \A a, b : Laws!Before(wait, a, b) => Laws!Before(wait', a, b)
      /\ attempts'[c] > 0 \/ stalls'[c] > 0
      /\ \/ Laws!Spent(c)' = Laws!Spent(c)     /\ job[c] = "delayed"
         \/ Laws!Spent(c)' = Laws!Spent(c) + 1 /\ job[c] = "orphan"
  <2>1. /\ attempts[c] \in Nat /\ stalls[c] \in Nat /\ DOMAIN job = Commands
        /\ attempts \in [Commands -> Nat] /\ stalls \in [Commands -> Nat]
    BY DEF TypeOK, Queue!TypeOK
  <2>2. CASE Queue!Promote(c)
    <3>1. /\ QueueInv' /\ attempts[c] > 0
          /\ \A a, b : Laws!Before(wait, a, b) => Laws!Before(wait', a, b)
      BY <2>2, SameQueue, SameOperators, BoundsHold, Laws!PromoteQueue DEF QueueInv
    <3> HIDE DEF IndInv
    <3>2. /\ job[c] = "delayed" /\ job' = [job EXCEPT ![c] = "wait"]
          /\ UNCHANGED <<attempts, stalls>>
      BY <2>2 DEF Queue!Promote, Queue!Move
    <3>3. QED
      BY <2>1, <3>1, <3>2 DEF Laws!Spent
  <2>3. CASE Queue!Recover(c)
    <3>1. /\ QueueInv'
          /\ \A a, b : Laws!Before(wait, a, b) => Laws!Before(wait', a, b)
      BY <2>3, SameQueue, SameOperators, BoundsHold, Laws!RecoverQueue DEF QueueInv
    <3> HIDE DEF IndInv
    <3>2. /\ job[c] = "orphan"
          /\ job' = [job EXCEPT ![c] = "wait"] \/ job' = [job EXCEPT ![c] = "exhausted"]
          /\ stalls' = [stalls EXCEPT ![c] = @ + 1] /\ UNCHANGED attempts
      BY <2>3 DEF Queue!Recover, Queue!Move
    <3>3. stalls'[c] = stalls[c] + 1 /\ attempts'[c] = attempts[c]
      BY <2>1, <3>2
    <3>4. QED
      BY <2>1, <3>1, <3>2, <3>3 DEF Laws!Spent
  <2>4. QED
    BY <2>2, <2>3 DEF QueueTimer
<1>2. UNCHANGED <<status, sender, worker, active, differs, acker, crashes, enqueued,
                  applied, writer>>
  BY DEF QueueTimer, work
<1> USE <1>2
<1>3. TypeOK'
  BY <1>1, QueueTypes DEF TypeOK
<1>4. WorkerInv'
  BY <1>1 DEF WorkerInv
<1>5. RecordInv'
  BY <1>1 DEF RecordInv
<1>6. HistoryInv'
  BY <1>1 DEF HistoryInv
<1>7. DoneInv'
  BY <1>1 DEF DoneInv, Settled, CompletedIsSettled
<1>8. CountInv'
  <2> SUFFICES ASSUME NEW d \in Commands
               PROVE  Laws!Times(applied, d) <= Laws!Spent(d)' + (IF Open(d)' THEN 1 ELSE 0)
    BY DEF CountInv
  <2>1. Laws!Times(applied, d) <= Laws!Spent(d) + (IF Open(d) THEN 1 ELSE 0)
    BY DEF CountInv
  <2>2. Laws!Times(applied, d) \in Nat /\ Laws!Spent(d) \in Nat
    BY Laws!TimesFacts DEF TypeOK, Queue!TypeOK, Laws!Spent
  <2>3. CASE d # c
    BY <1>1, <2>1, <2>3 DEF Laws!Spent, Open
  <2>4. CASE d = c
    <3>1. job[c] = "delayed" => ~ Open(c)
      BY DEF Open, WorkerInv
    <3>2. QED
      BY <1>1, <2>1, <2>2, <2>4, <3>1
  <2>5. QED
    BY <2>3, <2>4
<1>9. \A i \in DOMAIN enqueued : enqueued[i] \in Commands
  BY LenProperties DEF TypeOK
<1>10. \A d \in Commands : Laws!Spent(d)' = 0 => d # c /\ Laws!Spent(d) = 0
  <2>1. attempts'[c] \in Nat /\ stalls'[c] \in Nat
    BY <1>3 DEF TypeOK, Queue!TypeOK
  <2> HIDE DEF IndInv
  <2>2. QED
    BY <1>1, <2>1 DEF Laws!Spent
<1>11. BehindInv'
  <2> SUFFICES ASSUME NEW i \in DOMAIN enqueued, NEW j \in DOMAIN enqueued, i < j,
                      Laws!Spent(enqueued[i])' = 0,
                      job'[enqueued[i]] \in {"wait", "active"}
               PROVE  /\ job'[enqueued[j]] = "wait"
                      /\ enqueued[j] \notin ToSet(applied)
                      /\ job'[enqueued[i]] = "wait" =>
                           Laws!Before(wait', enqueued[i], enqueued[j])
    BY DEF BehindInv
  <2>1. enqueued[i] # c /\ Laws!Spent(enqueued[i]) = 0
    BY <1>9, <1>10
  <2>2. /\ job[enqueued[j]] = "wait" /\ enqueued[j] \notin ToSet(applied)
        /\ job[enqueued[i]] = "wait" => Laws!Before(wait, enqueued[i], enqueued[j])
    BY <1>1, <1>9, <2>1 DEF BehindInv
  <2>3. QED
    BY <1>1, <1>9, <2>1, <2>2
<1>12. OrderKept'
  <2> SUFFICES ASSUME NEW i \in DOMAIN enqueued, NEW j \in DOMAIN enqueued, i < j,
                      attempts'[enqueued[i]] = 0, stalls'[enqueued[i]] = 0
               PROVE  attempts[enqueued[i]] = 0 /\ stalls[enqueued[i]] = 0
    BY DEF OrderKept
  <2>1. enqueued[i] # c
    BY <1>1
  <2>2. QED
    BY <1>1, <1>9, <2>1
<1>13. QED
  BY <1>1, <1>3, <1>4, <1>5, <1>6, <1>7, <1>8, <1>11, <1>12, Frames

\* The device reports a status.
LEMMA AckerSteps ==
  ASSUME IndInv, NEW a \in Ackers, AckFind(a) \/ AckSelect(a) \/ AckUpdate(a) \/ AckFails(a)
  PROVE  IndInv'
<1> USE DEF IndInv, queue, work
<1> DEFINE Request == [at: {"idle", "select", "update"}, cmd: Commands \cup {None},
                       verdict: Verdicts \cup {None}, differs: BOOLEAN]
<1>1. CASE AckFind(a)
  <2> USE <1>1 DEF AckFind
  <2>1. PICK c \in Commands, v \in Verdicts :
          /\ status[c] # None
          /\ acker' = [acker EXCEPT ![a] = [at |-> "select", cmd |-> c, verdict |-> v,
                                            differs |-> FALSE]]
    OBVIOUS
  <2>2. TypeOK'
    BY <2>1 DEF TypeOK, Queue!TypeOK
  <2>3. AckerInv'
    BY <2>1 DEF AckerInv, TypeOK
  <2>4. QED
    BY <2>2, <2>3, Frames
<1>2. CASE AckSelect(a)
  <2> USE <1>2 DEF AckSelect
  <2>1. acker[a] \in Request
    BY DEF TypeOK
  <2>2. /\ acker'[a] \in Request
        /\ acker'[a].cmd = acker[a].cmd /\ acker'[a].verdict = acker[a].verdict
        /\ \A b \in Ackers \ {a} : acker'[b] = acker[b]
        /\ acker' = [b \in Ackers |-> acker'[b]]
    BY <2>1 DEF TypeOK
  <2>3. TypeOK'
    BY <2>2 DEF TypeOK, Queue!TypeOK
  <2>4. AckerInv'
    <3>1. acker[a].at # "idle" /\ status' = status
      OBVIOUS
    <3> HIDE <1>2 DEF AckSelect
    <3>2. ASSUME NEW b \in Ackers, acker'[b].at # "idle"
          PROVE  /\ acker'[b].cmd \in Commands /\ acker'[b].verdict \in Verdicts
                 /\ status'[acker'[b].cmd] # None
      <4>1. acker[b].at # "idle" /\ acker'[b].cmd = acker[b].cmd
            /\ acker'[b].verdict = acker[b].verdict
        BY <2>2, <3>1, <3>2
      <4>2. QED
        BY <3>1, <4>1 DEF AckerInv
    <3>3. QED
      BY <3>2 DEF AckerInv
  <2>5. QED
    BY <2>3, <2>4, Frames
<1>3. CASE AckUpdate(a)
  <2> USE <1>3, NoneAssumption DEF AckUpdate
  <2> DEFINE c == acker[a].cmd
  <2>1. c \in Commands /\ acker[a].verdict \in Verdicts /\ status[c] # None
    BY DEF AckerInv
  <2>2. \/ /\ status' = [status EXCEPT ![c] = acker[a].verdict]
           /\ writer' = [writer EXCEPT ![c] = "device"]
        \/ UNCHANGED <<status, writer>>
    BY DEF TypeOK, Store
  <2>3. /\ \A b \in Ackers : b # a => acker'[b] = acker[b]
        /\ acker'[a].at = "idle"
    BY DEF IdleAck, TypeOK
  <2> HIDE DEF c
  <2>4. TypeOK'
    <3>1. IdleAck \in Request
      BY DEF IdleAck
    <3>2. acker' \in [Ackers -> Request]
      BY <3>1 DEF TypeOK
    <3>3. status' \in [Commands -> {None, "PENDING", "SENT", "ACKED"} \cup Verdicts]
      BY <2>1, <2>2 DEF TypeOK
    <3>4. writer' \in [Commands -> {"nobody", "handler", "worker", "device"}]
      BY <2>1, <2>2 DEF TypeOK
    <3>5. QED
      BY <3>2, <3>3, <3>4 DEF TypeOK, Queue!TypeOK
  <2>5. RecordInv'
    BY <2>1, <2>2 DEF RecordInv, TypeOK
  <2>6. DoneInv'
    <3>1. \A d \in Commands : Settled(d) => Settled(d)'
      BY <2>1, <2>2 DEF Settled, TypeOK
    <3>2. worker # "idle" => active \in Commands
      BY ActiveJob
    <3>3. UNCHANGED <<worker, active, differs, job, applied>>
      OBVIOUS
    <3> HIDE <1>3 DEF AckUpdate
    <3>4. QED
      BY <3>1, <3>2, <3>3 DEF DoneInv, Settled, CompletedIsSettled, Past
  <2>7. AckerInv'
    <3>1. \A d \in Commands : status[d] # None => status'[d] # None
      BY <2>1, <2>2 DEF TypeOK
    <3>2. QED
      BY <2>3, <3>1 DEF AckerInv
  <2>8. AckedMeansDone'
    BY <2>1, <2>2 DEF AckedMeansDone, TypeOK, c
  <2>9. QED
    BY <2>4, <2>5, <2>6, <2>7, <2>8, Frames
<1>4. CASE AckFails(a)
  <2> USE <1>4 DEF AckFails
  <2>1. IdleAck \in Request
    BY DEF IdleAck
  <2>2. TypeOK'
    BY <2>1 DEF TypeOK, Queue!TypeOK
  <2>3. AckerInv'
    BY DEF AckerInv, IdleAck, TypeOK
  <2>4. QED
    BY <2>2, <2>3, Frames
<1>5. QED
  BY <1>1, <1>2, <1>3, <1>4

\* The process dies and starts again.
LEMMA CrashStep ==
  ASSUME IndInv, Crash
  PROVE  IndInv'
<1> USE DEF IndInv, Crash
<1>1. QueueInv' /\ UNCHANGED <<attempts, stalls>>
  BY SameQueue, BoundsHold, Laws!RestartQueue DEF QueueInv
<1>2. \/ /\ UNCHANGED wait
         /\ job' = [c \in Commands |-> IF job[c] = "active" THEN "orphan" ELSE job[c]]
      \/ job' = [c \in Commands |->
                   IF job[c] \in {"none", "completed", "exhausted", "lost"}
                     THEN job[c] ELSE "lost"]
  BY DEF Queue!Restart, Queue!Over
<1>3. /\ \A c \in Commands : /\ job'[c] # "active"
                             /\ job[c] = "none" <=> job'[c] = "none"
                             /\ job[c] = "completed" <=> job'[c] = "completed"
                             /\ job'[c] \in {"wait", "delayed", "exhausted"} =>
                                  job[c] = job'[c]
                             /\ job[c] \in {"orphan", "lost"} =>
                                  job'[c] \in {"orphan", "lost"}
                             /\ job[c] = "active" => job'[c] \in {"orphan", "lost"}
      /\ \/ UNCHANGED wait /\ \A c \in Commands : job[c] = "wait" => job'[c] = "wait"
         \/ \A c \in Commands : job'[c] # "wait"
  BY <1>2
<1>4. TypeOK'
  <2>1. IdleAck \in [at: {"idle", "select", "update"}, cmd: Commands \cup {None},
                     verdict: Verdicts \cup {None}, differs: BOOLEAN]
    BY DEF IdleAck
  <2>2. crashes' \in 0..MaxCrashes
    BY CrashesAssumption DEF TypeOK
  <2>3. QED
    BY <1>1, <2>1, <2>2, QueueTypes DEF TypeOK
<1>5. WorkerInv'
  BY <1>3, NoneAssumption DEF WorkerInv
<1>6. RecordInv'
  BY <1>3 DEF RecordInv, TypeOK
<1>7. HistoryInv'
  BY <1>3 DEF HistoryInv
<1>8. DoneInv'
  BY <1>3 DEF DoneInv, Settled, Past, CompletedIsSettled
<1>9. AckerInv'
  BY DEF AckerInv, IdleAck
<1>10. CountInv'
  <2> SUFFICES ASSUME NEW c \in Commands
               PROVE  Laws!Times(applied, c) <= Laws!Spent(c) + (IF Open(c)' THEN 1 ELSE 0)
    BY <1>1 DEF CountInv, Laws!Spent
  <2>1. Laws!Times(applied, c) <= Laws!Spent(c) + (IF Open(c) THEN 1 ELSE 0)
    BY DEF CountInv
  <2>2. Laws!Times(applied, c) \in Nat /\ Laws!Spent(c) \in Nat
    BY Laws!TimesFacts DEF TypeOK, Queue!TypeOK, Laws!Spent
  <2>3. Open(c) => Open(c)'
    BY <1>3 DEF Open, WorkerInv
  <2>4. QED
    BY <2>1, <2>2, <2>3
<1>11. BehindInv'
  <2> SUFFICES ASSUME NEW i \in DOMAIN enqueued, NEW j \in DOMAIN enqueued, i < j,
                      Laws!Spent(enqueued[i]) = 0,
                      job'[enqueued[i]] \in {"wait", "active"}
               PROVE  /\ job'[enqueued[j]] = "wait"
                      /\ enqueued[j] \notin ToSet(applied)
                      /\ job'[enqueued[i]] = "wait" =>
                           Laws!Before(wait', enqueued[i], enqueued[j])
    BY <1>1 DEF BehindInv, Laws!Spent
  <2>1. enqueued[i] \in Commands /\ enqueued[j] \in Commands
    BY LenProperties DEF TypeOK
  <2>2. job[enqueued[i]] = "wait" /\ UNCHANGED wait
    BY <1>3, <2>1
  <2>3. QED
    BY <1>3, <2>1, <2>2 DEF BehindInv
<1>12. QED
  BY <1>1, <1>4, <1>5, <1>6, <1>7, <1>8, <1>9, <1>10, <1>11, Frames

-----------------------------------------------------------------------------
(* The invariants.                                                         *)

\* IndInv holds throughout, whatever fails or dies.
THEOREM Invariance == Spec => []IndInv
<1>1. Init => IndInv
  BY InitInv
<1>2. IndInv /\ [Next]_vars => IndInv'
  <2> SUFFICES ASSUME IndInv, [Next]_vars PROVE IndInv'
    OBVIOUS
  <2>1. ASSUME NEW c \in Commands,
               RecordCommand(c) \/ EnqueueCommand(c) \/ EnqueueFails(c)
        PROVE  IndInv'
    BY <2>1, SenderSteps
  <2>2. ASSUME NEW c \in Commands, QueueTimer(c) PROVE IndInv'
    BY <2>2, TimerSteps
  <2>3. CASE TakeJob
    BY <2>3, TakeStep
  <2>4. CASE SelectSent \/ UpdateSent
    BY <2>4, SentSteps
  <2>5. CASE ApplyCommand
    BY <2>5, ApplyStep
  <2>6. CASE SelectAcked \/ UpdateAcked
    BY <2>6, AckedSteps
  <2>7. CASE CompleteJob \/ FailJob
    BY <2>7, LeaveSteps
  <2>8. ASSUME NEW a \in Ackers, AckFind(a) \/ AckSelect(a) \/ AckUpdate(a)
                                \/ AckFails(a)
        PROVE  IndInv'
    BY <2>8, AckerSteps
  <2>9. CASE Crash
    BY <2>9, CrashStep
  <2>10. CASE UNCHANGED vars
    <3>1. TypeOK'
      BY <2>10 DEF IndInv, TypeOK, Queue!TypeOK, vars
    <3>2. QED
      BY <2>10, <3>1, Frames DEF vars, IndInv, queue
  <2>11. QED
    BY <2>1, <2>2, <2>3, <2>4, <2>5, <2>6, <2>7, <2>8, <2>9, <2>10 DEF Next, Worker
<1>3. QED
  BY <1>1, <1>2, PTL DEF Spec

\* Every variable has its type.
THEOREM TypeCorrect == Spec => []TypeOK
BY Invariance, PTL DEF IndInv

\* A command shows ACKED only if it was applied to the device row or the
\* device has had the last word.
THEOREM AckedTellsTheTruth == Spec => []AckedMeansDone
BY Invariance, PTL DEF IndInv

\* A completed job leaves its command applied, and ACKED unless the device has
\* had the last word, whatever statuses the device acknowledges with and
\* however its acknowledgements interleave with the worker's two saves.
THEOREM CompletionSettles == Spec => []CompletedIsSettled
BY Invariance, PTL DEF IndInv, DoneInv

\* Commands take effect in the order they were queued; only one that was
\* tried again may come after later ones.
THEOREM QueueKeepsOrder == Spec => []OrderKept
BY Invariance, PTL DEF IndInv

\* A command is applied at most once per attempt and per stall.
THEOREM EffectsBounded == Spec => []AppliedBounded
<1>1. IndInv => AppliedBounded
  <2> SUFFICES ASSUME IndInv, NEW c \in Commands
               PROVE  Laws!Times(applied, c) <= MaxAttempts + MaxStalls
    BY SameOperators DEF AppliedBounded, Laws!Times
  <2>1. Laws!Times(applied, c) <= Laws!Spent(c) + (IF Open(c) THEN 1 ELSE 0)
    BY DEF IndInv, CountInv
  <2>2. /\ Laws!Times(applied, c) \in Nat /\ MaxAttempts \in Nat /\ MaxStalls \in Nat
        /\ attempts[c] \in Nat /\ stalls[c] \in Nat
    BY Laws!TimesFacts, AttemptsAssumption, StallsAssumption
    DEF IndInv, TypeOK, Queue!TypeOK
  <2>3. /\ Laws!Spent(c) <= MaxAttempts + MaxStalls
        /\ job[c] # "exhausted" => attempts[c] < MaxAttempts /\ stalls[c] <= MaxStalls
    BY DEF IndInv, QueueInv, Laws!QueueInv, Laws!WithinBounds
  <2>4. Open(c) => job[c] # "exhausted"
    BY DEF Open, IndInv, WorkerInv
  <2>5. QED
    BY <2>1, <2>2, <2>3, <2>4 DEF Laws!Spent
<1>2. QED
  BY <1>1, Invariance, PTL

-----------------------------------------------------------------------------
(* The implementation of AtLeastOnce.                                      *)

\* Some of the commands that are owed are dropped, or none.
LEMMA DropOrStutter ==
  ASSUME UNCHANGED applied,
         \A c \in Commands : \/ Stage'[c] = Stage[c]
                             \/ Stage[c] = "owed" /\ Stage'[c] = "dropped"
  PROVE  Delivery!Next
<1> DEFINE D == {c \in Commands : Stage[c] = "owed" /\ Stage'[c] = "dropped"}
<1>1. Stage' = [c \in Commands |-> IF c \in D THEN "dropped" ELSE Stage[c]]
  BY DEF Stage
<1>2. D \in SUBSET {c \in Commands : Stage[c] = "owed"}
  OBVIOUS
<1>3. Delivery!Drop
  BY <1>1, <1>2 DEF Delivery!Drop
<1>4. QED
  BY <1>3 DEF Delivery!Next

\* Stage, command by command.
LEMMA StageFunction ==
  /\ Stage = [c \in Commands |-> Stage[c]]
  /\ Stage' = [c \in Commands |-> Stage'[c]]
BY DEF Stage

\* A command of which nothing changes that Stage looks at.
LEMMA SameStage ==
  ASSUME NEW c \in Commands,
         status'[c] = None <=> status[c] = None,
         job'[c] = job[c], sender'[c] = sender[c]
  PROVE  Stage'[c] = Stage[c]
BY DEF Stage

\* Every step is a step of AtLeastOnce or leaves its state alone.
LEMMA DeliveryStep ==
  ASSUME IndInv, [Next]_vars
  PROVE  [Delivery!Next]_(Delivery!vars)
<1> USE DEF IndInv
<1>1. ASSUME NEW c \in Commands, RecordCommand(c)
      PROVE  Delivery!Next
  <2> USE <1>1, NoneAssumption DEF RecordCommand, Store, queue
  <2>1. \A d \in Commands \ {c} : Stage'[d] = Stage[d]
    BY SameStage DEF TypeOK
  <2>2. Stage[c] = "absent" /\ Stage'[c] = "owed"
    <3>1. status[c] = None /\ status'[c] = "PENDING" /\ job'[c] = "none"
          /\ sender'[c] = "saved"
      BY DEF RecordInv, TypeOK
    <3>2. QED
      BY <3>1 DEF Stage
  <2>3. Stage' = [Stage EXCEPT ![c] = "owed"]
    BY <2>1, <2>2, StageFunction
  <2>4. Delivery!Accept(c)
    BY <2>2, <2>3 DEF Delivery!Accept, Delivery!Move
  <2>5. QED
    BY <2>4 DEF Delivery!Next
<1>2. ASSUME NEW c \in Commands, EnqueueCommand(c) \/ EnqueueFails(c)
      PROVE  Delivery!Next
  <2>1. \A d \in Commands \ {c} : Stage'[d] = Stage[d]
    BY <1>2, SameStage
    DEF EnqueueCommand, EnqueueFails, queue, Queue!Add, Queue!Move, TypeOK, Queue!TypeOK
  <2>2. sender[c] = "saved" /\ status[c] # None /\ job[c] = "none"
    BY <1>2 DEF EnqueueCommand, EnqueueFails, RecordInv
  <2>3. Stage[c] = "owed"
    BY <2>2 DEF Stage
  <2>4. Stage'[c] \in {"owed", "dropped"}
    <3>1. CASE EnqueueCommand(c)
      <4>1. status'[c] # None /\ job'[c] = "wait"
        BY <2>2, <3>1 DEF EnqueueCommand, Queue!Add, Queue!Move, TypeOK, Queue!TypeOK
      <4>2. QED
        BY <4>1 DEF Stage
    <3>2. CASE EnqueueFails(c)
      <4>1. status'[c] # None /\ job'[c] = "none" /\ sender'[c] = "failed"
        BY <2>2, <3>2 DEF EnqueueFails, queue, TypeOK
      <4>2. QED
        BY <4>1 DEF Stage
    <3>3. QED
      BY <1>2, <3>1, <3>2
  <2>5. QED
    BY <1>2, <2>1, <2>3, <2>4, DropOrStutter DEF EnqueueCommand, EnqueueFails
<1>3. ASSUME TakeJob
      PROVE  Delivery!Next
  <2>1. PICK c \in Commands : Queue!Take(c)
    BY <1>3 DEF TakeJob
  <2>2. job[c] = "wait" /\ job' = [job EXCEPT ![c] = "active"]
    BY <2>1, SameQueue, BoundsHold, Laws!TakeQueue
    DEF QueueInv, Queue!Take, Queue!Move
  <2>3. UNCHANGED <<status, sender, applied>>
    BY <1>3 DEF TakeJob
  <2>4. \A d \in Commands : Stage'[d] = Stage[d]
    BY <2>2, <2>3, SameStage DEF Stage, TypeOK, Queue!TypeOK
  <2>5. QED
    BY <2>3, <2>4, DropOrStutter
<1>4. ASSUME SelectSent \/ UpdateSent \/ SelectAcked \/ UpdateAcked
      PROVE  Delivery!Next
  <2> USE <1>4, NoneAssumption
      DEF SelectSent, UpdateSent, SelectAcked, UpdateAcked, Store, WorkerGoes, queue
  <2>1. active \in Commands /\ status[active] # None
    BY ActiveJob
  <2>2. \A c \in Commands : status'[c] = None <=> status[c] = None
    BY <2>1 DEF TypeOK
  <2>3. QED
    BY <2>2, SameStage, DropOrStutter
<1>5. ASSUME ApplyCommand
      PROVE  Delivery!Next
  <2> USE <1>5 DEF ApplyCommand, WorkerGoes, queue
  <2>1. active \in Commands /\ job[active] = "active" /\ status[active] # None
    BY ActiveJob
  <2>2. Stage[active] = "owed" /\ Stage' = Stage
    BY <2>1 DEF Stage
  <2>3. ToSet(applied)' = ToSet(applied) \cup {active}
    BY <2>1, Laws!AppendFacts, SameOperators DEF TypeOK
  <2>4. Delivery!TakeEffect(active)
    BY <2>2, <2>3 DEF Delivery!TakeEffect
  <2>5. QED
    BY <2>1, <2>4 DEF Delivery!Next
<1>6. ASSUME CompleteJob
      PROVE  Delivery!Next
  <2> USE <1>6 DEF CompleteJob, WorkerLeaves, Queue!Complete, Queue!Move
  <2>1. active \in Commands /\ job[active] = "active" /\ status[active] # None
    BY ActiveJob
  <2>2. active \in ToSet(applied)
    BY DEF DoneInv, Past
  <2>3. \A d \in Commands \ {active} : Stage'[d] = Stage[d]
    BY SameStage DEF TypeOK, Queue!TypeOK
  <2>4. job'[active] = "completed" /\ status'[active] # None
    BY <2>1 DEF TypeOK, Queue!TypeOK
  <2>5. Stage[active] = "owed" /\ Stage'[active] = "delivered"
    BY <2>1, <2>4 DEF Stage
  <2>6. Stage' = [Stage EXCEPT ![active] = "delivered"]
    BY <2>3, <2>5, StageFunction
  <2>7. Delivery!Deliver(active)
    BY <2>2, <2>5, <2>6 DEF Delivery!Deliver, Delivery!Move
  <2>8. QED
    BY <2>1, <2>7 DEF Delivery!Next
<1>7. ASSUME FailJob
      PROVE  Delivery!Next
  <2> USE <1>7 DEF FailJob, WorkerLeaves, Queue!Throw, Queue!Move
  <2>1. active \in Commands /\ job[active] = "active" /\ status[active] # None
    BY ActiveJob
  <2>2. \A d \in Commands \ {active} : Stage'[d] = Stage[d]
    BY SameStage DEF TypeOK, Queue!TypeOK
  <2>3. job'[active] \in {"delayed", "exhausted"} /\ status'[active] # None
    BY <2>1 DEF TypeOK, Queue!TypeOK
  <2>4. Stage[active] = "owed" /\ Stage'[active] \in {"owed", "dropped"}
    BY <2>1, <2>3 DEF Stage
  <2>5. QED
    BY <2>2, <2>4, DropOrStutter
<1>8. ASSUME NEW c \in Commands, QueueTimer(c)
      PROVE  Delivery!Next
  <2> USE <1>8 DEF QueueTimer, Queue!Promote, Queue!Recover, Queue!Move, work
  <2>1. \A d \in Commands \ {c} : Stage'[d] = Stage[d]
    BY SameStage DEF TypeOK, Queue!TypeOK
  <2>2. job[c] \in {"delayed", "orphan"} /\ status[c] # None
    BY DEF RecordInv
  <2>3. job'[c] \in {"wait", "exhausted"} /\ status'[c] # None
    BY <2>2 DEF TypeOK, Queue!TypeOK
  <2>4. Stage[c] = "owed" /\ Stage'[c] \in {"owed", "dropped"}
    BY <2>2, <2>3 DEF Stage
  <2>5. QED
    BY <2>1, <2>4, DropOrStutter
<1>9. ASSUME NEW a \in Ackers, AckFind(a) \/ AckSelect(a) \/ AckUpdate(a)
                              \/ AckFails(a)
      PROVE  Delivery!Next
  <2> USE <1>9, NoneAssumption DEF AckFind, AckSelect, AckUpdate, AckFails, Store, queue, work
  <2>1. \A c \in Commands : status'[c] = None <=> status[c] = None
    BY DEF TypeOK, AckerInv
  <2>2. QED
    BY <2>1, SameStage, DropOrStutter
<1>10. ASSUME Crash
       PROVE  Delivery!Next
  <2>1. UNCHANGED <<status, applied>>
    BY <1>10 DEF Crash
  <2>2. ASSUME NEW c \in Commands
        PROVE  /\ \/ sender'[c] = sender[c]
                  \/ sender[c] = "saved" /\ sender'[c] = "failed"
               /\ \/ job'[c] = job[c]
                  \/ /\ job[c] \in {"wait", "active", "delayed", "orphan"}
                     /\ job'[c] \in {"orphan", "lost"}
    BY <1>10 DEF Crash, Queue!Restart, Queue!Over, TypeOK, Queue!TypeOK
  <2>3. ASSUME NEW c \in Commands
        PROVE  \/ Stage'[c] = Stage[c]
               \/ Stage[c] = "owed" /\ Stage'[c] = "dropped"
    <3>1. CASE status[c] = None
      BY <2>1, <3>1 DEF Stage
    <3>2. CASE status[c] # None /\ job'[c] = job[c]
      BY <2>1, <2>2, <3>2 DEF Stage
    <3>3. CASE /\ status[c] # None
               /\ job[c] \in {"wait", "active", "delayed", "orphan"}
               /\ job'[c] \in {"orphan", "lost"}
      BY <2>1, <3>3 DEF Stage
    <3>4. QED
      BY <2>2, <3>1, <3>2, <3>3
  <2>4. QED
    BY <2>1, <2>3, DropOrStutter
<1>11. CASE UNCHANGED vars
  BY <1>11 DEF vars, Delivery!vars, Stage
<1>12. QED
  BY <1>1, <1>2, <1>3, <1>4, <1>5, <1>6, <1>7, <1>8, <1>9, <1>10, <1>11
  DEF Next, Worker

\* A recorded command is delivered, after it took effect at least once, or
\* dropped, and is then left alone: DeviceCommands implements AtLeastOnce.
THEOREM CommandsDelivered == Spec => ImplementsDelivery
<1>1. Init => Delivery!Init
  <2> SUFFICES ASSUME Init PROVE Delivery!Init
    OBVIOUS
  <2>1. \A c \in Commands : status[c] = None /\ job[c] = "none" /\ sender[c] = "idle"
    BY DEF Init, Queue!Init
  <2>2. Stage = [c \in Commands |-> "absent"]
    <3>1. \A c \in Commands : Stage[c] = "absent"
      BY <2>1 DEF Stage
    <3> HIDE DEF Stage
    <3>2. QED
      BY <3>1, StageFunction
  <2>3. ToSet(applied) = {}
    BY Laws!EmptyFacts, SameOperators DEF Init
  <2>4. QED
    BY <2>2, <2>3 DEF Delivery!Init
<1>2. QED
  BY <1>1, Invariance, DeliveryStep, PTL DEF Spec, ImplementsDelivery, Delivery!Spec
=============================================================================
