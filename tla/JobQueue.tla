------------------------------ MODULE JobQueue ------------------------------
(***************************************************************************)
(* A BullMQ queue with one worker of concurrency one, modelled from how    *)
(* queues/queue.module.ts configures it and the processors use it.  Jobs   *)
(* are handed out in order; a job whose processor throws waits out its     *)
(* backoff and is tried again, up to `attempts' times; a job whose worker  *)
(* died keeps its lock for a while, is then found stalled and handed out   *)
(* again, at most maxStalledCount times.  A job is named by what it is for.*)
(***************************************************************************)
EXTENDS Naturals, Sequences, SequencesExt

CONSTANTS
  Jobs,
  MaxAttempts,   \* defaultJobOptions.attempts
  MaxStalls,     \* BullMQ's maxStalledCount
  Queues         \* what a restart may find: its jobs in "redis", or an empty
                 \* "memory", the mocked Redis of development

VARIABLES
  job,       \* where each job is; "orphan": its worker died
  wait,      \* the jobs that wait, oldest first
  attempts,  \* attemptsMade of each job
  stalls     \* how often each job was found stalled

Over == {"completed", "exhausted", "lost"}

Init ==
  /\ job = [j \in Jobs |-> "none"]
  /\ wait = <<>>
  /\ attempts = [j \in Jobs |-> 0]
  /\ stalls = [j \in Jobs |-> 0]

Move(j, to) == job' = [job EXCEPT ![j] = to]

\* Faulty: the newest job is handed out first.
AddFirst(j) ==
  /\ Move(j, "wait")
  /\ wait' = <<j>> \o wait
  /\ UNCHANGED <<attempts, stalls>>

\* Queue.add.
Add(j) ==
  /\ Move(j, "wait")
  /\ wait' = Append(wait, j)
  /\ UNCHANGED <<attempts, stalls>>

\* The worker takes the job at the head.
Take(j) ==
  /\ wait # <<>>
  /\ j = Head(wait)
  /\ wait' = Tail(wait)
  /\ Move(j, "active")
  /\ UNCHANGED <<attempts, stalls>>

\* The processor returned.
Complete(j) ==
  /\ Move(j, "completed")
  /\ UNCHANGED <<wait, attempts, stalls>>

\* Faulty: a job is tried for ever.
ThrowUnlimited(j) ==
  /\ attempts' = [attempts EXCEPT ![j] = @ + 1]
  /\ Move(j, "delayed")
  /\ UNCHANGED <<wait, stalls>>

\* The processor threw.
Throw(j) ==
  /\ attempts' = [attempts EXCEPT ![j] = @ + 1]
  /\ Move(j, IF attempts[j] + 1 < MaxAttempts THEN "delayed" ELSE "exhausted")
  /\ UNCHANGED <<wait, stalls>>

\* The backoff is over: the job queues up behind the others.
Promote(j) ==
  /\ job[j] = "delayed"
  /\ Move(j, "wait")
  /\ wait' = Append(wait, j)
  /\ UNCHANGED <<attempts, stalls>>

\* Faulty: a stalled job is handed out however often its worker died.
RecoverUnlimited(j) ==
  /\ job[j] = "orphan"
  /\ Move(j, "wait")
  /\ wait' = <<j>> \o wait
  /\ UNCHANGED <<attempts, stalls>>

\* The lock of a dead worker ran out: its job goes to the front, or fails.
Recover(j) ==
  /\ job[j] = "orphan"
  /\ stalls' = [stalls EXCEPT ![j] = @ + 1]
  /\ \/ /\ stalls[j] < MaxStalls
        /\ Move(j, "wait")
        /\ wait' = <<j>> \o wait
     \/ /\ stalls[j] >= MaxStalls
        /\ Move(j, "exhausted")
        /\ UNCHANGED wait
  /\ UNCHANGED attempts

\* Faulty: the job of the dead worker is left as it was.
RestartForgets == UNCHANGED <<job, wait, attempts, stalls>>

\* The process dies and starts again: jobs survive in Redis, and are gone
\* when Redis is the in-memory one.
Restart ==
  /\ \/ /\ "redis" \in Queues
        /\ job' = [j \in Jobs |-> IF job[j] = "active" THEN "orphan" ELSE job[j]]
        /\ UNCHANGED wait
     \/ /\ "memory" \in Queues
        /\ job' = [j \in Jobs |->
                     IF job[j] \in {"none"} \cup Over THEN job[j] ELSE "lost"]
        /\ wait' = <<>>
  /\ UNCHANGED <<attempts, stalls>>

TypeOK ==
  /\ job \in [Jobs -> {"none", "wait", "active", "delayed", "orphan"} \cup Over]
  /\ wait \in Seq(Jobs)
  /\ attempts \in [Jobs -> 0..MaxAttempts]
  /\ stalls \in [Jobs -> Nat]
=============================================================================
