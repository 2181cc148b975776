-------------------------------- MODULE Chat --------------------------------
(***************************************************************************)
(* What users say to a device (ChatService): messages, quick commands,     *)
(* which are a message and a command for the device in turn, and the       *)
(* history.  All requests are about one device, whose owner may change in  *)
(* between.  Messages and commands are named by the request that stored    *)
(* them; what becomes of a queued command is in DeviceCommands, and the    *)
(* messages of reports are in Sessions.                                    *)
(***************************************************************************)
EXTENDS Naturals, Sequences, SequencesExt, FiniteSets

CONSTANTS
  NumRequests,   \* requests, numbered in the order of arrival
  Users,
  Orders(_),     \* what each request may ask
  QuickCommands, \* the rows of quick_commands
  MaxPairings,   \* bound on changes of owner
  None

Requests == 1 .. NumRequests

\* The actions that executeCommandAction turns into a command; it ignores others.
DeviceActions == {"start", "stop", "pause", "resume", "set_temperature", "update_interval"}
QuickCommand == [namespace : {"device", "other"}, action : DeviceActions \cup {"other"}, isActive : BOOLEAN]

Order ==
  [kind : {"message"}, user : Users]
  \cup [kind : {"quick"}, user : Users, command : QuickCommands]
  \cup [kind : {"list"}, user : Users, limit : Nat]

VARIABLES
  at,        \* where each request is
  order,     \* what it asks
  code,      \* the status code of its answer; 0: none
  owner,     \* the user of the device, or None
  pairings,  \* how often the owner changed
  messages,  \* chat_messages, in the order of the insertions
  heard,     \* the messages broadcast to the device's room, in their order
  commands,  \* the requests that stored a row in device_commands
  jobs,      \* ... and queued its job
  history,   \* the messages in an answered list
  told       \* the messages answered with success before each request arrived

talk == <<messages, heard>>
orders == <<commands, jobs>>
vars == <<at, order, code, owner, pairings, talk, orders, history, told>>

Init ==
  /\ at = [r \in Requests |-> "idle"]
  /\ order = [r \in Requests |-> [kind |-> "none"]]
  /\ code = [r \in Requests |-> 0]
  /\ owner = None
  /\ pairings = 0
  /\ messages = <<>> /\ heard = <<>>
  /\ commands = {} /\ jobs = {}
  /\ history = [r \in Requests |-> {}]
  /\ told = [r \in Requests |-> {}]

\* A pairing, seen from here; see DeviceRow.
Pair(u) ==
  /\ pairings < MaxPairings
  /\ owner # u
  /\ owner' = u
  /\ pairings' = pairings + 1
  /\ UNCHANGED <<at, order, code, talk, orders, history, told>>

Goes(r, from, to) ==
  /\ at[r] = from
  /\ at' = [at EXCEPT ![r] = to]
  /\ UNCHANGED <<owner, pairings>>

Answers(r, from, status) ==
  /\ Goes(r, from, "done")
  /\ code' = [code EXCEPT ![r] = status]

Arrive(r, o) ==
  /\ \A q \in Requests : q < r => at[q] # "idle"
  /\ Goes(r, "idle", IF o.kind = "quick" THEN "command" ELSE "owned")
  /\ order' = [order EXCEPT ![r] = o]
  /\ told' = [told EXCEPT ![r] = {q \in Requests : order[q].kind # "list" /\ code[q] = 201}]
  /\ UNCHANGED <<code, talk, orders, history>>

\* executeQuickCommand: an active command, and a device of the user, which
\* sendMessage then looks for again.
FindCommand(r) ==
  /\ at[r] = "command"
  /\ IF order[r].command.isActive
     THEN Goes(r, "command", "device") /\ UNCHANGED code
     ELSE Answers(r, "command", 404)
  /\ UNCHANGED <<order, told, talk, orders, history>>

Owns(r) == owner = order[r].user

FindDevice(r) ==
  /\ at[r] = "device"
  /\ IF Owns(r) THEN Goes(r, "device", "owned") /\ UNCHANGED code ELSE Answers(r, "device", 404)
  /\ UNCHANGED <<order, told, talk, orders, history>>

\* findOneByUser in sendMessage and listMessages.
FindOwned(r) ==
  /\ at[r] = "owned"
  /\ IF Owns(r)
     THEN Goes(r, "owned", IF order[r].kind = "list" THEN "list" ELSE "insert") /\ UNCHANGED code
     ELSE Answers(r, "owned", 404)
  /\ UNCHANGED <<order, told, talk, orders, history>>

\* Faulty: what is broadcast was never stored.
InsertNothing(r) ==
  /\ Goes(r, "insert", "broadcast")
  /\ UNCHANGED <<code, order, told, talk, orders, history>>

\* createMessage.
InsertMessage(r) ==
  /\ Goes(r, "insert", "broadcast")
  /\ messages' = Append(messages, r)
  /\ UNCHANGED <<code, order, told, heard, orders, history>>

Acts(r) ==
  /\ order[r].kind = "quick"
  /\ order[r].command.namespace = "device"
  /\ order[r].command.action \in DeviceActions

\* The message is broadcast; executeCommandAction has something to do, or not.
Broadcast(r) ==
  /\ at[r] = "broadcast"
  /\ heard' = Append(heard, r)
  /\ IF Acts(r) THEN Goes(r, "broadcast", "record") /\ UNCHANGED code ELSE Answers(r, "broadcast", 201)
  /\ UNCHANGED <<order, told, messages, orders, history>>

\* sendCommand, with the device as it was found at first.
RecordCommand(r) ==
  /\ Goes(r, "record", "enqueue")
  /\ commands' = commands \cup {r}
  /\ UNCHANGED <<code, order, told, talk, jobs, history>>

\* Faulty: the command waits to be queued by somebody else.
EnqueueNothing(r) ==
  /\ Answers(r, "enqueue", 201)
  /\ UNCHANGED <<order, told, talk, orders, history>>

EnqueueCommand(r) ==
  /\ Answers(r, "enqueue", 201)
  /\ jobs' = jobs \cup {r}
  /\ UNCHANGED <<order, told, talk, commands, history>>

\* listMessages: the newest messages of the device, whoever sent them.
List(r) ==
  /\ Answers(r, "list", 200)
  /\ LET n == Len(messages)
     IN history' = [history EXCEPT ![r] =
          {messages[i] : i \in {j \in 1 .. n : j > n - order[r].limit}}]
  /\ UNCHANGED <<order, told, talk, orders>>

\* A statement or the queue fails, or the process dies: what is done stays.
Fail(r) ==
  /\ \E step \in {"command", "device", "owned", "insert", "record", "enqueue", "list"} : Answers(r, step, 500)
  /\ UNCHANGED <<order, told, talk, orders, history>>

Next ==
  \/ \E r \in Requests :
       \/ \E o \in Orders(r) : Arrive(r, o)
       \/ FindCommand(r) \/ FindDevice(r) \/ FindOwned(r) \/ InsertMessage(r) \/ Broadcast(r)
       \/ RecordCommand(r) \/ EnqueueCommand(r) \/ List(r) \/ Fail(r)
  \/ \E u \in Users : Pair(u)

Spec == Init /\ [][Next]_vars

-----------------------------------------------------------------------------
TypeOK ==
  /\ at \in [Requests -> {"idle", "command", "device", "owned", "insert", "broadcast",
                          "record", "enqueue", "list", "done"}]
  /\ \A r \in Requests : order[r] \in Order \cup {[kind |-> "none"]}
  /\ IsInjective(messages) /\ IsInjective(heard) /\ Range(heard) \subseteq Range(messages)
  /\ owner \in Users \cup {None}

\* The place of a message in the table.
Said(q) == CHOOSE i \in DOMAIN messages : messages[i] = q

\* A device is told to act only after everybody in its room has heard who asked for
\* it; an answered quick command was said and queued; a refused request said
\* nothing; and a user who asks for the history finds what was said before, unless
\* the list is full of messages stored after it, whoever owns the device meanwhile.
CommandFollowsMessage ==
  \A r \in Requests :
    /\ r \in commands \cup jobs => Acts(r) /\ r \in Range(heard)
    /\ code[r] = 201 => r \in Range(messages) \cap Range(heard) /\ (Acts(r) => r \in commands \cap jobs)
    /\ code[r] = 404 => r \notin Range(messages) \cup commands
    /\ code[r] = 200 => \A q \in told[r] :
         q \in history[r] \/
           Cardinality({p \in history[r] : Said(p) > Said(q)}) = order[r].limit
=============================================================================
