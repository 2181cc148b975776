------------------------------ MODULE App_proofs ------------------------------
(***************************************************************************)
(* What holds of the tables of the app for every number of requests and    *)
(* whatever they ask.  Each part has an invariant of its own, which the    *)
(* steps of the other parts leave alone.                                   *)
(***************************************************************************)
EXTENDS MCApp, SequenceTheorems, FiniteSetTheorems, FunctionTheorems, TLAPS

-----------------------------------------------------------------------------
(* Sequences and sets.                                                     *)

\* What an element appended to a sequence changes.
LEMMA AppendFacts ==
  ASSUME NEW S, NEW s \in Seq(S), NEW e \in S
  PROVE  /\ Append(s, e) \in Seq(S) /\ Len(s) \in Nat
         /\ Len(Append(s, e)) = Len(s) + 1
         /\ DOMAIN s = 1 .. Len(s) /\ DOMAIN Append(s, e) = 1 .. (Len(s) + 1)
         /\ Append(s, e)[Len(s) + 1] = e
         /\ \A i \in DOMAIN s : Append(s, e)[i] = s[i] /\ s[i] \in S
<1>1. Append(s, e) \in Seq(S) /\ Len(Append(s, e)) = Len(s) + 1
  BY AppendProperties
<1>2. DOMAIN s = 1 .. Len(s) /\ Len(s) \in Nat /\ DOMAIN Append(s, e) = 1 .. Len(Append(s, e))
  BY <1>1, LenProperties
<1>3. Append(s, e)[Len(s) + 1] = e /\ \A i \in 1 .. Len(s) : Append(s, e)[i] = s[i]
  BY AppendProperties
<1>4. \A i \in 1 .. Len(s) : s[i] \in S
  BY ElementOfSeq
<1>5. QED
  BY <1>1, <1>2, <1>3, <1>4

\* The last n of a sequence of different elements are n.
LEMMA LastElements ==
  ASSUME NEW S, NEW s \in Seq(S), NEW n \in Nat, n <= Len(s),
         \A i, j \in DOMAIN s : s[i] = s[j] => i = j
  PROVE  Cardinality({s[i] : i \in {j \in 1 .. Len(s) : j > Len(s) - n}}) = n
<1> DEFINE I == (Len(s) - n + 1) .. Len(s)
           T == {s[i] : i \in {j \in 1 .. Len(s) : j > Len(s) - n}}
           f == [i \in I |-> s[i]]
<1>1. Len(s) \in Nat /\ DOMAIN s = 1 .. Len(s)
  BY LenProperties
<1>2. I = {j \in 1 .. Len(s) : j > Len(s) - n}
  BY <1>1
<1>3. f \in [I -> T] /\ \A t \in T : \E i \in I : f[i] = t
  BY <1>2
<1>4. \A i, j \in I : f[i] = f[j] => i = j
  BY <1>1, <1>2
<1>5. f \in Bijection(I, T)
  BY <1>3, <1>4, Fun_IsBij
<1>6. IsFiniteSet(I) /\ Cardinality(I) = n
  BY <1>1, FS_Interval
<1>7. QED
  BY <1>5, <1>6, FS_Bijection DEF ExistsBijection

-----------------------------------------------------------------------------
(* Chat.                                                                   *)

Stored(r) == \E i \in DOMAIN messages : messages[i] = r
Heard(r) == \E i \in DOMAIN heard : heard[i] = r

\* The values of the variables.
TalkTypes ==
  /\ at \in [Talk!Requests -> {"idle", "command", "device", "owned", "insert", "broadcast",
                               "record", "enqueue", "list", "done"}]
  /\ order \in [Talk!Requests -> Talk!Order \cup {[kind |-> "none"]}]
  /\ code \in [Talk!Requests -> {0, 200, 201, 404, 500}]
  /\ owner \in Users \cup {None}
  /\ messages \in Seq(Talk!Requests) /\ heard \in Seq(Talk!Requests)
  /\ commands \subseteq Talk!Requests /\ jobs \subseteq Talk!Requests
  /\ history \in [Talk!Requests -> SUBSET Talk!Requests]
  /\ told \in [Talk!Requests -> SUBSET Talk!Requests]

\* What a request has left behind, from where it is and how it was answered.
TalkFlow ==
  \A r \in Talk!Requests :
    /\ at[r] # "idle" => order[r] \in Talk!Order
    /\ code[r] # 0 => at[r] = "done"
    /\ at[r] \in {"idle", "command", "device", "owned", "insert", "list"} => ~ Stored(r)
    /\ at[r] \in {"broadcast", "record", "enqueue"} => Stored(r)
    /\ at[r] = "broadcast" => ~ Heard(r)
    /\ at[r] \in {"record", "enqueue"} => Heard(r) /\ Talk!Acts(r)
    /\ at[r] = "enqueue" => r \in commands
    /\ at[r] = "list" => order[r].kind = "list"
    /\ Heard(r) => Stored(r)
    /\ r \in commands => at[r] \in {"enqueue", "done"} /\ Heard(r) /\ Talk!Acts(r)
    /\ r \in jobs => r \in commands
    /\ code[r] = 201 => Heard(r) /\ (Talk!Acts(r) => r \in jobs)
    /\ code[r] = 404 => ~ Stored(r)
    /\ \A q \in told[r] : Stored(q)

\* No message is stored, or broadcast, twice.
TalkOnce ==
  /\ \A i, j \in DOMAIN messages : messages[i] = messages[j] => i = j
  /\ \A i, j \in DOMAIN heard : heard[i] = heard[j] => i = j

\* A list that misses what was said before is full of what was said later.
TalkHistory ==
  \A r \in Talk!Requests : code[r] = 200 =>
    /\ \A p \in history[r] : Stored(p)
    /\ \A q \in told[r] : q \notin history[r] =>
         /\ Cardinality(history[r]) = order[r].limit
         /\ \A i, j \in DOMAIN messages : messages[i] = q /\ messages[j] \in history[r] => i < j

TalkInv == TalkTypes /\ TalkFlow /\ TalkOnce /\ TalkHistory

\* What an order is.
LEMMA OrderFacts ==
  /\ \A o \in Talk!Order :
       /\ o.kind \in {"message", "quick", "list"}
       /\ o # [kind |-> "none"]
       /\ o.kind = "list" => o.limit \in Nat
  /\ \A r \in Talk!Requests : Orders(r) \subseteq Talk!Order
<1>1. [kind |-> "none"].kind = "none"
  OBVIOUS
<1>2. QED
  BY <1>1, OrdersAssumption DEF Talk!Order

\* A request that looks something up goes on, or is refused before anything is said.
LEMMA LookupKeeps ==
  ASSUME TalkInv, NEW r \in Talk!Requests, at[r] \in {"command", "device", "owned"},
         NEW to \in {"device", "owned", "insert", "list"}, to = "list" => order[r].kind = "list",
         \/ at' = [at EXCEPT ![r] = to] /\ code' = code
         \/ at' = [at EXCEPT ![r] = "done"] /\ code' = [code EXCEPT ![r] = 404],
         UNCHANGED <<order, owner, messages, heard, commands, jobs, history, told>>
  PROVE  TalkInv'
<1>1. TalkTypes'
  <2>1. at' \in [Talk!Requests -> {"idle", "command", "device", "owned", "insert", "broadcast",
                                   "record", "enqueue", "list", "done"}]
    BY DEF TalkInv, TalkTypes
  <2>2. code' \in [Talk!Requests -> {0, 200, 201, 404, 500}]
    BY DEF TalkInv, TalkTypes
  <2>3. QED
    BY <2>1, <2>2 DEF TalkInv, TalkTypes
<1>2. TalkFlow'
  BY DEF TalkInv, TalkTypes, TalkFlow, Stored, Heard, Talk!Acts
<1>3. TalkOnce'
  BY DEF TalkInv, TalkOnce
<1>4. TalkHistory'
  BY DEF TalkInv, TalkTypes, TalkFlow, TalkHistory, Stored
<1>5. QED
  BY <1>1, <1>2, <1>3, <1>4 DEF TalkInv

\* A quick command that is not active is refused.
LEMMA FindCommandKeeps ==
  ASSUME TalkInv, NEW r \in Talk!Requests, Talk!FindCommand(r)
  PROVE  TalkInv'
<1>1. /\ at[r] = "command"
      /\ \/ at' = [at EXCEPT ![r] = "device"] /\ code' = code
         \/ at' = [at EXCEPT ![r] = "done"] /\ code' = [code EXCEPT ![r] = 404]
      /\ UNCHANGED <<order, owner, messages, heard, commands, jobs, history, told>>
  BY DEF Talk!FindCommand, Talk!Goes, Talk!Answers, Talk!talk, Talk!orders
<1>2. QED
  BY <1>1, LookupKeeps

\* So is one for a device of somebody else.
LEMMA FindDeviceKeeps ==
  ASSUME TalkInv, NEW r \in Talk!Requests, Talk!FindDevice(r)
  PROVE  TalkInv'
<1>1. /\ at[r] = "device"
      /\ \/ at' = [at EXCEPT ![r] = "owned"] /\ code' = code
         \/ at' = [at EXCEPT ![r] = "done"] /\ code' = [code EXCEPT ![r] = 404]
      /\ UNCHANGED <<order, owner, messages, heard, commands, jobs, history, told>>
  BY DEF Talk!FindDevice, Talk!Goes, Talk!Answers, Talk!talk, Talk!orders
<1>2. QED
  BY <1>1, LookupKeeps

\* So is a message, and a request for the history.
LEMMA FindOwnedKeeps ==
  ASSUME TalkInv, NEW r \in Talk!Requests, Talk!FindOwned(r)
  PROVE  TalkInv'
<1> DEFINE to == IF order[r].kind = "list" THEN "list" ELSE "insert"
<1>1. /\ at[r] = "owned"
      /\ \/ at' = [at EXCEPT ![r] = to] /\ code' = code
         \/ at' = [at EXCEPT ![r] = "done"] /\ code' = [code EXCEPT ![r] = 404]
      /\ UNCHANGED <<order, owner, messages, heard, commands, jobs, history, told>>
  BY DEF Talk!FindOwned, Talk!Goes, Talk!Answers, Talk!talk, Talk!orders
<1>2. to \in {"insert", "list"} /\ (to = "list" => order[r].kind = "list")
  OBVIOUS
<1> HIDE DEF to
<1>3. QED
  BY <1>1, <1>2, LookupKeeps

\* A message is stored at the end, and once.
LEMMA InsertMessageKeeps ==
  ASSUME TalkInv, NEW r \in Talk!Requests, Talk!InsertMessage(r)
  PROVE  TalkInv'
<1> USE DEF TalkInv, Talk!InsertMessage, Talk!Goes, Talk!Answers, Talk!talk, Talk!orders
<1>1. at[r] = "insert" /\ ~ Stored(r) /\ code[r] = 0
  BY DEF TalkTypes, TalkFlow
<1>2. /\ messages' \in Seq(Talk!Requests) /\ Len(messages) \in Nat
      /\ DOMAIN messages = 1 .. Len(messages) /\ DOMAIN messages' = 1 .. (Len(messages) + 1)
      /\ messages'[Len(messages) + 1] = r
      /\ \A i \in DOMAIN messages : messages'[i] = messages[i]
  BY AppendFacts DEF TalkTypes
<1>3. Stored(r)' /\ \A q : q # r => (Stored(q)' <=> Stored(q))
  BY <1>2 DEF Stored
<1>4. TalkTypes'
  BY <1>2 DEF TalkTypes
<1>5. TalkFlow'
  BY <1>1, <1>3 DEF TalkTypes, TalkFlow, Heard, Talk!Acts
<1>6. TalkOnce'
  BY <1>1, <1>2 DEF TalkOnce, Stored
<1>7. TalkHistory'
  BY <1>1, <1>2, <1>3 DEF TalkTypes, TalkFlow, TalkHistory, Stored
<1>8. QED
  BY <1>4, <1>5, <1>6, <1>7

\* It is broadcast once, and only then carried out.
LEMMA BroadcastKeeps ==
  ASSUME TalkInv, NEW r \in Talk!Requests, Talk!Broadcast(r)
  PROVE  TalkInv'
<1>1. at[r] = "broadcast" /\ Stored(r) /\ ~ Heard(r) /\ code[r] = 0
  BY DEF TalkInv, Talk!Broadcast, TalkTypes, TalkFlow
<1>2. /\ heard' = Append(heard, r)
      /\ UNCHANGED <<order, owner, messages, commands, jobs, history, told>>
      /\ \/ Talk!Acts(r) /\ at' = [at EXCEPT ![r] = "record"] /\ code' = code
         \/ ~ Talk!Acts(r) /\ at' = [at EXCEPT ![r] = "done"] /\ code' = [code EXCEPT ![r] = 201]
  BY DEF Talk!Broadcast, Talk!Goes, Talk!Answers, Talk!orders
<1>3. /\ heard' \in Seq(Talk!Requests) /\ Len(heard) \in Nat
      /\ DOMAIN heard = 1 .. Len(heard) /\ DOMAIN heard' = 1 .. (Len(heard) + 1)
      /\ heard'[Len(heard) + 1] = r
      /\ \A i \in DOMAIN heard : heard'[i] = heard[i]
  BY <1>2, AppendFacts DEF TalkInv, TalkTypes
<1>4. Heard(r)' /\ \A q : q # r => (Heard(q)' <=> Heard(q))
  BY <1>3 DEF Heard
<1>5. TalkTypes'
  <2>1. at' \in [Talk!Requests -> {"idle", "command", "device", "owned", "insert", "broadcast",
                                   "record", "enqueue", "list", "done"}]
    <3>1. at' = [at EXCEPT ![r] = "record"] \/ at' = [at EXCEPT ![r] = "done"]
      BY <1>2
    <3>2. QED
      BY <3>1 DEF TalkInv, TalkTypes
  <2>2. code' \in [Talk!Requests -> {0, 200, 201, 404, 500}]
    <3>1. code' = code \/ code' = [code EXCEPT ![r] = 201]
      BY <1>2
    <3>2. QED
      BY <3>1 DEF TalkInv, TalkTypes
  <2>3. QED
    BY <1>2, <1>3, <2>1, <2>2 DEF TalkInv, TalkTypes
<1>6. TalkFlow'
  BY <1>1, <1>2, <1>4 DEF TalkInv, TalkTypes, TalkFlow, Stored, Talk!Acts
<1>7. TalkOnce'
  BY <1>1, <1>2, <1>3 DEF TalkInv, TalkOnce, Heard
<1>8. TalkHistory'
  BY <1>1, <1>2 DEF TalkInv, TalkTypes, TalkFlow, TalkHistory, Stored
<1>9. QED
  BY <1>5, <1>6, <1>7, <1>8 DEF TalkInv

\* The row of a command follows its broadcast.
LEMMA RecordCommandKeeps ==
  ASSUME TalkInv, NEW r \in Talk!Requests, Talk!RecordCommand(r)
  PROVE  TalkInv'
<1> USE DEF TalkInv, Talk!RecordCommand, Talk!Goes, Talk!Answers, Talk!talk, Talk!orders
<1>1. TalkTypes'
  BY DEF TalkTypes
<1>2. TalkFlow'
  BY DEF TalkTypes, TalkFlow, Stored, Heard, Talk!Acts
<1>3. TalkOnce'
  BY DEF TalkOnce
<1>4. TalkHistory'
  BY DEF TalkTypes, TalkFlow, TalkHistory, Stored
<1>5. QED
  BY <1>1, <1>2, <1>3, <1>4

\* Its job follows the row, and the answer the job.
LEMMA EnqueueCommandKeeps ==
  ASSUME TalkInv, NEW r \in Talk!Requests, Talk!EnqueueCommand(r)
  PROVE  TalkInv'
<1> USE DEF TalkInv, Talk!EnqueueCommand, Talk!Goes, Talk!Answers, Talk!talk, Talk!orders
<1>1. TalkTypes'
  BY DEF TalkTypes
<1>2. TalkFlow'
  BY DEF TalkTypes, TalkFlow, Stored, Heard, Talk!Acts
<1>3. TalkOnce'
  BY DEF TalkOnce
<1>4. TalkHistory'
  BY DEF TalkTypes, TalkFlow, TalkHistory, Stored
<1>5. QED
  BY <1>1, <1>2, <1>3, <1>4

\* A list has all messages, or as many as it may have and all of them newer.
LEMMA ListKeeps ==
  ASSUME TalkInv, NEW r \in Talk!Requests, Talk!List(r)
  PROVE  TalkInv'
<1> USE DEF TalkInv, Talk!List, Talk!Goes, Talk!Answers, Talk!talk, Talk!orders
<1>1. at[r] = "list" /\ code[r] = 0 /\ order[r].limit \in Nat /\ ~ Stored(r)
  BY OrderFacts DEF TalkTypes, TalkFlow
<1>2. /\ messages \in Seq(Talk!Requests) /\ Len(messages) \in Nat
      /\ DOMAIN messages = 1 .. Len(messages)
      /\ \A i \in DOMAIN messages : messages[i] \in Talk!Requests
  <2>1. messages \in Seq(Talk!Requests)
    BY DEF TalkTypes
  <2>2. QED
    BY <2>1, LenProperties, ElementOfSeq
<1> DEFINE page == {messages[i] : i \in
                      {j \in 1 .. Len(messages) : j > Len(messages) - order[r].limit}}
<1>3. history' = [history EXCEPT ![r] = page] /\ page \subseteq Talk!Requests
  BY <1>2
<1>4. ASSUME NEW q, Stored(q), q \notin page
      PROVE  /\ Cardinality(page) = order[r].limit
             /\ \A i, j \in DOMAIN messages : messages[i] = q /\ messages[j] \in page => i < j
  <2>1. PICK i \in DOMAIN messages : messages[i] = q
    BY <1>4 DEF Stored
  <2>2. i <= Len(messages) - order[r].limit /\ order[r].limit <= Len(messages)
    BY <1>1, <1>2, <1>4, <2>1
  <2>3. \A j, k \in DOMAIN messages : messages[j] = messages[k] => j = k
    BY DEF TalkOnce
  <2>4. Cardinality(page) = order[r].limit
    BY <1>1, <1>2, <2>2, <2>3, LastElements
  <2>5. QED
    BY <1>1, <1>2, <2>1, <2>2, <2>3, <2>4
<1> HIDE DEF page
<1>7. TalkTypes'
  BY <1>3 DEF TalkTypes
<1>8. TalkFlow'
  BY DEF TalkTypes, TalkFlow, Stored, Heard, Talk!Acts
<1>9. TalkOnce'
  BY DEF TalkOnce
<1>10. TalkHistory'
  <2>1. \A p \in page : Stored(p)
    BY <1>2 DEF page, Stored
  <2>2. /\ history'[r] = page /\ \A q \in Talk!Requests : q # r => history'[q] = history[q]
        /\ \A q \in Talk!Requests : q # r => code'[q] = code[q]
        /\ messages' = messages /\ told' = told /\ order' = order
    BY <1>3 DEF TalkTypes
  <2>3. \A q \in told[r] : Stored(q)
    BY DEF TalkFlow
  <2>4. ASSUME NEW q \in Talk!Requests, code'[q] = 200
        PROVE  /\ \A p \in history'[q] : Stored(p)'
               /\ \A p \in told'[q] : p \notin history'[q] =>
                    /\ Cardinality(history'[q]) = order'[q].limit
                    /\ \A i, j \in DOMAIN messages' :
                         messages'[i] = p /\ messages'[j] \in history'[q] => i < j
    <3>1. CASE q = r
      <4> HIDE DEF TalkInv, Talk!List, Talk!Goes, Talk!Answers, Talk!talk, Talk!orders
      <4>1. history'[q] = page /\ told'[q] = told[r] /\ order'[q] = order[r] /\ messages' = messages
        BY <2>2, <3>1
      <4>2. \A p \in page : Stored(p)'
        BY <2>1, <4>1 DEF Stored
      <4>3. \A p \in told[r] : p \notin page =>
              /\ Cardinality(page) = order[r].limit
              /\ \A i, j \in DOMAIN messages : messages[i] = p /\ messages[j] \in page => i < j
        BY <1>4, <2>3
      <4>4. QED
        BY <4>1, <4>2, <4>3
    <3>2. CASE q # r
      BY <2>2, <2>4, <3>2 DEF TalkHistory, Stored
    <3>3. QED
      BY <3>1, <3>2
  <2>5. QED
    BY <2>4 DEF TalkHistory
<1>11. QED
  BY <1>7, <1>8, <1>9, <1>10

\* A request that fails leaves what it has said and queued.
LEMMA FailKeeps ==
  ASSUME TalkInv, NEW r \in Talk!Requests, Talk!Fail(r)
  PROVE  TalkInv'
<1> USE DEF TalkInv, Talk!Fail, Talk!Goes, Talk!Answers, Talk!talk, Talk!orders
<1>1. TalkTypes'
  BY DEF TalkTypes
<1>2. TalkFlow'
  BY DEF TalkTypes, TalkFlow, Stored, Heard, Talk!Acts
<1>3. TalkOnce'
  BY DEF TalkOnce
<1>4. TalkHistory'
  BY DEF TalkTypes, TalkFlow, TalkHistory, Stored
<1>5. QED
  BY <1>1, <1>2, <1>3, <1>4

\* A request that arrives has said nothing, and what was told was said.
LEMMA ArriveChatKeeps ==
  ASSUME TalkInv, NEW r \in Talk!Requests,
         NEW o \in Orders(r), Talk!Arrive(r, o)
  PROVE  TalkInv'
<1> DEFINE to == IF o.kind = "quick" THEN "command" ELSE "owned"
           T == {q \in Talk!Requests : order[q].kind # "list" /\ code[q] = 201}
<1>1. o \in Talk!Order /\ at[r] = "idle" /\ code[r] = 0 /\ to \in {"command", "owned"}
  BY OrderFacts DEF TalkInv, TalkTypes, TalkFlow, Talk!Arrive, Talk!Goes
<1>2. T \subseteq Talk!Requests /\ \A q \in T : Stored(q)
  BY DEF TalkInv, TalkFlow
<1>3. /\ at' = [at EXCEPT ![r] = to] /\ order' = [order EXCEPT ![r] = o]
      /\ told' = [told EXCEPT ![r] = T]
      /\ UNCHANGED <<code, owner, messages, heard, commands, jobs, history>>
  BY DEF Talk!Arrive, Talk!Goes, Talk!talk, Talk!orders
<1> HIDE DEF to, T
<1>4. TalkTypes'
  BY <1>1, <1>2, <1>3 DEF TalkInv, TalkTypes
<1>5. r \notin commands /\ r \notin jobs /\ ~ Stored(r) /\ ~ Heard(r)
  BY <1>1 DEF TalkInv, TalkFlow
<1>6. /\ at'[r] = to /\ order'[r] = o /\ told'[r] = T
      /\ \A q \in Talk!Requests : q # r =>
           at'[q] = at[q] /\ order'[q] = order[q] /\ told'[q] = told[q]
  BY <1>3 DEF TalkInv, TalkTypes
<1>7. TalkFlow'
  <2>1. \A q \in Talk!Requests : q # r => (Talk!Acts(q)' <=> Talk!Acts(q))
    BY <1>3, <1>6 DEF Talk!Acts
  <2>2. \A q : (Stored(q)' <=> Stored(q)) /\ (Heard(q)' <=> Heard(q))
    BY <1>3 DEF Stored, Heard
  <2>3. QED
    BY <1>1, <1>2, <1>3, <1>5, <1>6, <2>1, <2>2 DEF TalkInv, TalkFlow
<1>8. TalkOnce'
  BY <1>3 DEF TalkInv, TalkOnce
<1>9. TalkHistory'
  BY <1>1, <1>3, <1>6 DEF TalkInv, TalkTypes, TalkFlow, TalkHistory, Stored
<1>10. QED
  BY <1>4, <1>7, <1>8, <1>9 DEF TalkInv

\* Every step of the chat keeps its invariant.
LEMMA ChatKeeps == TalkInv /\ Talk!Next => TalkInv'
<1> SUFFICES ASSUME TalkInv, Talk!Next PROVE TalkInv'
  OBVIOUS
<1>1. ASSUME NEW r \in Talk!Requests, NEW o \in Orders(r), Talk!Arrive(r, o) PROVE TalkInv'
  BY <1>1, ArriveChatKeeps
<1>2. ASSUME NEW r \in Talk!Requests,
             \/ Talk!FindCommand(r) \/ Talk!FindDevice(r) \/ Talk!FindOwned(r)
             \/ Talk!InsertMessage(r) \/ Talk!Broadcast(r) \/ Talk!RecordCommand(r)
             \/ Talk!EnqueueCommand(r) \/ Talk!List(r) \/ Talk!Fail(r)
      PROVE  TalkInv'
  BY <1>2, FindCommandKeeps, FindDeviceKeeps, FindOwnedKeeps, InsertMessageKeeps, BroadcastKeeps,
     RecordCommandKeeps, EnqueueCommandKeeps, ListKeeps, FailKeeps
<1>3. ASSUME NEW u \in Users, Talk!Pair(u) PROVE TalkInv'
  <2>1. owner' \in Users /\ UNCHANGED <<at, order, code, messages, heard, commands, jobs, history, told>>
    BY <1>3 DEF Talk!Pair, Talk!talk, Talk!orders
  <2>2. TalkTypes'
    BY <2>1 DEF TalkInv, TalkTypes
  <2>3. TalkFlow' /\ TalkOnce' /\ TalkHistory'
    BY <2>1 DEF TalkInv, TalkFlow, TalkOnce, TalkHistory, Stored, Heard, Talk!Acts
  <2>4. QED
    BY <2>2, <2>3 DEF TalkInv
<1>4. QED
  BY <1>1, <1>2, <1>3 DEF Talk!Next

\* There are none at first.
LEMMA NoMessages == DOMAIN <<>> = {}
  OBVIOUS

\* It holds at the start.
LEMMA ChatStarts == Talk!Init => TalkInv
<1> SUFFICES ASSUME Talk!Init PROVE TalkInv
  OBVIOUS
<1>1. messages = <<>> /\ heard = <<>> /\ DOMAIN messages = {} /\ DOMAIN heard = {}
  BY NoMessages DEF Talk!Init
<1>2. TalkTypes
  BY <1>1 DEF Talk!Init, TalkTypes
<1>3. TalkFlow /\ TalkOnce /\ TalkHistory
  BY <1>1 DEF Talk!Init, TalkFlow, TalkOnce, TalkHistory, Stored, Heard
<1>4. QED
  BY <1>2, <1>3 DEF TalkInv

\* An instance counts as everybody does.
LEMMA SameCount == \A S : Talk!Cardinality(S) = Cardinality(S)
BY DEF Talk!Cardinality, Cardinality

\* The invariant says what the property does of a single state.
LEMMA ChatSound == TalkInv => Talk!CommandFollowsMessage
<1> SUFFICES ASSUME TalkInv PROVE Talk!CommandFollowsMessage
  OBVIOUS
<1> SUFFICES ASSUME NEW r \in Talk!Requests
             PROVE  Talk!CommandFollowsMessage!(r)
  BY DEF Talk!CommandFollowsMessage
<1>1. /\ Stored(r) <=> r \in Talk!Range(messages)
      /\ Heard(r) <=> r \in Talk!Range(heard)
  BY DEF Stored, Heard, Talk!Range
<1>2. /\ r \in commands \cup jobs => Talk!Acts(r) /\ Heard(r)
      /\ code[r] = 201 => Stored(r) /\ Heard(r) /\ (Talk!Acts(r) => r \in commands \cap jobs)
      /\ code[r] = 404 => ~ Stored(r) /\ r \notin commands
  BY DEF TalkInv, TalkTypes, TalkFlow
<1>3. ASSUME code[r] = 200, NEW q \in told[r], q \notin history[r]
      PROVE  Cardinality({p \in history[r] : Talk!Said(p) > Talk!Said(q)}) = order[r].limit
  <2>1. /\ Stored(q) /\ \A p \in history[r] : Stored(p)
        /\ Cardinality(history[r]) = order[r].limit
        /\ \A i, j \in DOMAIN messages : messages[i] = q /\ messages[j] \in history[r] => i < j
    BY <1>3 DEF TalkInv, TalkFlow, TalkHistory
  <2>2. \A p : Stored(p) => Talk!Said(p) \in DOMAIN messages /\ messages[Talk!Said(p)] = p
    BY DEF Stored, Talk!Said
  <2>3. \A p \in history[r] : Talk!Said(q) < Talk!Said(p)
    BY <2>1, <2>2
  <2>4. \A i \in DOMAIN messages : i \in Nat
    BY LenProperties DEF TalkInv, TalkTypes
  <2>5. \A p \in history[r] : Talk!Said(p) > Talk!Said(q)
    BY <2>1, <2>2, <2>3, <2>4
  <2>6. {p \in history[r] : Talk!Said(p) > Talk!Said(q)} = history[r]
    BY <2>5
  <2>7. QED
    BY <2>1, <2>6
<1>4. QED
  BY <1>1, <1>2, <1>3, SameCount

\* What holds of the behaviours that are about the chat.
InChat == area = "chat" => TalkInv

\* No other step changes what it is about, so it holds always.
LEMMA ChatStays ==
  /\ AppInit => InChat
  /\ InChat /\ [AppNext]_vars => InChat'
<1>1. AppInit => InChat
  BY ChatStarts DEF AppInit, InChat
<1>2. InChat /\ [AppNext]_vars => InChat'
  <2>1. ASSUME InChat, AppNext PROVE InChat'
    <3>1. CASE area = "chat"
      BY <2>1, <3>1, ChatKeeps DEF AppNext, InChat
    <3>2. CASE area # "chat"
      BY <2>1, <3>2 DEF AppNext, InChat
    <3>3. QED
      BY <3>1, <3>2
  <2>2. ASSUME InChat, UNCHANGED vars PROVE InChat'
    <3>1. UNCHANGED <<area, at, order, code, owner, messages, heard, commands, jobs, history, told>>
      BY <2>2 DEF vars, progress, talk
    <3>2. QED
      BY <2>2, <3>1 DEF InChat, TalkInv, TalkTypes, TalkFlow, TalkOnce, TalkHistory, Stored, Heard, Talk!Acts
  <2>3. QED
    BY <2>1, <2>2
<1>3. QED
  BY <1>1, <1>2

\* A device is told to act only after everybody in its room has heard who asked for
\* it, an answered quick command was said and queued, a refused request said nothing,
\* and the history has what was said before unless it is full of what was said later.
THEOREM CommandsFollowMessages == AppSpec => []CommandFollowsMessage
<1>1. InChat => CommandFollowsMessage
  BY ChatSound DEF InChat, CommandFollowsMessage
<1>2. QED
  BY <1>1, ChatStays, PTL DEF AppSpec

-----------------------------------------------------------------------------
(* Accounts.                                                               *)

HasId(i) == \E u \in users : u.id = i

\* Who is named i may be let in by request r.
Opened(r, i) ==
  /\ HasId(i)
  /\ \A u \in users : i = u.id =>
       IF call[r].kind = "refresh"
       THEN Acct!Held(r, "refresh", u.id)
       ELSE u.email = call[r].email /\ u.password = call[r].password

\* The values of the variables.
AcctTypes ==
  /\ at \in [Acct!Requests -> {"idle", "register", "insert", "login", "refresh", "sign",
                               "rename", "save", "done"}]
  /\ code \in [Acct!Requests -> {0, 200, 201, 401, 409, 500}]
  /\ user \in [Acct!Requests -> 0 .. NumRequests]
  /\ names \in [Acct!Requests -> 0 .. NumRequests]
  /\ DOMAIN call = Acct!Requests /\ DOMAIN known = Acct!Requests /\ DOMAIN tokens = Acct!Requests
  /\ since \in [Acct!Requests -> Nat] /\ now \in Nat /\ config \in Configs
  /\ \A r \in Acct!Requests : since[r] <= now

\* A user is as the request said that registered it, and nobody shares its address.
AcctUsers ==
  /\ \A u \in users :
       /\ u.id \in Acct!Requests
       /\ at[u.id] \in {"sign", "done"}
       /\ u.email = call[u.id].email /\ u.password = call[u.id].password
  /\ \A u, v \in users : u.email = v.email => u = v

\* What a request was let in with, from where it is.
AcctFlow ==
  \A r \in Acct!Requests :
    /\ code[r] # 0 => at[r] = "done"
    /\ at[r] \in {"register", "insert"} => call[r].kind = "register"
    /\ at[r] = "login" => call[r].kind = "login"
    /\ at[r] = "refresh" => call[r].kind = "refresh"
    /\ at[r] \in {"rename", "save"} => call[r].kind = "rename"
    /\ at[r] = "sign" => /\ Opened(r, user[r])
                         /\ call[r].kind = "register" => user[r] = r
    /\ at[r] # "idle" /\ call[r].kind \in {"refresh", "rename"} =>
         HasId(call[r].token.sub) /\ call[r].token.until \in Int
    /\ at[r] = "save" => HasId(user[r]) /\ Acct!Held(r, "access", user[r])
    /\ tokens[r] # {} => at[r] = "done"
    /\ \A t \in tokens[r] : Opened(r, t.sub) /\ t.until \in Int
    /\ code[r] = 201 => HasId(r)
    /\ known[r] \subseteq users
    /\ code[r] = 401 /\ call[r].kind = "login" =>
         ~ \E u \in known[r] : u.email = call[r].email /\ u.password = call[r].password

\* A name was given by the request that registered the user, or by one that had
\* a token of the user.
AcctNames ==
  \A i \in Acct!Requests :
    /\ names[i] # 0 => at[names[i]] # "idle"
    /\ names[i] # 0 /\ names[i] # i => Acct!Held(names[i], "access", i)

AcctInv == AcctTypes /\ AcctUsers /\ AcctFlow /\ AcctNames

\* Users of one id are one.
LEMMA OneId == AcctUsers => \A u, v \in users : u.id = v.id => u = v
BY DEF AcctUsers

\* A login is denied only to who does not know the password.
Denied(r, status) ==
  status = 401 /\ call[r].kind = "login" =>
    ~ \E u \in known[r] : u.email = call[r].email /\ u.password = call[r].password

\* A request ends with no tokens, and changes nothing else.
Ends(r, status) ==
  /\ at' = [at EXCEPT ![r] = "done"] /\ code' = [code EXCEPT ![r] = status]
  /\ UNCHANGED <<call, known, since, user, users, names, tokens, config, now>>

\* An answer without tokens leaves what is stored.
LEMMA RefusalKeeps ==
  ASSUME AcctInv, NEW r \in Acct!Requests, NEW status \in {200, 401, 409, 500},
         at[r] # "idle", Denied(r, status), Ends(r, status)
  PROVE  AcctInv'
<1> USE DEF Ends
<1>1. AcctTypes'
  BY DEF AcctInv, AcctTypes
<1>2. AcctUsers'
  BY DEF AcctInv, AcctTypes, AcctUsers
<1>3. /\ \A i : HasId(i)' <=> HasId(i)
      /\ \A q, kind, i : Acct!Held(q, kind, i)' <=> Acct!Held(q, kind, i)
      /\ \A q \in Acct!Requests : \A i : Opened(q, i)' <=> Opened(q, i)
  BY DEF HasId, Opened, Acct!Held
<1>4. AcctFlow'
  BY <1>3 DEF AcctInv, AcctTypes, AcctFlow, Denied
<1>5. AcctNames'
  BY <1>3 DEF AcctInv, AcctTypes, AcctNames
<1>6. QED
  BY <1>1, <1>2, <1>4, <1>5 DEF AcctInv

\* A request goes on as somebody, and changes nothing else.
GoesOnAs(r, to, i) ==
  /\ at' = [at EXCEPT ![r] = to] /\ user' = [user EXCEPT ![r] = i]
  /\ UNCHANGED <<call, code, known, since, users, names, tokens, config, now>>

\* A request goes on as somebody whom it may be.
LEMMA AdmissionKeeps ==
  ASSUME AcctInv, NEW r \in Acct!Requests, NEW i,
         NEW to \in {"insert", "sign", "save"}, at[r] \in {"register", "login", "refresh", "rename"},
         GoesOnAs(r, to, i),
         \/ to = "insert" /\ i = user[r] /\ call[r].kind = "register"
         \/ to = "sign" /\ Opened(r, i) /\ call[r].kind # "register"
         \/ to = "save" /\ HasId(i) /\ call[r].kind = "rename" /\ Acct!Held(r, "access", i),
         at[r] = "register" => to = "insert"
  PROVE  AcctInv'
<1> USE DEF GoesOnAs
<1>1. i \in 0 .. NumRequests
  <2>1. CASE HasId(i)
    BY <2>1, RequestsAssumption DEF AcctInv, AcctUsers, HasId, Acct!Requests
  <2>2. CASE i = user[r]
    BY <2>2 DEF AcctInv, AcctTypes
  <2>3. QED
    BY <2>1, <2>2 DEF Opened
<1>2. AcctTypes'
  BY <1>1 DEF AcctInv, AcctTypes
<1>3. AcctUsers'
  BY DEF AcctInv, AcctTypes, AcctUsers
<1>4. /\ \A j : HasId(j)' <=> HasId(j)
      /\ \A q, kind, j : Acct!Held(q, kind, j)' <=> Acct!Held(q, kind, j)
      /\ \A q \in Acct!Requests : \A j : Opened(q, j)' <=> Opened(q, j)
  BY DEF HasId, Opened, Acct!Held
<1>5. AcctFlow'
  BY <1>4 DEF AcctInv, AcctTypes, AcctFlow
<1>6. AcctNames'
  BY <1>4 DEF AcctInv, AcctTypes, AcctNames
<1>7. QED
  BY <1>2, <1>3, <1>5, <1>6 DEF AcctInv

\* An address that has an account is refused.
LEMMA FindNoneKeeps ==
  ASSUME AcctInv, NEW r \in Acct!Requests, Acct!FindNone(r)
  PROVE  AcctInv'
<1>1. at[r] = "register" /\ call[r].kind = "register" /\ user = [user EXCEPT ![r] = user[r]]
  BY DEF AcctInv, AcctTypes, AcctFlow, Acct!FindNone
<1>2. Ends(r, 409) \/ GoesOnAs(r, "insert", user[r])
  BY <1>1 DEF Acct!FindNone, Acct!Goes, Acct!Answers, Ends, GoesOnAs
<1>3. Denied(r, 409)
  BY DEF Denied
<1>4. CASE Ends(r, 409)
  BY <1>1, <1>3, <1>4, RefusalKeeps
<1>5. CASE GoesOnAs(r, "insert", user[r])
  BY <1>1, <1>5, AdmissionKeeps
<1>6. QED
  BY <1>2, <1>4, <1>5

\* The password of an account is asked for.
LEMMA LoginKeeps ==
  ASSUME AcctInv, NEW r \in Acct!Requests, Acct!Login(r)
  PROVE  AcctInv'
<1>1. at[r] = "login" /\ call[r].kind = "login" /\ known[r] \subseteq users
  BY DEF AcctInv, AcctFlow, Acct!Login
<1>2. CASE Acct!Answers(r, "login", 401)
  <2>1. /\ Ends(r, 401)
        /\ ~ \E u \in users : u.email = call[r].email /\ u.password = call[r].password
    BY <1>1, <1>2 DEF Acct!Login, Acct!Goes, Acct!Answers, Acct!Match, AcctInv, AcctTypes, Ends
  <2>2. Denied(r, 401)
    BY <1>1, <2>1 DEF Denied
  <2>3. QED
    BY <1>1, <2>1, <2>2, RefusalKeeps
<1>3. CASE ~ Acct!Answers(r, "login", 401)
  <2>1. PICK u \in users : Acct!Match(r, u) /\ user' = [user EXCEPT ![r] = u.id]
    BY <1>3 DEF Acct!Login
  <2>2. GoesOnAs(r, "sign", u.id)
    BY <1>3, <2>1 DEF Acct!Login, Acct!Goes, GoesOnAs
  <2>3. Opened(r, u.id)
    BY <1>1, <2>1, OneId DEF AcctInv, Opened, HasId, Acct!Match
  <2>4. QED
    BY <1>1, <2>2, <2>3, AdmissionKeeps
<1>4. QED
  BY <1>2, <1>3

\* A token that has not run out had not when the request came with it.
LEMMA VerifiedIsHeld ==
  ASSUME AcctInv, NEW r \in Acct!Requests, at[r] # "idle", call[r].kind \in {"refresh", "rename"},
         NEW kind, Acct!Verified(call[r].token, kind)
  PROVE  Acct!Held(r, kind, call[r].token.sub)
<1>1. call[r].token.until \in Int /\ since[r] \in Nat /\ now \in Nat /\ since[r] <= now
  BY DEF AcctInv, AcctTypes, AcctFlow
<1>2. call[r].token.kind = kind /\ now < call[r].token.until
  BY DEF Acct!Verified
<1>3. QED
  BY <1>1, <1>2 DEF Acct!Held

\* A refresh token lets in whom it was made for.
LEMMA RefreshKeeps ==
  ASSUME AcctInv, NEW r \in Acct!Requests, Acct!Refresh(r)
  PROVE  AcctInv'
<1> DEFINE i == call[r].token.sub
<1>1. at[r] = "refresh" /\ call[r].kind = "refresh" /\ HasId(i)
  BY DEF AcctInv, AcctFlow, Acct!Refresh
<1>2. \/ Acct!Verified(call[r].token, "refresh") /\ GoesOnAs(r, "sign", i)
      \/ Ends(r, 500)
  BY DEF Acct!Refresh, Acct!Goes, Acct!Answers, GoesOnAs, Ends
<1>3. Acct!Verified(call[r].token, "refresh") => Opened(r, i)
  BY <1>1, VerifiedIsHeld DEF Opened
<1>4. Denied(r, 500)
  BY DEF Denied
<1> HIDE DEF i
<1>5. CASE Acct!Verified(call[r].token, "refresh") /\ GoesOnAs(r, "sign", i)
  BY <1>1, <1>3, <1>5, AdmissionKeeps
<1>6. CASE Ends(r, 500)
  BY <1>1, <1>4, <1>6, RefusalKeeps
<1>7. QED
  BY <1>2, <1>5, <1>6

\* So does an access token.
LEMMA AuthenticateKeeps ==
  ASSUME AcctInv, NEW r \in Acct!Requests, Acct!Authenticate(r)
  PROVE  AcctInv'
<1> DEFINE i == call[r].token.sub
<1>1. at[r] = "rename" /\ call[r].kind = "rename" /\ HasId(i)
  BY DEF AcctInv, AcctFlow, Acct!Authenticate
<1>2. \/ Acct!Verified(call[r].token, "access") /\ GoesOnAs(r, "save", i)
      \/ Ends(r, 401)
  BY DEF Acct!Authenticate, Acct!Goes, Acct!Answers, GoesOnAs, Ends
<1>3. Acct!Verified(call[r].token, "access") => Acct!Held(r, "access", i)
  BY <1>1, VerifiedIsHeld
<1>4. Denied(r, 401)
  BY <1>1 DEF Denied
<1> HIDE DEF i
<1>5. CASE Acct!Verified(call[r].token, "access") /\ GoesOnAs(r, "save", i)
  BY <1>1, <1>3, <1>5, AdmissionKeeps
<1>6. CASE Ends(r, 401)
  BY <1>1, <1>4, <1>6, RefusalKeeps
<1>7. QED
  BY <1>2, <1>5, <1>6

\* Of two requests for one address only one stores a user.
LEMMA InsertUserKeeps ==
  ASSUME AcctInv, NEW r \in Acct!Requests, Acct!Insert(r)
  PROVE  AcctInv'
<1> DEFINE new == [id |-> r, email |-> call[r].email, password |-> call[r].password]
<1>1. at[r] = "insert" /\ call[r].kind = "register"
  BY DEF AcctInv, AcctFlow, Acct!Insert
<1>2. CASE Acct!Of(call[r].email) # {}
  <2>1. Ends(r, 500)
    BY <1>2 DEF Acct!Insert, Acct!Goes, Acct!Answers, Ends
  <2>2. Denied(r, 500)
    BY DEF Denied
  <2>3. QED
    BY <1>1, <2>1, <2>2, RefusalKeeps
<1>3. CASE Acct!Of(call[r].email) = {}
  <2>1. /\ at' = [at EXCEPT ![r] = "sign"] /\ users' = users \cup {new}
        /\ user' = [user EXCEPT ![r] = r] /\ names' = [names EXCEPT ![r] = r]
        /\ UNCHANGED <<call, code, known, since, tokens, config, now>>
    BY <1>3 DEF Acct!Insert, Acct!Goes
  <2>2. new.id = r /\ new.email = call[r].email /\ new.password = call[r].password
    OBVIOUS
  <2>3. \A u \in users : u.email # call[r].email /\ u.id # r
    BY <1>1, <1>3 DEF AcctInv, AcctUsers, Acct!Of
  <2> HIDE DEF new
  <2>4. AcctTypes'
    BY <2>1, RequestsAssumption DEF AcctInv, AcctTypes, Acct!Requests
  <2>5. AcctUsers'
    BY <1>1, <2>1, <2>2, <2>3 DEF AcctInv, AcctTypes, AcctUsers
  <2>6. /\ \A i : HasId(i) => HasId(i)'
        /\ \A q \in Acct!Requests : \A i : Opened(q, i) => Opened(q, i)'
        /\ HasId(r)' /\ Opened(r, r)'
        /\ \A q, kind, i : Acct!Held(q, kind, i)' <=> Acct!Held(q, kind, i)
    <3>1. HasId(r)' /\ \A i : HasId(i) => HasId(i)' /\ i # r
      BY <2>1, <2>2, <2>3 DEF HasId
    <3>2. \A q, kind, i : Acct!Held(q, kind, i)' <=> Acct!Held(q, kind, i)
      BY <2>1 DEF Acct!Held
    <3>3. \A q \in Acct!Requests : \A i : Opened(q, i) => Opened(q, i)'
      BY <2>1, <2>2, <3>1, <3>2 DEF Opened
    <3>4. Opened(r, r)'
      BY <1>1, <2>1, <2>2, <2>3, <3>1 DEF Opened
    <3>5. QED
      BY <3>1, <3>2, <3>3, <3>4
  <2>7. AcctFlow'
    <3>1. at'[r] = "sign" /\ user'[r] = r /\ code[r] = 0 /\ tokens[r] = {}
      BY <1>1, <2>1 DEF AcctInv, AcctTypes, AcctFlow
    <3>2. \A q \in Acct!Requests : q # r => at'[q] = at[q] /\ user'[q] = user[q]
      BY <2>1 DEF AcctInv, AcctTypes
    <3>3. QED
      BY <1>1, <2>1, <2>6, <3>1, <3>2 DEF AcctInv, AcctFlow
  <2>8. AcctNames'
    BY <1>1, <2>1, <2>6 DEF AcctInv, AcctTypes, AcctNames
  <2>9. QED
    BY <2>4, <2>5, <2>7, <2>8 DEF AcctInv
<1>4. QED
  BY <1>2, <1>3

\* A lifetime is a number of seconds, or none.
LEMMA LifetimeFacts ==
  ASSUME config \in Configs, NEW kind \in {"access", "refresh"}
  PROVE  Acct!Lifetime(kind) \in Int \cup {NaN}
<1>1. config[kind].number \in Int \cup {NaN}
  BY ConfigsAssumption
<1>2. \A unit \in DOMAIN Acct!Seconds : Acct!Seconds[unit] \in Int
  BY DEF Acct!Seconds
<1>3. QED
  BY <1>1, <1>2 DEF Acct!Lifetime, Acct!ParseExpiration

\* Tokens are made for whom the request was let in as.
LEMMA SignKeeps ==
  ASSUME AcctInv, NEW r \in Acct!Requests, Acct!Sign(r)
  PROVE  AcctInv'
<1> DEFINE token(kind) == [sub |-> user[r], kind |-> kind, until |-> now + Acct!Lifetime(kind)]
           made == {token("access"), token("refresh")}
           status == IF call[r].kind = "register" THEN 201 ELSE 200
<1>1. at[r] = "sign" /\ Opened(r, user[r]) /\ (call[r].kind = "register" => user[r] = r)
  BY DEF AcctInv, AcctFlow, Acct!Sign
<1>2. CASE NaN \in {Acct!Lifetime("access"), Acct!Lifetime("refresh")}
  <2>1. Ends(r, 500)
    BY <1>2 DEF Acct!Sign, Acct!Goes, Acct!Answers, Ends
  <2>2. Denied(r, 500)
    BY DEF Denied
  <2>3. QED
    BY <1>1, <2>1, <2>2, RefusalKeeps
<1>3. CASE NaN \notin {Acct!Lifetime("access"), Acct!Lifetime("refresh")}
  <2>1. /\ at' = [at EXCEPT ![r] = "done"] /\ code' = [code EXCEPT ![r] = status]
        /\ tokens' = [tokens EXCEPT ![r] = made]
        /\ UNCHANGED <<call, known, since, user, users, names, config, now>>
    BY <1>3 DEF Acct!Sign, Acct!Goes, Acct!Answers
  <2>2. \A t \in made : t.sub = user[r] /\ t.until \in Int
    BY <1>3, LifetimeFacts DEF AcctInv, AcctTypes
  <2>3. status \in {200, 201} /\ (status = 201 => call[r].kind = "register")
    OBVIOUS
  <2> HIDE DEF made, status
  <2>4. AcctTypes'
    BY <2>1, <2>3 DEF AcctInv, AcctTypes
  <2>5. AcctUsers'
    BY <2>1 DEF AcctInv, AcctTypes, AcctUsers
  <2>6. /\ \A i : HasId(i)' <=> HasId(i)
        /\ \A q, kind, i : Acct!Held(q, kind, i)' <=> Acct!Held(q, kind, i)
        /\ \A q \in Acct!Requests : \A i : Opened(q, i)' <=> Opened(q, i)
    BY <2>1 DEF HasId, Opened, Acct!Held
  <2>7. AcctFlow'
    <3>1. at'[r] = "done" /\ tokens'[r] = made /\ code'[r] = status
      BY <2>1 DEF AcctInv, AcctTypes
    <3>2. \A q \in Acct!Requests : q # r =>
            at'[q] = at[q] /\ tokens'[q] = tokens[q] /\ code'[q] = code[q]
      BY <2>1 DEF AcctInv, AcctTypes
    <3>3. (status = 201 => HasId(r)) /\ \A t \in made : Opened(r, t.sub) /\ t.until \in Int
      BY <1>1, <2>2, <2>3 DEF Opened
    <3>4. QED
      BY <1>1, <2>1, <2>3, <2>6, <3>1, <3>2, <3>3 DEF AcctInv, AcctFlow
  <2>8. AcctNames'
    BY <2>1, <2>6 DEF AcctInv, AcctTypes, AcctNames
  <2>9. QED
    BY <2>4, <2>5, <2>7, <2>8 DEF AcctInv
<1>4. QED
  BY <1>2, <1>3

\* A name is given by who has the user's token.
LEMMA UpdateProfileKeeps ==
  ASSUME AcctInv, NEW r \in Acct!Requests, Acct!UpdateProfile(r)
  PROVE  AcctInv'
<1>1. /\ at[r] = "save" /\ call[r].kind = "rename" /\ Acct!Held(r, "access", user[r])
      /\ user[r] \in 0 .. NumRequests
  BY DEF AcctInv, AcctTypes, AcctFlow, Acct!UpdateProfile, Acct!Goes, Acct!Answers
<1>2. /\ at' = [at EXCEPT ![r] = "done"] /\ code' = [code EXCEPT ![r] = 200]
      /\ names' = [names EXCEPT ![user[r]] = r]
      /\ UNCHANGED <<call, known, since, user, users, tokens, config, now>>
  BY DEF Acct!UpdateProfile, Acct!Goes, Acct!Answers
<1>3. AcctTypes'
  <2>1. r \in 0 .. NumRequests
    BY RequestsAssumption DEF Acct!Requests
  <2>2. names' \in [Acct!Requests -> 0 .. NumRequests]
    BY <1>2, <2>1 DEF AcctInv, AcctTypes
  <2>3. QED
    BY <1>2, <2>2 DEF AcctInv, AcctTypes
<1>4. AcctUsers'
  BY <1>2 DEF AcctInv, AcctTypes, AcctUsers
<1>5. /\ \A i : HasId(i)' <=> HasId(i)
      /\ \A q, kind, i : Acct!Held(q, kind, i)' <=> Acct!Held(q, kind, i)
      /\ \A q \in Acct!Requests : \A i : Opened(q, i)' <=> Opened(q, i)
  BY <1>2 DEF HasId, Opened, Acct!Held
<1>6. AcctFlow'
  BY <1>1, <1>2, <1>5 DEF AcctInv, AcctTypes, AcctFlow
<1>7. AcctNames'
  BY <1>1, <1>2, <1>5 DEF AcctInv, AcctTypes, AcctNames
<1>8. QED
  BY <1>3, <1>4, <1>6, <1>7 DEF AcctInv

\* A request that arrives has a token only if it was sent in an answer.
LEMMA ArriveCallKeeps ==
  ASSUME AcctInv, NEW r \in Acct!Requests, NEW c \in Calls(r), Acct!Arrive(r, c)
  PROVE  AcctInv'
<1>1. /\ at[r] = "idle" /\ at' = [at EXCEPT ![r] = c.kind]
      /\ known' = [known EXCEPT ![r] = users]
      /\ since' = [since EXCEPT ![r] = now]
      /\ UNCHANGED <<code, user, users, names, tokens, config, now>>
  BY DEF Acct!Arrive
<1>2. PICK a : /\ call' = [call EXCEPT ![r] = a] /\ a.kind = c.kind
               /\ c.kind \in {"register", "login", "refresh", "rename"}
               /\ a.kind \in {"refresh", "rename"} => HasId(a.token.sub) /\ a.token.until \in Int
  <2>1. CASE c.kind \in {"register", "login"} /\ call' = [call EXCEPT ![r] = c]
    BY <2>1
  <2>2. CASE \E t \in Acct!Issued : /\ c.kind \in {"refresh", "rename"}
                                    /\ call' = [call EXCEPT ![r] = [kind |-> c.kind, token |-> t]]
    <3>1. PICK t \in Acct!Issued : /\ c.kind \in {"refresh", "rename"}
                                   /\ call' = [call EXCEPT ![r] = [kind |-> c.kind, token |-> t]]
      BY <2>2
    <3>2. HasId(t.sub) /\ t.until \in Int
      BY DEF AcctInv, AcctFlow, Opened, Acct!Issued
    <3> DEFINE a == [kind |-> c.kind, token |-> t]
    <3>3. a.kind = c.kind /\ a.token = t
      OBVIOUS
    <3> HIDE DEF a
    <3>4. call' = [call EXCEPT ![r] = a]
      BY <3>1 DEF a
    <3>5. QED
      BY <3>1, <3>2, <3>3, <3>4
  <2>3. QED
    BY <2>1, <2>2 DEF Acct!Arrive
<1>3. /\ \A q \in Acct!Requests : q # r => at'[q] = at[q] /\ call'[q] = call[q] /\ known'[q] = known[q]
                                        /\ since'[q] = since[q]
      /\ at'[r] = c.kind /\ call'[r] = a /\ known'[r] = users /\ code[r] = 0 /\ tokens[r] = {}
  BY <1>1, <1>2 DEF AcctInv, AcctTypes, AcctFlow
<1>4. AcctTypes'
  BY <1>1, <1>2 DEF AcctInv, AcctTypes
<1>5. AcctUsers'
  BY <1>1, <1>3 DEF AcctInv, AcctUsers
<1>6. /\ \A i : HasId(i)' <=> HasId(i)
      /\ \A q \in Acct!Requests : q # r =>
           /\ \A kind, i : Acct!Held(q, kind, i)' <=> Acct!Held(q, kind, i)
           /\ \A i : Opened(q, i)' <=> Opened(q, i)
  BY <1>1, <1>3 DEF HasId, Opened, Acct!Held
<1>7. AcctFlow'
  BY <1>1, <1>2, <1>3, <1>6 DEF AcctInv, AcctFlow
<1>8. AcctNames'
  <2>1. ASSUME NEW i \in Acct!Requests, names[i] # 0
        PROVE  names[i] \in Acct!Requests /\ names[i] # r
    <3>1. names[i] \in 0 .. NumRequests
      BY DEF AcctInv, AcctTypes
    <3>2. names[i] \in Acct!Requests
      BY <2>1, <3>1, RequestsAssumption DEF Acct!Requests
    <3>3. at[names[i]] # "idle"
      BY <2>1 DEF AcctInv, AcctNames
    <3>4. QED
      BY <1>1, <3>2, <3>3
  <2>2. ASSUME NEW i \in Acct!Requests, NEW n, n = names[i], n # 0
        PROVE  at'[n] # "idle" /\ (n # i => Acct!Held(n, "access", i)')
    <3>1. at[n] # "idle" /\ (n # i => Acct!Held(n, "access", i))
      BY <2>2 DEF AcctInv, AcctNames
    <3>2. n \in Acct!Requests /\ n # r
      BY <2>1, <2>2
    <3>3. QED
      BY <1>3, <1>6, <3>1, <3>2
  <2>3. names' = names
    BY <1>1
  <2>4. QED
    BY <2>2, <2>3 DEF AcctNames
<1>9. QED
  BY <1>4, <1>5, <1>7, <1>8 DEF AcctInv

\* Every step about accounts keeps their invariant.
LEMMA AccountsKeep == AcctInv /\ Acct!Next => AcctInv'
<1> SUFFICES ASSUME AcctInv, Acct!Next PROVE AcctInv'
  OBVIOUS
<1>1. ASSUME NEW r \in Acct!Requests, NEW c \in Calls(r), Acct!Arrive(r, c) PROVE AcctInv'
  BY <1>1, ArriveCallKeeps
<1>2. ASSUME NEW r \in Acct!Requests,
             \/ Acct!FindNone(r) \/ Acct!Insert(r) \/ Acct!Login(r) \/ Acct!Refresh(r)
             \/ Acct!Sign(r) \/ Acct!Authenticate(r) \/ Acct!UpdateProfile(r)
      PROVE  AcctInv'
  BY <1>2, FindNoneKeeps, InsertUserKeeps, LoginKeeps, RefreshKeeps, SignKeeps, AuthenticateKeeps,
     UpdateProfileKeeps
<1>3. ASSUME NEW r \in Acct!Requests, Acct!Fail(r) PROVE AcctInv'
  <2>1. at[r] # "idle" /\ Ends(r, 500)
    BY <1>3 DEF Acct!Fail, Acct!Goes, Acct!Answers, Ends
  <2>2. Denied(r, 500)
    BY DEF Denied
  <2>3. QED
    BY <1>3, <2>1, <2>2, RefusalKeeps
<1>4. ASSUME Acct!Tick PROVE AcctInv'
  <2>1. UNCHANGED <<at, call, code, known, since, user, users, names, tokens, config>> /\ now' = now + 1
    BY <1>4 DEF Acct!Tick, Acct!request
  <2>2. AcctTypes'
    BY <2>1 DEF AcctInv, AcctTypes
  <2>3. AcctUsers' /\ AcctFlow' /\ AcctNames'
    BY <2>1 DEF AcctInv, AcctUsers, AcctFlow, AcctNames, HasId, Opened, Acct!Held
  <2>4. QED
    BY <2>2, <2>3 DEF AcctInv
<1>5. QED
  BY <1>1, <1>2, <1>3, <1>4 DEF Acct!Next

\* It holds at the start.
LEMMA AccountsStart == Acct!Init => AcctInv
<1> SUFFICES ASSUME Acct!Init PROVE AcctInv
  OBVIOUS
<1>1. AcctTypes
  BY RequestsAssumption DEF Acct!Init, AcctTypes, Acct!Requests
<1>2. [kind |-> "none"].kind = "none"
  OBVIOUS
<1>3. AcctUsers /\ AcctFlow /\ AcctNames
  BY <1>2 DEF Acct!Init, AcctUsers, AcctFlow, AcctNames
<1>4. QED
  BY <1>1, <1>3 DEF AcctInv

\* The property follows.
LEMMA AccountsSound == AcctInv => Acct!AccountIsItsOwners
<1> SUFFICES ASSUME AcctInv PROVE Acct!AccountIsItsOwners
  OBVIOUS
<1>1. /\ \A u, v \in users : u.email = v.email => u = v
      /\ \A u \in users : u.email = call[u.id].email /\ u.password = call[u.id].password
  BY DEF AcctInv, AcctUsers
<1>2. ASSUME NEW r \in Acct!Requests, NEW t \in tokens[r], NEW u \in users, t.sub = u.id
      PROVE  IF call[r].kind = "refresh"
             THEN Acct!Held(r, "refresh", u.id)
             ELSE u.email = call[r].email /\ u.password = call[r].password
  BY <1>2 DEF AcctInv, AcctFlow, Opened
<1>3. ASSUME NEW r \in Acct!Requests
      PROVE  /\ code[r] = 201 => \E u \in users : u.id = r
             /\ code[r] = 401 /\ call[r].kind = "login" =>
                  ~\E u \in known[r] : u.email = call[r].email /\ u.password = call[r].password
             /\ names[r] # 0 /\ names[r] # r => Acct!Held(names[r], "access", r)
  BY DEF AcctInv, AcctFlow, AcctNames, HasId
<1>4. QED
  BY <1>1, <1>2, <1>3 DEF Acct!AccountIsItsOwners

\* What holds of the behaviours that are about accounts.
InAccounts == area = "accounts" => AcctInv

\* No other step changes what it is about, so it holds always.
LEMMA AccountsStay ==
  /\ AppInit => InAccounts
  /\ InAccounts /\ [AppNext]_vars => InAccounts'
<1>1. AppInit => InAccounts
  BY AccountsStart DEF AppInit, InAccounts
<1>2. InAccounts /\ [AppNext]_vars => InAccounts'
  <2>1. ASSUME InAccounts, AppNext PROVE InAccounts'
    <3>1. CASE area = "accounts"
      BY <2>1, <3>1, AccountsKeep DEF AppNext, InAccounts
    <3>2. CASE area # "accounts"
      BY <2>1, <3>2 DEF AppNext, InAccounts
    <3>3. QED
      BY <3>1, <3>2
  <2>2. ASSUME InAccounts, UNCHANGED vars PROVE InAccounts'
    <3>1. UNCHANGED <<area, at, call, code, known, since, user, users, names, tokens, config, now>>
      BY <2>2 DEF vars, progress, accounts
    <3>2. QED
      BY <2>2, <3>1 DEF InAccounts, AcctInv, AcctTypes, AcctUsers, AcctFlow, AcctNames, HasId, Opened,
           Acct!Held
  <2>3. QED
    BY <2>1, <2>2
<1>3. QED
  BY <1>1, <1>2

\* An address has one account, which only its password, or a refresh token made
\* for it, opens, which nobody who had it before and gives its password is
\* refused, and which only its access token renames.
THEOREM AccountsAreTheirOwners == AppSpec => []AccountIsItsOwners
<1>1. InAccounts => AccountIsItsOwners
  BY AccountsSound DEF InAccounts, AccountIsItsOwners
<1>2. QED
  BY <1>1, AccountsStay, PTL DEF AppSpec

-----------------------------------------------------------------------------
(* Requests that overlap.                                                  *)

\* Requests arrive in their order, and two that are in flight together have met.
Overlap ==
  /\ \A q, r \in 1 .. NumRequests : q < r /\ at[r] # "idle" => at[q] # "idle"
  /\ \A q, r \in 1 .. NumRequests :
       q < r /\ at[q] \notin {"idle", "done"} /\ at[r] # "idle" => r \in met[q] /\ q \in met[r]

\* A request that arrives meets those in flight.
LEMMA OverlapArrives ==
  ASSUME Overlap, NEW r \in 1 .. NumRequests, NEW S,
         \A q \in 1 .. NumRequests : q < r => at[q] # "idle", at[r] = "idle",
         at'[r] \notin {"idle", "done"}, \A q \in 1 .. NumRequests : q # r => at'[q] = at[q],
         S = {q \in 1 .. NumRequests : at[q] \notin {"idle", "done"}},
         met' = [q \in 1 .. NumRequests |-> IF q = r THEN S
                   ELSE IF q \in S THEN met[q] \cup {r} ELSE met[q]]
  PROVE  /\ Overlap'
         /\ \A q \in 1 .. NumRequests : q # r => met[q] \subseteq met'[q]
<1>1. /\ met'[r] = S
      /\ \A q \in 1 .. NumRequests : q # r =>
           IF q \in S THEN met'[q] = met[q] \cup {r} ELSE met'[q] = met[q]
  OBVIOUS
<1>2. \A q, s \in 1 .. NumRequests : q < s /\ at'[s] # "idle" => at'[q] # "idle"
  BY <1>1 DEF Overlap
<1>3. ASSUME NEW q \in 1 .. NumRequests, NEW s \in 1 .. NumRequests,
             q < s, at'[q] \notin {"idle", "done"}, at'[s] # "idle"
      PROVE  s \in met'[q] /\ q \in met'[s]
  <2>1. CASE s = r
    BY <1>1, <1>3, <2>1
  <2>2. CASE q = r
    BY <1>1, <1>3, <2>2, RequestsAssumption DEF Overlap
  <2>3. CASE s # r /\ q # r
    BY <1>1, <1>3, <2>3 DEF Overlap
  <2>4. QED
    BY <2>1, <2>2, <2>3
<1>4. QED
  BY <1>1, <1>2, <1>3 DEF Overlap

\* A request that goes on, or ends, meets nobody.
LEMMA OverlapKeeps ==
  ASSUME Overlap, NEW r \in 1 .. NumRequests, at[r] \notin {"idle", "done"},
         at'[r] # "idle", \A s \in 1 .. NumRequests : s # r => at'[s] = at[s], met' = met
  PROVE  Overlap'
BY DEF Overlap

\* While a request is in flight, another one has met somebody, or came before.
LEMMA InFlightMeets ==
  ASSUME Overlap, NEW r \in 1 .. NumRequests, NEW s \in 1 .. NumRequests, s # r,
         at[r] \notin {"idle", "done"}, at[s] # "idle"
  PROVE  /\ r < s \/ s < r
         /\ s < r \/ met[s] # {}
         /\ at[s] # "done" => met[s] # {} /\ met[r] # {}
<1>1. r < s \/ s < r
  BY RequestsAssumption
<1>2. QED
  BY <1>1 DEF Overlap

-----------------------------------------------------------------------------
(* The character.                                                          *)

Choices == [character : Nat, option : Options, by : Char!Requests]

\* The values of the variables.
CharTypes ==
  /\ at \in [Char!Requests -> {"idle", "options", "current", "create", "clear", "select",
                               "save", "delete", "insert", "done"}]
  /\ code \in [Char!Requests -> {0, 200, 404, 500}]
  /\ wish \in [Char!Requests -> Char!Wish \cup {[options |-> {}, makeCurrent |-> FALSE]}]
  /\ met \in [Char!Requests -> SUBSET Char!Requests]
  /\ chosen \in [Char!Requests -> SUBSET Options]
  /\ character \in [Char!Requests -> Nat]
  /\ loaded \in [Char!Requests -> SUBSET Choices]
  /\ DOMAIN selectedCharacter = Char!Requests
  /\ characters \in Seq([current : BOOLEAN, by : Char!Requests])
  /\ attributes \subseteq Choices

IsCurrent(c) == c \in DOMAIN characters /\ characters[c].current

\* The choices that are stored, or that a request may bring back.
Known == attributes \cup UNION {loaded[r] : r \in Char!Requests}

\* What a request holds, from where it is.
CharFlow ==
  /\ \A r \in Char!Requests :
       /\ code[r] # 0 => at[r] = "done"
       /\ character[r] \in 0 .. Len(characters)
       /\ at[r] \in {"clear", "select", "save", "delete", "insert"} => character[r] # 0
       /\ code[r] = 200 => character[r] # 0
       /\ loaded[r] # {} => at[r] \in {"clear", "select", "save"}
       /\ \A o, p \in chosen[r] : AttributeOf[o] = AttributeOf[p] => o = p
  /\ \A d \in DOMAIN characters : at[characters[d].by] # "idle"
  /\ \A a \in Known :
       code[a.by] = 200 /\ a.option \in chosen[a.by] /\ a.character = character[a.by]

\* Without failures somebody is about to make a character current if none is.
CharOpen ==
  characters # <<>> /\ (\A r \in Char!Requests : code[r] # 500) =>
    \/ \E c \in DOMAIN characters : IsCurrent(c)
    \/ \E r \in Char!Requests :
         at[r] = "select" \/ (at[r] = "save" /\ ~ selectedCharacter[r].current)

\* A character that a request inserted alone is the first that is current.
CharFew ==
  /\ \A r \in Char!Requests : at[r] = "create" /\ met[r] = {} =>
       \A c \in DOMAIN characters : ~ IsCurrent(c)
  /\ \A c, d \in DOMAIN characters : c < d /\ met[characters[d].by] = {} =>
       /\ ~ IsCurrent(c)
       /\ \A q \in Char!Requests : at[q] \in {"clear", "select", "save"} => character[q] # c

\* A request that comes last, of requests none of which met another, finds and
\* leaves one current character.
IsLast(r) == \A q \in Char!Requests : met[q] = {} /\ (q > r => at[q] = "idle")

LastIsWhole(r) ==
  /\ at[r] = "create" => \A c \in DOMAIN characters : ~ IsCurrent(c)
  /\ at[r] \in {"clear", "select", "save", "delete", "insert"} \/ code[r] = 200 =>
       \A c \in DOMAIN characters : IsCurrent(c) => c = character[r]
  /\ at[r] = "insert" => \A a \in attributes : a.character # character[r]
  /\ code[r] = 200 =>
       /\ \A a \in attributes : a.character = character[r] => a.option \in chosen[r]
       /\ \A o \in chosen[r] : \E a \in attributes : a.character = character[r] /\ a.option = o

CharLast == \A r \in Char!Requests : IsLast(r) => LastIsWhole(r)

\* A request that was alone leaves nothing of those before it.
CharClean ==
  \A r \in Char!Requests :
    met[r] = {} /\ (at[r] = "insert" \/ code[r] = 200) =>
      \A a \in Known : a.character = character[r] => ~ (a.by < r)

CharInv ==
  CharTypes /\ Overlap /\ CharFlow /\ CharOpen /\ CharFew /\ CharLast /\ CharClean


\* The characters are rows.
LEMMA CharRows ==
  CharTypes => /\ DOMAIN characters = 1 .. Len(characters) /\ Len(characters) \in Nat
               /\ \A d \in DOMAIN characters :
                    /\ characters[d] \in [current : BOOLEAN, by : Char!Requests]
                    /\ characters[d].by \in Char!Requests
<1> SUFFICES ASSUME CharTypes
             PROVE  /\ DOMAIN characters = 1 .. Len(characters) /\ Len(characters) \in Nat
                    /\ \A d \in DOMAIN characters :
                         /\ characters[d] \in [current : BOOLEAN, by : Char!Requests]
                         /\ characters[d].by \in Char!Requests
  OBVIOUS
<1>1. characters \in Seq([current : BOOLEAN, by : Char!Requests])
  BY DEF CharTypes
<1>2. DOMAIN characters = 1 .. Len(characters) /\ Len(characters) \in Nat
  BY <1>1, LenProperties
<1>3. \A d \in DOMAIN characters : characters[d] \in [current : BOOLEAN, by : Char!Requests]
  BY <1>1, <1>2, ElementOfSeq
<1>4. QED
  BY <1>2, <1>3

\* While a request is in flight, no other one is the last and alone.
LEMMA CharAlone ==
  ASSUME CharInv, NEW r \in Char!Requests, at[r] \notin {"idle", "done"},
         NEW s \in Char!Requests, s # r
  PROVE  /\ at[s] = "idle" \/ ~ IsLast(s)
         /\ at[s] \notin {"idle", "done"} => met[s] # {} /\ met[r] # {}
         /\ at[s] = "idle" \/ met[s] # {} \/ s < r
         /\ code[r] = 0
<1>1. Overlap /\ code[r] = 0
  BY DEF CharInv, CharTypes, CharFlow
<1>2. r < s \/ s < r
  BY RequestsAssumption DEF Char!Requests
<1>3. at[s] # "idle" => (s < r \/ met[s] # {}) /\ (at[s] # "done" => met[s] # {} /\ met[r] # {})
  BY <1>1, InFlightMeets DEF Char!Requests
<1>4. at[s] # "idle" => ~ IsLast(s)
  <2>1. CASE s < r
    <3>1. r > s
      BY <2>1, RequestsAssumption DEF Char!Requests
    <3>2. QED
      BY <3>1 DEF IsLast
  <2>2. CASE met[s] # {}
    BY <2>2 DEF IsLast
  <2>3. QED
    BY <1>3, <2>1, <2>2
<1>5. QED
  BY <1>1, <1>3, <1>4

\* So a step of it concerns nobody else who may be the last.
LEMMA LastKeeps ==
  ASSUME CharInv, NEW r \in Char!Requests, at[r] \notin {"idle", "done"},
         at'[r] # "idle", met' = met,
         \A s \in Char!Requests : s # r => at'[s] = at[s] /\ code'[s] = code[s],
         IsLast(r) => LastIsWhole(r)'
  PROVE  CharLast'
<1>1. \A s \in Char!Requests : at[s] = "idle" => code[s] = 0
  BY DEF CharInv, CharTypes, CharFlow
<1>2. \A s \in Char!Requests : IsLast(s)' => IsLast(s)
  BY <1>1 DEF IsLast
<1>3. ASSUME NEW s \in Char!Requests, s # r, IsLast(s)'
      PROVE  LastIsWhole(s)'
  <2>1. at[s] = "idle"
    BY <1>2, <1>3, CharAlone
  <2>2. at'[s] = "idle" /\ code'[s] = 0
    BY <1>1, <1>3, <2>1
  <2>3. QED
    BY <2>2 DEF LastIsWhole
<1>4. QED
  BY <1>2, <1>3 DEF CharLast

\* A step that adds no choice, and neither inserts nor ends well, leaves the others clean.
LEMMA CleanKeeps ==
  ASSUME CharInv, NEW r \in Char!Requests,
         at'[r] # "insert", code'[r] # 200, met' = met, Known' \subseteq Known,
         \A s \in Char!Requests : s # r =>
           at'[s] = at[s] /\ code'[s] = code[s] /\ character'[s] = character[s]
  PROVE  CharClean'
BY DEF CharInv, CharClean

\* A step that adds no choice leaves them as their requests made them.
LEMMA ChoicesKeep ==
  ASSUME CharInv, NEW r \in Char!Requests, at[r] # "done", Known' \subseteq Known,
         \A s \in Char!Requests : s # r =>
           code'[s] = code[s] /\ character'[s] = character[s] /\ chosen'[s] = chosen[s]
  PROVE  \A a \in Known' :
           code'[a.by] = 200 /\ a.option \in chosen'[a.by] /\ a.character = character'[a.by]
<1>1. \A a \in Known : /\ a.by \in Char!Requests
                       /\ code[a.by] = 200 /\ a.option \in chosen[a.by] /\ a.character = character[a.by]
  BY DEF CharInv, CharTypes, CharFlow, Known, Choices
<1>2. code[r] # 200
  BY DEF CharInv, CharFlow
<1>3. QED
  BY <1>1, <1>2

\* Choices are known from the requests that made them.
LEMMA KnownChoices ==
  CharInv => \A a \in Known : a.by \in Char!Requests /\ a.character = character[a.by]
BY DEF CharInv, CharTypes, CharFlow, Known, Choices

\* A request that ends without a choice leaves the characters whole.
LEMMA CharEnds ==
  ASSUME CharInv, NEW r \in Char!Requests, at[r] \notin {"idle", "done"},
         at' = [at EXCEPT ![r] = "done"],
         \/ code' = [code EXCEPT ![r] = 500]
         \/ code' = [code EXCEPT ![r] = 404] /\ at[r] = "options",
         UNCHANGED <<wish, met, chosen, character, characters, attributes>>,
         loaded' \in [Char!Requests -> SUBSET Choices], DOMAIN selectedCharacter' = Char!Requests,
         loaded'[r] = {},
         \A s \in Char!Requests : s # r =>
           loaded'[s] = loaded[s] /\ selectedCharacter'[s] = selectedCharacter[s]
  PROVE  CharInv'
<1>0. PICK status \in {404, 500} : /\ code' = [code EXCEPT ![r] = status]
                                   /\ status = 404 => at[r] = "options"
  OBVIOUS
<1>1. /\ at'[r] = "done" /\ code'[r] = status
      /\ \A s \in Char!Requests : s # r => at'[s] = at[s] /\ code'[s] = code[s]
  BY <1>0 DEF CharInv, CharTypes, CharFlow
<1>2. CharTypes'
  <2>1. loaded' \in [Char!Requests -> SUBSET Choices] /\ DOMAIN selectedCharacter' = Char!Requests
    OBVIOUS
  <2>2. at' \in [Char!Requests -> {"idle", "options", "current", "create", "clear", "select",
                                   "save", "delete", "insert", "done"}]
    BY DEF CharInv, CharTypes
  <2>3. code' \in [Char!Requests -> {0, 200, 404, 500}]
    BY <1>0 DEF CharInv, CharTypes
  <2>4. QED
    BY <2>1, <2>2, <2>3 DEF CharInv, CharTypes
<1>3. Overlap'
  BY <1>1, OverlapKeeps DEF CharInv, Char!Requests
<1>4. Known' \subseteq Known
  BY <1>1 DEF Known
<1>5. CharFlow'
  <2>1. \A a \in Known' :
          code'[a.by] = 200 /\ a.option \in chosen'[a.by] /\ a.character = character'[a.by]
    BY <1>1, <1>4, ChoicesKeep
  <2>2. \A d \in DOMAIN characters : at'[characters[d].by] # "idle"
    BY DEF CharInv, CharTypes, CharFlow
  <2>3. QED
    BY <1>1, <2>1, <2>2 DEF CharInv, CharFlow
<1>6. CharOpen'
  <2>1. CASE status = 500
    BY <1>1, <2>1 DEF CharOpen
  <2>2. CASE status = 404
    <3>1. CASE characters # <<>> /\ \A s \in Char!Requests : code'[s] # 500
      <4>1. \A s \in Char!Requests : code[s] # 500
        BY <1>1, <3>1 DEF CharInv, CharFlow
      <4>2. CASE \E c \in DOMAIN characters : IsCurrent(c)
        BY <4>2 DEF CharOpen, IsCurrent
      <4>3. CASE \E s \in Char!Requests :
                   at[s] = "select" \/ (at[s] = "save" /\ ~ selectedCharacter[s].current)
        BY <1>0, <1>1, <2>2, <4>3 DEF CharOpen
      <4>4. QED
        BY <3>1, <4>1, <4>2, <4>3 DEF CharInv, CharOpen
    <3>2. QED
      BY <3>1 DEF CharOpen
  <2>3. QED
    BY <2>1, <2>2
<1>7. CharFew'
  BY <1>1 DEF CharInv, CharFew, IsCurrent
<1>8. CharLast'
  <2>1. LastIsWhole(r)'
    BY <1>1 DEF LastIsWhole
  <2>2. QED
    BY <1>1, <2>1, LastKeeps
<1>9. CharClean'
  BY <1>1, <1>4, CleanKeeps
<1>10. QED
  BY <1>2, <1>3, <1>5, <1>6, <1>7, <1>8, <1>9 DEF CharInv


\* A request that arrives joins those in flight.
LEMMA ArriveCharKeeps ==
  ASSUME CharInv, NEW r \in Char!Requests, NEW w \in Wishes(r), Char!Arrive(r, w)
  PROVE  CharInv'
<1>1. /\ at[r] = "idle" /\ at' = [at EXCEPT ![r] = "options"] /\ wish' = [wish EXCEPT ![r] = w]
      /\ \A q \in Char!Requests : q < r => at[q] # "idle"
      /\ UNCHANGED <<code, chosen, character, loaded, selectedCharacter, characters, attributes>>
  BY DEF Char!Arrive, Char!Goes, Char!memory
<1>2. /\ at'[r] = "options" /\ code[r] = 0 /\ \A s \in Char!Requests : s # r => at'[s] = at[s]
  BY <1>1 DEF CharInv, CharTypes, CharFlow
<1>3. /\ Overlap'
      /\ \A q \in Char!Requests : q # r => met[q] \subseteq met'[q]
  <2> DEFINE S == Char!InFlight
  <2>1. S = {q \in 1 .. NumRequests : at[q] \notin {"idle", "done"}}
    BY DEF Char!InFlight, Char!Requests
  <2>2. met' = [q \in 1 .. NumRequests |-> IF q = r THEN S
                  ELSE IF q \in S THEN met[q] \cup {r} ELSE met[q]]
    BY DEF Char!Arrive, Char!Requests
  <2>3. DOMAIN at = 1 .. NumRequests /\ Overlap
    BY DEF CharInv, CharTypes, Char!Requests
  <2> HIDE DEF S
  <2>4. QED
    BY <1>1, <1>2, <2>1, <2>2, <2>3, OverlapArrives DEF Char!Requests
<1>4. \A s \in Char!Requests : s # r /\ met'[s] = {} => met[s] = {}
  BY <1>3
<1>5. CharTypes'
  <2>1. met' \in [Char!Requests -> SUBSET Char!Requests]
    BY DEF CharInv, CharTypes, Char!Arrive, Char!InFlight
  <2>2. wish' \in [Char!Requests -> Char!Wish \cup {[options |-> {}, makeCurrent |-> FALSE]}]
    BY <1>1, WishesAssumption DEF CharInv, CharTypes
  <2>3. at' \in [Char!Requests -> {"idle", "options", "current", "create", "clear", "select",
                                   "save", "delete", "insert", "done"}]
    BY <1>1 DEF CharInv, CharTypes
  <2>4. QED
    BY <1>1, <2>1, <2>2, <2>3 DEF CharInv, CharTypes
<1>6. Known' = Known
  BY <1>1 DEF Known
<1>7. CharFlow'
  BY <1>1, <1>2, <1>6 DEF CharInv, CharFlow
<1>8. CharOpen'
  BY <1>1, <1>2 DEF CharInv, CharOpen, IsCurrent
<1>9. CharFew'
  <2>1. \A d \in DOMAIN characters : characters[d].by \in Char!Requests /\ characters[d].by # r
    BY <1>1, CharRows DEF CharInv, CharFlow
  <2>2. QED
    BY <1>1, <1>2, <1>4, <2>1 DEF CharInv, CharFew, IsCurrent
<1>10. CharLast'
  <2>1. ASSUME NEW s \in Char!Requests, IsLast(s)' PROVE LastIsWhole(s)'
    <3>1. CASE s = r
      BY <1>1, <1>2, <3>1 DEF LastIsWhole
    <3>2. CASE s # r /\ r > s
      BY <1>2, <2>1, <3>2 DEF IsLast
    <3>3. CASE s # r /\ ~ (r > s)
      <4>0. r < s
        BY <3>3, RequestsAssumption DEF Char!Requests
      <4>1. at[s] = "idle" /\ at'[s] = "idle" /\ code'[s] = 0
        <5>1. at[s] = "idle"
          BY <1>1, <4>0 DEF CharInv, Overlap, Char!Requests
        <5>2. code[s] = 0
          BY <5>1 DEF CharInv, CharFlow
        <5>3. QED
          BY <1>1, <1>2, <3>3, <5>1, <5>2
      <4>2. QED
        BY <4>1 DEF LastIsWhole
    <3>4. QED
      BY <3>1, <3>2, <3>3
  <2>2. QED
    BY <2>1 DEF CharLast
<1>11. CharClean'
  BY <1>1, <1>2, <1>4, <1>6 DEF CharInv, CharClean
<1>12. QED
  BY <1>3, <1>5, <1>7, <1>8, <1>9, <1>10, <1>11 DEF CharInv

\* It chooses one option of each attribute.
LEMMA FindOptionsKeeps ==
  ASSUME CharInv, NEW r \in Char!Requests, Char!FindOptions(r)
  PROVE  CharInv'
<1> DEFINE found == wish[r].options \cap Options
           named == {AttributeOf[o] : o \in found}
<1>1. CASE found = {}
  <2>1. /\ at[r] = "options" /\ at' = [at EXCEPT ![r] = "done"] /\ code' = [code EXCEPT ![r] = 404]
        /\ UNCHANGED <<wish, met, chosen, character, loaded, selectedCharacter, characters, attributes>>
    BY <1>1 DEF Char!FindOptions, Char!Answers, Char!Goes, Char!asks
  <2>2. /\ loaded' \in [Char!Requests -> SUBSET Choices] /\ DOMAIN selectedCharacter' = Char!Requests
        /\ loaded'[r] = {}
    BY <2>1 DEF CharInv, CharTypes, CharFlow
  <2>3. QED
    BY <2>1, <2>2, CharEnds
<1>2. CASE found # {}
  <2>1. /\ at[r] = "options" /\ at' = [at EXCEPT ![r] = "current"]
        /\ UNCHANGED <<code, wish, met, character, loaded, selectedCharacter, characters, attributes>>
    BY <1>2 DEF Char!FindOptions, Char!Goes, Char!asks
  <2>2. PICK choice \in [named -> found] :
          /\ \A a \in named : AttributeOf[choice[a]] = a
          /\ chosen' = [chosen EXCEPT ![r] = Char!Range(choice)]
    BY <1>2 DEF Char!FindOptions
  <2>3. /\ at'[r] = "current" /\ code[r] = 0 /\ loaded[r] = {}
        /\ \A s \in Char!Requests : s # r => at'[s] = at[s] /\ chosen'[s] = chosen[s]
    <3>1. code[r] = 0 /\ loaded[r] = {}
      BY <2>1 DEF CharInv, CharFlow
    <3>2. DOMAIN at = Char!Requests /\ DOMAIN chosen = Char!Requests
      BY DEF CharInv, CharTypes
    <3>3. QED
      BY <2>1, <2>2, <3>1, <3>2
  <2>4. /\ chosen'[r] \subseteq Options
        /\ \A o, p \in chosen'[r] : AttributeOf[o] = AttributeOf[p] => o = p
    <3>1. chosen'[r] = {choice[a] : a \in named}
      BY <2>2 DEF Char!Range, CharInv, CharTypes
    <3>2. \A a \in named : choice[a] \in Options /\ AttributeOf[choice[a]] = a
      BY <2>2
    <3>3. QED
      BY <3>1, <3>2
  <2> HIDE DEF found, named
  <2>5. CharTypes'
    <3>1. at' \in [Char!Requests -> {"idle", "options", "current", "create", "clear", "select",
                                     "save", "delete", "insert", "done"}]
      BY <2>1 DEF CharInv, CharTypes
    <3>2. chosen' \in [Char!Requests -> SUBSET Options]
      BY <2>2, <2>4 DEF CharInv, CharTypes
    <3>3. QED
      BY <2>1, <3>1, <3>2 DEF CharInv, CharTypes
  <2>6. Overlap'
    BY <2>1, <2>3, OverlapKeeps DEF CharInv, Char!Requests
  <2>7. Known' = Known
    BY <2>1 DEF Known
  <2>8. CharFlow'
    <3>1. \A a \in Known' :
            code'[a.by] = 200 /\ a.option \in chosen'[a.by] /\ a.character = character'[a.by]
      BY <2>1, <2>3, <2>7, ChoicesKeep
    <3>2. \A d \in DOMAIN characters : at'[characters[d].by] # "idle"
      BY <2>1 DEF CharInv, CharTypes, CharFlow
    <3>3. QED
      BY <2>1, <2>3, <2>4, <3>1, <3>2 DEF CharInv, CharFlow
  <2>9. CharOpen'
    BY <2>1, <2>3 DEF CharInv, CharOpen, IsCurrent
  <2>10. CharFew'
    BY <2>1, <2>3 DEF CharInv, CharFew, IsCurrent
  <2>11. CharLast'
    <3>1. LastIsWhole(r)'
      BY <2>1, <2>3 DEF LastIsWhole
    <3>2. QED
      BY <2>1, <2>3, <3>1, LastKeeps
  <2>12. CharClean'
    BY <2>1, <2>3, <2>7, CleanKeeps
  <2>13. QED
    BY <2>5, <2>6, <2>8, <2>9, <2>10, <2>11, <2>12 DEF CharInv
<1>3. QED
  BY <1>1, <1>2

\* It finds a current character, or none.
LEMMA FindCurrentKeeps ==
  ASSUME CharInv, NEW r \in Char!Requests, Char!FindCurrent(r)
  PROVE  CharInv'
<1>1. /\ at[r] = "current" /\ code[r] = 0 /\ loaded[r] = {}
      /\ UNCHANGED <<wish, met, code, chosen, selectedCharacter, characters, attributes>>
  BY DEF Char!FindCurrent, Char!Goes, Char!asks, CharInv, CharTypes, CharFlow
<1>2. \/ /\ \A c \in DOMAIN characters : ~ IsCurrent(c)
         /\ at' = [at EXCEPT ![r] = "create"] /\ UNCHANGED <<character, loaded>>
      \/ \E c \in DOMAIN characters :
           /\ IsCurrent(c)
           /\ at' = [at EXCEPT ![r] = "clear"] \/ at' = [at EXCEPT ![r] = "select"]
           /\ character' = [character EXCEPT ![r] = c]
           /\ loaded' = [loaded EXCEPT ![r] = Char!AttributesOf(c)]
  BY DEF Char!FindCurrent, Char!Goes, Char!Current, IsCurrent
<1>3. \A s \in Char!Requests : s # r =>
        at'[s] = at[s] /\ character'[s] = character[s] /\ loaded'[s] = loaded[s]
  BY <1>2 DEF CharInv, CharTypes
<1>4. /\ DOMAIN characters = 1 .. Len(characters) /\ Len(characters) \in Nat
      /\ \A c \in DOMAIN characters : c \in Nat /\ c \in 0 .. Len(characters) /\ c # 0
  BY LenProperties DEF CharInv, CharTypes
<1>5. at'[r] \in {"create", "clear", "select"}
  BY <1>2 DEF CharInv, CharTypes
<1>6. Overlap'
  BY <1>1, <1>3, <1>5, OverlapKeeps DEF CharInv, Char!Requests
<1>7. CharOpen'
  <2>1. \A s \in Char!Requests : at[s] \in {"select", "save"} => s # r /\ at'[s] = at[s]
    BY <1>1, <1>3
  <2>2. QED
    BY <1>1, <2>1 DEF CharInv, CharOpen, IsCurrent
<1>8. CASE /\ \A c \in DOMAIN characters : ~ IsCurrent(c)
           /\ at' = [at EXCEPT ![r] = "create"] /\ UNCHANGED <<character, loaded>>
  <2>1. at'[r] = "create"
    BY <1>8 DEF CharInv, CharTypes
  <2>2. CharTypes'
    <3>1. at' \in [Char!Requests -> {"idle", "options", "current", "create", "clear", "select",
                                     "save", "delete", "insert", "done"}]
      BY <1>8 DEF CharInv, CharTypes
    <3>2. QED
      BY <1>1, <1>8, <3>1 DEF CharInv, CharTypes
  <2>3. Known' = Known
    BY <1>1, <1>8 DEF Known
  <2>4. CharFlow'
    BY <1>1, <1>3, <1>8, <2>1, <2>3 DEF CharInv, CharTypes, CharFlow
  <2>5. CharFew'
    BY <1>1, <1>3, <1>8, <2>1 DEF CharInv, CharFew, IsCurrent
  <2>6. CharLast'
    <3>1. LastIsWhole(r)'
      BY <1>1, <1>8, <2>1 DEF LastIsWhole, IsCurrent
    <3>2. QED
      BY <1>1, <1>3, <2>1, <3>1, LastKeeps
  <2>7. CharClean'
    BY <1>1, <1>3, <2>1, <2>3, CleanKeeps
  <2>8. QED
    BY <1>6, <1>7, <2>2, <2>4, <2>5, <2>6, <2>7 DEF CharInv
<1>9. ASSUME NEW c \in DOMAIN characters, IsCurrent(c),
             at' = [at EXCEPT ![r] = "clear"] \/ at' = [at EXCEPT ![r] = "select"],
             character' = [character EXCEPT ![r] = c],
             loaded' = [loaded EXCEPT ![r] = Char!AttributesOf(c)]
      PROVE  CharInv'
  <2>1. /\ at'[r] \in {"clear", "select"} /\ character'[r] = c
        /\ loaded'[r] = {a \in attributes : a.character = c}
    <3>1. r \in DOMAIN at /\ r \in DOMAIN character /\ r \in DOMAIN loaded
      BY DEF CharInv, CharTypes
    <3>2. QED
      BY <1>9, <3>1 DEF Char!AttributesOf
  <2>2. CharTypes'
    <3>1. at' \in [Char!Requests -> {"idle", "options", "current", "create", "clear", "select",
                                     "save", "delete", "insert", "done"}]
      BY SMTT(30), <1>9 DEF CharInv, CharTypes
    <3>2. character' \in [Char!Requests -> Nat] /\ loaded' \in [Char!Requests -> SUBSET Choices]
      BY <1>4, <1>9 DEF CharInv, CharTypes, Char!AttributesOf
    <3>3. QED
      BY <1>1, <3>1, <3>2 DEF CharInv, CharTypes
  <2>3. Known' \subseteq Known
    BY <1>1, <1>3, <2>1 DEF Known
  <2>4. CharFlow'
    <3>1. \A a \in Known' :
            code'[a.by] = 200 /\ a.option \in chosen'[a.by] /\ a.character = character'[a.by]
      BY <1>1, <1>3, <2>3, ChoicesKeep
    <3>2. \A d \in DOMAIN characters : at'[characters[d].by] # "idle"
      BY <1>3, <2>1, CharRows DEF CharInv, CharFlow
    <3>3. QED
      BY <1>1, <1>3, <1>4, <2>1, <3>1, <3>2 DEF CharInv, CharFlow
  <2>5. CharFew'
    BY <1>1, <1>3, <1>9, <2>1 DEF CharInv, CharFew, IsCurrent
  <2>6. CharLast'
    <3>1. ASSUME IsLast(r), NEW d \in DOMAIN characters, IsCurrent(d)
          PROVE  d = c
      <4>1. \A e \in DOMAIN characters : characters[e].by \in Char!Requests
        BY CharRows DEF CharInv
      <4>2. ~ (c < d) /\ ~ (d < c)
        BY <1>9, <3>1, <4>1 DEF CharInv, CharFew, IsLast
      <4>3. QED
        BY <1>4, <4>2
    <3>2. IsLast(r) => LastIsWhole(r)'
      BY <1>1, <2>1, <3>1 DEF LastIsWhole, IsCurrent
    <3>3. QED
      BY <1>1, <1>3, <2>1, <3>2, LastKeeps
  <2>7. CharClean'
    BY <1>1, <1>3, <2>1, <2>3, CleanKeeps
  <2>8. QED
    BY <1>6, <1>7, <2>2, <2>4, <2>5, <2>6, <2>7 DEF CharInv
<1>10. QED
  BY <1>2, <1>8, <1>9


\* The first character is current from the start.
LEMMA CreateKeeps ==
  ASSUME CharInv, NEW r \in Char!Requests, Char!Create(r)
  PROVE  CharInv'
<1> DEFINE new == [current |-> TRUE, by |-> r]
<1>0. PICK n : n = Len(characters) + 1
  OBVIOUS
<1>1. /\ at[r] = "create" /\ code[r] = 0 /\ loaded[r] = {}
      /\ at' = [at EXCEPT ![r] = "insert"]
      /\ characters' = Append(characters, new)
      /\ character' = [character EXCEPT ![r] = Len(characters')]
      /\ UNCHANGED <<wish, met, code, chosen, loaded, selectedCharacter, attributes>>
  BY DEF Char!Create, Char!Goes, Char!asks, CharInv, CharTypes, CharFlow
<1>2. new \in [current : BOOLEAN, by : Char!Requests] /\ new.current /\ new.by = r
  OBVIOUS
<1> HIDE DEF new
<1>3. /\ characters' \in Seq([current : BOOLEAN, by : Char!Requests])
      /\ Len(characters) \in Nat /\ Len(characters') = n
      /\ DOMAIN characters = 1 .. Len(characters) /\ DOMAIN characters' = 1 .. n
      /\ characters'[n] = new /\ \A c \in DOMAIN characters : characters'[c] = characters[c]
  BY <1>0, <1>1, <1>2, AppendFacts DEF CharInv, CharTypes
<1>4. /\ at'[r] = "insert" /\ character'[r] = n
      /\ \A s \in Char!Requests : s # r => at'[s] = at[s] /\ character'[s] = character[s]
  BY <1>1, <1>3 DEF CharInv, CharTypes
<1>5. /\ n \in DOMAIN characters' /\ n \notin DOMAIN characters
      /\ \A c \in DOMAIN characters' : c # n => c \in DOMAIN characters /\ c < n /\ ~ (n < c)
      /\ \A c \in DOMAIN characters : c \in DOMAIN characters'
      /\ \A m \in 0 .. Len(characters) : m \in 0 .. n /\ m # n
      /\ n \in 0 .. n /\ n # 0 /\ n \in Nat
  BY <1>0, <1>3
<1>6. IsCurrent(n)' /\ \A c \in DOMAIN characters : IsCurrent(c)' <=> IsCurrent(c)
  BY <1>2, <1>3, <1>5 DEF IsCurrent
<1>7. CharTypes'
  <2>1. at' \in [Char!Requests -> {"idle", "options", "current", "create", "clear", "select",
                                   "save", "delete", "insert", "done"}]
    BY <1>1 DEF CharInv, CharTypes
  <2>2. character' \in [Char!Requests -> Nat]
    BY <1>1, <1>3, <1>5 DEF CharInv, CharTypes
  <2>3. QED
    BY <1>1, <1>3, <2>1, <2>2 DEF CharInv, CharTypes
<1>8. Overlap'
  BY <1>1, <1>4, OverlapKeeps DEF CharInv, Char!Requests
<1>9. Known' = Known
  BY <1>1 DEF Known
<1>10. CharFlow'
  <2>1. \A a \in Known' :
          code'[a.by] = 200 /\ a.option \in chosen'[a.by] /\ a.character = character'[a.by]
    BY <1>1, <1>4, <1>9, ChoicesKeep
  <2>2. \A d \in DOMAIN characters' : at'[characters'[d].by] # "idle"
    <3>1. \A d \in DOMAIN characters : at[characters[d].by] # "idle" /\ characters[d].by \in Char!Requests
      BY CharRows DEF CharInv, CharFlow
    <3>2. QED
      BY <1>2, <1>3, <1>4, <1>5, <3>1
  <2>3. ASSUME NEW s \in Char!Requests
        PROVE  /\ code'[s] # 0 => at'[s] = "done"
               /\ character'[s] \in 0 .. Len(characters')
               /\ at'[s] \in {"clear", "select", "save", "delete", "insert"} => character'[s] # 0
               /\ code'[s] = 200 => character'[s] # 0
               /\ loaded'[s] # {} => at'[s] \in {"clear", "select", "save"}
               /\ \A o, p \in chosen'[s] : AttributeOf[o] = AttributeOf[p] => o = p
    <3>1. CASE s = r
      BY <1>1, <1>3, <1>4, <1>5, <3>1 DEF CharInv, CharFlow
    <3>2. CASE s # r
      BY <1>1, <1>3, <1>4, <1>5, <3>2 DEF CharInv, CharFlow
    <3>3. QED
      BY <3>1, <3>2
  <2>4. QED
    BY <2>1, <2>2, <2>3 DEF CharFlow
<1>11. CharOpen'
  BY <1>5, <1>6 DEF CharOpen
<1>12. CharFew'
  <2>1. \A s \in Char!Requests : at'[s] = "create" => met'[s] # {}
    BY <1>1, <1>4, CharAlone
  <2>2. ASSUME NEW c \in DOMAIN characters', NEW d \in DOMAIN characters',
               c < d, met'[characters'[d].by] = {}
        PROVE  ~ IsCurrent(c)' /\ \A q \in Char!Requests :
                 at'[q] \in {"clear", "select", "save"} => character'[q] # c
    <3>1. c # n /\ c \in DOMAIN characters
      BY <1>5, <2>2
    <3>2. CASE d = n
      <4>1. met[r] = {} /\ ~ IsCurrent(c)
        BY <1>1, <1>2, <1>3, <2>2, <3>1, <3>2 DEF CharInv, CharFew
      <4>2. \A q \in Char!Requests : at'[q] \notin {"clear", "select", "save"}
        BY <1>1, <1>4, <4>1, CharAlone
      <4>3. QED
        BY <1>6, <3>1, <4>1, <4>2
    <3>3. CASE d # n
      <4>1. d \in DOMAIN characters /\ met[characters[d].by] = {}
        BY <1>1, <1>3, <1>5, <2>2, <3>3
      <4>2. /\ ~ IsCurrent(c)
            /\ \A q \in Char!Requests : at[q] \in {"clear", "select", "save"} => character[q] # c
        BY <2>2, <3>1, <4>1 DEF CharInv, CharFew
      <4>3. QED
        BY <1>4, <1>6, <3>1, <4>2
    <3>4. QED
      BY <3>2, <3>3
  <2>3. QED
    BY <2>1, <2>2 DEF CharFew
<1>13. CharLast'
  <2>1. ASSUME IsLast(r) PROVE LastIsWhole(r)'
    <3>1. \A c \in DOMAIN characters : ~ IsCurrent(c)
      BY <1>1, <2>1 DEF CharInv, CharLast, LastIsWhole
    <3>2. \A c \in DOMAIN characters' : IsCurrent(c)' => c = n
      BY <1>5, <1>6, <3>1
    <3>3. \A a \in attributes : a.character # n
      BY <1>5, KnownChoices DEF CharInv, CharFlow, Known
    <3>4. QED
      BY <1>1, <1>4, <3>2, <3>3 DEF LastIsWhole
  <2>2. QED
    BY <1>1, <1>4, <2>1, LastKeeps
<1>14. CharClean'
  <2>1. \A a \in Known : a.character # n
    BY <1>5, KnownChoices DEF CharInv, CharFlow
  <2>2. QED
    BY <1>1, <1>4, <1>9, <2>1 DEF CharInv, CharClean
<1>15. QED
  BY <1>7, <1>8, <1>10, <1>11, <1>12, <1>13, <1>14 DEF CharInv

\* Nobody is current for a while.
LEMMA ClearKeeps ==
  ASSUME CharInv, NEW r \in Char!Requests, Char!Clear(r)
  PROVE  CharInv'
<1>1. /\ at[r] = "clear" /\ code[r] = 0 /\ at' = [at EXCEPT ![r] = "select"]
      /\ characters' = [c \in DOMAIN characters |-> [characters[c] EXCEPT !.current = FALSE]]
      /\ UNCHANGED <<wish, met, code, chosen, character, loaded, selectedCharacter, attributes>>
  BY DEF Char!Clear, Char!Goes, Char!asks, Char!memory, CharInv, CharTypes, CharFlow
<1>2. at'[r] = "select" /\ \A s \in Char!Requests : s # r => at'[s] = at[s]
  BY <1>1 DEF CharInv, CharTypes
<1>3. /\ characters' \in Seq([current : BOOLEAN, by : Char!Requests])
      /\ DOMAIN characters' = DOMAIN characters /\ Len(characters') = Len(characters)
      /\ \A c \in DOMAIN characters : ~ characters'[c].current /\ characters'[c].by = characters[c].by
  <2>1. /\ DOMAIN characters = 1 .. Len(characters) /\ Len(characters) \in Nat
        /\ \A c \in DOMAIN characters : characters[c] \in [current : BOOLEAN, by : Char!Requests]
    BY CharRows DEF CharInv
  <2>2. PICK n \in Nat : n = Len(characters)
    BY <2>1
  <2>3. /\ characters' = [c \in 1 .. n |-> [characters[c] EXCEPT !.current = FALSE]]
        /\ \A c \in 1 .. n : [characters[c] EXCEPT !.current = FALSE]
                               \in [current : BOOLEAN, by : Char!Requests]
    BY <1>1, <2>1, <2>2
  <2>4. characters' \in Seq([current : BOOLEAN, by : Char!Requests]) /\ Len(characters') = Len(characters)
    BY <2>2, <2>3
  <2>5. \A c \in DOMAIN characters : ~ characters'[c].current /\ characters'[c].by = characters[c].by
    BY <1>1, <2>1
  <2>6. QED
    BY <1>1, <2>4, <2>5
<1>4. \A c : ~ IsCurrent(c)'
  BY <1>3 DEF IsCurrent
<1>5. CharTypes'
  <2>1. at' \in [Char!Requests -> {"idle", "options", "current", "create", "clear", "select",
                                   "save", "delete", "insert", "done"}]
    BY <1>1 DEF CharInv, CharTypes
  <2>2. QED
    BY <1>1, <1>3, <2>1 DEF CharInv, CharTypes
<1>6. Overlap'
  BY <1>1, <1>2, OverlapKeeps DEF CharInv, Char!Requests
<1>7. Known' = Known
  BY <1>1 DEF Known
<1>8. CharFlow'
  <2>1. \A a \in Known' :
          code'[a.by] = 200 /\ a.option \in chosen'[a.by] /\ a.character = character'[a.by]
    BY <1>1, <1>7, ChoicesKeep
  <2>2. \A d \in DOMAIN characters' : at'[characters'[d].by] # "idle"
    BY <1>2, <1>3, CharRows DEF CharInv, CharFlow
  <2>3. QED
    BY <1>1, <1>2, <1>3, <2>1, <2>2 DEF CharInv, CharFlow
<1>9. CharOpen'
  BY <1>2 DEF CharOpen
<1>10. CharFew'
  <2>1. \A q \in Char!Requests : at'[q] \in {"clear", "select", "save"} =>
          at[q] \in {"clear", "select", "save"}
    BY <1>1, <1>2
  <2>2. ASSUME NEW c \in DOMAIN characters, NEW d \in DOMAIN characters,
               c < d, met[characters'[d].by] = {}
        PROVE  \A q \in Char!Requests : at'[q] \in {"clear", "select", "save"} => character[q] # c
    <3>1. met[characters[d].by] = {}
      BY <1>3, <2>2
    <3>2. QED
      BY <2>1, <2>2, <3>1 DEF CharInv, CharFew
  <2>3. QED
    BY <1>1, <1>3, <1>4, <2>2 DEF CharFew
<1>11. CharLast'
  <2>1. LastIsWhole(r)'
    BY <1>1, <1>2, <1>4 DEF LastIsWhole
  <2>2. QED
    BY <1>1, <1>2, <2>1, LastKeeps
<1>12. CharClean'
  BY <1>1, <1>2, <1>7, CleanKeeps
<1>13. QED
  BY <1>5, <1>6, <1>8, <1>9, <1>10, <1>11, <1>12 DEF CharInv

\* The save reads the character again.
LEMMA SaveSelectCharKeeps ==
  ASSUME CharInv, NEW r \in Char!Requests, Char!SaveSelect(r)
  PROVE  CharInv'
<1>1. /\ at[r] = "select" /\ code[r] = 0 /\ at' = [at EXCEPT ![r] = "save"]
      /\ selectedCharacter' = [selectedCharacter EXCEPT ![r] =
           [current |-> characters[character[r]].current,
            attributes |-> Char!AttributesOf(character[r])]]
      /\ UNCHANGED <<wish, met, code, chosen, character, loaded, characters, attributes>>
  BY DEF Char!SaveSelect, Char!Goes, Char!asks, CharInv, CharTypes, CharFlow
<1>2. /\ at'[r] = "save" /\ selectedCharacter'[r].current = characters[character[r]].current
      /\ DOMAIN selectedCharacter' = Char!Requests
      /\ \A s \in Char!Requests : s # r =>
           at'[s] = at[s] /\ selectedCharacter'[s] = selectedCharacter[s]
  BY <1>1 DEF CharInv, CharTypes
<1>3. character[r] \in DOMAIN characters
  BY <1>1, CharRows DEF CharInv, CharFlow
<1>4. CharTypes'
  <2>1. at' \in [Char!Requests -> {"idle", "options", "current", "create", "clear", "select",
                                   "save", "delete", "insert", "done"}]
    BY <1>1 DEF CharInv, CharTypes
  <2>2. QED
    BY <1>1, <1>2, <2>1 DEF CharInv, CharTypes
<1>5. Overlap'
  BY <1>1, <1>2, OverlapKeeps DEF CharInv, Char!Requests
<1>6. Known' = Known
  BY <1>1 DEF Known
<1>7. CharFlow'
  <2>1. \A a \in Known' :
          code'[a.by] = 200 /\ a.option \in chosen'[a.by] /\ a.character = character'[a.by]
    BY <1>1, <1>6, ChoicesKeep
  <2>2. \A d \in DOMAIN characters : at'[characters[d].by] # "idle"
    BY <1>2, CharRows DEF CharInv, CharFlow
  <2>3. QED
    BY <1>1, <1>2, <2>1, <2>2 DEF CharInv, CharFlow
<1>8. CharOpen'
  <2>1. CASE \E c \in DOMAIN characters : IsCurrent(c)
    BY <1>1, <2>1 DEF CharOpen, IsCurrent
  <2>2. CASE \A c \in DOMAIN characters : ~ IsCurrent(c)
    BY <1>2, <1>3, <2>2 DEF CharOpen, IsCurrent
  <2>3. QED
    BY <2>1, <2>2
<1>9. CharFew'
  BY <1>1, <1>2 DEF CharInv, CharFew, IsCurrent
<1>10. CharLast'
  <2>1. IsLast(r) => LastIsWhole(r)'
    BY <1>1, <1>2 DEF CharInv, CharLast, LastIsWhole, IsCurrent
  <2>2. QED
    BY <1>1, <1>2, <2>1, LastKeeps
<1>11. CharClean'
  BY <1>1, <1>2, <1>6, CleanKeeps
<1>12. QED
  BY <1>4, <1>5, <1>7, <1>8, <1>9, <1>10, <1>11 DEF CharInv


\* The save makes it current again, and brings back what it had read.
LEMMA SaveKeeps ==
  ASSUME CharInv, NEW r \in Char!Requests, Char!Save(r)
  PROVE  CharInv'
<1> DEFINE gone == loaded[r] \ selectedCharacter[r].attributes
           new == selectedCharacter[r].attributes \ loaded[r]
<1>1. /\ at[r] = "save" /\ code[r] = 0
      /\ selectedCharacter' = [selectedCharacter EXCEPT ![r] = Char!Nothing]
      /\ loaded' = [loaded EXCEPT ![r] = {}]
      /\ UNCHANGED <<wish, met, chosen, character>>
  BY DEF Char!Save, Char!Answers, Char!Goes, Char!asks, CharInv, CharTypes, CharFlow
<1>2. CASE (new \cup gone) \cap attributes # {}
  <2>1. /\ at' = [at EXCEPT ![r] = "done"] /\ code' = [code EXCEPT ![r] = 500]
        /\ UNCHANGED <<characters, attributes>>
    BY <1>2 DEF Char!Save, Char!Answers, Char!Goes
  <2>2. /\ loaded' \in [Char!Requests -> SUBSET Choices] /\ DOMAIN selectedCharacter' = Char!Requests
        /\ loaded'[r] = {} /\ \A s \in Char!Requests : s # r =>
             loaded'[s] = loaded[s] /\ selectedCharacter'[s] = selectedCharacter[s]
    BY <1>1 DEF CharInv, CharTypes
  <2> HIDE DEF gone, new
  <2>3. QED
    BY <1>1, <2>1, <2>2, CharEnds
<1>3. CASE (new \cup gone) \cap attributes = {}
  <2>1. PICK c : c = character[r]
    OBVIOUS
  <2>2. /\ at' = [at EXCEPT ![r] = "delete"]
        /\ characters' = [characters EXCEPT ![c].current = @ \/ ~ selectedCharacter[r].current]
        /\ attributes' = attributes \cup gone /\ code' = code
    BY <1>3, <2>1 DEF Char!Save, Char!Goes
  <2>3. /\ at'[r] = "delete" /\ loaded'[r] = {} /\ gone \subseteq loaded[r]
        /\ DOMAIN selectedCharacter' = Char!Requests
        /\ \A s \in Char!Requests : s # r => /\ at'[s] = at[s] /\ loaded'[s] = loaded[s]
                                             /\ selectedCharacter'[s] = selectedCharacter[s]
    BY <1>1, <2>2 DEF CharInv, CharTypes
  <2> HIDE DEF gone, new
  <2>4. c \in DOMAIN characters /\ c \in 1 .. Len(characters)
    BY <1>1, <2>1, CharRows DEF CharInv, CharFlow
  <2> DEFINE again == characters[c].current \/ ~ selectedCharacter[r].current
             row == [characters[c] EXCEPT !.current = again]
  <2>5. /\ row \in [current : BOOLEAN, by : Char!Requests]
        /\ row.by = characters[c].by /\ row.current = again
    <3>1. characters[c] \in [current : BOOLEAN, by : Char!Requests] /\ again \in BOOLEAN
      BY <2>4, CharRows DEF CharInv
    <3> HIDE DEF again
    <3>2. QED
      BY <3>1
  <2>6. characters' = [characters EXCEPT ![c] = row]
    BY <2>2
  <2> HIDE DEF row
  <2>7. /\ characters' \in Seq([current : BOOLEAN, by : Char!Requests])
        /\ Len(characters') = Len(characters) /\ DOMAIN characters' = DOMAIN characters
        /\ characters'[c] = row /\ \A d \in DOMAIN characters : d # c => characters'[d] = characters[d]
    <3>1. characters \in Seq([current : BOOLEAN, by : Char!Requests])
      BY DEF CharInv, CharTypes
    <3>2. QED
      BY <2>4, <2>5, <2>6, <3>1, ExceptSeq, LenProperties
  <2>8. /\ \A d \in DOMAIN characters : characters'[d].by = characters[d].by
        /\ \A d : d # c => (IsCurrent(d)' <=> IsCurrent(d))
        /\ IsCurrent(c)' <=> IsCurrent(c) \/ ~ selectedCharacter[r].current
    <3>1. \A d \in DOMAIN characters : characters'[d].by = characters[d].by
      BY <2>5, <2>7
    <3>2. \A d : d # c => (IsCurrent(d)' <=> IsCurrent(d))
      BY <2>7 DEF IsCurrent
    <3>3. IsCurrent(c)' <=> IsCurrent(c) \/ ~ selectedCharacter[r].current
      <4>1. IsCurrent(c)' <=> row.current
        BY <2>4, <2>7 DEF IsCurrent
      <4>2. IsCurrent(c) <=> characters[c].current
        BY <2>4 DEF IsCurrent
      <4>3. QED
        BY <2>5, <4>1, <4>2
    <3>4. QED
      BY <3>1, <3>2, <3>3
  <2> HIDE DEF IsCurrent
  <2>9. Known' \subseteq Known
    BY <2>2, <2>3 DEF Known
  <2>10. CharTypes'
    <3>1. at' \in [Char!Requests -> {"idle", "options", "current", "create", "clear", "select",
                                     "save", "delete", "insert", "done"}]
      BY <2>2 DEF CharInv, CharTypes
    <3>2. loaded' \in [Char!Requests -> SUBSET Choices]
      BY <1>1 DEF CharInv, CharTypes
    <3>3. attributes' \subseteq Choices
      BY <2>2, <2>3 DEF CharInv, CharTypes
    <3>4. QED
      BY <1>1, <2>2, <2>3, <2>7, <3>1, <3>2, <3>3 DEF CharInv, CharTypes
  <2>11. Overlap'
    BY <1>1, <2>3, OverlapKeeps DEF CharInv, Char!Requests
  <2>12. CharFlow'
    <3>1. \A a \in Known' :
            code'[a.by] = 200 /\ a.option \in chosen'[a.by] /\ a.character = character'[a.by]
      BY <1>1, <2>2, <2>9, ChoicesKeep
    <3>2. \A d \in DOMAIN characters' : at'[characters'[d].by] # "idle"
      BY <2>3, <2>7, <2>8, CharRows DEF CharInv, CharFlow
    <3>3. QED
      BY <1>1, <2>2, <2>3, <2>7, <3>1, <3>2 DEF CharInv, CharFlow
  <2>13. CharOpen'
    <3>1. CASE ~ selectedCharacter[r].current
      BY <2>4, <2>7, <2>8, <3>1 DEF CharOpen
    <3>2. CASE selectedCharacter[r].current
      <4>1. \A d \in DOMAIN characters : IsCurrent(d) => IsCurrent(d)'
        BY <2>8
      <4>2. \A s \in Char!Requests : at[s] = "select" \/ (at[s] = "save" /\ ~ selectedCharacter[s].current)
              => s # r
        BY <1>1, <3>2
      <4>3. characters' # <<>> => characters # <<>>
        BY <2>4, <2>7
      <4>4. QED
        BY <2>2, <2>3, <2>7, <4>1, <4>2, <4>3 DEF CharInv, CharOpen
    <3>3. QED
      BY <3>1, <3>2
  <2>14. CharFew'
    <3>1. \A s \in Char!Requests : at'[s] = "create" => met'[s] # {}
      BY <1>1, <2>3, CharAlone
    <3>2. ASSUME NEW d \in DOMAIN characters, NEW e \in DOMAIN characters,
                 d < e, met[characters'[e].by] = {}
          PROVE  ~ IsCurrent(d)' /\ \A q \in Char!Requests :
                   at'[q] \in {"clear", "select", "save"} => character[q] # d
      <4>1. /\ ~ IsCurrent(d)
            /\ \A q \in Char!Requests : at[q] \in {"clear", "select", "save"} => character[q] # d
        BY <2>8, <3>2 DEF CharInv, CharFew
      <4>2. d # c
        BY <1>1, <2>1, <4>1
      <4>3. \A q \in Char!Requests : at'[q] \in {"clear", "select", "save"} =>
              at[q] \in {"clear", "select", "save"}
        BY <1>1, <2>3
      <4>4. QED
        BY <2>8, <4>1, <4>2, <4>3
    <3>3. QED
      BY <1>1, <2>7, <3>1, <3>2 DEF CharFew
  <2>15. CharLast'
    <3>1. ASSUME IsLast(r) PROVE LastIsWhole(r)'
      <4>1. \A d \in DOMAIN characters : IsCurrent(d) => d = c
        BY <1>1, <2>1, <3>1 DEF CharInv, CharLast, LastIsWhole
      <4>2. QED
        BY <1>1, <2>1, <2>2, <2>3, <2>7, <2>8, <4>1 DEF LastIsWhole
    <3>2. QED
      BY <1>1, <2>2, <2>3, <3>1, LastKeeps
  <2>16. CharClean'
    BY <1>1, <2>2, <2>3, <2>9, CleanKeeps
  <2>17. QED
    BY <2>10, <2>11, <2>12, <2>13, <2>14, <2>15, <2>16 DEF CharInv
<1>4. QED
  BY <1>2, <1>3

\* The old choice goes.
LEMMA DeleteKeeps ==
  ASSUME CharInv, NEW r \in Char!Requests, Char!Delete(r)
  PROVE  CharInv'
<1>1. /\ at[r] = "delete" /\ code[r] = 0 /\ loaded[r] = {}
      /\ at' = [at EXCEPT ![r] = "insert"]
      /\ attributes' \subseteq attributes /\ \A a \in attributes' : a.character # character[r]
      /\ UNCHANGED <<wish, met, code, chosen, character, loaded, selectedCharacter, characters>>
  <2>1. at[r] = "delete" /\ code[r] = 0 /\ loaded[r] = {}
    <3>1. at[r] = "delete"
      BY DEF Char!Delete, Char!Goes
    <3>2. QED
      BY <3>1 DEF CharInv, CharFlow
  <2>2. attributes' \subseteq attributes /\ \A a \in attributes' : a.character # character[r]
    BY DEF Char!Delete, Char!AttributesOf
  <2>3. QED
    BY <2>1, <2>2 DEF Char!Delete, Char!Goes, Char!asks, Char!memory
<1>2. at'[r] = "insert" /\ \A s \in Char!Requests : s # r => at'[s] = at[s]
  BY <1>1 DEF CharInv, CharTypes
<1>3. CharTypes'
  <2>1. at' \in [Char!Requests -> {"idle", "options", "current", "create", "clear", "select",
                                   "save", "delete", "insert", "done"}]
    BY <1>1 DEF CharInv, CharTypes
  <2>2. QED
    BY <1>1, <2>1 DEF CharInv, CharTypes
<1>4. Overlap'
  BY <1>1, <1>2, OverlapKeeps DEF CharInv, Char!Requests
<1>5. Known' \subseteq Known
  BY <1>1 DEF Known
<1>6. CharFlow'
  <2>1. \A a \in Known' :
          code'[a.by] = 200 /\ a.option \in chosen'[a.by] /\ a.character = character'[a.by]
    BY <1>1, <1>5, ChoicesKeep
  <2>2. \A d \in DOMAIN characters : at'[characters[d].by] # "idle"
    BY <1>2, CharRows DEF CharInv, CharFlow
  <2>3. QED
    BY <1>1, <1>2, <2>1, <2>2 DEF CharInv, CharFlow
<1>7. CharOpen'
  <2>1. \A s \in Char!Requests : at[s] \in {"select", "save"} => at'[s] = at[s]
    BY <1>1, <1>2
  <2>2. QED
    BY <1>1, <2>1 DEF CharInv, CharOpen, IsCurrent
<1>8. CharFew'
  BY <1>1, <1>2 DEF CharInv, CharFew, IsCurrent
<1>9. CharLast'
  <2>1. IsLast(r) => LastIsWhole(r)'
    BY <1>1, <1>2 DEF CharInv, CharLast, LastIsWhole, IsCurrent
  <2>2. QED
    BY <1>1, <1>2, <2>1, LastKeeps
<1>10. CharClean'
  <2>1. ASSUME met[r] = {}, NEW a \in Known', a.character = character[r]
        PROVE  FALSE
    <3>1. PICK q \in Char!Requests : a \in loaded[q]
      BY <1>1, <2>1 DEF Known
    <3>2. q # r /\ at[q] \notin {"idle", "done"}
      BY <1>1, <3>1 DEF CharInv, CharFlow
    <3>3. QED
      BY <1>1, <2>1, <3>2, CharAlone
  <2>2. ASSUME NEW s \in Char!Requests, s # r, met[s] = {}, at[s] = "insert" \/ code[s] = 200,
               NEW a \in Known', a.character = character[s]
        PROVE  ~ (a.by < s)
    BY <1>5, <2>2 DEF CharInv, CharClean
  <2>3. QED
    BY <1>1, <1>2, <2>1, <2>2 DEF CharClean
<1>11. QED
  BY <1>3, <1>4, <1>6, <1>7, <1>8, <1>9, <1>10 DEF CharInv


\* The new choice comes.
LEMMA InsertChoicesKeep ==
  ASSUME CharInv, NEW r \in Char!Requests, Char!Insert(r)
  PROVE  CharInv'
<1> DEFINE made == {[character |-> character[r], option |-> o, by |-> r] : o \in chosen[r]}
<1>1. /\ at[r] = "insert" /\ code[r] = 0 /\ loaded[r] = {}
      /\ at' = [at EXCEPT ![r] = "done"] /\ code' = [code EXCEPT ![r] = 200]
      /\ attributes' = attributes \cup made
      /\ UNCHANGED <<wish, met, chosen, character, loaded, selectedCharacter, characters>>
  BY DEF Char!Insert, Char!Answers, Char!Goes, Char!asks, Char!memory, CharInv, CharTypes, CharFlow
<1>2. /\ at'[r] = "done" /\ code'[r] = 200
      /\ \A s \in Char!Requests : s # r => at'[s] = at[s] /\ code'[s] = code[s]
  BY <1>1 DEF CharInv, CharTypes
<1>3. /\ made \subseteq Choices
      /\ \A a \in made : a.character = character[r] /\ a.option \in chosen[r] /\ a.by = r
      /\ \A o \in chosen[r] : \E a \in made : a.character = character[r] /\ a.option = o
  <2>1. chosen[r] \subseteq Options /\ character[r] \in Nat
    BY DEF CharInv, CharTypes
  <2>2. made \subseteq Choices
    BY <2>1 DEF Choices
  <2>3. \A a \in made : a.character = character[r] /\ a.option \in chosen[r] /\ a.by = r
    OBVIOUS
  <2>4. ASSUME NEW o \in chosen[r]
        PROVE  \E a \in made : a.character = character[r] /\ a.option = o
    <3>1. [character |-> character[r], option |-> o, by |-> r] \in made
      OBVIOUS
    <3>2. QED
      BY <3>1
  <2>5. QED
    BY <2>2, <2>3, <2>4
<1> HIDE DEF made
<1>4. CharTypes'
  <2>1. at' \in [Char!Requests -> {"idle", "options", "current", "create", "clear", "select",
                                   "save", "delete", "insert", "done"}]
    BY <1>1 DEF CharInv, CharTypes
  <2>2. code' \in [Char!Requests -> {0, 200, 404, 500}]
    BY <1>1 DEF CharInv, CharTypes
  <2>3. QED
    BY <1>1, <1>3, <2>1, <2>2 DEF CharInv, CharTypes
<1>5. Overlap'
  BY <1>1, <1>2, OverlapKeeps DEF CharInv, Char!Requests
<1>6. Known' = Known \cup made
  BY <1>1 DEF Known
<1>7. CharFlow'
  <2>1. \A a \in Known' :
          code'[a.by] = 200 /\ a.option \in chosen'[a.by] /\ a.character = character'[a.by]
    <3>1. \A a \in Known : code'[a.by] = 200
      BY <1>2, KnownChoices DEF CharInv, CharFlow
    <3>2. QED
      BY <1>1, <1>2, <1>3, <1>6, <3>1 DEF CharInv, CharFlow
  <2>2. \A d \in DOMAIN characters : at'[characters[d].by] # "idle"
    BY <1>2, CharRows DEF CharInv, CharFlow
  <2>3. QED
    BY <1>1, <1>2, <2>1, <2>2 DEF CharInv, CharFlow
<1>8. CharOpen'
  <2>1. \A s \in Char!Requests : at[s] \in {"select", "save"} => at'[s] = at[s]
    BY <1>1, <1>2
  <2>2. (\A s \in Char!Requests : code'[s] # 500) => (\A s \in Char!Requests : code[s] # 500)
    BY <1>1, <1>2
  <2>3. QED
    BY <1>1, <2>1, <2>2 DEF CharInv, CharOpen, IsCurrent
<1>9. CharFew'
  BY <1>1, <1>2 DEF CharInv, CharFew, IsCurrent
<1>10. CharLast'
  <2>1. ASSUME IsLast(r) PROVE LastIsWhole(r)'
    <3>1. /\ \A c \in DOMAIN characters : IsCurrent(c) => c = character[r]
          /\ \A a \in attributes : a.character # character[r]
      BY <1>1, <2>1 DEF CharInv, CharLast, LastIsWhole
    <3>2. \A a \in attributes' : a.character = character[r] => a \in made
      BY <1>1, <3>1
    <3>3. QED
      BY <1>1, <1>2, <1>3, <3>1, <3>2 DEF LastIsWhole, IsCurrent
  <2>2. QED
    BY <1>1, <1>2, <2>1, LastKeeps
<1>11. CharClean'
  <2>1. ASSUME NEW s \in Char!Requests, met[s] = {}, at'[s] = "insert" \/ code'[s] = 200,
               NEW a \in Known', a.character = character[s]
        PROVE  ~ (a.by < s)
    <3>1. CASE a \in Known
      <4>1. at[s] = "insert" \/ code[s] = 200
        BY <1>1, <1>2, <2>1
      <4>2. QED
        BY <2>1, <3>1, <4>1 DEF CharInv, CharClean
    <3>2. CASE a \in made /\ s = r
      BY <1>3, <3>2, RequestsAssumption DEF Char!Requests
    <3>3. CASE a \in made /\ s # r
      <4>1. a.by = r
        BY <1>3, <3>3
      <4>2. at[s] # "idle"
        BY <1>1, <1>2, <2>1, <3>3 DEF CharInv, CharFlow
      <4>3. s < r
        BY <1>1, <2>1, <3>3, <4>2, CharAlone
      <4>4. QED
        BY <4>1, <4>3, RequestsAssumption DEF Char!Requests
    <3>4. QED
      BY <1>6, <2>1, <3>1, <3>2, <3>3
  <2>2. QED
    BY <1>1, <2>1 DEF CharClean
<1>12. QED
  BY <1>4, <1>5, <1>7, <1>8, <1>9, <1>10, <1>11 DEF CharInv

\* A statement that fails ends the request.
LEMMA FailCharKeeps ==
  ASSUME CharInv, NEW r \in Char!Requests, Char!Fail(r)
  PROVE  CharInv'
<1>1. /\ at[r] \notin {"idle", "done"}
      /\ at' = [at EXCEPT ![r] = "done"] /\ code' = [code EXCEPT ![r] = 500]
      /\ selectedCharacter' = [selectedCharacter EXCEPT ![r] = Char!Nothing]
      /\ loaded' = [loaded EXCEPT ![r] = {}]
      /\ UNCHANGED <<wish, met, chosen, character, characters, attributes>>
  BY DEF Char!Fail, Char!Answers, Char!Goes, Char!asks
<1>2. /\ loaded' \in [Char!Requests -> SUBSET Choices] /\ DOMAIN selectedCharacter' = Char!Requests
      /\ loaded'[r] = {} /\ \A s \in Char!Requests : s # r =>
           loaded'[s] = loaded[s] /\ selectedCharacter'[s] = selectedCharacter[s]
  BY <1>1 DEF CharInv, CharTypes
<1>3. QED
  BY <1>1, <1>2, CharEnds

\* Every step about the character keeps its invariant.
LEMMA CharactersKeep == CharInv /\ Char!Next => CharInv'
<1> SUFFICES ASSUME CharInv, Char!Next PROVE CharInv'
  OBVIOUS
<1>1. ASSUME NEW r \in Char!Requests, NEW w \in Wishes(r), Char!Arrive(r, w) PROVE CharInv'
  BY <1>1, ArriveCharKeeps
<1>2. ASSUME NEW r \in Char!Requests,
             \/ Char!FindOptions(r) \/ Char!FindCurrent(r) \/ Char!Create(r) \/ Char!Clear(r)
             \/ Char!SaveSelect(r) \/ Char!Save(r) \/ Char!Delete(r) \/ Char!Insert(r) \/ Char!Fail(r)
      PROVE  CharInv'
  BY <1>2, FindOptionsKeeps, FindCurrentKeeps, CreateKeeps, ClearKeeps, SaveSelectCharKeeps,
     SaveKeeps, DeleteKeeps, InsertChoicesKeep, FailCharKeeps
<1>3. QED
  BY <1>1, <1>2 DEF Char!Next

\* It holds at the start.
LEMMA CharactersStart == Char!Init => CharInv
<1> SUFFICES ASSUME Char!Init PROVE CharInv
  OBVIOUS
<1>1. characters = <<>> /\ DOMAIN characters = {} /\ Len(characters) = 0
  BY NoMessages, EmptySeq DEF Char!Init
<1>2. CharTypes
  BY <1>1, EmptySeq DEF Char!Init, CharTypes
<1>3. Overlap
  BY DEF Char!Init, Overlap, Char!Requests
<1>4. Known = {}
  BY DEF Char!Init, Known
<1>5. CharFlow /\ CharOpen /\ CharFew /\ CharLast /\ CharClean
  BY <1>1, <1>4 DEF Char!Init, CharFlow, CharOpen, CharFew, CharLast, LastIsWhole, CharClean
<1>6. QED
  BY <1>2, <1>3, <1>5 DEF CharInv

\* The property follows.
LEMMA CharactersSound == CharInv => Char!CharacterWhole
<1> SUFFICES ASSUME CharInv, Char!InFlight = {} PROVE Char!CharacterWhole
  BY DEF Char!CharacterWhole
<1>1. \A s \in Char!Requests : at[s] \in {"idle", "done"}
  BY DEF Char!InFlight
<1>2. \A c : c \in Char!Current <=> c \in DOMAIN characters /\ IsCurrent(c)
  BY DEF Char!Current, IsCurrent
<1>3. characters # <<>> /\ Char!Failed = {} => Char!Current # {}
  <2>1. Char!Failed = {} => \A s \in Char!Requests : code[s] # 500
    BY DEF Char!Failed
  <2>2. \A s \in Char!Requests : at[s] # "select" /\ at[s] # "save"
    BY <1>1
  <2>3. QED
    BY <1>2, <2>1, <2>2 DEF CharInv, CharOpen
<1>4. \A c, d \in Char!Current : c < d => met[characters[d].by] # {}
  BY <1>2 DEF CharInv, CharFew
<1>5. ASSUME NEW r \in Char!Requests, code[r] = 200,
             \A q \in Char!Requests : met[q] = {} /\ (q > r => at[q] = "idle"),
             NEW c \in Char!Current
      PROVE  {a.option : a \in Char!AttributesOf(c)} = chosen[r]
  <2>1. LastIsWhole(r)
    BY <1>5 DEF CharInv, CharLast, IsLast
  <2>2. c = character[r]
    BY <1>2, <1>5, <2>1 DEF LastIsWhole
  <2>3. Char!AttributesOf(c) = {a \in attributes : a.character = character[r]}
    BY <2>2 DEF Char!AttributesOf
  <2>4. QED
    BY <1>5, <2>1, <2>3 DEF LastIsWhole
<1>6. ASSUME NEW c \in Char!Current, NEW a \in attributes, NEW b \in attributes,
             a # b, {a.character, b.character} = {c}, AttributeOf[a.option] = AttributeOf[b.option]
      PROVE  a.by # b.by /\ met[a.by] \cup met[b.by] # {}
  <2>1. /\ a \in Known /\ b \in Known /\ a \in Choices /\ b \in Choices
        /\ a.character = c /\ b.character = c
    <3>1. a \in Known /\ b \in Known
      BY <1>6 DEF Known
    <3>2. a \in Choices /\ b \in Choices
      BY <1>6 DEF CharInv, CharTypes
    <3>3. QED
      BY <1>6, <3>1, <3>2
  <2>2. /\ a.by \in Char!Requests /\ code[a.by] = 200 /\ a.option \in chosen[a.by] /\ character[a.by] = c
        /\ b.by \in Char!Requests /\ code[b.by] = 200 /\ b.option \in chosen[b.by] /\ character[b.by] = c
    BY <2>1, KnownChoices DEF CharInv, CharFlow
  <2>3. a.by # b.by
    <3>1. SUFFICES ASSUME a.by = b.by PROVE FALSE
      OBVIOUS
    <3>2. a.option = b.option
      BY <1>6, <2>2, <3>1 DEF CharInv, CharFlow
    <3>3. a = b
      BY <2>1, <3>1, <3>2 DEF Choices
    <3>4. QED
      BY <1>6, <3>3
  <2>4. a.by < b.by \/ b.by < a.by
    BY <2>2, <2>3, RequestsAssumption DEF Char!Requests
  <2>5. met[a.by] # {} \/ met[b.by] # {}
    BY <2>1, <2>2, <2>4 DEF CharInv, CharClean
  <2>6. QED
    BY <2>3, <2>5
<1>7. /\ \A r \in Char!Requests :
           /\ code[r] = 200
           /\ \A q \in Char!Requests : met[q] = {} /\ (q > r => at[q] = "idle")
           => \A c \in Char!Current : {a.option : a \in Char!AttributesOf(c)} = chosen[r]
      /\ \A c \in Char!Current, a, b \in attributes :
           a # b /\ {a.character, b.character} = {c} /\ AttributeOf[a.option] = AttributeOf[b.option]
           => a.by # b.by /\ met[a.by] \cup met[b.by] # {}
  BY <1>5, <1>6
<1>8. QED
  BY <1>3, <1>4, <1>7 DEF Char!CharacterWhole

\* What holds of the behaviours that are about the character.
InCharacter == area = "character" => CharInv

\* No other step changes what it is about, so it holds always.
LEMMA CharactersStay ==
  /\ AppInit => InCharacter
  /\ InCharacter /\ [AppNext]_vars => InCharacter'
<1>1. AppInit => InCharacter
  BY CharactersStart DEF AppInit, InCharacter
<1>2. InCharacter /\ [AppNext]_vars => InCharacter'
  <2>1. ASSUME InCharacter, AppNext PROVE InCharacter'
    <3>1. CASE area = "character"
      BY <2>1, <3>1, CharactersKeep DEF AppNext, InCharacter
    <3>2. CASE area # "character"
      BY <2>1, <3>2 DEF AppNext, InCharacter
    <3>3. QED
      BY <3>1, <3>2
  <2>2. ASSUME InCharacter, UNCHANGED vars PROVE InCharacter'
    <3>1. UNCHANGED <<area, at, code, met, wish, chosen, character, loaded, selectedCharacter,
                      characters, attributes>>
      BY <2>2 DEF vars, progress, wardrobe
    <3>2. CharInv => CharInv'
      <4>1. SUFFICES ASSUME CharInv PROVE CharInv'
        OBVIOUS
      <4>2. CharTypes' /\ Overlap'
        BY <3>1, <4>1 DEF CharInv, CharTypes, Overlap
      <4>3. Known' = Known
        BY <3>1 DEF Known
      <4>4. CharFlow' /\ CharOpen' /\ CharClean'
        BY <3>1, <4>1, <4>3 DEF CharInv, CharFlow, CharOpen, CharClean, IsCurrent
      <4>5. CharFew' /\ CharLast'
        BY <3>1, <4>1 DEF CharInv, CharFew, CharLast, IsLast, LastIsWhole, IsCurrent
      <4>6. QED
        BY <4>2, <4>4, <4>5 DEF CharInv
    <3>3. QED
      BY <2>2, <3>1, <3>2 DEF InCharacter
  <2>3. QED
    BY <2>1, <2>2
<1>3. QED
  BY <1>1, <1>2

\* Between requests the user has the character asked for last: what is lost was lost
\* by a failure, and what is left over, or there twice, is so by requests that overlapped.
THEOREM CharactersAreWhole == AppSpec => []CharacterWhole
<1>1. InCharacter => CharacterWhole
  BY CharactersSound DEF InCharacter, CharacterWhole
<1>2. QED
  BY <1>1, CharactersStay, PTL DEF AppSpec

-----------------------------------------------------------------------------
(* Settings.                                                               *)

Entries == UNION {Pref!Range(entries) : entries \in UNION {Changes(r) : r \in Pref!Requests}}
Values == {Null, TRUE} \cup
  UNION {{Pref!Stored(c, Pref!Given(e)[c]) : c \in DOMAIN Pref!Given(e)} : e \in Entries}

\* What is stored in the columns of a key is not changed when it is stored again.
Columns(k) == {f \in [Pref!ColumnsOf(k) -> Values] :
                 \A c \in Pref!ColumnsOf(k) : Pref!Stored(c, f[c]) = f[c]}
Rows == [key : Pref!Keys, by : Pref!Requests, columns : UNION {Columns(k) : k \in Pref!Keys}]

\* The values of the variables.
PrefTypes ==
  /\ at \in [Pref!Requests -> {"idle", "find", "next", "update", "done"}]
  /\ code \in [Pref!Requests -> {0, 200, 500}]
  /\ met \in [Pref!Requests -> SUBSET Pref!Requests]
  /\ change \in [Pref!Requests -> Seq(Entries)] /\ asked \in [Pref!Requests -> Seq(Entries)]
  /\ existing \in [Pref!Requests -> [Pref!Keys -> Nat]]
  /\ DOMAIN selected = Pref!Requests /\ DOMAIN listed = Pref!Requests
  /\ DOMAIN before = Pref!Requests
  /\ rows \in Seq(Rows)

\* The entries that a request has saved.
Saved(r) == {n \in DOMAIN asked[r] : n <= Len(asked[r]) - Len(change[r])}

\* What a request still has to save, and what it has read.
Pending(r) ==
  /\ code[r] # 0 => at[r] = "done"
  /\ at[r] = "find" => Len(change[r]) = Len(asked[r])
  /\ Len(change[r]) <= Len(asked[r])
  /\ \A n \in 1 .. Len(change[r]) :
       change[r][n] = asked[r][Len(asked[r]) - Len(change[r]) + n]
  /\ at[r] = "update" => change[r] # <<>> /\ existing[r][change[r][1].key] # 0
  /\ \A k \in Pref!Keys : existing[r][k] # 0 =>
       existing[r][k] \in DOMAIN rows /\ rows[existing[r][k]].key = k

\* Whom a row is from.
PrefFlow ==
  /\ \A r \in Pref!Requests : Pending(r)
  /\ \A i \in DOMAIN rows :
       /\ DOMAIN rows[i].columns = Pref!ColumnsOf(rows[i].key)
       /\ \E n \in Saved(rows[i].by) : asked[rows[i].by][n].key = rows[i].key
       /\ at[rows[i].by] # "idle"

\* A row that a request did not find was stored by one in flight together with it.
PrefMissed ==
  \A r \in Pref!Requests, i \in DOMAIN rows :
    /\ at[r] \in {"next", "update"} /\ existing[r][rows[i].key] = 0
    /\ (\E n \in DOMAIN asked[r] : asked[r][n].key = rows[i].key)
    => rows[i].by = r \/ r \in met[rows[i].by]

\* What a request has read: the rows that were there when it arrived, as they were
\* then if it has not saved their entries.
Loaded(r, n) ==
  LET k == asked[r][n].key
      i == existing[r][k]
  IN IF i = 0 THEN \A j \in DOMAIN before[r] : before[r][j].key # k
     ELSE /\ i \in DOMAIN before[r] /\ before[r][i].key = k
          /\ n \notin Saved(r) /\ ~ Pref!Twice(r, k) => rows[i].columns = before[r][i].columns

\* A request that has met nobody compares with the row that it updates, and what
\* it has saved is there.
ReadsOwn(r) ==
  /\ at[r] = "find" => before[r] = rows
  /\ at[r] = "update" => selected[r] = rows[existing[r][change[r][1].key]].columns
  /\ at[r] \in {"next", "update"} =>
       /\ \A n \in DOMAIN asked[r] : Loaded(r, n)
       /\ \A n \in Saved(r) : ~ Pref!Twice(r, asked[r][n].key) =>
            \E i \in DOMAIN rows : Pref!Follows(r, rows[i], asked[r][n])
  /\ code[r] = 200 => \A n \in DOMAIN asked[r] :
       ~ Pref!Twice(r, asked[r][n].key) => \E row \in listed[r] : Pref!Follows(r, row, asked[r][n])

PrefReads == \A r \in Pref!Requests : met[r] = {} => ReadsOwn(r)

PrefInv == PrefTypes /\ Overlap /\ PrefFlow /\ PrefMissed /\ Pref!OneRowPerKey /\ PrefReads

\* What an entry is.
LEMMA EntryFacts ==
  \A e \in Entries : /\ e.key \in Pref!Keys
                     /\ DOMAIN Pref!Given(e) \subseteq Pref!ColumnsOf(e.key)
                     /\ \A c \in DOMAIN Pref!Given(e) : LET stored == Pref!Stored(c, Pref!Given(e)[c]) IN
                          stored \in Values /\ (stored # NoTime => Pref!Stored(c, stored) = stored)
<1> SUFFICES ASSUME NEW e \in Entries
             PROVE  /\ e.key \in Pref!Keys
                    /\ DOMAIN Pref!Given(e) \subseteq Pref!ColumnsOf(e.key)
                    /\ \A c \in DOMAIN Pref!Given(e) : LET stored == Pref!Stored(c, Pref!Given(e)[c]) IN
                         stored \in Values /\ (stored # NoTime => Pref!Stored(c, stored) = stored)
  OBVIOUS
<1>1. /\ e.key \in Pref!Keys /\ DOMAIN e.columns \subseteq Pref!ColumnsOf(e.key)
      /\ \A c \in DOMAIN e.columns : Pref!Stored(c, e.columns[c]) # NoTime =>
           Pref!Stored(c, Pref!Stored(c, e.columns[c])) = Pref!Stored(c, e.columns[c])
  BY ChangesAssumption, TimesAssumption DEF Entries
<1>2. DOMAIN Pref!Given(e) \subseteq Pref!ColumnsOf(e.key)
  BY <1>1 DEF Pref!Given, Pref!ColumnsOf
<1>3. \A c \in DOMAIN Pref!Given(e) : Pref!Stored(c, Pref!Given(e)[c]) \in Values
  <2> DEFINE S == {Pref!Stored(c, Pref!Given(e)[c]) : c \in DOMAIN Pref!Given(e)}
  <2>1. \A c \in DOMAIN Pref!Given(e) : Pref!Stored(c, Pref!Given(e)[c]) \in S
    OBVIOUS
  <2>2. S \subseteq Values
    BY DEF Values
  <2> HIDE DEF S
  <2>3. QED
    BY <2>1, <2>2
<1>4. ASSUME NEW c \in DOMAIN Pref!Given(e), Pref!Stored(c, Pref!Given(e)[c]) # NoTime
      PROVE  Pref!Stored(c, Pref!Stored(c, Pref!Given(e)[c])) = Pref!Stored(c, Pref!Given(e)[c])
  <2>1. CASE Pref!Given(e) = e.columns
    BY <1>1, <1>4, <2>1
  <2>2. CASE Pref!Given(e) # e.columns
    <3>1. Pref!Given(e) = [value |-> Null]
      BY <2>2 DEF Pref!Given
    <3>2. c = "value"
      BY <1>4, <3>1
    <3>3. QED
      BY <3>2 DEF Pref!Stored
  <2>3. QED
    BY <2>1, <2>2
<1>5. QED
  BY <1>1, <1>2, <1>3, <1>4

\* What follows from an entry depends on the rows when the request arrived only.
LEMMA FollowsKept ==
  ASSUME NEW r, before'[r] = before[r]
  PROVE  \A row, e : Pref!Follows(r, row, e)' <=> Pref!Follows(r, row, e)
BY DEF Pref!Follows, Pref!Old

\* Rows are rows.
LEMMA RowFacts ==
  PrefTypes => /\ DOMAIN rows = 1 .. Len(rows) /\ Len(rows) \in Nat
               /\ \A i \in DOMAIN rows :
                    rows[i] \in Rows /\ rows[i].key \in Pref!Keys /\ rows[i].by \in Pref!Requests
<1> SUFFICES ASSUME PrefTypes
             PROVE  /\ DOMAIN rows = 1 .. Len(rows) /\ Len(rows) \in Nat
                    /\ \A i \in DOMAIN rows : rows[i] \in Rows
  BY DEF Rows
<1>1. rows \in Seq(Rows)
  BY DEF PrefTypes
<1>2. DOMAIN rows = 1 .. Len(rows) /\ Len(rows) \in Nat
  BY <1>1, LenProperties
<1>3. QED
  BY <1>1, <1>2, ElementOfSeq

\* The entries of a request.
LEMMA AskedFacts ==
  ASSUME PrefTypes, NEW r \in Pref!Requests
  PROVE  /\ asked[r] \in Seq(Entries) /\ change[r] \in Seq(Entries)
         /\ DOMAIN asked[r] = 1 .. Len(asked[r]) /\ Len(asked[r]) \in Nat /\ Len(change[r]) \in Nat
         /\ \A n \in DOMAIN asked[r] : asked[r][n] \in Entries
<1>1. asked[r] \in Seq(Entries) /\ change[r] \in Seq(Entries)
  BY DEF PrefTypes
<1>2. DOMAIN asked[r] = 1 .. Len(asked[r]) /\ Len(asked[r]) \in Nat /\ Len(change[r]) \in Nat
  BY <1>1, LenProperties
<1>3. \A n \in DOMAIN asked[r] : asked[r][n] \in Entries
  BY <1>1, <1>2, ElementOfSeq
<1>4. QED
  BY <1>1, <1>2, <1>3

\* The entry that a request saves next, and those left after it.
LEMMA NextEntry ==
  ASSUME PrefTypes, PrefFlow, NEW r \in Pref!Requests, change[r] # <<>>
  PROVE  \E m \in DOMAIN asked[r] :
           /\ m \notin Saved(r) /\ asked[r][m] = change[r][1] /\ Pref!Entry(r) = change[r][1]
           /\ change[r][1] \in Entries
           /\ Tail(change[r]) \in Seq(Entries) /\ Len(Tail(change[r])) <= Len(asked[r])
           /\ \A n \in 1 .. Len(Tail(change[r])) :
                Tail(change[r])[n] = asked[r][Len(asked[r]) - Len(Tail(change[r])) + n]
           /\ Saved(r) \cup {m} = {n \in DOMAIN asked[r] : n <= Len(asked[r]) - Len(Tail(change[r]))}
<1>1. PICK a, l : a = Len(asked[r]) /\ l = Len(change[r])
  OBVIOUS
<1>2. /\ DOMAIN asked[r] = 1 .. a /\ a \in Nat /\ l \in Nat /\ change[r] \in Seq(Entries)
      /\ \A n \in DOMAIN asked[r] : asked[r][n] \in Entries
      /\ l <= a /\ \A n \in 1 .. l : change[r][n] = asked[r][a - l + n]
  BY <1>1, AskedFacts DEF PrefFlow, Pending
<1>3. /\ Tail(change[r]) \in Seq(Entries) /\ l \in Nat \ {0}
      /\ Len(Tail(change[r])) = l - 1 /\ Head(change[r]) = change[r][1]
      /\ \A n \in 1 .. (l - 1) : Tail(change[r])[n] = change[r][n + 1]
  BY <1>1, <1>2, HeadTailProperties, EmptySeq
<1>4. PICK m \in 1 .. a : m = a - l + 1
  BY <1>2, <1>3
<1>5. /\ Saved(r) = {n \in 1 .. a : n <= a - l} /\ m \notin Saved(r)
      /\ asked[r][m] = change[r][1]
  <2>1. Saved(r) = {n \in 1 .. a : n <= a - l}
    BY <1>1, <1>2 DEF Saved
  <2>2. m \notin Saved(r)
    BY <1>2, <1>4, <2>1
  <2>3. 1 \in 1 .. l /\ a - l + 1 = m
    BY <1>2, <1>3, <1>4
  <2>4. asked[r][m] = change[r][1]
    BY <1>2, <2>3
  <2>5. QED
    BY <2>1, <2>2, <2>4
<1>6. ASSUME NEW n \in 1 .. (l - 1)
      PROVE  Tail(change[r])[n] = asked[r][a - (l - 1) + n]
  <2>1. n + 1 \in 1 .. l /\ a - l + (n + 1) = a - (l - 1) + n
    BY <1>2, <1>3
  <2>2. change[r][n + 1] = asked[r][a - l + (n + 1)]
    BY <1>2, <2>1
  <2>3. QED
    BY <1>3, <2>1, <2>2
<1>7. Saved(r) \cup {m} = {n \in DOMAIN asked[r] : n <= a - (l - 1)}
  BY <1>2, <1>3, <1>4, <1>5
<1>8. /\ m \in DOMAIN asked[r] /\ Pref!Entry(r) = change[r][1] /\ change[r][1] \in Entries
      /\ Len(Tail(change[r])) <= a
  BY <1>2, <1>3, <1>4, <1>5 DEF Pref!Entry
<1>9. QED
  BY <1>1, <1>3, <1>5, <1>6, <1>7, <1>8

\* While a request is in flight, those that are too have met it.
LEMMA PrefAlone ==
  ASSUME PrefInv, NEW r \in Pref!Requests, at[r] \notin {"idle", "done"},
         NEW s \in Pref!Requests, s # r, at[s] \notin {"idle", "done"}
  PROVE  s \in met[r] /\ r \in met[s]
<1>1. r < s \/ s < r
  BY RequestsAssumption DEF Pref!Requests
<1>2. QED
  BY <1>1 DEF PrefInv, Overlap, Pref!Requests

\* So a step of it concerns nobody else who was alone.
LEMMA ReadsKeep ==
  ASSUME PrefInv, NEW r \in Pref!Requests, at[r] \notin {"idle", "done"},
         met' = met, asked' = asked, before' = before,
         \A s \in Pref!Requests : s # r => at'[s] = at[s] /\ code'[s] = code[s] /\ listed'[s] = listed[s],
         met[r] = {} => ReadsOwn(r)'
  PROVE  PrefReads'
<1>1. ASSUME NEW s \in Pref!Requests, s # r, met[s] = {}
      PROVE  ReadsOwn(s)'
  <2>1. at[s] \in {"idle", "done"}
    BY <1>1, PrefAlone
  <2>2. ReadsOwn(s)
    BY <1>1 DEF PrefInv, PrefReads
  <2>3. /\ at'[s] \notin {"find", "next", "update"} /\ code'[s] = code[s]
        /\ listed'[s] = listed[s] /\ asked'[s] = asked[s]
    BY <1>1, <2>1
  <2>4. code[s] = 200 => \A n \in DOMAIN asked[s] :
          ~ Pref!Twice(s, asked[s][n].key) => \E row \in listed[s] : Pref!Follows(s, row, asked[s][n])
    BY <2>2 DEF ReadsOwn
  <2>5. /\ \A k : Pref!Twice(s, k)' <=> Pref!Twice(s, k)
        /\ \A row, e : Pref!Follows(s, row, e)' <=> Pref!Follows(s, row, e)
    BY FollowsKept DEF Pref!Twice
  <2>6. (code[s] = 200 => \A n \in DOMAIN asked[s] :
           ~ Pref!Twice(s, asked[s][n].key) => \E row \in listed[s] : Pref!Follows(s, row, asked[s][n]))'
    BY <2>3, <2>4, <2>5
  <2>7. QED
    BY <2>3, <2>6 DEF ReadsOwn
<1>2. \A s \in Pref!Requests : met'[s] = {} => ReadsOwn(s)'
  BY <1>1
<1>3. QED
  BY <1>2 DEF PrefReads

\* A request that arrives has saved nothing.
LEMMA ArrivePrefKeeps ==
  ASSUME PrefInv, NEW r \in Pref!Requests, NEW entries \in Changes(r), Pref!Arrive(r, entries)
  PROVE  PrefInv'
<1>1. /\ at[r] = "idle" /\ at' = [at EXCEPT ![r] = "find"]
      /\ change' = [change EXCEPT ![r] = entries] /\ asked' = [asked EXCEPT ![r] = entries]
      /\ \A q \in Pref!Requests : q < r => at[q] # "idle"
      /\ before' = [before EXCEPT ![r] = rows]
      /\ UNCHANGED <<code, existing, selected, rows, listed>>
  BY DEF Pref!Arrive, Pref!Goes
<1>2. /\ at'[r] = "find" /\ asked'[r] = entries /\ change'[r] = entries /\ code[r] = 0
      /\ before'[r] = rows
      /\ \A s \in Pref!Requests : s # r =>
           /\ at'[s] = at[s] /\ asked'[s] = asked[s] /\ change'[s] = change[s]
           /\ before'[s] = before[s]
  BY <1>1 DEF PrefInv, PrefTypes, PrefFlow, Pending
<1>3. entries \in Seq(Entries)
  <2>1. entries \in Seq(Pref!Range(entries)) /\ Pref!Range(entries) \subseteq Entries
    BY ChangesAssumption DEF Entries
  <2>2. QED
    BY <2>1, SeqMonotonic
<1>4. /\ Overlap'
      /\ \A q \in Pref!Requests : q # r => met[q] \subseteq met'[q]
  <2> DEFINE S == Pref!InFlight
  <2>1. S = {q \in 1 .. NumRequests : at[q] \notin {"idle", "done"}}
    BY DEF Pref!InFlight, Pref!Requests
  <2>2. met' = [q \in 1 .. NumRequests |-> IF q = r THEN S
                  ELSE IF q \in S THEN met[q] \cup {r} ELSE met[q]]
    BY DEF Pref!Arrive, Pref!Requests
  <2>3. Overlap
    BY DEF PrefInv
  <2> HIDE DEF S
  <2>4. QED
    BY ZenonT(40), <1>1, <1>2, <2>1, <2>2, <2>3, OverlapArrives DEF Pref!Requests
<1>5. PrefTypes'
  <2>1. met' \in [Pref!Requests -> SUBSET Pref!Requests]
    BY DEF PrefInv, PrefTypes, Pref!Arrive, Pref!InFlight
  <2>2. at' \in [Pref!Requests -> {"idle", "find", "next", "update", "done"}]
    BY <1>1 DEF PrefInv, PrefTypes
  <2>3. change' \in [Pref!Requests -> Seq(Entries)] /\ asked' \in [Pref!Requests -> Seq(Entries)]
    BY <1>1, <1>3 DEF PrefInv, PrefTypes
  <2>4. QED
    BY <1>1, <2>1, <2>2, <2>3 DEF PrefInv, PrefTypes
<1>6. \A i \in DOMAIN rows : rows[i].by \in Pref!Requests /\ rows[i].by # r
  BY <1>1, RowFacts DEF PrefInv, PrefFlow
<1>7. PrefFlow'
  <2>1. Len(entries) \in Nat /\ DOMAIN entries = 1 .. Len(entries)
        /\ \A n \in 1 .. Len(entries) : n = Len(entries) - Len(entries) + n
    BY <1>3, LenProperties
  <2>2. ASSUME NEW s \in Pref!Requests PROVE Pending(s)'
    <3>0. Pending(s)
      BY DEF PrefInv, PrefFlow
    <3>1. CASE s = r
      <4>1. at'[s] = "find" /\ code'[s] = 0 /\ change'[s] = entries /\ asked'[s] = entries
        BY <1>1, <1>2, <3>1
      <4>2. \A k \in Pref!Keys : existing'[s][k] # 0 =>
              existing'[s][k] \in DOMAIN rows' /\ rows'[existing'[s][k]].key = k
        BY <1>1, <3>0 DEF Pending
      <4>3. \A n \in 1 .. Len(change'[s]) :
              change'[s][n] = asked'[s][Len(asked'[s]) - Len(change'[s]) + n]
        BY <2>1, <4>1
      <4>4. Len(change'[s]) <= Len(asked'[s])
        BY <2>1, <4>1
      <4>5. QED
        BY <4>1, <4>2, <4>3, <4>4 DEF Pending
    <3>2. CASE s # r
      <4>1. /\ at'[s] = at[s] /\ code'[s] = code[s] /\ existing'[s] = existing[s]
            /\ change'[s] = change[s] /\ asked'[s] = asked[s] /\ rows' = rows
        BY <1>1, <1>2, <3>2
      <4>2. QED
        BY <3>0, <4>1 DEF Pending
    <3>3. QED
      BY <3>1, <3>2
  <2>3. \A s \in Pref!Requests : s # r => Saved(s)' = Saved(s)
    BY <1>2 DEF Saved
  <2>4. ASSUME NEW i \in DOMAIN rows'
        PROVE  /\ DOMAIN rows'[i].columns = Pref!ColumnsOf(rows'[i].key)
               /\ \E n \in Saved(rows[i].by)' : asked'[rows'[i].by][n].key = rows'[i].key
               /\ at'[rows'[i].by] # "idle"
    BY <1>1, <1>2, <1>6, <2>3, <2>4 DEF PrefInv, PrefFlow
  <2>5. QED
    BY <1>1, <2>2, <2>4 DEF PrefFlow
<1>8. PrefMissed'
  <2>1. ASSUME NEW s \in Pref!Requests, NEW i \in DOMAIN rows, s # r,
               at[s] \in {"next", "update"}, existing[s][rows[i].key] = 0,
               \E n \in DOMAIN asked[s] : asked[s][n].key = rows[i].key
        PROVE  rows[i].by = s \/ s \in met'[rows[i].by]
    <3>1. rows[i].by = s \/ s \in met[rows[i].by]
      BY <2>1 DEF PrefInv, PrefMissed
    <3>2. QED
      BY <1>4, <1>6, <3>1
  <2>2. QED
    BY <1>1, <1>2, <2>1 DEF PrefMissed
<1>9. Pref!OneRowPerKey'
  <2>1. \A i \in DOMAIN rows : \A k : Pref!Twice(rows[i].by, k)' <=> Pref!Twice(rows[i].by, k)
    BY <1>1, <1>2, <1>6 DEF Pref!Twice
  <2>2. \A i \in DOMAIN rows : met[rows[i].by] \subseteq met'[rows[i].by]
    BY <1>4, <1>6
  <2>3. QED
    BY <1>1, <2>1, <2>2 DEF PrefInv, Pref!OneRowPerKey
<1>10. PrefReads'
  <2>1. ASSUME NEW s \in Pref!Requests, met'[s] = {} PROVE ReadsOwn(s)'
    <3>1. CASE s = r
      BY <1>1, <1>2, <3>1 DEF ReadsOwn
    <3>2. CASE s # r
      <4>1. ReadsOwn(s)
        BY <1>4, <2>1, <3>2 DEF PrefInv, PrefReads
      <4>2. at'[s] = at[s] /\ asked'[s] = asked[s] /\ change'[s] = change[s] /\ Saved(s)' = Saved(s)
        BY <1>2, <3>2 DEF Saved
      <4>3. \A k : Pref!Twice(s, k)' <=> Pref!Twice(s, k)
        BY <4>2 DEF Pref!Twice
      <4>4. /\ existing'[s] = existing[s] /\ selected'[s] = selected[s] /\ rows' = rows
            /\ listed'[s] = listed[s] /\ code'[s] = code[s] /\ before'[s] = before[s]
            /\ \A row, e : Pref!Follows(s, row, e)' <=> Pref!Follows(s, row, e)
        BY <1>1, <1>2, <3>2, FollowsKept
      <4>5. at'[s] = "update" => selected'[s] = rows'[existing'[s][change'[s][1].key]].columns
        BY <4>1, <4>2, <4>4 DEF ReadsOwn
      <4>6. (at[s] \in {"next", "update"} => \A n \in Saved(s) :
               ~ Pref!Twice(s, asked[s][n].key) =>
                 \E i \in DOMAIN rows : Pref!Follows(s, rows[i], asked[s][n]))'
        BY <4>1, <4>2, <4>3, <4>4 DEF ReadsOwn
      <4>7. (code[s] = 200 => \A n \in DOMAIN asked[s] :
               ~ Pref!Twice(s, asked[s][n].key) =>
                 \E row \in listed[s] : Pref!Follows(s, row, asked[s][n]))'
        BY <4>1, <4>2, <4>3, <4>4 DEF ReadsOwn
      <4>8. (at[s] \in {"next", "update"} => \A n \in DOMAIN asked[s] : Loaded(s, n))'
        BY SMTT(30), <4>1, <4>2, <4>3, <4>4 DEF ReadsOwn, Loaded
      <4>9. at'[s] = "find" => before'[s] = rows'
        BY <4>1, <4>2, <4>4 DEF ReadsOwn
      <4>10. QED
        BY <4>5, <4>6, <4>7, <4>8, <4>9 DEF ReadsOwn
    <3>3. QED
      BY <3>1, <3>2
  <2>2. QED
    BY <1>1, <2>1 DEF PrefInv, PrefReads
<1>11. QED
  BY <1>4, <1>5, <1>7, <1>8, <1>9, <1>10 DEF PrefInv

\* A step that stores nothing keeps what is said of others.
LEMMA RowsStay ==
  ASSUME PrefInv, NEW r \in Pref!Requests, at[r] \notin {"idle", "done"},
         at'[r] \notin {"idle", "find"},
         \A s \in Pref!Requests : s # r =>
           /\ at'[s] = at[s] /\ code'[s] = code[s]
           /\ existing'[s] = existing[s] /\ listed'[s] = listed[s],
         change' = change, asked' = asked, met' = met, rows' = rows, before' = before,
         code'[r] # 0 => at'[r] = "done",
         at'[r] = "update" => change[r] # <<>> /\ existing'[r][change[r][1].key] # 0,
         \A k \in Pref!Keys : existing'[r][k] # 0 =>
           existing'[r][k] \in DOMAIN rows /\ rows[existing'[r][k]].key = k,
         at'[r] \in {"next", "update"} => \A i \in DOMAIN rows :
           existing'[r][rows[i].key] = 0 /\ (\E n \in DOMAIN asked[r] : asked[r][n].key = rows[i].key)
           => rows[i].by = r \/ r \in met[rows[i].by],
         PrefTypes', met[r] = {} => ReadsOwn(r)'
  PROVE  PrefInv'
<1>1. Overlap'
  BY OverlapKeeps DEF PrefInv, Pref!Requests
<1>2. PrefFlow'
  <2>1. ASSUME NEW s \in Pref!Requests PROVE Pending(s)'
    <3>0. Pending(s)
      BY DEF PrefInv, PrefFlow
    <3>1. CASE s = r
      <4>1. code'[s] # 0 => at'[s] = "done"
        BY <3>1
      <4>2. at'[s] = "update" => change'[s] # <<>> /\ existing'[s][change'[s][1].key] # 0
        BY <3>1
      <4>3. \A k \in Pref!Keys : existing'[s][k] # 0 =>
              existing'[s][k] \in DOMAIN rows' /\ rows'[existing'[s][k]].key = k
        BY <3>1
      <4>4. QED
        BY <3>0, <3>1, <4>1, <4>2, <4>3 DEF Pending
    <3>2. CASE s # r
      BY <3>0, <3>2 DEF Pending
    <3>3. QED
      BY <3>1, <3>2
  <2>2. \A s : Saved(s)' = Saved(s)
    BY DEF Saved
  <2>3. ASSUME NEW i \in DOMAIN rows'
        PROVE  /\ DOMAIN rows'[i].columns = Pref!ColumnsOf(rows'[i].key)
               /\ \E n \in Saved(rows[i].by)' : asked'[rows'[i].by][n].key = rows'[i].key
               /\ at'[rows'[i].by] # "idle"
    BY <2>2, <2>3, RowFacts DEF PrefInv, PrefFlow
  <2>4. QED
    BY <2>1, <2>3 DEF PrefFlow
<1>3. PrefMissed'
  BY DEF PrefInv, PrefMissed
<1>4. Pref!OneRowPerKey'
  <2>1. \A s, k : Pref!Twice(s, k)' <=> Pref!Twice(s, k)
    BY DEF Pref!Twice
  <2>2. QED
    BY <2>1 DEF PrefInv, Pref!OneRowPerKey
<1>5. PrefReads'
  BY ReadsKeep
<1>6. QED
  BY <1>1, <1>2, <1>3, <1>4, <1>5 DEF PrefInv

\* The rows of the keys of a request are read.
LEMMA FindExistingKeeps ==
  ASSUME PrefInv, NEW r \in Pref!Requests, Pref!FindExisting(r) PROVE PrefInv'
<1>1. /\ at[r] = "find" /\ at' = [at EXCEPT ![r] = "next"]
      /\ UNCHANGED <<change, asked, code, met, selected, rows, listed, before>>
  BY DEF Pref!FindExisting, Pref!Goes
<1>2. PICK found \in [Pref!Keys -> 0 .. Len(rows)] :
        /\ \A k \in Pref!Keys :
             IF k \in {e.key : e \in Pref!Range(asked[r])} /\ Pref!IdsOf(k) # {}
             THEN found[k] \in Pref!IdsOf(k) ELSE found[k] = 0
        /\ existing' = [existing EXCEPT ![r] = found]
  BY DEF Pref!FindExisting
<1>3. /\ at'[r] = "next" /\ existing'[r] = found /\ code[r] = 0
      /\ \A s \in Pref!Requests : s # r => at'[s] = at[s] /\ existing'[s] = existing[s]
  BY <1>1, <1>2 DEF PrefInv, PrefTypes, PrefFlow, Pending
<1>4. PrefTypes'
  <2>1. found \in [Pref!Keys -> Nat]
    BY RowFacts DEF PrefInv
  <2>2. existing' \in [Pref!Requests -> [Pref!Keys -> Nat]]
    BY <1>2, <2>1 DEF PrefInv, PrefTypes
  <2>3. at' \in [Pref!Requests -> {"idle", "find", "next", "update", "done"}]
    BY <1>1 DEF PrefInv, PrefTypes
  <2>4. QED
    BY <1>1, <2>2, <2>3 DEF PrefInv, PrefTypes
<1>5. \A k \in Pref!Keys : found[k] # 0 => found[k] \in DOMAIN rows /\ rows[found[k]].key = k
  BY <1>2 DEF Pref!IdsOf
<1>6. \A i \in DOMAIN rows :
        found[rows[i].key] = 0 => ~ \E n \in DOMAIN asked[r] : asked[r][n].key = rows[i].key
  <2>1. SUFFICES ASSUME NEW i \in DOMAIN rows, found[rows[i].key] = 0,
                        NEW n \in DOMAIN asked[r], asked[r][n].key = rows[i].key
                 PROVE  FALSE
    OBVIOUS
  <2>2. i \in Pref!IdsOf(rows[i].key) /\ rows[i].key \in Pref!Keys
    BY RowFacts DEF Pref!IdsOf, PrefInv
  <2>3. asked[r][n] \in Pref!Range(asked[r])
    BY DEF Pref!Range
  <2>4. found[rows[i].key] \in Pref!IdsOf(rows[i].key)
    BY <1>2, <2>1, <2>2, <2>3
  <2>5. 0 \notin DOMAIN rows
    BY RowFacts DEF PrefInv
  <2>6. QED
    BY <2>1, <2>4, <2>5 DEF Pref!IdsOf
<1>7. Saved(r)' = {}
  <2>1. Len(change[r]) = Len(asked[r]) /\ DOMAIN asked[r] = 1 .. Len(asked[r]) /\ Len(asked[r]) \in Nat
    BY <1>1, AskedFacts DEF PrefInv, PrefFlow, Pending
  <2>2. \A n \in 1 .. Len(asked[r]) : ~ (n <= Len(asked[r]) - Len(asked[r]))
    BY <2>1
  <2>3. QED
    BY <1>1, <2>1, <2>2 DEF Saved
<1>8. ASSUME met[r] = {} PROVE ReadsOwn(r)'
  <2>1. before[r] = rows
    BY <1>1, <1>8 DEF PrefInv, PrefReads, ReadsOwn
  <2>2. ASSUME NEW n \in DOMAIN asked[r] PROVE Loaded(r, n)'
    <3> DEFINE k == asked[r][n].key
    <3>1. k \in Pref!Keys
      BY AskedFacts, EntryFacts DEF PrefInv
    <3>2. found[k] = 0 => \A j \in DOMAIN rows : rows[j].key # k
      BY <1>6
    <3>3. found[k] # 0 => found[k] \in DOMAIN rows /\ rows[found[k]].key = k
      BY <1>5, <3>1
    <3>4. QED
      BY <1>1, <1>3, <2>1, <3>2, <3>3 DEF Loaded
  <2>3. QED
    BY <1>1, <1>3, <1>7, <2>2 DEF ReadsOwn
<1>9. QED
  BY <1>1, <1>3, <1>4, <1>5, <1>6, <1>8, RowsStay

\* The row that is compared with is the one that is updated.
LEMMA SaveSelectKeeps ==
  ASSUME PrefInv, NEW r \in Pref!Requests, Pref!SaveSelect(r) PROVE PrefInv'
<1>1. /\ change[r] # <<>> /\ at[r] = "next" /\ at' = [at EXCEPT ![r] = "update"]
      /\ selected' = [selected EXCEPT ![r] = rows[existing[r][Pref!Entry(r).key]].columns]
      /\ existing[r][Pref!Entry(r).key] # 0
      /\ UNCHANGED <<change, asked, code, met, existing, rows, listed, before>>
  BY DEF Pref!SaveSelect, Pref!Goes, Pref!RowOf
<1>2. Pref!Entry(r) = change[r][1]
  BY <1>1, NextEntry DEF PrefInv
<1>3. /\ at'[r] = "update" /\ code[r] = 0
      /\ selected'[r] = rows[existing[r][change[r][1].key]].columns
      /\ \A s \in Pref!Requests : s # r => at'[s] = at[s]
  BY <1>1, <1>2 DEF PrefInv, PrefTypes, PrefFlow, Pending
<1>4. PrefTypes'
  <2>1. at' \in [Pref!Requests -> {"idle", "find", "next", "update", "done"}]
    BY <1>1 DEF PrefInv, PrefTypes
  <2>2. DOMAIN selected' = Pref!Requests
    BY <1>1 DEF PrefInv, PrefTypes
  <2>3. QED
    BY <1>1, <2>1, <2>2 DEF PrefInv, PrefTypes
<1>5. \A k \in Pref!Keys : existing[r][k] # 0 =>
        existing[r][k] \in DOMAIN rows /\ rows[existing[r][k]].key = k
  BY DEF PrefInv, PrefFlow, Pending
<1>6. \A i \in DOMAIN rows :
        existing[r][rows[i].key] = 0 /\ (\E n \in DOMAIN asked[r] : asked[r][n].key = rows[i].key)
        => rows[i].by = r \/ r \in met[rows[i].by]
  BY <1>1 DEF PrefInv, PrefMissed
<1>7. ASSUME met[r] = {} PROVE ReadsOwn(r)'
  <2>1. ReadsOwn(r)
    BY <1>7 DEF PrefInv, PrefReads
  <2>2. /\ \A n \in DOMAIN asked[r] : Loaded(r, n)
        /\ \A n \in Saved(r) : ~ Pref!Twice(r, asked[r][n].key) =>
             \E i \in DOMAIN rows : Pref!Follows(r, rows[i], asked[r][n])
    BY <1>1, <2>1 DEF ReadsOwn
  <2>3. /\ Saved(r)' = Saved(r) /\ \A k : Pref!Twice(r, k)' <=> Pref!Twice(r, k)
        /\ \A row, e : Pref!Follows(r, row, e)' <=> Pref!Follows(r, row, e)
    BY <1>1, FollowsKept DEF Saved, Pref!Twice
  <2>4. (\A n \in Saved(r) : ~ Pref!Twice(r, asked[r][n].key) =>
           \E i \in DOMAIN rows : Pref!Follows(r, rows[i], asked[r][n]))'
    BY <1>1, <2>2, <2>3
  <2>5. (\A n \in DOMAIN asked[r] : Loaded(r, n))'
    BY <1>1, <2>2, <2>3 DEF Loaded
  <2>6. QED
    BY SMTT(30), <1>1, <1>3, <2>4, <2>5 DEF ReadsOwn
<1>8. existing[r][change[r][1].key] # 0
  BY <1>1, <1>2
<1>9. QED
  BY <1>1, <1>3, <1>4, <1>5, <1>6, <1>7, <1>8, RowsStay

\* The answer shows both tables.
LEMMA ListPrefKeeps ==
  ASSUME PrefInv, NEW r \in Pref!Requests, Pref!List(r) PROVE PrefInv'
<1>1. /\ change[r] = <<>> /\ at[r] = "next" /\ at' = [at EXCEPT ![r] = "done"]
      /\ code' = [code EXCEPT ![r] = 200]
      /\ listed' = [listed EXCEPT ![r] = Pref!Range(rows)]
      /\ existing' = [existing EXCEPT ![r] = Pref!NoRows]
      /\ UNCHANGED <<change, asked, met, selected, rows, before>>
  BY DEF Pref!List, Pref!Goes
<1>2. /\ at'[r] = "done" /\ existing'[r] = Pref!NoRows /\ listed'[r] = Pref!Range(rows)
      /\ \A s \in Pref!Requests : s # r =>
           /\ at'[s] = at[s] /\ code'[s] = code[s]
           /\ existing'[s] = existing[s] /\ listed'[s] = listed[s]
  BY <1>1 DEF PrefInv, PrefTypes
<1>3. Pref!NoRows \in [Pref!Keys -> Nat] /\ \A k \in Pref!Keys : Pref!NoRows[k] = 0
  BY DEF Pref!NoRows
<1>4. PrefTypes'
  <2>1. at' \in [Pref!Requests -> {"idle", "find", "next", "update", "done"}]
    BY <1>1 DEF PrefInv, PrefTypes
  <2>2. code' \in [Pref!Requests -> {0, 200, 500}]
    BY <1>1 DEF PrefInv, PrefTypes
  <2>3. existing' \in [Pref!Requests -> [Pref!Keys -> Nat]]
    BY <1>1, <1>3 DEF PrefInv, PrefTypes
  <2>4. DOMAIN listed' = Pref!Requests
    BY <1>1 DEF PrefInv, PrefTypes
  <2>5. QED
    BY <1>1, <2>1, <2>2, <2>3, <2>4 DEF PrefInv, PrefTypes
<1>5. \A i \in DOMAIN rows : rows[i] \in Pref!Range(rows)
  BY DEF Pref!Range
<1>6. ASSUME met[r] = {} PROVE ReadsOwn(r)'
  <2>1. Saved(r) = DOMAIN asked[r]
    <3>1. Len(change[r]) = 0 /\ DOMAIN asked[r] = 1 .. Len(asked[r]) /\ Len(asked[r]) \in Nat
      BY <1>1, AskedFacts, EmptySeq DEF PrefInv
    <3>2. QED
      BY <3>1 DEF Saved
  <2>2. \A n \in DOMAIN asked[r] : ~ Pref!Twice(r, asked[r][n].key) =>
          \E i \in DOMAIN rows : Pref!Follows(r, rows[i], asked[r][n])
    BY <1>1, <1>6, <2>1 DEF PrefInv, PrefReads, ReadsOwn
  <2>3. \A n \in DOMAIN asked[r] : ~ Pref!Twice(r, asked[r][n].key) =>
          \E row \in Pref!Range(rows) : Pref!Follows(r, row, asked[r][n])
    BY <1>5, <2>2
  <2>4. /\ \A k : Pref!Twice(r, k)' <=> Pref!Twice(r, k)
        /\ \A row, e : Pref!Follows(r, row, e)' <=> Pref!Follows(r, row, e)
    BY <1>1, FollowsKept DEF Pref!Twice
  <2>5. (\A n \in DOMAIN asked[r] : ~ Pref!Twice(r, asked[r][n].key) =>
           \E row \in listed[r] : Pref!Follows(r, row, asked[r][n]))'
    BY <1>1, <1>2, <2>3, <2>4
  <2>6. QED
    BY <1>2, <2>5 DEF ReadsOwn
<1>7. QED
  BY <1>1, <1>2, <1>3, <1>4, <1>6, RowsStay

\* A request that fails leaves what it has saved.
LEMMA FailPrefKeeps ==
  ASSUME PrefInv, NEW r \in Pref!Requests, Pref!Fail(r) PROVE PrefInv'
<1>1. /\ at[r] \notin {"idle", "done"} /\ at' = [at EXCEPT ![r] = "done"]
      /\ code' = [code EXCEPT ![r] = 500]
      /\ existing' = [existing EXCEPT ![r] = Pref!NoRows]
      /\ selected' = [selected EXCEPT ![r] = <<>>]
      /\ UNCHANGED <<change, asked, met, rows, listed, before>>
  BY DEF Pref!Fail, Pref!Goes
<1>2. /\ at'[r] = "done" /\ code'[r] = 500 /\ existing'[r] = Pref!NoRows
      /\ \A s \in Pref!Requests : s # r =>
           /\ at'[s] = at[s] /\ code'[s] = code[s]
           /\ existing'[s] = existing[s] /\ listed'[s] = listed[s]
  BY <1>1 DEF PrefInv, PrefTypes
<1>3. Pref!NoRows \in [Pref!Keys -> Nat] /\ \A k \in Pref!Keys : Pref!NoRows[k] = 0
  BY DEF Pref!NoRows
<1>4. PrefTypes'
  <2>1. at' \in [Pref!Requests -> {"idle", "find", "next", "update", "done"}]
    BY <1>1 DEF PrefInv, PrefTypes
  <2>2. code' \in [Pref!Requests -> {0, 200, 500}]
    BY <1>1 DEF PrefInv, PrefTypes
  <2>3. existing' \in [Pref!Requests -> [Pref!Keys -> Nat]]
    BY <1>1, <1>3 DEF PrefInv, PrefTypes
  <2>4. DOMAIN selected' = Pref!Requests
    BY <1>1 DEF PrefInv, PrefTypes
  <2>5. QED
    BY <1>1, <2>1, <2>2, <2>3, <2>4 DEF PrefInv, PrefTypes
<1>5. ReadsOwn(r)'
  BY <1>1, <1>2 DEF ReadsOwn
<1>6. QED
  BY <1>1, <1>2, <1>3, <1>4, <1>5, RowsStay

\* The columns of a row.
LEMMA ColumnFacts ==
  PrefTypes /\ PrefFlow =>
    \A i \in DOMAIN rows : rows[i].columns \in Columns(rows[i].key)
<1> SUFFICES ASSUME PrefTypes, PrefFlow, NEW i \in DOMAIN rows
             PROVE  rows[i].columns \in Columns(rows[i].key)
  OBVIOUS
<1>1. rows[i] \in Rows
  BY RowFacts
<1>2. PICK k \in Pref!Keys : rows[i].columns \in Columns(k)
  BY <1>1 DEF Rows
<1>3. Pref!ColumnsOf(k) = Pref!ColumnsOf(rows[i].key)
  BY <1>2 DEF PrefFlow, Columns
<1>4. QED
  BY <1>2, <1>3 DEF Columns

\* A row gets what an entry gives.
LEMMA SaveUpdateKeeps ==
  ASSUME PrefInv, NEW r \in Pref!Requests, Pref!SaveUpdate(r) PROVE PrefInv'
<1>1. PICK m \in DOMAIN asked[r] :
        /\ m \notin Saved(r) /\ asked[r][m] = change[r][1] /\ Pref!Entry(r) = change[r][1]
        /\ change[r][1] \in Entries
        /\ Tail(change[r]) \in Seq(Entries) /\ Len(Tail(change[r])) <= Len(asked[r])
        /\ \A n \in 1 .. Len(Tail(change[r])) :
             Tail(change[r])[n] = asked[r][Len(asked[r]) - Len(Tail(change[r])) + n]
        /\ Saved(r) \cup {m} = {n \in DOMAIN asked[r] : n <= Len(asked[r]) - Len(Tail(change[r]))}
  <2>1. at[r] = "update"
    BY DEF Pref!SaveUpdate, Pref!Goes
  <2>2. QED
    BY <2>1, NextEntry DEF PrefInv, PrefFlow, Pending
<1>2. PICK e, i0, W : e = change[r][1] /\ i0 = existing[r][e.key] /\ W = Pref!Written(r)
  OBVIOUS
<1>3. /\ at[r] = "update" /\ at' = [at EXCEPT ![r] = "next"]
      /\ rows' = [rows EXCEPT ![i0].columns =
           [c \in DOMAIN @ |-> IF c \in W THEN Pref!Stored(c, Pref!Given(e)[c]) ELSE @[c]]]
      /\ \A c \in W : Pref!Stored(c, Pref!Given(e)[c]) # NoTime
      /\ change' = [change EXCEPT ![r] = Tail(@)]
      /\ selected' = [selected EXCEPT ![r] = <<>>]
      /\ UNCHANGED <<asked, code, met, existing, listed, before>>
  BY <1>1, <1>2 DEF Pref!SaveUpdate, Pref!Goes, Pref!RowOf
<1>4. /\ e \in Entries /\ e.key \in Pref!Keys /\ asked[r][m] = e
      /\ i0 \in DOMAIN rows /\ rows[i0].key = e.key /\ code[r] = 0
  BY <1>1, <1>2, <1>3, EntryFacts DEF PrefInv, PrefTypes, PrefFlow, Pending
<1>5. /\ at'[r] = "next" /\ change'[r] = Tail(change[r])
      /\ \A s \in Pref!Requests : s # r => at'[s] = at[s] /\ change'[s] = change[s]
  BY <1>3 DEF PrefInv, PrefTypes
<1>6. /\ DOMAIN rows' = DOMAIN rows /\ Len(rows') = Len(rows)
      /\ \A i \in DOMAIN rows : i # i0 => rows'[i] = rows[i]
      /\ rows'[i0] = [rows[i0] EXCEPT !.columns =
           [c \in DOMAIN rows[i0].columns |->
              IF c \in W THEN Pref!Stored(c, Pref!Given(e)[c]) ELSE rows[i0].columns[c]]]
  <2>1. rows \in Seq(Rows)
    BY DEF PrefInv, PrefTypes
  <2>2. QED
    BY <1>3, <1>4, <2>1
<1>7. /\ rows[i0] \in Rows /\ rows[i0].columns \in Columns(e.key)
      /\ W \subseteq DOMAIN Pref!Given(e)
  <2>1. W \subseteq DOMAIN Pref!Given(e)
    BY <1>1, <1>2 DEF Pref!Written
  <2>2. QED
    BY <1>4, <2>1, RowFacts, ColumnFacts DEF PrefInv
<1>8. PICK new : new = [c \in Pref!ColumnsOf(e.key) |->
                          IF c \in W THEN Pref!Stored(c, Pref!Given(e)[c]) ELSE rows[i0].columns[c]]
  OBVIOUS
<1>9. /\ new \in Columns(e.key) /\ DOMAIN new = Pref!ColumnsOf(e.key)
      /\ rows'[i0] = [rows[i0] EXCEPT !.columns = new]
  <2>1. ASSUME NEW c \in Pref!ColumnsOf(e.key)
        PROVE  new[c] \in Values /\ Pref!Stored(c, new[c]) = new[c]
    BY <1>3, <1>4, <1>7, <1>8, EntryFacts DEF Columns
  <2>2. new \in [Pref!ColumnsOf(e.key) -> Values]
    BY <1>8, <2>1
  <2>3. rows'[i0] = [rows[i0] EXCEPT !.columns = new]
    BY <1>6, <1>7, <1>8 DEF Columns
  <2>4. QED
    BY <2>1, <2>2, <2>3 DEF Columns
<1>10. /\ rows'[i0].key = e.key /\ rows'[i0].by = rows[i0].by /\ rows'[i0].columns = new
       /\ rows'[i0] \in Rows
  BY <1>4, <1>7, <1>9 DEF Rows
<1>11. /\ DOMAIN rows' = DOMAIN rows
       /\ \A i \in DOMAIN rows :
            /\ rows'[i] \in Rows /\ rows'[i].key = rows[i].key /\ rows'[i].by = rows[i].by
            /\ DOMAIN rows'[i].columns = Pref!ColumnsOf(rows'[i].key)
  <2>1. ASSUME NEW i \in DOMAIN rows, i # i0
        PROVE  rows'[i] \in Rows /\ DOMAIN rows'[i].columns = Pref!ColumnsOf(rows'[i].key)
    BY <1>6, <2>1, RowFacts DEF PrefInv, PrefFlow
  <2>2. DOMAIN rows'[i0].columns = Pref!ColumnsOf(rows'[i0].key)
    BY <1>9, <1>10
  <2>3. QED
    BY <1>4, <1>6, <1>10, <2>1, <2>2
<1>12. PrefTypes'
  <2>1. at' \in [Pref!Requests -> {"idle", "find", "next", "update", "done"}]
    BY <1>3 DEF PrefInv, PrefTypes
  <2>2. change' \in [Pref!Requests -> Seq(Entries)]
    BY <1>1, <1>3 DEF PrefInv, PrefTypes
  <2>3. DOMAIN selected' = Pref!Requests
    BY <1>3 DEF PrefInv, PrefTypes
  <2>4. rows' \in Seq(Rows)
    <3>1. rows \in Seq(Rows) /\ DOMAIN rows = 1 .. Len(rows) /\ Len(rows) \in Nat
      BY RowFacts DEF PrefInv, PrefTypes
    <3>2. rows' = [i \in 1 .. Len(rows) |-> rows'[i]]
      BY <1>3, <1>6, <3>1
    <3>3. QED
      BY <1>11, <3>1, <3>2, IsASeq
  <2>5. QED
    BY <1>3, <2>1, <2>2, <2>3, <2>4 DEF PrefInv, PrefTypes
<1>13. Overlap'
  BY <1>3, <1>5, OverlapKeeps DEF PrefInv, Pref!Requests
<1>14. /\ Saved(r)' = Saved(r) \cup {m}
       /\ \A s \in Pref!Requests : s # r => Saved(s)' = Saved(s)
  BY <1>1, <1>3, <1>5 DEF Saved
<1>15. PrefFlow'
  <2>1. ASSUME NEW s \in Pref!Requests PROVE Pending(s)'
    <3>1. Pending(s)
      BY DEF PrefInv, PrefFlow
    <3>2. \A k \in Pref!Keys : existing'[s][k] # 0 =>
            existing'[s][k] \in DOMAIN rows' /\ rows'[existing'[s][k]].key = k
      BY <1>3, <1>11, <3>1 DEF Pending
    <3>3. CASE s = r
      <4>1. Len(change'[s]) <= Len(asked'[s])
        BY <1>1, <1>3, <1>5, <3>3
      <4>2. \A n \in 1 .. Len(change'[s]) :
              change'[s][n] = asked'[s][Len(asked'[s]) - Len(change'[s]) + n]
        <5>1. change'[s] = Tail(change[r]) /\ asked'[s] = asked[r]
          BY <1>3, <1>5, <3>3
        <5>2. QED
          BY <1>1, <5>1
      <4>3. at'[s] = "next" /\ code'[s] = 0
        BY <1>3, <1>4, <1>5, <3>3
      <4>4. QED
        BY <3>2, <4>1, <4>2, <4>3 DEF Pending
    <3>4. CASE s # r
      BY <1>3, <1>5, <3>1, <3>2, <3>4 DEF Pending
    <3>5. QED
      BY <3>3, <3>4
  <2>2. ASSUME NEW i \in DOMAIN rows'
        PROVE  /\ DOMAIN rows'[i].columns = Pref!ColumnsOf(rows'[i].key)
               /\ \E n \in Saved(rows[i].by)' : asked'[rows'[i].by][n].key = rows'[i].key
               /\ at'[rows'[i].by] # "idle"
    <3>1. i \in DOMAIN rows /\ rows[i].by \in Pref!Requests
      BY <1>11, RowFacts DEF PrefInv
    <3>3. PICK n \in Saved(rows[i].by) : asked[rows[i].by][n].key = rows[i].key
      BY <3>1 DEF PrefInv, PrefFlow
    <3>4. n \in Saved(rows[i].by)' /\ asked'[rows'[i].by][n].key = rows'[i].key
      BY <1>3, <1>11, <1>14, <3>1, <3>3
    <3>5. at'[rows'[i].by] # "idle"
      BY <1>3, <1>5, <1>11, <3>1 DEF PrefInv, PrefFlow
    <3>6. QED
      BY <1>11, <3>1, <3>4, <3>5
  <2>3. QED
    BY <2>1, <2>2 DEF PrefFlow
<1>16. PrefMissed'
  <2>1. SUFFICES ASSUME NEW s \in Pref!Requests, NEW i \in DOMAIN rows,
                        at'[s] \in {"next", "update"}, existing[s][rows[i].key] = 0,
                        \E n \in DOMAIN asked[s] : asked[s][n].key = rows[i].key
                 PROVE  rows[i].by = s \/ s \in met[rows[i].by]
    BY <1>3, <1>11 DEF PrefMissed
  <2>2. at[s] \in {"next", "update"}
    BY <1>3, <1>5, <2>1
  <2>3. QED
    BY <2>1, <2>2 DEF PrefInv, PrefMissed
<1>17. Pref!OneRowPerKey'
  <2>1. \A s, k : Pref!Twice(s, k)' <=> Pref!Twice(s, k)
    BY <1>3 DEF Pref!Twice
  <2>2. QED
    BY <1>3, <1>11, <2>1 DEF PrefInv, Pref!OneRowPerKey
<1>18. ASSUME met[r] = {} PROVE ReadsOwn(r)'
  <2>1. /\ ReadsOwn(r) /\ selected[r] = rows[i0].columns
        /\ \A n \in DOMAIN asked[r] : Loaded(r, n)
    BY <1>2, <1>3, <1>18 DEF PrefInv, PrefReads, ReadsOwn
  <2>2. ASSUME ~ Pref!Twice(r, e.key) PROVE Pref!Follows(r, rows'[i0], e)
    <3>1. /\ i0 \in DOMAIN before[r] /\ before[r][i0].key = e.key
          /\ rows[i0].columns = before[r][i0].columns
      <4>1. i0 # 0
        BY <1>4, RowFacts DEF PrefInv
      <4>2. Loaded(r, m) /\ m \notin Saved(r)
        BY <1>1, <2>1
      <4>3. QED
        BY <1>2, <1>4, <2>2, <4>1, <4>2 DEF Loaded
    <3>2. rows[i0].columns \in Pref!Old(r, e.key)
      BY <3>1 DEF Pref!Old
    <3>3. ASSUME NEW c \in Pref!ColumnsOf(e.key)
          PROVE  new[c] = IF c \in DOMAIN Pref!Given(e) THEN Pref!Stored(c, Pref!Given(e)[c])
                          ELSE rows[i0].columns[c]
      <4>1. CASE c \in W
        BY <1>7, <1>8, <4>1
      <4>2. CASE c \notin W /\ c \in DOMAIN Pref!Given(e)
        <5>1. Pref!Given(e)[c] = rows[i0].columns[c]
          BY <1>1, <1>2, <2>1, <4>2 DEF Pref!Written
        <5>2. Pref!Stored(c, rows[i0].columns[c]) = rows[i0].columns[c]
          BY <1>7 DEF Columns
        <5>3. QED
          BY <1>8, <4>2, <5>1, <5>2
      <4>3. CASE c \notin DOMAIN Pref!Given(e)
        BY <1>7, <1>8, <4>3
      <4>4. QED
        BY <4>1, <4>2, <4>3
    <3>4. QED
      BY <1>10, <3>2, <3>3 DEF Pref!Follows
  <2>3. ASSUME NEW n \in DOMAIN asked[r], n # m, ~ Pref!Twice(r, asked[r][n].key)
        PROVE  asked[r][n].key # e.key
    BY <1>4, <2>3 DEF Pref!Twice
  <2>4. ASSUME NEW n \in Saved(r), ~ Pref!Twice(r, asked[r][n].key)
        PROVE  \E i \in DOMAIN rows' : Pref!Follows(r, rows'[i], asked[r][n])
    <3>1. PICK i \in DOMAIN rows : Pref!Follows(r, rows[i], asked[r][n])
      BY <1>3, <2>1, <2>4 DEF ReadsOwn
    <3>2. n \in DOMAIN asked[r] /\ n # m
      BY <1>1 DEF Saved
    <3>3. asked[r][n].key # e.key
      BY <2>3, <2>4, <3>2
    <3>4. i # i0
      BY <1>4, <3>1, <3>3 DEF Pref!Follows
    <3>5. QED
      BY <1>6, <3>1, <3>4
  <2>5. \A n \in Saved(r) \cup {m} : ~ Pref!Twice(r, asked[r][n].key) =>
          \E i \in DOMAIN rows' : Pref!Follows(r, rows'[i], asked[r][n])
    BY <1>4, <1>11, <2>2, <2>4
  <2>6. /\ \A k : Pref!Twice(r, k)' <=> Pref!Twice(r, k)
        /\ \A row, x : Pref!Follows(r, row, x)' <=> Pref!Follows(r, row, x)
    BY <1>3, FollowsKept DEF Pref!Twice
  <2>7. (\A n \in Saved(r) : ~ Pref!Twice(r, asked[r][n].key) =>
           \E i \in DOMAIN rows : Pref!Follows(r, rows[i], asked[r][n]))'
    BY <1>3, <1>14, <2>5, <2>6
  <2>8. ASSUME NEW n \in DOMAIN asked[r] PROVE Loaded(r, n)'
    <3> DEFINE k == asked[r][n].key
               i == existing[r][k]
    <3>1. Loaded(r, n)
      BY <2>1
    <3>2. ASSUME i # 0, n \notin Saved(r)', ~ Pref!Twice(r, k)
          PROVE  rows'[i].columns = before[r][i].columns
      <4>1. n # m /\ n \notin Saved(r)
        BY <1>14, <3>2
      <4>2. k # e.key /\ k \in Pref!Keys
        BY <2>3, <3>2, <4>1, AskedFacts, EntryFacts DEF PrefInv
      <4>3. i \in DOMAIN rows /\ rows[i].key = k
        BY <3>2, <4>2 DEF PrefInv, PrefFlow, Pending
      <4>4. rows'[i] = rows[i]
        BY <1>4, <1>6, <4>2, <4>3
      <4>5. QED
        BY <3>1, <3>2, <4>1, <4>4 DEF Loaded
    <3>3. k' = k /\ i' = i /\ before' = before
      BY <1>3
    <3>4. CASE i = 0
      BY <3>1, <3>3, <3>4 DEF Loaded
    <3>5. CASE i # 0
      BY <2>6, <3>1, <3>2, <3>3, <3>5 DEF Loaded
    <3>6. QED
      BY <3>4, <3>5
  <2>9. at'[r] = "next" /\ code'[r] = 0
    BY <1>3, <1>4, <1>5
  <2>10. (\A n \in DOMAIN asked[r] : Loaded(r, n))'
    BY <1>3, <2>8
  <2>11. QED
    BY <2>7, <2>9, <2>10 DEF ReadsOwn
<1>19. PrefReads'
  <2>1. at[r] \notin {"idle", "done"}
    BY <1>3
  <2>2. QED
    BY <1>3, <1>5, <1>18, <2>1, ReadsKeep
<1>20. QED
  BY <1>12, <1>13, <1>15, <1>16, <1>17, <1>19 DEF PrefInv

\* A row is inserted for an entry without one.
LEMMA SaveInsertKeeps ==
  ASSUME PrefInv, NEW r \in Pref!Requests, Pref!SaveInsert(r) PROVE PrefInv'
<1>1. PICK m \in DOMAIN asked[r] :
        /\ m \notin Saved(r) /\ asked[r][m] = change[r][1] /\ Pref!Entry(r) = change[r][1]
        /\ change[r][1] \in Entries
        /\ Tail(change[r]) \in Seq(Entries) /\ Len(Tail(change[r])) <= Len(asked[r])
        /\ \A n \in 1 .. Len(Tail(change[r])) :
             Tail(change[r])[n] = asked[r][Len(asked[r]) - Len(Tail(change[r])) + n]
        /\ Saved(r) \cup {m} = {n \in DOMAIN asked[r] : n <= Len(asked[r]) - Len(Tail(change[r]))}
  <2>1. change[r] # <<>>
    BY DEF Pref!SaveInsert
  <2>2. QED
    BY <2>1, NextEntry DEF PrefInv
<1>2. PICK e, last, row :
        /\ e = change[r][1] /\ last = Len(rows) + 1
        /\ row = [key |-> e.key, by |-> r, columns |->
             [c \in Pref!ColumnsOf(e.key) |->
                IF c \in DOMAIN Pref!Given(e) THEN Pref!Stored(c, Pref!Given(e)[c])
                ELSE Pref!Default(c)]]
  OBVIOUS
<1>3. /\ at[r] = "next" /\ at' = [at EXCEPT ![r] = "next"]
      /\ existing[r][e.key] = 0 /\ rows' = Append(rows, row)
      /\ \A c \in DOMAIN Pref!Given(e) : Pref!Stored(c, Pref!Given(e)[c]) # NoTime
      /\ change' = [change EXCEPT ![r] = Tail(@)]
      /\ UNCHANGED <<asked, code, met, existing, selected, listed, before>>
  BY <1>1, <1>2 DEF Pref!SaveInsert, Pref!Goes, Pref!Missing
<1>4. e \in Entries /\ e.key \in Pref!Keys /\ asked[r][m] = e /\ code[r] = 0
  BY <1>1, <1>2, <1>3, EntryFacts DEF PrefInv, PrefFlow, Pending
<1>5. /\ at' = at /\ change'[r] = Tail(change[r])
      /\ \A s \in Pref!Requests : s # r => change'[s] = change[s]
  BY <1>3 DEF PrefInv, PrefTypes
<1>6. row \in Rows /\ row.key = e.key /\ row.by = r
      /\ DOMAIN row.columns = Pref!ColumnsOf(row.key)
  <2>1. \A c : Pref!Default(c) \in Values /\ Pref!Stored(c, Pref!Default(c)) = Pref!Default(c)
    BY DEF Pref!Default, Pref!Stored, Values
  <2>2. /\ row.key = e.key /\ row.by = r
        /\ row.columns = [c \in Pref!ColumnsOf(e.key) |->
             IF c \in DOMAIN Pref!Given(e) THEN Pref!Stored(c, Pref!Given(e)[c])
             ELSE Pref!Default(c)]
    BY <1>2
  <2>3. row.columns \in Columns(e.key)
    <3>1. ASSUME NEW c \in Pref!ColumnsOf(e.key)
          PROVE  row.columns[c] \in Values /\ Pref!Stored(c, row.columns[c]) = row.columns[c]
      BY <1>3, <1>4, <2>1, <2>2, EntryFacts
    <3>2. row.columns \in [Pref!ColumnsOf(e.key) -> Values]
      BY <2>2, <3>1
    <3>3. QED
      BY <3>1, <3>2 DEF Columns
  <2>4. row \in Rows
    BY <1>2, <1>4, <2>2, <2>3 DEF Rows
  <2>5. QED
    BY <2>2, <2>4
<1>7. /\ rows' \in Seq(Rows) /\ DOMAIN rows = 1 .. Len(rows) /\ DOMAIN rows' = 1 .. last
      /\ rows'[last] = row /\ Len(rows) \in Nat
      /\ \A i \in DOMAIN rows : rows'[i] = rows[i] /\ i \in DOMAIN rows' /\ i < last
      /\ \A i \in DOMAIN rows' : i \in DOMAIN rows \/ i = last
  <2>1. rows \in Seq(Rows)
    BY DEF PrefInv, PrefTypes
  <2>2. QED
    BY <1>2, <1>3, <1>6, <2>1, AppendFacts
<1>8. PrefTypes'
  <2>1. change' \in [Pref!Requests -> Seq(Entries)]
    BY <1>1, <1>3 DEF PrefInv, PrefTypes
  <2>2. QED
    BY <1>3, <1>5, <1>7, <2>1 DEF PrefInv, PrefTypes
<1>9. Overlap'
  BY <1>3, <1>5, OverlapKeeps DEF PrefInv, Pref!Requests
<1>10. /\ Saved(r)' = Saved(r) \cup {m}
       /\ \A s \in Pref!Requests : s # r => Saved(s)' = Saved(s)
  BY <1>1, <1>3, <1>5 DEF Saved
<1>11. PrefFlow'
  <2>1. ASSUME NEW s \in Pref!Requests PROVE Pending(s)'
    <3>1. Pending(s)
      BY DEF PrefInv, PrefFlow
    <3>2. \A k \in Pref!Keys : existing'[s][k] # 0 =>
            existing'[s][k] \in DOMAIN rows' /\ rows'[existing'[s][k]].key = k
      BY <1>3, <1>7, <3>1 DEF Pending
    <3>3. CASE s = r
      <4>1. change'[s] = Tail(change[r]) /\ asked'[s] = asked[r]
        BY <1>3, <1>5, <3>3
      <4>2. Len(change'[s]) <= Len(asked'[s])
        BY <1>1, <4>1
      <4>3. \A n \in 1 .. Len(change'[s]) :
              change'[s][n] = asked'[s][Len(asked'[s]) - Len(change'[s]) + n]
        BY <1>1, <4>1
      <4>4. at'[s] = "next" /\ code'[s] = 0
        BY <1>3, <1>4, <1>5, <3>3
      <4>5. QED
        BY <3>2, <4>2, <4>3, <4>4 DEF Pending
    <3>4. CASE s # r
      <4>1. /\ change'[s] = change[s] /\ asked'[s] = asked[s] /\ at'[s] = at[s]
            /\ code'[s] = code[s] /\ existing'[s] = existing[s]
        BY <1>3, <1>5, <3>4
      <4>2. QED
        BY <3>1, <3>2, <4>1 DEF Pending
    <3>5. QED
      BY <3>3, <3>4
  <2>2. ASSUME NEW i \in DOMAIN rows
        PROVE  /\ DOMAIN rows'[i].columns = Pref!ColumnsOf(rows'[i].key)
               /\ \E n \in Saved(rows[i].by)' : asked'[rows'[i].by][n].key = rows'[i].key
               /\ at'[rows'[i].by] # "idle"
    <3>1. rows'[i] = rows[i] /\ rows[i].by \in Pref!Requests
      BY <1>7, RowFacts DEF PrefInv
    <3>2. PICK n \in Saved(rows[i].by) : asked[rows[i].by][n].key = rows[i].key
      BY DEF PrefInv, PrefFlow
    <3>3. n \in Saved(rows[i].by)'
      BY <1>10, <3>1, <3>2
    <3>4. asked'[rows'[i].by][n].key = rows'[i].key
      BY <1>3, <3>1, <3>2
    <3>5. QED
      BY <1>5, <3>1, <3>3, <3>4 DEF PrefInv, PrefFlow
  <2>3. /\ DOMAIN rows'[last].columns = Pref!ColumnsOf(rows'[last].key)
        /\ m \in Saved(rows[last].by)' /\ asked'[rows'[last].by][m].key = rows'[last].key
        /\ at'[rows'[last].by] # "idle"
    BY <1>3, <1>4, <1>5, <1>6, <1>7, <1>10
  <2>4. QED
    BY <1>7, <2>1, <2>2, <2>3 DEF PrefFlow
<1>12. PrefMissed'
  <2>1. ASSUME NEW s \in Pref!Requests, NEW i \in DOMAIN rows',
               at[s] \in {"next", "update"}, existing[s][rows'[i].key] = 0,
               \E n \in DOMAIN asked[s] : asked[s][n].key = rows'[i].key
        PROVE  rows'[i].by = s \/ s \in met[rows'[i].by]
    <3>1. CASE i \in DOMAIN rows
      BY <1>7, <2>1, <3>1 DEF PrefInv, PrefMissed
    <3>2. CASE i = last
      BY <1>3, <1>6, <1>7, <2>1, <3>2, PrefAlone
    <3>3. QED
      BY <1>7, <3>1, <3>2
  <2>2. QED
    BY <1>3, <1>5, <2>1 DEF PrefMissed
<1>13. Pref!OneRowPerKey'
  <2>1. \A s, k : Pref!Twice(s, k)' <=> Pref!Twice(s, k)
    BY <1>3 DEF Pref!Twice
  <2>2. ASSUME NEW i \in DOMAIN rows, rows[i].key = e.key
        PROVE  r \in met[rows[i].by] \/ (rows[i].by = r /\ Pref!Twice(r, e.key))
    <3>1. rows[i].by = r \/ r \in met[rows[i].by]
      BY <1>3, <1>4, <2>2 DEF PrefInv, PrefMissed
    <3>2. ASSUME rows[i].by = r PROVE Pref!Twice(r, e.key)
      <4>1. PICK n \in Saved(r) : asked[r][n].key = e.key
        BY <2>2, <3>2 DEF PrefInv, PrefFlow
      <4>2. n \in DOMAIN asked[r] /\ n # m
        BY <1>1 DEF Saved
      <4>3. QED
        BY <1>4, <4>1, <4>2 DEF Pref!Twice
    <3>3. QED
      BY <3>1, <3>2
  <2>3. ASSUME NEW i \in DOMAIN rows', NEW j \in DOMAIN rows', i < j, rows'[i].key = rows'[j].key
        PROVE  \/ rows'[j].by \in met[rows'[i].by]
               \/ rows'[i].by = rows'[j].by /\ Pref!Twice(rows'[i].by, rows'[i].key)
    <3>1. i \in DOMAIN rows /\ rows'[i] = rows[i]
      BY <1>2, <1>7, <2>3
    <3>2. CASE j \in DOMAIN rows
      BY <1>7, <2>3, <3>1, <3>2 DEF PrefInv, Pref!OneRowPerKey
    <3>3. CASE j = last
      BY <1>6, <1>7, <2>2, <2>3, <3>1, <3>3
    <3>4. QED
      BY <1>7, <3>2, <3>3
  <2>4. QED
    BY <1>3, <2>1, <2>3 DEF Pref!OneRowPerKey
<1>14. ASSUME met[r] = {} PROVE ReadsOwn(r)'
  <2>1. /\ \A n \in DOMAIN asked[r] : Loaded(r, n)
        /\ \A n \in Saved(r) : ~ Pref!Twice(r, asked[r][n].key) =>
             \E i \in DOMAIN rows : Pref!Follows(r, rows[i], asked[r][n])
    BY <1>3, <1>14 DEF PrefInv, PrefReads, ReadsOwn
  <2>2. Pref!Follows(r, row, e)
    <3>1. \A j \in DOMAIN before[r] : before[r][j].key # e.key
      BY <1>3, <1>4, <2>1 DEF Loaded
    <3>2. [c \in Pref!ColumnsOf(e.key) |-> Pref!Default(c)] \in Pref!Old(r, e.key)
      BY <3>1 DEF Pref!Old
    <3>3. QED
      BY <1>2, <3>2 DEF Pref!Follows
  <2>3. \A n \in Saved(r) \cup {m} : ~ Pref!Twice(r, asked[r][n].key) =>
          \E i \in DOMAIN rows' : Pref!Follows(r, rows'[i], asked[r][n])
    BY <1>2, <1>4, <1>7, <2>1, <2>2
  <2>4. /\ \A k : Pref!Twice(r, k)' <=> Pref!Twice(r, k)
        /\ \A x, y : Pref!Follows(r, x, y)' <=> Pref!Follows(r, x, y)
    BY <1>3, FollowsKept DEF Pref!Twice
  <2>5. (\A n \in Saved(r) : ~ Pref!Twice(r, asked[r][n].key) =>
           \E i \in DOMAIN rows : Pref!Follows(r, rows[i], asked[r][n]))'
    BY <1>3, <1>10, <2>3, <2>4
  <2>6. ASSUME NEW n \in DOMAIN asked[r] PROVE Loaded(r, n)'
    <3> DEFINE k == asked[r][n].key
               i == existing[r][k]
    <3>1. Loaded(r, n) /\ k \in Pref!Keys
      BY <2>1, AskedFacts, EntryFacts DEF PrefInv
    <3>2. i # 0 => rows'[i] = rows[i]
      BY <1>7, <3>1 DEF PrefInv, PrefFlow, Pending
    <3>3. QED
      BY <1>3, <1>10, <2>4, <3>1, <3>2 DEF Loaded
  <2>7. at'[r] = "next" /\ code'[r] = 0
    BY <1>3, <1>4, <1>5
  <2>8. (\A n \in DOMAIN asked[r] : Loaded(r, n))'
    BY <1>3, <2>6
  <2>9. QED
    BY <2>5, <2>7, <2>8 DEF ReadsOwn
<1>15. PrefReads'
  <2>1. at[r] \notin {"idle", "done"}
    BY <1>3
  <2>2. QED
    BY <1>3, <1>5, <1>14, <2>1, ReadsKeep
<1>16. QED
  BY <1>8, <1>9, <1>11, <1>12, <1>13, <1>15 DEF PrefInv

\* Every step of a request keeps the invariant.
LEMMA PreferencesKeep == PrefInv /\ Pref!Next => PrefInv'
<1> SUFFICES ASSUME PrefInv, Pref!Next PROVE PrefInv'
  OBVIOUS
<1>1. PICK r \in Pref!Requests :
        \/ \E entries \in Changes(r) : Pref!Arrive(r, entries)
        \/ Pref!FindExisting(r) \/ Pref!SaveSelect(r) \/ Pref!SaveUpdate(r) \/ Pref!SaveInsert(r)
        \/ Pref!List(r) \/ Pref!Fail(r)
  BY DEF Pref!Next
<1>2. QED
  BY <1>1, ArrivePrefKeeps, FindExistingKeeps, SaveSelectKeeps, SaveUpdateKeeps,
     SaveInsertKeeps, ListPrefKeeps, FailPrefKeeps

\* Nothing is stored at first.
LEMMA PreferencesStart == Pref!Init => PrefInv
<1> SUFFICES ASSUME Pref!Init PROVE PrefInv
  OBVIOUS
<1>1. /\ \A r \in Pref!Requests :
           /\ at[r] = "idle" /\ code[r] = 0 /\ change[r] = <<>> /\ asked[r] = <<>> /\ met[r] = {}
           /\ existing[r] = Pref!NoRows /\ listed[r] = {}
      /\ rows = <<>>
  BY DEF Pref!Init
<1>2. Pref!NoRows \in [Pref!Keys -> Nat] /\ \A k \in Pref!Keys : Pref!NoRows[k] = 0
  BY DEF Pref!NoRows
<1>3. /\ <<>> \in Seq(Entries) /\ <<>> \in Seq(Rows) /\ Len(<<>>) = 0 /\ DOMAIN <<>> = {}
      /\ 1 .. 0 = {}
  OBVIOUS
<1>4. PrefTypes
  BY <1>2, <1>3 DEF Pref!Init, PrefTypes
<1>5. Overlap
  BY <1>1 DEF Overlap, Pref!Requests
<1>6. \A r \in Pref!Requests : Pending(r)
  <2>1. SUFFICES ASSUME NEW r \in Pref!Requests PROVE Pending(r)
    OBVIOUS
  <2>2. Len(change[r]) = 0 /\ Len(asked[r]) = 0
    BY <1>1, <1>3
  <2>3. Len(change[r]) <= Len(asked[r]) /\ \A n : n \notin 1 .. Len(change[r])
    BY <1>3, <2>2
  <2>4. QED
    BY <1>1, <1>2, <2>2, <2>3 DEF Pending
<1>7. PrefFlow /\ PrefMissed /\ Pref!OneRowPerKey
  BY <1>1, <1>3, <1>6 DEF PrefFlow, PrefMissed, Pref!OneRowPerKey
<1>8. PrefReads
  BY <1>1, <1>3 DEF PrefReads, ReadsOwn
<1>9. QED
  BY <1>4, <1>5, <1>7, <1>8 DEF PrefInv

\* What a request that met nobody has saved is what it is shown.
LEMMA PreferencesSound == PrefInv => Pref!ReadsBack
<1> SUFFICES ASSUME PrefInv PROVE Pref!ReadsBack
  OBVIOUS
<1>1. ASSUME NEW r \in Pref!Requests, code[r] = 200, met[r] = {},
             NEW i \in DOMAIN asked[r], ~ Pref!Twice(r, asked[r][i].key)
      PROVE  \E row \in listed[r] : Pref!Follows(r, row, asked[r][i])
  BY <1>1 DEF PrefInv, PrefReads, ReadsOwn
<1>2. QED
  BY <1>1 DEF Pref!ReadsBack

\* What holds of the behaviours that are about settings.
InPreferences == area = "preferences" => PrefInv

\* No other step changes what it is about, so it holds always.
LEMMA PreferencesStay ==
  /\ AppInit => InPreferences
  /\ InPreferences /\ [AppNext]_vars => InPreferences'
<1>1. AppInit => InPreferences
  BY PreferencesStart DEF AppInit, InPreferences
<1>2. ASSUME InPreferences, AppNext PROVE InPreferences'
  <2>1. CASE area = "preferences"
    BY <1>2, <2>1, PreferencesKeep DEF AppNext, InPreferences
  <2>2. CASE area # "preferences"
    BY <1>2, <2>2 DEF AppNext, InPreferences
  <2>3. QED
    BY <2>1, <2>2
<1>3. ASSUME InPreferences, UNCHANGED vars PROVE InPreferences'
  <2>1. UNCHANGED <<area, at, code, met, change, asked, existing, selected, rows, listed,
                    before>>
    BY <1>3 DEF vars, progress, preferences
  <2>2. ASSUME PrefInv PROVE PrefInv'
    <3>1. PrefTypes' /\ Overlap'
      BY <2>1, <2>2 DEF PrefInv, PrefTypes, Overlap
    <3>2. \A r : Saved(r)' = Saved(r) /\ Pending(r)' = Pending(r)
      BY <2>1 DEF Saved, Pending
    <3>3. \A r, k : Pref!Twice(r, k)' <=> Pref!Twice(r, k)
      BY <2>1 DEF Pref!Twice
    <3>4. PrefFlow' /\ PrefMissed' /\ Pref!OneRowPerKey'
      BY <2>1, <2>2, <3>2, <3>3 DEF PrefInv, PrefFlow, PrefMissed, Pref!OneRowPerKey
    <3>5. ASSUME NEW r \in Pref!Requests, ReadsOwn(r) PROVE ReadsOwn(r)'
      <4>1. /\ \A row, e : Pref!Follows(r, row, e)' <=> Pref!Follows(r, row, e)
            /\ \A n : Loaded(r, n)' <=> Loaded(r, n)
        BY <2>1, <3>2, <3>3, FollowsKept DEF Loaded
      <4>2. QED
        BY <2>1, <3>2, <3>3, <3>5, <4>1 DEF ReadsOwn
    <3>6. PrefReads'
      BY <2>1, <2>2, <3>5 DEF PrefInv, PrefReads
    <3>7. QED
      BY <3>1, <3>4, <3>6 DEF PrefInv
  <2>3. QED
    BY <1>3, <2>1, <2>2 DEF InPreferences
<1>4. QED
  BY <1>1, <1>2, <1>3

\* A key has two rows only if two requests that inserted them were in flight together,
\* or one of them named it twice.
THEOREM RowsAreOnePerKey == AppSpec => []OneRowPerKey
<1>1. InPreferences => OneRowPerKey
  BY DEF InPreferences, PrefInv, OneRowPerKey
<1>2. QED
  BY <1>1, PreferencesStay, PTL DEF AppSpec

\* A request that met no other one is shown what it asked for.
THEOREM SettingsReadBack == AppSpec => []ReadsBack
<1>1. InPreferences => ReadsBack
  BY PreferencesSound DEF InPreferences, ReadsBack
<1>2. QED
  BY <1>1, PreferencesStay, PTL DEF AppSpec

-----------------------------------------------------------------------------
(* Types.                                                                  *)

\* The last of a sequence are a suffix of it.
LEMMA SuffixFacts ==
  ASSUME NEW S, NEW s \in Seq(S), NEW t \in Seq(S), Len(s) <= Len(t),
         \A n \in 1 .. Len(s) : s[n] = t[Len(t) - Len(s) + n]
  PROVE  Pref!IsSuffix(s, t)
<1> DEFINE u == Pref!Reverse(s)
           v == Pref!Reverse(t)
<1>1. Len(s) \in Nat /\ Len(t) \in Nat
  BY LenProperties
<1>2. /\ u = [i \in 1 .. Len(s) |-> s[(Len(s) - i) + 1]]
      /\ v = [i \in 1 .. Len(t) |-> t[(Len(t) - i) + 1]]
  BY DEF Pref!Reverse
<1>3. \A i \in 1 .. Len(s) : Len(s) - i + 1 \in 1 .. Len(s) /\ s[Len(s) - i + 1] \in S
  BY <1>1, ElementOfSeq
<1>4. \A i \in 1 .. Len(t) : Len(t) - i + 1 \in 1 .. Len(t) /\ t[Len(t) - i + 1] \in S
  BY <1>1, ElementOfSeq
<1>5. u \in Seq(S) /\ v \in Seq(S) /\ Len(u) = Len(s) /\ Len(v) = Len(t)
  BY <1>1, <1>2, <1>3, <1>4, SeqDef, LenProperties
<1>6. \A i \in 1 .. Len(s) : u[i] = v[i]
  <2>1. SUFFICES ASSUME NEW i \in 1 .. Len(s) PROVE u[i] = v[i]
    OBVIOUS
  <2>2. s[Len(s) - i + 1] = t[Len(t) - Len(s) + (Len(s) - i + 1)]
    BY <1>3
  <2>3. Len(t) - Len(s) + (Len(s) - i + 1) = Len(t) - i + 1
    BY <1>1
  <2>4. i \in 1 .. Len(t)
    BY <1>1
  <2>5. QED
    BY <1>2, <2>2, <2>3, <2>4
<1> HIDE DEF u, v
<1>7. SubSeq(u, 1, Len(u)) = SubSeq(v, 1, Len(u))
  <2>1. SubSeq(u, 1, Len(u)) = [i \in 1 .. Len(u) |-> u[i]]
    BY <1>1, <1>5
  <2>2. SubSeq(v, 1, Len(u)) = [i \in 1 .. Len(u) |-> v[i]]
    BY <1>1, <1>5
  <2>3. QED
    BY <1>5, <1>6, <2>1, <2>2
<1>8. Pref!IsPrefix(u, v)
  BY <1>5, <1>7 DEF Pref!IsPrefix
<1>9. QED
  BY <1>8 DEF Pref!IsSuffix, u, v

\* What a request has not saved yet is the end of what it asked.
LEMMA PreferencesTyped == PrefInv => Pref!TypeOK
<1>1. SUFFICES ASSUME PrefInv PROVE Pref!TypeOK
  OBVIOUS
<1>2. ASSUME NEW r \in Pref!Requests PROVE Pref!IsSuffix(change[r], asked[r])
  <2>1. change[r] \in Seq(Entries) /\ asked[r] \in Seq(Entries)
    BY <1>1 DEF PrefInv, PrefTypes
  <2>2. /\ Len(change[r]) <= Len(asked[r])
        /\ \A n \in 1 .. Len(change[r]) :
             change[r][n] = asked[r][Len(asked[r]) - Len(change[r]) + n]
    BY <1>1 DEF PrefInv, PrefFlow, Pending
  <2>3. QED
    BY <2>1, <2>2, SuffixFacts
<1>3. ASSUME NEW i \in DOMAIN rows
      PROVE  rows[i].key \in Pref!Keys /\ DOMAIN rows[i].columns = Pref!ColumnsOf(rows[i].key)
  <2>1. rows[i].key \in Pref!Keys
    BY <1>1, <1>3, RowFacts DEF PrefInv
  <2>2. QED
    BY <1>1, <1>3, <2>1 DEF PrefInv, PrefFlow
<1>4. at \in [Pref!Requests -> {"idle", "find", "next", "update", "done"}]
      /\ code \in [Pref!Requests -> {0, 200, 500}]
  BY <1>1 DEF PrefInv, PrefTypes
<1>5. QED
  BY <1>2, <1>3, <1>4 DEF Pref!TypeOK

\* A choice belongs to a character that exists.
LEMMA CharactersTyped == CharInv => Char!TypeOK
<1>1. SUFFICES ASSUME CharInv PROVE Char!TypeOK
  OBVIOUS
<1>2. /\ at \in [Char!Requests -> {"idle", "options", "current", "create", "clear", "select",
                                  "save", "delete", "insert", "done"}]
      /\ wish \in [Char!Requests -> Char!Wish \cup {[options |-> {}, makeCurrent |-> FALSE]}]
  BY <1>1 DEF CharInv, CharTypes
<1>3. character \in [Char!Requests -> 0 .. Len(characters)]
  BY <1>1 DEF CharInv, CharTypes, CharFlow
<1>4. ASSUME NEW a \in attributes PROVE a.character \in DOMAIN characters /\ a.option \in Options
  <2>1. a \in Known /\ a \in Choices
    BY <1>1 DEF CharInv, CharTypes, Known
  <2>2. a.by \in Char!Requests /\ a.option \in Options
    BY <2>1 DEF Choices
  <2>3. code[a.by] = 200 /\ a.character = character[a.by]
    BY <1>1, <2>1 DEF CharInv, CharFlow
  <2>4. character[a.by] # 0 /\ character[a.by] \in 0 .. Len(characters)
    BY <1>1, <2>2, <2>3 DEF CharInv, CharFlow
  <2>5. Len(characters) \in Nat /\ DOMAIN characters = 1 .. Len(characters)
    BY <1>1, LenProperties DEF CharInv, CharTypes
  <2>6. QED
    BY <2>2, <2>3, <2>4, <2>5
<1>5. QED
  BY <1>2, <1>3, <1>4 DEF Char!TypeOK

\* A token belongs to an account that exists.
LEMMA AccountsTyped == AcctInv => Acct!TypeOK
<1>1. SUFFICES ASSUME AcctInv PROVE Acct!TypeOK
  OBVIOUS
<1>2. ASSUME NEW t \in Acct!Issued PROVE t.until \in Int /\ \E u \in users : t.sub = u.id
  <2>1. PICK r \in Acct!Requests : t \in tokens[r]
    BY DEF Acct!Issued
  <2>2. HasId(t.sub) /\ t.until \in Int
    BY <1>1, <2>1 DEF AcctInv, AcctFlow, Opened
  <2>3. QED
    BY <2>2 DEF HasId
<1>3. ASSUME NEW r \in Acct!Requests PROVE now \in Nat /\ since[r] \in 0 .. now
  BY <1>1 DEF AcctInv, AcctTypes
<1>4. /\ at \in [Acct!Requests -> {"idle", "register", "insert", "login", "refresh", "sign",
                                  "rename", "save", "done"}]
      /\ code \in [Acct!Requests -> {0, 200, 201, 401, 409, 500}]
      /\ user \in [Acct!Requests -> 0 .. NumRequests]
      /\ names \in [Acct!Requests -> 0 .. NumRequests]
      /\ now \in Nat
      /\ \A u \in users : u.id \in Acct!Requests
  BY <1>1 DEF AcctInv, AcctTypes, AcctUsers
<1>5. QED
  BY <1>2, <1>3, <1>4 DEF Acct!TypeOK

\* What was heard was stored, and nothing twice.
LEMMA ChatTyped == TalkInv => Talk!TypeOK
<1>1. SUFFICES ASSUME TalkInv PROVE Talk!TypeOK
  OBVIOUS
<1>2. Talk!IsInjective(messages) /\ Talk!IsInjective(heard)
  BY <1>1 DEF TalkInv, TalkOnce, Talk!IsInjective
<1>3. Talk!Range(heard) \subseteq Talk!Range(messages)
  <2>1. ASSUME NEW i \in DOMAIN heard PROVE \E j \in DOMAIN messages : messages[j] = heard[i]
    <3>1. heard[i] \in Talk!Requests
      BY <1>1, <2>1, AppendFacts, ElementOfSeq, LenProperties DEF TalkInv, TalkTypes
    <3>2. QED
      BY <1>1, <2>1, <3>1 DEF TalkInv, TalkFlow, Heard, Stored
  <2>2. QED
    BY <2>1 DEF Talk!Range
<1>4. QED
  BY <1>1, <1>2, <1>3 DEF TalkInv, TalkTypes, Talk!TypeOK

\* The tables have the rows and the requests the answers of their types: a row has
\* the columns of its entity, a choice and a token belong to what exists, what was
\* heard was stored, and nothing is stored, or heard, twice.
THEOREM AppTypeCorrect == AppSpec => []AppTypeOK
<1> DEFINE Inv == /\ area \in {"preferences", "character", "accounts", "chat"}
                  /\ InPreferences /\ InCharacter /\ InAccounts /\ InChat
<1>1. AppInit => Inv
  BY PreferencesStay, CharactersStay, AccountsStay, ChatStays DEF AppInit
<1>2. Inv /\ [AppNext]_vars => Inv'
  <2>1. [AppNext]_vars => area' = area
    BY DEF AppNext, vars
  <2>2. QED
    BY <2>1, PreferencesStay, CharactersStay, AccountsStay, ChatStays
<1>3. Inv => AppTypeOK
  <2>1. SUFFICES ASSUME Inv PROVE AppTypeOK
    OBVIOUS
  <2>2. CASE area = "preferences"
    BY <2>1, <2>2, PreferencesTyped DEF AppTypeOK, InPreferences
  <2>3. CASE area = "character"
    BY <2>1, <2>3, CharactersTyped DEF AppTypeOK, InCharacter
  <2>4. CASE area = "accounts"
    BY <2>1, <2>4, AccountsTyped DEF AppTypeOK, InAccounts
  <2>5. CASE area = "chat"
    BY <2>1, <2>5, ChatTyped DEF AppTypeOK, InChat
  <2>6. QED
    BY <2>1, <2>2, <2>3, <2>4, <2>5
<1> HIDE DEF Inv
<1>4. QED
  BY <1>1, <1>2, <1>3, PTL DEF AppSpec
=============================================================================
