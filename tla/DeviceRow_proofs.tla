--------------------------- MODULE DeviceRow_proofs ---------------------------
(***************************************************************************)
(* Proofs about DeviceRow: the inductive invariant IndInv, and from it the *)
(* action properties, for every set of devices, users, slots and values.   *)
(***************************************************************************)
EXTENDS DeviceRow, TLAPS

-----------------------------------------------------------------------------
(* Facts about requests.                                                   *)

\* What the proofs use of a request: it assigns columns values of their
\* types, only pairing assigns the owner, and it assigns its own account.
Sound(q) ==
  /\ q.dev \in DeviceIds
  /\ q.kind \in AllKinds
  /\ DOMAIN q.patch \subseteq Columns
  /\ \A c \in DOMAIN q.patch : q.patch[c] \in MemDomain(c)
  /\ "user" \in DOMAIN q.patch <=> q.kind = "pair"
  /\ q.kind = "pair" => /\ q.patch["user"] = q.by
                        /\ \A c \in DOMAIN q.patch : q.patch[c] \in Domain[c]
  /\ q.kind = "ensure" => DOMAIN q.patch = {}

\* Every request that can arrive is sound.
LEMMA RequestsSound == \A q \in AllRequests : Sound(q)
<1> USE DEF Sound, Requests, AllKinds, Columns, Domain, MemDomain
<1>1. \A q \in PairRequests : Sound(q)
  <2> SUFFICES ASSUME NEW q \in PairRequests PROVE Sound(q)
    OBVIOUS
  <2>1. PICK u \in Users :
          q \in Requests("pair", {u}, [user: {u}] \cup [user: {u}, deviceName: Names])
    BY DEF PairRequests
  <2>2. CASE q.patch \in [user: {u}]
    BY <2>1, <2>2
  <2>3. CASE q.patch \in [user: {u}, deviceName: Names]
    BY <2>1, <2>3
  <2>4. QED
    BY <2>1, <2>2, <2>3
<1>2. \A q \in HeartbeatRequests : Sound(q)
  BY DEF HeartbeatRequests
<1>3. \A q \in SensorDataRequests : Sound(q)
  BY DEF SensorDataRequests
<1>4. \A q \in RegisterCameraRequests : Sound(q)
  BY DEF RegisterCameraRequests
<1>5. \A q \in RemoveCameraRequests : Sound(q)
  BY DEF RemoveCameraRequests
<1>6. \A q \in UpdateDeviceRequests : Sound(q)
  BY DEF UpdateDeviceRequests
<1>7. \A q \in CommandRequests : Sound(q)
  BY DEF CommandRequests
<1>8. \A q \in EnsureRequests : Sound(q)
  BY DEF EnsureRequests
<1> HIDE DEF Sound
<1>9. QED
  BY <1>1, <1>2, <1>3, <1>4, <1>5, <1>6, <1>7, <1>8 DEF AllRequests

-----------------------------------------------------------------------------
(* Facts about the operators.                                              *)

\* A fresh row has every column, at a value of its type.
LEMMA BlankRowFacts ==
  /\ DOMAIN BlankRow = Columns
  /\ \A c \in Columns : BlankRow[c] \in Domain[c]
BY DEF BlankRow, Columns, Domain

\* Memory holds what the row may hold, and undefined but for deviceConfig.
LEMMA MemDomainFacts ==
  /\ \A c \in Columns : Domain[c] \subseteq MemDomain(c)
  /\ MemDomain("deviceConfig") = Domain["deviceConfig"]
  /\ Undefined \in MemDomain("user")
BY DEF MemDomain

\* A find leaves out the owner or nothing.
LEMMA LoadedFacts ==
  ASSUME NEW kind, NEW row, DOMAIN row = Columns
  PROVE  /\ DOMAIN Loaded(kind, row) = Columns
         /\ \A c \in Columns \ {"user"} : Loaded(kind, row)[c] = row[c]
         /\ kind \in WithoutUser => Loaded(kind, row)["user"] = Undefined
         /\ kind \notin WithoutUser => Loaded(kind, row) = row
BY DEF Loaded, Columns

\* An entity after the assignments, column by column.
LEMMA AssignedFacts ==
  ASSUME NEW entity, NEW patch
  PROVE  /\ DOMAIN Assigned(entity, patch) = Columns
         /\ \A c \in Columns \ DOMAIN patch : Assigned(entity, patch)[c] = entity[c]
         /\ \A c \in (Columns \cap DOMAIN patch) \ {"deviceConfig"} :
              Assigned(entity, patch)[c] = patch[c]
         /\ "deviceConfig" \in DOMAIN patch =>
              Assigned(entity, patch)["deviceConfig"]
                = entity["deviceConfig"] \cup patch["deviceConfig"]
BY DEF Assigned, Columns

\* A patch of the right types keeps an entity of the right types so.
LEMMA AssignedType ==
  ASSUME NEW entity, NEW q, Sound(q),
         \A c \in Columns : entity[c] \in MemDomain(c),
         entity["deviceConfig"] \in Domain["deviceConfig"]
  PROVE  \A c \in Columns :
           Assigned(entity, q.patch)[c] \in MemDomain(c)
<1> SUFFICES ASSUME NEW c \in Columns
             PROVE Assigned(entity, q.patch)[c] \in MemDomain(c)
  OBVIOUS
<1>1. CASE c \notin DOMAIN q.patch
  BY <1>1, AssignedFacts
<1>2. CASE c \in DOMAIN q.patch /\ c # "deviceConfig"
  BY <1>2, AssignedFacts DEF Sound
<1>3. CASE c \in DOMAIN q.patch /\ c = "deviceConfig"
  <2>1. /\ entity["deviceConfig"] \in SUBSET Settings
        /\ q.patch["deviceConfig"] \in SUBSET Settings
    BY <1>3, MemDomainFacts DEF Sound, Domain
  <2>2. Assigned(entity, q.patch)[c] \in SUBSET Settings
    BY <1>3, <2>1, AssignedFacts
  <2>3. QED
    BY <1>3, <2>2 DEF Domain, MemDomain
<1>4. QED
  BY <1>1, <1>2, <1>3

\* A row after the UPDATE of some columns, column by column.
LEMMA MergedFacts ==
  ASSUME NEW row, NEW entity, NEW cols
  PROVE  /\ DOMAIN Merged(row, entity, cols) = Columns
         /\ \A c \in Columns \cap cols : Merged(row, entity, cols)[c] = entity[c]
         /\ \A c \in Columns \ cols : Merged(row, entity, cols)[c] = row[c]
BY DEF Merged

-----------------------------------------------------------------------------
(* What a step leaves of the invariant of the other slots.                 *)

\* A slot keeps its invariant while nobody writes.
LEMMA QuietFrame ==
  ASSUME IndInv, NEW t \in Slots, UNCHANGED <<known, rows>>,
         pc'[t] = pc[t], req'[t] = req[t], mem'[t] = mem[t], diff'[t] = diff[t],
         overtaken'[t] = overtaken[t], unguarded'[t] = unguarded[t]
  PROVE  SlotInv(t)'
<1> USE DEF IndInv, SlotInv, Row, HasRow
<1>1. RowInv(t)'
  BY DEF RowInv
<1>2. EntityInv(t)'
  BY DEF EntityInv
<1>3. DiffInv(t)'
  BY DEF DiffInv
<1>4. GuardInv(t)'
  BY DEF GuardInv
<1>5. QED
  BY <1>1, <1>2, <1>3, <1>4

\* A slot keeps its invariant when another writes its row: each column that
\* changes under it is recorded.
LEMMA WriteFrame ==
  ASSUME IndInv, NEW s \in Slots, NEW t \in Slots, t # s, NEW new,
         pc[s] # "idle", Write(s, new),
         pc'[t] = pc[t], req'[t] = req[t], mem'[t] = mem[t], diff'[t] = diff[t]
  PROVE  SlotInv(t)'
<1> DEFINE d == req[s].dev
<1> DEFINE same == pc[t] # "idle" /\ req[t].dev = d
<1>1. d \in DeviceIds /\ req[s] \in AllRequests
  BY RequestsSound DEF IndInv, SlotInv, RowInv, Sound
<1>2. rows' = [rows EXCEPT ![d] = new] /\ known \subseteq known' /\ d \in known'
  BY DEF Write
<1>3. overtaken[t] \subseteq overtaken'[t] /\ unguarded[t] \subseteq unguarded'[t]
  BY DEF Write, Note, IndInv, TypeOK
<1>4. pc[t] \in {"select", "update"} =>
        \A c \in Columns : Row(t)'[c] = Row(t)[c] \/ c \in overtaken'[t]
  BY <1>1, <1>2 DEF Write, Note, Row, IndInv, TypeOK
<1>5. pc[t] \in {"find", "insert", "select", "update"} =>
        \A c \in Columns : Row(t)'[c] = Row(t)[c] \/ c \in unguarded'[t]
  BY <1>1, <1>2 DEF Write, Note, Row, IndInv, TypeOK
<1>6. pc[t] \in Phases
  BY DEF IndInv, TypeOK
<1>7. RowInv(t)'
  BY <1>2 DEF IndInv, SlotInv, RowInv, HasRow
<1>8. EntityInv(t)'
  <2> SUFFICES ASSUME pc[t] \in {"select", "update"} PROVE EntityInv(t)'
    BY DEF EntityInv
  <2>1. EntityInv(t)
    BY DEF IndInv, SlotInv
  <2>2. "user" \in Columns /\ "deviceConfig" \in Columns
    BY DEF Columns
  <2>3. QED
    BY <1>3, <1>4, <2>1, <2>2 DEF EntityInv
<1>9. DiffInv(t)'
  <2> SUFFICES ASSUME pc[t] = "update" PROVE DiffInv(t)'
    BY DEF DiffInv
  <2>1. DiffInv(t)
    BY DEF IndInv, SlotInv
  <2>2. QED
    BY <1>3, <1>4, <2>1 DEF DiffInv
<1>10. GuardInv(t)'
  <2> SUFFICES ASSUME pc[t] \notin {"idle", "check"} PROVE GuardInv(t)'
    BY DEF GuardInv
  <2>1. GuardInv(t)
    BY DEF IndInv, SlotInv
  <2>2. "user" \in Columns /\ "rtspUrl" \in Columns
    BY DEF Columns
  <2>3. QED
    BY <1>3, <1>5, <1>6, <2>1, <2>2 DEF GuardInv, Phases
<1>11. QED
  BY <1>7, <1>8, <1>9, <1>10 DEF SlotInv

\* A slot that has answered satisfies its invariant.
LEMMA AnswerInv ==
  ASSUME IndInv, NEW s \in Slots, NEW a, Answer(s, a)
  PROVE  SlotInv(s)'
<1>1. pc'[s] = "idle" /\ req'[s] = NoRequest
  BY DEF Answer, IndInv, TypeOK
<1>2. QED
  BY <1>1 DEF SlotInv, RowInv, EntityInv, DiffInv, GuardInv

-----------------------------------------------------------------------------
(* Typing of the steps.                                                    *)

\* Answering keeps the types.
LEMMA AnswerType ==
  ASSUME IndInv, NEW s \in Slots, NEW a \in {"ok", "refused", "error"},
         Answer(s, a)
  PROVE  /\ pc' \in [Slots -> Phases]
         /\ req' \in [Slots -> AllRequests \cup {NoRequest}]
         /\ DOMAIN mem' = Slots
         /\ \A t \in Slots : DOMAIN mem'[t] = Columns
         /\ \A t \in Slots : \A c \in Columns :
              mem'[t][c] \in MemDomain(c)
         /\ diff' \in [Slots -> SUBSET Columns]
         /\ reply' \in [Slots -> {"none", "ok", "refused", "error"}]
<1> USE DEF Answer, IndInv, TypeOK
<1>1. /\ pc' \in [Slots -> Phases]
      /\ req' \in [Slots -> AllRequests \cup {NoRequest}]
      /\ diff' \in [Slots -> SUBSET Columns]
      /\ reply' \in [Slots -> {"none", "ok", "refused", "error"}]
  BY DEF Phases
<1>2. /\ DOMAIN mem' = Slots
      /\ mem'[s] = BlankRow
      /\ \A t \in Slots \ {s} : mem'[t] = mem[t]
  OBVIOUS
<1>3. QED
  BY <1>1, <1>2, BlankRowFacts, MemDomainFacts

\* Writing a well-typed row keeps the types, and the blank rows blank.
LEMMA WriteType ==
  ASSUME IndInv, NEW s \in Slots, pc[s] # "idle", NEW new, Write(s, new),
         DOMAIN new = Columns, \A c \in Columns : new[c] \in Domain[c]
  PROVE  /\ known' \subseteq DeviceIds
         /\ DOMAIN rows' = DeviceIds
         /\ \A d \in DeviceIds : DOMAIN rows'[d] = Columns
         /\ \A d \in DeviceIds : \A c \in Columns : rows'[d][c] \in Domain[c]
         /\ overtaken' \in [Slots -> SUBSET Columns]
         /\ unguarded' \in [Slots -> SUBSET Columns]
         /\ \A d \in DeviceIds \ known' : rows'[d] = BlankRow
<1>1. req[s].dev \in DeviceIds
  BY RequestsSound DEF IndInv, SlotInv, RowInv, Sound
<1>2. /\ known' = known \cup {req[s].dev}
      /\ rows' = [rows EXCEPT ![req[s].dev] = new]
  BY DEF Write
<1>3. /\ overtaken' \in [Slots -> SUBSET Columns]
      /\ unguarded' \in [Slots -> SUBSET Columns]
  BY DEF Write, Note, IndInv, TypeOK
<1>4. QED
  BY <1>1, <1>2, <1>3 DEF IndInv, TypeOK

\* Starting the history afresh keeps its types.
LEMMA ForgetType ==
  ASSUME IndInv, NEW s \in Slots, Forget(s)
  PROVE  /\ overtaken' \in [Slots -> SUBSET Columns]
         /\ unguarded' \in [Slots -> SUBSET Columns]
BY DEF Forget, IndInv, TypeOK

-----------------------------------------------------------------------------
(* The invariant is inductive: one lemma per action.                       *)

\* The invariant holds at first.
LEMMA InitIndInv == Init => IndInv
<1> SUFFICES ASSUME Init PROVE IndInv
  OBVIOUS
<1>1. TypeOK
  BY BlankRowFacts, MemDomainFacts DEF Init, TypeOK, Phases
<1>2. \A s \in Slots : SlotInv(s)
  BY DEF Init, SlotInv, RowInv, EntityInv, DiffInv, GuardInv
<1>3. QED
  BY <1>1, <1>2 DEF Init, IndInv

\* A step that ends the handler of s without writing.
LEMMA GiveUp ==
  ASSUME IndInv, NEW s \in Slots, NEW a \in {"ok", "refused", "error"},
         Answer(s, a), Forget(s), UNCHANGED <<known, rows>>
  PROVE  IndInv'
<1>1. TypeOK'
  BY AnswerType, ForgetType DEF IndInv, TypeOK
<1>2. \A d \in DeviceIds \ known' : rows'[d] = BlankRow
  BY DEF IndInv
<1>3. ASSUME NEW t \in Slots PROVE SlotInv(t)'
  <2>1. CASE t = s
    BY <2>1, AnswerInv
  <2>2. CASE t # s
    BY <2>2, QuietFrame DEF Answer, Forget, IndInv, TypeOK
  <2>3. QED
    BY <2>1, <2>2
<1>4. QED
  BY <1>1, <1>2, <1>3 DEF IndInv

\* A request that arrives starts at its check or its find, with nothing read.
LEMMA ArriveInv ==
  ASSUME IndInv, NEW s \in Slots, Arrive(s) PROVE IndInv'
<1>1. PICK q \in AllRequests :
        /\ req' = [req EXCEPT ![s] = q]
        /\ pc' = [pc EXCEPT ![s] = IF q.kind \in Guarded THEN "check" ELSE "find"]
        /\ q.kind = "command" => q.dev \in known
  BY DEF Arrive
<1>2. /\ reply' = [reply EXCEPT ![s] = "none"]
      /\ Forget(s)
      /\ UNCHANGED <<known, rows, mem, diff>>
  BY DEF Arrive
<1>3. TypeOK'
  BY <1>1, <1>2, ForgetType DEF IndInv, TypeOK, Phases
<1>4. \A d \in DeviceIds \ known' : rows'[d] = BlankRow
  BY <1>2 DEF IndInv
<1>5. ASSUME NEW t \in Slots PROVE SlotInv(t)'
  <2>1. CASE t = s
    <3>1. req'[s] = q /\ pc'[s] = IF q.kind \in Guarded THEN "check" ELSE "find"
      BY <1>1 DEF IndInv, TypeOK
    <3>2. /\ pc'[s] \in {"check", "find"}
          /\ pc'[s] = "check" => q.kind \in Guarded
          /\ pc'[s] = "find" /\ req'[s].kind \in WithoutUser => q.dev \in known'
      BY <1>1, <1>2, <3>1 DEF WithoutUser, Guarded
    <3>3. RowInv(s)'
      BY <3>1, <3>2 DEF RowInv, HasRow
    <3>4. GuardInv(s)'
      BY <3>1 DEF GuardInv, Guarded
    <3>5. QED
      BY <2>1, <3>1, <3>3, <3>4 DEF SlotInv, EntityInv, DiffInv
  <2>2. CASE t # s
    BY <1>1, <1>2, <2>2, QuietFrame DEF Forget, IndInv, TypeOK
  <2>3. QED
    BY <2>1, <2>2
<1>6. QED
  BY <1>3, <1>4, <1>5 DEF IndInv

\* The check of a guarded handler is what GuardInv remembers of it.
LEMMA CheckInv ==
  ASSUME IndInv, NEW s \in Slots, Check(s) PROVE IndInv'
<1>1. /\ pc[s] = "check" /\ MayProceed(s)
      /\ pc' = [pc EXCEPT ![s] = "find"]
      /\ Forget(s)
      /\ UNCHANGED <<known, rows, req, mem, diff, reply>>
  BY DEF Check
<1>2. TypeOK'
  BY <1>1, ForgetType DEF IndInv, TypeOK, Phases
<1>3. \A d \in DeviceIds \ known' : rows'[d] = BlankRow
  BY <1>1 DEF IndInv
<1>4. ASSUME NEW t \in Slots PROVE SlotInv(t)'
  <2>1. CASE t = s
    <3>1. pc'[s] = "find" /\ req'[s] = req[s] /\ req[s] \in AllRequests
      BY <1>1 DEF IndInv, TypeOK, SlotInv, RowInv
    <3>2. req[s].dev \in DeviceIds
      BY <3>1, RequestsSound DEF Sound
    <3>3. req[s].kind = "registerCamera" => Row(s)["rtspUrl"] = None
      BY <1>1, <3>2 DEF MayProceed, HasRow, Row, IndInv, BlankRow
    <3>4. /\ req[s].kind = "removeCamera" => HasRow(s)
          /\ req[s].kind = "updateDevice" => HasRow(s) /\ Row(s)["user"] = req[s].by
      BY <1>1 DEF MayProceed
    <3>5. req[s].kind # "command"
      BY <1>1 DEF IndInv, SlotInv, RowInv, Guarded
    <3>6. GuardInv(s)'
      BY <1>1, <3>1, <3>3, <3>4 DEF GuardInv, Row
    <3>7. RowInv(s)'
      BY <1>1, <3>1, <3>4, <3>5 DEF RowInv, HasRow, WithoutUser
    <3>8. QED
      BY <2>1, <3>1, <3>6, <3>7 DEF SlotInv, EntityInv, DiffInv
  <2>2. CASE t # s
    BY <1>1, <2>2, QuietFrame DEF Forget, IndInv, TypeOK
  <2>3. QED
    BY <2>1, <2>2
<1>5. QED
  BY <1>2, <1>3, <1>4 DEF IndInv

\* The find establishes EntityInv with nothing overtaken.
LEMMA FindInv ==
  ASSUME IndInv, NEW s \in Slots, Find(s) PROVE IndInv'
<1> DEFINE entity == Loaded(req[s].kind, Row(s))
<1>1. /\ pc[s] = "find" /\ HasRow(s) /\ req[s].kind # "ensure" /\ ~OwnedByOther(s)
      /\ mem' = [mem EXCEPT ![s] = Assigned(entity, req[s].patch)]
      /\ pc' = [pc EXCEPT ![s] = "select"]
      /\ overtaken' = [overtaken EXCEPT ![s] = {}]
      /\ UNCHANGED <<known, rows, req, diff, reply, unguarded>>
  BY DEF Find
<1>2. /\ req[s] \in AllRequests /\ Sound(req[s])
      /\ DOMAIN Row(s) = Columns
      /\ \A c \in Columns : Row(s)[c] \in Domain[c]
  BY <1>1, RequestsSound DEF IndInv, SlotInv, RowInv, TypeOK, Row, Sound
<1>3. /\ \A c \in Columns \ {"user"} : entity[c] = Row(s)[c]
      /\ req[s].kind \in WithoutUser => entity["user"] = Undefined
      /\ req[s].kind \notin WithoutUser => entity["user"] = Row(s)["user"]
  BY <1>2, LoadedFacts
<1>4. "user" \in Columns /\ "deviceConfig" \in Columns /\ "deviceConfig" # "user"
  BY DEF Columns
<1>5. \A c \in Columns : entity[c] \in MemDomain(c)
  BY <1>2, <1>3, <1>4, MemDomainFacts
<1>6. \A c \in Columns : mem'[s][c] \in MemDomain(c)
  BY <1>1, <1>2, <1>3, <1>4, <1>5, AssignedType DEF IndInv, TypeOK
<1>7. mem'[s] = Assigned(entity, req[s].patch) /\ pc'[s] = "select" /\ req'[s] = req[s]
  BY <1>1 DEF IndInv, TypeOK
<1>8. TypeOK'
  <2>1. \A t \in Slots \ {s} : mem'[t] = mem[t]
    BY <1>1 DEF IndInv, TypeOK
  <2>2. \A t \in Slots : DOMAIN mem'[t] = Columns
    BY <1>7, <2>1, AssignedFacts DEF IndInv, TypeOK
  <2>3. \A t \in Slots : \A c \in Columns : mem'[t][c] \in MemDomain(c)
    BY <1>6, <2>1 DEF IndInv, TypeOK
  <2>4. QED
    BY <1>1, <2>2, <2>3 DEF IndInv, TypeOK, Phases
<1>9. \A d \in DeviceIds \ known' : rows'[d] = BlankRow
  BY <1>1 DEF IndInv
<1>10. ASSUME NEW t \in Slots PROVE SlotInv(t)'
  <2>1. CASE t = s
    <3>1. RowInv(s)'
      BY <1>1, <1>2, <1>7 DEF RowInv, HasRow
    <3>2. GuardInv(s)'
      BY <1>1, <1>7 DEF GuardInv, IndInv, SlotInv, Row
    <3>3. DiffInv(s)'
      BY <1>7 DEF DiffInv
    <3>4. EntityInv(s)'
      <4>1. \A c \in Columns \ DOMAIN req[s].patch : mem'[s][c] \in {Undefined, Row(s)[c]}
        BY <1>3, <1>7, AssignedFacts
      <4>2. \A c \in DOMAIN req[s].patch \ {"deviceConfig"} : mem'[s][c] = req[s].patch[c]
        BY <1>2, <1>7, AssignedFacts DEF Sound
      <4>3. /\ "deviceConfig" \in DOMAIN req[s].patch =>
                 req[s].patch["deviceConfig"] \subseteq mem'[s]["deviceConfig"]
            /\ Row(s)["deviceConfig"] \subseteq mem'[s]["deviceConfig"]
        BY <1>3, <1>4, <1>7, AssignedFacts
      <4>4. req[s].kind \in WithoutUser => mem'[s]["user"] = Undefined
        BY <1>2, <1>3, <1>4, <1>7, AssignedFacts DEF Sound, WithoutUser
      <4>5. req[s].kind = "pair" => Row(s)["user"] \in {None, req[s].by}
        BY <1>1 DEF OwnedByOther
      <4>6. Row(s)' = Row(s)
        BY <1>1 DEF Row
      <4>7. QED
        BY <1>7, <4>1, <4>2, <4>3, <4>4, <4>5, <4>6 DEF EntityInv
    <3>5. QED
      BY <2>1, <3>1, <3>2, <3>3, <3>4 DEF SlotInv
  <2>2. CASE t # s
    BY <1>1, <2>2, QuietFrame DEF IndInv, TypeOK
  <2>3. QED
    BY <2>1, <2>2
<1>11. QED
  BY <1>8, <1>9, <1>10 DEF IndInv

\* A find without a row leaves the entity to insert in memory.
LEMMA FindNothingInv ==
  ASSUME IndInv, NEW s \in Slots, FindNothing(s) PROVE IndInv'
<1> DEFINE entity == IF req[s].kind = "pair" THEN Assigned(BlankRow, req[s].patch)
                     ELSE BlankRow
<1>1. /\ pc[s] = "find" /\ ~HasRow(s)
      /\ mem' = [mem EXCEPT ![s] = entity]
      /\ pc' = [pc EXCEPT ![s] = "insert"]
      /\ overtaken' = [overtaken EXCEPT ![s] = {}]
      /\ UNCHANGED <<known, rows, req, diff, reply, unguarded>>
  BY DEF FindNothing
<1>2. req[s] \in AllRequests /\ Sound(req[s])
  BY <1>1, RequestsSound DEF IndInv, SlotInv, RowInv
<1>3. DOMAIN entity = Columns /\ \A c \in Columns : entity[c] \in MemDomain(c)
  <2>1. "deviceConfig" \in Columns
    BY DEF Columns
  <2>2. QED
    BY <1>2, <2>1, BlankRowFacts, AssignedFacts, AssignedType, MemDomainFacts
<1>4. mem'[s] = entity /\ pc'[s] = "insert" /\ req'[s] = req[s]
  BY <1>1 DEF IndInv, TypeOK
<1>5. TypeOK'
  <2>1. \A t \in Slots \ {s} : mem'[t] = mem[t]
    BY <1>1 DEF IndInv, TypeOK
  <2>2. \A t \in Slots : DOMAIN mem'[t] = Columns
    BY <1>3, <1>4, <2>1 DEF IndInv, TypeOK
  <2>3. \A t \in Slots : \A c \in Columns : mem'[t][c] \in MemDomain(c)
    BY <1>3, <1>4, <2>1 DEF IndInv, TypeOK
  <2>4. QED
    BY <1>1, <2>2, <2>3 DEF IndInv, TypeOK, Phases
<1>6. \A d \in DeviceIds \ known' : rows'[d] = BlankRow
  BY <1>1 DEF IndInv
<1>7. ASSUME NEW t \in Slots PROVE SlotInv(t)'
  <2>1. CASE t = s
    <3>1. RowInv(s)'
      BY <1>1, <1>2, <1>4 DEF RowInv, HasRow, IndInv, SlotInv
    <3>2. GuardInv(s)'
      BY <1>1, <1>4 DEF GuardInv, IndInv, SlotInv, Row
    <3>3. QED
      BY <2>1, <1>4, <3>1, <3>2 DEF SlotInv, EntityInv, DiffInv
  <2>2. CASE t # s
    BY <1>1, <2>2, QuietFrame DEF IndInv, TypeOK
  <2>3. QED
    BY <2>1, <2>2
<1>8. QED
  BY <1>5, <1>6, <1>7 DEF IndInv

\* Inserting: the row was BlankRow, so nothing is overwritten.
LEMMA InsertInv ==
  ASSUME IndInv, NEW s \in Slots, InsertPaired(s) \/ InsertBlank(s) PROVE IndInv'
<1>1. /\ pc[s] = "insert" /\ ~HasRow(s)
      /\ Write(s, mem[s])
  BY DEF InsertPaired, InsertBlank
<1>2. /\ req[s] \in AllRequests /\ Sound(req[s])
      /\ mem[s] = IF req[s].kind = "pair"
                  THEN Assigned(BlankRow, req[s].patch) ELSE BlankRow
  BY <1>1, RequestsSound DEF IndInv, SlotInv, RowInv
<1>3. \A c \in Columns : mem[s][c] \in Domain[c]
  <2> SUFFICES ASSUME NEW c \in Columns, req[s].kind = "pair"
               PROVE  Assigned(BlankRow, req[s].patch)[c] \in Domain[c]
    BY <1>2, BlankRowFacts
  <2>1. CASE c \notin DOMAIN req[s].patch
    BY <2>1, AssignedFacts, BlankRowFacts
  <2>2. CASE c \in DOMAIN req[s].patch /\ c # "deviceConfig"
    BY <1>2, <2>2, AssignedFacts DEF Sound
  <2>3. CASE c \in DOMAIN req[s].patch /\ c = "deviceConfig"
    <3>1. req[s].patch["deviceConfig"] \in SUBSET Settings
      BY <1>2, <2>3 DEF Sound, Domain
    <3>2. BlankRow["deviceConfig"] \in SUBSET Settings
      BY <2>3, BlankRowFacts DEF Domain
    <3>3. QED
      BY <2>3, <3>1, <3>2, AssignedFacts DEF Domain
  <2>4. QED
    BY <2>1, <2>2, <2>3
<1>4. DOMAIN mem[s] = Columns
  BY DEF IndInv, TypeOK
<1>5. CASE InsertPaired(s)
  <2>1. Answer(s, "ok")
    BY <1>5 DEF InsertPaired
  <2>2. TypeOK' /\ \A d \in DeviceIds \ known' : rows'[d] = BlankRow
    BY <1>1, <1>3, <1>4, <2>1, AnswerType, WriteType DEF TypeOK
  <2>3. ASSUME NEW t \in Slots PROVE SlotInv(t)'
    <3>1. CASE t = s
      BY <2>1, <3>1, AnswerInv
    <3>2. CASE t # s
      BY <1>1, <2>1, <3>2, WriteFrame DEF Answer, IndInv, TypeOK
    <3>3. QED
      BY <3>1, <3>2
  <2>4. QED
    BY <2>2, <2>3 DEF IndInv
<1>6. CASE InsertBlank(s)
  <2>1. /\ req[s].kind # "pair"
        /\ pc' = [pc EXCEPT ![s] = "find"]
        /\ UNCHANGED <<req, mem, diff, reply>>
    BY <1>6 DEF InsertBlank
  <2>2. TypeOK' /\ \A d \in DeviceIds \ known' : rows'[d] = BlankRow
    BY <1>1, <1>3, <1>4, <2>1, WriteType DEF IndInv, TypeOK, Phases
  <2>3. ASSUME NEW t \in Slots PROVE SlotInv(t)'
    <3>1. CASE t = s
      <4>1. pc'[s] = "find" /\ req'[s] = req[s]
        BY <2>1 DEF IndInv, TypeOK
      <4>2. known' = known \cup {req[s].dev} /\ rows'[req[s].dev] = BlankRow
        BY <1>1, <1>2, <2>1 DEF Write, Sound, IndInv, TypeOK
      <4>3. RowInv(s)'
        BY <1>2, <4>1, <4>2 DEF RowInv, HasRow
      <4>4. GuardInv(s)'
        <5>1. req[s].kind \notin WithoutUser
          BY <1>1 DEF IndInv, SlotInv, RowInv
        <5>2. BlankRow["rtspUrl"] = None
          BY DEF BlankRow
        <5>3. QED
          BY <4>1, <4>2, <5>1, <5>2 DEF GuardInv, Row, WithoutUser
      <4>5. QED
        BY <3>1, <4>1, <4>3, <4>4 DEF SlotInv, EntityInv, DiffInv
    <3>2. CASE t # s
      BY <1>1, <2>1, <3>2, WriteFrame DEF IndInv, TypeOK
    <3>3. QED
      BY <3>1, <3>2
  <2>4. QED
    BY <2>2, <2>3 DEF IndInv
<1>7. QED
  BY <1>5, <1>6

\* The SELECT of save establishes DiffInv: what it finds to differ and the
\* handler did not assign has been overtaken already.
LEMMA SelectInv ==
  ASSUME IndInv, NEW s \in Slots, SaveSelect(s) PROVE IndInv'
<1>1. /\ pc[s] = "select"
      /\ diff' = [diff EXCEPT ![s] = Differing(mem[s], Row(s))]
      /\ pc' = [pc EXCEPT ![s] = "update"]
      /\ UNCHANGED <<known, rows, req, mem, reply, overtaken, unguarded>>
  BY DEF SaveSelect
<1>2. pc'[s] = "update" /\ diff'[s] = Differing(mem[s], Row(s))
  BY <1>1 DEF IndInv, TypeOK
<1>3. TypeOK'
  BY <1>1 DEF IndInv, TypeOK, Phases, Differing
<1>4. \A d \in DeviceIds \ known' : rows'[d] = BlankRow
  BY <1>1 DEF IndInv
<1>5. ASSUME NEW t \in Slots PROVE SlotInv(t)'
  <2>1. CASE t = s
    <3>1. RowInv(s) /\ EntityInv(s) /\ GuardInv(s)
      BY DEF IndInv, SlotInv
    <3>2. Row(s)' = Row(s)
      BY <1>1 DEF Row
    <3>3. RowInv(s)'
      BY <1>1, <1>2, <3>1 DEF RowInv, HasRow
    <3>4. EntityInv(s)'
      BY <1>1, <1>2, <3>1, <3>2 DEF EntityInv
    <3>5. DiffInv(s)'
      BY <1>1, <1>2, <3>1, <3>2 DEF DiffInv, EntityInv, Differing
    <3>6. GuardInv(s)'
      BY <1>1, <1>2, <3>1, <3>2 DEF GuardInv
    <3>7. QED
      BY <2>1, <3>3, <3>4, <3>5, <3>6 DEF SlotInv
  <2>2. CASE t # s
    BY <1>1, <2>2, QuietFrame DEF IndInv, TypeOK
  <2>3. QED
    BY <2>1, <2>2
<1>6. QED
  BY <1>3, <1>4, <1>5 DEF IndInv

\* The UPDATE stores only defined, well-typed values, and others record it.
LEMMA UpdateInv ==
  ASSUME IndInv, NEW s \in Slots, SaveUpdate(s) PROVE IndInv'
<1> DEFINE new == Merged(Row(s), mem[s], diff[s])
<1>1. pc[s] = "update" /\ Write(s, new) /\ Answer(s, "ok")
  BY DEF SaveUpdate
<1>2. req[s] \in AllRequests /\ Sound(req[s]) /\ DiffInv(s)
  BY <1>1, RequestsSound DEF IndInv, SlotInv, RowInv
<1>3. \A c \in Columns : Row(s)[c] \in Domain[c]
  BY <1>2 DEF Row, Sound, IndInv, TypeOK
<1>4. \A c \in diff[s] : mem[s][c] \in Domain[c]
  <2> SUFFICES ASSUME NEW c \in diff[s] PROVE mem[s][c] \in Domain[c]
    OBVIOUS
  <2>1. c \in Columns /\ mem[s][c] \in MemDomain(c)
    BY DEF IndInv, TypeOK
  <2>2. mem[s][c] # Undefined
    BY <1>1, <1>2 DEF DiffInv
  <2>3. QED
    BY <2>1, <2>2 DEF MemDomain
<1>5. DOMAIN new = Columns /\ \A c \in Columns : new[c] \in Domain[c]
  BY <1>3, <1>4, MergedFacts
<1>6. TypeOK' /\ \A d \in DeviceIds \ known' : rows'[d] = BlankRow
  BY <1>1, <1>5, AnswerType, WriteType DEF TypeOK
<1>7. ASSUME NEW t \in Slots PROVE SlotInv(t)'
  <2>1. CASE t = s
    BY <1>1, <2>1, AnswerInv
  <2>2. CASE t # s
    BY <1>1, <2>2, WriteFrame DEF Answer, IndInv, TypeOK
  <2>3. QED
    BY <2>1, <2>2
<1>8. QED
  BY <1>6, <1>7 DEF IndInv

\* Every step keeps the invariant.
LEMMA NextIndInv == IndInv /\ [Next]_vars => IndInv'
<1> SUFFICES ASSUME IndInv, [Next]_vars PROVE IndInv'
  OBVIOUS
<1>1. CASE UNCHANGED vars
  <2>1. TypeOK'
    BY <1>1 DEF vars, IndInv, TypeOK
  <2>2. \A s \in Slots : SlotInv(s)'
    BY <1>1, QuietFrame DEF vars
  <2>3. QED
    BY <1>1, <2>1, <2>2 DEF vars, IndInv
<1>2. ASSUME NEW s \in Slots, Arrive(s) PROVE IndInv'
  BY <1>2, ArriveInv
<1>3. ASSUME NEW s \in Slots, Step(s) PROVE IndInv'
  <2>1. CASE Check(s)
    BY <2>1, CheckInv
  <2>2. CASE Refuse(s)
    BY <2>2, GiveUp DEF Refuse
  <2>3. CASE FindConflict(s)
    BY <2>3, GiveUp DEF FindConflict
  <2>4. CASE FindEnsured(s)
    BY <2>4, GiveUp DEF FindEnsured
  <2>5. CASE Find(s)
    BY <2>5, FindInv
  <2>6. CASE FindNothing(s)
    BY <2>6, FindNothingInv
  <2>7. CASE InsertPaired(s) \/ InsertBlank(s)
    BY <2>7, InsertInv
  <2>8. CASE InsertDuplicate(s)
    BY <2>8, GiveUp DEF InsertDuplicate
  <2>9. CASE SaveSelect(s)
    BY <2>9, SelectInv
  <2>10. CASE SaveUpdate(s)
    BY <2>10, UpdateInv
  <2>11. QED
    BY <1>3, <2>1, <2>2, <2>3, <2>4, <2>5, <2>6, <2>7, <2>8, <2>9, <2>10 DEF Step
<1>4. ASSUME NEW s \in Slots, Fail(s) PROVE IndInv'
  BY <1>4, GiveUp DEF Fail
<1>5. QED
  BY <1>1, <1>2, <1>3, <1>4 DEF Next

-----------------------------------------------------------------------------
(* Theorems.                                                               *)

\* The invariant of every handler holds in every reachable state, for any
\* number of devices, users and handlers in flight.
THEOREM Invariance == Spec => []IndInv
<1>1. Init => IndInv
  BY InitIndInv
<1>2. IndInv /\ [Next]_vars => IndInv'
  BY NextIndInv
<1>3. QED
  BY <1>1, <1>2, PTL DEF Spec

\* Every stored column keeps its type; undefined never reaches the row.
THEOREM TypeCorrect == Spec => []TypeOK
<1>1. IndInv => TypeOK
  BY DEF IndInv
<1>2. QED
  BY <1>1, Invariance, PTL

\* A slot completes a save only by SaveUpdate, of which this is the content.
LEMMA SavesContent ==
  ASSUME IndInv, [Next]_vars, NEW s \in Slots, Saves(s)
  PROVE  /\ req[s] \in AllRequests /\ Sound(req[s])
         /\ EntityInv(s) /\ DiffInv(s) /\ GuardInv(s)
         /\ \A c \in Columns :
              rows'[req[s].dev][c] = IF c \in diff[s] THEN mem[s][c] ELSE Row(s)[c]
<1>1. pc[s] = "update" /\ pc'[s] = "idle" /\ reply'[s] = "ok"
  BY DEF Saves
<1>2. Next
  BY <1>1 DEF vars
<1>3. PICK t \in Slots : Arrive(t) \/ Step(t) \/ Fail(t)
  BY <1>2 DEF Next
<1>4. t = s
  BY <1>1, <1>3 DEF Arrive, Step, Fail, Check, Refuse, FindConflict, FindEnsured,
     Find, FindNothing, InsertPaired, InsertBlank, InsertDuplicate, SaveSelect,
     SaveUpdate, Answer, IndInv, TypeOK
<1>5. SaveUpdate(s)
  BY <1>1, <1>3, <1>4 DEF Arrive, Step, Fail, Check, Refuse, FindConflict,
     FindEnsured, Find, FindNothing, InsertPaired, InsertBlank, InsertDuplicate,
     SaveSelect, SaveUpdate, Answer, IndInv, TypeOK
<1>6. req[s] \in AllRequests /\ Sound(req[s])
  BY <1>1, RequestsSound DEF IndInv, SlotInv, RowInv
<1>7. rows'[req[s].dev] = Merged(Row(s), mem[s], diff[s])
  BY <1>5, <1>6 DEF SaveUpdate, Write, Sound, IndInv, TypeOK
<1>8. QED
  BY <1>6, <1>7, MergedFacts DEF IndInv, SlotInv

\* A save disturbs a column its handler did not assign only if another
\* handler changed that column in between.
THEOREM LostOnlyToOverlap == Spec => OnlyOverlapLosesColumns
<1> DEFINE A == \A s \in Slots : Saves(s) =>
                  \A c \in Columns \ Assigns(s) :
                    Changes(s, c) => c \in overtaken[s] \ DOMAIN req[s].patch
<1>1. IndInv /\ [Next]_vars => A
  <2> SUFFICES ASSUME IndInv, [Next]_vars, NEW s \in Slots, Saves(s),
                      NEW c \in Columns \ Assigns(s), Changes(s, c)
               PROVE  c \in overtaken[s] \ DOMAIN req[s].patch
    OBVIOUS
  <2>1. c \in diff[s] /\ mem[s][c] # Undefined
    BY SavesContent DEF Changes, DiffInv, Saves
  <2>2. c \notin DOMAIN req[s].patch
    <3> SUFFICES ASSUME c \in DOMAIN req[s].patch PROVE FALSE
      OBVIOUS
    <3>1. req[s].patch[c] = Undefined
      BY DEF Assigns
    <3>2. c # "deviceConfig"
      BY <3>1, SavesContent, MemDomainFacts, UndefinedAssumption DEF Sound, Domain
    <3>3. QED
      BY <2>1, <3>1, <3>2, SavesContent DEF EntityInv, Saves
  <2>3. QED
    BY <2>1, <2>2, SavesContent DEF DiffInv, Saves
<1>2. QED
  BY <1>1, Invariance, PTL DEF Spec, OnlyOverlapLosesColumns

\* The owner is replaced or dropped only by a handler that loaded it and was
\* overtaken by a new one.
THEOREM OwnerLostOnlyToOverlap == Spec => OnlyOverlapChangesOwner
<1> DEFINE A == \A s \in Slots :
                  Saves(s) /\ Row(s).user # None /\ Changes(s, "user") =>
                    req[s].kind \notin WithoutUser /\ "user" \in overtaken[s]
<1>1. IndInv /\ [Next]_vars => A
  <2> SUFFICES ASSUME IndInv, [Next]_vars, NEW s \in Slots, Saves(s),
                      Row(s)["user"] # None, Changes(s, "user")
               PROVE  req[s].kind \notin WithoutUser /\ "user" \in overtaken[s]
    OBVIOUS
  <2>1. "user" \in Columns
    BY DEF Columns
  <2>2. "user" \in diff[s] /\ mem[s]["user"] # Undefined
    BY <2>1, SavesContent DEF Changes, DiffInv, Saves
  <2>3. req[s].kind \notin WithoutUser
    BY <2>2, SavesContent DEF EntityInv, Saves
  <2>4. CASE req[s].kind # "pair"
    BY <2>1, <2>2, <2>3, <2>4, SavesContent DEF DiffInv, Saves, Sound
  <2>5. CASE req[s].kind = "pair"
    <3>1. mem[s]["user"] = req[s].by
      BY <2>5, SavesContent DEF Sound, EntityInv, Saves
    <3>2. Row(s)["user"] # req[s].by
      BY <2>1, <2>2, <3>1, SavesContent DEF Changes
    <3>3. QED
      BY <2>3, <2>5, <3>2, SavesContent DEF EntityInv, Saves
  <2>6. QED
    BY <2>4, <2>5
<1>2. QED
  BY <1>1, Invariance, PTL DEF Spec, OnlyOverlapChangesOwner

\* A second registration overwrites a camera only if the first came after
\* the check of the second.
THEOREM CameraReplacedOnlyByOverlap == Spec => OnlyOverlapReplacesCamera
<1> DEFINE A == \A s \in Slots :
                  Saves(s) /\ req[s].kind = "registerCamera" /\ Row(s).rtspUrl # None
                    => "rtspUrl" \in unguarded[s]
<1>1. IndInv /\ [Next]_vars => A
  BY SavesContent DEF GuardInv, Saves
<1>2. QED
  BY <1>1, Invariance, PTL DEF Spec, OnlyOverlapReplacesCamera

\* A PATCH is stored on behalf of the owner, unless the owner changed after
\* the check of the controller.
THEOREM PatchedByOwner == Spec => PatchByOwner
<1> DEFINE A == \A s \in Slots :
                  Saves(s) /\ req[s].kind = "updateDevice" /\ Row(s).user # req[s].by
                    => "user" \in unguarded[s]
<1>1. IndInv /\ [Next]_vars => A
  BY SavesContent DEF GuardInv, Saves
<1>2. QED
  BY <1>1, Invariance, PTL DEF Spec, PatchByOwner

\* What a handler assigned is stored when it answers ok, unless another
\* handler changed the column in between.
THEOREM AnsweredMeansStored == Spec => EffectStored
<1> DEFINE A == \A s \in Slots : Saves(s) =>
                  \A c \in Assigns(s) :
                    \/ c \in overtaken[s]
                    \/ c # "deviceConfig" /\ rows'[req[s].dev][c] = req[s].patch[c]
                    \/ c = "deviceConfig"
                       /\ req[s].patch[c] \subseteq rows'[req[s].dev][c]
<1>1. IndInv /\ [Next]_vars => A
  <2> SUFFICES ASSUME IndInv, [Next]_vars, NEW s \in Slots, Saves(s),
                      NEW c \in Assigns(s), c \notin overtaken[s]
               PROVE  \/ c # "deviceConfig" /\ rows'[req[s].dev][c] = req[s].patch[c]
                      \/ c = "deviceConfig"
                         /\ req[s].patch[c] \subseteq rows'[req[s].dev][c]
    OBVIOUS
  <2>1. c \in Columns /\ c \in DOMAIN req[s].patch /\ req[s].patch[c] # Undefined
    BY SavesContent DEF Sound, Assigns
  <2>2. mem[s][c] # Undefined
    <3>1. CASE c = "deviceConfig"
      <4>1. mem[s][c] \in Domain[c]
        BY <2>1, <3>1, MemDomainFacts DEF IndInv, TypeOK
      <4>2. mem[s][c] \in SUBSET Settings
        BY <3>1, <4>1 DEF Domain
      <4>3. QED
        BY <4>2, UndefinedAssumption
    <3>2. CASE c # "deviceConfig"
      BY <2>1, <3>2, SavesContent DEF EntityInv, Saves
    <3>3. QED
      BY <3>1, <3>2
  <2>3. rows'[req[s].dev][c] = mem[s][c]
    BY <2>1, <2>2, SavesContent DEF DiffInv, Saves
  <2>4. QED
    BY <2>1, <2>3, SavesContent DEF EntityInv, Saves
<1>2. QED
  BY <1>1, Invariance, PTL DEF Spec, EffectStored

\* A save drops settings from deviceConfig only if it was overtaken by them.
THEOREM SettingsLostOnlyToOverlap == Spec => SettingsAccumulate
<1> DEFINE A == \A s \in Slots : Saves(s) =>
                  \/ Row(s).deviceConfig \subseteq rows'[req[s].dev].deviceConfig
                  \/ "deviceConfig" \in overtaken[s]
<1>1. IndInv /\ [Next]_vars => A
  <2> SUFFICES ASSUME IndInv, [Next]_vars, NEW s \in Slots, Saves(s),
                      "deviceConfig" \notin overtaken[s]
               PROVE  Row(s)["deviceConfig"] \subseteq rows'[req[s].dev]["deviceConfig"]
    OBVIOUS
  <2>1. "deviceConfig" \in Columns
    BY DEF Columns
  <2>2. QED
    BY <2>1, SavesContent DEF EntityInv, Saves
<1>2. QED
  BY <1>1, Invariance, PTL DEF Spec, SettingsAccumulate
=============================================================================
