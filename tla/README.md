# Hanibi backend: a verification development in TLA+

Hanibi is the backend of a food-waste processor: a NestJS application that takes
sensor reports, heartbeats and camera registrations from the hardware, commands
and settings from its owner's app, and does the rest in BullMQ workers of the
same process. Its state is PostgreSQL (through TypeORM), Redis (BullMQ queues)
and a directory of snapshot files. Paths below are relative to `src/backend/src`.

The code has no transactions, locks or version columns. Every handler reads rows,
changes entities in memory and saves them, with an `await` between any two
statements; all that protects it are a few unique indexes. So the interesting
questions are what handlers that overlap do to each other, what retries and
restarts repeat, and what the documents promise of the two. Those are the
questions this project asks.

## 1. Inventory

| Component | State it keeps | Operations | What is hard | What makes it correct |
|---|---|---|---|---|
| Device rows (`modules/devices`, and the device part of `modules/sensors`, `modules/camera`, `workers/device-control`) | one row per `deviceId`: owner, name, connection, status, heartbeat, configuration, camera | pair, PATCH, heartbeat, sensor report, register/remove camera, command side effects, find-or-create | eight handlers share the row; checks and saves are separate statements; a save compares the whole entity and skips `undefined` | a save disturbs only what it assigned; owners and cameras do not change behind their checks; an answered request is stored |
| Device commands (`devices.service` sendCommand/acknowledgeCommand, `queues`, `workers/device-control`) | command rows PENDING/SENT/ACKED/FAILED; queue jobs | record, queue, carry out, acknowledge, list pending | retries after a partial run, stalls and restarts, the device's acknowledgement against the worker's saves | ACKED means done; applied at least once before completion, a bounded number of times; order |
| Rate limiting (`common/middleware`, `main.ts`) | hit counts and reset times per key, in memory | count, refuse, reset | the key is made before the body is parsed; windows meet | limit per window and per span; refusals are earned; per-device budgets as documented |
| Request log (`common/interceptors`) | rows of `api_request_logs` and `sensor_request_logs` | log the success or failure of every request, and once more of POST /sensors/data | a success is logged behind its answer, an error before it; a failing insert is swallowed | what the rows say is what became of the request; answers do not wait for ever |
| Sensor intake (`modules/sensors`) | sensor rows, the status of the device, processing sessions | report, heartbeat, event, latest values | several statements and queue calls per request; devices date their measurements; -999 and missing values | device, rows, queue, room and log tell one story; alarms have a cause; one session and one report per completed run |
| Reports, eco score, time series (`modules/reports`, `workers/report-generation`, `workers/timeseries-aggregation`) | aggregated points, chat messages of reports; scores are computed on demand | compute score, summarise, rank, write report messages | retried jobs repeat their writes; units; ties; NULL sums | under which weights and amounts a score is a percentage; ranking and summary agree; a report is delivered or its loss has a cause |
| Camera snapshots (`modules/camera`) | snapshot rows, image files | capture, list, serve image | file before row; identifiers are milliseconds; capture creates the device | what a device was told is stored can be had, and nobody else's picture in its place |
| Character (`modules/character`, `workers/character-state`) | characters of a user, one of them current, and the options chosen for each | get, update | clear, save, delete and insert in separate statements; the save cascades | one current character with one option per attribute |
| Chat and realtime (`modules/chat`, `realtime`) | messages of a device; socket rooms | send, quick command, list, broadcast | row first, broadcast after, then a command for the device; the owner may change in between | a command is said before it is done; what was said is in the history |
| Settings and notifications (`modules/settings`, `workers/notification`) | a value per key, a preference per type, the history of notifications | update, list, log | read-then-insert without a unique index; entry by entry | one row per user and key; an update reads back |
| Authentication, users (`modules/auth`, `modules/users`) | accounts; refresh tokens are stateless JWTs | register, login, refresh, profile | check-then-insert on email; the account is stored before its tokens are signed | one account per email, opened by its own password or token only |
| Sensor-processing worker | none | logs the job | - | - |
| Configuration, database, Redis, logger, Swagger | wiring | - | - | - |

Interactions. HTTP handlers call services, services share rows through the
repositories: `devices` is written by the devices, sensors and camera services and
by the command worker. Services queue jobs (device-control, report-generation,
character-state, sensor-processing) that workers of the same process take.
The sensors service broadcasts to socket rooms. Hardware talks to `sensors`,
`camera` and the two command routes made for devices; the app to the rest.

`PROJECT.json` lists under "hazards" every place where this goes hard, with the
property that watches it or the reason why none does yet.

## 2. Modules

    DeviceRow          the devices row and every handler that writes it
      DeviceRow_proofs   its invariant and action properties, proved
      MCDeviceRow        instances for TLC
    JobQueue           a BullMQ queue and its retries, stalls and restarts
      JobQueue_proofs    lemmas about sequences and the laws of the queue, proved
    AtLeastOnce        what handing an item to a queue promises, abstractly
    DeviceCommands     a command from the request to its acknowledgement,
                       over JobQueue; implements AtLeastOnce
      DeviceCommands_proofs   its invariants and the refinement, proved
      MCDeviceCommands   instances, and that everything settles
    Sessions           a completed run, its session and its report, over
                       JobQueue; implements AtLeastOnce
      Sessions_proofs    its invariants and the refinement, proved
      MCSessions         instances, and that everything settles
    Reports            scores, weekly figures and rankings of the sessions
      Reports_proofs     sums, and the properties of the figures, proved
      MCReports          instances
    RateLimit          the two limiters
      RateLimit_proofs   the budget of a key and its refusals, proved
      MCRateLimit        instances
    RequestLog         the rows of the two logging interceptors
    Intake             measurements, heartbeats, food and latest values of a
                       device, over RequestLog
    Snapshots          pictures, their files and rows
      MCHardware         Intake and Snapshots side by side, instances
      Hardware_proofs    the invariants of both, proved
    Preferences        user and notification settings
    Character          the character of a user
    Accounts           accounts, tokens and profiles
    Chat               messages, quick commands and history of a device
      MCApp              the last four side by side, instances
      App_proofs         the invariants of the four, proved

### DeviceRow

A *slot* is a handler in flight. Node runs a handler from one `await` to the next
without interruption, so an action is the code between two answers of the
database. `pc` is the await a slot is at:

| `pc` | The statement the handler is waiting for | Actions |
|---|---|---|
| `check` | the first find of `registerCamera`, `removeCamera`, `updateDevice` | `Check`, `Refuse` |
| `find` | the find of the entity that will be saved | `Find`, `FindNothing`, `FindConflict`, `FindEnsured` |
| `insert` | the INSERT of `pairDevice` or `findOrCreateByDeviceId` | `InsertPaired`, `InsertBlank`, `InsertDuplicate` |
| `select` | the SELECT inside `Repository.save` | `SaveSelect` |
| `update` | its UPDATE | `SaveUpdate` |

Any statement may fail (`Fail`). What a handler assigns is `req[s].patch`, a
function from columns to values; the eight sets `PairRequests` ...
`EnsureRequests` enumerate the patches the code can make, one set per handler.

`Repository.save` is the heart of it, and is modelled as TypeORM does it: read the
row again, write the columns of the entity that are defined and differ. That is
why `Undefined` is a value of memory and not of the row. It appears when a find
does not load the `user` relation (`findByDeviceId`, the worker's find), and when
a DTO field that the body left out is copied: the compiler targets ES2023, so DTO
classes define all their fields, and `Object.assign(device, payload)` copies
`undefined` for the missing ones.

Abstractions: camera model and credentials are one value; a configuration is its
set of keys, the values under a key are left out; names, times and addresses are
opaque; timestamps are not ordered, because no code compares them. `wifiSsid` is
never written. Rows of `devices` are never deleted. The history variables
`overtaken` and `unguarded` record, per handler, the columns that others changed
since it read the entity, or since its check; no guard reads them.

### DeviceCommands

`sendCommand` is `RecordCommand`, then `EnqueueCommand` or `EnqueueFails`. The
worker is one sequence: `TakeJob`, the SELECT and UPDATE of the SENT save,
`ApplyCommand` (the device save that DeviceRow has in detail), the SELECT and
UPDATE of the ACKED save, `CompleteJob`. `AckFind`, `AckSelect`, `AckUpdate` are
`acknowledgeCommand`. `FailJob` is a statement of the worker that throws, `Crash` a
restart of the process. An acknowledgement carries one of `Verdicts`, any set of texts,
because the body's status is stored as it comes; `AckFails` is one whose statement
fails. The history `writer` says whether the worker or an acknowledgement wrote the
status last. Without Redis in the tests (`NODE_ENV` is `test`) the producer returns
before it queues; that mode is left out.

### JobQueue and AtLeastOnce

BullMQ is modelled from how `queue.module.ts` configures it and the processors use
it. A job moves `none`, `wait`, `active` and then to `completed`; `Throw` sends it
to `delayed` and, by `Promote`, to the end of the list until `attempts` are used up
(`exhausted`). `Restart` either leaves the jobs in Redis, the active one as an
`orphan` that `Recover` hands out `maxStalledCount` times once its lock has run out,
or, with the in-memory Redis of development, loses them (`lost`). JobQueue has
actions and no `Next`: DeviceCommands and Sessions instantiate it over the ids of
commands and of sessions and conjoin its actions with the steps of their workers.

AtLeastOnce is the promise of both: what was accepted is owed; it may take effect
any number of times while owed; it is delivered only after it took effect, or
dropped; then it is never touched again. `stage` is computed from the row, the job
and the request together; `effect` is the commands that reached the device row, and
the sessions whose owner has a notification.

### Sessions

`FindDevice` ... `QueueReport` are `handleEvent` with `handleProcessingCompleted`; `at`
is the answer the handler waits for and `seen` the owner it read with the device.
`TakeJob` ... `CompleteJob` are `ReportGenerationProcessor.process` with
`createMessage` and `logNotification`. `ChangeOwner` gives the device any owner or none,
since overlapping saves of its row do that (DeviceRow has them); a report job that finds
no owner ends quietly, and the history `missed` keeps that its last attempt did: its
stage is then "dropped". A session is named by the request that stored
it: the code stores one per request, so a device that repeats a request after an
error, or after its own timeout, has the run counted twice. Other events store
nothing, and the character jobs are taken by a worker that only logs.

### Reports

The figures are operators over the rows of `processing_sessions`, the owners and the
day. Times are days, because every period begins and ends at midnight; sums keep
SQL's NULL; users whose totals are equal may come in any order, so `Rankings` and
`EcoScores` are sets of possible answers. Amounts are integers in the stored unit,
because the event's DTO gives them no least value. The active formula is one of
`Formulas`, fixed from the start: its weights are integers, negative ones too, or
missing; `Weights` is `getActiveWeights`, which looks only at their sum.
`efficiencyScore` is written by no code, so a score never exceeds
65 with the default weights (`EcoScoreResponseDto` shows 82 as its example).

### RateLimit

Two limiters, keyed by address (see the finding), counting in windows that open
at the first hit; time is `Tick`. `recent` is a history: the hits of each key let
through within the last `windowMs`, each with its age, its number in the window it was
counted in and the device it claimed. `Spent` counts those of a claimed device; `last`
is the last request and what became of it.

### RequestLog and Intake

RequestLog has actions and no `Next`, like JobQueue. A handler ends in `Return`, which
answers at once and leaves both rows due, or in `Raise`, after which
`WriteSensorLog` and `WriteApiLog` come before the answer, because `catchError` awaits
the insert and `tap` does not. Either insert may fail, which is only logged
(`"lost"`).

Intake is SensorsController and SensorsService for one device. `FindDevice` is
`findOrCreateByDeviceId` with the assignments behind it, `SaveSelect` and `SaveUpdate`
the save of the device (DeviceRow has all its columns, Intake the status and
the heartbeat), `LookUpSession`, `InsertRow`, `Enqueue` and `Reply` the rest of
`processSensorData`; heartbeats and food take the shorter ways, `ReadLatest` is
`getLatestSensorData`. The decorators of the DTOs are the operators `Normal`,
`Humidity` and `Valid`, the rules `DeviceStatus`, `CharacterState` and `Alert`.
Requests are numbered as they arrive and the number is the time, unless the device
sends its own.

### Snapshots

`FindForCapture`, `WriteFile` and `InsertRow` are `captureSnapshot`: find or create the
device, write `<milliseconds>.jpg` in its directory, insert a row whose unique
`snapshotId` holds the same milliseconds. The clock is read twice before the file is
written, for the name and for `capturedAt`. `FindForImage`, `FindPath`, `SendFile` are the
controller's image route, `FindForList`, `QueryList` the list. A picture is the number of
the request that sent it, so that one can see whose picture is in a file.

### Preferences, Character, Accounts, Chat

Each is a table or two of one user, and the requests that read and write them; `at` is
where a request is, `code` its answer, `met` the requests that overlapped it. Preferences
has both kinds of settings, which are updated by the same loop: a key and the columns that
the body gives. Quiet hours are columns of type `time`: `AsTime` is what PostgreSQL makes
of a text, so that "22:00" is stored, and comes back, as "22:00:00", and a text that is no
time fails the statement. The history `before` is the table as a request met it. Character
follows `updateCharacter` through its statements; `Save` is the cascading save, which
reads the attributes again, puts back those that are gone, and fails on those that are
new, since their foreign key may not be null, unless they were deleted meanwhile. In
Accounts a token is the record of what is signed into it and `ParseExpiration` computes
its lifetime as the code does; the history `since` is the time at which a request came.
Chat is `sendMessage`, `executeQuickCommand` and `listMessages` of one device whose owner
may change.

## 3. Runs

| Run | Asks | Bounds, and why they are enough |
|---|---|---|
| `row_overlap` | what may a save overwrite; can an owner or a camera change, or a PATCH land, behind a check? | 1 device, 2 accounts, 2 handlers of five kinds (pair, heartbeat, register and remove camera, PATCH), credentials present, null and absent: every interleaving of two handlers; the proofs cover more devices and handlers |
| `row_settings` | is every request answered, is an answered one stored, do settings accumulate? | 2 handlers that race to create the row; 2 settings, so that one can be lost to the other; the worker runs one job at a time |
| `commands_faults` | what may a status claim under failures; are order and number of effects kept? | 2 commands, 1 acknowledgement at a time, attempts 2 (3 in the code), 1 stall as in BullMQ, 2 restarts, each with or without the jobs of the queue: enough to exceed the stall limit, to mix a retry with a stall and to overtake. An acknowledgement says ACKED or PENDING: the code compares statuses only for equality with those the worker writes, so PENDING stands for FAILED and any other text too |
| `commands_delivery` | is AtLeastOnce implemented, does everything settle? | as above without acknowledgements, which touch neither `stage` nor `effect` |
| `sessions_reports` | which runs are reported, how often and in which order; is AtLeastOnce implemented, does everything settle? | 2 runs that meet in the queue, attempts, stalls and restarts as above; an owner who comes and goes at any moment |
| `reports_figures` | do score, summary and ranking agree with the sessions and with each other over time? | 2 users, 2 devices, 3 sessions of unknown amount, of one below zero and one above the targets, dated a day early or late; a formula with a negative and a missing weight, and one that weighs nothing and gives way to the default; Saturday to Monday, a month that turns on the Sunday, a ranking cut after 1 |
| `hardware` | do logs, device, rows, latest values and alarms agree on what became of a measurement; does every request settle; can a stored picture be had? | Intake: a first request of four kinds (good, broken sensor with a bad session id, no values, no body), a second (a measurement dated earlier, a heartbeat, food), a reader, 1 restart; two handlers that overlap, and a third that observes. Snapshots: 2 captures and a reading of every span, 2 devices, 2 milliseconds, so that identifiers and files collide |
| `app` | what do the four tables of the app hold after requests that overlap and fail? | 3 requests: two that collide and one before, after or between them; one setting and one notification type, two options of one attribute and one of another, one address with two passwords, lifetimes with and without a unit and of no number, a clock that outlasts a token; times with and without seconds and a text that is none; two owners |
| `rate_windows` | the limits over spans | limits 2 and 1, a window of 2 ticks, 2 addresses: two windows meet within one span |

`hardware` and `app` each put modules side by side that share no state which one
changes for the other: `area` says from the start which of them moves, so the run
explores the sum of their states and not the product, and each module is explored as
if it were alone.

`MaxCrashes` and `MaxRestarts` bound restarts, `MaxSessions` the sessions, `NumRequests`
and `Shots` the requests, `MaxTime` the clocks, `MaxPairings` the changes of owner in
Chat; `MaxAttempts` and `MaxStalls` are parameters of the code itself. Everything else is
finite in the model as in the instance. Slots, accounts, commands and addresses are only
compared for equality and are symmetric in the safety runs; the liveness runs use no
symmetry.

`Queues = {"redis", "memory"}` lets each restart find its jobs or none: the first is
production, the second the mocked Redis of development, both together a Redis that
may lose its data.

The command, session, report, hardware and app runs switch the deadlock check off:
when every command, report or request is over and no restart is left, or the last day
is reached, the system rests.

### What the code does that it says it does not

Three runs end in a violation, each of a statement of the code or its documents:

* `row_owner_not_reassigned`: two pairings overlap, both pass the conflict check of
  `pairDevice` ("이미 다른 사용자에 등록된 기기입니다."), and the second takes the device.
  The proved `OnlyOverlapChangesOwner` says that only overlaps do this, and that
  PATCHes, camera removals and commands cannot do it at all.
* `rate_limit_per_device`: the limit is per device ("디바이스별"), but the limiter runs
  before the body is parsed and keys by address.
* `score_target`: amounts arrive in grams ("처리된 음식물 양 (g)") and are scored as
  kilograms ("assume 5kg/day target"), so that every run of 10 g or more meets both targets.

More was met while modelling and needs no run of its own:

* Registering a camera is to be done once ("최초 1회"). A heartbeat that read the row
  before the registration and whose save compares it after writes the empty address
  back. The proved `OnlyOverlapLosesColumns` says that only such overlaps do this.
* Two camera registrations that overlap both pass the check ("이미 등록된
  deviceId입니다"); `OnlyOverlapReplacesCamera` names the case.
* A user none of whose sessions has an amount has a NULL total, which PostgreSQL sorts
  first, so the ranking lists him above everyone with 0 and may push a known total off
  its end (`RankingAgreesWithWeek` exempts him).
* The general limiter counts GETs outside `/sensors`, where the README says reading is
  not limited ("조회 API: 제한 없음").
* `sensor_request_logs` is bound to `POST /sensors/data`, where the README says that
  all sensor requests are recorded; and a request without a body is never recorded
  there, because `rawRequest` may not be null (`LogTellsTheTruth` has it).
* A measurement without `sensorData` passes validation and fails with 500 after the
  device was saved.
* `getLatestSensorData`, a GET, creates the device it does not find; so does a capture
  that is then refused.
* Two captures in one millisecond: the second is refused by the unique index, after it
  has overwritten the file of the first if they are of one device. The first, answered
  with success, then shows the second's picture (`SnapshotServed` exempts such twins).
* An acknowledgement is typed `'ACKED' | 'FAILED'`, and nothing checks it: any text is
  stored, and "PENDING" takes back a command that was carried out, so that
  `listPendingCommands` hands it to the device again. `CompletedIsSettled` says that
  nothing else does.
* A report is queued for the owner of the moment. If an overlapping save drops him before
  the worker runs, the job ends quietly and nobody is told ("dropped" in `Stage`).
* A negative amount scores below zero, and a formula with a negative weight may score
  above 100 or fall as the amount grows; `ScoreSound` states the conditions that nothing
  checks.
* Quiet hours given as "22:00" are answered as "22:00:00" from the database; a text that
  is no time answers 500, with the preferences before it saved.
* `sensor_request_logs` has httpStatus 200 for every success, though
  `POST /sensors/data` answers 201.
* A refresh with a token that is not valid answers 500: the error of `verifyAsync` is no
  HttpException. A lifetime in an unknown unit, such as "week", is NaN: `register` then
  stores the account and answers 500.
* Of two `updateCharacter` that overlap, the save of one can put back attributes that
  the other has deleted, since they cascade; or fail on those it has inserted.

## 4. Fairness

`DeviceRow.FairSpec` asks that a handler whose statement is answered goes on, and that the
driver answers: weak fairness of each slot's `Step`, nothing about requests arriving or
failing. `DeviceCommands.FairSpec` asks the same of the handler that queues a command and
of acknowledgements, that the worker goes on while it has jobs, and that backoffs and the
locks of dead workers run out, which BullMQ does by its own timers. It asks nothing of
`FailJob`, `EnqueueFails`, `Crash`, nor of users and devices. `Sessions.FairSpec` is its
counterpart for `handleEvent` and the report worker. `Intake.Fairness` is weaker: some
handler goes on as long as one can, the event loop's promise; failures, restarts and
arrivals are not obliged. Snapshots and the modules of the app are checked for safety
only. The `violation` runs of DeviceRow are action properties: their counterexamples are
finite and need no fairness.

## 5. Proofs

Eight modules prove, with TLAPS, every invariant and every action property that the
passing runs check, and that commands and reports implement AtLeastOnce: TLC shows
them on a small instance, the theorems for every value of the constants that satisfies
the named assumptions of the modules. The listed theorems and what each says are in
`PROJECT.json`. Each `Spec => []Inv` is proved from an inductive invariant, with one
lemma per action (or per step of a handler), and each action property is a reading of
that invariant in the state before the step.

### DeviceRow_proofs

Assumed: the handlers are those of the code (`KindsAssumption`), null is no account
(`NoneAssumption`), undefined is no value of a column (`UndefinedAssumption`).

Proved: `Invariance`, `TypeCorrect`, and the six action properties of the runs.

The argument. None of the action properties is inductive: what a save writes
depends on an entity that was read several steps earlier. `IndInv` says, for each
slot and column, how the entity in memory relates to the row *now*: it holds what
the handler assigned; what it did not assign is undefined or equal to the row, or
the column is in `overtaken` (`EntityInv`); what the SELECT of save found to differ
and the handler did not assign is in `overtaken` too (`DiffInv`); what the handler's
check found still holds or is in `unguarded` (`GuardInv`); and a slot waits for an
INSERT with the entity it made from its request (`RowInv`). One lemma per action
shows that the slot that moves keeps its part; `QuietFrame` and `WriteFrame` show
that the others keep theirs, when nobody writes, and when the slot that moves
writes their row: then every column it changes is recorded. `SavesContent` shows
that a completed save is `SaveUpdate`, and each theorem is then a reading of
`IndInv` in the state before it.

### JobQueue_proofs

Lemmas about sequences (what `Append`, `Tail` and a prefix do to the elements, to
their order, to how often one occurs), and the laws of the queue: each of its
operations keeps `QueueInv` (the types, the bounds on attempts and stalls, and that
the list holds exactly the jobs that wait, each once), under the condition in
which the processors call it; and what each does to the order of those that wait.
DeviceCommands_proofs and Sessions_proofs take the laws through
`Laws == INSTANCE JobQueue_proofs WITH Jobs <- ...`, as the modules take the queue.

### DeviceCommands_proofs and Sessions_proofs

Assumed: at least one attempt, any number of stalls and restarts, either kind of Redis,
`None` is no command, request or user. Sets of commands, requests and users are
arbitrary; so are the statuses that acknowledgements give, of which any number is in
flight, and the changes of owner.

Proved: the invariants of the runs (`AckedMeansDone`, `CompletedIsSettled`, `OrderKept`,
`AppliedBounded`; `ReportInOrder`, `AnsweredIsReported`), the types, and
`Spec => ImplementsDelivery`, the safety part of the refinement.

The argument. Over `QueueInv`, the invariant says which job the worker is on
(`WorkerInv`), which rows and jobs a request has left (`RecordInv`, `HandlerInv`), what has
happened by a given statement of the worker and of the acknowledgement (`DoneInv`,
`AckerInv`), how the number of effects relates to the attempts and stalls that were spent,
one more while one is open (`CountInv`), and who can still be behind whom in the list
(`BehindInv`; `AheadInv` for messages, pushes and notifications). `OrderKept` needs all of
them: a command that is queued later is behind in the list until the earlier one has
been applied, unless it was tried again. The refinement is proved action by action: each
keeps `Stage` and `effect` or makes the one step of AtLeastOnce that the lemma names, and
the invariant supplies what the abstract guard asks, for instance that a command is
completed only after it took effect. `CompletedIsSettled` needs to know whose word the
status is: once the worker has written ACKED, only an acknowledgement writes again, and
a SELECT of the worker that found ACKED already found the device's word or its own. A
report completed without effect is one whose last attempt is in `missed`.

### Reports_proofs

Assumed: amounts are integers and `Null` is none, weights are integers or `Null`,
days and month starts form a calendar, the cut of a ranking is at least 1
(`AmountsAssumption` ... `NoneAssumption`). That the weights in use have a positive sum is
no assumption: `getActiveWeights` sees to it.

Proved: `TypeCorrect`, `ScoreSound`, `RankingAgreesWithWeek` as invariants, `WeekRollsOver`
and `LateReportHidesNothing` as properties of a step.

The argument. The state is typed and no more; the work is in the figures. A score is
monotone, under the conditions that `ScoreSound` names, because products, quotients, caps
and roundings are (a chain of arithmetic lemmas). A sum is a fold, and what folds compute
for every set is induction over data, which the provers cannot do with the library's
theorem. It is proved instead by a least counterexample: the subsets of a finite set are
well-founded under strict inclusion, which the library states without an operator
parameter, so `LeastSet` gives a smallest set among those on which a claim about sums
fails, and removing one element from it contradicts that it is smallest. `SumsExist`,
`SumsAgree`, `SumStep` and `SumOfUnion` are proved this way, and the ranking's totals then
split into the week of the summary and what is dated later.

### RateLimit_proofs

Assumed: limits and windows are positive. Proved: `SlidingBudget`, `RefusedOnlyWhenSpent`.

The argument. `RateInv` numbers hits: those let through in the open window carry
the numbers 1 to the count, each once (so a refusal, which needs a count above the
limit, has as many admissions as the limit behind it), and those of the window before it
that are not yet `windowMs` old carry different numbers too. Two sets of numbers, each within
the limit, give the bound of twice the limit over any span.

### Hardware_proofs

Assumed: the payloads are of the pipe's types, any number of requests, restarts and shots,
a clock with at least one millisecond, null is no number.

Proved: for Intake `LogTellsTheTruth`, `LatestIsNewest`, `AlertFromReadings`,
`StatusFollowsReports`; for Snapshots `SnapshotServed`; the types of both. The theorems are
about `HardwareSpec`, of which Intake and Snapshots are the two areas.

The argument. Intake's `IndInv` follows a request along its handler: what it must be to
have come to a step (`Route`), what it has left by then (`Stored`), what it can have ended
with (`Ended`), what is written of that (`Logged`), that what was shown
is judged by what was measured (`Judged`), that a reading returned a row no older than those
answered when it arrived (`Newest`), and that the
device shows the last report while nobody was overtaken (`InStep`). `ShotInv` says whose
picture a file holds (`FilesTrue`), that a row leads to such a file (`RowsTrue`) and what a
request has found so far (`Handled`).

### App_proofs

Assumed: any number of requests; entries of a change name a key and columns of its entity
(`ChangesAssumption`), a time that was stored is not changed when it is stored again
(`TimesAssumption`), orders and wishes are of the types of the DTOs (`OrdersAssumption`,
`WishesAssumption`), the number of a lifetime is one or NaN (`ConfigsAssumption`). Of
`AsTime` and of calls nothing else is assumed.

Proved, of `AppSpec`: `OneRowPerKey`, `ReadsBack`, `CharacterWhole`, `AccountIsItsOwners`,
`CommandFollowsMessage`, and the types.

The argument. Each area has an invariant that the steps of the others keep, because they
do not touch its variables (`InX`, `XStay`). `TalkInv`: where a request is tells what was
said, heard and queued for it, and each message is in the table once. `AcctInv`: an
address has one row, and every token was made from a row that exists; a token that passes
its verification had not run out when the request came, which was earlier (`Held`).
`CharInv`: how rows, choices and what the requests hold in memory relate, where a request
that no other met finds what it left. `PrefInv`: what a request that met no other has
handled so far is in the table, each row being what an entry makes of a row that was there
`before` (`Follows`), and two rows of a key come only from two requests that met, or from
one that named it twice: a row that a request did not find is its own or was stored by one
it met (`PrefMissed`).

### Only model-checked

`Answered`, `Settles` and `DeliverySettles`: liveness under fairness, and the ENABLED in
it, are out of the prover's reach. The three violations are TLC's: they are behaviours,
not theorems.


## 6. Plan

1. *Done*: DeviceRow; JobQueue and AtLeastOnce with DeviceCommands and Sessions;
   Reports; RateLimit; RequestLog with Intake; Snapshots; Preferences, Character,
   Accounts and Chat.
2. *Done*: proofs, for every value of the constants, of every invariant and every safety
   action property of the passing runs, and of both refinements of AtLeastOnce.
3. Open: energy and change rates in Reports; DeviceRow composed with DeviceCommands,
   `ApplyCommand` being the worker's save, and the refinement of the one by the other; an
   abstract specification of a settings table that Preferences implements.

## 7. Not modelled

The components that "components" in `PROJECT.json` marks `not_modelled`, because no code
queues their jobs (the notification and time series workers) or because they hold no state
(the sensor-processing worker only logs, the modules of configuration and wiring). Of the
modelled ones: queries that only return rows (camera, attributes and rules of the
character, quick commands, request logs, notification history);
`ensureDefaultNotificationSettings`, which no code calls; the constants of the replies to
the hardware (`nextInterval`, `enabledSensors`, the heartbeat's configuration); logout,
which changes nothing; socket events with which clients join rooms; weight and gas, which
are stored and decide nothing. Quiet hours are values that the database converts; no code
compares them. Password hashing, JWT signatures and serialisation are out of scope;
validation is modelled where its answer matters, in Intake. `modules/logs` is imported by
the application and is not in the repository.

## 8. Running

    tlc -workers 2 -config RowOverlap.cfg MCDeviceRow.tla      (and the other .cfg files)
    for m in DeviceRow JobQueue DeviceCommands Sessions Reports RateLimit Hardware App; do
      tlapm ${m}_proofs.tla
    done

`App_proofs` takes about a quarter of an hour from nothing, `Hardware_proofs` a few
minutes, the others less.

The operators marked "Faulty" are plausible slips of the definition that follows
them. Put in its place, each makes the run that PROJECT.json names fail.
