# AIRTHRA ERP: a TLA+ model of the telemetry path, the alarms and the back office

AIRTHRA ERP runs a fleet of flue-gas desulphurisation plants. A Raspberry Pi at each plant polls
sensors and ships readings over MQTT; an ingest service stores them in
Postgres/TimescaleDB; workers derive alarms, KPIs, invoices and archives from
them; a FastAPI back end serves operators and the ERP (BOMs, purchasing,
production, logistics, billing). This directory models the parts in which
order, failure and concurrency matter, checks them with TLC on small instances,
and proves the central results with TLAPS for every value of the constants.

`PROJECT.json` lists the components, runs, mutants, hazards, findings and
theorems, and maps every definition to the source lines it stands for.

## 1. Inventory

### Components, their state and their operations

| Component | State | Operations | Model |
|---|---|---|---|
| Edge daemon `edge/daemon.py`, `edge/buffer.py` | in-memory outbox, MQTT client and `connected` flag, `mqtt_lock`, SQLite buffer rows, publisher's and sync's local variables, stop file | poll cycle, live publish, buffer on failure, backfill, graceful stop and flush, reconnect | `EdgeItems`, `EdgeDaemon` |
| Edge local store `edge/local_store.py` | rolling local history | insert per poll cycle, prune by age, queries | insert: `EdgeDaemon`; pruning: `EdgeClock` |
| Clock gate `edge/clock.py` | last good timestamp in memory and on disk | check, observe, persist | `EdgeClock` (and as "cycles only rise" in `EdgeDaemon`) |
| Sensor sources `edge/mockgen.py`, `shared/quality.py` | last 1-Wire readings, newest PMS7003 frame, mock freezes | read, classify, decode, fail | `Sensors` |
| Manifest cache `edge/manifest.py`, provisioning `scripts/provision_pi.py` | cache file; keys, broker password, env and summary files of a device | fetch or fall back at boot; provision again | `Provisioning` |
| Ingest service `ingest/service.py` | subscriptions, message queue, cached manifest, `readings`, `setpoint_changes`, `dead_letter_readings` | subscribe, validate, insert idempotently, dead-letter, refresh the manifest, reconnect | `IngestService` |
| Telemetry path | both, and the broker between them | | `Telemetry`, against `ReadingDelivery` |
| Alarm engine `workers/alarm_engine.py`, `POST .../ack` in `api/routers/plant.py` | `alarms`, a per-cycle snapshot | snapshot, raise, clear, escalate, acknowledge | `AlarmEngine` |
| Billing worker `workers/billing_worker.py`, `api/routers/admin_billing.py` | contracts (each superseding the one before), invoices (draft/approved), PDFs in the object store | create a contract, generate, regenerate, approve | `Contracts`, `Documents` |
| Archive worker `workers/archive_worker.py` | staging and final objects, proofs, `archive_log` | archive a plant-day, verify, prove, log, run again | `Documents` |
| BOM revisions and change requests `api/routers/erp_boms.py` | BOMs (draft/released) and their items, change requests | edit items, release, revise, request, approve, reject | `Engineering` |
| Drawings `api/routers/erp_drawings.py` | drawings (draft/released/superseded) | create, update, release, revise | `Drawings` |
| Purchasing `erp_pos.py`, `erp_grn.py`, `erp_invoices.py` | purchase orders, receipts, vendor invoices | number, create, add items, issue, receive, match, approve | `Procurement` |
| Production `production.py`, traces `genealogy.py` | lots, issue lines, jobs, units, installations | receive a lot, issue material, install, trace forward, recall | `Inventory` |
| Status diagrams `production.py`, `admin_crm.py` | status of a job, a unit, a lead | transitions | `Statuses` |
| Offtake `admin_offtake.py` | batches, certificates of analysis | create, inspect, allocate, dispatch, certify | `Offtake` |
| MRV export `admin_mrv.py`, restore drill `scripts/restore_drill.py` | none of their own: they read what the archive worker writes | export a day, drill | `ArchiveReaders` |
| Logistics `logistics.py`, `admin_logistics.py` | trips, pings, tasks | start, ping, stop; webhook and its retries | `Logistics` |
| Live feed `mqtt_bridge.py`, `ws.py` | the registry of sockets, the bridge's connection | register, fan out, leave, reconnect, stop | `LiveFeed` |
| Rate limiter `ratelimit.py`, login `auth.py` | attempts per address and account | check, record, clear, prune | `LoginLimiter` |
| Tenants `admin_tenants.py` | users, plants they see, invites | create, patch, invite, accept | `Accounts` |
| Stored documents `admin_documents.py`, `erp_storage.py` | rows and objects | upload, verify, delete | `StoredDocuments` |
| Figures `billing_worker.py`, `erp_calc.py`, `tally.py` | none | bill a month, split GST, amounts in words, vouchers, fiscal years | `Figures` |
| Judgements `kpi_worker.py`, `alarm_engine.py`, `admin_risk.py`, `admin_fleet.py`, `admin_metrics.py`, `admin_logistics.py` | none | KPIs, rule evaluators, risk score, fleet colour, metrics, burn rate | `Judgements` |
| The rest | CRUD behind role checks, layout of PDFs, migrations, seed, frontend | | not modelled (section 8) |

### How they interact

- Poller, publisher and sync are asyncio tasks of one process. They share the
  outbox, one aiomqtt client and its lock; the SQLite buffer is their durable
  shared state. They interleave only at an `await`.
- Edge and ingest speak MQTT QoS 1 through Mosquitto: a publish is acknowledged
  by the broker, not by ingest. These are two independent hops.
- Ingest, workers and the API share nothing but Postgres. Each API request is
  one READ COMMITTED transaction (`api/deps.py`, `db_session`); a worker opens
  a transaction per unit of work.
- The API receives live readings by an MQTT subscription of its own.

### The hard behaviours

1. A publish cycle that fails half-way: some messages acknowledged, others not.
2. Publisher and sync taking turns on one connection, which can break, time out
   and be replaced while the other task holds a reference or queues on the lock.
3. A PUBACK that arrives after its publish has timed out.
4. A kill at any `await`, a stop that cancels tasks anywhere, SQLite writes
   that raise.
5. Duplicates on both hops, and messages that reach the broker while nobody is
   subscribed.
6. A snapshot taken by several queries and used after operators have changed
   the rows it was taken from; updates that go by primary key alone.
7. In the back office: a PDF overwritten before a status guard is looked at, two
   requests that both pass a check before either writes, partial receipts and
   invoices in any order, a change request overtaken by a newer revision.
8. Readers that need several statements, or several calls of the object store,
   while others commit: a trace of a lot, an export of a day that is being
   archived again.
9. A clock that jumps, a watermark whose write failed, a restart in between.
10. Sockets that come and go while the bridge awaits one of them, and a bridge
   that loses its connection; a provisioning script that dies half-way, or runs
   twice.

### What makes each component correct

| Component | Property |
|---|---|
| Edge daemon | nothing drained is lost, nothing is held twice, a buffered row is deleted only after its acknowledgement and oldest first, a task takes only the PUBACK of its own publish |
| Ingest | at most one row per natural key; what was accepted is kept while the service is up |
| Telemetry path | every item is delivered exactly once unless a named fault gave it up, and an item given up never comes back |
| Alarm engine | one open alarm per rule, nobody asked twice, the cooldown kept |
| Billing | the terms that apply are those agreed last; the row of an approved invoice is frozen; a row speaks only of a document that was stored |
| Archive | the same of its log; a run of its own brings row, object and proof into agreement again, whatever failed before |
| Purchasing | numbers are gap-free; no receipt is lost; nothing is called received, or approved, on account of goods that have never been there |
| Clock gate | no cycle is further back than the tolerance before the latest one |
| BOMs, drawings | what is released stays as it is; revisions descend from released ones, a change request has one result; an item has the weights of its fields |
| Production | what is issued from a lot was received; a trace started after an installation finds its plant |
| Offtake | what is sold has passed and has a buyer |
| Archive readers | what has settled is readable: no false alarm about a day nobody is writing |
| Limiter, accounts | no more attempts than allowed, however many overlap; plants go with the role |
| Feed, trips, provisioning | what was answered, stored or watched is kept |
| Stored documents | a row is of what was uploaded, and until somebody deletes it row and object are kept |
| Figures, judgements | agree with a reference definition: a tax's parts make up the tax, a voucher is off by no more than its invoice, amounts in words read back, a vote of flags is the worst of them |

## 2. Plan

The order puts the most important behaviour first. All of it is modelled now;
what is left is in the last step.

1. **Telemetry** (done): `EdgeItems`, `EdgeDaemon`, `IngestService`, composed by
   `Telemetry`; abstract specification `ReadingDelivery`, implemented under a
   refinement mapping. Proofs in `EdgeDaemonProofs`
   and `TelemetryProofs`.
2. **Alarms** (done): `AlarmEngine`, `AlarmEngineProofs`; the evaluators in
   `Judgements`.
3. **Contracts and documents** (done): `Contracts`, `Documents` with the upload
   protocol that archive and billing share, `DocumentsProofs`; its readers,
   export and drill, in `ArchiveReaders`.
4. **Purchasing** (done): `Procurement`, `ProcurementProofs`.
5. **Engineering and production** (done), composed by `MCWorks`: `Engineering`,
   `Drawings`, `Inventory`, `Statuses`, `Offtake`. Proofs about all of them in
   `EngineeringProofs`.
6. **The rest of the platform** (done), composed by `MCPlatform`: `EdgeClock`,
   `Sensors`, `Provisioning`, `LoginLimiter`, `Accounts`, `Logistics`,
   `StoredDocuments`, `LiveFeed`, and the computations in `Figures` and
   `Judgements`. Proofs about all of them in `PlatformProofs`; the lemmas about
   figures and judgements in `FiguresProofs`.
7. **Left**: every safety property of the passing runs is stated by a theorem.
   Liveness stays with TLC, and the parts of section 8 without a model.

No module that a theorem is about reaches a RECURSIVE operator: sums, selections
from a sequence and conversions digit by digit are recursive functions or folds.

## 3. The modules and the code

### `EdgeItems`

An item is a slot (sensor or setpoint register) and the poll cycle whose
timestamp it carries: exactly the natural key under which Postgres identifies
it. Values, units and quality flags are left out: nothing in the pipeline looks
at them (a `COMM_ERROR` reading is shipped like any other).

### `EdgeDaemon`

One action per stretch of code between two awaits of one task.

| Variables | Code |
|---|---|
| `outbox`, `lock`, `connected` | `Context.outbox`, `.mqtt_lock`, `.connected` with `.mqtt_client` |
| `pollPc`, `readCount`, `cycle` | where `poller_task`/`_poll_once` is, how many sensors it has read, the time |
| `pubPc`, `drained` | where `publisher_task`/`_publish_loop` is; `readings` + `setpoints` still unsettled |
| `syncPc`, `chunk` | where `_sync_once` is; the rows of `peek_chunk` |
| `buffer`, `batches` | rows of the SQLite buffer; a row's id is its batch and its place in it |
| `session`, `wire`, `ack` | the TCP session, publishes in flight, the awaited PUBACK |
| `flush`, `verdict` | `_wait_for_flush`: consecutive empty checks, and what it reported |
| `accepted`, `generated`, `lost` | history variables, read by properties only |

Both publishing tasks go through *send under the lock → wait for PUBACK → go
on*. `GiveUp` is what a timeout leaves behind: the message may still reach the
broker, but its PUBACK wakes nobody. `PubClose` is the end of `async with
Client`; it turns a sync task that queues on the lock into one that will publish
on a dead client (`syncPc = "stale"`), as in the code, which re-checks
`ctx.mqtt_client` before and not after it acquires the lock. `ProcessEnds` is
shared by a kill, by an exception that nothing catches and by the cancellation
at the end of a graceful stop. `DiskFails` is the premise of each step in which
SQLite raises: `DiskMayFail` must allow it, and it counts as a fault.

### `IngestService`, `Telemetry`, `ReadingDelivery`

`IngestService` has one action per database transaction of `handle_message`.
The message queue is paho's: a message is acknowledged to the broker when it
enters `inbox`, before anything is stored. The broker drops what nobody is
subscribed to (the client connects with a clean session).

`Telemetry` extends both and joins `BrokerAccept` with `Deliver`. It implements
`ReadingDelivery` under the mapping `StatusOf`: an item is *stored* when it has
a row, *underway* when some queue, variable or message still holds it, and
*gone* when none does. `Lossy` is mapped to `CanLose`, so the same property says
"exactly once" in a run without losses and "never twice, never resurrected" in
one with them.

### `AlarmEngine`

The engine's snapshot is loaded by queries that each see their own database
state (READ COMMITTED), so `CycleStart` (readings), `LoadActive` and
`LoadCleared` are separate steps, and so is each rule's transaction
(`ProcessRule`). Operators acknowledge at any time (`Ack`), and the engine's
updates go by `alarm_id` from the snapshot. A rule's evaluator is one Boolean
per cycle, chosen freely; `Judgements` looks at the evaluators themselves.
Nothing relates two plants, so one is modelled.

### `Contracts`, `Documents`

`create_contract` reads the active contract and commits later; between the two,
another administrator may commit. The partial unique index makes the second
insert of an active contract wait and fail, so `CommitContract` either takes
both its writes or neither. `ContractFor` is the query of `_active_contract`.

`Documents` has one action per call of the object store or transaction of the
two workers, which share `upload_atomic` and so one staging key per document:
`Stage`, `Copy`, `DeleteStaging`, `Verify`, then the proof (archive only), then
`Upsert`. A run may end after any of them (`RunFails`). `data` counts the lots of
readings that have arrived, so a document is what it states: how much data, for
an invoice under which contract and rendered by whom. No two documents share a
key or a row, so one is modelled, an archive or an invoice. `alone` and `landed`
are notes the code does not keep, read by properties only. The three queries of
one sensor each that make up a month are one read; an administrator runs one
request at a time; nothing in the repository sets an invoice to `sent`.

### `Procurement`

A request is a READ COMMITTED transaction, cut where another's commit can come
in between. What it has written is kept with it until it commits: the number it
is about to insert, or `locked` (the rows of `po_items` it holds), `written`
(what it wrote there) and `entered` (what its `grn_lines` add up to). `Seen` is
a row as its own transaction sees it. Locks are taken in the order of the lines,
so two receipts can deadlock; Postgres ends one, which is `Rollback`. Orders
share nothing but their numbers, so one order is followed while numbers are
given to others. A unit of one item costs the same as of another, which makes an
amount a number of units. Quantities and amounts are any whole number, below zero
too: nothing in `GrnLineIn`, `PoItemIn` or `InvoiceIn` bounds them, and no CHECK of
the migrations does, so a receipt may take goods back. `MaxTaken` and
`MaxReceived` bound how far it goes. For the properties, `created` keeps how many
items the order began with, and `most` and `mostInAll` the most that was ever
accepted of each item and of all of them together.

### `Engineering`, `Drawings`, `Inventory`, `Offtake`, `Statuses`

A request of these is split where it looks and where it writes: `req`, `draft`,
`clerk` and `foreman` hold what it has found, and its last statement and the
commit are one step. Everything in between is another request's turn. Any of
them may be refused or fail and is rolled back. Nobody locks rows but by an
UPDATE, so `Inventory` has the one lock there is: a debit of a lot waits for the
transaction that has debited it (`RowFree`), and looks at its WHERE again.

| Module | State and code |
|---|---|
| `Engineering` | `boms` with their items, `ecrs`: the tables of `erp_boms.py`. `compute_bom_item` is a function of the fields, so an item's weight is the fields it was computed from (`weighed`). A revision copies the items it sees (`CopyItems`) and commits later (`CommitRevision`), by itself or for a change request |
| `Drawings` | the rows of one drawing number; a revision supersedes the row it was made from |
| `Inventory` | lots, issue lines added up by lot and job, jobs, installations. A forward trace is three statements, each of which sees its own database; a recall is one |
| `Offtake` | one batch. The CHECK constraints of migration 0011 are looked at by every `Update` |
| `Statuses` | a job, a unit and a lead, with the transition tables of the code |

`MCWorks` composes them. They share no row, so a behaviour has a `focus`, one of
them, and the others stay as they began: together they would only multiply
states, not show anything more.

### `ArchiveReaders`

Extends `Documents` by a reader, an export of one day or a restore drill: row,
object, checksum, proof are read by one step each while workers archive the same
day again. `settled` says that row, object and proof agreed when it began and no
run has been active since.

### `EdgeClock`, `Sensors`, `Provisioning`

`EdgeClock` has the clock gate: the clock may jump both ways between any two
steps, `watermark` is what is in memory and `file` what is on disk, a write may
fail, the daemon may restart. `rows` is the local store as far as retention
looks at it: the timestamp of each row by its id, `Never` once it is deleted.
`Sensors` has one source of each kind: a register that is decoded
and classified, a probe with its deque of readings, a dust sensor whose newest
frame grows stale, the simulator that freezes. `Provisioning` has runs of the
script, one step per file or credential they write, that may fail or die at any
of them and overlap; and, apart from it, the manifest a daemon boots with, from
the database or from a cache that may be old, torn or not written.

### `LoginLimiter`, `Accounts`, `Logistics`, `StoredDocuments`, `LiveFeed`

`LoginLimiter`: check and record of an attempt are one step, the outcome
another, with the time and other attempts in between. `Accounts`: an
administrator's request holds the role it has read, an invite is looked at in
one step and spent in another. `Logistics`: a trip and its telephone, an alert
notification and its retries; each request may be carried out without its answer
arriving. `StoredDocuments`: row and object with a pause between every two
calls; `removed` is a note that a deletion got as far as the object. `LiveFeed`: the registry of sockets, the bridge, which awaits one socket
after another (`targets`), and the handlers that come and go meanwhile.

### `Figures`, `Judgements`

Functions of their inputs. A behaviour asks for one figure (`asked`) and has the
`answer` as the code computes it; the properties compare the answer with the
question by a definition of their own: amounts in words are read back, a total
is compared with the sum of its parts, a sliding computation with one from
scratch. A voucher is asked for an invoice that has passed the three-way match
with an order, and credits the vendor's own total, as `tally.py:42` does; amounts
may be below zero, and `HalfUp` rounds away from it. `Spread` is the covariance behind deviation and slope, times the square
of the number of points, so that fractions stay whole numbers. `MCPlatform`
composes all of these as `MCWorks` does.

## 4. The runs

| Run | Question and answer |
|---|---|
| `EdgeDaemon_safety` | Do the tasks, interleaving at every await, with links that break, PUBACKs that come late, SQLite writes that raise, and a process that is killed, or stopped gracefully with its tasks cancelled anywhere, lose, duplicate, misorder or prematurely delete anything? Nothing but what was in memory when the process ended or `put_many` raised. (Whether a graceful stop should lose anything is the next run's question.) |
| `EdgeDaemon_flush` | Does "flushed, safe to shut down" mean so? No: two empty checks 250 ms apart pass while a publish awaits its PUBACK, and the cancellation that follows loses its items. |
| `Telemetry_faults` | With crashes and outages on both sides and SQLite writes that raise: at most one row, accepted items kept while ingest stays up, and the delivery specification with losses. Holds. |
| `Telemetry_live` | Without a process ending: is every generated item eventually one row? Yes, through link losses and late PUBACKs. |
| `Telemetry_outage` | "Always ends up in Postgres exactly once" (daemon.py:103-108)? Not when the ingest connection is lost for a moment: its session is clean, and the edge has had its PUBACK. |
| `AlarmEngine_safety` | Two rules, stale snapshots, acknowledgements at any time, failing rules and restarts: one open alarm, nobody asked twice, cooldown kept. Holds, with the exceptions that acknowledging a *cleared* alarm makes (section 7). |
| `Documents_safety` | Contracts superseded by two administrators at once, two runs of a worker over one staging key with failures anywhere, approvals and late readings: do the terms agreed last apply, does a row speak only of what was stored, is an approved row final, does a run of its own heal what failed? Yes. |
| `Documents_approved` | Is an approved invoice not clobbered (billing_worker.py:497-499)? Its row is not; the PDF behind `pdf_url` is, because the upload comes before the guarded upsert. |
| `Procurement_safety` | Two requests number, issue, receive, add items and approve at once, with lines that accept less than nothing, and with rollbacks: are numbers gap-free, is no receipt lost, nothing received on a draft, and have the goods been there when an order is called received or an invoice is approved? Yes. |
| `Procurement_partial` | Is `partial` "some but not all po_items fully received" (erp_grn.py:2-4)? Not after two receipts for different items that overlap: each misses the other's goods, and the order stays `partial` with everything received. |
| `Works_safety` | Two requests at once on BOMs and change requests, on drawings, lots, batches and statuses, any rolled back: do weights and lineage stand, is stock conserved, do traces and recalls miss nothing, is only sold what passed, does what is finished stay? Yes, the last but for requests that had looked before it was finished. |
| `Platform_safety` | Each remaining part with what overlaps in it (readers and workers, a jumping clock, logins, administrators, retries, deletions, sockets, provisioning runs), and the computations on bounded inputs: is what settled readable, the clock within its tolerance, attempts and scope limited, what was answered kept until somebody deletes it, and are the figures what they claim? Yes. |

Every property of a passing run has a mutant under `mutants`: a plausible bug of
the code with which TLC finds it violated. `NothingIsLost` and `FiguresAgree` of
the platform join properties that belong to different modules
(`TripsAreKept`, `DocumentsAreKept`, `FeedIsWhole`, `LastRunMends` and
`ManifestNeverGoesBack`; `BillsAreFair`, `MoneyAddsUp`, `PrintReadsBack`,
`RulesFireRightly`, `PlantsAreJudgedRightly` and `StuckIsFlagged`): each of these
has a mutant of its own, and breaks alone. `FinishedIsFrozen` and
`TraceMissesNothing` have one for all their conjuncts; the others were broken in
the same way while they were written.

### Bounds

`NumSensors`, `NumRegisters`, `MaxCycles`: two sensors make a batch that a slow
cycle can split, one register makes a publish cycle of two messages of which one
may be acknowledged and the other not, two cycles put older and newer items in
outbox and buffer at once. `ChunkSize` 1 and 2 split and merge the backlog.
`MaxFaults` bounds link losses, slow PUBACKs, kills and SQLite writes that raise
together; two suffice for a fault during the recovery from another. `MaxInbox`
and `MaxOutages` play the same part for ingest. `MaxAlarms`, `MaxTime`: three
alarms of a rule with a cooldown of two ticks inside six ticks, so that a raise,
clear, cooldown, re-raise, clear and second cooldown fit. Deadlock is not
checked where a bound ends the behaviour: after the last cycle, when the clock
stops, or when an order has been numbered, received and invoiced up to the
bounds.

`Documents_safety`: three days and two contracts, so that a contract can start
before, on and after the billed period's first day and be superseded on it; two
workers, which is what it takes to copy or delete each other's staging object;
data that arrives twice, so that a document can be stale against another that is
itself stale. `Procurement_safety`: orders of one or two items with one added
later, lines of plus or minus one in either order, so that what one receipt
brings another takes back; `MaxTaken` and `MaxReceived` 1 let an item go below
nothing and come back; two requests for every race of a check with another's
commit, an invoice for one unit or for two, numbers in two years up to `MaxPos` 3.
`MCProcurement` gives numbers while the order waits, and works on the order while
no numbers are given: the two share nothing. In `Procurement_partial`,
`MaxReceived` 2 lets an item be over-received while another is missing.
Runs and invoices, requests and administrators are symmetric.

`Works_safety`: two requests, for the race of a look with another's commit. The
BOMs come twice: two with all their fields, for edits and copies (`"edits"`),
and three, so that one can be revised twice, whose items are alike
(`"lineage"`). Two lots from different vendors with a quantity of at most
`MaxQty` = 2 between them, so that two issues compete for the rest; two drawings
with two revision strings; two buyers.

`Platform_safety`: two actors wherever requests, runs or sockets overlap (three
runs of provisioning, so that two can disturb each other before the third); a
tolerance of one tick on a clock of six, so that it could be used up several
times over; a limit of three attempts in a window shorter than the clock, so
that the window slides; the smallest sensor range with values on both sides of
it; three readings to the probe's verdict; three messages for a feed that loses
its connection in between; manifests of three versions, so that an old cache can
be told from an older one. `Figures` and `Judgements` have the inputs at which
their definitions change: empty hours, flagged and absent readings, exactly the
threshold, odd paise, amounts and rates below zero, an amount and others just within
and just beyond the 2% of a match, the turn of a century, constant series, series cut by the
snapshot's limit, amounts on both sides of every unit and every zero between two
of them. A month of one day with two hours and a lookback of two days is enough
to have good, flagged and missing hours in every order, and trailing days of
each kind. Bounds, amounts, rates, fees, counts, values, hours and days of a
month, lookback, rows of a snapshot and lengths of series are constants given in
`Platform_safety.cfg`, so the theorems about `MCPlatform` hold for any. Literal are
the parameters of a persistence rule and what an hour of one sensor can
contain.

### Fairness

Only `TelemetryFairSpec` assumes any. A task whose await has completed runs
(weak fairness of each of its steps): the asyncio loop is FIFO and no step
blocks. The two sends need strong fairness because the lock they wait for is
taken and released by the other task; `asyncio.Lock` wakes its waiters in FIFO
order, which gives it. A publish over a dead session times out (aiomqtt's
timeout), the broker takes what reaches it, poll cycles recur. Nothing is assumed of link losses,
slow PUBACKs, outages or kills: they are never obliged to happen.

## 5. What is proved

With TLAPS, for every value of the constants that satisfies the assumptions of
the module in question: `ItemsAssumption`, `DaemonAssumption`,
`IngestAssumption`, `AlarmAssumption`, `ContractsAssumption`,
`DocumentsAssumption`, `ProcurementAssumption`, `NoneIsNoRow` (of
`Engineering`), `WorksAssumption` (of `MCWorks`) and `PlatformAssumption` (of
`MCPlatform`). The last two are the conjunction of those of the modules that
are composed: bounds are natural numbers, clerks, jobs and sessions are finite
sets, what stands for "none" is no row, buyer or drawing, limits are at least one,
fees and counts are natural numbers, amounts, rates of a tax and quantities are
integers. `WorksAssumption` also fixes the three
BOMs of its two focuses;
what is proved of `Engineering` by itself does not. `HeldOnce` and `Implements`
assume `~KeepPolling`: with it one timestamp stands for many cycles, so that the
cap on the clock does not stop the poller in the run about liveness, and an item
is no longer one.

| Theorem | Says |
|---|---|
| `EdgeDaemonProofs!TypeCorrect` | `Spec => []TypeOK` |
| `EdgeDaemonProofs!AckForTheAwaited`, `NothingLost` | `[]AckIsForTheAwaited`, `[]NothingDrainedIsLost` |
| `EdgeDaemonProofs!RowsOutlive`, `OldestFirst` | `RowsOutliveTheirAck`, `DrainedOldestFirst` |
| `EdgeDaemonProofs!HeldOnce` | `[]EachItemHeldOnce` |
| `TelemetryProofs!IngestOneRow`, `TelemetryOneRow` | `[]AtMostOneRow`, for ingest alone and end to end |
| `TelemetryProofs!TelemetryTypeCorrect`, `AcceptedKept` | `[]TelemetryTypeOK`, `[]AcceptedIsKept` |
| `TelemetryProofs!Implements` | `TelemetrySpec => ImplementsDelivery`, the refinement of `ReadingDelivery` |
| `AlarmEngineProofs!AlarmTypeCorrect`, `OneUnacked` | `[]TypeOK`, `[]OneUnackedAlarm` |
| `AlarmEngineProofs!OneOpen`, `CooldownKept` | `[]OneOpenAlarm`, `[]CooldownRespected` |
| `DocumentsProofs!DocumentsTypeCorrect`, `LatestTermsApply` | `[]TypeOK`, `[]LatestAgreedApplies` |
| `DocumentsProofs!RowsSpeakOfStored`, `ApprovedStays`, `NextRunHeals` | `WrittenWasStored`, `ApprovedIsFrozen`, `LoneRunHeals` |
| `ProcurementProofs!ProcurementTypeCorrect`, `NumbersStayGapFree` | `[]TypeOK`, `[]NumbersGapFree` |
| `ProcurementProofs!NoReceiptIsLost`, `DraftsReceiveNothing` | `[]ReceivedIsAccepted`, `[]DraftHasNoReceipts` |
| `ProcurementProofs!StatusNeverAhead`, `ApprovalNeverAhead` | `[]ReceivedIsEarned`, `[]ApprovedIsCovered` |
| `EngineeringProofs!EngineeringTypeCorrect`, `LineageStands` | `[]TypeOK`, `[]LineageHolds` |
| `EngineeringProofs!ReleasedStays`, `WeightsAgree` | `ReleasedAndQuietIsFrozen`, `[]ItemsAreWeighedAsTheyStand` |
| `EngineeringProofs!SoldPassed` | `[]SoldHasPassed`, of `Offtake` and of the works |
| `EngineeringProofs!StockConserved`, `NothingMissed` | `[]StockIsConserved`, `[]TraceMissesNothing`, of `Inventory` and of the works |
| `EngineeringProofs!WorksTypeCorrect`, `FinishedStays` | `[]WorksTypeOK`, `FinishedIsFrozen` |
| `PlatformProofs!PlatformTypeCorrect` | `[]TypeOK` of the platform |
| `PlatformProofs!SettledCanBeRead` | `[]SettledIsReadable` |
| `PlatformProofs!TolerancesDoNotAddUp` | `[]ClockNeverFarBack`, of `EdgeClock` and of the platform |
| `PlatformProofs!LoginsAreLimited` | `[]AttemptsAreLimited` |
| `PlatformProofs!AnswersAreKept` | `[]NothingIsLost` |
| `PlatformProofs!AccountsKeepTheirScope` | `ScopeFollowsRole`, of `Accounts` and of the platform |
| `PlatformProofs!StuckProbeIsFlagged` | `[]StuckIsFlagged` |
| `PlatformProofs!FiguresAddUp`, `JudgementsAreFair` | `[]FiguresAgree` of `Figures`, `[]JudgementsAgree` of `Judgements` |
| `PlatformProofs!FiguresAreRight` | `[]FiguresAgree` of the platform, from the three before |
| `PlatformProofs!StoredAsSent`, `ManifestsOnlyAdvance`, `LastRunCounts` | `[]AnsweredIsKept` of `StoredDocuments`, `[]ManifestNeverGoesBack` and `[]LastRunMends` of `Provisioning` |

`TelemetryProofs` extends `EdgeDaemonProofs`: a step of the telemetry path is a
step of the daemon, of ingest, or both. `EngineeringProofs` extends `MCWorks`,
and `PlatformProofs` extends `FiguresProofs`, which extends `MCPlatform`. Their
lemmas `WorksSteps` and `PlatformSteps` say that a step of the whole is a step of
each component or leaves it alone, so that each component's invariant is proved
of the component alone.

**Edge.** `AckIsForTheAwaited` is not inductive. The invariant is
`PublishProtocol`: the lock is held exactly by the task that is waiting
(`LockIsHeld`); a message marked as awaited carries what that task published
(`AwaitedIsHeld`), there is at most one and none once its PUBACK is in
(`OneAwaited`); rows being deleted have been accepted (`DeletingIsAcked`). The
publish protocol is proved first; that a row outlives its acknowledgement is
then a fact about one action, `SyncDelete`. `NothingDrainedIsLost` is inductive
on top of it: an item leaves `outbox`, `drained` or `buffer` only into the next
of them, into `accepted` by way of its PUBACK, or into `lost`, where a
process that ends and a write of the buffer that raises put it.

`EachItemHeldOnce` needs to know that what a poll yields is new: items come in
the order of the clock (`GeneratedSoFar`), and what is held has been generated.
`DrainedOldestFirst` rests on `ChunkIsOldest`: the chunk was the oldest rows
when it was read, rows are numbered upwards, so what is put meanwhile comes
after it. That the first rows of a buffer are closed downwards
(`FirstRowsClosed`) is a fact about cardinalities.

**Telemetry.** `AcceptedIsKept` needs `AlwaysSubscribed`: a service that has
never been away is subscribed to all topics, so the broker hands it all it
accepts. For the refinement, `PathInv` adds to the edge's invariants that what
is underway has been generated and that, unless `CanLose`, nothing that gives an
item up has happened (`Faultless`). Then `PathMoves` sorts the steps of both
sides by what they do to the sets of items that are underway and stored: some
that are new set out, some get their row, or some drop out; `DeliverySteps` maps
these to `Generate`, `Store` and `GiveUp`, and excludes the last one unless
`CanLose`, since `NothingIsGone`.

**Alarms.** `OneUnackedAlarm` rests on `SnapshotKnows`: while the rules are
being processed, the snapshot of a rule not yet processed names an alarm at
least as recent as any that is raised or escalated. An acknowledgement can only
remove alarms from that set, and the raise step requires the snapshot empty.
`OneOpenAlarm` and `CooldownRespected` are about rows that never cleared and
times at which rows did. `HistoryInv` says what the snapshot still knows of
these for a rule not yet processed: every row that never cleared
(`SnapshotKnowsOpen`) and a clearance at least as late as any
(`SnapshotKnowsCleared`). Acknowledgements that commit between its two queries do
not disturb it, because it speaks of `clearedAt`, which they leave alone.

**Contracts and documents.** `Chain` says the contracts follow each other
without a gap and the last alone is active; `RequestsAreOld` that a request
holds a contract that started before its own. Together they make the query of
the billing worker pick the one agreed last. For documents the invariant
(`RunInv`) relates each run's step to what is at the keys: a run alone that has
verified finds its document at the final key, and one past verification has had
its document there.

**Purchasing.** `ReceivedIsAccepted` is not inductive, since a receipt adds up
what it will write while others commit. `ReceiptInv` says that in the rows a
receipt has locked, what it wrote is what was committed and what it has entered,
and elsewhere it has entered nothing; `LocksApart` that no two receipts hold the
same row. A commit then adds the same to both sides. Goods come and may be taken
back, so what is earned is told by the history, which only grows: a receipt that
means to write `received` saw of each item what had been committed, which is no
more than `most` (`MostIsMost`), or has it locked and commits it with the status
(`Earned`). `NumbersGapFree` is inductive with the finiteness of the numbers. `ApprovedIsCovered` is about sums: `MatchInv` says that whoever has
matched an order took it to ask for no less than `Least`, the items it was created
with and whatever takes off from them, which items added later only make smaller
(`LeastShrinks`), and that whoever goes on to approve found enough accepted, which
`mostInAll` remembers (`MostGrows`, `EnoughStays`).

**Engineering.** `LineageHolds` needs `Refers`: what a request has found still
exists, and was released, or pending, when it found it. A released BOM is never
un-released, so what a revision was copied from is still released when it is
committed. `ReleasedAndQuietIsFrozen` is a fact about each action: only a request
that had found the BOM a draft can write it. `ItemsAreWeighedAsTheyStand` is
inductive with the types, since fields and weight are written by one statement.

**Works.** `StockIsConserved`: whoever has debited a lot holds its row, alone, and
remembers what is left (`DebitsAreLocked`), so a commit adds to the issue lines
what was taken from the lot; the sum over them is taken apart by `SumOfMore`.
`TraceMissesNothing`: at each step, what a trace has found so far still leads to
every plant that was there when it started (`OnTheTrail`), since issue lines,
units and installations only come (`Grown`); the recall follows from the types.
`SoldHasPassed`: whoever is at work on a batch has found it; the CHECK constraints
do the rest. `FinishedIsFrozen` is, as for the BOMs, a fact about each action:
only who found a drawing, a job, a unit or a lead unfinished can write it.

**Platform.** Each specification has an invariant of its own. `ClockInv`: while
writes reach the disk, the file holds the watermark of the latest cycle, so a
restart forgets nothing and each cycle is measured against the latest and not
against the one before. `ManifestInv`: a cache that can be read is the newest
manifest that was booted with, and the source is no older. `RunsInv`: a run that
nobody has disturbed has written all it has got past; whoever could overwrite it
would disturb it. `AccountInv`: whoever holds the role of an account or one of
its invites has found the account, and a password was given with an invite that
is spent. `DocumentInv`: a row follows verification, an object is broken
only before it, or when it has failed, and until a deletion has got as far as the
object what is verified is whole and what is stored has its row. `SettledInv`: what a reader that began
with row, object and proof in agreement has found is still what is there.
`TripInv`: what is committed is there for every alert that fires, and a stop
that was carried out is not undone. `FeedInv`: whoever is still to be sent the
last message registered before it was taken, for its plant. `SensorInv`: the
probe's history ends in exactly as many equal readings as have been counted.

`LoginInv` is the longest. What the limiter holds of an address is the end of the
times at which it let somebody through, and what it has dropped is over (`Left`);
each time is more than a window after the one that came `IP_MAX_ATTEMPTS` before
it (`Apart`). A window then holds at most so many (`FewInAWindow`), whenever it
begins. Failures of an account and attempts that are under way are bounded
together (`Within`): those under way have passed the check before any of them was
recorded, which is why the property allows one more per session.

Sums and totals are folds and recursive functions. That they are what their
recursion says is proved once (`SumExists`, `TotalExists`), by induction over the
finite sets and numbers they run over, stated as sets (`EverySubset`,
`EveryNumber`) because no prover here can instantiate an induction theorem.

**Figures and judgements.** Their invariant is the property itself: it relates
the one question of a behaviour to its answer, so what is proved is a fact about
the functions, for every input the constants allow. Each action has a lemma
(`BillStep`, `WordsStep`, `FrozenStep`, ...), and `FiguresAddUp` and
`JudgementsAreFair` put them together.

Rounding is bounded (`HalfUpIs`), on both sides of zero, and keeps the order
(`HalfUpGrows`), from which splits of a tax, percentages and weighted scores
follow. That a voucher is off by at most the tolerances of the three amounts is
the triangle inequality on what the match has let through. What recurs is treated
as the totals above: the function is shown to exist (`Stepping`), then to be what
its recursion says, then its property goes from one number to the next.

- *Billing.* Two series whose usable hours are alike, one of them blank where the
  other is flagged, have the same hours to fill from (`UsableDays`), so the same
  averages and the same bill.
- *Words.* What is heard of some words is a function of what was heard before and
  of the words alone (`Says`), so words said one after the other compose
  (`SaysMore`). Each of the functions says its number, the parts make up the
  whole by division with remainder. The groups of digits (`Shown`) go the same
  way. `FiguresAssumption` has whole crores below 10^8, where the words for the
  crores are three digits of lakhs: the comment in `_int_to_indian_words` expects
  much less.
- *Slope and deviation.* A value added to a series adds to its spread the products
  of its distances to each value before it (`SpreadGrows`), so series that rise
  and fall together have no negative spread (`SpreadSign`): levels that never fall
  give no negative slope, one that falls does. Counting time from elsewhere adds
  the same on each side (`SpreadShifts`). Of a value and the others of its window,
  the spread gives `DeviationOfLast`: squared, its deviation is at most
  `window - 1` times the variance, and that much when the others are all the same.
- *Frozen readings.* What the lookback keeps is the end of the snapshot (`Kept`,
  on places that are closed upwards). A run that is long enough leaves its part
  within the lookback unbroken, and where readings are no further apart than the
  slack allows that part is still long enough.

**Only model-checked:** liveness (`EventuallyStored`), and with it that the
fairness of `TelemetryFairSpec` is enough, since fairness speaks of ENABLED; and the
counterexamples of the four `violation` runs, which need no proof.

## 6. Abstractions

- A power cut is not modelled. SQLite runs with `synchronous=NORMAL`, so the
  last transactions before one may be undone; a kill of the process, which is
  modelled, undoes none.
- Amounts are whole paise and quantities whole units. What the API accepts may be
  finer (`Decimal` without a scale); the rounding that Postgres does to its columns
  is left out, as is a price that differs from item to item.
- Malformed payloads: the edge units build them, and validation beyond the
  manifest lookup never fails for what they build.
- The broker neither crashes nor drops a QoS 1 message of a live session.
- The watchdog writes a heartbeat and logs; statistics, TLS and configuration
  have no effect on the properties.

## 7. Where code and documentation part

The four `violation` runs are listed with their quotations under `findings`.
More showed up while the models were written; the model has each of them unless
it says otherwise, and the properties say so in their premises.

Telemetry and alarms:

- `put_many` is awaited inside the `except` clause that holds the only reference
  to what was drained: when SQLite raises, those items are gone
  (daemon.py:311-321 against its comment at 315-316). `PubBufferFails` is that
  step; `NothingDrainedIsLost` counts what it drops as `lost`.
- A poll cycle that exceeds its budget has put readings in the outbox that the
  local store never gets (daemon.py:170, local_store.py:5-6).
- A sensor added after ingest cached its manifest has valid readings
  dead-lettered until the next refresh (service.py:304); `NewSensor` enables it.
- `ack_alarm` does not look at the alarm's state, so an alarm acknowledged after
  it cleared is active again; acknowledged between the two alarm queries of a
  snapshot it is in neither, and its rule is raised within the cooldown.
  `OneOpenAlarm` and `CooldownRespected` exclude alarms that were reopened so.
- Only an alarm that nobody has acknowledged is to be escalated
  (alarm_engine.py:113-115); an acknowledgement that commits between snapshot and
  escalation is overwritten (403). `AckedNeverEscalates` states it, and TLC has a
  counterexample.
- The rule `rolling_z` of seed_fault_tree_rules.py:119, window 10 and z 3, can
  fire by rounding only: among ten values that include the newest, |z| is at most
  sqrt(9) = 3 and the comparison is strict (alarm_engine.py:316-338). That bound
  is `DeviationIsBounded` in `Judgements`.
- The detector of frozen readings looks at what the snapshot holds: readings that
  are sparse, or more than `SNAPSHOT_ROWS_PER_SENSOR`, shorten what it sees.
- A KPI cycle with an outlet that has no value and an inlet other than zero
  raises TypeError, and takes the mass balance of that plant with it
  (kpi_worker.py:143-144).

Edge:

- A Modbus register is read unsigned (mockgen.py), so a negative value of a
  signed one is out of range and not negative.
- When the manifest has been fetched and its cache cannot be written, the daemon
  boots with the older one in the cache; a file torn by a kill makes boot fail
  while there is no database (manifest.py:107-119). `ManifestNeverGoesBack` holds
  all the same: the cache is what was booted last, or it cannot be read.
- Provisioning through the local script restarts no broker, and the exit code of
  the restart is never looked at (provision_pi.py:153-161, 176-180, 201): a
  password that device.json calls registered is one the broker may not have
  loaded. A timeout of mosquitto_passwd is not caught, and overlapping runs leave
  edge.env and password of different runs, until one runs by itself
  (`LastRunMends`).

Back office:

- `create_contract` says it ends the old contract one day before the new one
  starts (admin_billing.py:179-184); it sets `effective_to` to the start itself
  (213), so two contracts cover that day. `ORDER BY effective_from DESC` picks
  the new one: `LatestAgreedApplies` holds all the same.
- `issue_po` sets the status by id alone, so a second issue that saw the draft
  sets an order back to `issued` after goods have been received (erp_pos.py:380);
  the next receipt computes it afresh.
- A line of a receipt may accept less than nothing: `GrnLineIn` has no lower bound
  and the one check is on the sum (erp_grn.py:28-32, 103). A receipt that takes
  goods back looks at no approval, so an invoice stays approved when 98% of the goods
  are no longer there, and one that overlaps with the receipt that completes an order
  may leave it `received` with goods missing. `ReceivedIsEarned` and
  `ApprovedIsCovered` therefore speak of goods that have been there at some time;
  that they are there when nobody is at work is `ReceivedIsReceived`, the docstring
  of erp_grn.py:2-4, and TLC has a counterexample: a receipt that takes one item
  back commits while another, which has already looked at that item, completes the order.
- A request that found a BOM, a drawing, a job, a unit or a lead unfinished still
  writes it after another has finished it: a released BOM gets items, a completed
  job is cancelled, a unit that only advances (production.py:402-405) goes back
  (482-491), a lead as well. `FinishedIsFrozen` holds while no such request is
  under way.
- A certificate rendered while a batch had passed is recorded after a second
  inspection failed it (admin_offtake.py:292-300): `FailedIsNotCertified` is
  stated in `Offtake` and does not hold.
- The comment at admin_documents.py:182-185 has the row deleted before the
  object, but the session commits after the handler has returned: the object is
  gone first, and a commit that fails leaves a row without one, for good.
  `NoRowWithoutObject` is stated in `StoredDocuments`, and TLC has a counterexample.
  `AnsweredIsKept` promises row and object only until a
  deletion has got as far as the object, and after it that no row is of a broken one.
- Two administrators who patch role and plants of one account at once, each by
  the role it has read, leave plants that do not go with the role;
  `ScopeFollowsRole` excludes that.
- A voucher credits the vendor's own total when there is one (tally.py:42), and
  debits taxable amount and tax. Nothing ties the total to these: `InvoiceIn` takes
  all three as they come, and the match compares each with the order, within 2%. A
  tax below zero is not posted at all. So an approved voucher need not balance:
  `VoucherFollowsInvoice` says by how much it may be off.
- Amounts with an odd number of paise in the tax are halved by formatting each
  half, so the two halves of a voucher of Tally may differ from the tax by a
  paisa (tally.py).
- The fleet's colour counts alarms in the state `raised` only: one that is
  acknowledged or escalated no longer shows. With the source `auto`, a plant
  that has readings but no row of the KPI is left out as soon as another plant has one.

## 8. Not modelled

- Quotations, tasks, projects, vendors, materials and hardware: single
  statements behind role checks, with no protocol of their own. The same goes for
  lists, notes and headers of the routers that are modelled.
- The layout of PDFs and exports, serial framing, register maps, key generation,
  the text of the files that provisioning writes.
- Migrations and seed: run once by an operator; the constraints the tables
  declare are used where a model depends on them.
- The dashboard of the edge unit and the frontend: they read, and keep no state
  that anything relies on.
- A power cut (buffer.py:36). With WAL and `synchronous=NORMAL` it may undo
  transactions that were committed, which is a property of SQLite and of the
  disk and not of this code; `EdgeDaemon` ends processes and not machines.
