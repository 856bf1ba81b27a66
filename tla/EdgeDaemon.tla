----------------------------- MODULE EdgeDaemon -----------------------------
(***************************************************************************)
(* The edge daemon (edge/daemon.py, edge/buffer.py, edge/local_store.py):  *)
(* four asyncio tasks that share an in-memory outbox, one MQTT client and  *)
(* a SQLite buffer.  A step runs from one await to the next.               *)
(*                                                                         *)
(*   poller     reads the sensors into the outbox                          *)
(*   publisher  drains the outbox, publishes it live, and on an MQTT error *)
(*              writes what it drained to the SQLite buffer                *)
(*   sync       publishes the oldest buffered rows as backfill and deletes *)
(*              them once the broker has acknowledged them                 *)
(*   main       on a graceful stop waits until outbox and buffer look      *)
(*              empty, then cancels the other tasks                        *)
(*                                                                         *)
(* The broker is as much of it as the daemon sees: a TCP session that can  *)
(* break, messages on the wire, and a PUBACK for the publish that is       *)
(* being awaited.                                                          *)
(***************************************************************************)
EXTENDS EdgeItems, Sequences

CONSTANTS
  ChunkSize,    \* cfg.sync_chunk_size
  SureReads,    \* sensors that are read however slowly they answer: a read
                \* gets read_timeout_s and a cycle five times that
  MaxFaults,    \* bound: link losses, slow PUBACKs and crashes together
  AllowCrash,   \* may the process be killed?
  AllowStop,    \* may an operator request a graceful stop?
  DiskMayFail,  \* may a write to the SQLite files raise?
  KeepPolling   \* does the last cycle stand for all later ones?

ASSUME DaemonAssumption ==
  /\ ChunkSize \in Nat \ {0}
  /\ SureReads \in 0..NumSensors
  /\ MaxFaults \in Nat
  /\ {AllowCrash, AllowStop, DiskMayFail, KeepPolling} \subseteq BOOLEAN

VARIABLES
  cycle,       \* the poll cycle begun last: the clock
  pollPc,      \* where the poller is; "halted" once main has returned
  readCount,   \* sensors read in this cycle (local_batch)
  outbox,      \* ctx.outbox
  localStore,  \* readings in the local readings store
  pubPc,       \* where the publisher is
  drained,     \* what it drained from the outbox and has not settled yet
  buffer,      \* rows of the SQLite buffer
  batches,     \* put_many calls so far; with it, rows are ordered as by id
  syncPc,      \* where the sync task is
  chunk,       \* the rows it has read with peek_chunk
  lock,        \* holder of ctx.mqtt_lock
  connected,   \* ctx.connected and ctx.mqtt_client, which change together
  session,     \* is the TCP session to the broker alive?
  wire,        \* messages sent and not yet taken by the broker
  ack,         \* has the PUBACK of the awaited publish arrived?
  flush,       \* _wait_for_flush: empty checks in a row and the last count
  faults,      \* faults so far
  accepted,    \* history: items the broker has taken
  generated,   \* history: items ever put in the outbox
  lost,        \* history: items in memory when the process ended or put_many raised
  verdict      \* history: how the last flush ended

pollVars == <<cycle, pollPc, readCount, localStore>>
pubVars  == <<pubPc, drained>>
rowVars  == <<buffer, batches>>
syncVars == <<syncPc, chunk>>
netVars  == <<connected, session, wire, ack, accepted>>
endVars  == <<flush, lost, verdict>>
vars     == <<pollVars, pubVars, rowVars, syncVars, netVars, endVars,
              outbox, lock, faults, generated>>

Row      == [batch : Nat, item : Item]
Message  == [topic : {"readings", "setpoints", "backfill"},
             items : SUBSET Item, awaited : BOOLEAN]

ItemsOf(rows) == {r.item : r \in rows}

\* The type invariant, in parts.
CountersOK ==
  /\ cycle \in 0..MaxCycles
  /\ readCount \in 0..NumSensors
  /\ batches \in Nat
  /\ faults \in 0..MaxFaults

ControlOK ==
  /\ pollPc \in {"idle", "reading", "saved", "stopped", "halted"}
  /\ pubPc \in {"offline", "loop", "sending", "waiting", "failed", "closing"}
  /\ syncPc \in {"idle", "peeked", "locking", "stale", "waiting", "deleting"}
  /\ lock \in {"free", "publisher", "sync"}
  /\ {connected, session, ack} \subseteq BOOLEAN
  /\ verdict \in {"none", "safe", "timeout"}

ItemsOK ==
  /\ outbox \subseteq Item
  /\ localStore \subseteq Reading
  /\ drained \subseteq Item
  /\ buffer \subseteq Row
  /\ chunk \subseteq Row
  /\ accepted \subseteq Item
  /\ generated \subseteq Item
  /\ lost \subseteq Item

WireOK == wire \in Seq(Message)

FlushOK == flush \in [quiet : 0..1, saw : {"nothing", "empty", "rows"}]

TypeOK == CountersOK /\ ControlOK /\ ItemsOK /\ WireOK /\ FlushOK

Init ==
  /\ cycle = 0
  /\ pollPc = "idle"
  /\ readCount = 0
  /\ outbox = {}
  /\ localStore = {}
  /\ pubPc = "offline"
  /\ drained = {}
  /\ buffer = {}
  /\ batches = 0
  /\ syncPc = "idle"
  /\ chunk = {}
  /\ lock = "free"
  /\ connected = FALSE
  /\ session = FALSE
  /\ wire = << >>
  /\ ack = FALSE
  /\ flush = [quiet |-> 0, saw |-> "nothing"]
  /\ faults = 0
  /\ accepted = {}
  /\ generated = {}
  /\ lost = {}
  /\ verdict = "none"

Running == pollPc # "halted"

-----------------------------------------------------------------------------
(* Poller *)

\* Under KeepPolling the last cycle is repeated, standing for all later ones,
\* once the publisher has settled its items.
CyclePending == \E i \in outbox \cup drained : i.cycle = MaxCycles

\* The clock gate refuses a time behind the watermark, so cycles only rise.
PollStart ==
  /\ pollPc = "idle"
  /\ \/ cycle < MaxCycles /\ cycle' = cycle + 1
     \/ KeepPolling /\ cycle = MaxCycles /\ ~CyclePending /\ cycle' = cycle
  /\ pollPc' = "reading"
  /\ readCount' = 0
  /\ UNCHANGED <<localStore, outbox, generated, pubVars, rowVars, syncVars,
                 netVars, endVars, lock, faults>>

OneSensorMore == readCount <= NumSensors  \* variant: the loop runs once more
SensorsLeft == readCount < NumSensors

\* A sensor that does not answer in time still yields a reading, flagged
\* COMM_ERROR: either way one item enters the outbox.
ReadSensor ==
  /\ pollPc = "reading"
  /\ SensorsLeft
  /\ LET reading == [cycle |-> cycle, slot |-> readCount + 1]
     IN  /\ outbox' = outbox \cup {reading}
         /\ generated' = generated \cup {reading}
  /\ readCount' = readCount + 1
  /\ UNCHANGED <<cycle, pollPc, localStore, pubVars, rowVars, syncVars,
                 netVars, endVars, lock, faults>>

\* local_store.insert_many, once every sensor has been read.
LocalBatch == {[cycle |-> cycle, slot |-> s] : s \in 1..readCount}

SaveLocal ==
  /\ pollPc = "reading"
  /\ readCount = NumSensors
  /\ localStore' = localStore \cup LocalBatch
  /\ pollPc' = "saved"
  /\ UNCHANGED <<cycle, readCount, outbox, generated, pubVars, rowVars,
                 syncVars, netVars, endVars, lock, faults>>

\* Any subset of the registers may have changed since the last cycle.
EmitSetpoints ==
  /\ pollPc = "saved"
  /\ \E changed \in SUBSET Registers :
       LET items == {[cycle |-> cycle, slot |-> r] : r \in changed}
       IN  /\ outbox' = outbox \cup items
           /\ generated' = generated \cup items
  /\ pollPc' = "idle"
  /\ UNCHANGED <<cycle, readCount, localStore, pubVars, rowVars, syncVars,
                 netVars, endVars, lock, faults>>

\* asyncio.wait_for cancels a cycle that exceeds its budget wherever it is.
PollTimeout ==
  /\ pollPc \in {"reading", "saved"}
  /\ readCount >= SureReads
  /\ pollPc' = "idle"
  /\ UNCHANGED <<cycle, readCount, localStore, outbox, generated, pubVars,
                 rowVars, syncVars, netVars, endVars, lock, faults>>

\* The stop file is seen between two cycles.
PollStop ==
  /\ AllowStop
  /\ pollPc = "idle"
  /\ pollPc' = "stopped"
  /\ flush' = [quiet |-> 0, saw |-> "nothing"]
  /\ verdict' = "none"
  /\ UNCHANGED <<cycle, readCount, localStore, outbox, generated, pubVars,
                 rowVars, syncVars, netVars, lost, lock, faults>>

-----------------------------------------------------------------------------
(* Publisher *)

PubConnect ==
  /\ Running
  /\ pubPc = "offline"
  /\ pubPc' = "loop"
  /\ connected' = TRUE
  /\ session' = TRUE
  /\ UNCHANGED <<pollVars, outbox, generated, drained, rowVars, syncVars,
                 wire, ack, accepted, endVars, lock, faults>>

PubDrain ==
  /\ pubPc = "loop"
  /\ outbox # {}
  /\ drained' = outbox
  /\ outbox' = {}
  /\ pubPc' = "sending"
  /\ UNCHANGED <<pollVars, generated, rowVars, syncVars, netVars, endVars,
                 lock, faults>>

\* All drained readings go in one message, then the setpoints one by one.
PubBatch ==
  IF drained \cap Reading # {} THEN drained \cap Reading
                               ELSE {Oldest(drained)}

PubTopic == IF drained \cap Reading # {} THEN "readings" ELSE "setpoints"

Send(topic, items) ==
  wire' = Append(wire, [topic |-> topic, items |-> items, awaited |-> TRUE])

\* Without a session, paho refuses the publish at once: an MqttError.
PubSend ==
  /\ pubPc = "sending"
  /\ lock = "free"
  /\ IF session
       THEN /\ Send(PubTopic, PubBatch)
            /\ lock' = "publisher"
            /\ pubPc' = "waiting"
       ELSE /\ pubPc' = "failed"
            /\ UNCHANGED <<wire, lock>>
  /\ UNCHANGED <<pollVars, outbox, generated, drained, rowVars, syncVars,
                 connected, session, ack, accepted, endVars, faults>>

\* aiomqtt's publish returns once on_publish has fired for its message id.
PublishWithoutWaiting == TRUE  \* variant: as with qos=0
PubackArrived == ack

PubAcked ==
  /\ pubPc = "waiting"
  /\ PubackArrived
  /\ drained' = drained \ PubBatch
  /\ pubPc' = IF drained' = {} THEN "loop" ELSE "sending"
  /\ lock' = "free"
  /\ ack' = FALSE
  /\ UNCHANGED <<pollVars, outbox, generated, rowVars, syncVars, connected,
                 session, wire, accepted, endVars, faults>>

\* The publish that was awaited has timed out: nobody waits for its PUBACK
\* any more, but its message stays on the wire.
GiveUpHoldingLock ==  \* variant: the lock is not released on an exception
  /\ ack' = FALSE
  /\ wire' = [i \in 1..Len(wire) |-> [wire[i] EXCEPT !.awaited = FALSE]]
  /\ UNCHANGED lock
GiveUpKeepingWaiter ==  \* variant: a late PUBACK goes to whoever waits then
  /\ lock' = "free"
  /\ ack' = FALSE
  /\ UNCHANGED wire
GiveUp ==
  /\ lock' = "free"
  /\ ack' = FALSE
  /\ wire' = [i \in 1..Len(wire) |-> [wire[i] EXCEPT !.awaited = FALSE]]

\* No PUBACK can come: the session is dead, or it is a new one and the message
\* went over the old one.
NoPubackDue ==
  ~session \/ (~ack /\ \A i \in 1..Len(wire) : ~wire[i].awaited)

\* Such a publish always times out; another may, when the broker is slow.
TimeoutAllowed ==
  \/ NoPubackDue /\ UNCHANGED faults
  \/ ~NoPubackDue /\ faults < MaxFaults /\ faults' = faults + 1

PubTimeout ==
  /\ pubPc = "waiting"
  /\ TimeoutAllowed
  /\ GiveUp
  /\ pubPc' = "failed"
  /\ UNCHANGED <<pollVars, outbox, generated, drained, rowVars, syncVars,
                 connected, session, accepted, endVars>>

\* What a failed publish cycle writes to the buffer: everything drained and
\* not acknowledged, the setpoints it never got to included.
UnsettledReadings == drained \cap Reading  \* variant: setpoints forgotten
UnsettledAndChunk == drained \cup ItemsOf(chunk)  \* variant: rows put again
Unsettled == drained

PubBuffer ==
  /\ pubPc = "failed"
  /\ batches' = batches + 1
  /\ buffer' = buffer \cup
       {[batch |-> batches + 1, item |-> i] : i \in Unsettled}
  /\ drained' = {}
  /\ pubPc' = "closing"
  /\ UNCHANGED <<pollVars, outbox, generated, syncVars, netVars, endVars,
                 lock, faults>>

\* A write to one of the SQLite files raises.
DiskFails ==
  /\ DiskMayFail
  /\ faults < MaxFaults
  /\ faults' = faults + 1

\* sqlite3 raises out of put_many: the generic handler of publisher_task
\* takes it, and the drained items were only in the coroutine's locals.
PubBufferFails ==
  /\ DiskFails
  /\ pubPc = "failed"
  /\ lost' = lost \cup drained
  /\ drained' = {}
  /\ pubPc' = "closing"
  /\ UNCHANGED <<pollVars, outbox, generated, rowVars, syncVars, netVars,
                 flush, verdict, lock>>

\* Leaving `async with Client`, then the except clause of publisher_task.  A
\* sync task queued on the lock keeps the client object that died here.
PubClose ==
  /\ pubPc = "closing"
  /\ pubPc' = "offline"
  /\ connected' = FALSE
  /\ session' = FALSE
  /\ wire' = << >>
  /\ syncPc' = IF syncPc = "locking" THEN "stale" ELSE syncPc
  /\ UNCHANGED <<pollVars, outbox, generated, drained, rowVars, chunk, ack,
                 accepted, endVars, lock, faults>>

-----------------------------------------------------------------------------
(* Sync *)

\* SQLite row ids rise with each put_many call and within it.
RowBefore(r, q) ==
  \/ r.batch < q.batch
  \/ r.batch = q.batch /\ InsertedBefore(r.item, q.item)

\* SELECT ... ORDER BY id ASC LIMIT ChunkSize
LastRows ==  \* variant: ORDER BY id DESC
  {r \in buffer : Cardinality({q \in buffer : RowBefore(r, q)}) < ChunkSize}
FirstRows ==
  {r \in buffer : Cardinality({q \in buffer : RowBefore(q, r)}) < ChunkSize}

SyncPeek ==
  /\ Running
  /\ syncPc = "idle"
  /\ connected
  /\ buffer # {}
  /\ chunk' = FirstRows
  /\ syncPc' = "peeked"
  /\ UNCHANGED <<pollVars, outbox, generated, pubVars, rowVars, netVars,
                 endVars, lock, faults>>

\* The re-check of ctx.mqtt_client right before it is used.
SyncCheck ==
  /\ syncPc = "peeked"
  /\ IF connected
       THEN syncPc' = "locking" /\ UNCHANGED chunk
       ELSE syncPc' = "idle" /\ chunk' = {}
  /\ UNCHANGED <<pollVars, outbox, generated, pubVars, rowVars, netVars,
                 endVars, lock, faults>>

SyncSend ==
  /\ syncPc \in {"locking", "stale"}
  /\ lock = "free"
  /\ IF syncPc = "locking" /\ session
       THEN /\ Send("backfill", ItemsOf(chunk))
            /\ lock' = "sync"
            /\ syncPc' = "waiting"
            /\ UNCHANGED chunk
       ELSE /\ syncPc' = "idle"
            /\ chunk' = {}
            /\ UNCHANGED <<wire, lock>>
  /\ UNCHANGED <<pollVars, outbox, generated, pubVars, rowVars, connected,
                 session, ack, accepted, endVars, faults>>

SyncAcked ==
  /\ syncPc = "waiting"
  /\ PubackArrived
  /\ syncPc' = "deleting"
  /\ lock' = "free"
  /\ ack' = FALSE
  /\ UNCHANGED <<pollVars, outbox, generated, pubVars, rowVars, chunk,
                 connected, session, wire, accepted, endVars, faults>>

SyncTimeout ==
  /\ syncPc = "waiting"
  /\ TimeoutAllowed
  /\ GiveUp
  /\ syncPc' = "idle"
  /\ chunk' = {}
  /\ UNCHANGED <<pollVars, outbox, generated, pubVars, rowVars, connected,
                 session, accepted, endVars>>

\* delete_ids of exactly the rows that were published.
SyncDelete ==
  /\ syncPc = "deleting"
  /\ buffer' = buffer \ chunk
  /\ chunk' = {}
  /\ syncPc' = "idle"
  /\ UNCHANGED <<pollVars, outbox, generated, pubVars, batches, netVars,
                 endVars, lock, faults>>

\* delete_ids raises: sync_task's generic handler keeps the loop going, and
\* the rows, already acknowledged, are backfilled once more.
SyncDeleteFails ==
  /\ DiskFails
  /\ syncPc = "deleting"
  /\ syncPc' = "idle"
  /\ chunk' = {}
  /\ UNCHANGED <<pollVars, outbox, generated, pubVars, rowVars, netVars,
                 endVars, lock>>

-----------------------------------------------------------------------------
(* Broker and network *)

BrokerAccept ==
  /\ wire # << >>
  /\ accepted' = accepted \cup Head(wire).items
  /\ ack' = (ack \/ Head(wire).awaited)
  /\ wire' = Tail(wire)
  /\ UNCHANGED <<pollVars, outbox, generated, pubVars, rowVars, syncVars,
                 connected, session, endVars, lock, faults>>

\* The daemon does not notice: connected stays set until a publish fails.
LinkLoss ==
  /\ session
  /\ faults < MaxFaults
  /\ faults' = faults + 1
  /\ session' = FALSE
  /\ wire' = << >>
  /\ UNCHANGED <<pollVars, outbox, generated, pubVars, rowVars, syncVars,
                 connected, ack, accepted, endVars, lock>>

-----------------------------------------------------------------------------
(* The end of the process *)

ClockForgotten == 0  \* variant: the watermark is not persisted
ClockAfterRestart == cycle

\* Tasks and memory are gone; the SQLite files and the clock remain.
ProcessEnds ==
  /\ readCount' = 0
  /\ outbox' = {}
  /\ pubPc' = "offline"
  /\ drained' = {}
  /\ syncPc' = "idle"
  /\ chunk' = {}
  /\ lock' = "free"
  /\ connected' = FALSE
  /\ session' = FALSE
  /\ wire' = << >>
  /\ ack' = FALSE
  /\ flush' = [quiet |-> 0, saw |-> "nothing"]
  /\ lost' = lost \cup outbox \cup drained
  /\ cycle' = ClockAfterRestart
  /\ UNCHANGED <<localStore, rowVars, accepted, generated>>

\* Killed and started again.
Crash ==
  /\ AllowCrash
  /\ Running
  /\ faults < MaxFaults
  /\ faults' = faults + 1
  /\ ProcessEnds
  /\ pollPc' = "idle"
  /\ UNCHANGED verdict

\* insert_many of the local store raises: nothing catches it in poller_task, so
\* `await poller` ends main_async and the container is restarted.
SaveLocalFails ==
  /\ DiskFails
  /\ pollPc = "reading"
  /\ readCount = NumSensors
  /\ ProcessEnds
  /\ pollPc' = "idle"
  /\ UNCHANGED verdict

\* _wait_for_flush: buffer.count() is awaited, the outbox looked at after.
FlushCount ==
  /\ pollPc = "stopped"
  /\ flush.saw = "nothing"
  /\ flush' = [flush EXCEPT !.saw = IF buffer = {} THEN "empty" ELSE "rows"]
  /\ UNCHANGED <<pollVars, outbox, generated, pubVars, rowVars, syncVars,
                 netVars, lost, verdict, lock, faults>>

FlushQuiet == flush.saw = "empty" /\ outbox = {}

FlushAgain ==
  /\ pollPc = "stopped"
  /\ flush.saw # "nothing"
  /\ ~(FlushQuiet /\ flush.quiet = 1)
  /\ flush' = [quiet |-> IF FlushQuiet THEN 1 ELSE 0, saw |-> "nothing"]
  /\ UNCHANGED <<pollVars, outbox, generated, pubVars, rowVars, syncVars,
                 netVars, lost, verdict, lock, faults>>

\* main_async's finally clause: the other tasks are cancelled where they are.
Halt(v) ==
  /\ pollPc = "stopped"
  /\ ProcessEnds
  /\ pollPc' = "halted"
  /\ verdict' = v
  /\ UNCHANGED faults

FlushDone == flush.saw # "nothing" /\ FlushQuiet /\ flush.quiet = 1 /\ Halt("safe")

\* The 30 s deadline passes with something still there.
FlushTimeout == flush.saw = "nothing" /\ Halt("timeout")

Restart ==
  /\ pollPc = "halted"
  /\ pollPc' = "idle"
  /\ UNCHANGED <<cycle, readCount, localStore, outbox, generated, pubVars,
                 rowVars, syncVars, netVars, endVars, lock, faults>>

-----------------------------------------------------------------------------
PollerNext    == \/ PollStart \/ ReadSensor \/ SaveLocal \/ EmitSetpoints
                 \/ PollTimeout \/ PollStop
PublisherNext == \/ PubConnect \/ PubDrain \/ PubSend \/ PubAcked
                 \/ PubTimeout \/ PubBuffer \/ PubBufferFails \/ PubClose
SyncNext      == \/ SyncPeek \/ SyncCheck \/ SyncSend \/ SyncAcked
                 \/ SyncTimeout \/ SyncDelete \/ SyncDeleteFails
ProcessNext   == \/ Crash \/ SaveLocalFails \/ FlushCount \/ FlushAgain \/ FlushDone
                 \/ FlushTimeout \/ Restart

Next == \/ PollerNext \/ PublisherNext \/ SyncNext
        \/ BrokerAccept \/ LinkLoss \/ ProcessNext

Spec == Init /\ [][Next]_vars

-----------------------------------------------------------------------------
(* Properties *)

\* Every item the poller ever generated is still in the outbox, in the
\* publisher's hands, in the SQLite buffer, with the broker, or was in memory
\* when the process ended or put_many raised: a publish that fails half-way
\* (daemon.py:311-338) and a backfill that fails at any of its awaits
\* (406-418) drop nothing.
NothingDrainedIsLost ==
  generated \subseteq outbox \cup drained \cup ItemsOf(buffer) \cup accepted \cup lost

\* The daemon never holds an item twice: not in two of outbox, publisher and
\* buffer, nor in two rows of the buffer.  Whatever duplicates reach the
\* cloud come from a PUBACK that was lost, never from the daemon's own copies.
EachItemHeldOnce ==
  /\ outbox \cap drained = {}
  /\ (outbox \cup drained) \cap ItemsOf(buffer) = {}
  /\ \A r, q \in buffer : r.item = q.item => r = q

\* A PUBACK seen by a task is the one of its own publish: the broker has all
\* the items that task is waiting for.  The two tasks share one client, and a
\* publish that timed out may be acknowledged while the other one waits.
AckIsForTheAwaited ==
  ack => \/ lock = "publisher" /\ PubBatch \subseteq accepted
         \/ lock = "sync" /\ ItemsOf(chunk) \subseteq accepted

\* A row leaves the SQLite buffer only when the broker has acknowledged its
\* item (buffer.py:3-5), whatever happened to the connection meanwhile.
RowsOutliveTheirAck ==
  [][\A r \in buffer \ buffer' : r.item \in accepted]_vars

\* Backfill is drained oldest-first (buffer.py:4): no row is deleted while an
\* older one stays behind, also when an outage appends rows during a drain.
DrainedOldestFirst ==
  [][\A r \in buffer \ buffer', q \in buffer' : ~RowBefore(q, r)]_vars

\* daemon.py:605-608: a flush that ends with "safe to shut down" has left
\* nothing behind that only the memory of the process held.
SafeFlushLosesNothing == verdict = "safe" => lost \subseteq accepted
=============================================================================
