------------------------------ MODULE Telemetry ------------------------------
(***************************************************************************)
(* The telemetry path end to end: an edge daemon and the ingest service,   *)
(* with the MQTT broker between them.  The broker acknowledges a publish   *)
(* to the edge and passes it on to whoever is subscribed at that moment;   *)
(* these are one step of both.                                             *)
(***************************************************************************)
EXTENDS EdgeDaemon, IngestService

CONSTANT MaxInbox  \* bound: no poll cycle begins while the inbox holds this many

allVars    == <<vars, ingestVars>>

TelemetryInit == Init /\ IngestInit

\* MQTT QoS 1 from edge to broker and from broker to ingest are two hops.
BrokerRoutes ==
  /\ BrokerAccept
  /\ Deliver([topic |-> Head(wire).topic, items |-> Head(wire).items])

EdgeStep ==
  /\ PollerNext \/ PublisherNext \/ SyncNext \/ LinkLoss \/ ProcessNext
  /\ pollPc = "idle" /\ pollPc' = "reading" => Len(inbox) < MaxInbox
  /\ UNCHANGED ingestVars

IngestStep == IngestNext /\ UNCHANGED vars

TelemetryNext == EdgeStep \/ BrokerRoutes \/ IngestStep

TelemetrySpec == TelemetryInit /\ [][TelemetryNext]_allVars

\* asyncio runs every task whose await has completed, its locks are FIFO, and
\* the broker takes what reaches it; the reconnect loops of both processes
\* always come back.  Nothing obliges a link to break, a publish to time out
\* over a live session, or a process to end; a poll cycle is begun every
\* poll_interval_s.
TelemetryFairSpec ==
  /\ TelemetrySpec
  /\ WF_allVars(PollStart /\ Len(inbox) < MaxInbox /\ UNCHANGED ingestVars)
  /\ WF_allVars(ReadSensor /\ UNCHANGED ingestVars)
  /\ WF_allVars(SaveLocal /\ UNCHANGED ingestVars)
  /\ WF_allVars(EmitSetpoints /\ UNCHANGED ingestVars)
  /\ WF_allVars(PubConnect /\ UNCHANGED ingestVars)
  /\ WF_allVars(PubDrain /\ UNCHANGED ingestVars)
  /\ SF_allVars(PubSend /\ UNCHANGED ingestVars)
  /\ WF_allVars(PubAcked /\ UNCHANGED ingestVars)
  /\ WF_allVars(PubTimeout /\ NoPubackDue /\ UNCHANGED ingestVars)
  /\ WF_allVars(PubBuffer /\ UNCHANGED ingestVars)
  /\ WF_allVars(PubClose /\ UNCHANGED ingestVars)
  /\ WF_allVars(SyncPeek /\ UNCHANGED ingestVars)
  /\ WF_allVars(SyncCheck /\ UNCHANGED ingestVars)
  /\ SF_allVars(SyncSend /\ UNCHANGED ingestVars)
  /\ WF_allVars(SyncAcked /\ UNCHANGED ingestVars)
  /\ WF_allVars(SyncTimeout /\ NoPubackDue /\ UNCHANGED ingestVars)
  /\ WF_allVars(SyncDelete /\ UNCHANGED ingestVars)
  /\ WF_allVars(BrokerRoutes)
  /\ WF_allVars(Subscribe /\ UNCHANGED vars)
  /\ WF_allVars(TakeMessage /\ UNCHANGED vars)
  /\ WF_allVars(InsertReadings /\ UNCHANGED vars)
  /\ WF_allVars(InsertDeadLetter /\ UNCHANGED vars)
  /\ WF_allVars(InsertSetpoint /\ UNCHANGED vars)

-----------------------------------------------------------------------------
TelemetryTypeOK == TypeOK /\ IngestTypeOK

\* What the broker has acknowledged to the edge, which then forgets it, is
\* with the ingest service or in the database (dead letters included), as long
\* as ingest has never been away: service.py:327-349 promises no more.
AcceptedIsKept ==
  StartsUp /\ outages = 0 =>
    accepted \subseteq InboxItems \cup JobItems \cup Stored \cup deadLetters

\* daemon.py:103-108: every generated reading "should always end up in
\* Postgres exactly once, whether it went out live or via the SQLite buffer".
AlwaysEndsUpInPostgres ==
  \A i \in Reading : i \in generated ~> rows[i] = 1

\* Every generated item eventually has its row, unless the edge process ended
\* while it was in memory.
EventuallyStored ==
  \A i \in Item : i \in generated ~> rows[i] = 1 \/ i \in lost

\* Where an item that has no row yet may still be.
Underway ==
  outbox \cup drained \cup ItemsOf(buffer) \cup InboxItems
  \cup JobItems \cup UNION {wire[n].items : n \in 1..Len(wire)}

StatusOf(i) ==
  IF rows[i] > 0 THEN "stored"
  ELSE IF i \in Underway THEN "underway"
  ELSE IF i \in generated THEN "gone" ELSE "unborn"

CanLose == \/ AllowCrash \/ DiskMayFail \/ AllowStop
           \/ MaxOutages > 0 \/ NewSensor
           \/ ~StartsUp

Delivery == INSTANCE ReadingDelivery WITH
  Items <- Item, Lossy <- CanLose, status <- [i \in Item |-> StatusOf(i)]

\* The telemetry path implements ReadingDelivery: exactly one row per item
\* when no process ends and no connection of the ingest service is lost, and
\* never a resurrected or a retracted item when they are.
ImplementsDelivery == Delivery!DeliverySpec
=============================================================================
