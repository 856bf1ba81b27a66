---------------------------- MODULE IngestService ----------------------------
(***************************************************************************)
(* The ingest service (ingest/service.py): one process that subscribes to  *)
(* the three topics of the edge units, validates what it receives against  *)
(* a cached sensor manifest, and writes it to Postgres.  Inserts are       *)
(* idempotent: ON CONFLICT DO NOTHING for readings, check-then-insert in a *)
(* transaction for setpoint changes.                                       *)
(*                                                                         *)
(* The client connects with paho's default clean session, so the broker    *)
(* keeps nothing for it while it is away; and paho acknowledges a message  *)
(* when it queues it, before handle_message has stored it.                 *)
(***************************************************************************)
EXTENDS EdgeItems, Sequences

CONSTANTS
  MaxOutages,  \* bound: connections lost and process crashes together
  NewSensor,   \* was the last sensor added after the manifest was cached?
  StartsUp     \* is the service subscribed before the edge unit starts?

ASSUME IngestAssumption ==
  MaxOutages \in Nat /\ NewSensor \in BOOLEAN /\ StartsUp \in BOOLEAN

VARIABLES
  subscribed,   \* topics subscribed to on the current connection
  inbox,        \* messages received and not handled yet
  job,          \* what is left to do of the message being handled
  known,        \* sensors of the cached Manifest
  rows,         \* rows of readings and setpoint_changes, by natural key
  deadLetters,  \* dead_letter_readings
  outages       \* outages so far

ingestVars == <<subscribed, inbox, job, known, rows, deadLetters, outages>>

Topics == <<"readings", "backfill", "setpoints">>
Letter == [topic : {"readings", "setpoints", "backfill"}, items : SUBSET Item]
NoJob  == [valid |-> {}, dead |-> {}, setpoints |-> {}]

IngestTypeOK ==
  /\ subscribed \in 0..Len(Topics)
  /\ inbox \in Seq(Letter)
  /\ job \in [valid : SUBSET Reading, dead : SUBSET Reading,
              setpoints : SUBSET Setpoint]
  /\ known \subseteq Sensors
  /\ rows \in [Item -> Nat]
  /\ deadLetters \subseteq Reading
  /\ outages \in 0..MaxOutages

IngestInit ==
  /\ subscribed = IF StartsUp THEN Len(Topics) ELSE 0
  /\ inbox = << >>
  /\ job = NoJob
  /\ known = IF NewSensor THEN Sensors \ {NumSensors} ELSE Sensors
  /\ rows = [i \in Item |-> 0]
  /\ deadLetters = {}
  /\ outages = 0

JobItems   == job.valid \cup job.dead \cup job.setpoints
InboxItems == UNION {inbox[n].items : n \in 1..Len(inbox)}
Stored     == {i \in Item : rows[i] > 0}

OneTopicMore == subscribed <= Len(Topics)  \* variant: one subscription too many
TopicsLeft == subscribed < Len(Topics)

\* async with Client: three subscriptions, one after the other.
Subscribe ==
  /\ TopicsLeft
  /\ subscribed = 0 => inbox = << >> /\ job = NoJob
  /\ subscribed' = subscribed + 1
  /\ UNCHANGED <<inbox, job, known, rows, deadLetters, outages>>

IsSubscribed(topic) == \E n \in 1..subscribed : Topics[n] = topic

\* The broker passes a message on, or drops it: nobody is subscribed and the
\* session is a clean one.
DropUnlessSubscribed(m) == IF IsSubscribed(m.topic) THEN Append(inbox, m) ELSE inbox

Deliver(m) ==
  /\ inbox' = DropUnlessSubscribed(m)
  /\ UNCHANGED <<subscribed, job, known, rows, deadLetters, outages>>

\* validate_reading: the edge units send well-formed readings, so what can
\* still be wrong is that the cached manifest does not know the sensor.
Valid(reading) == reading.slot \in known

SetpointsOnTheirTopic(m) ==  \* variant: a backfill is taken for readings only
  IF m.topic = "setpoints" THEN m.items \cap Setpoint ELSE {}
SetpointsOf(m) == m.items \cap Setpoint

TakeMessage ==
  /\ inbox # << >>
  /\ job = NoJob
  /\ LET readings == Head(inbox).items \cap Reading
     IN  job' = [valid |-> {r \in readings : Valid(r)},
                 dead |-> {r \in readings : ~Valid(r)},
                 setpoints |-> SetpointsOf(Head(inbox))]
  /\ inbox' = Tail(inbox)
  /\ UNCHANGED <<subscribed, known, rows, deadLetters, outages>>

CountAnother(n) == n + 1  \* variant: a plain INSERT without ON CONFLICT
OnConflictDoNothing(n) == IF n = 0 THEN 1 ELSE n

InsertReadings ==
  /\ job.valid # {}
  /\ rows' = [i \in Item |-> IF i \in job.valid THEN OnConflictDoNothing(rows[i])
                                                ELSE rows[i]]
  /\ job' = [job EXCEPT !.valid = {}]
  /\ UNCHANGED <<subscribed, inbox, known, deadLetters, outages>>

InsertDeadLetter ==
  /\ job.valid = {}
  /\ job.dead # {}
  /\ LET r == Oldest(job.dead)
     IN  /\ deadLetters' = deadLetters \cup {r}
         /\ job' = [job EXCEPT !.dead = @ \ {r}]
  /\ UNCHANGED <<subscribed, inbox, known, rows, outages>>

\* SELECT 1 ... and INSERT run in one transaction of the only ingest process.
InsertSetpoint ==
  /\ job.valid \cup job.dead = {}
  /\ job.setpoints # {}
  /\ LET s == Oldest(job.setpoints)
     IN  /\ rows' = [rows EXCEPT ![s] = OnConflictDoNothing(@)]
         /\ job' = [job EXCEPT !.setpoints = @ \ {s}]
  /\ UNCHANGED <<subscribed, inbox, known, deadLetters, outages>>

RefreshManifest ==
  /\ known' = Sensors
  /\ UNCHANGED <<subscribed, inbox, job, rows, deadLetters, outages>>

\* The iterator over client.messages may or may not hand out what it has
\* queued before it raises; the message being handled is finished.
ConnectionLost ==
  /\ subscribed > 0
  /\ outages < MaxOutages
  /\ outages' = outages + 1
  /\ subscribed' = 0
  /\ inbox' \in {inbox, << >>}
  /\ UNCHANGED <<job, known, rows, deadLetters>>

\* Killed, or a database error raised out of handle_message, which main_async
\* does not catch; the container is restarted and loads the manifest anew.
IngestCrash ==
  /\ outages < MaxOutages
  /\ outages' = outages + 1
  /\ subscribed' = 0
  /\ inbox' = << >>
  /\ job' = NoJob
  /\ known' = Sensors
  /\ UNCHANGED <<rows, deadLetters>>

IngestNext ==
  \/ Subscribe \/ TakeMessage \/ InsertReadings \/ InsertDeadLetter
  \/ InsertSetpoint \/ RefreshManifest \/ ConnectionLost \/ IngestCrash

\* The service on its own, with any edge units publishing to the broker.
IngestSpec ==
  IngestInit /\ [][IngestNext \/ \E m \in Letter : Deliver(m)]_ingestVars

-----------------------------------------------------------------------------
\* However often an item is delivered (live and as backfill, or twice as
\* backfill because a PUBACK was lost), Postgres has at most one row of it
\* (service.py:101, 118-136).
AtMostOneRow == \A i \in Item : rows[i] <= 1
=============================================================================
