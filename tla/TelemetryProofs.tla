--------------------------- MODULE TelemetryProofs ---------------------------
(***************************************************************************)
(* Theorems about the ingest service, alone and behind an edge daemon.     *)
(***************************************************************************)
EXTENDS Telemetry, EdgeDaemonProofs

\* The rows of the database, by natural key.
OneRowEach == rows \in [Item -> 0..1]

LEMMA OneRowInit == IngestInit => OneRowEach
BY DEF IngestInit, OneRowEach

LEMMA OneRowIngest == OneRowEach /\ IngestNext => OneRowEach'
<1> SUFFICES ASSUME OneRowEach, IngestNext PROVE OneRowEach'
  OBVIOUS
<1>1. \A n \in 0..1 : OnConflictDoNothing(n) \in 0..1
  BY DEF OnConflictDoNothing
<1>2. CASE UNCHANGED rows
  BY <1>2 DEF OneRowEach
<1>3. CASE InsertReadings
  BY <1>1, <1>3 DEF InsertReadings, OneRowEach
<1>4. CASE InsertSetpoint
  <2>1. PICK s : rows' = [rows EXCEPT ![s] = OnConflictDoNothing(rows[s])]
    BY <1>4 DEF InsertSetpoint
  <2>2. CASE s \in Item
    BY <1>1, <2>1, <2>2 DEF OneRowEach
  <2>3. CASE s \notin Item
    BY <2>1, <2>3 DEF OneRowEach
  <2> QED BY <2>2, <2>3
<1> QED
  BY <1>2, <1>3, <1>4 DEF IngestNext, Subscribe, TakeMessage, InsertDeadLetter,
     RefreshManifest, ConnectionLost, IngestCrash

\* Whatever is delivered to the ingest service, however often and in whatever
\* order, Postgres has at most one row of each reading and setpoint change
\* (service.py:86-105, 118-146).
THEOREM IngestOneRow == IngestSpec => []AtMostOneRow
<1>1. OneRowEach => AtMostOneRow
  BY DEF OneRowEach, AtMostOneRow
<1>2. OneRowEach /\ [IngestNext \/ \E m \in Letter : Deliver(m)]_ingestVars
        => OneRowEach'
  BY OneRowIngest DEF Deliver, OneRowEach, ingestVars
<1> QED BY <1>1, <1>2, OneRowInit, PTL DEF IngestSpec

\* The same end to end: a reading that went out live and again as backfill,
\* because its PUBACK was lost, is stored once.
THEOREM TelemetryOneRow == TelemetrySpec => []AtMostOneRow
<1>1. OneRowEach => AtMostOneRow
  BY DEF OneRowEach, AtMostOneRow
<1>2. TelemetryInit => OneRowEach
  BY OneRowInit DEF TelemetryInit
<1>3. OneRowEach /\ [TelemetryNext]_allVars => OneRowEach'
  <2> SUFFICES ASSUME OneRowEach, [TelemetryNext]_allVars PROVE OneRowEach'
    OBVIOUS
  <2>1. CASE UNCHANGED rows
    BY <2>1 DEF OneRowEach
  <2>2. CASE EdgeStep \/ BrokerRoutes
    BY <2>1, <2>2 DEF EdgeStep, BrokerRoutes, Deliver, ingestVars
  <2>3. CASE IngestStep
    BY <2>3, OneRowIngest DEF IngestStep
  <2>4. CASE UNCHANGED allVars
    BY <2>1, <2>4 DEF allVars, ingestVars
  <2> QED BY <2>2, <2>3, <2>4 DEF TelemetryNext
<1> QED BY <1>1, <1>2, <1>3, PTL DEF TelemetrySpec

-----------------------------------------------------------------------------
(* Type correctness end to end *)

\* A step of the telemetry path is a step of the daemon or leaves it alone, and
\* a step of the ingest service, a delivery, or leaves that alone.
LEMMA StepsOfBoth ==
  ASSUME [TelemetryNext]_allVars
  PROVE  /\ [Next]_vars
         /\ \/ UNCHANGED ingestVars
            \/ IngestNext /\ UNCHANGED vars
            \/ BrokerRoutes
BY DEF TelemetryNext, EdgeStep, BrokerRoutes, IngestStep, allVars, Next

LEMMA ItemIsReadingOrSetpoint ==
  /\ Item = Reading \cup Setpoint
  /\ Reading \cap Setpoint = {}
<1>1. \A i \in Item : i \in Reading \/ i \in Setpoint
  BY DEF Item, Reading, Setpoint
<1>2. Reading \subseteq Item /\ Setpoint \subseteq Item
  BY DEF Item, Reading, Setpoint
<1>3. \A s \in Sensors : s \notin Registers
  BY ItemsAssumption DEF Sensors, Registers
<1>4. \A i \in Reading : i \notin Setpoint
  BY <1>3 DEF Reading, Setpoint
<1> QED BY <1>1, <1>2, <1>4

LEMMA TopicsSubscribed ==
  /\ Len(Topics) = 3
  /\ subscribed = 3 => \A topic \in {"readings", "setpoints", "backfill"} : IsSubscribed(topic)
<1>1. Topics[1] = "readings" /\ Topics[2] = "backfill" /\ Topics[3] = "setpoints"
  BY DEF Topics
<1>2. 1 \in 1..3 /\ 2 \in 1..3 /\ 3 \in 1..3
  OBVIOUS
<1>3. Len(Topics) = 3
  BY DEF Topics
<1> HIDE DEF Topics
<1> QED BY <1>1, <1>2, <1>3 DEF IsSubscribed

LEMMA IngestTypeInit == IngestInit => IngestTypeOK
<1> SUFFICES ASSUME IngestInit PROVE IngestTypeOK
  OBVIOUS
<1>1. subscribed \in 0..Len(Topics) /\ outages \in 0..MaxOutages
  BY TopicsSubscribed, IngestAssumption DEF IngestInit
<1>2. job \in [valid : SUBSET Reading, dead : SUBSET Reading, setpoints : SUBSET Setpoint]
  BY DEF IngestInit, NoJob
<1> QED BY <1>1, <1>2 DEF IngestInit, IngestTypeOK

LEMMA DeliverTyped ==
  ASSUME IngestTypeOK, NEW m \in Letter, Deliver(m)
  PROVE  IngestTypeOK'
<1>1. inbox \in Seq(Letter)
  BY DEF IngestTypeOK
<1>2. inbox' \in Seq(Letter)
  BY <1>1 DEF Deliver, DropUnlessSubscribed
<1> QED BY <1>2 DEF Deliver, IngestTypeOK

LEMMA IngestTypeNext ==
  ASSUME IngestTypeOK, IngestNext
  PROVE  IngestTypeOK'
<1> DEFINE Jobs == [valid : SUBSET Reading, dead : SUBSET Reading, setpoints : SUBSET Setpoint]
<1>0. /\ inbox \in Seq(Letter) /\ job \in Jobs
      /\ job.valid \subseteq Reading /\ job.dead \subseteq Reading /\ job.setpoints \subseteq Setpoint
      /\ subscribed \in Nat /\ rows \in [Item -> Nat] /\ outages \in Nat /\ MaxOutages \in Nat
  BY TopicsSubscribed, IngestAssumption DEF IngestTypeOK
<1>1. CASE Subscribe
  BY <1>0, <1>1, TopicsSubscribed DEF Subscribe, TopicsLeft, IngestTypeOK
<1>2. CASE TakeMessage
  <2>1. job' \in Jobs
    BY <1>2 DEF TakeMessage, SetpointsOf
  <2>2. inbox' \in Seq(Letter)
    BY <1>0, <1>2 DEF TakeMessage
  <2> QED BY <1>2, <2>1, <2>2 DEF TakeMessage, IngestTypeOK
<1>3. CASE InsertReadings
  <2>1. job' \in Jobs
    BY <1>0, <1>3 DEF InsertReadings
  <2>2. rows' \in [Item -> Nat]
    BY <1>0, <1>3 DEF InsertReadings, OnConflictDoNothing
  <2> QED BY <1>3, <2>1, <2>2 DEF InsertReadings, IngestTypeOK
<1>4. CASE InsertDeadLetter
  <2>1. Oldest(job.dead) \in job.dead
    BY <1>0, <1>4, OldestExists, ItemIsReadingOrSetpoint DEF InsertDeadLetter
  <2>2. job' \in Jobs
    BY <1>0, <1>4 DEF InsertDeadLetter
  <2> QED BY <1>0, <1>4, <2>1, <2>2 DEF InsertDeadLetter, IngestTypeOK
<1>5. CASE InsertSetpoint
  <2>1. Oldest(job.setpoints) \in Item
    BY <1>0, <1>5, OldestExists, ItemIsReadingOrSetpoint DEF InsertSetpoint
  <2>2. job' \in Jobs
    BY <1>0, <1>5 DEF InsertSetpoint
  <2>3. rows' \in [Item -> Nat]
    BY <1>0, <1>5, <2>1 DEF InsertSetpoint, OnConflictDoNothing
  <2> QED BY <1>5, <2>2, <2>3 DEF InsertSetpoint, IngestTypeOK
<1>6. CASE RefreshManifest
  BY <1>6 DEF RefreshManifest, IngestTypeOK
<1>7. CASE ConnectionLost
  <2>1. inbox' \in Seq(Letter)
    <3>1. << >> \in Seq(Letter)
      OBVIOUS
    <3> QED BY <1>0, <1>7, <3>1 DEF ConnectionLost
  <2> QED BY <1>0, <1>7, <2>1, TopicsSubscribed DEF ConnectionLost, IngestTypeOK
<1>8. CASE IngestCrash
  <2>1. job' \in Jobs /\ inbox' \in Seq(Letter)
    BY <1>8 DEF IngestCrash, NoJob
  <2> QED BY <1>0, <1>8, <2>1, TopicsSubscribed DEF IngestCrash, IngestTypeOK
<1> QED BY <1>1, <1>2, <1>3, <1>4, <1>5, <1>6, <1>7, <1>8 DEF IngestNext

\* What the broker routes is a letter the ingest service understands.
LEMMA RoutedLetter ==
  ASSUME TypeOK, BrokerRoutes
  PROVE  /\ Head(wire) \in Message
         /\ [topic |-> Head(wire).topic, items |-> Head(wire).items] \in Letter
<1>1. wire \in Seq(Message) /\ wire # << >>
  BY DEF TypeOK, WireOK, BrokerRoutes, BrokerAccept
<1>2. Head(wire) \in Message
  BY <1>1
<1> QED BY <1>2 DEF Message, Letter

PathTyped == PublishProtocol /\ IngestTypeOK

LEMMA PathTypedInit == TelemetryInit => PathTyped
BY ProtocolInit, IngestTypeInit DEF TelemetryInit, PathTyped

LEMMA PathTypedNext == PathTyped /\ [TelemetryNext]_allVars => PathTyped'
<1> SUFFICES ASSUME PathTyped, [TelemetryNext]_allVars PROVE PathTyped'
  OBVIOUS
<1>1. PublishProtocol'
  BY StepsOfBoth, ProtocolNext DEF PathTyped
<1>2. IngestTypeOK'
  <2>1. CASE UNCHANGED ingestVars
    BY <2>1 DEF ingestVars, PathTyped, IngestTypeOK
  <2>2. CASE BrokerRoutes
    BY <2>2, RoutedLetter, DeliverTyped DEF BrokerRoutes, PathTyped, PublishProtocol, TypedPublisher
  <2> QED BY <2>1, <2>2, StepsOfBoth, IngestTypeNext DEF PathTyped
<1> QED BY <1>1, <1>2 DEF PathTyped

\* Every variable of the daemon and of the ingest service keeps its type when
\* the broker joins them.
THEOREM TelemetryTypeCorrect == TelemetrySpec => []TelemetryTypeOK
<1>1. PathTyped => TelemetryTypeOK
  BY DEF PathTyped, PublishProtocol, TypedPublisher, TelemetryTypeOK
<1> QED BY <1>1, PathTypedInit, PathTypedNext, PTL DEF TelemetrySpec

-----------------------------------------------------------------------------
(* What the broker has acknowledged is kept *)

\* A service that has never been away is subscribed to all topics.
AlwaysSubscribed == StartsUp /\ outages = 0 => subscribed = Len(Topics)

KeptInv == PathTyped /\ AlwaysSubscribed /\ AcceptedIsKept

LEMMA SubscribedNext ==
  ASSUME PathTyped, AlwaysSubscribed, [TelemetryNext]_allVars
  PROVE  AlwaysSubscribed'
<1>1. outages \in Nat
  BY DEF PathTyped, IngestTypeOK
<1>2. CASE UNCHANGED <<subscribed, outages>>
  BY <1>2 DEF AlwaysSubscribed
<1>3. CASE IngestNext
  BY <1>1, <1>2, <1>3, TopicsSubscribed DEF IngestNext, Subscribe, TopicsLeft, TakeMessage, InsertReadings,
     InsertDeadLetter, InsertSetpoint, RefreshManifest, ConnectionLost, IngestCrash,
     AlwaysSubscribed
<1> QED BY <1>2, <1>3, StepsOfBoth DEF BrokerRoutes, Deliver, ingestVars

\* The items in the inbox, as messages come and go.
LEMMA InboxAppend ==
  ASSUME inbox \in Seq(Letter), NEW m \in Letter, inbox' = Append(inbox, m)
  PROVE  InboxItems' = InboxItems \cup m.items
<1>0. Len(inbox) \in Nat
  OBVIOUS
<1>1. Len(inbox') = Len(inbox) + 1 /\ inbox'[Len(inbox) + 1] = m
  OBVIOUS
<1>2. \A n \in 1..Len(inbox) : inbox'[n] = inbox[n]
  OBVIOUS
<1>3. 1..Len(inbox') = (1..Len(inbox)) \cup {Len(inbox) + 1}
  BY <1>0, <1>1
<1> QED BY <1>1, <1>2, <1>3 DEF InboxItems

LEMMA InboxTail ==
  ASSUME inbox \in Seq(Letter), inbox # << >>, inbox' = Tail(inbox)
  PROVE  InboxItems = InboxItems' \cup Head(inbox).items
<1>0. Len(inbox) \in Nat /\ Len(inbox) > 0 /\ Head(inbox) = inbox[1]
  OBVIOUS
<1>1. Len(inbox') = Len(inbox) - 1 /\ \A n \in 1..Len(inbox') : inbox'[n] = inbox[n + 1]
  BY <1>0
<1>2. \A n \in 1..Len(inbox) : n = 1 \/ (n - 1 \in 1..Len(inbox') /\ inbox[n] = inbox'[n - 1])
  BY <1>0, <1>1
<1>3. \A n \in 1..Len(inbox') : n + 1 \in 1..Len(inbox)
  BY <1>0, <1>1
<1>4. ASSUME NEW n \in 1..Len(inbox), NEW i \in inbox[n].items
      PROVE  i \in InboxItems' \cup Head(inbox).items
  <2>1. CASE n = 1
    BY <1>0, <1>4, <2>1
  <2>2. CASE n # 1
    BY <1>2, <1>4, <2>2 DEF InboxItems
  <2> QED BY <2>1, <2>2
<1>5. ASSUME NEW n \in 1..Len(inbox'), NEW i \in inbox'[n].items
      PROVE  i \in InboxItems
  BY <1>1, <1>3, <1>5 DEF InboxItems
<1>6. Head(inbox).items \subseteq InboxItems
  BY <1>0 DEF InboxItems
<1> QED BY <1>4, <1>5, <1>6 DEF InboxItems

\* What the ingest service does with the items it has: nothing new comes out of
\* it, what is stored stays, and nothing is dropped but when it goes away.
LEMMA IngestMoves ==
  ASSUME IngestTypeOK, IngestNext
  PROVE  /\ InboxItems' \cup JobItems' \subseteq InboxItems \cup JobItems
         /\ Stored \subseteq Stored' /\ Stored' \ Stored \subseteq JobItems
         /\ deadLetters \subseteq deadLetters'
         /\ Stored' # Stored =>
              InboxItems \cup JobItems \subseteq InboxItems' \cup JobItems' \cup Stored'
         /\ outages' = 0 =>
              InboxItems \cup JobItems
                \subseteq InboxItems' \cup JobItems' \cup Stored' \cup deadLetters'
<1>0. /\ inbox \in Seq(Letter) /\ outages \in Nat /\ rows \in [Item -> Nat]
      /\ job \in [valid : SUBSET Reading, dead : SUBSET Reading, setpoints : SUBSET Setpoint]
      /\ job.valid \subseteq Item /\ job.dead \subseteq Item /\ job.setpoints \subseteq Item
  BY ItemIsReadingOrSetpoint DEF IngestTypeOK
<1>1. CASE Subscribe \/ RefreshManifest
  BY <1>1 DEF Subscribe, RefreshManifest, InboxItems, JobItems, Stored
<1>2. CASE TakeMessage
  <2>1. InboxItems = InboxItems' \cup Head(inbox).items
    BY <1>0, <1>2, InboxTail DEF TakeMessage
  <2>2. Head(inbox).items \subseteq Item
    <3>1. Head(inbox) \in Letter
      BY <1>0, <1>2 DEF TakeMessage
    <3> QED BY <3>1 DEF Letter
  <2>3. JobItems = {}
    BY <1>2 DEF TakeMessage, JobItems, NoJob
  <2>4. JobItems' = (Head(inbox).items \cap Reading) \cup (Head(inbox).items \cap Setpoint)
    <3>1. /\ job'.valid = {r \in Head(inbox).items \cap Reading : Valid(r)}
          /\ job'.dead = {r \in Head(inbox).items \cap Reading : ~Valid(r)}
          /\ job'.setpoints = Head(inbox).items \cap Setpoint
      BY <1>2 DEF TakeMessage, SetpointsOf
    <3> QED BY <3>1 DEF JobItems
  <2>5. JobItems' = Head(inbox).items
    BY <2>2, <2>4, ItemIsReadingOrSetpoint
  <2>6. Stored' = Stored /\ deadLetters' = deadLetters
    BY <1>2 DEF TakeMessage, Stored
  <2> QED BY <2>1, <2>3, <2>5, <2>6
<1>3. CASE InsertReadings
  <2>1. job'.valid = {} /\ job'.dead = job.dead /\ job'.setpoints = job.setpoints
    BY <1>0, <1>3 DEF InsertReadings
  <2>2. \A i \in Item : rows'[i] > 0 <=> rows[i] > 0 \/ i \in job.valid
    BY <1>0, <1>3 DEF InsertReadings, OnConflictDoNothing
  <2>3. Stored' = Stored \cup job.valid
    BY <1>0, <2>2 DEF Stored
  <2>4. InboxItems' = InboxItems /\ deadLetters' = deadLetters
    BY <1>3 DEF InsertReadings, InboxItems
  <2> QED BY <2>1, <2>3, <2>4 DEF JobItems
<1>4. CASE InsertDeadLetter
  <2>1. /\ job'.valid = job.valid /\ job'.dead = job.dead \ {Oldest(job.dead)}
        /\ job'.setpoints = job.setpoints
    BY <1>0, <1>4 DEF InsertDeadLetter
  <2>2. InboxItems' = InboxItems /\ Stored' = Stored /\ deadLetters' = deadLetters \cup {Oldest(job.dead)}
    BY <1>4 DEF InsertDeadLetter, InboxItems, Stored
  <2> QED BY <2>1, <2>2 DEF JobItems
<1>5. CASE InsertSetpoint
  <2> DEFINE s == Oldest(job.setpoints)
  <2>0. s \in job.setpoints
    BY <1>0, <1>5, OldestExists DEF InsertSetpoint
  <2>1. job'.valid = job.valid /\ job'.dead = job.dead /\ job'.setpoints = job.setpoints \ {s}
    BY <1>0, <1>5 DEF InsertSetpoint
  <2>2. rows' = [rows EXCEPT ![s] = OnConflictDoNothing(rows[s])]
    BY <1>5 DEF InsertSetpoint
  <2> HIDE DEF s
  <2>3. \A i \in Item : rows'[i] > 0 <=> rows[i] > 0 \/ i = s
    BY <1>0, <2>0, <2>2 DEF OnConflictDoNothing
  <2>4. Stored' = Stored \cup {s}
    BY <1>0, <2>0, <2>3 DEF Stored
  <2>5. InboxItems' = InboxItems /\ deadLetters' = deadLetters
    BY <1>5 DEF InsertSetpoint, InboxItems
  <2> QED BY <2>0, <2>1, <2>4, <2>5 DEF JobItems
<1>6. CASE ConnectionLost
  <2>1. JobItems' = JobItems /\ Stored' = Stored /\ deadLetters' = deadLetters /\ outages' # 0
    BY <1>0, <1>6 DEF ConnectionLost, JobItems, Stored
  <2>2. InboxItems' \subseteq InboxItems
    BY <1>6 DEF ConnectionLost, InboxItems
  <2> QED BY <2>1, <2>2
<1>7. CASE IngestCrash
  <2>1. JobItems' = {} /\ InboxItems' = {}
    BY <1>7 DEF IngestCrash, JobItems, InboxItems, NoJob
  <2>2. Stored' = Stored /\ deadLetters' = deadLetters /\ outages' # 0
    BY <1>0, <1>7 DEF IngestCrash, Stored
  <2> QED BY <2>1, <2>2
<1> QED BY <1>1, <1>2, <1>3, <1>4, <1>5, <1>6, <1>7 DEF IngestNext

\* Only the broker accepts items.
LEMMA OnlyBrokerAccepts ==
  ASSUME EdgeStep
  PROVE  UNCHANGED accepted /\ UNCHANGED ingestVars
<1>1. CASE PollerNext
  BY <1>1 DEF EdgeStep, PollerNext, PollStart, ReadSensor, SaveLocal, EmitSetpoints,
       PollTimeout, PollStop, netVars
<1>2. CASE PublisherNext
  BY <1>2 DEF EdgeStep, PublisherNext, PubConnect, PubDrain, PubSend, PubAcked,
       PubTimeout, PubBuffer, PubBufferFails, PubClose, netVars
<1>3. CASE SyncNext
  BY <1>3 DEF EdgeStep, SyncNext, SyncPeek, SyncCheck, SyncSend, SyncAcked,
       SyncTimeout, SyncDelete, SyncDeleteFails, netVars
<1>4. CASE LinkLoss
  BY <1>4 DEF EdgeStep, LinkLoss
<1>5. CASE ProcessNext
  BY <1>5 DEF EdgeStep, ProcessNext, Crash, SaveLocalFails, FlushCount, FlushAgain, FlushDone, FlushTimeout,
       Halt, ProcessEnds, Restart, netVars
<1> QED BY <1>1, <1>2, <1>3, <1>4, <1>5 DEF EdgeStep

\* What the broker routes reaches the inbox of a subscribed service, and no
\* other step of the broker touches the service.
LEMMA RoutedItems ==
  ASSUME PathTyped, BrokerRoutes
  PROVE  /\ InboxItems' \subseteq InboxItems \cup Head(wire).items
         /\ subscribed = 3 => InboxItems' = InboxItems \cup Head(wire).items
         /\ accepted' = accepted \cup Head(wire).items
         /\ JobItems' = JobItems /\ Stored' = Stored /\ deadLetters' = deadLetters
<1> DEFINE m == [topic |-> Head(wire).topic, items |-> Head(wire).items]
<1>1. m \in Letter /\ m.items = Head(wire).items /\ Head(wire) \in Message
  BY RoutedLetter DEF PathTyped, PublishProtocol, TypedPublisher
<1>2. inbox \in Seq(Letter)
  BY DEF PathTyped, IngestTypeOK
<1>3. inbox' = (IF IsSubscribed(m.topic) THEN Append(inbox, m) ELSE inbox)
  BY DEF BrokerRoutes, Deliver, DropUnlessSubscribed
<1>4. accepted' = accepted \cup Head(wire).items
  BY DEF BrokerRoutes, BrokerAccept
<1>5. JobItems' = JobItems /\ Stored' = Stored /\ deadLetters' = deadLetters
  BY DEF BrokerRoutes, Deliver, JobItems, Stored
<1>6. m.topic \in {"readings", "setpoints", "backfill"}
  BY <1>1 DEF Letter
<1>7. subscribed = 3 => IsSubscribed(m.topic)
  BY <1>6, TopicsSubscribed
<1> HIDE DEF m
<1>8. CASE IsSubscribed(m.topic)
  BY <1>1, <1>2, <1>3, <1>4, <1>5, <1>8, InboxAppend
<1>9. CASE ~IsSubscribed(m.topic)
  BY <1>3, <1>4, <1>5, <1>7, <1>9 DEF InboxItems
<1> QED BY <1>8, <1>9

LEMMA KeptNext ==
  ASSUME KeptInv, [TelemetryNext]_allVars
  PROVE  AcceptedIsKept'
<1> SUFFICES ASSUME StartsUp, outages' = 0
             PROVE  accepted' \subseteq InboxItems' \cup JobItems' \cup Stored' \cup deadLetters'
  BY DEF AcceptedIsKept
<1>0. PathTyped /\ IngestTypeOK /\ outages \in Nat
  BY DEF KeptInv, PathTyped, IngestTypeOK
<1>1. CASE EdgeStep \/ UNCHANGED allVars
  <2>1. UNCHANGED accepted /\ UNCHANGED ingestVars
    BY <1>1, OnlyBrokerAccepts DEF allVars, vars, netVars
  <2> QED BY <2>1 DEF KeptInv, AcceptedIsKept, ingestVars, InboxItems, JobItems, Stored
<1>2. CASE BrokerRoutes
  <2>1. outages = 0 /\ subscribed = 3
    BY <1>2, TopicsSubscribed DEF BrokerRoutes, Deliver, KeptInv, AlwaysSubscribed
  <2> QED BY <1>0, <1>2, <2>1, RoutedItems DEF KeptInv, AcceptedIsKept
<1>3. CASE IngestStep
  <2>1. outages = 0
    BY <1>0, <1>3 DEF IngestStep, IngestNext, Subscribe, TakeMessage, InsertReadings,
       InsertDeadLetter, InsertSetpoint, RefreshManifest, ConnectionLost, IngestCrash
  <2>2. UNCHANGED accepted
    BY <1>3 DEF IngestStep, vars, netVars
  <2> QED BY <1>0, <1>3, <2>1, <2>2, IngestMoves DEF IngestStep, KeptInv, AcceptedIsKept
<1> QED BY <1>1, <1>2, <1>3 DEF TelemetryNext

\* What the edge has forgotten because the broker acknowledged it is in the
\* inbox, the job, the tables or the dead letters of an ingest service that has
\* been up all along (service.py:327-349; daemon.py:309-315, 406-418).
THEOREM AcceptedKept == TelemetrySpec => []AcceptedIsKept
<1>1. TelemetryInit => KeptInv
  BY PathTypedInit, TopicsSubscribed
     DEF TelemetryInit, Init, IngestInit, KeptInv, AlwaysSubscribed, AcceptedIsKept
<1>2. KeptInv /\ [TelemetryNext]_allVars => KeptInv'
  BY PathTypedNext, SubscribedNext, KeptNext DEF KeptInv
<1>3. KeptInv => AcceptedIsKept
  BY DEF KeptInv
<1> QED BY <1>1, <1>2, <1>3, PTL DEF TelemetrySpec

-----------------------------------------------------------------------------
(* The refinement of ReadingDelivery *)

WireItems == UNION {wire[n].items : n \in 1..Len(wire)}
OnTheEdge == outbox \cup drained \cup ItemsOf(buffer) \cup WireItems

LEMMA UnderwayParts == Underway = OnTheEdge \cup InboxItems \cup JobItems
BY DEF Underway, OnTheEdge, WireItems

\* What has a row or is on its way has been generated.
FoundWasGenerated == Underway \cup Stored \subseteq generated

\* Without faults there is nothing that could give an item up.
Faultless ==
  ~CanLose =>
    /\ lost = {} /\ deadLetters = {} /\ job.dead = {}
    /\ known = Sensors /\ outages = 0
    /\ pollPc \notin {"stopped", "halted"}

PathInv ==
  /\ KeptInv /\ HeldInv /\ OldestInv /\ NothingDrainedIsLost
  /\ FoundWasGenerated /\ Faultless

\* The items on the wire, as messages come and go.
LEMMA WireItemsAppend ==
  ASSUME wire \in Seq(Message), NEW topic, NEW items, Send(topic, items)
  PROVE  WireItems' \subseteq WireItems \cup items
<1> DEFINE m == [topic |-> topic, items |-> items, awaited |-> TRUE]
<1>0. Len(wire) \in Nat /\ wire' = Append(wire, m) /\ m.items = items
  BY DEF Send
<1> HIDE DEF m
<1>1. Len(wire') = Len(wire) + 1 /\ wire'[Len(wire) + 1] = m
  BY <1>0
<1>2. \A n \in 1..Len(wire) : wire'[n] = wire[n]
  BY <1>0
<1>3. 1..Len(wire') = (1..Len(wire)) \cup {Len(wire) + 1}
  BY <1>0, <1>1
<1> QED BY <1>0, <1>1, <1>2, <1>3 DEF WireItems

LEMMA WireItemsTail ==
  ASSUME wire \in Seq(Message), wire # << >>, wire' = Tail(wire)
  PROVE  WireItems' \subseteq WireItems /\ Head(wire).items \subseteq WireItems
<1>0. Len(wire) \in Nat /\ Len(wire) > 0 /\ Head(wire) = wire[1]
  OBVIOUS
<1>1. Len(wire') = Len(wire) - 1 /\ \A n \in 1..Len(wire') : wire'[n] = wire[n + 1]
  BY <1>0
<1>2. \A n \in 1..Len(wire') : n + 1 \in 1..Len(wire)
  BY <1>0, <1>1
<1>3. ASSUME NEW n \in 1..Len(wire'), NEW i \in wire'[n].items
      PROVE  i \in WireItems
  BY <1>1, <1>2, <1>3 DEF WireItems
<1>4. Head(wire).items \subseteq WireItems
  BY <1>0 DEF WireItems
<1> QED BY <1>3, <1>4 DEF WireItems

LEMMA WireItemsUnawaited ==
  ASSUME wire \in Seq(Message), wire' = Unawaited(wire)
  PROVE  WireItems' = WireItems
<1>1. Len(wire) \in Nat
  OBVIOUS
<1>2. Len(wire') = Len(wire)
  BY <1>1 DEF Unawaited
<1>3. \A n \in 1..Len(wire) : wire'[n].items = wire[n].items
  <2> TAKE n \in 1..Len(wire)
  <2>1. wire[n] \in Message
    OBVIOUS
  <2> QED BY <2>1 DEF Unawaited, Message
<1> QED BY <1>2, <1>3 DEF WireItems

\* Items enter the edge where they are generated, and nowhere else.
NewItems(new) ==
  /\ new \cap generated = {}
  /\ generated' = generated \cup new
  /\ OnTheEdge' = OnTheEdge \cup new

OldItems ==
  /\ generated' = generated
  /\ OnTheEdge' \subseteq OnTheEdge

LEMMA EdgeMoves ==
  ASSUME HeldInv, OldestInv, [Next]_vars
  PROVE  OldItems \/ \E new \in SUBSET Item : NewItems(new)
<1>0. /\ wire \in Seq(Message)
      /\ drained \subseteq Item /\ readCount \in 0..NumSensors /\ NumSensors \in Nat
      /\ chunk \subseteq buffer
      /\ generated' \subseteq Item
  BY ItemsAssumption, ItemsNext
     DEF HeldInv, OldestInv, ChunkIsOldest, TypedPublisher, TypeOK, ItemsOK, WireOK, CountersOK
<1>1. CASE /\ outbox' \subseteq outbox \cup drained \cup ItemsOf(buffer)
           /\ drained' \subseteq outbox \cup drained \cup ItemsOf(buffer)
           /\ buffer' \subseteq buffer
           /\ UNCHANGED generated
           /\ WireItems' \subseteq OnTheEdge
  <2>1. ItemsOf(buffer)' \subseteq ItemsOf(buffer)
    BY <1>1 DEF ItemsOf
  <2> QED BY <1>1, <2>1 DEF OldItems, OnTheEdge
<1>2. UNCHANGED wire => WireItems' \subseteq OnTheEdge
  BY DEF WireItems, OnTheEdge
<1>3. wire' = << >> => WireItems' \subseteq OnTheEdge
  BY DEF WireItems
<1>4. wire' = Unawaited(wire) => WireItems' \subseteq OnTheEdge
  BY <1>0, WireItemsUnawaited DEF OnTheEdge
<1>5. ASSUME NEW new, UNCHANGED <<drained, buffer, wire>>, outbox' = outbox \cup new,
             generated' = generated \cup new, new \cap generated = {}
      PROVE  new \in SUBSET Item /\ NewItems(new)
  <2>1. OnTheEdge' = OnTheEdge \cup new
    BY <1>5 DEF OnTheEdge, ItemsOf, WireItems
  <2> QED BY <1>0, <1>5, <2>1 DEF NewItems
<1>6. CASE ReadSensor
  <2> DEFINE new == {[cycle |-> cycle, slot |-> readCount + 1]}
  <2>1. /\ outbox' = outbox \cup new /\ generated' = generated \cup new
        /\ UNCHANGED <<drained, buffer, wire>>
    BY <1>6 DEF ReadSensor, pubVars, rowVars, netVars
  <2>2. new \cap generated = {}
    BY <1>0, <1>6, NextItemIsNew DEF ReadSensor
  <2> HIDE DEF new
  <2> QED BY <1>5, <2>1, <2>2
<1>7. CASE EmitSetpoints
  <2>1. PICK changed \in SUBSET Registers :
          LET items == {[cycle |-> cycle, slot |-> r] : r \in changed}
          IN  outbox' = outbox \cup items /\ generated' = generated \cup items
    BY <1>7 DEF EmitSetpoints
  <2> DEFINE new == {[cycle |-> cycle, slot |-> r] : r \in changed}
  <2>2. /\ outbox' = outbox \cup new /\ generated' = generated \cup new
        /\ UNCHANGED <<drained, buffer, wire>>
    BY <1>7, <2>1 DEF EmitSetpoints, pubVars, rowVars, netVars
  <2>3. \A r \in changed : r > readCount
    BY <1>0, ItemsAssumption DEF Registers
  <2>4. \A r \in changed : [cycle |-> cycle, slot |-> r] \notin generated
    BY <1>7, <2>3, NextItemIsNew DEF EmitSetpoints
  <2>5. new \cap generated = {}
    BY <2>4
  <2> HIDE DEF new
  <2> QED BY <1>5, <2>2, <2>5
<1>8. CASE PubSend
  <2>1. CASE session
    <3>1. PubBatch \subseteq drained
      BY <1>0, <1>8, BatchIsDrained DEF PubSend, HeldInv, TypedPublisher, PublisherHolds
    <3>2. WireItems' \subseteq WireItems \cup PubBatch
      BY <1>0, <1>8, <2>1, WireItemsAppend DEF PubSend
    <3>3. WireItems' \subseteq OnTheEdge
      BY <3>1, <3>2 DEF OnTheEdge
    <3> QED BY <1>1, <1>8, <3>3 DEF PubSend, rowVars
  <2> QED BY <1>1, <1>2, <1>8, <2>1 DEF PubSend, rowVars
<1>9. CASE SyncSend
  <2>1. CASE syncPc = "locking" /\ session
    <3>1. ItemsOf(chunk) \subseteq ItemsOf(buffer)
      BY <1>0 DEF ItemsOf
    <3>2. WireItems' \subseteq WireItems \cup ItemsOf(chunk)
      BY <1>0, <1>9, <2>1, WireItemsAppend DEF SyncSend
    <3>3. WireItems' \subseteq OnTheEdge
      BY <3>1, <3>2 DEF OnTheEdge
    <3> QED BY <1>1, <1>9, <3>3 DEF SyncSend, rowVars, pubVars
  <2> QED BY <1>1, <1>2, <1>9, <2>1 DEF SyncSend, rowVars, pubVars
<1>10. CASE PubBuffer
  <2> DEFINE new == {[batch |-> batches + 1, item |-> i] : i \in drained}
  <2>1. /\ buffer' = buffer \cup new /\ drained' = {}
        /\ UNCHANGED <<outbox, generated, wire>>
    BY <1>10 DEF PubBuffer, Unsettled, netVars
  <2>2. \A r \in new : r.item \in drained
    OBVIOUS
  <2> HIDE DEF new
  <2>3. ItemsOf(buffer)' \subseteq ItemsOf(buffer) \cup drained
    BY <2>1, <2>2 DEF ItemsOf
  <2> QED BY <1>2, <2>1, <2>3 DEF OldItems, OnTheEdge
<1>11. CASE BrokerAccept
  <2>1. WireItems' \subseteq OnTheEdge
    BY <1>0, <1>11, WireItemsTail DEF BrokerAccept, OnTheEdge
  <2> QED BY <1>1, <1>11, <2>1 DEF BrokerAccept, pubVars, rowVars
<1>12. CASE PollStart \/ SaveLocal \/ PollTimeout \/ PollStop
  BY <1>1, <1>2, <1>12 DEF PollStart, SaveLocal, PollTimeout, PollStop, pubVars, rowVars, netVars
<1>13. CASE PubConnect \/ PubDrain \/ PubAcked \/ PubBufferFails
  BY <1>1, <1>2, <1>13 DEF PubConnect, PubDrain, PubAcked, PubBufferFails, rowVars, netVars
<1>14. CASE PubTimeout \/ PubClose
  BY <1>1, <1>3, <1>4, <1>14 DEF PubTimeout, GiveUp, Unawaited, PubClose, rowVars
<1>15. CASE SyncPeek \/ SyncCheck \/ SyncAcked \/ SyncDelete \/ SyncDeleteFails
  BY <1>1, <1>2, <1>15 DEF SyncPeek, SyncCheck, SyncAcked, SyncDelete, SyncDeleteFails,
       pubVars, rowVars, netVars
<1>16. CASE SyncTimeout \/ LinkLoss
  BY <1>1, <1>3, <1>4, <1>16 DEF SyncTimeout, GiveUp, Unawaited, LinkLoss, pubVars, rowVars
<1>17. CASE ProcessNext
  BY <1>1, <1>2, <1>3, <1>17 DEF ProcessNext, Crash, SaveLocalFails, FlushCount, FlushAgain, FlushDone,
       FlushTimeout, Halt, ProcessEnds, Restart, pubVars, rowVars, netVars
<1>18. CASE UNCHANGED vars
  BY <1>1, <1>2, <1>18 DEF vars, pubVars, rowVars, netVars
<1> QED
  BY <1>6, <1>7, <1>8, <1>9, <1>10, <1>11, <1>12, <1>13, <1>14, <1>15, <1>16, <1>17, <1>18
  DEF Next, PollerNext, PublisherNext, SyncNext

\* What a step of the telemetry path does to the items: new ones set out, or
\* some of those under way get their row, or some are not under way any more.
SetOut(new) ==
  /\ new \cap generated = {}
  /\ generated' = generated \cup new
  /\ Underway' = Underway \cup new
  /\ Stored' = Stored

GetRows ==
  /\ generated' = generated
  /\ Stored \subseteq Stored' /\ Stored' \ Stored \subseteq Underway
  /\ Underway' \subseteq Underway
  /\ Underway \subseteq Underway' \cup Stored'

DropOut ==
  /\ generated' = generated
  /\ Underway' \subseteq Underway
  /\ Stored' = Stored

LEMMA PathMoves ==
  ASSUME PathInv, [TelemetryNext]_allVars
  PROVE  (\E new \in SUBSET Item : SetOut(new)) \/ GetRows \/ DropOut
<1>0. PathTyped /\ IngestTypeOK /\ HeldInv /\ OldestInv /\ [Next]_vars /\ wire \in Seq(Message)
  BY StepsOfBoth DEF PathInv, KeptInv, PathTyped, PublishProtocol, TypedPublisher, TypeOK, WireOK
<1>1. Underway' = OnTheEdge' \cup InboxItems' \cup JobItems'
  BY DEF Underway, OnTheEdge, WireItems
<1>2. CASE UNCHANGED ingestVars
  <2>1. Stored' = Stored /\ InboxItems' = InboxItems /\ JobItems' = JobItems
    BY <1>2 DEF ingestVars, Stored, InboxItems, JobItems
  <2> QED BY <1>0, <1>1, <2>1, EdgeMoves, UnderwayParts DEF OldItems, NewItems, DropOut, SetOut
<1>3. CASE BrokerRoutes
  <2>1. Head(wire).items \subseteq WireItems /\ WireItems' \subseteq WireItems
    BY <1>0, <1>3, WireItemsTail DEF BrokerRoutes, BrokerAccept
  <2>2. UNCHANGED <<outbox, drained, buffer, generated>>
    BY <1>3 DEF BrokerRoutes, BrokerAccept, pubVars, rowVars
  <2>3. OnTheEdge' \subseteq OnTheEdge /\ Head(wire).items \subseteq OnTheEdge
    BY <2>1, <2>2 DEF OnTheEdge, ItemsOf
  <2>4. /\ InboxItems' \subseteq InboxItems \cup Head(wire).items
        /\ JobItems' = JobItems /\ Stored' = Stored
    BY <1>0, <1>3, RoutedItems
  <2> QED BY <1>1, <2>2, <2>3, <2>4, UnderwayParts DEF DropOut
<1>4. CASE IngestNext /\ UNCHANGED vars
  <2>1. generated' = generated /\ OnTheEdge' = OnTheEdge
    BY <1>4 DEF vars, pubVars, rowVars, netVars, OnTheEdge, ItemsOf, WireItems
  <2>2. CASE Stored' = Stored
    BY <1>0, <1>1, <1>4, <2>1, <2>2, IngestMoves, UnderwayParts DEF DropOut
  <2>3. CASE Stored' # Stored
    BY <1>0, <1>1, <1>4, <2>1, <2>3, IngestMoves, UnderwayParts DEF GetRows
  <2> QED BY <2>2, <2>3
<1> QED BY <1>2, <1>3, <1>4, StepsOfBoth

LEMMA FoundNext ==
  ASSUME PathInv, [TelemetryNext]_allVars
  PROVE  FoundWasGenerated'
BY PathMoves DEF PathInv, FoundWasGenerated, SetOut, GetRows, DropOut

LEMMA FaultlessNext ==
  ASSUME PathInv, [TelemetryNext]_allVars
  PROVE  Faultless'
<1> SUFFICES ASSUME ~CanLose, Faultless
             PROVE  /\ lost' = {} /\ deadLetters' = {} /\ job'.dead = {}
                    /\ known' = Sensors /\ outages' = 0
                    /\ pollPc' \notin {"stopped", "halted"}
  BY DEF PathInv, Faultless, CanLose
<1>0. /\ lost = {} /\ deadLetters = {} /\ job.dead = {} /\ known = Sensors /\ outages = 0
      /\ pollPc \notin {"stopped", "halted"}
      /\ ~AllowCrash /\ ~DiskMayFail /\ ~AllowStop /\ MaxOutages = 0
  BY IngestAssumption DEF Faultless, CanLose
<1>1. lost' = {} /\ pollPc' \notin {"stopped", "halted"}
  <2>1. CASE PollerNext
    BY <1>0, <2>1 DEF PollerNext, PollStart, ReadSensor, SaveLocal, EmitSetpoints,
         PollTimeout, PollStop, endVars
  <2>2. CASE PublisherNext
    BY <1>0, <2>2 DEF PublisherNext, PubConnect, PubDrain, PubSend, PubAcked,
         PubTimeout, PubBuffer, PubBufferFails, DiskFails, PubClose, pollVars, endVars
  <2>3. CASE SyncNext
    BY <1>0, <2>3 DEF SyncNext, SyncPeek, SyncCheck, SyncSend, SyncAcked,
         SyncTimeout, SyncDelete, SyncDeleteFails, pollVars, endVars
  <2>4. CASE BrokerAccept \/ LinkLoss \/ UNCHANGED vars
    BY <1>0, <2>4 DEF BrokerAccept, LinkLoss, vars, pollVars, endVars
  <2>5. CASE ProcessNext
    BY <1>0, <2>5 DEF ProcessNext, Crash, SaveLocalFails, DiskFails, FlushCount, FlushAgain,
         FlushDone, FlushTimeout, Halt, Restart
  <2> QED BY <2>1, <2>2, <2>3, <2>4, <2>5, StepsOfBoth DEF Next
<1>2. deadLetters' = {} /\ job'.dead = {} /\ known' = Sensors /\ outages' = 0
  <2>1. CASE UNCHANGED ingestVars \/ BrokerRoutes
    BY <1>0, <2>1 DEF BrokerRoutes, Deliver, ingestVars
  <2>2. CASE IngestNext
    <3>0. job \in [valid : SUBSET Reading, dead : SUBSET Reading, setpoints : SUBSET Setpoint]
      BY DEF PathInv, KeptInv, PathTyped, IngestTypeOK
    <3>1. CASE TakeMessage
      <4>1. \A r \in Reading : Valid(r)
        BY <1>0 DEF Reading, Valid
      <4>2. job'.dead = {r \in Head(inbox).items \cap Reading : ~Valid(r)}
        BY <3>1 DEF TakeMessage
      <4>3. job'.dead = {}
        BY <4>1, <4>2
      <4> QED BY <1>0, <3>1, <4>3 DEF TakeMessage
    <3>2. CASE InsertReadings \/ InsertDeadLetter \/ InsertSetpoint
      BY <1>0, <3>0, <3>2 DEF InsertReadings, InsertDeadLetter, InsertSetpoint
    <3>3. CASE Subscribe \/ RefreshManifest \/ ConnectionLost \/ IngestCrash
      BY <1>0, <3>3 DEF Subscribe, RefreshManifest, ConnectionLost, IngestCrash
    <3> QED BY <2>2, <3>1, <3>2, <3>3 DEF IngestNext
  <2> QED BY <2>1, <2>2, StepsOfBoth
<1> QED BY <1>1, <1>2

LEMMA PathInit == TelemetryInit => PathInv
<1> SUFFICES ASSUME TelemetryInit PROVE PathInv
  OBVIOUS
<1>0. Init /\ IngestInit
  BY DEF TelemetryInit
<1>1. KeptInv
  BY PathTypedInit, TopicsSubscribed
     DEF TelemetryInit, Init, IngestInit, KeptInv, AlwaysSubscribed, AcceptedIsKept
<1>2. HeldInv
  BY <1>0, TypedInit DEF Init, HeldInv, HeldWasGenerated, GeneratedSoFar, EachItemHeldOnce, ItemsOf
<1>3. OldestInv /\ NothingDrainedIsLost
  BY <1>0, ProtocolInit DEF Init, OldestInv, RowsSoFar, ChunkIsOldest, NothingDrainedIsLost
<1>4. FoundWasGenerated
  BY <1>0 DEF Init, IngestInit, FoundWasGenerated, Underway, Stored, InboxItems, JobItems, NoJob, ItemsOf
<1>5. Faultless
  BY <1>0 DEF Init, IngestInit, NoJob, Faultless, CanLose
<1> QED BY <1>1, <1>2, <1>3, <1>4, <1>5 DEF PathInv

LEMMA PathNext ==
  ASSUME ~KeepPolling, PathInv, [TelemetryNext]_allVars
  PROVE  PathInv'
<1>0. [Next]_vars
  BY StepsOfBoth
<1>1. KeptInv'
  BY PathTypedNext, SubscribedNext, KeptNext DEF PathInv, KeptInv
<1>2. HeldInv'
  BY <1>0, TypedNext, GeneratedNext, HeldOnceNext DEF PathInv, HeldInv
<1>3. OldestInv' /\ NothingDrainedIsLost'
  BY <1>0, ProtocolNext, OldestNext, NothingLostNext DEF PathInv, OldestInv
<1> QED BY <1>1, <1>2, <1>3, FoundNext, FaultlessNext DEF PathInv

\* Without faults, what was generated can always be found.
NothingIsGone == ~CanLose => generated \subseteq Underway \cup Stored

LEMMA NothingGone == PathInv => NothingIsGone
<1> SUFFICES ASSUME PathInv, ~CanLose
             PROVE  generated \subseteq Underway \cup Stored
  BY DEF NothingIsGone
<1>1. lost = {} /\ deadLetters = {} /\ outages = 0 /\ StartsUp
  BY DEF PathInv, Faultless, CanLose
<1>2. accepted \subseteq InboxItems \cup JobItems \cup Stored
  BY <1>1 DEF PathInv, KeptInv, AcceptedIsKept
<1> QED BY <1>1, <1>2 DEF PathInv, NothingDrainedIsLost, Underway

\* The status of an item says in which of the three sets it is.
LEMMA StatusBySets ==
  ASSUME rows \in [Item -> Nat], NEW i \in Item
  PROVE  StatusOf(i) = IF i \in Stored THEN "stored"
                       ELSE IF i \in Underway THEN "underway"
                       ELSE IF i \in generated THEN "gone" ELSE "unborn"
BY DEF StatusOf, Stored

LEMMA DeliveryStarts == TelemetryInit => Delivery!DeliveryInit
<1> SUFFICES ASSUME TelemetryInit, NEW i \in Item PROVE StatusOf(i) = "unborn"
  BY DEF Delivery!DeliveryInit
<1>1. Underway = {} /\ generated = {} /\ rows[i] = 0
  BY DEF TelemetryInit, Init, IngestInit, Underway, InboxItems, JobItems, NoJob, ItemsOf
<1> QED BY <1>1 DEF StatusOf

LEMMA DeliverySteps ==
  ASSUME PathInv, NothingIsGone', [TelemetryNext]_allVars
  PROVE  [Delivery!Generate \/ Delivery!Store \/ Delivery!GiveUp]_([i \in Item |-> StatusOf(i)])
<1> DEFINE Status(s, u, g, i) ==
             IF i \in s THEN "stored" ELSE IF i \in u THEN "underway"
             ELSE IF i \in g THEN "gone" ELSE "unborn"
           status == [i \in Item |-> StatusOf(i)]
<1>0. Underway \cup Stored \subseteq generated
  BY DEF PathInv, FoundWasGenerated
<1>a. rows' \in [Item -> Nat]
  BY PathTypedNext DEF PathInv, KeptInv, PathTyped, IngestTypeOK
<1>1. \A i \in Item : StatusOf(i) = Status(Stored, Underway, generated, i)
  BY StatusBySets DEF PathInv, KeptInv, PathTyped, IngestTypeOK
<1>2. \A i \in Item : StatusOf(i)' = Status(Stored', Underway', generated', i)
  BY <1>a DEF StatusOf, Stored
<1>3. \A i \in Item : status[i] = Status(Stored, Underway, generated, i)
  BY <1>1
<1>4. status' = [i \in Item |-> Status(Stored', Underway', generated', i)]
  BY <1>2
<1>5. ASSUME NEW new \in SUBSET Item, SetOut(new)
      PROVE  Delivery!Generate
  <2>1. \A i \in new : status[i] = "unborn"
    BY <1>0, <1>3, <1>5 DEF SetOut
  <2>2. status' = [i \in Item |-> IF i \in new THEN "underway" ELSE status[i]]
    BY <1>0, <1>3, <1>4, <1>5 DEF SetOut
  <2> QED BY <2>1, <2>2 DEF Delivery!Generate, Delivery!Move
<1>6. CASE GetRows
  <2> DEFINE S == {i \in Item : i \in Stored' \ Stored}
  <2>1. \A i \in S : status[i] = "underway"
    BY <1>3, <1>6 DEF GetRows
  <2>2. status' = [i \in Item |-> IF i \in S THEN "stored" ELSE status[i]]
    BY <1>3, <1>4, <1>6 DEF GetRows
  <2>3. S \in SUBSET Item
    OBVIOUS
  <2> HIDE DEF S
  <2> QED BY <2>1, <2>2, <2>3 DEF Delivery!Store, Delivery!Move
<1>7. CASE DropOut
  <2> DEFINE S == {i \in Item : i \in Underway \ Underway' /\ i \notin Stored}
  <2>1. \A i \in S : status[i] = "underway"
    BY <1>3
  <2>2. status' = [i \in Item |-> IF i \in S THEN "gone" ELSE status[i]]
    BY <1>0, <1>3, <1>4, <1>7 DEF DropOut
  <2>3. S \in SUBSET Item
    OBVIOUS
  <2>4. ~CanLose => S = {}
    <3>1. ~CanLose => generated' \subseteq Underway' \cup Stored'
      BY DEF NothingIsGone, CanLose
    <3> QED BY <1>0, <1>7, <3>1 DEF DropOut
  <2>5. status = [i \in Item |-> status[i]]
    OBVIOUS
  <2> HIDE DEF S
  <2>6. CASE CanLose
    BY <2>1, <2>2, <2>3, <2>6 DEF Delivery!GiveUp, Delivery!Move
  <2>7. CASE ~CanLose
    BY <2>2, <2>4, <2>5, <2>7
  <2> QED BY <2>6, <2>7
<1> QED BY <1>5, <1>6, <1>7, PathMoves

\* The telemetry path implements ReadingDelivery while the clock goes forward:
\* every item sets out once, ends as one row for good, and is given up at most
\* where a process ends, a disk write fails or the ingest service is away.
\* When none of these can happen, no step gives an item up.
THEOREM Implements ==
  ASSUME ~KeepPolling
  PROVE  TelemetrySpec => ImplementsDelivery
<1>1. PathInv /\ [TelemetryNext]_allVars => PathInv'
  BY PathNext
<1>2. PathInv /\ NothingIsGone' /\ [TelemetryNext]_allVars
        => [Delivery!Generate \/ Delivery!Store \/ Delivery!GiveUp]_([i \in Item |-> StatusOf(i)])
  BY DeliverySteps
<1> QED BY <1>1, <1>2, PathInit, DeliveryStarts, NothingGone, PTL
        DEF TelemetrySpec, ImplementsDelivery, Delivery!DeliverySpec
=============================================================================
