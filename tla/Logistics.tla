------------------------------ MODULE Logistics ------------------------------
(***************************************************************************)
(* One trip and the telephone that reports it (api/routers/logistics.py),  *)
(* and the tasks that Grafana's alerts ask for (api/routers/               *)
(* admin_logistics.py).  The telephone and Grafana repeat a request that   *)
(* was not answered, whether or not it was carried out.                    *)
(***************************************************************************)
EXTENDS Naturals

CONSTANTS
  Alerts,     \* alerts in Grafana's notification
  MaxTime,    \* bound: the clock
  MaxTasks    \* bound: tasks made of one alert

LogisticsAssumption == MaxTime \in Nat /\ MaxTasks \in Nat \ {0}

VARIABLES
  now,
  trip,     \* the row of trips, and the times of its trip_pings
  stop,     \* what the telephone knows of its stop
  tasks,    \* how many tasks there are of each alert
  webhook   \* the notification: which alerts are inserted, and what Grafana knows

vars == <<now, trip, stop, tasks, webhook>>

Time  == 0..MaxTime
Never == MaxTime + 1

(* A trip is in transit as soon as it is inserted; whoever knows its token *)
(* may report it.                                                          *)
Trip == [status : {"absent", "in_transit", "completed"}, started : Time \cup {Never},
         completed : Time \cup {Never}, pings : SUBSET Time]

TypeOK ==
  /\ now \in Time
  /\ trip \in Trip
  /\ stop \in {"none", "verified", "sent", "answered"}
  /\ tasks \in [Alerts -> 0..MaxTasks]
  /\ webhook \in [step : {"none", "firing", "inserting", "committed", "answered"},
                  firing : SUBSET Alerts, inserted : SUBSET Alerts]

Init ==
  /\ now = 0
  /\ trip = [status |-> "absent", started |-> Never, completed |-> Never, pings |-> {}]
  /\ stop = "none"
  /\ tasks = [a \in Alerts |-> 0]
  /\ webhook = [step |-> "none", firing |-> {}, inserted |-> {}]

Tick ==
  /\ now < MaxTime
  /\ now' = now + 1
  /\ UNCHANGED <<trip, stop, tasks, webhook>>

StartTrip ==
  /\ trip.status = "absent"
  /\ trip' = [trip EXCEPT !.status = "in_transit", !.started = now]
  /\ UNCHANGED <<now, stop, tasks, webhook>>

(* The token is that of the trip, whatever its status: a trip that has     *)
(* been stopped still takes pings, one for each moment.                    *)
PingTrip ==
  /\ trip.status # "absent" /\ now \notin trip.pings
  /\ trip' = [trip EXCEPT !.pings = @ \cup {now}]
  /\ UNCHANGED <<now, stop, tasks, webhook>>

(* stop_trip: the token is verified on one connection ... *)
VerifyStop ==
  /\ trip.status # "absent"
  /\ stop' = "verified"
  /\ UNCHANGED <<now, trip, tasks, webhook>>

(* ... and the row updated on another, a second time too.                  *)
StopTrip ==
  /\ stop = "verified"
  /\ trip' = [trip EXCEPT !.status = "completed", !.completed = now]
  /\ stop' = "sent"
  /\ UNCHANGED <<now, tasks, webhook>>

AnswerStop ==
  /\ stop = "sent"
  /\ stop' = "answered"
  /\ UNCHANGED <<now, trip, tasks, webhook>>

-----------------------------------------------------------------------------

Fire ==
  /\ webhook.step \in {"none", "answered"}
  /\ \E f \in SUBSET Alerts : webhook' = [step |-> "firing", firing |-> f, inserted |-> {}]
  /\ UNCHANGED <<now, trip, stop, tasks>>

(* logistics_task_webhook: one task for each alert that is firing ...      *)
InsertTask ==
  /\ webhook.step \in {"firing", "inserting"}
  /\ \E a \in webhook.firing \ webhook.inserted :
       webhook' = [webhook EXCEPT !.step = "inserting", !.inserted = @ \cup {a}]
  /\ UNCHANGED <<now, trip, stop, tasks>>

(* A plausible bug: each alert is committed on its own, as it comes. *)
SomeInserted == webhook.inserted # {}

AllInserted == webhook.inserted = webhook.firing

(* ... and all of them committed together. *)
CommitTasks ==
  /\ webhook.step = "inserting" /\ AllInserted
  /\ \A a \in webhook.inserted : tasks[a] < MaxTasks
  /\ tasks' = [a \in Alerts |-> tasks[a] + IF a \in webhook.inserted THEN 1 ELSE 0]
  /\ webhook' = [webhook EXCEPT !.step = "committed"]
  /\ UNCHANGED <<now, trip, stop>>

AnswerWebhook ==
  /\ webhook.step = "committed" \/ (webhook.step = "firing" /\ webhook.firing = {})
  /\ webhook' = [webhook EXCEPT !.step = "answered"]
  /\ UNCHANGED <<now, trip, stop, tasks>>

(* The server fails, or the answer is lost: Grafana sends it again. *)
RetryWebhook ==
  /\ webhook.step \in {"inserting", "committed"}
  /\ webhook' = [webhook EXCEPT !.step = "firing", !.inserted = {}]
  /\ UNCHANGED <<now, trip, stop, tasks>>

Next ==
  \/ Tick
  \/ StartTrip \/ PingTrip \/ VerifyStop \/ StopTrip \/ AnswerStop
  \/ Fire \/ InsertTask \/ CommitTasks \/ AnswerWebhook \/ RetryWebhook

Spec == Init /\ [][Next]_vars

-----------------------------------------------------------------------------

(* Once Grafana has its answer there is a task for every alert that was    *)
(* firing, whatever failed on the way and however often it was sent, and   *)
(* once the telephone has its own the trip is over.                        *)
AnsweredIsKept ==
  /\ webhook.step = "answered" => \A a \in webhook.firing : tasks[a] > 0
  /\ stop = "answered" => trip.status = "completed"
==============================================================================
