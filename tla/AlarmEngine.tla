----------------------------- MODULE AlarmEngine -----------------------------
(***************************************************************************)
(* The alarm engine (workers/alarm_engine.py) and the acknowledge endpoint *)
(* (api/routers/plant.py), which share the alarms table.                   *)
(*                                                                         *)
(* The engine runs one cycle every ALARM_ENGINE_INTERVAL_S.  It loads a    *)
(* snapshot (readings, then active alarms, then last clearances, each      *)
(* query seeing what has been committed by then), and works through the    *)
(* rules from that snapshot, a transaction per rule.  Meanwhile operators  *)
(* acknowledge alarms.  Everything is keyed by (rule, plant) and nothing   *)
(* relates two plants, so one plant is modelled.                           *)
(***************************************************************************)
EXTENDS Naturals, FiniteSets, Sequences

CONSTANTS
  NumRules,       \* rules of the plant, processed in order of rule_id
  Cooldown,       \* alarm_rules.cooldown_s, in ticks
  EscalateAfter,  \* ESCALATE_AFTER_S, in ticks
  MaxAlarms,      \* bound: rows of the alarms table
  MaxTime         \* bound: ticks of the clock

ASSUME AlarmAssumption ==
  /\ NumRules \in Nat \ {0} /\ MaxAlarms \in Nat /\ MaxTime \in Nat \ {0}
  /\ Cooldown \in Nat /\ EscalateAfter \in Nat

VARIABLES
  time,       \* the clock
  alarms,     \* the alarms table, in order of insertion
  stage,      \* what the engine does next
  now,        \* the time its cycle began
  fired,      \* snapshot: which rules fire
  active,     \* snapshot: the active alarm of each rule, as it was
  cleared,    \* snapshot: when each rule last cleared
  nextRule    \* the next rule to process

engineVars == <<stage, now, fired, active, cleared, nextRule>>
vars       == <<time, alarms, engineVars>>

Rules  == 1..NumRules
States == {"raised", "acked", "escalated", "cleared"}
Never  == MaxTime + 1  \* a cleared_at that is NULL
Alarm  == [rule : Rules, state : States, raisedAt : 0..MaxTime,
           clearedAt : 0..Never]
Snapped == [id : 0..MaxAlarms, state : States \cup {"none"}, raisedAt : 0..MaxTime]
Nobody == [id |-> 0, state |-> "none", raisedAt |-> 0]

TypeOK ==
  /\ time \in 0..MaxTime
  /\ alarms \in Seq(Alarm)
  /\ Len(alarms) <= MaxAlarms
  /\ stage \in {"sleeping", "active", "cleared", "rules"}
  /\ now \in 0..time
  /\ fired \in [Rules -> BOOLEAN]
  /\ active \in [Rules -> Snapped]
  /\ cleared \in [Rules -> 0..Never]
  /\ nextRule \in 1..NumRules + 1

Init ==
  /\ time = 1
  /\ alarms = << >>
  /\ stage = "sleeping"
  /\ now = 0
  /\ fired = [r \in Rules |-> FALSE]
  /\ active = [r \in Rules |-> Nobody]
  /\ cleared = [r \in Rules |-> Never]
  /\ nextRule = 1

-----------------------------------------------------------------------------
(* The clock *)

Tick ==
  /\ time < MaxTime
  /\ time' = time + 1
  /\ UNCHANGED <<alarms, engineVars>>

-----------------------------------------------------------------------------
(* The engine *)

\* Readings change from cycle to cycle as the plant does: any rules may fire.
CycleStart ==
  /\ stage = "sleeping"
  /\ time > now
  /\ now' = time
  /\ fired' \in [Rules -> BOOLEAN]
  /\ stage' = "active"
  /\ UNCHANGED <<time, alarms, active, cleared, nextRule>>

UnackedStates == {"raised", "acked"}  \* variant: escalated alarms are overlooked
ActiveStates  == {"raised", "acked", "escalated"}

AlarmsOf(r, states) ==
  {a \in 1..Len(alarms) : alarms[a].rule = r /\ alarms[a].state \in states}

\* DISTINCT ON (rule_id, plant_id) ... ORDER BY raised_at DESC
ActiveAlarm(r) ==
  IF AlarmsOf(r, ActiveStates) = {} THEN Nobody
  ELSE LET a == CHOOSE a \in AlarmsOf(r, ActiveStates) :
                  \A b \in AlarmsOf(r, ActiveStates) : b <= a
       IN  [id |-> a, state |-> alarms[a].state, raisedAt |-> alarms[a].raisedAt]

LoadActive ==
  /\ stage = "active"
  /\ active' = [r \in Rules |-> ActiveAlarm(r)]
  /\ stage' = "cleared"
  /\ UNCHANGED <<time, alarms, now, fired, cleared, nextRule>>

Clearances(r) == {alarms[a].clearedAt : a \in AlarmsOf(r, {"cleared"})}

FirstCleared(r) ==  \* variant: ORDER BY cleared_at ASC
  IF Clearances(r) = {} THEN Never
  ELSE CHOOSE t \in Clearances(r) : \A u \in Clearances(r) : t <= u
LastCleared(r) ==
  IF Clearances(r) = {} THEN Never
  ELSE CHOOSE t \in Clearances(r) : \A u \in Clearances(r) : u <= t

LoadCleared ==
  /\ stage = "cleared"
  /\ cleared' = [r \in Rules |-> LastCleared(r)]
  /\ nextRule' = 1
  /\ stage' = "rules"
  /\ UNCHANGED <<time, alarms, now, fired, active>>

InCooldown(r) == cleared[r] # Never /\ now - cleared[r] < Cooldown

DueForEscalation(r) ==
  active[r].state = "raised" /\ now - active[r].raisedAt > EscalateAfter

CooldownEnds == now + Cooldown  \* variant: the end of the cooldown is stored
ClearedAt    == now

\* _raise_alarm, _escalate_alarm and _clear_alarm: the updates go by alarm_id
\* alone, whatever the row's state has become since the snapshot.
Raise(r) ==
  /\ fired[r] /\ active[r] = Nobody /\ ~InCooldown(r)
  /\ Len(alarms) < MaxAlarms
  /\ alarms' = Append(alarms, [rule |-> r, state |-> "raised", raisedAt |-> now,
                               clearedAt |-> Never])

Escalate(r) ==
  /\ fired[r] /\ active[r] # Nobody /\ DueForEscalation(r)
  /\ alarms' = [alarms EXCEPT ![active[r].id].state = "escalated"]

Clear(r) ==
  /\ ~fired[r] /\ active[r] # Nobody
  /\ alarms' = [alarms EXCEPT ![active[r].id].state = "cleared",
                              ![active[r].id].clearedAt = ClearedAt]

LeaveAlone(r) ==
  /\ \/ fired[r] /\ active[r] = Nobody /\ InCooldown(r)
     \/ fired[r] /\ active[r] # Nobody /\ ~DueForEscalation(r)
     \/ ~fired[r] /\ active[r] = Nobody
  /\ UNCHANGED alarms

NextRule ==
  /\ nextRule' = nextRule + 1
  /\ stage' = IF nextRule = NumRules THEN "sleeping" ELSE "rules"
  /\ UNCHANGED <<time, now, fired, active, cleared>>

ProcessRule ==
  /\ stage = "rules"
  /\ Raise(nextRule) \/ Escalate(nextRule) \/ Clear(nextRule) \/ LeaveAlone(nextRule)
  /\ NextRule

\* Its transaction is rolled back; the loop goes on with the next rule.
RuleFails ==
  /\ stage = "rules"
  /\ UNCHANGED alarms
  /\ NextRule

\* The worker is killed, or the snapshot queries raise, and it starts anew.
EngineRestart ==
  /\ stage # "sleeping"
  /\ stage' = "sleeping"
  /\ UNCHANGED <<time, alarms, now, fired, active, cleared, nextRule>>

-----------------------------------------------------------------------------
(* The operators *)

\* POST .../alarms/{id}/ack looks at the row's existence, not at its state: an
\* alarm acknowledged after it cleared is active again.
Ack(a) ==
  /\ alarms' = [alarms EXCEPT ![a].state = "acked"]
  /\ UNCHANGED <<time, engineVars>>

-----------------------------------------------------------------------------
Next ==
  \/ Tick
  \/ CycleStart \/ LoadActive \/ LoadCleared \/ ProcessRule \/ RuleFails
  \/ EngineRestart
  \/ \E a \in 1..Len(alarms) : Ack(a)

Spec == Init /\ [][Next]_vars

-----------------------------------------------------------------------------
(* Properties *)

\* alarm_engine.py:16-19: at most one alarm of a rule is open at a time.  Of the
\* alarms that never cleared this holds whatever operators do; one that cleared
\* and was acknowledged afterwards is open again beside it.
OneOpenAlarm ==
  \A a, b \in 1..Len(alarms) :
    /\ alarms[a].rule = alarms[b].rule
    /\ alarms[a].state # "cleared" /\ alarms[b].state # "cleared"
    /\ alarms[a].clearedAt = Never /\ alarms[b].clearedAt = Never
    => a = b

\* Whatever is acknowledged when, nobody is ever asked twice: at most one alarm
\* of a rule is open and not acknowledged.
OneUnackedAlarm ==
  \A a, b \in 1..Len(alarms) :
    /\ alarms[a].rule = alarms[b].rule
    /\ {alarms[a].state, alarms[b].state} \subseteq {"raised", "escalated"}
    => a = b

\* alarm_engine.py:22-25: the same rule is not raised again before cooldown_s
\* has passed since its alarm cleared, unless that alarm was acknowledged after
\* it cleared.
CooldownRespected ==
  \A a, b \in 1..Len(alarms) :
    /\ alarms[a].rule = alarms[b].rule
    /\ a < b
    /\ alarms[a].state = "cleared"
    /\ alarms[a].clearedAt <= alarms[b].raisedAt
    => alarms[b].raisedAt - alarms[a].clearedAt >= Cooldown

\* alarm_engine.py:113-115: only an unacknowledged alarm is escalated.
AckedNeverEscalates ==
  [][\A a \in 1..Len(alarms) :
       alarms[a].state = "acked" => alarms'[a].state # "escalated"]_vars
=============================================================================
