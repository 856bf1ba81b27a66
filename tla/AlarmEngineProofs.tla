-------------------------- MODULE AlarmEngineProofs --------------------------
(***************************************************************************)
(* Theorems about AlarmEngine, for any number of rules, any cooldown and   *)
(* escalation delay, and whatever operators acknowledge.                   *)
(***************************************************************************)
EXTENDS AlarmEngine, TLAPS, WellFoundedInduction

\* A non-empty set of row numbers has a greatest one: DISTINCT ON finds a row.
LEMMA GreatestExists ==
  ASSUME NEW n \in Nat, NEW S \in SUBSET (1..n), S # {}
  PROVE  \E a \in S : \A b \in S : b <= a
<1> DEFINE Less == {p \in Nat \X Nat : p[1] < p[2]}
           T == {n - a : a \in S}
<1>1. IsWellFoundedOn(Less, Nat)
  BY NatLessThanWellFounded DEF OpToRel
<1>2. T \in SUBSET Nat /\ T # {}
  <2>1. \A a \in S : n - a \in Nat
    <3> TAKE a \in S
    <3>1. a \in 1..n
      OBVIOUS
    <3> QED BY <3>1
  <2> QED BY <2>1
<1>3. PICK m \in T : \A k \in T : ~(<<k, m>> \in Less)
  BY <1>1, <1>2, WFMin
<1>4. \A k \in T : m <= k
  <2> TAKE k \in T
  <2>1. k \in Nat /\ m \in Nat
    BY <1>2
  <2>2. ~(<<k, m>> \in Less)
    BY <1>3
  <2>3. <<k, m>> \in Nat \X Nat /\ <<k, m>>[1] = k /\ <<k, m>>[2] = m
    BY <2>1
  <2> HIDE DEF T
  <2>4. ~(k < m)
    BY <2>2, <2>3
  <2> QED BY <2>1, <2>4
<1>5. PICK a \in S : m = n - a
  OBVIOUS
<1>6. \A b \in S : n - a <= n - b
  BY <1>4, <1>5
<1> QED BY <1>6

\* The alarm a snapshot takes for a rule is an open alarm of that rule.
LEMMA ActiveAlarmIsOpen ==
  ASSUME TypeOK, NEW r \in Rules, AlarmsOf(r, ActiveStates) # {}
  PROVE  \E a \in AlarmsOf(r, ActiveStates) :
           ActiveAlarm(r) = [id |-> a, state |-> alarms[a].state,
                             raisedAt |-> alarms[a].raisedAt]
<1>1. Len(alarms) \in Nat /\ AlarmsOf(r, ActiveStates) \in SUBSET (1..Len(alarms))
  BY DEF TypeOK, AlarmsOf
<1>2. \E a \in AlarmsOf(r, ActiveStates) :
        \A b \in AlarmsOf(r, ActiveStates) : b <= a
  BY <1>1, GreatestExists
<1> QED BY <1>2 DEF ActiveAlarm

LEMMA ActiveAlarmTyped ==
  ASSUME TypeOK, NEW r \in Rules
  PROVE  ActiveAlarm(r) \in Snapped
<1>1. CASE AlarmsOf(r, ActiveStates) = {}
  BY <1>1, AlarmAssumption DEF ActiveAlarm, Nobody, Snapped
<1>2. CASE AlarmsOf(r, ActiveStates) # {}
  <2>1. PICK a \in AlarmsOf(r, ActiveStates) :
          ActiveAlarm(r) = [id |-> a, state |-> alarms[a].state,
                            raisedAt |-> alarms[a].raisedAt]
    BY <1>2, ActiveAlarmIsOpen
  <2>2. a \in 1..Len(alarms) /\ a \in 0..MaxAlarms
    BY AlarmAssumption DEF AlarmsOf, TypeOK
  <2>3. alarms[a] \in Alarm
    BY <2>2 DEF TypeOK
  <2> QED BY <2>1, <2>2, <2>3 DEF Alarm, Snapped
<1> QED BY <1>1, <1>2

LEMMA LastClearedTyped ==
  ASSUME TypeOK, NEW r \in Rules
  PROVE  LastCleared(r) \in 0..Never
<1>1. MaxTime \in Nat /\ Never \in Nat /\ Never \in 0..Never
  BY AlarmAssumption DEF Never
<1>2. CASE Clearances(r) = {}
  BY <1>1, <1>2 DEF LastCleared
<1>3. CASE Clearances(r) # {}
  <2>1. Clearances(r) \subseteq 0..Never
    <3> SUFFICES ASSUME NEW a \in AlarmsOf(r, {"cleared"})
                 PROVE  alarms[a].clearedAt \in 0..Never
      BY DEF Clearances
    <3>1. alarms[a] \in Alarm
      BY DEF AlarmsOf, TypeOK
    <3> QED BY <3>1 DEF Alarm
  <2> DEFINE S == {t + 1 : t \in Clearances(r)}
  <2>2. S \in SUBSET (1..Never + 1) /\ S # {}
    BY <1>1, <1>3, <2>1
  <2> HIDE DEF S
  <2>6. Never + 1 \in Nat
    BY <1>1
  <2>3. PICK s \in S : \A u \in S : u <= s
    BY <2>2, <2>6, GreatestExists
  <2> USE DEF S
  <2>4. PICK t \in Clearances(r) : s = t + 1
    OBVIOUS
  <2>5. \A u \in Clearances(r) : u <= t
    BY <2>1, <2>3, <2>4
  <2> QED BY <1>3, <2>1, <2>5 DEF LastCleared
<1> QED BY <1>2, <1>3

-----------------------------------------------------------------------------
(* Type correctness *)


LEMMA TypeInit == Init => TypeOK
<1> SUFFICES ASSUME Init PROVE TypeOK
  OBVIOUS
<1>1. alarms \in Seq(Alarm) /\ Len(alarms) <= MaxAlarms
  BY AlarmAssumption DEF Init
<1>2. active \in [Rules -> Snapped]
  BY AlarmAssumption DEF Init, Nobody, Snapped
<1>3. cleared \in [Rules -> 0..Never]
  BY AlarmAssumption DEF Init, Never
<1>4. time \in 0..MaxTime /\ now \in 0..time /\ nextRule \in 1..NumRules + 1
  BY AlarmAssumption DEF Init
<1>5. stage \in {"sleeping", "active", "cleared", "rules"}
  BY DEF Init
<1>6. fired \in [Rules -> BOOLEAN]
  BY DEF Init
<1> QED BY <1>1, <1>2, <1>3, <1>4, <1>5, <1>6 DEF TypeOK

\* A row of the table that is updated stays a row.
LEMMA UpdateTyped ==
  ASSUME alarms \in Seq(Alarm), NEW a \in 1..Len(alarms), NEW row \in Alarm,
         alarms' = [alarms EXCEPT ![a] = row]
  PROVE  /\ alarms' \in Seq(Alarm) /\ Len(alarms') = Len(alarms)
         /\ alarms'[a] = row
         /\ \A b \in 1..Len(alarms) : b # a => alarms'[b] = alarms[b]
<1>1. Len(alarms) \in Nat /\ alarms \in [1..Len(alarms) -> Alarm]
  OBVIOUS
<1>2. alarms' \in [1..Len(alarms) -> Alarm]
  BY <1>1
<1>3. alarms' \in Seq(Alarm) /\ Len(alarms') = Len(alarms)
  BY <1>1, <1>2
<1> QED BY <1>1, <1>3

LEMMA RowTyped ==
  ASSUME TypeOK, NEW a \in 1..Len(alarms), NEW s \in States, NEW t \in 0..Never
  PROVE  /\ [alarms[a] EXCEPT !.state = s] \in Alarm
         /\ [alarms[a] EXCEPT !.state = s, !.clearedAt = t] \in Alarm
<1>1. alarms[a] \in Alarm
  BY DEF TypeOK
<1> QED BY <1>1 DEF Alarm

\* The alarm the engine updates is a row of the table, and one rule is left to
\* process while it works through them.
SnapshotRows ==
  \A r \in Rules : active[r] # Nobody =>
    active[r].id \in 1..Len(alarms) /\ alarms[active[r].id].rule = r

RuleLeft == stage = "rules" => nextRule \in Rules

\* What a step may do to the table.
RowAdded ==
  \E row \in Alarm :
    /\ stage = "rules" /\ row.rule = nextRule /\ row.state = "raised"
    /\ active[nextRule] = Nobody
    /\ Len(alarms) < MaxAlarms
    /\ alarms' = Append(alarms, row)
RowUpdated(a, states) ==
  \E row \in Alarm :
    /\ row.state \in states /\ row.rule = alarms[a].rule
    /\ alarms' = [alarms EXCEPT ![a] = row]
RowEscalated ==
  /\ stage = "rules" /\ active[nextRule].state = "raised"
  /\ active[nextRule] # Nobody
  /\ RowUpdated(active[nextRule].id, {"escalated"})
RowCleared ==
  /\ stage = "rules" /\ active[nextRule] # Nobody
  /\ RowUpdated(active[nextRule].id, {"cleared"})
RowAcked == \E a \in 1..Len(alarms) : RowUpdated(a, {"acked"})

LEMMA TableChanges ==
  ASSUME TypeOK, SnapshotRows, RuleLeft, [Next]_vars
  PROVE  \/ UNCHANGED alarms
         \/ ProcessRule /\ (RowAdded \/ RowEscalated \/ RowCleared)
         \/ RowAcked /\ UNCHANGED engineVars
<1>a. now \in 0..MaxTime /\ Never \in 0..Never /\ now \in 0..Never
  BY AlarmAssumption DEF TypeOK, Never
<1>1. CASE ProcessRule
  <2> DEFINE r == nextRule
  <2>0. stage = "rules" /\ r \in Rules
    BY <1>1 DEF ProcessRule, RuleLeft
  <2>1. CASE Raise(r)
    <3> DEFINE row == [rule |-> r, state |-> "raised", raisedAt |-> now,
                       clearedAt |-> Never]
    <3>1. row \in Alarm
      BY <1>a, <2>0 DEF Alarm, States
    <3> QED BY <1>1, <2>0, <2>1, <3>1 DEF Raise, RowAdded
  <2>2. CASE Escalate(r)
    <3> DEFINE a == active[r].id
               row == [alarms[a] EXCEPT !.state = "escalated"]
    <3>1. a \in 1..Len(alarms) /\ alarms[a] \in Alarm
      BY <2>0, <2>2 DEF Escalate, SnapshotRows, TypeOK
    <3>2. row \in Alarm /\ row.state = "escalated" /\ row.rule = alarms[a].rule
      BY <3>1 DEF Alarm, States
    <3>3. alarms' = [alarms EXCEPT ![a] = row]
      BY <2>2 DEF Escalate
    <3> QED BY <1>1, <2>0, <2>2, <3>2, <3>3 DEF Escalate, DueForEscalation,
         RowEscalated, RowUpdated
  <2>3. CASE Clear(r)
    <3> DEFINE a == active[r].id
               row == [alarms[a] EXCEPT !.state = "cleared", !.clearedAt = now]
    <3>1. a \in 1..Len(alarms) /\ alarms[a] \in Alarm /\ alarms \in Seq(Alarm)
      BY <2>0, <2>3 DEF Clear, SnapshotRows, TypeOK
    <3>2. row \in Alarm /\ row.state = "cleared" /\ row.rule = alarms[a].rule
      BY <1>a, <3>1 DEF Alarm, States
    <3>3. alarms' = [alarms EXCEPT ![a] = row]
      BY <2>3, <3>1 DEF Clear, ClearedAt
    <3> QED BY <1>1, <2>0, <2>3, <3>2, <3>3 DEF Clear, RowCleared, RowUpdated
  <2>4. CASE LeaveAlone(r)
    BY <2>4 DEF LeaveAlone
  <2> QED BY <1>1, <2>1, <2>2, <2>3, <2>4 DEF ProcessRule
<1>2. ASSUME NEW a \in 1..Len(alarms), Ack(a)
      PROVE  RowAcked /\ UNCHANGED engineVars
  <2> DEFINE row == [alarms[a] EXCEPT !.state = "acked"]
  <2>1. alarms[a] \in Alarm
    BY DEF TypeOK
  <2>2. row \in Alarm /\ row.state = "acked" /\ row.rule = alarms[a].rule
    BY <2>1 DEF Alarm, States
  <2> QED BY <1>2, <2>2 DEF Ack, RowAcked, RowUpdated
<1>3. CASE \/ Tick
           \/ CycleStart \/ LoadActive \/ LoadCleared \/ RuleFails \/ EngineRestart
  BY <1>3 DEF Tick, CycleStart, LoadActive, LoadCleared, RuleFails,
       EngineRestart
<1>4. CASE UNCHANGED vars
  BY <1>4 DEF vars
<1> QED BY <1>1, <1>2, <1>3, <1>4 DEF Next

\* Rows are only ever added at the end, and keep their rule.
LEMMA TableTyped ==
  ASSUME TypeOK, SnapshotRows, RuleLeft, [Next]_vars
  PROVE  /\ alarms' \in Seq(Alarm)
         /\ Len(alarms') \in Len(alarms)..MaxAlarms
         /\ \A b \in 1..Len(alarms) : alarms'[b].rule = alarms[b].rule
<1>0. alarms \in Seq(Alarm) /\ Len(alarms) \in Nat /\ MaxAlarms \in Nat
      /\ Len(alarms) <= MaxAlarms
  BY AlarmAssumption DEF TypeOK
<1>1. CASE UNCHANGED alarms
  BY <1>0, <1>1
<1>2. CASE RowAdded
  <2>1. PICK row \in Alarm : alarms' = Append(alarms, row) /\ Len(alarms) < MaxAlarms
    BY <1>2 DEF RowAdded
  <2>2. alarms' \in Seq(Alarm) /\ Len(alarms') = Len(alarms) + 1
    BY <1>0, <2>1
  <2>3. \A b \in 1..Len(alarms) : alarms'[b] = alarms[b]
    BY <1>0, <2>1
  <2> QED BY <1>0, <2>1, <2>2, <2>3
<1>3. ASSUME NEW a \in 1..Len(alarms), NEW states, RowUpdated(a, states)
      PROVE  /\ alarms' \in Seq(Alarm)
             /\ Len(alarms') \in Len(alarms)..MaxAlarms
             /\ \A b \in 1..Len(alarms) : alarms'[b].rule = alarms[b].rule
  <2>1. PICK row \in Alarm : /\ row.rule = alarms[a].rule
                             /\ alarms' = [alarms EXCEPT ![a] = row]
    BY <1>3 DEF RowUpdated
  <2>2. /\ alarms' \in Seq(Alarm) /\ Len(alarms') = Len(alarms)
        /\ alarms'[a] = row
        /\ \A b \in 1..Len(alarms) : b # a => alarms'[b] = alarms[b]
    BY <1>0, <2>1, UpdateTyped
  <2> QED BY <1>0, <2>1, <2>2
<1>4. CASE RowEscalated \/ RowCleared
  BY <1>3, <1>4 DEF RowEscalated, RowCleared, SnapshotRows, RuleLeft
<1>5. CASE RowAcked
  BY <1>3, <1>5 DEF RowAcked
<1> QED BY <1>1, <1>2, <1>4, <1>5, TableChanges

Typed == TypeOK /\ SnapshotRows /\ RuleLeft

LEMMA TypedInit == Init => Typed
<1> SUFFICES ASSUME Init PROVE Typed
  OBVIOUS
<1>1. SnapshotRows /\ RuleLeft
  BY DEF Init, SnapshotRows, RuleLeft
<1> QED BY <1>1, TypeInit DEF Typed

LEMMA TypeNext == Typed /\ [Next]_vars => TypeOK'
<1> SUFFICES ASSUME Typed, [Next]_vars PROVE TypeOK'
  OBVIOUS
<1>0. TypeOK
  BY DEF Typed
<1>1. alarms' \in Seq(Alarm) /\ Len(alarms') <= MaxAlarms
  <2>1. Len(alarms) \in Nat /\ MaxAlarms \in Nat
    BY <1>0, AlarmAssumption DEF TypeOK
  <2> QED BY <2>1, TableTyped DEF Typed
<1>2. active' \in [Rules -> Snapped]
  <2>1. CASE LoadActive
    BY <1>0, <2>1, ActiveAlarmTyped DEF LoadActive
  <2>2. CASE UNCHANGED active
    BY <1>0, <2>2 DEF TypeOK
  <2> QED BY <2>1, <2>2 DEF Next, Tick, CycleStart, LoadCleared,
       ProcessRule, NextRule, RuleFails, EngineRestart, Ack, engineVars, vars
<1>3. cleared' \in [Rules -> 0..Never]
  <2>1. CASE LoadCleared
    BY <1>0, <2>1, LastClearedTyped DEF LoadCleared
  <2>2. CASE UNCHANGED cleared
    BY <1>0, <2>2 DEF TypeOK
  <2> QED BY <2>1, <2>2 DEF Next, Tick, CycleStart, LoadActive,
       ProcessRule, NextRule, RuleFails, EngineRestart, Ack, engineVars, vars
<1>4. fired' \in [Rules -> BOOLEAN]
  BY <1>0 DEF TypeOK, Next, Tick, CycleStart, LoadActive, LoadCleared,
     ProcessRule, NextRule, RuleFails, EngineRestart, Ack, engineVars, vars
<1>5. time' \in 0..MaxTime /\ now' \in 0..time'
  BY <1>0, AlarmAssumption DEF TypeOK, Next, Tick, CycleStart,
     LoadActive, LoadCleared, ProcessRule, NextRule, RuleFails, EngineRestart, Ack,
     engineVars, vars
<1>6. stage' \in {"sleeping", "active", "cleared", "rules"}
  BY <1>0 DEF TypeOK, Next, Tick, CycleStart, LoadActive,
     LoadCleared, ProcessRule, NextRule, RuleFails, EngineRestart, Ack, engineVars, vars
<1>7. nextRule' \in 1..NumRules + 1
  BY <1>0, AlarmAssumption DEF TypeOK, Typed, RuleLeft, Rules, Next, Tick,
     CycleStart, LoadActive, LoadCleared, ProcessRule, NextRule,
     RuleFails, EngineRestart, Ack, engineVars, vars
<1> QED BY <1>1, <1>2, <1>3, <1>4, <1>5, <1>6, <1>7 DEF TypeOK

LEMMA RowsNext == Typed /\ [Next]_vars => SnapshotRows' /\ RuleLeft'
<1> SUFFICES ASSUME Typed, [Next]_vars PROVE SnapshotRows' /\ RuleLeft'
  OBVIOUS
<1>0. TypeOK /\ SnapshotRows /\ RuleLeft /\ Len(alarms) \in Nat
  BY DEF Typed, TypeOK
<1>1. RuleLeft'
  BY <1>0, AlarmAssumption DEF RuleLeft, Rules, TypeOK, Next, Tick,
     CycleStart, LoadActive, LoadCleared, ProcessRule, NextRule,
     RuleFails, EngineRestart, Ack, engineVars, vars
<1>2. CASE UNCHANGED active
  <2>1. Len(alarms') \in Nat /\ Len(alarms) <= Len(alarms')
        /\ \A b \in 1..Len(alarms) : alarms'[b].rule = alarms[b].rule
    BY <1>0, TableTyped, AlarmAssumption
  <2> QED BY <1>0, <1>1, <1>2, <2>1 DEF SnapshotRows
<1>3. CASE LoadActive
  <2> SUFFICES ASSUME NEW r \in Rules, ActiveAlarm(r) # Nobody
               PROVE  /\ ActiveAlarm(r).id \in 1..Len(alarms)
                      /\ alarms[ActiveAlarm(r).id].rule = r
    BY <1>1, <1>3 DEF LoadActive, SnapshotRows
  <2>1. PICK a \in AlarmsOf(r, ActiveStates) : ActiveAlarm(r).id = a
    BY <1>0, ActiveAlarmIsOpen DEF ActiveAlarm
  <2> QED BY <2>1 DEF AlarmsOf
<1> QED BY <1>2, <1>3 DEF Next, Tick, CycleStart, LoadCleared,
     ProcessRule, NextRule, RuleFails, EngineRestart, Ack, engineVars, vars

LEMMA TypedNext == Typed /\ [Next]_vars => Typed'
BY TypeNext, RowsNext DEF Typed

\* Every variable of the alarm engine keeps its type.
THEOREM AlarmTypeCorrect == Spec => []TypeOK
<1>1. Typed => TypeOK
  BY DEF Typed
<1> QED BY <1>1, TypedInit, TypedNext, PTL DEF Spec

-----------------------------------------------------------------------------
(* At most one unacknowledged alarm *)

Unacked(a) == alarms[a].state \in {"raised", "escalated"}

\* What is left of the snapshot is still right about unacknowledged alarms:
\* operators only acknowledge, and the engine has not come to these rules yet.
SnapshotKnows ==
  \A r \in Rules :
    stage = "cleared" \/ (stage = "rules" /\ nextRule <= r) =>
      \A a \in 1..Len(alarms) :
        alarms[a].rule = r /\ Unacked(a) =>
          active[r] # Nobody /\ (active[r].state = "raised" => active[r].id = a)

AlarmInv == Typed /\ OneUnackedAlarm /\ SnapshotKnows

LEMMA UnackedBoth ==
  OneUnackedAlarm <=>
    \A a, b \in 1..Len(alarms) :
      alarms[a].rule = alarms[b].rule /\ Unacked(a) /\ Unacked(b) => a = b
BY DEF OneUnackedAlarm, Unacked

\* Every unacknowledged row after a step was one before, but for the row that
\* the rule being processed has added or escalated.
LEMMA UnackedRows ==
  ASSUME Typed, [Next]_vars, NEW b \in 1..Len(alarms'), Unacked(b)'
  PROVE  \/ b \in 1..Len(alarms) /\ Unacked(b) /\ alarms'[b].rule = alarms[b].rule
         \/ /\ ProcessRule /\ RowAdded
            /\ b = Len(alarms) + 1 /\ alarms'[b].rule = nextRule
         \/ /\ ProcessRule /\ RowEscalated
            /\ b = active[nextRule].id /\ alarms'[b].rule = nextRule
<1>0. /\ TypeOK /\ SnapshotRows /\ RuleLeft
      /\ alarms \in Seq(Alarm) /\ Len(alarms) \in Nat
  BY DEF Typed, TypeOK
<1>1. CASE UNCHANGED alarms
  BY <1>1 DEF Unacked
<1>2. CASE ProcessRule /\ RowAdded
  <2>1. PICK row \in Alarm : row.rule = nextRule /\ alarms' = Append(alarms, row)
    BY <1>2 DEF RowAdded
  <2>2. b \in 1..Len(alarms) => alarms'[b] = alarms[b]
    BY <1>0, <2>1
  <2>3. b \notin 1..Len(alarms) => b = Len(alarms) + 1 /\ alarms'[b] = row
    BY <1>0, <2>1
  <2> QED BY <1>2, <2>1, <2>2, <2>3 DEF Unacked
<1>3. ASSUME NEW a \in 1..Len(alarms), NEW states, RowUpdated(a, states)
      PROVE  /\ b \in 1..Len(alarms)
             /\ alarms'[b].rule = alarms[b].rule
             /\ b # a => Unacked(b)
             /\ b = a => states \cap {"raised", "escalated"} # {}
  <2>1. PICK row \in Alarm : /\ row.rule = alarms[a].rule /\ row.state \in states
                             /\ alarms' = [alarms EXCEPT ![a] = row]
    BY <1>3 DEF RowUpdated
  <2>2. /\ Len(alarms') = Len(alarms)
        /\ alarms'[a] = row
        /\ \A c \in 1..Len(alarms) : c # a => alarms'[c] = alarms[c]
    BY <1>0, <2>1, UpdateTyped
  <2>3. b = a => row.state \in {"raised", "escalated"}
    BY <2>2 DEF Unacked
  <2> QED BY <2>1, <2>2, <2>3 DEF Unacked
<1>4. CASE ProcessRule /\ RowEscalated
  <2> DEFINE a == active[nextRule].id
  <2>1. a \in 1..Len(alarms) /\ alarms[a].rule = nextRule /\ RowUpdated(a, {"escalated"})
    BY <1>0, <1>4 DEF RowEscalated, SnapshotRows, RuleLeft
  <2> QED BY <1>3, <1>4, <2>1
<1>5. CASE RowCleared
  <2> DEFINE a == active[nextRule].id
  <2>1. a \in 1..Len(alarms) /\ RowUpdated(a, {"cleared"})
    BY <1>0, <1>5 DEF RowCleared, SnapshotRows, RuleLeft
  <2> QED BY <1>3, <2>1
<1>6. CASE RowAcked
  BY <1>3, <1>6 DEF RowAcked
<1> QED BY <1>0, <1>1, <1>2, <1>4, <1>5, <1>6, TableChanges

LEMMA OneUnackedNext == AlarmInv /\ [Next]_vars => OneUnackedAlarm'
<1> SUFFICES ASSUME AlarmInv, [Next]_vars,
                    NEW a \in 1..Len(alarms'), NEW b \in 1..Len(alarms'),
                    alarms'[a].rule = alarms'[b].rule, Unacked(a)', Unacked(b)'
             PROVE  a = b
  BY DEF OneUnackedAlarm, Unacked
<1>0. Typed /\ SnapshotKnows /\ RuleLeft /\ OneUnackedAlarm /\ Len(alarms) \in Nat
  BY DEF AlarmInv, Typed, TypeOK
<1> DEFINE Old(c) == c \in 1..Len(alarms) /\ Unacked(c) /\ alarms'[c].rule = alarms[c].rule
<1>1. CASE Old(a) /\ Old(b)
  BY <1>0, <1>1, UnackedBoth
<1>2. ASSUME NEW c \in 1..Len(alarms), Old(c), ProcessRule, RowAdded,
             alarms'[c].rule = nextRule
      PROVE  FALSE
  <2>1. stage = "rules" /\ nextRule \in Rules /\ nextRule <= nextRule
        /\ active[nextRule] = Nobody
    BY <1>0, <1>2 DEF RowAdded, RuleLeft, Rules
  <2> QED BY <1>0, <1>2, <2>1 DEF SnapshotKnows
<1>3. ASSUME NEW c \in 1..Len(alarms), Old(c), ProcessRule, RowEscalated,
             alarms'[c].rule = nextRule
      PROVE  c = active[nextRule].id
  <2>1. stage = "rules" /\ nextRule \in Rules /\ nextRule <= nextRule
        /\ active[nextRule].state = "raised"
    BY <1>0, <1>3 DEF RowEscalated, RuleLeft, Rules
  <2> QED BY <1>0, <1>3, <2>1 DEF SnapshotKnows
<1>4. \/ Old(a)
      \/ ProcessRule /\ RowAdded /\ a = Len(alarms) + 1 /\ alarms'[a].rule = nextRule
      \/ /\ ProcessRule /\ RowEscalated /\ a = active[nextRule].id
         /\ alarms'[a].rule = nextRule
  BY <1>0, UnackedRows
<1>5. \/ Old(b)
      \/ ProcessRule /\ RowAdded /\ b = Len(alarms) + 1 /\ alarms'[b].rule = nextRule
      \/ /\ ProcessRule /\ RowEscalated /\ b = active[nextRule].id
         /\ alarms'[b].rule = nextRule
  BY <1>0, UnackedRows
<1>6. CASE RowAdded /\ RowEscalated
  BY <1>6 DEF RowAdded, RowEscalated, Nobody
<1> QED BY <1>1, <1>2, <1>3, <1>4, <1>5, <1>6

LEMMA KnowsNext == AlarmInv /\ [Next]_vars => SnapshotKnows'
<1> SUFFICES ASSUME AlarmInv, [Next]_vars, NEW r \in Rules,
                    stage' = "cleared" \/ (stage' = "rules" /\ nextRule' <= r),
                    NEW a \in 1..Len(alarms'), alarms'[a].rule = r, Unacked(a)'
             PROVE  /\ active'[r] # Nobody
                    /\ active'[r].state = "raised" => active'[r].id = a
  BY DEF SnapshotKnows
<1>0. /\ Typed /\ TypeOK /\ SnapshotKnows /\ OneUnackedAlarm
      /\ Len(alarms) \in Nat /\ nextRule \in Nat /\ r \in Nat
  BY DEF AlarmInv, Typed, TypeOK, Rules
<1> DEFINE Old == a \in 1..Len(alarms) /\ Unacked(a) /\ alarms[a].rule = r
<1>1. CASE LoadActive
  <2>1. Old
    BY <1>1 DEF LoadActive, Unacked
  <2>2. a \in AlarmsOf(r, ActiveStates)
    BY <2>1 DEF AlarmsOf, ActiveStates, Unacked
  <2>3. PICK k \in AlarmsOf(r, ActiveStates) :
          ActiveAlarm(r) = [id |-> k, state |-> alarms[k].state,
                            raisedAt |-> alarms[k].raisedAt]
    BY <1>0, <2>2, ActiveAlarmIsOpen
  <2>4. k \in 1..Len(alarms) /\ alarms[k].rule = r
    BY DEF AlarmsOf
  <2>5. ActiveAlarm(r).id # 0
    BY <2>3, <2>4
  <2>6. ActiveAlarm(r).state = "raised" => Unacked(k)
    BY <2>3 DEF Unacked
  <2>7. ActiveAlarm(r).state = "raised" => k = a
    BY <1>0, <2>1, <2>4, <2>6, UnackedBoth
  <2>8. ActiveAlarm(r) # Nobody
    BY <2>5 DEF Nobody
  <2> QED BY <1>1, <2>3, <2>7, <2>8 DEF LoadActive
<1>2. CASE LoadCleared
  BY <1>0, <1>2 DEF LoadCleared, SnapshotKnows, Unacked
<1>3. CASE ProcessRule \/ RuleFails
  <2>1. /\ stage = "rules" /\ nextRule' = nextRule + 1 /\ stage' # "cleared"
        /\ UNCHANGED active
    BY <1>3 DEF ProcessRule, RuleFails, NextRule
  <2>2. nextRule <= r /\ nextRule # r
    BY <1>0, <2>1
  <2>3. Old
    BY <1>0, <2>2, UnackedRows
  <2> QED BY <1>0, <2>1, <2>2, <2>3 DEF SnapshotKnows
<1>4. CASE UNCHANGED engineVars
  <2>1. ~ProcessRule
    BY <1>0, <1>4 DEF ProcessRule, NextRule, engineVars
  <2>2. Old
    BY <1>0, <2>1, UnackedRows
  <2> QED BY <1>0, <1>4, <2>2 DEF SnapshotKnows, engineVars
<1>5. CASE CycleStart \/ EngineRestart
  BY <1>5 DEF CycleStart, EngineRestart
<1> QED BY <1>1, <1>2, <1>3, <1>4, <1>5 DEF Next, Tick, Ack, vars

\* Whatever is acknowledged when, and wherever the engine is stopped or a rule
\* fails, a rule has at most one alarm that still asks for an operator
\* (alarm_engine.py:410-452 against api/routers/plant.py:200-234).
THEOREM OneUnacked == Spec => []OneUnackedAlarm
<1>1. Init => AlarmInv
  <2> SUFFICES ASSUME Init PROVE AlarmInv
    OBVIOUS
  <2>1. Len(alarms) = 0
    BY DEF Init
  <2>2. OneUnackedAlarm /\ SnapshotKnows
    BY <2>1 DEF OneUnackedAlarm, SnapshotKnows
  <2> QED BY <2>2, TypedInit DEF AlarmInv
<1>2. AlarmInv /\ [Next]_vars => AlarmInv'
  BY TypedNext, OneUnackedNext, KnowsNext DEF AlarmInv
<1>3. AlarmInv => OneUnackedAlarm
  BY DEF AlarmInv
<1> QED BY <1>1, <1>2, <1>3, PTL DEF Spec

-----------------------------------------------------------------------------
(* At most one alarm that never cleared, and the cooldown *)

\* The engine has still to come to rule r in this cycle.
Pending(r) == stage \in {"active", "cleared"} \/ (stage = "rules" /\ nextRule <= r)

\* A row that is cleared says when, and that was no later than this cycle.
ClearedAreDated ==
  \A a \in 1..Len(alarms) : alarms[a].state = "cleared" => alarms[a].clearedAt <= now

\* What is left of the snapshot knows every alarm that never cleared.
SnapshotKnowsOpen ==
  \A r \in Rules : stage # "active" /\ Pending(r) =>
    \A a \in 1..Len(alarms) :
      alarms[a].rule = r /\ alarms[a].clearedAt = Never => active[r] # Nobody

\* Rows were raised by this cycle or before it, and by it only if their rule has
\* been processed.
RaisedBefore ==
  \A a \in 1..Len(alarms) :
    /\ alarms[a].raisedAt <= now
    /\ \A r \in Rules : alarms[a].rule = r /\ Pending(r) => alarms[a].raisedAt < now

\* What is left of the snapshot knows the last clearance.
SnapshotKnowsCleared ==
  \A r \in Rules : stage = "rules" /\ nextRule <= r =>
    \A a \in 1..Len(alarms) :
      alarms[a].rule = r /\ alarms[a].state = "cleared" =>
        cleared[r] # Never /\ alarms[a].clearedAt <= cleared[r]

\* At most one row of a rule has never been cleared.
OneNeverCleared ==
  \A a, b \in 1..Len(alarms) :
    /\ alarms[a].rule = alarms[b].rule
    /\ alarms[a].clearedAt = Never /\ alarms[b].clearedAt = Never
    => a = b

HistoryInv ==
  /\ Typed /\ ClearedAreDated /\ SnapshotKnowsOpen /\ RaisedBefore
  /\ SnapshotKnowsCleared /\ OneNeverCleared /\ CooldownRespected


\* A row after a step is a row before it, with what it said of the past, or the
\* row that has been raised, or the one that has been cleared.
Kept(b) ==
  /\ b \in 1..Len(alarms)
  /\ alarms'[b].rule = alarms[b].rule
  /\ alarms'[b].raisedAt = alarms[b].raisedAt
  /\ alarms'[b].clearedAt = alarms[b].clearedAt
  /\ alarms'[b].state = "cleared" => alarms[b].state = "cleared"
JustRaised(b) ==
  /\ ProcessRule /\ Raise(nextRule)
  /\ Len(alarms') = Len(alarms) + 1 /\ b = Len(alarms')
  /\ alarms'[b] = [rule |-> nextRule, state |-> "raised", raisedAt |-> now,
                   clearedAt |-> Never]
JustCleared(b) ==
  /\ ProcessRule /\ Clear(nextRule)
  /\ b \in 1..Len(alarms) /\ alarms[b].rule = nextRule
  /\ alarms'[b].rule = nextRule
  /\ alarms'[b].raisedAt = alarms[b].raisedAt
  /\ alarms'[b].state = "cleared" /\ alarms'[b].clearedAt = now

LEMMA RowsBefore ==
  ASSUME Typed, [Next]_vars, NEW b \in 1..Len(alarms')
  PROVE  Kept(b) \/ JustRaised(b) \/ JustCleared(b)
<1>0. /\ TypeOK /\ SnapshotRows /\ RuleLeft
      /\ alarms \in Seq(Alarm) /\ Len(alarms) \in Nat
  BY DEF Typed, TypeOK
<1>1. CASE UNCHANGED alarms
  BY <1>1 DEF Kept
<1>2. ASSUME NEW a \in 1..Len(alarms), NEW row \in Alarm,
             alarms' = [alarms EXCEPT ![a] = row]
      PROVE  /\ b \in 1..Len(alarms)
             /\ b = a => alarms'[b] = row
             /\ b # a => Kept(b)
  BY <1>0, <1>2, UpdateTyped DEF Kept
<1>3. CASE ProcessRule
  <2> DEFINE r == nextRule
             a == active[r].id
  <2>0. stage = "rules" /\ r \in Rules
    BY <1>0, <1>3 DEF ProcessRule, RuleLeft
  <2>1. CASE Raise(r)
    <3> DEFINE row == [rule |-> r, state |-> "raised", raisedAt |-> now,
                       clearedAt |-> Never]
    <3>1. alarms' = Append(alarms, row)
      BY <2>1 DEF Raise
    <3> HIDE DEF row
    <3>2. Len(alarms') = Len(alarms) + 1
      BY <1>0, <3>1
    <3>3. b \in 1..Len(alarms) => alarms'[b] = alarms[b]
      BY <1>0, <3>1
    <3>4. b \notin 1..Len(alarms) => b = Len(alarms') /\ alarms'[b] = row
      BY <1>0, <3>1, <3>2
    <3> QED BY <1>3, <2>1, <3>2, <3>3, <3>4 DEF row, Kept, JustRaised
  <2>2. CASE Escalate(r)
    <3> DEFINE row == [alarms[a] EXCEPT !.state = "escalated"]
    <3>1. a \in 1..Len(alarms) /\ alarms[a] \in Alarm
      BY <1>0, <2>0, <2>2 DEF Escalate, SnapshotRows, TypeOK
    <3>2. /\ row \in Alarm /\ row.state = "escalated" /\ row.rule = alarms[a].rule
          /\ row.raisedAt = alarms[a].raisedAt /\ row.clearedAt = alarms[a].clearedAt
      BY <3>1 DEF Alarm, States
    <3>3. alarms' = [alarms EXCEPT ![a] = row]
      BY <2>2 DEF Escalate
    <3> HIDE DEF row
    <3> QED BY <1>2, <3>1, <3>2, <3>3 DEF Kept
  <2>3. CASE Clear(r)
    <3> DEFINE row == [alarms[a] EXCEPT !.state = "cleared", !.clearedAt = now]
    <3>1. /\ a \in 1..Len(alarms) /\ alarms[a] \in Alarm /\ alarms \in Seq(Alarm)
          /\ alarms[a].rule = r
      BY <1>0, <2>0, <2>3 DEF Clear, SnapshotRows, TypeOK
    <3>a. now \in 0..Never
      BY <1>0, AlarmAssumption DEF TypeOK, Never
    <3>2. /\ row \in Alarm /\ row.state = "cleared" /\ row.rule = alarms[a].rule
          /\ row.raisedAt = alarms[a].raisedAt /\ row.clearedAt = now
      BY <3>1, <3>a DEF Alarm, States
    <3>3. alarms' = [alarms EXCEPT ![a] = row]
      BY <2>3, <3>1 DEF Clear, ClearedAt
    <3> HIDE DEF row
    <3> QED BY <1>2, <1>3, <2>3, <3>1, <3>2, <3>3 DEF JustCleared
  <2>4. CASE LeaveAlone(r)
    BY <1>1, <2>4 DEF LeaveAlone
  <2> QED BY <1>3, <2>1, <2>2, <2>3, <2>4 DEF ProcessRule
<1>4. ASSUME NEW a \in 1..Len(alarms), Ack(a)
      PROVE  Kept(b)
  <2> DEFINE row == [alarms[a] EXCEPT !.state = "acked"]
  <2>1. alarms[a] \in Alarm
    BY <1>0
  <2>2. /\ row \in Alarm /\ row.state = "acked" /\ row.rule = alarms[a].rule
        /\ row.raisedAt = alarms[a].raisedAt /\ row.clearedAt = alarms[a].clearedAt
    BY <2>1 DEF Alarm, States
  <2>3. alarms' = [alarms EXCEPT ![a] = row]
    BY <1>4 DEF Ack
  <2> HIDE DEF row
  <2> QED BY <1>2, <2>2, <2>3 DEF Kept
<1>5. CASE \/ Tick
           \/ CycleStart \/ LoadActive \/ LoadCleared \/ RuleFails \/ EngineRestart
           \/ UNCHANGED vars
  BY <1>1, <1>5 DEF Tick, CycleStart, LoadActive, LoadCleared, RuleFails,
       EngineRestart, vars
<1> QED BY <1>3, <1>4, <1>5 DEF Next

\* How a cycle goes on.
LEMMA CycleSteps ==
  ASSUME Typed, [Next]_vars
  PROVE  \/ now' = now /\ \A r \in Rules : Pending(r)' => Pending(r) /\ (ProcessRule => r # nextRule)
         \/ now < now' /\ now' = time /\ stage' = "active" /\ UNCHANGED alarms
<1>0. nextRule \in Nat /\ now \in Nat /\ time \in Nat /\ \A r \in Rules : r \in Nat
  BY AlarmAssumption DEF Typed, TypeOK, Rules
<1>1. CASE ProcessRule \/ RuleFails
  <2>1. now' = now /\ stage = "rules" /\ nextRule' = nextRule + 1
        /\ stage' \in {"sleeping", "rules"}
    BY <1>1 DEF ProcessRule, RuleFails, NextRule
  <2>2. ASSUME NEW r \in Rules, Pending(r)' PROVE nextRule <= r /\ r # nextRule
    <3>1. nextRule + 1 <= r
      BY <2>1, <2>2 DEF Pending
    <3> QED BY <1>0, <3>1
  <2> QED BY <2>1, <2>2 DEF Pending
<1>2. CASE LoadActive \/ LoadCleared
  BY <1>2 DEF LoadActive, LoadCleared, Pending, ProcessRule
<1>3. CASE CycleStart
  BY <1>0, <1>3 DEF CycleStart
<1>4. CASE EngineRestart
  BY <1>4 DEF EngineRestart, Pending
<1>5. CASE UNCHANGED engineVars
  <2>1. ~ProcessRule
    BY <1>0, <1>5 DEF ProcessRule, NextRule, engineVars
  <2> QED BY <1>5, <2>1 DEF Pending, engineVars
<1> QED BY <1>1, <1>2, <1>3, <1>4, <1>5 DEF Next, Tick, Ack, vars

LEMMA DatedNext == HistoryInv /\ [Next]_vars => ClearedAreDated'
<1> SUFFICES ASSUME HistoryInv, [Next]_vars, NEW a \in 1..Len(alarms'),
                    alarms'[a].state = "cleared"
             PROVE  alarms'[a].clearedAt <= now'
  BY DEF ClearedAreDated
<1>0. now \in Nat /\ now' \in Nat /\ now <= now'
  <2>1. now \in Nat
    BY AlarmAssumption DEF HistoryInv, Typed, TypeOK
  <2>2. now' \in Nat
    BY TypeNext, AlarmAssumption DEF HistoryInv, Typed, TypeOK
  <2> QED BY <2>1, <2>2, CycleSteps DEF HistoryInv
<1>1. CASE Kept(a)
  <2>1. alarms[a] \in Alarm
    BY <1>1 DEF Kept, HistoryInv, Typed, TypeOK
  <2>2. alarms[a].clearedAt \in Nat /\ alarms[a].clearedAt <= now
    BY <1>1, <2>1, AlarmAssumption DEF Kept, HistoryInv, ClearedAreDated, Alarm, Never
  <2> QED BY <1>0, <1>1, <2>2 DEF Kept
<1>2. CASE JustRaised(a)
  BY <1>2 DEF JustRaised
<1>3. CASE JustCleared(a)
  BY <1>0, <1>3 DEF JustCleared
<1> QED BY <1>1, <1>2, <1>3, RowsBefore DEF HistoryInv

LEMMA KnowsOpenNext == HistoryInv /\ [Next]_vars => SnapshotKnowsOpen'
<1> SUFFICES ASSUME HistoryInv, [Next]_vars, NEW r \in Rules, stage' # "active", Pending(r)',
                    NEW a \in 1..Len(alarms'), alarms'[a].rule = r, alarms'[a].clearedAt = Never
             PROVE  active'[r] # Nobody
  BY DEF SnapshotKnowsOpen
<1>0. Typed /\ TypeOK /\ SnapshotKnowsOpen /\ now # Never
  BY AlarmAssumption DEF HistoryInv, Typed, TypeOK, Never
<1>1. Pending(r) /\ (ProcessRule => r # nextRule)
  BY <1>0, CycleSteps
<1>2. Kept(a)
  <2>1. ~JustRaised(a)
    BY <1>1 DEF JustRaised
  <2>2. ~JustCleared(a)
    BY <1>1 DEF JustCleared
  <2> QED BY <1>0, <2>1, <2>2, RowsBefore
<1>3. CASE LoadActive
  <2>1. alarms[a].state # "cleared"
    <3>1. alarms[a] \in Alarm /\ now \in Nat /\ now < Never
      BY <1>0, <1>2, AlarmAssumption DEF Kept, TypeOK, Never
    <3>2. ~(alarms[a].clearedAt <= now)
      BY <1>2, <3>1, AlarmAssumption DEF Kept, Never
    <3> QED BY <1>2, <3>2 DEF HistoryInv, ClearedAreDated, Kept
  <2>2. a \in AlarmsOf(r, ActiveStates)
    <3>1. alarms[a] \in Alarm
      BY <1>0, <1>2 DEF Kept, TypeOK
    <3> QED BY <1>2, <2>1, <3>1 DEF Kept, Alarm, States, AlarmsOf, ActiveStates
  <2>3. PICK k \in AlarmsOf(r, ActiveStates) : ActiveAlarm(r).id = k
    BY <1>0, <2>2, ActiveAlarmIsOpen
  <2>4. ActiveAlarm(r).id # 0
    BY <2>3 DEF AlarmsOf
  <2>5. ActiveAlarm(r) # Nobody
    BY <2>4 DEF Nobody
  <2> QED BY <1>3, <2>5 DEF LoadActive
<1>4. CASE UNCHANGED active /\ stage # "active"
  BY <1>0, <1>1, <1>2, <1>4 DEF SnapshotKnowsOpen, Kept
<1>5. stage = "active" => LoadActive
  BY <1>1 DEF Next, Tick, CycleStart, LoadCleared, ProcessRule, RuleFails, EngineRestart,
              Ack, engineVars, vars, Pending
<1> QED BY <1>1, <1>3, <1>4, <1>5 DEF Next, Tick, CycleStart, LoadCleared, ProcessRule, NextRule, RuleFails,
          EngineRestart, Ack, engineVars, vars

LEMMA RaisedBeforeNext == HistoryInv /\ [Next]_vars => RaisedBefore'
<1> SUFFICES ASSUME HistoryInv, [Next]_vars, NEW a \in 1..Len(alarms')
             PROVE  /\ alarms'[a].raisedAt <= now'
                    /\ \A r \in Rules : alarms'[a].rule = r /\ Pending(r)' =>
                         alarms'[a].raisedAt < now'
  BY DEF RaisedBefore
<1>0. Typed /\ TypeOK /\ RaisedBefore /\ now \in Nat /\ now' \in Nat /\ time \in Nat
  <2>1. now \in Nat /\ time \in Nat
    BY AlarmAssumption DEF HistoryInv, Typed, TypeOK
  <2>2. now' \in Nat
    BY TypeNext, AlarmAssumption DEF HistoryInv, Typed, TypeOK
  <2> QED BY <2>1, <2>2 DEF HistoryInv, Typed
<1>1. CASE JustRaised(a)
  <2>1. now' = now /\ ProcessRule /\ alarms'[a].rule = nextRule /\ alarms'[a].raisedAt = now
    BY <1>0, <1>1 DEF JustRaised, ProcessRule, NextRule
  <2> QED BY <1>0, <2>1, CycleSteps
<1>2. ASSUME a \in 1..Len(alarms), alarms'[a].rule = alarms[a].rule,
             alarms'[a].raisedAt = alarms[a].raisedAt
      PROVE  /\ alarms'[a].raisedAt <= now'
             /\ \A r \in Rules : alarms'[a].rule = r /\ Pending(r)' =>
                  alarms'[a].raisedAt < now'
  <2>1. alarms[a].raisedAt \in Nat
    <3>1. alarms[a] \in Alarm
      BY <1>0, <1>2 DEF TypeOK
    <3> QED BY <3>1, AlarmAssumption DEF Alarm
  <2>2. /\ alarms[a].raisedAt <= now
        /\ \A r \in Rules : alarms[a].rule = r /\ Pending(r) => alarms[a].raisedAt < now
    BY <1>0, <1>2 DEF RaisedBefore
  <2>4. CASE now' = now /\ \A r \in Rules : Pending(r)' => Pending(r)
    BY <1>2, <2>1, <2>2, <2>4
  <2>5. CASE now < now'
    BY <1>0, <1>2, <2>1, <2>2, <2>5
  <2> QED BY <1>0, <2>4, <2>5, CycleSteps
<1>3. CASE Kept(a) \/ JustCleared(a)
  BY <1>2, <1>3 DEF Kept, JustCleared
<1> QED BY <1>0, <1>1, <1>3, RowsBefore

\* MAX(cleared_at) is the last clearance of all.
LEMMA LastClearedIsLast ==
  ASSUME Typed, ClearedAreDated, NEW r \in Rules, NEW a \in AlarmsOf(r, {"cleared"})
  PROVE  LastCleared(r) # Never /\ alarms[a].clearedAt <= LastCleared(r)
<1>0. TypeOK /\ now \in Nat /\ now < Never /\ Never \in Nat
  BY AlarmAssumption DEF Typed, TypeOK, Never
<1>1. \A t \in Clearances(r) : t \in Nat /\ t <= now
  <2> SUFFICES ASSUME NEW b \in AlarmsOf(r, {"cleared"})
               PROVE  alarms[b].clearedAt \in Nat /\ alarms[b].clearedAt <= now
    BY DEF Clearances
  <2>1. b \in 1..Len(alarms) /\ alarms[b].state = "cleared"
    BY DEF AlarmsOf
  <2>2. alarms[b] \in Alarm
    BY <1>0, <2>1 DEF TypeOK
  <2> QED BY <1>0, <2>1, <2>2 DEF Alarm, ClearedAreDated
<1> DEFINE S == {t + 1 : t \in Clearances(r)}
<1>2. S \in SUBSET (1..Never) /\ S # {}
  BY <1>0, <1>1 DEF Clearances
<1> HIDE DEF S
<1>3. PICK s \in S : \A u \in S : u <= s
  BY <1>0, <1>2, GreatestExists
<1> USE DEF S
<1>4. PICK t \in Clearances(r) : s = t + 1
  OBVIOUS
<1>5. \A u \in Clearances(r) : u <= t
  BY <1>1, <1>3, <1>4
<1>6. LastCleared(r) \in Clearances(r) /\ \A u \in Clearances(r) : u <= LastCleared(r)
  BY <1>5 DEF LastCleared
<1>7. alarms[a].clearedAt \in Clearances(r)
  BY DEF Clearances
<1> QED BY <1>0, <1>1, <1>6, <1>7

LEMMA KnowsClearedNext == HistoryInv /\ [Next]_vars => SnapshotKnowsCleared'
<1> SUFFICES ASSUME HistoryInv, [Next]_vars, NEW r \in Rules, stage' = "rules", nextRule' <= r,
                    NEW a \in 1..Len(alarms'), alarms'[a].rule = r, alarms'[a].state = "cleared"
             PROVE  cleared'[r] # Never /\ alarms'[a].clearedAt <= cleared'[r]
  BY DEF SnapshotKnowsCleared
<1>0. Typed /\ TypeOK /\ SnapshotKnowsCleared /\ ClearedAreDated
  BY DEF HistoryInv, Typed
<1>1. Pending(r) /\ (ProcessRule => r # nextRule)
  BY <1>0, CycleSteps DEF Pending
<1>2. Kept(a)
  <2>1. ~JustRaised(a)
    BY <1>1 DEF JustRaised
  <2>2. ~JustCleared(a)
    BY <1>1 DEF JustCleared
  <2> QED BY <1>0, <2>1, <2>2, RowsBefore
<1>3. CASE LoadCleared
  <2>1. a \in AlarmsOf(r, {"cleared"})
    BY <1>2 DEF Kept, AlarmsOf
  <2> QED BY <1>0, <1>2, <1>3, <2>1, LastClearedIsLast DEF LoadCleared, Kept
<1>4. CASE UNCHANGED cleared /\ stage = "rules"
  BY <1>0, <1>1, <1>2, <1>4 DEF SnapshotKnowsCleared, Kept, Pending
<1> QED BY <1>3, <1>4 DEF Next, Tick, CycleStart, LoadActive, ProcessRule, NextRule, RuleFails,
          EngineRestart, Ack, engineVars, vars

LEMMA OneNeverClearedNext == HistoryInv /\ [Next]_vars => OneNeverCleared'
<1> SUFFICES ASSUME HistoryInv, [Next]_vars, NEW a \in 1..Len(alarms'), NEW b \in 1..Len(alarms'),
                    alarms'[a].rule = alarms'[b].rule,
                    alarms'[a].clearedAt = Never, alarms'[b].clearedAt = Never
             PROVE  a = b
  BY DEF OneNeverCleared
<1>0. Typed /\ OneNeverCleared /\ SnapshotKnowsOpen /\ now # Never
  BY AlarmAssumption DEF HistoryInv, Typed, TypeOK, Never
<1>1. ~JustCleared(a) /\ ~JustCleared(b)
  BY <1>0 DEF JustCleared
<1>2. CASE Kept(a) /\ Kept(b)
  BY <1>0, <1>2 DEF Kept, OneNeverCleared
\* The rule's snapshot would have known the other alarm.
<1>3. ASSUME NEW c \in 1..Len(alarms'), NEW d, Kept(c), JustRaised(d),
             alarms'[c].rule = alarms'[d].rule, alarms'[c].clearedAt = Never
      PROVE  FALSE
  <2>1. /\ stage = "rules" /\ nextRule \in Rules /\ active[nextRule] = Nobody
        /\ alarms'[d].rule = nextRule
    BY <1>0, <1>3 DEF JustRaised, ProcessRule, Raise, Typed, RuleLeft
  <2>2. c \in 1..Len(alarms) /\ alarms[c].rule = nextRule /\ alarms[c].clearedAt = Never
    BY <1>3, <2>1 DEF Kept
  <2>3. Pending(nextRule) /\ stage # "active"
    BY <2>1 DEF Pending, Rules
  <2> QED BY <1>0, <2>1, <2>2, <2>3 DEF SnapshotKnowsOpen
<1>4. CASE JustRaised(a) /\ JustRaised(b)
  BY <1>4 DEF JustRaised
<1> QED BY <1>0, <1>1, <1>2, <1>3, <1>4, RowsBefore

LEMMA CooldownNext == HistoryInv /\ [Next]_vars => CooldownRespected'
<1> SUFFICES ASSUME HistoryInv, [Next]_vars, NEW a \in 1..Len(alarms'), NEW b \in 1..Len(alarms'),
                    alarms'[a].rule = alarms'[b].rule, a < b, alarms'[a].state = "cleared",
                    alarms'[a].clearedAt <= alarms'[b].raisedAt
             PROVE  alarms'[b].raisedAt - alarms'[a].clearedAt >= Cooldown
  BY DEF CooldownRespected
<1>0. Typed /\ TypeOK /\ now \in Nat /\ now' \in Nat /\ Len(alarms) \in Nat /\ Cooldown \in Nat
      /\ MaxTime \in Nat /\ Never \in Nat
  <2>1. now' \in Nat
    BY TypeNext, AlarmAssumption DEF HistoryInv, Typed, TypeOK
  <2> QED BY <2>1, AlarmAssumption DEF HistoryInv, Typed, TypeOK, Never
<1>1. ASSUME NEW c \in 1..Len(alarms)
      PROVE  /\ alarms[c].raisedAt \in Nat /\ alarms[c].clearedAt \in Nat
             /\ alarms[c].rule \in Rules
  <2>1. alarms[c] \in Alarm
    BY <1>0 DEF TypeOK
  <2> QED BY <1>0, <2>1 DEF Alarm
<1>2. ~JustRaised(a)
  BY DEF JustRaised
\* An alarm that clears in this cycle clears after any of its rule was raised.
<1>3. CASE JustCleared(a)
  <2>1. /\ stage = "rules" /\ nextRule \in Rules /\ now' = now
        /\ alarms'[a].rule = nextRule /\ alarms'[a].clearedAt = now
    BY <1>0, <1>3 DEF JustCleared, ProcessRule, NextRule, Typed, RuleLeft
  <2>2. Pending(nextRule)
    BY <2>1 DEF Pending, Rules
  <2>3. ~JustRaised(b)
    BY <1>3 DEF JustCleared, JustRaised, Clear, Raise
  <2>4. b \in 1..Len(alarms) /\ alarms[b].rule = nextRule /\ alarms'[b].raisedAt = alarms[b].raisedAt
    BY <1>0, <2>1, <2>3, RowsBefore DEF Kept, JustCleared
  <2>5. alarms[b].raisedAt < now
    BY <2>1, <2>2, <2>4 DEF HistoryInv, RaisedBefore
  <2> QED BY <1>0, <1>1, <2>1, <2>4, <2>5
<1>4. CASE Kept(a)
  <2>0. /\ a \in 1..Len(alarms) /\ alarms[a].state = "cleared"
        /\ alarms'[a].rule = alarms[a].rule /\ alarms'[a].clearedAt = alarms[a].clearedAt
    BY <1>4 DEF Kept
  <2>1. CASE JustRaised(b)
    <3>1. /\ stage = "rules" /\ nextRule \in Rules /\ ~InCooldown(nextRule)
          /\ alarms'[b].rule = nextRule /\ alarms'[b].raisedAt = now
      BY <1>0, <2>1 DEF JustRaised, ProcessRule, Raise, Typed, RuleLeft
    <3>a. nextRule <= nextRule /\ alarms[a].rule = nextRule
      <4>1. nextRule <= nextRule
        BY <1>0 DEF TypeOK
      <4>2. alarms[a].rule = nextRule
        BY <2>0, <3>1
      <4> QED BY <4>1, <4>2
    <3>2. cleared[nextRule] # Never /\ alarms[a].clearedAt <= cleared[nextRule]
      BY <2>0, <3>1, <3>a DEF HistoryInv, SnapshotKnowsCleared
    <3>3. cleared[nextRule] \in Nat
      BY <1>0, <3>1 DEF TypeOK
    <3> QED BY <1>0, <1>1, <2>0, <3>1, <3>2, <3>3 DEF InCooldown
  <2>2. CASE Kept(b) \/ JustCleared(b)
    <3>1. b \in 1..Len(alarms) /\ alarms'[b].raisedAt = alarms[b].raisedAt
          /\ alarms'[b].rule = alarms[b].rule
      BY <2>2 DEF Kept, JustCleared
    <3> QED BY <2>0, <3>1 DEF HistoryInv, CooldownRespected
  <2> QED BY <1>0, <2>1, <2>2, RowsBefore
<1> QED BY <1>0, <1>2, <1>3, <1>4, RowsBefore

LEMMA HistoryInit == Init => HistoryInv
<1> SUFFICES ASSUME Init PROVE HistoryInv
  OBVIOUS
<1>1. Len(alarms) = 0
  BY DEF Init
<1> QED BY <1>1, TypedInit DEF HistoryInv, ClearedAreDated, SnapshotKnowsOpen, RaisedBefore,
       SnapshotKnowsCleared, OneNeverCleared, CooldownRespected

LEMMA HistoryNext == HistoryInv /\ [Next]_vars => HistoryInv'
<1>1. HistoryInv => Typed
  BY DEF HistoryInv
<1> QED BY <1>1, TypedNext, DatedNext, KnowsOpenNext, RaisedBeforeNext, KnowsClearedNext,
       OneNeverClearedNext, CooldownNext DEF HistoryInv

\* However the snapshot ages, alarms are acknowledged, transactions fail and the
\* worker is restarted, a rule has at most one open alarm that never cleared
\* (alarm_engine.py:16-19, 410-452).
THEOREM OneOpen == Spec => []OneOpenAlarm
<1>1. HistoryInv => OneOpenAlarm
  BY DEF HistoryInv, OneNeverCleared, OneOpenAlarm
<1> QED BY <1>1, HistoryInit, HistoryNext, PTL DEF Spec

\* A rule is not raised within cooldown_s of the clearance of any of its alarms
\* that is still cleared, though the clearances are read in an earlier
\* transaction than the one that raises (alarm_engine.py:22-25, 410-430).
THEOREM CooldownKept == Spec => []CooldownRespected
<1>1. HistoryInv => CooldownRespected
  BY DEF HistoryInv
<1> QED BY <1>1, HistoryInit, HistoryNext, PTL DEF Spec
=============================================================================
