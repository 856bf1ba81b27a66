----------------------------- MODULE Judgements -----------------------------
(***************************************************************************)
(* What is concluded from readings: the KPIs of a plant                    *)
(* (workers/kpi_worker.py), whether the condition of an alarm rule holds   *)
(* (workers/alarm_engine.py), how risky a plant is and its colour          *)
(* (api/routers/admin_risk.py, admin_fleet.py), when its tank will be      *)
(* empty (admin_logistics.py) and where a metric is taken from             *)
(* (admin_metrics.py).                                                     *)
(*                                                                         *)
(* Each is a function of the rows it is given: a behaviour asks for one    *)
(* conclusion.  Fractions are pairs of whole numbers.                      *)
(***************************************************************************)
EXTENDS Integers, Sequences, SequencesExt

CONSTANTS
  Values,                    \* what sensors say
  Ages,                      \* how old the newest reading may be
  FRESHNESS_WINDOW_S,
  SNAPSHOT_ROWS_PER_SENSOR,
  LOOKBACK_SLACK,            \* the 60 s beyond three times min_duration_s
  MaxReadings,               \* bound: readings of a sensor
  MaxSamples,                \* bound: rows of a plant behind a metric
  MaxTime,                   \* bound: timestamps
  Windows, Thresholds,       \* parameters of rules
  Counts,                    \* how many readings, alarms or events there are
  Null

JudgementsAssumption ==
  /\ Values \subseteq Int /\ Ages \subseteq Nat /\ FRESHNESS_WINDOW_S \in Nat
  /\ Counts \subseteq Nat /\ Thresholds \subseteq Nat /\ Windows \subseteq Nat
  /\ SNAPSHOT_ROWS_PER_SENSOR \in Nat \ {0} /\ LOOKBACK_SLACK \in Nat
  /\ MaxReadings \in Nat /\ MaxSamples \in Nat /\ MaxTime \in Nat
  /\ Null \notin Int

VARIABLES asked, answer

vars == <<asked, answer>>

NoQuestion == [of |-> "nothing"]

Init == asked = NoQuestion /\ answer = NoQuestion

Conclude(question, conclusion) == asked' = question /\ answer' = conclusion

Sum(s) ==
  LET sum[i \in 0..Len(s)] == IF i = 0 THEN 0 ELSE sum[i - 1] + s[i] IN sum[Len(s)]

Abs(x) == IF x < 0 THEN -x ELSE x

(* What s has at these places, in its order. *)
Kept(s, places) ==
  LET kept[i \in 0..Len(s)] ==
        IF i = 0 THEN <<>>
        ELSE IF i \in places THEN Append(kept[i - 1], s[i]) ELSE kept[i - 1]
  IN kept[Len(s)]

(* Covariance, or variance, of two series times the square of their length. *)
Spread(x, y) == Len(x) * Sum([i \in 1..Len(x) |-> x[i] * y[i]]) - Sum(x) * Sum(y)

-----------------------------------------------------------------------------
(* KPIs: the newest reading of each sensor, if it is fresh. *)

Flags == 0..4   \* _FLAG_RANK: good, imputed, frozen, out_of_range, comm_error

NoReading == [value |-> Null, flag |-> 0, age |-> -1]
Newest    == {NoReading} \cup [value : Values \cup {Null}, flag : {0, 2, 4}, age : Ages]

(* A plausible bug: the newest reading counts however old it is. *)
HoweverOld(r) == r

LatestReading(r) == IF r.age > FRESHNESS_WINDOW_S THEN NoReading ELSE r

WorstFlag(f, g) == Max({f, g})

NoKpi == [num |-> 0, den |-> 0, flag |-> 0]

(* A value that is missing at the outlet alone cannot be subtracted: the   *)
(* exception takes the other KPI with it.                                  *)
Raises(in, out) == in # NoReading /\ out # NoReading /\ in.value \notin {Null, 0} /\ out.value = Null

Efficiency(in, out) ==
  IF in = NoReading \/ out = NoReading \/ in.value \in {Null, 0} THEN NoKpi
  ELSE [num |-> 100 * (in.value - out.value), den |-> in.value, flag |-> WorstFlag(in.flag, out.flag)]

Closure(koh, k2so3) ==
  IF koh.value = Null \/ k2so3.value = Null THEN NoKpi
  ELSE [num |-> 100 - Abs(100 - koh.value - k2so3.value), den |-> 1, flag |-> WorstFlag(koh.flag, k2so3.flag)]

ComputeForPlant ==
  \E in, out, koh \in Newest, k2so3 \in {r \in Newest : r.flag = 2} \cup {NoReading} :
    LET L(r) == LatestReading(r) IN
    Conclude([of |-> "kpi", in |-> in, out |-> out, koh |-> koh, k2so3 |-> k2so3],
             IF Raises(L(in), L(out)) THEN [efficiency |-> NoKpi, closure |-> NoKpi]
             ELSE [efficiency |-> Efficiency(L(in), L(out)), closure |-> Closure(L(koh), L(k2so3))])

-----------------------------------------------------------------------------
(* Conditions of alarm rules, over the readings of one sensor, oldest      *)
(* first, now being the time of the last one or later.                     *)

(* Readings of these values, frozen or not, each later than the one before. *)
Ascending(n) == {ts \in [1..n -> 0..MaxTime] : \A i \in 1..n - 1 : ts[i] < ts[i + 1]}

Row(ts, said) == [ts |-> ts, value |-> said.value, frozen |-> said.frozen]

Series(values, frozen) ==
  UNION {{[i \in 1..n |-> Row(ts[i], said[i])] :
            ts \in Ascending(n), said \in [1..n -> [value : values, frozen : frozen]]} :
           n \in 0..MaxReadings}

Readings == Series(Values \cup {Null}, {FALSE})

LastOf(rows, n) == SubSeq(rows, Max({1, Len(rows) - n + 1}), Len(rows))

Snapshot(rows) == LastOf(rows, SNAPSHOT_ROWS_PER_SENSOR)

(* _eval_quality_flag_persistence: back from the newest reading for as     *)
(* long as flag and value stay the same.                                   *)
FrozenFrom(rows) ==
  CHOOSE i \in 1..Len(rows) :
    /\ \A j \in i..Len(rows) : rows[j].frozen /\ rows[j].value = rows[Len(rows)].value
    /\ i = 1 \/ ~(rows[i - 1].frozen /\ rows[i - 1].value = rows[Len(rows)].value)

Persists(rows, now, duration) ==
  LET since == Kept(rows, {i \in DOMAIN rows : rows[i].ts >= now - (3 * duration + LOOKBACK_SLACK)}) IN
  /\ since # <<>> /\ Last(since).frozen
  /\ Last(since).ts - since[FrozenFrom(since)].ts >= duration

(* _eval_value_threshold *)
Crosses(rows, lo, hi) ==
  /\ rows # <<>> /\ Last(rows).value # Null
  /\ (lo # Null /\ Last(rows).value < lo) \/ (hi # Null /\ Last(rows).value > hi)

(* A plausible bug: the newest value is left out of mean and deviation.    *)
BeforeLatest(values) == Front(values)

Compared(values) == values

(* _eval_rolling_z: the newest value against mean and deviation of the     *)
(* window it belongs to, squared and multiplied out.                       *)
Deviates(rows, window, z) ==
  LET values == [i \in 1..Len(LastOf(rows, window)) |-> LastOf(rows, window)[i].value]
      v == Compared(values)
      off == Len(v) * Last(values) - Sum(v)
  IN /\ window >= 2 /\ Len(values) = window /\ Null \notin ToSet(values)
     /\ Spread(v, v) # 0
     /\ off * off > z * z * Spread(v, v)

(* _eval_rate_of_change *)
Jumps(rows, rate) ==
  LET two == LastOf(rows, 2) IN
  /\ Len(two) = 2 /\ two[1].value # Null /\ two[2].value # Null
  /\ Abs(two[2].value - two[1].value) > rate * (two[2].ts - two[1].ts)

EvalPersistence ==
  \E v \in Values, later \in 0..MaxTime, duration \in 1..2 : \E rows \in Series({v, Null}, BOOLEAN) :
    rows # <<>> /\ LET now == Last(rows).ts + later IN
      Conclude([of |-> "frozen", rows |-> rows, duration |-> duration, now |-> now],
               [fired |-> Persists(Snapshot(rows), now, duration)])

EvalThresholds ==
  \E rows \in Readings, lo, hi \in Values \cup {Null} :
    Conclude([of |-> "threshold", rows |-> rows, lo |-> lo, hi |-> hi], [fired |-> Crosses(Snapshot(rows), lo, hi)])

EvalRollingZ ==
  \E window \in Windows, z \in Thresholds :
    \E values \in [1..window -> Values] :
      LET rows == [i \in 1..window |-> [ts |-> i, value |-> values[i], frozen |-> FALSE]] IN
      Conclude([of |-> "z", values |-> values, window |-> window, z |-> z], [fired |-> Deviates(rows, window, z)])

EvalRateOfChange ==
  \E rows \in Readings, rate \in Thresholds :
    Conclude([of |-> "rate", rows |-> rows, rate |-> rate], [fired |-> Jumps(Snapshot(rows), rate)])

-----------------------------------------------------------------------------
(* The risk and the colour of a plant. *)

HalfUp(num, den) == (2 * num + den) \div (2 * den)

Rows == {q \in [total : Counts, non_good : Counts, spikes : Counts] :
           q.spikes <= q.non_good /\ q.non_good <= q.total}

Percent(n, total) == IF total = 0 THEN 0 ELSE HalfUp(10000 * n, total)   \* in hundredths

(* get_risk_scores: readings, minutes to acknowledge if any were, and      *)
(* maintenance against one event in thirty days.                           *)
RiskScore(q, ack, events, days) ==
  LET quality     == Percent(q.non_good, q.total)
      latency     == IF ack = Null THEN 0 ELSE Min({10000, HalfUp(10000 * ack, 60)})
      maintenance == 10000 - Min({10000, HalfUp(10000 * 30 * events, days)})
      spikes      == Percent(q.spikes, q.total)
  IN HalfUp(30 * quality + 20 * latency + 20 * maintenance + 15 * quality + 15 * spikes, 100)

Latencies == {Null, 0, 45, 90}

ScoreRisk ==
  \E q \in Rows, ack \in Latencies, events \in Counts, days \in {1, 30, 90} :
    Conclude([of |-> "risk", q |-> q, ack |-> ack, events |-> events, days |-> days],
             [score |-> RiskScore(q, ack, events, days)])

Alarms == [severity : {"critical", "warning", "info"}, state : {"raised", "acked", "escalated"}]

Raised(alarms, severities) == \E a \in alarms : a.state = "raised" /\ a.severity \in severities

(* get_fleet: nothing ever heard is gray, before anything else. *)
Colour(silence, alarms, q) ==
  CASE silence = Null -> "gray"
    [] silence # Null /\ (Raised(alarms, {"critical"}) \/ silence > FRESHNESS_WINDOW_S) -> "red"
    [] OTHER -> IF Raised(alarms, {"warning", "info"}) \/ Percent(q.non_good, q.total) > 2000
                THEN "yellow" ELSE "green"

ColourPlant ==
  \E silence \in Ages \cup {Null}, alarms \in SUBSET Alarms, q \in Rows :
    /\ q.spikes = 0
    /\ Conclude([of |-> "colour", silence |-> silence, alarms |-> alarms, q |-> q],
                [colour |-> Colour(silence, alarms, q)])

-----------------------------------------------------------------------------
(* Tanks and metrics. *)

Points(rows) == Kept(rows, {i \in DOMAIN rows : rows[i].value # Null})

(* _linreg_slope, as a fraction. *)
Slope(points) ==
  LET x == [i \in 1..Len(points) |-> points[i].ts]
      y == [i \in 1..Len(points) |-> points[i].value]
  IN [num |-> Spread(x, y), den |-> Spread(x, x)]

(* get_burn_rates: three points at least, and a level that goes down; the  *)
(* days that are left are the level over the slope.                        *)
BurnRate(rows) ==
  LET points == Points(rows)  slope == Slope(points) IN
  IF Len(points) < 3 THEN [reason |-> "insufficient_data"]
  ELSE IF slope.den = 0 THEN [reason |-> "insufficient_data"]
  ELSE IF slope.num >= 0 THEN [reason |-> "not_draining"]
  ELSE [reason |-> Null, num |-> Last(points).value * slope.den, den |-> -slope.num]

GetBurnRate ==
  \E rows \in Readings : Conclude([of |-> "tank", rows |-> rows], BurnRate(rows))

Metered == {"p", "q"}
Samples == UNION {[1..n -> Values \cup {Null}] : n \in 0..MaxSamples}

Aggregate(rows) ==
  LET v == Kept(rows, {i \in DOMAIN rows : rows[i] # Null}) IN
  [sum |-> Sum(v), valued |-> Len(v), sample_count |-> Len(rows),
   min |-> IF v = <<>> THEN Null ELSE Min(ToSet(v)), max |-> IF v = <<>> THEN Null ELSE Max(ToSet(v))]

Grouped(table) == [p \in {p \in Metered : table[p] # <<>>} |-> Aggregate(table[p])]

(* get_metrics: KPIs of that name; if no plant has one, readings. *)
Metrics(kpis, readings, source) ==
  IF source = "kpi" \/ (source = "auto" /\ \E p \in Metered : kpis[p] # <<>>)
  THEN Grouped(kpis) ELSE Grouped(readings)

GetMetrics ==
  \E kpis, readings \in [Metered -> Samples], source \in {"kpi", "reading", "auto"} :
    /\ \A p \in Metered : Len(kpis[p]) < MaxSamples
    /\ Conclude([of |-> "metric", kpis |-> kpis, readings |-> readings, source |-> source],
                [results |-> Metrics(kpis, readings, source)])

Next ==
  /\ asked = NoQuestion
  /\ \/ ComputeForPlant
     \/ EvalPersistence \/ EvalThresholds \/ EvalRollingZ \/ EvalRateOfChange
     \/ ScoreRisk \/ ColourPlant
     \/ GetBurnRate \/ GetMetrics

Spec == Init /\ [][Next]_vars

-----------------------------------------------------------------------------

Asked(of) == asked.of = of

Fresh(r) == r # NoReading /\ r.age <= FRESHNESS_WINDOW_S

(* A KPI is no better than what it was computed from, and never from       *)
(* something stale (kpi_worker.py:110-112); the balance of the tanks is    *)
(* there whenever both levels are, but for an outlet that says nothing.    *)
KpisAreBacked ==
  Asked("kpi") =>
    LET q == asked IN
    /\ answer.efficiency # NoKpi =>
         Fresh(q.in) /\ Fresh(q.out) /\ answer.efficiency.flag >= q.in.flag /\ answer.efficiency.flag >= q.out.flag
    /\ answer.closure # NoKpi =>
         Fresh(q.koh) /\ Fresh(q.k2so3) /\ answer.closure.flag >= q.koh.flag /\ answer.closure.flag >= q.k2so3.flag
    /\ (\A r \in {q.koh, q.k2so3} : Fresh(r) /\ r.value # Null)
         => answer.closure # NoKpi \/ (Fresh(q.out) /\ q.out.value = Null)

(* A sensor that has said the same, flagged as frozen, for min_duration_s  *)
(* is noticed, and no other: the lookback is wide enough whenever the      *)
(* evaluation is as late, and the readings are as far apart, as the slack  *)
(* allows (alarm_engine.py:274-279), and the snapshot holds the readings.  *)
FrozenIsNoticed ==
  Asked("frozen") =>
    LET r == asked.rows  n == Len(r)  late == asked.now - r[n].ts
        stuck == \E i \in Max({1, n - SNAPSHOT_ROWS_PER_SENSOR + 1})..n :
                   /\ \A j \in i..n : r[j].frozen /\ r[j].value = r[n].value
                   /\ r[n].ts - r[i].ts >= asked.duration
    IN /\ answer.fired => stuck
       /\ (stuck /\ \A i \in 1..n - 1 : late + r[i + 1].ts - r[i].ts <= 2 * asked.duration + LOOKBACK_SLACK)
            => answer.fired

(* The newest value belongs to its own window, so it is never further than *)
(* the root of window - 1 deviations from the mean: a rule whose threshold *)
(* asks for more can never fire, and neither order nor sign matters.       *)
DeviationIsBounded ==
  Asked("z") =>
    /\ answer.fired => asked.z * asked.z < asked.window - 1
    /\ (asked.window > 2 /\ \A i, j \in 1..asked.window - 1 : asked.values[i] = asked.values[j])
         => (answer.fired <=> /\ asked.z * asked.z < asked.window - 1
                              /\ asked.values[asked.window] # asked.values[1])

(* A wider band, or a higher rate allowed, never makes a rule fire.        *)
WiderNeverFires ==
  /\ Asked("threshold") =>
       \A lo, hi \in Values :
         (asked.lo # Null /\ asked.hi # Null /\ lo <= asked.lo /\ hi >= asked.hi /\ ~answer.fired)
           => ~Crosses(Snapshot(asked.rows), lo, hi)
  /\ Asked("rate") =>
       \A rate \in Thresholds : (rate >= asked.rate /\ ~answer.fired) => ~Jumps(Snapshot(asked.rows), rate)

(* A plant that does worse never looks better: its risk is between 0 and   *)
(* 100 and grows with what is wrong (admin_risk.py, notes).                *)
RiskFollows ==
  Asked("risk") =>
    /\ answer.score \in Nat /\ answer.score <= 10000
    /\ \A q \in Rows, ack \in Latencies \ {Null}, events \in Counts :
         (/\ q.total = asked.q.total /\ q.non_good >= asked.q.non_good /\ q.spikes >= asked.q.spikes
          /\ asked.ack = Null \/ ack >= asked.ack
          /\ events <= asked.events)
           => RiskScore(q, ack, events, asked.days) >= answer.score

Rank(colour) == CASE colour = "green" -> 0 [] colour = "yellow" -> 1 [] colour = "red" -> 2

(* Its colour follows the alarms that are raised and the readings that are *)
(* flagged (admin_fleet.py).                                               *)
ColourFollows ==
  (Asked("colour") /\ answer.colour # "gray") =>
    \A a \in Alarms, q \in Rows :
      (q.total = asked.q.total /\ q.non_good >= asked.q.non_good)
        => Rank(Colour(asked.silence, asked.alarms \cup {a}, q)) >= Rank(answer.colour)

(* A tank whose level never rises is draining, one whose level never falls *)
(* is not, whatever the times of the readings are counted from.            *)
DrainingIsSeen ==
  Asked("tank") =>
    LET points == Points(asked.rows)
        n == Len(points)
        NeverFalls == \A i \in 1..n - 1 : points[i].value <= points[i + 1].value
        NeverRises == \A i \in 1..n - 1 : points[i].value >= points[i + 1].value
    IN n >= 3 =>
         /\ NeverFalls => answer.reason = "not_draining"
         /\ (NeverRises /\ ~NeverFalls) =>
              answer.reason = Null /\ (points[n].value >= 0 => answer.num >= 0)
         /\ BurnRate([i \in 1..n |-> [points[i] EXCEPT !.ts = @ + 7]]) = answer

(* Averages lie between their extremes, and plants are left out only when  *)
(* the table that answers has nothing on them.                             *)
MetricsAreOfRows ==
  Asked("metric") =>
    /\ \A p \in DOMAIN answer.results :
         LET a == answer.results[p] IN
         a.min # Null => a.min * a.valued <= a.sum /\ a.sum <= a.max * a.valued /\ a.valued <= a.sample_count
    /\ (asked.source = "auto" /\ DOMAIN answer.results = {}) =>
         \A p \in Metered : asked.readings[p] = <<>>

JudgementsAgree ==
  /\ KpisAreBacked
  /\ FrozenIsNoticed /\ DeviationIsBounded /\ WiderNeverFires
  /\ RiskFollows /\ ColourFollows
  /\ DrainingIsSeen /\ MetricsAreOfRows
==============================================================================
