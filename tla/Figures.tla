------------------------------- MODULE Figures -------------------------------
(***************************************************************************)
(* The figures of the paperwork: what a month is billed for and what it    *)
(* costs (workers/billing_worker.py), the taxes of an order line, amounts  *)
(* in words and in groups, fiscal years (api/erp_calc.py), and the voucher *)
(* of an invoice (api/routers/tally.py).                                   *)
(*                                                                         *)
(* These are functions of what they are given: a behaviour asks for one    *)
(* figure, and the properties compare the answer with the input.  Amounts  *)
(* are whole paise, readings whole numbers.                                *)
(***************************************************************************)
EXTENDS Integers, Sequences, SequencesExt

CONSTANTS
  Samples,                 \* readings of a sensor in an hour, or none
  HoursPerDay,             \* bounds: the hours of a day,
  DaysPerMonth,            \* and the days of a month
  TRAILING_LOOKBACK_DAYS,
  Contracts,               \* terms of contracts
  Amounts,                 \* amounts of money, which nothing keeps above zero
  Rates,                   \* rates of GST, in per cent
  Rupees, Paise,           \* an amount that is printed
  Years,
  Null

FiguresAssumption ==
  /\ Amounts \subseteq Int /\ Rates \subseteq Int /\ Years \subseteq Nat
  /\ \A n \in Rupees : n \in Nat /\ n \div 10000000 < 100000000
  /\ \A n \in Paise : n \in Nat /\ n < 100
  /\ HoursPerDay \in Nat \ {0} /\ DaysPerMonth \in Nat \ {0} /\ TRAILING_LOOKBACK_DAYS \in Nat
  /\ Contracts \subseteq [base_fee : Nat, usage_rate : Nat, bonus_at : Nat \cup {Null},
                          bonus : Nat, penalty_at : Nat \cup {Null}, penalty : Nat]

VARIABLES asked, answer

vars == <<asked, answer>>

NoFigure == [of |-> "nothing"]

Init == asked = NoFigure /\ answer = NoFigure

Figure(question, result) == asked' = question /\ answer' = result

(* ROUND_HALF_UP, which is away from zero. *)
HalfUp(num, den) ==
  IF num < 0 THEN -((den - 2 * num) \div (2 * den)) ELSE (2 * num + den) \div (2 * den)

Distance(a, b) == IF a < b THEN b - a ELSE a - b

-----------------------------------------------------------------------------
(* The month that is billed: its hours count from 0, the days of history   *)
(* before it are negative.                                                 *)

Sensors == {"SO2_in", "SO2_out", "flow"}
Month   == 0..DaysPerMonth * HoursPerDay - 1
Hours   == (-TRAILING_LOOKBACK_DAYS * HoursPerDay)..DaysPerMonth * HoursPerDay - 1

(* hourly_sensor_data: the average is of what has a value, good or not.    *)
Hourly(readings) ==
  LET valued == SelectSeq(readings, LAMBDA r : r.value # Null) IN
  [avg     |-> IF valued = <<>> THEN Null
               ELSE FoldSeq(LAMBDA r, sum : r.value + sum, 0, valued) \div Len(valued),
   total   |-> Len(readings),
   non_good |-> Len(SelectSeq(readings, LAMBDA r : ~r.good))]

HourData == {Hourly(readings) : readings \in Samples}

IsFlagged(h) == h.total = 0 \/ h.avg = Null \/ 2 * h.non_good > h.total

(* A plausible bug: the trailing average takes whatever hours have values. *)
AllDays(series, hour) ==
  {d \in 1..TRAILING_LOOKBACK_DAYS :
     hour - d * HoursPerDay \in Hours /\ series[hour - d * HoursPerDay].avg # Null}

UsableDays(series, hour) ==
  {d \in 1..TRAILING_LOOKBACK_DAYS :
     hour - d * HoursPerDay \in Hours /\ ~IsFlagged(series[hour - d * HoursPerDay])}

TrailingAvg(series, hour) ==
  LET days == UsableDays(series, hour) IN
  IF days = {} THEN Null
  ELSE SumFunction([d \in days |-> series[hour - d * HoursPerDay].avg]) \div Cardinality(days)

ValueAt(series, hour, mode) ==
  IF ~IsFlagged(series[hour]) THEN series[hour].avg
  ELSE IF mode = "trailing_avg" THEN TrailingAvg(series, hour) ELSE Null

BillingNumbers(s, mode) ==
  LET good   == {h \in Month : \A x \in Sensors : ~IsFlagged(s[x][h])}
      billed == {h \in Month : \A x \in Sensors : ValueAt(s[x], h, mode) # Null}
      so2(h) == Max({0, ValueAt(s["SO2_in"], h, mode) - ValueAt(s["SO2_out"], h, mode)})
                  * ValueAt(s["flow"], h, mode)
  IN [so2_kg |-> SumFunction([h \in billed |-> so2(h)]),
      uptime |-> HalfUp(10000 * Cardinality(good), Cardinality(Month)),
      good_hours |-> Cardinality(good), hours_billed |-> Cardinality(billed)]

(* One sensor says anything, the others the same in every hour. *)
ComputeBillingNumbers ==
  \E x \in Sensors, varied \in [Hours -> HourData], rest \in HourData, mode \in {"exclude", "trailing_avg"} :
    LET s == [y \in Sensors |-> IF y = x THEN varied ELSE [h \in Hours |-> rest]] IN
    Figure([of |-> "numbers", series |-> s, mode |-> mode], BillingNumbers(s, mode))

(* _compute_line_items *)
LineItems(so2_kg, uptime, c) ==
  LET adjustment == IF c.bonus_at # Null /\ uptime >= c.bonus_at THEN c.bonus
                    ELSE IF c.penalty_at # Null /\ uptime < c.penalty_at THEN -c.penalty
                    ELSE 0
  IN c.base_fee + so2_kg * c.usage_rate + adjustment

Uptimes == {HalfUp(10000 * good, Cardinality(Month)) : good \in 0..Cardinality(Month)}

ComputeLineItems ==
  \E so2 \in 0..2, uptime \in Uptimes, c \in Contracts :
    Figure([of |-> "items", so2_kg |-> so2, uptime |-> uptime, contract |-> c], [total |-> LineItems(so2, uptime, c)])

-----------------------------------------------------------------------------
(* Orders and vouchers. *)

GstSplit(taxable, rate, sameState) ==
  LET gst  == HalfUp(taxable * rate, 100)
      half == HalfUp(gst, 2)
  IN IF sameState THEN [cgst |-> half, sgst |-> gst - half, igst |-> 0, total |-> taxable + gst]
                  ELSE [cgst |-> 0, sgst |-> 0, igst |-> gst, total |-> taxable + gst]

SplitGst ==
  \E taxable \in Amounts, rate \in Rates, sameState \in BOOLEAN :
    Figure([of |-> "gst", taxable |-> taxable, rate |-> rate], GstSplit(taxable, rate, sameState))

Invoices == [taxable : Amounts, gst : Amounts, total : Amounts]
Orders   == [taxable : Amounts, gst : Amounts]

WithinTolerance(actual, expected) == 100 * Distance(actual, expected) <= 2 * Distance(0, expected)

(* A plausible bug: of an invoice only the parts are compared. *)
PartsMatch(i, o) == WithinTolerance(i.taxable, o.taxable) /\ WithinTolerance(i.gst, o.gst)

(* _run_three_way_match, which an approved invoice has passed. *)
Matches(i, o) ==
  /\ WithinTolerance(i.taxable, o.taxable) /\ WithinTolerance(i.gst, o.gst)
  /\ WithinTolerance(i.total, o.taxable + o.gst)

(* The party is credited what the invoice says is its total, if it says so. *)
Credit(i) == IF i.total = 0 THEN i.taxable + i.gst ELSE i.total

(* Half of the tax is formatted twice, and the binary half of an odd       *)
(* number of paise prints as either neighbour.                             *)
Entries(i, sameState, half) ==
  IF i.gst <= 0 THEN <<i.taxable>>
  ELSE IF sameState THEN <<i.taxable, half, half>> ELSE <<i.taxable, i.gst>>

(* build_purchase_voucher_xml *)
BuildVoucher ==
  \E i \in Invoices, o \in Orders, sameState \in BOOLEAN :
    /\ Matches(i, o)
    /\ \E half \in {i.gst \div 2, (i.gst + 1) \div 2} :
         Figure([of |-> "voucher", invoice |-> i, order |-> o],
                [credit |-> Credit(i), debits |-> Entries(i, sameState, half)])

-----------------------------------------------------------------------------
(* Amounts in words: a word is its number, a unit minus what it stands for. *)

Hundred == -100  Thousand == -1000  Lakh == -100000  Crore == -10000000
Rupee   == -1    Paisa    == -2

TwoDigitWords(n) ==
  IF n = 0 THEN <<>> ELSE IF n < 20 THEN <<n>>
  ELSE <<n - (n % 10)>> \o (IF n % 10 = 0 THEN <<>> ELSE <<n % 10>>)

ThreeDigitWords(n) ==
  (IF n >= 100 THEN <<n \div 100, Hundred>> ELSE <<>>) \o TwoDigitWords(n % 100)

Counted(n, unit) == IF n = 0 THEN <<>> ELSE Append(ThreeDigitWords(n), unit)

(* A plausible bug: the lakhs are counted among the thousands again. *)
LakhsTwice(n) ==
  Counted(n \div 100000, Lakh) \o Counted(n \div 1000, Thousand) \o ThreeDigitWords(n % 1000)

BelowCrore(n) ==
  Counted(n \div 100000, Lakh) \o Counted((n \div 1000) % 100, Thousand)
    \o ThreeDigitWords(n % 1000)

IndianWords(n) ==
  LET crore == n \div 10000000 IN
  IF n = 0 THEN <<0>>
  ELSE (IF crore = 0 THEN <<>> ELSE Append(BelowCrore(crore), Crore))
         \o BelowCrore(n % 10000000)

AmountInWords(rupees, paise) ==
  Append(IndianWords(rupees), Rupee)
    \o (IF paise = 0 THEN <<>> ELSE Append(IndianWords(paise), Paisa))

SayAmount ==
  \E rupees \in Rupees, paise \in Paise :
    Figure([of |-> "words", rupees |-> rupees, paise |-> paise], [words |-> AmountInWords(rupees, paise)])

(* indian_group_str: the last three digits, and pairs before them. *)
IndianGroups(n) ==
  LET pairs[k \in 0..n] == IF k < 100 THEN <<k>> ELSE Append(pairs[k \div 100], k % 100) IN
  IF n < 1000 THEN <<n>> ELSE Append(pairs[n \div 1000], n % 1000)

GroupAmount ==
  \E n \in Rupees : Figure([of |-> "groups", rupees |-> n], [groups |-> IndianGroups(n)])

-----------------------------------------------------------------------------
(* Months and fiscal years. *)

Dates == [year : Years, month : 1..12]

FiscalYearLabel(d) ==
  LET start == IF d.month >= 4 THEN d.year ELSE d.year - 1 IN <<start % 100, (start + 1) % 100>>

MonthBounds(d) ==
  <<d, IF d.month = 12 THEN [year |-> d.year + 1, month |-> 1] ELSE [d EXCEPT !.month = @ + 1]>>

PreviousMonth(d) ==
  IF d.month = 1 THEN [year |-> d.year - 1, month |-> 12] ELSE [d EXCEPT !.month = @ - 1]

LabelDate ==
  \E d \in Dates :
    Figure([of |-> "date", date |-> d],
           [label |-> FiscalYearLabel(d), previous |-> MonthBounds(PreviousMonth(d))])

Next ==
  /\ asked = NoFigure
  /\ \/ ComputeBillingNumbers \/ ComputeLineItems
     \/ SplitGst \/ BuildVoucher
     \/ SayAmount \/ GroupAmount
     \/ LabelDate

Spec == Init /\ [][Next]_vars

-----------------------------------------------------------------------------

Asked(of) == asked.of = of

(* What is flagged is not billed: whatever the flagged hours of the month  *)
(* or of the days before it say, the figures are those of a month in which *)
(* they say nothing (billing_worker.py:203-204); every good hour is        *)
(* billed, and without trailing averages only those are.                   *)
FlaggedHoursAreNotBilled ==
  Asked("numbers") =>
    LET blank == [x \in Sensors |-> [h \in Hours |->
                    IF IsFlagged(asked.series[x][h]) THEN [asked.series[x][h] EXCEPT !.avg = Null]
                    ELSE asked.series[x][h]]]
    IN /\ answer = BillingNumbers(blank, asked.mode)
       /\ answer.good_hours <= answer.hours_billed
       /\ asked.mode = "exclude" => answer.good_hours = answer.hours_billed
       /\ answer.hours_billed = 0 => answer.so2_kg = 0

(* More capture and more uptime never make an invoice smaller, whatever    *)
(* the thresholds of the contract and the order they are in.               *)
MorePerformanceNeverCostsLess ==
  Asked("items") =>
    \A so2 \in 0..asked.so2_kg, uptime \in Uptimes :
      uptime <= asked.uptime => LineItems(so2, uptime, asked.contract) <= answer.total

(* The parts of the tax make up the tax, CGST and SGST being equal but for *)
(* an odd paisa, and the tax is the rate of what is taxed but for half a   *)
(* paisa, credits and discounts included (erp_calc.py).                    *)
TaxAddsUp ==
  Asked("gst") =>
    /\ answer.total = asked.taxable + answer.cgst + answer.sgst + answer.igst
    /\ answer.cgst - answer.sgst \in -1..1
    /\ 200 * (answer.total - asked.taxable) - 2 * asked.taxable * asked.rate \in -100..100

(* A voucher is off by what its invoice is off by, and by no more than the *)
(* tolerance of the match on the three amounts of the order: the total is  *)
(* the vendor's and nothing ties it to its parts.  Beyond that there is    *)
(* the odd paisa of a tax that is halved, and a tax below zero, which is   *)
(* not posted (tally.py, erp_invoices.py).                                 *)
VoucherFollowsInvoice ==
  Asked("voucher") =>
    LET i == asked.invoice
        o == asked.order
        n == Len(answer.debits)
        sum[k \in 0..n] == IF k = 0 THEN 0 ELSE sum[k - 1] + answer.debits[k]
        own == IF i.total = 0 THEN 0 ELSE i.total - i.taxable - i.gst
        unposted == IF i.gst < 0 THEN i.gst ELSE 0
        odd == answer.credit - sum[n] - own - unposted
    IN /\ odd \in -1..1 /\ (odd # 0 => i.gst % 2 = 1 /\ n = 3)
       /\ 100 * Distance(own, 0)
            <= 2 * (Distance(o.taxable, 0) + Distance(o.gst, 0) + Distance(o.taxable + o.gst, 0))

(* How words are read: a hundred multiplies what was just said, the other  *)
(* units everything since the last of them, and a crore whatever precedes. *)
Heard(word, so) ==
  CASE word >= 0       -> [so EXCEPT !.now = @ + word]
    [] word = Hundred  -> [so EXCEPT !.now = @ * 100]
    [] word \in {Thousand, Lakh} -> [now |-> 0, sum |-> so.sum - so.now * word]
    [] word = Crore    -> [now |-> 0, sum |-> -(so.sum + so.now) * word]

Read(words) ==
  LET heard[i \in 0..Len(words)] ==
        IF i = 0 THEN [now |-> 0, sum |-> 0] ELSE Heard(words[i], heard[i - 1])
  IN heard[Len(words)].sum + heard[Len(words)].now

(* Groups are read from the left: three digits at the end, two before.     *)
ReadGroups(g) ==
  LET seen[i \in 0..Len(g)] ==
        IF i = 0 THEN 0 ELSE seen[i - 1] * (IF i = Len(g) THEN 1000 ELSE 100) + g[i]
  IN seen[Len(g)]

(* What is printed in words, or in groups, reads as the amount it is.      *)
WordsReadBack ==
  /\ Asked("words") =>
       LET cut == SelectInSeq(answer.words, LAMBDA w : w = Rupee)
           rest == SubSeq(answer.words, cut + 1, Len(answer.words))
       IN /\ Read(SubSeq(answer.words, 1, cut - 1)) = asked.rupees
          /\ IF rest = <<>> THEN asked.paise = 0 ELSE Read(Front(rest)) = asked.paise
  /\ Asked("groups") => ReadGroups(answer.groups) = asked.rupees

(* Fiscal years change between March and April and only there, and the     *)
(* month that is billed ends where the current one begins.                 *)
MonthsFollowEachOther ==
  Asked("date") =>
    LET d == asked.date  index == 12 * d.year + d.month - 1 IN
    /\ answer.label = <<((index - 3) \div 12) % 100, ((index + 9) \div 12) % 100>>
    /\ answer.previous[2] = d

FiguresAgree ==
  /\ FlaggedHoursAreNotBilled /\ MorePerformanceNeverCostsLess
  /\ TaxAddsUp /\ VoucherFollowsInvoice /\ WordsReadBack /\ MonthsFollowEachOther
==============================================================================
