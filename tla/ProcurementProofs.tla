-------------------------- MODULE ProcurementProofs --------------------------
(***************************************************************************)
(* Theorems about purchase orders and goods receipts.                      *)
(***************************************************************************)
EXTENDS Procurement, FiniteSetTheorems, WellFoundedInduction, TLAPS

USE ProcurementAssumption DEF order, goods

-----------------------------------------------------------------------------
(* What a request holds, by the step it is at. *)

Numbered == [step : {"numbered"}, year : Years, no : Nat \ {0}]
Issuing  == [step : {"issue"}]
Ordered  == [step : {"ordered"}, invoice : Invoices, ordered : Int, fits : BOOLEAN]
Approval == [step : {"approve"}, invoice : Invoices]

Receiving(r) == req[r].step \in {"lines", "status"}

LEMMA RequestKinds ==
  ASSUME TypeOK, NEW r \in Requests
  PROVE  /\ At(r, "numbered") => req[r] \in Numbered
         /\ At(r, "lines") => req[r] \in Receipt("lines")
         /\ At(r, "status") => req[r] \in Receipt("status")
         /\ At(r, "ordered") => req[r] \in Ordered
         /\ At(r, "approve") => req[r] \in Approval
<1>1. req[r] \in Request
  BY DEF TypeOK
<1> QED BY <1>1 DEF Request, At, Idle, Receipt, Numbered, Ordered, Approval

\* The items are numbered from one, up to how many there are.
LEMMA ItemRows ==
  ASSUME TypeOK
  PROVE  /\ Len(items) \in created..MaxItems /\ created \in Items
         /\ DOMAIN items = 1..Len(items) /\ DOMAIN items \subseteq Items
         /\ items \in [DOMAIN items -> Int] /\ items \in Seq(Int)
         /\ Len(ordered) = Len(items) /\ DOMAIN ordered = DOMAIN items
         /\ ordered \in [DOMAIN items -> Quantities] /\ ordered \in Seq(Quantities)
<1>1. PICK n \in created..MaxItems : ordered \in [1..n -> Quantities] /\ items \in [1..n -> Int]
  BY DEF TypeOK
<1>2. created \in Items /\ n \in Nat
  BY DEF TypeOK, Items
<1>3. items \in Seq(Int) /\ Len(items) = n
  BY <1>1, <1>2
<1>4. ordered \in Seq(Quantities) /\ Len(ordered) = n
  BY <1>1, <1>2
<1> QED BY <1>1, <1>2, <1>3, <1>4 DEF Items

\* One request moves on, the others stay where they are.
LEMMA OneMoves ==
  ASSUME TypeOK, NEW r \in Requests, NEW next, Becomes(r, next)
  PROVE  /\ req'[r] = next
         /\ \A q \in Requests \ {r} : req'[q] = req[q]
         /\ next \in Request => req' \in [Requests -> Request]
BY DEF TypeOK, Becomes

-----------------------------------------------------------------------------
(* Totals. *)

\* Every number is in a set that has 0 and with each number the next.
LEMMA EveryNumber ==
  ASSUME NEW Good, 0 \in Good, \A n \in Nat : n \in Good => n + 1 \in Good
  PROVE  Nat \subseteq Good
<1> DEFINE Less == {p \in Nat \X Nat : p[1] < p[2]}
           Bad == Nat \ Good
<1>1. IsWellFoundedOn(Less, Nat)
  BY NatLessThanWellFounded DEF OpToRel
<1> SUFFICES ASSUME Bad # {} PROVE FALSE
  OBVIOUS
<1>2. PICK m \in Bad : \A k \in Bad : ~(<<k, m>> \in Less)
  BY <1>1, WFMin
<1>3. m \in Nat /\ m # 0 /\ m - 1 \in Nat
  OBVIOUS
<1>4. <<m - 1, m>> \in Less
  <2>1. <<m - 1, m>> \in Nat \X Nat /\ <<m - 1, m>>[1] = m - 1 /\ <<m - 1, m>>[2] = m /\ m - 1 < m
    BY <1>3
  <2> QED BY <2>1
<1>5. m - 1 \in Good
  BY <1>2, <1>3, <1>4
<1>6. (m - 1) + 1 = m
  BY <1>3
<1>7. m \in Good
  BY <1>3, <1>5, <1>6
<1> QED BY <1>7

\* t adds up f, as Total does.
UpTo(f, t) == t = [n \in 0..MaxItems |-> IF n = 0 THEN 0 ELSE f[n] + t[n - 1]]

LEMMA TotalExists == ASSUME NEW f PROVE \E t : UpTo(f, t)
<1> DEFINE Step(t, n) == IF n = 0 THEN 0 ELSE f[n] + t[n - 1]
           Far(k, t) == \A n \in 0..MaxItems : n <= k => t[n] = Step(t, n)
           Good == {k \in Nat : \E t : Far(k, t)}
<1>1. 0 \in Good
  <2> DEFINE t == [n \in 0..MaxItems |-> 0]
  <2>1. Far(0, t)
    OBVIOUS
  <2> QED BY <2>1
<1>2. ASSUME NEW k \in Nat, k \in Good PROVE k + 1 \in Good
  <2>1. PICK t : Far(k, t)
    BY <1>2
  <2> DEFINE u == [n \in 0..MaxItems |-> Step(t, n)]
  <2>2. ASSUME NEW n \in 0..MaxItems, n <= k + 1 PROVE u[n] = Step(u, n)
    <3>1. CASE n = 0
      BY <3>1
    <3>2. CASE n # 0
      <4>1. n - 1 \in 0..MaxItems /\ n - 1 <= k
        BY <2>2, <3>2
      <4>2. t[n - 1] = Step(t, n - 1) /\ u[n - 1] = Step(t, n - 1)
        BY <2>1, <4>1
      <4>3. u[n] = f[n] + t[n - 1] /\ Step(u, n) = f[n] + u[n - 1]
        BY <3>2
      <4> QED BY <4>2, <4>3
    <3> QED BY <3>1, <3>2
  <2> HIDE DEF u
  <2>3. Far(k + 1, u)
    BY <2>2
  <2> QED BY <2>3
<1> HIDE DEF Good
<1>3. MaxItems \in Good
  BY <1>1, <1>2, EveryNumber
<1>4. PICK t : Far(MaxItems, t)
  BY <1>3 DEF Good
<1> DEFINE u == [n \in 0..MaxItems |-> t[n]]
<1>5. \A n \in 0..MaxItems : u[n] = Step(u, n)
  <2> TAKE n \in 0..MaxItems
  <2>1. u[n] = Step(t, n)
    BY <1>4
  <2>2. n # 0 => n - 1 \in 0..MaxItems
    OBVIOUS
  <2> QED BY <2>1, <2>2
<1>6. u = [n \in 0..MaxItems |-> Step(u, n)]
  <2>1. u = [n \in 0..MaxItems |-> u[n]]
    OBVIOUS
  <2> HIDE DEF u
  <2> QED BY <1>5, <2>1
<1> HIDE DEF u
<1>7. UpTo(f, u)
  BY <1>6 DEF UpTo
<1> QED BY <1>7

Totals(f, t) ==
  /\ Total(f) = t[MaxItems] /\ t[0] = 0
  /\ \A n \in Items : t[n] = f[n] + t[n - 1]

LEMMA TotalIs == ASSUME NEW f PROVE \E t : Totals(f, t)
<1> DEFINE t == CHOOSE u : UpTo(f, u)
<1>1. UpTo(f, t)
  BY TotalExists
<1>2. Total(f) = t[MaxItems]
  BY DEF Total, UpTo
<1> HIDE DEF t
<1> DEFINE b(n) == IF n = 0 THEN 0 ELSE f[n] + t[n - 1]
<1>3. t = [n \in 0..MaxItems |-> b(n)]
  BY <1>1 DEF UpTo
<1> HIDE DEF b
<1>4. \A n \in 0..MaxItems : t[n] = b(n)
  BY <1>3
<1>5. t[0] = b(0) /\ \A n \in Items : t[n] = b(n)
  BY <1>4 DEF Items
<1>6. t[0] = 0 /\ \A n \in Items : t[n] = f[n] + t[n - 1]
  BY <1>5 DEF b, Items
<1> QED BY <1>2, <1>6 DEF Totals

\* Integers add up to an integer, and larger ones to no less.
AtMost(f, g) == \A i \in Items : f[i] <= g[i]

LEMMA TotalGrows ==
  ASSUME NEW f \in [Items -> Int], NEW g \in [Items -> Int], AtMost(f, g)
  PROVE  Total(f) \in Int /\ Total(g) \in Int /\ Total(f) <= Total(g)
<1>1. PICK t : Totals(f, t)
  BY TotalIs
<1>2. PICK u : Totals(g, u)
  BY TotalIs
<1> DEFINE Good == {n \in Nat : n <= MaxItems => t[n] \in Int /\ u[n] \in Int /\ t[n] <= u[n]}
<1>3. 0 \in Good
  BY <1>1, <1>2 DEF Totals
<1>4. ASSUME NEW n \in Nat, n \in Good PROVE n + 1 \in Good
  <2> SUFFICES ASSUME n + 1 <= MaxItems
               PROVE  t[n + 1] \in Int /\ u[n + 1] \in Int /\ t[n + 1] <= u[n + 1]
    OBVIOUS
  <2>1. n + 1 \in Items /\ (n + 1) - 1 = n
    BY DEF Items
  <2>2. t[n + 1] = f[n + 1] + t[n] /\ u[n + 1] = g[n + 1] + u[n]
    BY <1>1, <1>2, <2>1 DEF Totals
  <2>3. f[n + 1] \in Int /\ g[n + 1] \in Int /\ f[n + 1] <= g[n + 1]
    BY <2>1 DEF AtMost
  <2>4. t[n] \in Int /\ u[n] \in Int /\ t[n] <= u[n]
    BY <1>4
  <2> QED BY <2>2, <2>3, <2>4
<1> HIDE DEF Good
<1>5. MaxItems \in Good
  BY <1>3, <1>4, EveryNumber
<1> QED BY <1>1, <1>2, <1>5 DEF Good, Totals

LEMMA TotalType == ASSUME NEW f \in [Items -> Int] PROVE Total(f) \in Int
<1>1. AtMost(f, f)
  BY DEF AtMost
<1> QED BY <1>1, TotalGrows

\* The quantities the match adds up are integers.
LEMMA OrderQtyType == ASSUME TypeOK PROVE OrderQty \in [Items -> Int]
<1>1. \A i \in DOMAIN ordered : ordered[i] \in Int
  BY ItemRows
<1> QED BY <1>1 DEF OrderQty

-----------------------------------------------------------------------------
(* Type correctness. *)

\* The next number of a year is a number.
LEMMA NextNoType ==
  ASSUME TypeOK, NEW y \in Years,
         numbers[y] = 1..Cardinality(numbers[y]), IsFiniteSet(numbers[y])
  PROVE  NextNo(y) = Cardinality(numbers[y]) + 1 /\ NextNo(y) \in Nat \ {0}
<1> DEFINE c == Cardinality(numbers[y])
<1>1. c \in Nat
  BY FS_CardinalityType
<1>2. CASE c = 0
  BY <1>2 DEF NextNo
<1>3. CASE c # 0
  <2>1. c \in 1..c /\ \A m \in 1..c : m <= c
    BY <1>1, <1>3
  <2>2. \A n \in 1..c : (\A m \in 1..c : m <= n) => n = c
    BY <2>1
  <2>3. (CHOOSE n \in 1..c : \A m \in 1..c : m <= n) = c
    BY <2>1, <2>2
  <2>4. numbers[y] = 1..c /\ numbers[y] # {}
    BY <2>1
  <2> HIDE DEF c
  <2>5. NextNo(y) = 1 + c
    BY <2>3, <2>4 DEF NextNo
  <2> QED BY <1>1, <2>5 DEF c
<1> QED BY <1>1, <1>2, <1>3

\* The numbers of a year are finitely many, and without a gap.
NumbersInv == NumbersGapFree /\ \A y \in Years : IsFiniteSet(numbers[y])

\* A step that gives no number leaves the numbers as they should be.
LEMMA NumbersKept ==
  ASSUME TypeOK, NumbersInv, UNCHANGED numbers,
         NEW r \in Requests, NEW next, Becomes(r, next), next.step # "numbered"
  PROVE  NumbersInv'
<1>1. \A q \in Requests : At(q, "numbered")' => q # r /\ At(q, "numbered") /\ req'[q] = req[q]
  BY OneMoves DEF At
<1> QED BY <1>1 DEF NumbersInv, NumbersGapFree

LEMMA TakeNumberInv ==
  ASSUME TypeOK, NumbersInv, NEW r \in Requests, NEW y \in Years, TakeNumber(r, y)
  PROVE  TypeOK' /\ NumbersInv'
<1> DEFINE next == [step |-> "numbered", year |-> y, no |-> NextNo(y)]
<1>1. UNCHANGED <<numbers, status, order, goods, invoices>> /\ Becomes(r, next)
  BY DEF TakeNumber
<1>2. NextNo(y) = Cardinality(numbers[y]) + 1 /\ NextNo(y) \in Nat \ {0}
  BY NextNoType DEF NumbersInv, NumbersGapFree
<1>3. next \in Request
  BY <1>2 DEF Request
<1>4. req'[r] = next /\ \A q \in Requests \ {r} : req'[q] = req[q]
  BY <1>1, OneMoves
<1>5. \A q \in Requests \ {r} : (At(q, "numbered"))' => req'[q].year # y
  BY <1>4 DEF TakeNumber, LockFree, At
<1>6. TypeOK'
  BY <1>1, <1>3, OneMoves DEF TypeOK
<1>7. NumbersInv'
  <2> SUFFICES ASSUME NEW z \in Years
               PROVE  /\ (numbers[z] = 1..Cardinality(numbers[z]))'
                      /\ IsFiniteSet(numbers[z])'
                      /\ \A q \in Requests : (At(q, "numbered") /\ req[q].year = z)' =>
                           /\ req'[q].no = Cardinality(numbers'[z]) + 1
                           /\ \A p \in Requests : (At(p, "numbered") /\ req[p].year = z)' => p = q
    BY DEF NumbersInv, NumbersGapFree
  <2>1. (numbers[z] = 1..Cardinality(numbers[z]))' /\ IsFiniteSet(numbers[z])'
    BY <1>1 DEF NumbersInv, NumbersGapFree
  <2>2. CASE z = y
    BY <1>1, <1>2, <1>4, <1>5, <2>1, <2>2 DEF At
  <2>3. CASE z # y
    BY <1>1, <1>4, <2>1, <2>3 DEF NumbersInv, NumbersGapFree, At
  <2> QED BY <2>1, <2>2, <2>3
<1> QED BY <1>6, <1>7

LEMMA InsertPoInv ==
  ASSUME TypeOK, NumbersInv, NEW r \in Requests, InsertPo(r)
  PROVE  TypeOK' /\ NumbersInv'
<1> DEFINE y == req[r].year
           c == Cardinality(numbers[y])
<1>1. /\ At(r, "numbered") /\ Becomes(r, Idle)
      /\ numbers' = [numbers EXCEPT ![y] = @ \cup {req[r].no}]
      /\ UNCHANGED <<status, order, goods, invoices>>
  BY DEF InsertPo, End
<1>2. y \in Years /\ req[r].no \in Nat \ {0}
  BY <1>1, RequestKinds DEF Numbered
<1>3. req[r].no = c + 1 /\ numbers[y] = 1..c /\ IsFiniteSet(numbers[y]) /\ c \in Nat
  BY <1>1, <1>2, FS_CardinalityType DEF NumbersInv, NumbersGapFree
<1>4. numbers'[y] = 1..(c + 1) /\ \A z \in Years \ {y} : numbers'[z] = numbers[z]
  <2>1. numbers'[y] = numbers[y] \cup {c + 1}
    BY <1>1, <1>2, <1>3 DEF TypeOK
  <2>2. \A n \in Nat : (1..n) \cup {n + 1} = 1..(n + 1)
    OBVIOUS
  <2> HIDE DEF c
  <2>3. numbers'[y] = 1..(c + 1)
    BY <1>3, <2>1, <2>2
  <2>4. \A z \in Years \ {y} : numbers'[z] = numbers[z]
    BY <1>1, <1>2 DEF TypeOK
  <2> QED BY <2>3, <2>4
<1>5. IsFiniteSet(numbers'[y]) /\ Cardinality(numbers'[y]) = c + 1
  <2>1. numbers'[y] = numbers[y] \cup {c + 1}
    BY <1>1, <1>2, <1>3 DEF TypeOK
  <2>2. c + 1 \notin numbers[y]
    BY <1>3
  <2>3. /\ IsFiniteSet(numbers[y] \cup {c + 1})
        /\ Cardinality(numbers[y] \cup {c + 1}) =
             IF c + 1 \in numbers[y] THEN Cardinality(numbers[y]) ELSE Cardinality(numbers[y]) + 1
    <3> HIDE DEF c
    <3> QED BY <1>3, FS_AddElement
  <2> QED BY <2>1, <2>2, <2>3
<1>6. TypeOK'
  <2>1. numbers' \in [Years -> SUBSET (Nat \ {0})]
    BY <1>1, <1>2 DEF TypeOK
  <2>2. Idle \in Request
    BY DEF Request
  <2> QED BY <1>1, <2>1, <2>2, OneMoves DEF TypeOK
<1>7. \A q \in Requests : (At(q, "numbered"))' =>
        q # r /\ At(q, "numbered") /\ req'[q] = req[q] /\ req[q].year # y
  <2>1. \A q \in Requests : (At(q, "numbered"))' => q # r /\ At(q, "numbered") /\ req'[q] = req[q]
    BY <1>1, OneMoves DEF At, Idle
  <2>2. \A q \in Requests : At(q, "numbered") /\ req[q].year = y => q = r
    BY <1>1, <1>2 DEF NumbersInv, NumbersGapFree
  <2> QED BY <2>1, <2>2
<1> HIDE DEF c, y
<1>8. NumbersInv'
  <2> SUFFICES ASSUME NEW z \in Years
               PROVE  /\ (numbers[z] = 1..Cardinality(numbers[z]))'
                      /\ IsFiniteSet(numbers[z])'
                      /\ \A q \in Requests : (At(q, "numbered") /\ req[q].year = z)' =>
                           /\ req'[q].no = Cardinality(numbers'[z]) + 1
                           /\ \A p \in Requests : (At(p, "numbered") /\ req[p].year = z)' => p = q
    BY DEF NumbersInv, NumbersGapFree
  <2>1. CASE z = y
    BY <1>4, <1>5, <1>7, <2>1
  <2>2. CASE z # y
    <3>1. numbers'[z] = numbers[z]
      BY <1>4, <2>2
    <3> QED BY <1>7, <3>1 DEF NumbersInv, NumbersGapFree
  <2> QED BY <2>1, <2>2
<1> QED BY <1>6, <1>8

-----------------------------------------------------------------------------
(* The goods. *)

\* Item i has been there in full, or is with the commit of receipt r.
Earned(r, i) ==
  IF i \in req[r].locked THEN req[r].written[i] >= ordered[i] ELSE most[i] >= ordered[i]

\* A receipt has locked the rows it updated; what it wrote there is what
\* was committed and what it has entered itself.  The rows are items of the
\* order, and the status it means to write is one the goods bear out.
ReceiptInv(r) ==
  Receiving(r) =>
    /\ req[r].locked \subseteq DOMAIN items
    /\ \A k \in DOMAIN req[r].lines : req[r].lines[k].item \in DOMAIN items
    /\ \A i \in Items : i \in req[r].locked => req[r].written[i] = items[i] + req[r].entered[i]
    /\ \A i \in Items : i \notin req[r].locked => req[r].entered[i] = 0
    /\ req[r].status # "draft"
    /\ req[r].status = "received" => At(r, "status") /\ \A i \in 1..created : Earned(r, i)

\* A row is locked by one receipt at most.
LocksApart ==
  \A q, r \in Requests : (Receiving(q) /\ Receiving(r) /\ q # r) =>
    req[q].locked \cap req[r].locked = {}

\* What is accepted of an item was accepted of it at some time.
MostIsMost == \A i \in Items : accepted[i] <= most[i]

GoodsInv ==
  /\ ReceivedIsAccepted /\ DraftHasNoReceipts /\ ReceivedIsEarned /\ MostIsMost
  /\ LocksApart /\ \A r \in Requests : ReceiptInv(r)

ProcurementInv == TypeOK /\ NumbersInv /\ GoodsInv

LEMMA InitInv == Init => ProcurementInv
<1> SUFFICES ASSUME Init PROVE ProcurementInv
  OBVIOUS
<1>1. created \in 1..MaxItems /\ ordered \in [1..created -> Quantities] /\ items \in [1..created -> Int]
  BY DEF Init, Items
<1>2. \A r \in Requests : req[r] = Idle
  BY DEF Init
<1>3. TypeOK
  <2>1. numbers \in [Years -> SUBSET (Nat \ {0})] /\ status \in PoStatus
    BY DEF Init, PoStatus
  <2>2. \E n \in created..MaxItems : ordered \in [1..n -> Quantities] /\ items \in [1..n -> Int]
    BY <1>1
  <2>3. accepted \in [Items -> Int] /\ most \in [Items -> Int] /\ mostInAll \in Int
    BY DEF Init, NoGoods
  <2>4. invoices \in [Invoices -> Invoice] /\ req \in [Requests -> Request]
    BY DEF Init, NoGoods, Invoice, InvoiceStatus, Request, Idle
  <2> QED BY <1>1, <2>1, <2>2, <2>3, <2>4 DEF TypeOK, Items
<1>4. NumbersInv
  <2>1. \A y \in Years : numbers[y] = {}
    BY DEF Init
  <2>2. Cardinality({}) = 0 /\ IsFiniteSet({})
    BY FS_EmptySet
  <2>3. {} = 1..0
    OBVIOUS
  <2>4. \A y \in Years : numbers[y] = 1..Cardinality(numbers[y]) /\ IsFiniteSet(numbers[y])
    BY <2>1, <2>2, <2>3
  <2> QED BY <1>2, <2>4 DEF NumbersInv, NumbersGapFree, At, Idle
<1>5. GoodsInv
  <2>1. ReceivedIsAccepted /\ DraftHasNoReceipts /\ ReceivedIsEarned /\ MostIsMost
    BY <1>1 DEF Init, ReceivedIsAccepted, DraftHasNoReceipts, ReceivedIsEarned, MostIsMost, NoGoods
  <2> QED BY <1>2, <2>1 DEF GoodsInv, LocksApart, ReceiptInv, Receiving, Idle
<1> QED BY <1>3, <1>4, <1>5 DEF ProcurementInv

\* A step that leaves the goods and the receipts alone keeps what was said
\* of them; the status may change, to one that claims nothing.
LEMMA GoodsKept ==
  ASSUME TypeOK, GoodsInv, UNCHANGED <<order, goods>>,
         status' = status \/ status' = "issued",
         NEW r \in Requests, NEW next, Becomes(r, next), next.step \notin {"lines", "status"}
  PROVE  GoodsInv'
<1>1. \A q \in Requests : Receiving(q)' => q # r /\ Receiving(q) /\ req'[q] = req[q]
  BY OneMoves DEF Receiving
<1>2. (ReceivedIsAccepted /\ DraftHasNoReceipts /\ ReceivedIsEarned /\ MostIsMost)'
  BY DEF GoodsInv, ReceivedIsAccepted, DraftHasNoReceipts, ReceivedIsEarned, MostIsMost, NoGoods
<1>3. LocksApart'
  BY <1>1 DEF GoodsInv, LocksApart
<1>4. \A q \in Requests : ReceiptInv(q)'
  BY <1>1 DEF GoodsInv, ReceiptInv, Earned, At
<1> QED BY <1>2, <1>3, <1>4 DEF GoodsInv

\* The steps between reading and writing, and those that give up.
LEMMA QuietInv ==
  ASSUME ProcurementInv, NEW r \in Requests,
         \/ Rollback(r) \/ SeeDraft(r)
         \/ \E i \in Invoices : MatchOrder(r, i)
         \/ MatchReceipts(r)
  PROVE  ProcurementInv'
<1> USE DEF ProcurementInv
<1>1. UNCHANGED <<numbers, status, order, goods, invoices>>
  BY DEF Rollback, SeeDraft, MatchOrder, MatchReceipts
<1>2. \E next \in Request : Becomes(r, next) /\ next.step \notin {"numbered", "lines", "status"}
  <2>1. CASE Rollback(r)
    BY <2>1 DEF Rollback, End, Request, Idle
  <2>2. CASE SeeDraft(r)
    BY <2>2 DEF SeeDraft, Request
  <2>3. CASE \E i \in Invoices : MatchOrder(r, i)
    <3>1. PICK i \in Invoices : MatchOrder(r, i)
      BY <2>3
    <3>2. Total(OrderQty) \in Int
      BY OrderQtyType, TotalType
    <3>3. WithinTolerance(invoices[i].amount, Total(OrderQty)) \in BOOLEAN
      BY DEF WithinTolerance
    <3> DEFINE next == [step |-> "ordered", invoice |-> i, ordered |-> Total(OrderQty),
                        fits |-> WithinTolerance(invoices[i].amount, Total(OrderQty))]
    <3>4. next \in Request /\ next.step = "ordered"
      BY <3>2, <3>3 DEF Request
    <3>5. Becomes(r, next)
      BY <3>1 DEF MatchOrder
    <3> QED BY <3>4, <3>5
  <2>4. CASE MatchReceipts(r)
    <3>1. req[r].invoice \in Invoices
      BY <2>4, RequestKinds DEF MatchReceipts, Ordered
    <3> DEFINE next == [step |-> "approve", invoice |-> req[r].invoice]
    <3>2. next \in Request /\ next.step = "approve"
      BY <3>1 DEF Request
    <3>3. Becomes(r, next)
      BY <2>4 DEF MatchReceipts
    <3> QED BY <3>2, <3>3
  <2> QED BY <2>1, <2>2, <2>3, <2>4
<1>3. PICK next \in Request : Becomes(r, next) /\ next.step \notin {"numbered", "lines", "status"}
  BY <1>2
<1>4. TypeOK'
  BY <1>1, <1>3, OneMoves DEF TypeOK
<1>5. NumbersInv'
  BY <1>1, <1>3, NumbersKept
<1>6. GoodsInv'
  BY <1>1, <1>3, GoodsKept
<1> QED BY <1>4, <1>5, <1>6

LEMMA NumberingInv ==
  ASSUME ProcurementInv, NEW r \in Requests,
         (\E y \in Years : TakeNumber(r, y)) \/ InsertPo(r)
  PROVE  ProcurementInv'
<1> USE DEF ProcurementInv
<1>1. TypeOK' /\ NumbersInv'
  BY TakeNumberInv, InsertPoInv
<1>2. UNCHANGED <<status, order, goods>>
  BY DEF TakeNumber, InsertPo
<1>3. \E next : Becomes(r, next) /\ next.step \notin {"lines", "status"}
  <2>1. CASE \E y \in Years : TakeNumber(r, y)
    <3>1. PICK y \in Years : TakeNumber(r, y)
      BY <2>1
    <3> DEFINE next == [step |-> "numbered", year |-> y, no |-> NextNo(y)]
    <3>2. Becomes(r, next) /\ next.step = "numbered"
      BY <3>1 DEF TakeNumber
    <3> QED BY <3>2
  <2>2. CASE InsertPo(r)
    BY <2>2 DEF InsertPo, End, Idle
  <2> QED BY <2>1, <2>2
<1>4. PICK next : Becomes(r, next) /\ next.step \notin {"lines", "status"}
  BY <1>3
<1>5. GoodsInv'
  BY <1>2, <1>4, GoodsKept
<1> QED BY <1>1, <1>5

LEMMA WriteInv ==
  ASSUME ProcurementInv, NEW r \in Requests, IssuePo(r) \/ ApproveInvoice(r)
  PROVE  ProcurementInv'
<1> USE DEF ProcurementInv
<1>1. /\ UNCHANGED <<numbers, order, goods>> /\ Becomes(r, Idle)
      /\ status' = status \/ status' = "issued"
  BY DEF IssuePo, ApproveInvoice, End
<1>2. Idle \in Request /\ Idle.step = "idle"
  BY DEF Request, Idle
<1>3. invoices' \in [Invoices -> Invoice]
  <2>1. CASE IssuePo(r)
    BY <2>1 DEF IssuePo, TypeOK
  <2>2. CASE ApproveInvoice(r)
    <3>1. req[r].invoice \in Invoices
      BY <2>2, RequestKinds DEF ApproveInvoice, Approval
    <3>2. \A i \in Invoice : [i EXCEPT !.status = "approved"] \in Invoice
      BY DEF Invoice, InvoiceStatus
    <3> QED BY <2>2, <3>1, <3>2 DEF ApproveInvoice, TypeOK
  <2> QED BY <2>1, <2>2
<1>4. TypeOK'
  BY <1>1, <1>2, <1>3, OneMoves DEF TypeOK, PoStatus
<1>5. NumbersInv'
  BY <1>1, <1>2, NumbersKept
<1>6. GoodsInv'
  BY <1>1, <1>2, GoodsKept
<1> QED BY <1>4, <1>5, <1>6

LEMMA CreateInvoiceInv ==
  ASSUME ProcurementInv, NEW i \in Invoices, CreateInvoice(i)
  PROVE  ProcurementInv'
<1>1. UNCHANGED <<numbers, status, order, goods, req>>
  BY DEF CreateInvoice
<1>2. PICK amount \in Amounts :
        invoices' = [invoices EXCEPT ![i] = [status |-> "received", amount |-> amount]]
  BY DEF CreateInvoice
<1>3. [status |-> "received", amount |-> amount] \in Invoice
  BY DEF Invoice, InvoiceStatus
<1>4. TypeOK'
  BY <1>1, <1>2, <1>3 DEF ProcurementInv, TypeOK
<1>5. NumbersInv'
  BY <1>1 DEF ProcurementInv, NumbersInv, NumbersGapFree, At
<1>6. GoodsInv'
  BY <1>1 DEF ProcurementInv, GoodsInv, ReceivedIsAccepted, DraftHasNoReceipts, ReceivedIsEarned,
              MostIsMost, LocksApart, ReceiptInv, Receiving, Earned, At
<1> QED BY <1>4, <1>5, <1>6 DEF ProcurementInv

LEMMA AnotherRow ==
  ASSUME NEW S, NEW rows \in Seq(S), NEW x \in S
  PROVE  /\ Append(rows, x) \in [1..(Len(rows) + 1) -> S]
         /\ \A i \in 1..(Len(rows) + 1) :
              Append(rows, x)[i] = IF i <= Len(rows) THEN rows[i] ELSE x
<1>1. Append(rows, x) \in Seq(S) /\ Len(Append(rows, x)) = Len(rows) + 1
  OBVIOUS
<1>2. Append(rows, x) \in [1..(Len(rows) + 1) -> S]
  <2> DEFINE more == Append(rows, x)
  <2>1. \A t \in Seq(S) : t \in [1..Len(t) -> S]
    OBVIOUS
  <2>2. more \in Seq(S) /\ Len(more) = Len(rows) + 1
    BY <1>1
  <2> HIDE DEF more
  <2>3. more \in [1..(Len(rows) + 1) -> S]
    BY <2>1, <2>2
  <2> QED BY <2>3 DEF more
<1>3. Len(rows) \in Nat
  OBVIOUS
<1>4. ASSUME NEW i \in 1..(Len(rows) + 1)
      PROVE  Append(rows, x)[i] = IF i <= Len(rows) THEN rows[i] ELSE x
  <2>1. CASE i <= Len(rows)
    BY <1>3, <2>1
  <2>2. CASE i = Len(rows) + 1
    BY <1>3, <2>2
  <2> QED BY <1>3, <2>1, <2>2
<1> QED BY <1>2, <1>4

\* An item more, of which nothing has been accepted yet.
LEMMA AddItemInv ==
  ASSUME ProcurementInv, AddItem
  PROVE  ProcurementInv'
<1> USE DEF ProcurementInv
<1>1. UNCHANGED <<numbers, status, created, accepted, most, mostInAll, invoices, req>>
  BY DEF AddItem
<1>2. /\ Len(items) \in created..MaxItems /\ created \in Nat \ {0} /\ Len(items) < MaxItems
      /\ DOMAIN items = 1..Len(items) /\ items \in Seq(Int) /\ items' = Append(items, 0)
  BY ItemRows DEF AddItem, Items
<1>3. /\ items' \in [1..(Len(items) + 1) -> Int] /\ DOMAIN items' = 1..(Len(items) + 1)
      /\ \A i \in DOMAIN items : items'[i] = items[i]
      /\ items'[Len(items) + 1] = 0
  <2>1. items' \in [1..(Len(items) + 1) -> Int]
    <3>1. 0 \in Int
      OBVIOUS
    <3> QED BY <1>2, <3>1, AnotherRow
  <2>2. \A i \in 1..(Len(items) + 1) : items'[i] = IF i <= Len(items) THEN items[i] ELSE 0
    BY <1>2, AnotherRow
  <2>3. Len(items) \in Nat
    BY <1>2
  <2> QED BY <1>2, <2>1, <2>2, <2>3
<1>4. /\ ordered' \in [1..(Len(items) + 1) -> Quantities]
      /\ \A i \in DOMAIN items : ordered'[i] = ordered[i]
  <2>1. PICK q \in Quantities : ordered' = Append(ordered, q)
    BY DEF AddItem
  <2>2. ordered \in Seq(Quantities) /\ Len(ordered) = Len(items)
    BY ItemRows
  <2>3. ordered' \in [1..(Len(items) + 1) -> Quantities]
    BY <2>1, <2>2, AnotherRow
  <2>4. \A i \in 1..(Len(items) + 1) : ordered'[i] = IF i <= Len(items) THEN ordered[i] ELSE q
    BY <2>1, <2>2, AnotherRow
  <2> QED BY <1>2, <2>3, <2>4
<1>5. TypeOK'
  <2>1. Len(items) + 1 \in created..MaxItems
    BY <1>2
  <2>2. \E n \in created..MaxItems : ordered' \in [1..n -> Quantities] /\ items' \in [1..n -> Int]
    BY <1>3, <1>4, <2>1
  <2> QED BY <1>1, <2>2 DEF TypeOK
<1>6. NumbersInv'
  BY <1>1 DEF NumbersInv, NumbersGapFree, At
<1>7. ReceivedIsAccepted' /\ DraftHasNoReceipts' /\ ReceivedIsEarned' /\ MostIsMost'
  <2>1. \A i \in Items : i \in DOMAIN items' => i \in DOMAIN items \/ i = Len(items) + 1
    BY <1>2, <1>3
  <2>2. DOMAIN items \subseteq DOMAIN items' /\ Len(items) + 1 \notin DOMAIN items
    BY <1>2, <1>3
  <2>3. ReceivedIsAccepted'
    BY <1>1, <1>3, <2>1, <2>2 DEF GoodsInv, ReceivedIsAccepted
  <2>4. \A i \in 1..created : ordered'[i] = ordered[i]
    <3>1. \A i \in 1..created : i \in DOMAIN items
      BY <1>2
    <3> QED BY <1>4, <3>1
  <2> QED BY <1>1, <2>3, <2>4 DEF GoodsInv, DraftHasNoReceipts, ReceivedIsEarned, MostIsMost, NoGoods
<1>8. LocksApart'
  BY <1>1 DEF GoodsInv, LocksApart, Receiving
<1>9. ASSUME NEW q \in Requests PROVE ReceiptInv(q)'
  <2> SUFFICES ASSUME Receiving(q) PROVE ReceiptInv(q)'
    BY <1>1 DEF ReceiptInv, Receiving
  <2>1. ReceiptInv(q)
    BY DEF GoodsInv
  <2>2. \A i \in 1..created : i \in DOMAIN items
    BY <1>2
  <2>3. \A i \in 1..created : Earned(q, i)' = Earned(q, i)
    BY <1>1, <1>4, <2>2 DEF Earned
  <2> QED BY <1>1, <1>2, <1>3, <2>1, <2>3 DEF ReceiptInv, Receiving, At
<1> QED BY <1>5, <1>6, <1>7, <1>8, <1>9 DEF GoodsInv

\* A receipt that begins has locked nothing.
LEMMA BeginReceiptInv ==
  ASSUME ProcurementInv, NEW r \in Requests, BeginReceipt(r)
  PROVE  ProcurementInv'
<1> USE DEF ProcurementInv
<1>1. UNCHANGED <<numbers, status, order, goods, invoices>> /\ Receivable(status)
  BY DEF BeginReceipt
<1>2. PICK lines \in Lines :
        /\ \A k \in DOMAIN lines : lines[k].item <= Len(items)
        /\ Becomes(r, [step |-> "lines", lines |-> lines, locked |-> {},
                       written |-> NoGoods, entered |-> NoGoods, status |-> status])
  BY DEF BeginReceipt
<1> DEFINE next == [step |-> "lines", lines |-> lines, locked |-> {},
                    written |-> NoGoods, entered |-> NoGoods, status |-> status]
<1>3. lines \in Seq(Line)
  <2>1. (\E l \in Line : lines = <<l>>) \/ (\E l, m \in Line : lines = <<l, m>>)
    BY DEF Lines
  <2>2. CASE \E l \in Line : lines = <<l>>
    BY <2>2
  <2>3. CASE \E l, m \in Line : lines = <<l, m>>
    BY <2>3
  <2> QED BY <2>1, <2>2, <2>3
<1>4. \A k \in DOMAIN lines : lines[k].item \in DOMAIN items
  <2>1. \A k \in DOMAIN lines : lines[k] \in Line
    BY <1>3
  <2>2. \A k \in DOMAIN lines : lines[k].item \in 1..MaxItems
    BY <2>1 DEF Line, Items
  <2> QED BY <1>2, <2>2, ItemRows
<1>5. next \in Request
  <2>1. NoGoods \in [Items -> Int]
    BY DEF NoGoods
  <2>2. next \in Receipt("lines")
    BY <1>3, <2>1 DEF Receipt, TypeOK
  <2> QED BY <2>2 DEF Request
<1>6. req'[r] = next /\ \A q \in Requests \ {r} : req'[q] = req[q]
  BY <1>2, OneMoves
<1>7. TypeOK'
  BY <1>1, <1>2, <1>5, OneMoves DEF TypeOK
<1>8. NumbersInv'
  BY <1>1, <1>2, NumbersKept
<1>9. GoodsInv'
  <2>1. (ReceivedIsAccepted /\ DraftHasNoReceipts /\ ReceivedIsEarned /\ MostIsMost)'
    BY <1>1 DEF GoodsInv, ReceivedIsAccepted, DraftHasNoReceipts, ReceivedIsEarned, MostIsMost
  <2>2. LocksApart'
    BY <1>6 DEF GoodsInv, LocksApart, Receiving
  <2>3. ASSUME NEW q \in Requests PROVE ReceiptInv(q)'
    <3>1. CASE q = r
      BY <1>1, <1>4, <1>6, <3>1 DEF ReceiptInv, NoGoods, Receivable
    <3>2. CASE q # r
      BY <1>1, <1>6, <3>2 DEF GoodsInv, ReceiptInv, Receiving, Earned, At
    <3> QED BY <3>1, <3>2
  <2> QED BY <2>1, <2>2, <2>3 DEF GoodsInv
<1> QED BY <1>7, <1>8, <1>9

\* A line locks its row, and adds as much to what is written there as to
\* what has been entered.
LEMMA ReceiveLineInv ==
  ASSUME ProcurementInv, NEW r \in Requests, ReceiveLine(r)
  PROVE  ProcurementInv'
<1> USE DEF ProcurementInv
<1> DEFINE old  == req[r]
           line == Head(old.lines)
           sum  == Seen(r, line.item) + line.accepted
           next == [step |-> "lines", lines |-> Tail(old.lines),
                    locked |-> old.locked \cup {line.item},
                    written |-> [old.written EXCEPT ![line.item] = sum],
                    entered |-> [old.entered EXCEPT ![line.item] = @ + line.accepted],
                    status |-> old.status]
<1>1. /\ UNCHANGED <<numbers, status, order, goods, invoices>>
      /\ At(r, "lines") /\ old.lines # <<>> /\ RowFree(r, line.item) /\ Becomes(r, next)
  BY DEF ReceiveLine
<1>2. old \in Receipt("lines") /\ old.step = "lines" /\ ReceiptInv(r)
  BY <1>1, RequestKinds DEF GoodsInv, At
<1>3. /\ line \in Line /\ line.item \in Items /\ line.accepted \in Int
      /\ line.item \in DOMAIN items /\ Tail(old.lines) \in Seq(Line)
      /\ \A k \in DOMAIN Tail(old.lines) : Tail(old.lines)[k].item \in DOMAIN items
  <2>1. old.lines \in Seq(Line)
    BY <1>2 DEF Receipt
  <2>2. /\ line = old.lines[1] /\ 1 \in DOMAIN old.lines /\ line \in Line
        /\ Tail(old.lines) \in Seq(Line)
        /\ \A k \in DOMAIN Tail(old.lines) :
             k + 1 \in DOMAIN old.lines /\ Tail(old.lines)[k] = old.lines[k + 1]
    BY <1>1, <2>1
  <2>3. line.item \in Items /\ line.accepted \in Int
    BY <2>2 DEF Line
  <2>4. \A k \in DOMAIN old.lines : old.lines[k].item \in DOMAIN items
    BY <1>1, <1>2 DEF ReceiptInv, Receiving, At
  <2> HIDE DEF line, old
  <2> QED BY <2>2, <2>3, <2>4
<1>4. /\ old.written \in [Items -> Int] /\ old.entered \in [Items -> Int]
      /\ old.locked \subseteq Items /\ old.status \in PoStatus
  BY <1>2 DEF Receipt
<1>5. /\ sum \in Int
      /\ sum = items[line.item] + old.entered[line.item] + line.accepted
  <2>1. items[line.item] \in Int
    BY <1>3, ItemRows
  <2>2. Seen(r, line.item) = items[line.item] + old.entered[line.item]
    <3>1. CASE line.item \in old.locked
      <4>1. old.written[line.item] = items[line.item] + old.entered[line.item]
        BY <1>1, <1>2, <1>3, <3>1 DEF ReceiptInv, Receiving, At
      <4> QED BY <3>1, <4>1 DEF Seen
    <3>2. CASE line.item \notin old.locked
      <4>1. old.entered[line.item] = 0
        BY <1>1, <1>2, <1>3, <3>2 DEF ReceiptInv, Receiving, At
      <4> QED BY <2>1, <3>2, <4>1 DEF Seen
    <3> QED BY <3>1, <3>2
  <2>3. old.entered[line.item] \in Int
    BY <1>3, <1>4
  <2> HIDE DEF line, old
  <2> QED BY <1>3, <2>1, <2>2, <2>3
<1> HIDE DEF line, sum
<1>6. next \in Request
  <2>1. /\ [old.written EXCEPT ![line.item] = sum] \in [Items -> Int]
        /\ [old.entered EXCEPT ![line.item] = @ + line.accepted] \in [Items -> Int]
    <3>1. old.entered[line.item] + line.accepted \in Int
      BY <1>3, <1>4
    <3> HIDE DEF old
    <3> QED BY <1>3, <1>4, <1>5, <3>1
  <2>2. next \in Receipt("lines")
    BY <1>3, <1>4, <2>1 DEF Receipt
  <2> QED BY <2>2 DEF Request
<1>7. req'[r] = next /\ \A q \in Requests \ {r} : req'[q] = req[q]
  BY <1>1, OneMoves
<1>8. TypeOK'
  BY <1>1, <1>6, OneMoves DEF TypeOK
<1>9. NumbersInv'
  <2>1. next.step # "numbered"
    OBVIOUS
  <2> HIDE DEF next
  <2> QED BY <1>1, <2>1, NumbersKept
<1>10. ReceiptInv(r)'
  <2>1. old.locked \subseteq DOMAIN items /\ old.status \notin {"draft", "received"}
    BY <1>1, <1>2 DEF ReceiptInv, Receiving, At
  <2>2. /\ \A i \in Items : i \in old.locked => old.written[i] = items[i] + old.entered[i]
        /\ \A i \in Items : i \notin old.locked => old.entered[i] = 0
    BY <1>1, <1>2 DEF ReceiptInv, Receiving, At
  <2>3. /\ next.locked = old.locked \cup {line.item} /\ next.lines = Tail(old.lines)
        /\ next.status = old.status /\ next.step = "lines"
        /\ \A i \in Items \ {line.item} :
             next.written[i] = old.written[i] /\ next.entered[i] = old.entered[i]
        /\ next.written[line.item] = sum
        /\ next.entered[line.item] = old.entered[line.item] + line.accepted
    BY <1>3, <1>4
  <2>4. next.written[line.item] = items[line.item] + next.entered[line.item]
    <3>1. /\ items[line.item] \in Int /\ old.entered[line.item] \in Int
          /\ line.accepted \in Int
      BY <1>3, <1>4, ItemRows
    <3> HIDE DEF next, old
    <3> QED BY <1>5, <2>3, <3>1
  <2>5. \A i \in Items : i \in next.locked => next.written[i] = items[i] + next.entered[i]
    BY <2>2, <2>3, <2>4
  <2>6. \A i \in Items : i \notin next.locked => next.entered[i] = 0
    BY <2>2, <2>3
  <2> HIDE DEF next, old
  <2> QED BY <1>1, <1>3, <1>7, <2>1, <2>3, <2>5, <2>6 DEF ReceiptInv
<1>11. LocksApart'
  <2>1. next.locked = old.locked \cup {line.item}
    OBVIOUS
  <2>2. \A q \in Requests \ {r} : Receiving(q) => line.item \notin req[q].locked
    BY <1>1 DEF RowFree, Receiving
  <2>3. \A q \in Requests \ {r} : Receiving(q) => old.locked \cap req[q].locked = {}
    BY <1>1 DEF GoodsInv, LocksApart, Receiving, At
  <2> HIDE DEF next, old
  <2>4. \A q \in Requests \ {r} : Receiving(q) => next.locked \cap req[q].locked = {}
    BY <2>1, <2>2, <2>3
  <2>5. \A p, q \in Requests \ {r} : Receiving(p) /\ Receiving(q) /\ p # q =>
          req[p].locked \cap req[q].locked = {}
    BY DEF GoodsInv, LocksApart
  <2>6. \A q \in Requests \ {r} : Receiving(q)' => Receiving(q)
    BY <1>7 DEF Receiving
  <2> QED BY <1>7, <2>4, <2>5, <2>6 DEF LocksApart
<1>12. \A q \in Requests \ {r} : ReceiptInv(q)'
  BY <1>1, <1>7 DEF GoodsInv, ReceiptInv, Receiving, Earned, At
<1>13. (ReceivedIsAccepted /\ DraftHasNoReceipts /\ ReceivedIsEarned /\ MostIsMost)'
  BY <1>1 DEF GoodsInv, ReceivedIsAccepted, DraftHasNoReceipts, ReceivedIsEarned, MostIsMost
<1> QED BY <1>8, <1>9, <1>10, <1>11, <1>12, <1>13 DEF GoodsInv

\* The status a receipt means to write is one its items bear out.
LEMMA ReadFreshInv ==
  ASSUME ProcurementInv, NEW r \in Requests, ReadFresh(r)
  PROVE  ProcurementInv'
<1> USE DEF ProcurementInv
<1> DEFINE next == [req[r] EXCEPT !.step = "status", !.status = FreshStatus(r)]
<1>1. /\ UNCHANGED <<numbers, status, order, goods, invoices>>
      /\ At(r, "lines") /\ Becomes(r, next)
  BY DEF ReadFresh
<1>2. req[r] \in Receipt("lines") /\ ReceiptInv(r)
  BY <1>1, RequestKinds DEF GoodsInv
<1>3. FreshStatus(r) \in {"received", "partial", req[r].status}
  BY DEF FreshStatus
<1>4. /\ next \in Receipt("status") /\ next.step = "status" /\ next.status = FreshStatus(r)
      /\ next.locked = req[r].locked /\ next.lines = req[r].lines
      /\ next.written = req[r].written /\ next.entered = req[r].entered
  BY <1>2, <1>3 DEF Receipt, PoStatus
<1>5. next \in Request
  BY <1>4 DEF Request
<1>6. req'[r] = next /\ \A q \in Requests \ {r} : req'[q] = req[q]
  BY <1>1, OneMoves
<1>7. TypeOK'
  BY <1>1, <1>5, OneMoves DEF TypeOK
<1>8. NumbersInv'
  <2> HIDE DEF next
  <2> QED BY <1>1, <1>4, NumbersKept
<1>9. req[r].status # "received" /\ req[r].status # "draft"
  BY <1>1, <1>2 DEF ReceiptInv, Receiving, At
<1>10. FreshStatus(r) = "received" => \A i \in 1..created : Earned(r, i)
  <2> SUFFICES ASSUME FreshStatus(r) = "received", NEW i \in 1..created PROVE Earned(r, i)
    OBVIOUS
  <2>1. i \in DOMAIN items /\ i \in Items /\ items[i] \in Int /\ ordered[i] \in Int
    BY ItemRows DEF Items
  <2>2. Seen(r, i) >= ordered[i]
    BY <1>9, <2>1 DEF FreshStatus, ItemsOf
  <2>3. items[i] = accepted[i] /\ accepted[i] <= most[i] /\ most[i] \in Int
    BY <2>1 DEF GoodsInv, ReceivedIsAccepted, MostIsMost, TypeOK
  <2> QED BY <2>1, <2>2, <2>3 DEF Seen, Earned
<1> HIDE DEF next
<1>11. ReceiptInv(r)'
  <2>1. \A i \in 1..created : Earned(r, i)' = Earned(r, i)
    BY <1>1, <1>4, <1>6 DEF Earned
  <2> QED BY <1>1, <1>2, <1>3, <1>4, <1>6, <1>9, <1>10, <2>1 DEF ReceiptInv, Receiving, At
<1>12. \A q \in Requests \ {r} : ReceiptInv(q)'
  BY <1>1, <1>6 DEF GoodsInv, ReceiptInv, Receiving, Earned, At
<1>13. LocksApart'
  BY <1>1, <1>4, <1>6 DEF GoodsInv, LocksApart, Receiving, At
<1>14. (ReceivedIsAccepted /\ DraftHasNoReceipts /\ ReceivedIsEarned /\ MostIsMost)'
  BY <1>1 DEF GoodsInv, ReceivedIsAccepted, DraftHasNoReceipts, ReceivedIsEarned, MostIsMost
<1> QED BY <1>7, <1>8, <1>11, <1>12, <1>13, <1>14 DEF GoodsInv

\* What a receipt has entered is what it adds to the items, and the rows
\* another receipt has locked are not among them.
LEMMA CommitReceiptInv ==
  ASSUME ProcurementInv, NEW r \in Requests, CommitReceipt(r)
  PROVE  ProcurementInv'
<1> USE DEF ProcurementInv
<1> DEFINE mine == req[r].entered
<1>1. /\ UNCHANGED <<numbers, order, invoices>> /\ At(r, "status") /\ Becomes(r, Idle)
      /\ status' = req[r].status
      /\ items' = [i \in DOMAIN items |-> Seen(r, i)]
      /\ accepted' = [i \in Items |-> accepted[i] + mine[i]]
      /\ most' = [i \in Items |-> Larger(most[i], accepted'[i])]
      /\ mostInAll' = Larger(mostInAll, Total(accepted'))
  BY DEF CommitReceipt, End
<1>2. req[r] \in Receipt("status") /\ ReceiptInv(r) /\ Receiving(r)
  BY <1>1, RequestKinds DEF GoodsInv, Receiving, At
<1>3. /\ mine \in [Items -> Int] /\ req[r].status \in PoStatus
      /\ req[r].locked \subseteq DOMAIN items
      /\ \A i \in Items : i \in req[r].locked => req[r].written[i] = items[i] + mine[i]
      /\ \A i \in Items : i \notin req[r].locked => mine[i] = 0
      /\ req[r].status # "draft"
      /\ req[r].status = "received" => \A i \in 1..created : Earned(r, i)
  BY <1>2 DEF Receipt, ReceiptInv
<1> HIDE DEF mine
<1>4. /\ DOMAIN items = 1..Len(items) /\ DOMAIN items \subseteq Items
      /\ items \in [DOMAIN items -> Int] /\ \A i \in 1..created : i \in DOMAIN items
      /\ Len(items) \in created..MaxItems /\ ordered \in [DOMAIN items -> Quantities]
  BY ItemRows DEF Items
<1>5. \A i \in DOMAIN items : items'[i] = items[i] + mine[i] /\ items'[i] \in Int
  <2> SUFFICES ASSUME NEW i \in DOMAIN items
               PROVE  Seen(r, i) = items[i] + mine[i] /\ items[i] + mine[i] \in Int
    BY <1>1
  <2>1. i \in Items /\ items[i] \in Int /\ mine[i] \in Int
    BY <1>3, <1>4
  <2> QED BY <1>3, <2>1 DEF Seen
<1>6. DOMAIN items' = DOMAIN items
  BY <1>1
<1>7. /\ \A i \in Items : accepted'[i] = accepted[i] + mine[i]
      /\ accepted' \in [Items -> Int] /\ Total(accepted') \in Int
  <2>1. \A i \in Items : accepted'[i] = accepted[i] + mine[i] /\ accepted[i] + mine[i] \in Int
    BY <1>1, <1>3 DEF TypeOK
  <2>2. accepted' \in [Items -> Int]
    BY <1>1, <2>1
  <2> QED BY <2>1, <2>2, TotalType
<1>8. \A i \in Items : most'[i] \in Int /\ most'[i] >= most[i] /\ most'[i] >= accepted'[i]
  BY <1>1, <1>7 DEF TypeOK, Larger
<1>9. req'[r] = Idle /\ \A q \in Requests \ {r} : req'[q] = req[q]
  BY <1>1, OneMoves
<1>10. TypeOK'
  <2>1. \E n \in created..MaxItems : ordered' \in [1..n -> Quantities] /\ items' \in [1..n -> Int]
    BY <1>1, <1>4, <1>5
  <2>2. most' \in [Items -> Int] /\ mostInAll' \in Int
    BY <1>1, <1>7, <1>8 DEF TypeOK, Larger
  <2>3. Idle \in Request
    BY DEF Request
  <2> QED BY <1>1, <1>3, <1>7, <2>1, <2>2, <2>3, OneMoves DEF TypeOK
<1>11. NumbersInv'
  BY <1>1, NumbersKept DEF Idle
<1>12. ReceivedIsAccepted'
  <2> SUFFICES ASSUME NEW i \in Items
               PROVE  accepted'[i] = IF i \in DOMAIN items' THEN items'[i] ELSE 0
    BY DEF ReceivedIsAccepted
  <2>1. accepted[i] = IF i \in DOMAIN items THEN items[i] ELSE 0
    BY DEF GoodsInv, ReceivedIsAccepted
  <2>2. CASE i \in DOMAIN items
    BY <1>5, <1>6, <1>7, <2>1, <2>2
  <2>3. CASE i \notin DOMAIN items
    <3>1. mine[i] = 0
      BY <1>3, <2>3
    <3> QED BY <1>6, <1>7, <2>1, <2>3, <3>1
  <2> QED BY <2>2, <2>3
<1>13. DraftHasNoReceipts' /\ ReceivedIsEarned' /\ MostIsMost'
  <2>1. MostIsMost' /\ DraftHasNoReceipts'
    BY <1>1, <1>3, <1>8 DEF MostIsMost, DraftHasNoReceipts
  <2>2. ASSUME req[r].status = "received", NEW i \in 1..created PROVE most'[i] >= ordered[i]
    <3>1. i \in DOMAIN items /\ i \in Items /\ Earned(r, i)
      BY <1>3, <1>4, <2>2
    <3>2. ordered[i] \in Int /\ most[i] \in Int /\ accepted'[i] \in Int
      BY <1>4, <1>7, <3>1 DEF TypeOK
    <3>3. CASE i \in req[r].locked
      <4>1. accepted'[i] = items'[i] /\ items'[i] = req[r].written[i]
        BY <1>3, <1>5, <1>6, <1>12, <3>1, <3>3 DEF ReceivedIsAccepted
      <4>2. accepted'[i] >= ordered[i]
        BY <3>1, <3>3, <4>1 DEF Earned
      <4> QED BY <1>8, <3>1, <3>2, <4>2
    <3>4. CASE i \notin req[r].locked
      BY <1>8, <3>1, <3>2, <3>4 DEF Earned
    <3> QED BY <3>3, <3>4
  <2> QED BY <1>1, <2>1, <2>2 DEF ReceivedIsEarned
<1>14. \A q \in Requests : Receiving(q)' => q # r /\ Receiving(q) /\ req'[q] = req[q]
  BY <1>9 DEF Receiving, Idle
<1>15. LocksApart'
  BY <1>14 DEF GoodsInv, LocksApart
<1>16. ASSUME NEW q \in Requests PROVE ReceiptInv(q)'
  <2> SUFFICES ASSUME Receiving(q)' PROVE ReceiptInv(q)'
    BY DEF ReceiptInv
  <2>1. q # r /\ Receiving(q) /\ req'[q] = req[q] /\ ReceiptInv(q)
    BY <1>14 DEF GoodsInv
  <2>2. req[q].locked \cap req[r].locked = {}
    BY <1>2, <2>1 DEF GoodsInv, LocksApart
  <2>3. \A i \in Items : i \in req[q].locked => items'[i] = items[i]
    <3> SUFFICES ASSUME NEW i \in Items, i \in req[q].locked PROVE items'[i] = items[i]
      OBVIOUS
    <3>1. mine[i] = 0 /\ i \in DOMAIN items
      BY <1>3, <2>1, <2>2 DEF ReceiptInv
    <3>2. items[i] \in Int
      BY <1>4, <3>1
    <3> QED BY <1>5, <3>1, <3>2
  <2>4. req[q].status = "received" =>
          (At(q, "status"))' /\ \A i \in 1..created : Earned(q, i)'
    <3> SUFFICES ASSUME req[q].status = "received", NEW i \in 1..created
                 PROVE  (At(q, "status"))' /\ Earned(q, i)'
      BY <2>1 DEF ReceiptInv, At
    <3>1. At(q, "status") /\ Earned(q, i)
      BY <2>1 DEF ReceiptInv
    <3>2. i \in Items /\ ordered[i] \in Int /\ most[i] \in Int /\ most'[i] \in Int /\ most'[i] >= most[i]
      BY <1>4, <1>8 DEF TypeOK
    <3> QED BY <1>1, <2>1, <3>1, <3>2 DEF Earned, At
  <2> QED BY <1>1, <1>6, <2>1, <2>3, <2>4 DEF ReceiptInv, Receiving
<1> QED BY <1>10, <1>11, <1>12, <1>13, <1>15, <1>16 DEF GoodsInv

-----------------------------------------------------------------------------
(* The theorems. *)

LEMMA NextInv == ProcurementInv /\ [Next]_vars => ProcurementInv'
<1> SUFFICES ASSUME ProcurementInv, [Next]_vars PROVE ProcurementInv'
  OBVIOUS
<1>1. CASE AddItem
  BY <1>1, AddItemInv
<1>2. CASE \E i \in Invoices : CreateInvoice(i)
  BY <1>2, CreateInvoiceInv
<1>3. CASE \E r \in Requests : RequestStep(r)
  <2>1. PICK r \in Requests : RequestStep(r)
    BY <1>3
  <2>2. CASE (\E y \in Years : TakeNumber(r, y)) \/ InsertPo(r)
    BY <2>2, NumberingInv
  <2>3. CASE IssuePo(r) \/ ApproveInvoice(r)
    BY <2>3, WriteInv
  <2>4. CASE \/ Rollback(r) \/ SeeDraft(r)
             \/ \E i \in Invoices : MatchOrder(r, i)
             \/ MatchReceipts(r)
    BY <2>4, QuietInv
  <2>5. CASE BeginReceipt(r)
    BY <2>5, BeginReceiptInv
  <2>6. CASE ReceiveLine(r)
    BY <2>6, ReceiveLineInv
  <2>7. CASE ReadFresh(r)
    BY <2>7, ReadFreshInv
  <2>8. CASE CommitReceipt(r)
    BY <2>8, CommitReceiptInv
  <2> QED BY <2>1, <2>2, <2>3, <2>4, <2>5, <2>6, <2>7, <2>8 DEF RequestStep
<1>4. CASE UNCHANGED vars
  BY <1>4 DEF vars, ProcurementInv, TypeOK, NumbersInv, NumbersGapFree, GoodsInv, ReceivedIsAccepted,
              DraftHasNoReceipts, ReceivedIsEarned, MostIsMost, LocksApart, ReceiptInv, Receiving, Earned, At
<1> QED BY <1>1, <1>2, <1>3, <1>4 DEF Next

LEMMA ProcurementInvariant == Spec => []ProcurementInv
<1>1. Init => ProcurementInv
  BY InitInv
<1>2. ProcurementInv /\ [Next]_vars => ProcurementInv'
  BY NextInv
<1> QED BY <1>1, <1>2, PTL DEF Spec

\* The state of orders, receipts and invoices keeps its type.
THEOREM ProcurementTypeCorrect == Spec => []TypeOK
<1>1. ProcurementInv => TypeOK
  BY DEF ProcurementInv
<1> QED BY <1>1, ProcurementInvariant, PTL

\* next_po_no, under the advisory lock of its year, numbers the orders of a
\* year without a gap, whichever requests are rolled back.
THEOREM NumbersStayGapFree == Spec => []NumbersGapFree
<1>1. ProcurementInv => NumbersGapFree
  BY DEF ProcurementInv, NumbersInv
<1> QED BY <1>1, ProcurementInvariant, PTL

\* However goods receipts overlap, received_qty is the sum of the
\* quantities their lines accepted: no increment is lost.
THEOREM NoReceiptIsLost == Spec => []ReceivedIsAccepted
<1>1. ProcurementInv => ReceivedIsAccepted
  BY DEF ProcurementInv, GoodsInv
<1> QED BY <1>1, ProcurementInvariant, PTL

\* Nothing is received on a draft.
THEOREM DraftsReceiveNothing == Spec => []DraftHasNoReceipts
<1>1. ProcurementInv => DraftHasNoReceipts
  BY DEF ProcurementInv, GoodsInv
<1> QED BY <1>1, ProcurementInvariant, PTL

\* An order is called received only when each item it was created with has
\* been there in full, whatever receipts take back meanwhile.
THEOREM StatusNeverAhead == Spec => []ReceivedIsEarned
<1>1. ProcurementInv => ReceivedIsEarned
  BY DEF ProcurementInv, GoodsInv
<1> QED BY <1>1, ProcurementInvariant, PTL
-----------------------------------------------------------------------------
(* Approval. *)

\* At some time enough had been accepted for what the order asks at the least.
EnoughAccepted == 100 * mostInAll >= 98 * Total(Least)

\* Whoever has matched an order saw at least that much on it, and whoever
\* has found the receipts to cover what was seen, or approved, was right.
MatchInv ==
  /\ Total(accepted) <= mostInAll
  /\ \A r \in Requests :
       /\ At(r, "ordered") => req[r].ordered >= Total(Least)
       /\ At(r, "approve") => EnoughAccepted
  /\ ApprovedIsCovered

LEMMA LeastType == ASSUME TypeOK PROVE Least \in [Items -> Int] /\ Total(Least) \in Int
<1>1. Least \in [Items -> Int]
  BY OrderQtyType DEF Least
<1> QED BY <1>1, TotalType

\* What the order asks for at the least is no more than what it asks for.
LEMMA LeastIsLess == ASSUME TypeOK PROVE Total(Least) <= Total(OrderQty)
<1>1. OrderQty \in [Items -> Int] /\ Least \in [Items -> Int]
  BY OrderQtyType, LeastType
<1>2. AtMost(Least, OrderQty)
  BY <1>1 DEF AtMost, Least
<1> QED BY <1>1, <1>2, TotalGrows

\* A step changes the order, or the goods, or neither.
LEMMA OrderOrGoods ==
  ASSUME [Next]_vars
  PROVE  \/ AddItem
         \/ \E r \in Requests : CommitReceipt(r)
         \/ UNCHANGED <<order, goods>>
<1>1. CASE AddItem \/ (\E i \in Invoices : CreateInvoice(i)) \/ UNCHANGED vars
  BY <1>1 DEF CreateInvoice, vars
<1>2. ASSUME NEW r \in Requests, RequestStep(r) PROVE CommitReceipt(r) \/ UNCHANGED <<order, goods>>
  BY <1>2 DEF RequestStep, TakeNumber, InsertPo, SeeDraft, IssuePo, BeginReceipt, ReceiveLine, ReadFresh,
              MatchOrder, MatchReceipts, ApproveInvoice, Rollback
<1> QED BY <1>1, <1>2 DEF Next

\* Items added later take off, or do not count.
LEMMA LeastShrinks ==
  ASSUME ProcurementInv, [Next]_vars
  PROVE  Total(Least') <= Total(Least) /\ Total(Least') \in Int /\ Total(Least) \in Int
<1>1. TypeOK /\ TypeOK'
  BY NextInv DEF ProcurementInv
<1>2. Least \in [Items -> Int] /\ Least' \in [Items -> Int]
  <2>1. OrderQty' \in [Items -> Int]
    <3>1. \A i \in DOMAIN ordered' : ordered'[i] \in Int
      BY <1>1 DEF TypeOK
    <3> QED BY <3>1 DEF OrderQty
  <2>2. Least' \in [Items -> Int]
    BY <2>1 DEF Least
  <2> QED BY <1>1, <2>2, LeastType
<1>3. AtMost(Least', Least)
  <2>1. CASE UNCHANGED order
    <3>1. Least' = Least
      BY <2>1 DEF Least, OrderQty
    <3> QED BY <1>2, <3>1 DEF AtMost
  <2>2. CASE AddItem
    <3>1. PICK q \in Quantities : ordered' = Append(ordered, q) /\ created' = created
      BY <2>2 DEF AddItem
    <3>2. /\ ordered \in Seq(Quantities) /\ Len(ordered) \in Nat /\ created \in 1..Len(ordered)
          /\ DOMAIN ordered = 1..Len(ordered)
      BY <1>1, ItemRows DEF Items
    <3>3. /\ ordered' \in [1..(Len(ordered) + 1) -> Quantities]
          /\ \A i \in 1..(Len(ordered) + 1) : ordered'[i] = IF i <= Len(ordered) THEN ordered[i] ELSE q
      BY <3>1, <3>2, AnotherRow
    <3> SUFFICES ASSUME NEW i \in Items PROVE Least'[i] <= Least[i]
      BY DEF AtMost
    <3>4. i \in Int /\ Least[i] \in Int
      BY <1>2 DEF Items
    <3>5. CASE i \in 1..Len(ordered)
      <4>1. i \in DOMAIN ordered' /\ ordered'[i] = ordered[i]
        BY <3>2, <3>3, <3>5
      <4>2. OrderQty'[i] = OrderQty[i]
        BY <3>2, <3>5, <4>1 DEF OrderQty
      <4>3. Least'[i] = Least[i]
        BY <3>1, <4>2 DEF Least
      <4> QED BY <3>4, <4>3
    <3>6. CASE i \notin 1..Len(ordered)
      <4>1. OrderQty[i] = 0 /\ i \notin 1..created
        BY <3>2, <3>6 DEF OrderQty
      <4>2. Least[i] = 0
        BY <4>1 DEF Least
      <4>3. OrderQty'[i] \in Int
        <5>1. i \in DOMAIN ordered' => ordered'[i] \in Int
          BY <3>3
        <5> QED BY <5>1 DEF OrderQty
      <4>4. Least'[i] = IF OrderQty'[i] < 0 THEN OrderQty'[i] ELSE 0
        BY <3>1, <4>1 DEF Least
      <4> QED BY <4>2, <4>3, <4>4
    <3> QED BY <3>5, <3>6
  <2>3. CASE \E r \in Requests : CommitReceipt(r)
    BY <2>1, <2>3 DEF CommitReceipt
  <2> QED BY <2>1, <2>2, <2>3, OrderOrGoods
<1> HIDE DEF AtMost
<1>4. PICK f \in [Items -> Int], g \in [Items -> Int] : f = Least' /\ g = Least
  BY <1>2
<1>5. Total(f) \in Int /\ Total(g) \in Int /\ Total(f) <= Total(g)
  BY <1>3, <1>4, TotalGrows
<1> QED BY <1>4, <1>5

\* The most there ever was only grows.
LEMMA MostGrows ==
  ASSUME ProcurementInv, [Next]_vars, Total(accepted) <= mostInAll
  PROVE  /\ mostInAll \in Int /\ mostInAll' \in Int /\ mostInAll <= mostInAll'
         /\ Total(accepted') <= mostInAll'
<1>1. TypeOK /\ mostInAll \in Int
  BY DEF ProcurementInv, TypeOK
<1>2. mostInAll' \in Int /\ Total(accepted') \in Int
  <2>1. TypeOK'
    BY NextInv DEF ProcurementInv
  <2>2. accepted' \in [Items -> Int] /\ mostInAll' \in Int
    BY <2>1 DEF TypeOK
  <2> QED BY <2>2, TotalType
<1>3. CASE \E r \in Requests : CommitReceipt(r)
  <2>1. mostInAll' = Larger(mostInAll, Total(accepted'))
    BY <1>3 DEF CommitReceipt
  <2> QED BY <1>1, <1>2, <2>1 DEF Larger
<1>4. CASE AddItem \/ UNCHANGED <<order, goods>>
  <2>1. accepted' = accepted /\ mostInAll' = mostInAll
    BY <1>4 DEF AddItem
  <2> QED BY <1>1, <2>1
<1> QED BY <1>3, <1>4, OrderOrGoods

LEMMA EnoughStays ==
  ASSUME ProcurementInv, [Next]_vars, Total(accepted) <= mostInAll, EnoughAccepted
  PROVE  EnoughAccepted'
<1>1. Total(Least') <= Total(Least) /\ Total(Least') \in Int /\ Total(Least) \in Int
  BY LeastShrinks
<1>2. mostInAll \in Int /\ mostInAll' \in Int /\ mostInAll <= mostInAll'
  BY MostGrows
<1>3. EnoughAccepted' = (100 * mostInAll' >= 98 * Total(Least'))
  BY DEF EnoughAccepted
<1> QED BY <1>1, <1>2, <1>3 DEF EnoughAccepted

LEMMA MatchStep ==
  ASSUME ProcurementInv, MatchInv, [Next]_vars
  PROVE  MatchInv'
<1>0. TypeOK /\ Total(accepted) <= mostInAll
  BY DEF ProcurementInv, MatchInv
<1>1. \A r \in Requests :
        /\ (At(r, "ordered") => req[r].ordered >= Total(Least))
        /\ (At(r, "approve") => EnoughAccepted)
  BY DEF MatchInv
<1>2. (\E i \in Invoices : invoices[i].status = "approved") => EnoughAccepted
  BY DEF MatchInv, ApprovedIsCovered, EnoughAccepted
<1>3. EnoughAccepted => EnoughAccepted'
  BY <1>0, EnoughStays
<1>4. /\ Total(accepted') <= mostInAll'
      /\ Total(Least') <= Total(Least) /\ Total(Least') \in Int /\ Total(Least) \in Int
  BY <1>0, MostGrows, LeastShrinks
\* Whoever stays saw enough, and it is still enough.
<1>5. ASSUME NEW q \in Requests, At(q, "ordered"), req'[q] = req[q]
      PROVE  req'[q].ordered >= Total(Least')
  <2>1. req[q].ordered \in Int /\ req[q].ordered >= Total(Least)
    BY <1>0, <1>1, <1>5, RequestKinds DEF Ordered
  <2> QED BY <1>4, <1>5, <2>1
\* It is enough that whoever moved, and the invoices, are in order.
<1>6. ASSUME NEW r \in Requests, NEW next, Becomes(r, next), invoices' = invoices,
             next.step = "ordered" => next.ordered >= Total(Least'),
             next.step = "approve" => EnoughAccepted
      PROVE  MatchInv'
  <2>1. req'[r] = next /\ \A q \in Requests \ {r} : req'[q] = req[q]
    BY <1>0, <1>6, OneMoves
  <2>2. ASSUME NEW q \in Requests, At(q, "ordered")' PROVE req'[q].ordered >= Total(Least')
    BY <1>5, <1>6, <2>1, <2>2 DEF At
  <2>3. ASSUME NEW q \in Requests, At(q, "approve")' PROVE EnoughAccepted'
    BY <1>1, <1>3, <1>6, <2>1, <2>3 DEF At
  <2>4. ApprovedIsCovered'
    BY <1>2, <1>3, <1>6 DEF ApprovedIsCovered, EnoughAccepted
  <2> QED BY <1>4, <2>2, <2>3, <2>4 DEF MatchInv
<1>7. ASSUME req' = req, \A i \in Invoices : invoices'[i].status = "approved" => invoices[i].status = "approved"
      PROVE  MatchInv'
  <2>1. ASSUME NEW q \in Requests, At(q, "ordered")' PROVE req'[q].ordered >= Total(Least')
    BY <1>5, <1>7, <2>1 DEF At
  <2>2. ASSUME NEW q \in Requests, At(q, "approve")' PROVE EnoughAccepted'
    BY <1>1, <1>3, <1>7, <2>2 DEF At
  <2>3. ApprovedIsCovered'
    BY <1>2, <1>3, <1>7 DEF ApprovedIsCovered, EnoughAccepted
  <2> QED BY <1>4, <2>1, <2>2, <2>3 DEF MatchInv
<1>8. ASSUME NEW r \in Requests, NEW i \in Invoices, MatchOrder(r, i) PROVE MatchInv'
  <2>1. Total(OrderQty) >= Total(Least')
    <3>1. Total(Least) <= Total(OrderQty) /\ Total(OrderQty) \in Int
      BY <1>0, LeastIsLess, OrderQtyType, TotalType
    <3> QED BY <1>4, <3>1
  <2> DEFINE next == [step |-> "ordered", invoice |-> i, ordered |-> Total(OrderQty),
                      fits |-> WithinTolerance(invoices[i].amount, Total(OrderQty))]
  <2>2. Becomes(r, next) /\ invoices' = invoices /\ next.step = "ordered" /\ next.ordered = Total(OrderQty)
    BY <1>8 DEF MatchOrder
  <2> HIDE DEF next
  <2> QED BY <1>6, <2>1, <2>2
<1>9. ASSUME NEW r \in Requests, MatchReceipts(r) PROVE MatchInv'
  <2>1. /\ req[r].ordered \in Int /\ req[r].ordered >= Total(Least)
        /\ 100 * Total(accepted) >= 98 * req[r].ordered
    BY <1>0, <1>1, <1>9, RequestKinds DEF MatchReceipts, Covered, Ordered
  <2>2. Total(accepted) \in Int /\ mostInAll \in Int
    BY <1>0, TotalType DEF TypeOK
  <2>3. EnoughAccepted
    BY <1>0, <1>4, <2>1, <2>2 DEF EnoughAccepted
  <2>4. Becomes(r, [step |-> "approve", invoice |-> req[r].invoice]) /\ invoices' = invoices
    BY <1>9 DEF MatchReceipts
  <2> QED BY <1>6, <2>3, <2>4
<1>10. ASSUME NEW r \in Requests, ApproveInvoice(r) PROVE MatchInv'
  <2>1. EnoughAccepted' /\ Becomes(r, Idle) /\ Idle.step = "idle"
    BY <1>1, <1>3, <1>10 DEF ApproveInvoice, End, Idle
  <2>2. req'[r] = Idle /\ \A q \in Requests \ {r} : req'[q] = req[q]
    BY <1>0, <2>1, OneMoves
  <2>3. ASSUME NEW q \in Requests, At(q, "ordered")' PROVE req'[q].ordered >= Total(Least')
    BY <1>5, <2>1, <2>2, <2>3 DEF At
  <2> QED BY <1>4, <2>1, <2>3 DEF MatchInv, ApprovedIsCovered, EnoughAccepted
<1>11. ASSUME NEW r \in Requests,
             \/ \E y \in Years : TakeNumber(r, y)
             \/ InsertPo(r) \/ SeeDraft(r) \/ IssuePo(r)
             \/ BeginReceipt(r) \/ ReceiveLine(r) \/ ReadFresh(r) \/ CommitReceipt(r)
             \/ Rollback(r)
      PROVE  MatchInv'
  <2>1. PICK next : Becomes(r, next) /\ next.step \notin {"ordered", "approve"} /\ invoices' = invoices
    <3>1. CASE (\E y \in Years : TakeNumber(r, y)) \/ SeeDraft(r) \/ BeginReceipt(r) \/ ReceiveLine(r)
      BY <3>1 DEF TakeNumber, SeeDraft, BeginReceipt, ReceiveLine
    <3>2. CASE InsertPo(r) \/ IssuePo(r) \/ CommitReceipt(r) \/ Rollback(r)
      BY <3>2 DEF InsertPo, IssuePo, CommitReceipt, Rollback, End, Idle
    <3>3. CASE ReadFresh(r)
      <4>1. req[r] \in Receipt("lines")
        BY <1>0, <3>3, RequestKinds DEF ReadFresh
      <4>2. [req[r] EXCEPT !.step = "status", !.status = FreshStatus(r)].step = "status"
        BY <4>1 DEF Receipt
      <4> QED BY <3>3, <4>2 DEF ReadFresh
    <3> QED BY <1>11, <3>1, <3>2, <3>3
  <2> QED BY <1>6, <2>1
<1>12. CASE AddItem \/ UNCHANGED vars
  BY <1>7, <1>12 DEF AddItem, vars
<1>13. ASSUME NEW i \in Invoices, CreateInvoice(i) PROVE MatchInv'
  <2>1. \A k \in Invoices : invoices'[k].status = "approved" => invoices[k].status = "approved"
    BY <1>0, <1>13 DEF CreateInvoice, TypeOK
  <2> QED BY <1>7, <1>13, <2>1 DEF CreateInvoice
<1> QED BY <1>8, <1>9, <1>10, <1>11, <1>12, <1>13 DEF Next, RequestStep

\* No invoice is approved unless at some time the receipts had brought 98% of
\* what the order asks for at the least, whatever is received, taken back, added
\* and matched meanwhile (erp_invoices.py): the match reads the order before the
\* receipts, and what was once accepted stays on record as the most there was.
THEOREM ApprovalNeverAhead == Spec => []ApprovedIsCovered
<1>1. Init => MatchInv
  <2> SUFFICES ASSUME Init PROVE MatchInv
    OBVIOUS
  <2>1. Total(NoGoods) <= 0
    <3>1. PICK t : Totals(NoGoods, t)
      BY TotalIs
    <3> DEFINE Good == {n \in Nat : n <= MaxItems => t[n] = 0}
    <3>2. 0 \in Good
      BY <3>1 DEF Totals
    <3>3. ASSUME NEW n \in Nat, n \in Good PROVE n + 1 \in Good
      <4> SUFFICES ASSUME n + 1 <= MaxItems PROVE t[n + 1] = 0
        OBVIOUS
      <4>1. n + 1 \in Items /\ (n + 1) - 1 = n /\ t[n] = 0
        BY <3>3 DEF Items
      <4>2. t[n + 1] = NoGoods[n + 1] + t[n] /\ NoGoods[n + 1] = 0
        BY <3>1, <4>1 DEF Totals, NoGoods
      <4> QED BY <4>1, <4>2
    <3> HIDE DEF Good
    <3>4. MaxItems \in Good
      BY <3>2, <3>3, EveryNumber
    <3> QED BY <3>1, <3>4 DEF Good, Totals
  <2>2. Total(accepted) <= mostInAll
    BY <2>1 DEF Init
  <2>3. (\A r \in Requests : req[r].step = "idle") /\ \A i \in Invoices : invoices[i].status = "absent"
    BY DEF Init, Idle
  <2> QED BY <2>2, <2>3 DEF At, MatchInv, ApprovedIsCovered
<1>2. ProcurementInv /\ MatchInv /\ [Next]_vars => MatchInv'
  BY MatchStep
<1>3. MatchInv => ApprovedIsCovered
  BY DEF MatchInv
<1> QED BY <1>1, <1>2, <1>3, ProcurementInvariant, PTL DEF Spec
==============================================================================
