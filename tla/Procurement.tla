----------------------------- MODULE Procurement -----------------------------
(***************************************************************************)
(* Purchase orders (api/routers/erp_pos.py), goods receipts (erp_grn.py)   *)
(* and the three-way match of vendor invoices (erp_invoices.py).           *)
(*                                                                         *)
(* Every request is one READ COMMITTED transaction: a statement sees what  *)
(* has been committed and what its own transaction wrote, an UPDATE waits  *)
(* for the row lock of another, and all locks go at commit.  A request is  *)
(* split where another's commit can come in between; a last UPDATE and its *)
(* commit are one step, since nobody sees the one before the other.        *)
(*                                                                         *)
(* Purchase orders share nothing but their numbers: the life of one order  *)
(* is followed, while numbers are given to others.                         *)
(***************************************************************************)
EXTENDS Integers, Sequences, FiniteSets

CONSTANTS
  Requests,     \* requests that may be going on at once
  Years,        \* fiscal years
  Invoices,     \* vendor invoices that refer to the order
  MaxItems,     \* bound: items of the order, with those added later
  Quantities,   \* what a line says is ordered or accepted: no field is bounded
  Amounts,      \* what a vendor invoice says is due, likewise
  MaxTaken,     \* bounds: how far the quantity accepted of an item goes
  MaxReceived,  \*   below nothing, and above
  MaxPos        \* bound: purchase orders of a year

ASSUME ProcurementAssumption ==
  /\ MaxItems \in Nat \ {0} /\ MaxPos \in Nat
  /\ Quantities \subseteq Int /\ Amounts \subseteq Int
  /\ MaxTaken \in Nat /\ MaxReceived \in Nat

VARIABLES
  numbers,   \* po_no: the numbers given in each year
  status,    \* the order's status
  created,   \* how many items the order was created with
  ordered,   \* its po_items: the quantity ordered of each
  items,     \* its po_items: the received_qty of each
  accepted,  \* grn_lines: the quantity accepted of each item
  invoices,  \* vendor_invoices: status and amount of each
  req,       \* what each request is doing
  most,      \* history: the most that was ever accepted of each item ...
  mostInAll  \* ... and of all of them together

order == <<created, ordered>>
goods == <<items, accepted, most, mostInAll>>
vars  == <<numbers, status, order, goods, invoices, req>>

Items    == 1..MaxItems
PoStatus == {"draft", "issued", "partial", "received"}
InvoiceStatus == {"absent", "received", "approved"}

(* A unit of an item costs the same as of any other: an amount counts them. *)
Invoice == [status : InvoiceStatus, amount : Int]
Line    == [item : Items, accepted : Quantities]

(* A goods receipt under way: the lines yet to come, the rows of          *)
(* po_items it has updated and locked, what its grn_lines add up to, and   *)
(* the status it found or means to write.                                  *)
Receipt(step) ==
  [step : {step}, lines : Seq(Line), locked : SUBSET Items,
   written : [Items -> Int], entered : [Items -> Int], status : PoStatus]

Idle == [step |-> "idle"]

Request ==
  {Idle} \cup [step : {"numbered"}, year : Years, no : Nat \ {0}]
         \cup [step : {"issue"}]
         \cup Receipt("lines") \cup Receipt("status")
         \cup [step : {"ordered"}, invoice : Invoices, ordered : Int, fits : BOOLEAN]
         \cup [step : {"approve"}, invoice : Invoices]

TypeOK ==
  /\ numbers \in [Years -> SUBSET (Nat \ {0})]
  /\ status \in PoStatus
  /\ created \in Items
  /\ \E n \in created..MaxItems : ordered \in [1..n -> Quantities] /\ items \in [1..n -> Int]
  /\ accepted \in [Items -> Int]
  /\ invoices \in [Invoices -> Invoice]
  /\ req \in [Requests -> Request]
  /\ most \in [Items -> Int] /\ mostInAll \in Int

NoGoods == [i \in Items |-> 0]

Init ==
  /\ numbers = [y \in Years |-> {}]
  /\ status = "draft"
  /\ created \in Items
  /\ ordered \in [1..created -> Quantities]
  /\ items = [i \in 1..created |-> 0]
  /\ accepted = NoGoods
  /\ invoices = [i \in Invoices |-> [status |-> "absent", amount |-> 0]]
  /\ req = [r \in Requests |-> Idle]
  /\ most = NoGoods /\ mostInAll = 0

At(r, step) == req[r].step = step
Becomes(r, next) == req' = [req EXCEPT ![r] = next]
End(r) == Becomes(r, Idle)

(* A request fails, is refused, or is the victim Postgres picks to break a *)
(* deadlock: it is rolled back.                                            *)
Rollback(r) ==
  /\ ~At(r, "idle")
  /\ End(r)
  /\ UNCHANGED <<numbers, status, order, goods, invoices>>

-----------------------------------------------------------------------------
(* Numbers. *)

(* A plausible bug: MAX + 1 without the advisory lock. *)
NeverLocked(y) == TRUE

(* pg_advisory_xact_lock of the year, held until commit or rollback. *)
LockFree(y) == \A r \in Requests : At(r, "numbered") => req[r].year # y

(* A plausible bug: the year's first number is 0. *)
FromZero(y) == Cardinality(numbers[y])

(* next_po_no: the last number of the year, and one more. *)
NextNo(y) == IF numbers[y] = {} THEN 1
             ELSE 1 + CHOOSE n \in numbers[y] : \A m \in numbers[y] : m <= n

TakeNumber(r, y) ==
  /\ At(r, "idle")
  /\ Cardinality(numbers[y]) < MaxPos
  /\ LockFree(y)
  /\ Becomes(r, [step |-> "numbered", year |-> y, no |-> NextNo(y)])
  /\ UNCHANGED <<numbers, status, order, goods, invoices>>

(* create_po and create_po_from_bom insert the order and its items. *)
InsertPo(r) ==
  /\ At(r, "numbered")
  /\ req[r].no \notin numbers[req[r].year]   \* pos.po_no is UNIQUE
  /\ numbers' = [numbers EXCEPT ![req[r].year] = @ \cup {req[r].no}]
  /\ End(r)
  /\ UNCHANGED <<status, order, goods, invoices>>

-----------------------------------------------------------------------------
(* The order. *)

AddItem ==
  /\ Len(items) < MaxItems
  /\ \E q \in Quantities : ordered' = Append(ordered, q)
  /\ items' = Append(items, 0)
  /\ UNCHANGED <<numbers, status, created, accepted, most, mostInAll, invoices, req>>

(* issue_po finds a draft ... *)
SeeDraft(r) ==
  /\ At(r, "idle")
  /\ status = "draft"
  /\ Becomes(r, [step |-> "issue"])
  /\ UNCHANGED <<numbers, status, order, goods, invoices>>

(* ... and sets the status whatever it is by then. *)
IssuePo(r) ==
  /\ At(r, "issue")
  /\ status' = "issued"
  /\ End(r)
  /\ UNCHANGED <<numbers, order, goods, invoices>>

-----------------------------------------------------------------------------
(* Goods receipts: create_grn. *)

(* A plausible bug: the status of the order is not asked for. *)
AnyStatus(s) == TRUE

Receivable(s) == s \in {"issued", "partial"}

Lines == {<<l>> : l \in Line} \cup {<<l, m>> : l, m \in Line}

(* The order is issued, and every line is one of its items. *)
BeginReceipt(r) ==
  /\ At(r, "idle")
  /\ Receivable(status)
  /\ \E lines \in Lines :
       /\ \A k \in DOMAIN lines : lines[k].item <= Len(items)
       /\ Becomes(r, [step |-> "lines", lines |-> lines, locked |-> {},
                      written |-> NoGoods, entered |-> NoGoods, status |-> status])
  /\ UNCHANGED <<numbers, status, order, goods, invoices>>

(* A plausible bug: an increment made outside the lock of its row. *)
NeverHeld(r, i) == TRUE

(* No other transaction has updated the row of item i. *)
RowFree(r, i) ==
  \A q \in Requests \ {r} : req[q].step \in {"lines", "status"} => i \notin req[q].locked

(* The received_qty of item i as request r sees it: committed, or its own. *)
Seen(r, i) == IF i \in req[r].locked THEN req[r].written[i] ELSE items[i]

(* The line is inserted, and received_qty = received_qty + accepted. *)
ReceiveLine(r) ==
  LET line == Head(req[r].lines) IN
  /\ At(r, "lines") /\ req[r].lines # <<>>
  /\ RowFree(r, line.item)
  /\ Seen(r, line.item) + line.accepted \in -MaxTaken..MaxReceived
  /\ Becomes(r, [step |-> "lines", lines |-> Tail(req[r].lines),
                 locked |-> req[r].locked \cup {line.item},
                 written |-> [req[r].written EXCEPT ![line.item] = Seen(r, line.item) + line.accepted],
                 entered |-> [req[r].entered EXCEPT ![line.item] = @ + line.accepted],
                 status |-> req[r].status])
  /\ UNCHANGED <<numbers, status, order, goods, invoices>>

(* A plausible bug: only the items on this receipt are looked at. *)
ItemsReceived(r) == req[r].locked

(* Every item of the order, not just the ones on this receipt. *)
ItemsOf(r) == DOMAIN items

(* The new status, from the items as the transaction sees them. *)
FreshStatus(r) ==
  IF \A i \in ItemsOf(r) : Seen(r, i) >= ordered[i] THEN "received"
  ELSE IF \E i \in ItemsOf(r) : Seen(r, i) > 0 THEN "partial"
  ELSE req[r].status

ReadFresh(r) ==
  /\ At(r, "lines") /\ req[r].lines = <<>>
  /\ Becomes(r, [req[r] EXCEPT !.step = "status", !.status = FreshStatus(r)])
  /\ UNCHANGED <<numbers, status, order, goods, invoices>>

(* What the items of the order, from 1 on, add up to. *)
Total(f) ==
  LET upTo[n \in 0..MaxItems] == IF n = 0 THEN 0 ELSE f[n] + upTo[n - 1] IN upTo[MaxItems]

Larger(a, b) == IF a < b THEN b ELSE a

CommitReceipt(r) ==
  /\ At(r, "status")
  /\ status' = req[r].status
  /\ items' = [i \in DOMAIN items |-> Seen(r, i)]
  /\ accepted' = [i \in Items |-> accepted[i] + req[r].entered[i]]
  /\ most' = [i \in Items |-> Larger(most[i], accepted'[i])]
  /\ mostInAll' = Larger(mostInAll, Total(accepted'))
  /\ End(r)
  /\ UNCHANGED <<numbers, order, invoices>>

-----------------------------------------------------------------------------
(* Vendor invoices. *)

CreateInvoice(i) ==
  /\ invoices[i].status = "absent"
  /\ \E amount \in Amounts :
       invoices' = [invoices EXCEPT ![i] = [status |-> "received", amount |-> amount]]
  /\ UNCHANGED <<numbers, status, order, goods, req>>

Distance(a, b) == IF a <= b THEN b - a ELSE a - b

(* +/-2% of what is expected, and nothing but nothing where that is zero. *)
WithinTolerance(actual, expected) == 100 * Distance(actual, expected) <= 2 * Distance(0, expected)

(* The quantities ordered, of which the match takes the sum. *)
OrderQty == [i \in Items |-> IF i \in DOMAIN ordered THEN ordered[i] ELSE 0]

(* approve_invoice reads the order's items for the match ... *)
MatchOrder(r, i) ==
  /\ At(r, "idle")
  /\ invoices[i].status = "received"
  /\ Becomes(r, [step |-> "ordered", invoice |-> i, ordered |-> Total(OrderQty),
                 fits |-> WithinTolerance(invoices[i].amount, Total(OrderQty))])
  /\ UNCHANGED <<numbers, status, order, goods, invoices>>

(* A plausible bug: the match looks at the money alone. *)
NeverShort(quantity) == TRUE

(* Something is ordered, and accepted goods cover 98% of it. *)
Covered(quantity) == quantity > 0 /\ 100 * Total(accepted) >= 98 * quantity

(* ... then the quantity accepted, and refuses unless all checks pass ... *)
MatchReceipts(r) ==
  /\ At(r, "ordered")
  /\ req[r].fits /\ Covered(req[r].ordered)
  /\ Becomes(r, [step |-> "approve", invoice |-> req[r].invoice])
  /\ UNCHANGED <<numbers, status, order, goods, invoices>>

(* ... and approves by id alone. *)
ApproveInvoice(r) ==
  /\ At(r, "approve")
  /\ invoices' = [invoices EXCEPT ![req[r].invoice].status = "approved"]
  /\ End(r)
  /\ UNCHANGED <<numbers, status, order, goods>>

RequestStep(r) ==
  \/ \E y \in Years : TakeNumber(r, y)
  \/ InsertPo(r)
  \/ SeeDraft(r) \/ IssuePo(r)
  \/ BeginReceipt(r) \/ ReceiveLine(r) \/ ReadFresh(r) \/ CommitReceipt(r)
  \/ \E i \in Invoices : MatchOrder(r, i)
  \/ MatchReceipts(r) \/ ApproveInvoice(r)
  \/ Rollback(r)

Next ==
  \/ AddItem
  \/ \E i \in Invoices : CreateInvoice(i)
  \/ \E r \in Requests : RequestStep(r)

Spec == Init /\ [][Next]_vars

-----------------------------------------------------------------------------

(* The numbers of a year are 1, 2, 3 ... without a gap, and the one a      *)
(* request is about to insert is the next and its alone (erp_pos.py:8-17), *)
(* whatever is rolled back.                                                *)
NumbersGapFree ==
  \A y \in Years :
    /\ numbers[y] = 1..Cardinality(numbers[y])
    /\ \A r \in Requests : (At(r, "numbered") /\ req[r].year = y) =>
         /\ req[r].no = Cardinality(numbers[y]) + 1
         /\ \A q \in Requests : (At(q, "numbered") /\ req[q].year = y) => q = r

(* received_qty is what the receipts accepted, however they overlap. *)
ReceivedIsAccepted ==
  \A i \in Items : accepted[i] = IF i \in DOMAIN items THEN items[i] ELSE 0

(* Nothing is received on an order that is still a draft. *)
DraftHasNoReceipts == status = "draft" => accepted = NoGoods

(* The status is never ahead of the goods: an order is called received only *)
(* when each item it was created with has been there in full.  A receipt   *)
(* whose lines accept less than nothing may have taken goods back since,   *)
(* and items may be added after the order was issued.                      *)
ReceivedIsEarned ==
  status = "received" => \A i \in 1..created : most[i] >= ordered[i]

(* What the order asks for at the least: what it was created with, less    *)
(* what items of a negative quantity added since take off.                 *)
Least ==
  [i \in Items |-> IF i \in 1..created \/ OrderQty[i] < 0 THEN OrderQty[i] ELSE 0]

(* Approval never runs ahead of the goods: at some time the receipts had   *)
(* brought enough for what the order asks for at the least, though later   *)
(* ones may have taken it back.                                            *)
ApprovedIsCovered ==
  (\E i \in Invoices : invoices[i].status = "approved") =>
    100 * mostInAll >= 98 * Total(Least)

(* The docstring of erp_grn.py:2-4 on the status: partial is some but not  *)
(* all items fully received.  Asked when no request is going on.           *)
PartialIsPartial ==
  ((\A r \in Requests : At(r, "idle")) /\ status = "partial")
    => \E i \in DOMAIN items : items[i] < ordered[i]

(* The same docstring: received, once every item's quantity is met.  Asked *)
(* of the items the order was created with when no request is going on.    *)
ReceivedIsReceived ==
  ((\A r \in Requests : At(r, "idle")) /\ status = "received")
    => \A i \in 1..created : items[i] >= ordered[i]
==============================================================================
