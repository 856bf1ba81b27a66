------------------------------ MODULE Inventory ------------------------------
(***************************************************************************)
(* Where material goes: inventory lots, the lines that issue them to       *)
(* fabrication jobs, the units the jobs build and the plants these are     *)
(* installed at (api/routers/production.py), and the traces that follow a  *)
(* lot forward, or a vendor's deliveries to plants (genealogy.py).         *)
(*                                                                         *)
(* Rows are only ever inserted, but for the quantity on hand.  What a lot  *)
(* came from (a line of a goods receipt, and with it a vendor and the date *)
(* of an order) is given.                                                  *)
(***************************************************************************)
EXTENDS Naturals, FiniteSets, Functions

CONSTANTS
  Clerks,      \* requests that may be going on at once
  Lots, Jobs, Units, Plants,
  GrnLines,    \* lines of goods receipts that lots may refer to
  Vendors,
  VendorOf,    \* VendorOf[g]: vendor of the order of line g
  PoDate,      \* PoDate[g]: date of that order
  Dates,
  MaxQty,      \* bound: the quantity of a lot
  Nothing      \* SQL's NULL

InventoryAssumption ==
  /\ MaxQty \in Nat /\ Dates \subseteq Nat /\ IsFiniteSet(Jobs)
  /\ VendorOf \in [GrnLines -> Vendors] /\ PoDate \in [GrnLines -> Dates]
  /\ Nothing \notin GrnLines \cup Jobs \cup Units

VARIABLES
  lots,      \* inventory_lots: what each came from, and qty_on_hand
  received,  \* the quantity each lot was created with (for the properties)
  issued,    \* issue_lines, added up by lot and job
  jobs,      \* fabrication_jobs: the unit each builds
  installed, \* installations
  clerk      \* what each request is doing

vars == <<lots, received, issued, jobs, installed, clerk>>

Qty    == 0..MaxQty
Absent == [row |-> FALSE]
Lot    == {Absent} \cup [row : {TRUE}, line : GrnLines \cup {Nothing}, qty : Qty]
Job    == {Absent} \cup [row : {TRUE}, unit : Units \cup {Nothing}]
Target == Jobs \cup {Nothing}   \* an issue line may name no job

Idle == [step |-> "idle"]

(* A request has debited a lot, or is on its way along a forward trace:    *)
(* the jobs it has found, then the plants; atStart is what there was when  *)
(* it started (for the properties).                                        *)
Clerk ==
  {Idle} \cup [step : {"debited"}, lot : Lots, qty : Qty, left : Qty, job : Target]
         \cup [step : {"jobs"}, lot : Lots, jobs : SUBSET Jobs, atStart : SUBSET Plants]
         \cup [step : {"units"}, lot : Lots, units : SUBSET Units, atStart : SUBSET Plants]
         \cup [step : {"traced"}, lot : Lots, plants : SUBSET Plants, atStart : SUBSET Plants]

TypeOK ==
  /\ lots \in [Lots -> Lot]
  /\ received \in [Lots -> Qty]
  /\ issued \in [Lots -> [Target -> Qty]]
  /\ jobs \in [Jobs -> Job]
  /\ installed \in SUBSET (Units \X Plants)
  /\ clerk \in [Clerks -> Clerk]

Init ==
  /\ lots = [l \in Lots |-> Absent]
  /\ received = [l \in Lots |-> 0]
  /\ issued = [l \in Lots |-> [j \in Target |-> 0]]
  /\ jobs = [j \in Jobs |-> Absent]
  /\ installed = {}
  /\ clerk = [c \in Clerks |-> Idle]

At(c, step) == clerk[c].step = step
Becomes(c, next) == clerk' = [clerk EXCEPT ![c] = next]
End(c) == Becomes(c, Idle)

(* A request is refused or fails (a job that does not exist), or an answer *)
(* has been given.                                                         *)
Finish(c) ==
  /\ ~At(c, "idle")
  /\ End(c)
  /\ UNCHANGED <<lots, received, issued, jobs, installed>>

-----------------------------------------------------------------------------
(* production.py *)

CreateLot(l) ==
  /\ ~lots[l].row
  /\ \E g \in GrnLines \cup {Nothing}, q \in Qty :
       /\ lots' = [lots EXCEPT ![l] = [row |-> TRUE, line |-> g, qty |-> q]]
       /\ received' = [received EXCEPT ![l] = q]
  /\ UNCHANGED <<issued, jobs, installed, clerk>>

(* The unit is named when the job is created, or never. *)
CreateJob(j) ==
  /\ ~jobs[j].row
  /\ \E u \in Units \cup {Nothing} : jobs' = [jobs EXCEPT ![j] = [row |-> TRUE, unit |-> u]]
  /\ UNCHANGED <<lots, received, issued, installed, clerk>>

(* A plausible bug: the quantity is read before the row is locked. *)
NeverLocked(l) == TRUE

(* An UPDATE waits for the transaction that has updated the row, and looks *)
(* at its WHERE again.                                                     *)
RowFree(l) == \A c \in Clerks : At(c, "debited") => clerk[c].lot # l

(* create_issue_line: SET qty_on_hand = qty_on_hand - :qty                 *)
(* WHERE qty_on_hand >= :qty ...                                           *)
Debit(c, l) ==
  /\ At(c, "idle")
  /\ lots[l].row /\ RowFree(l)
  /\ \E q \in Qty \ {0}, j \in Target :
       /\ lots[l].qty >= q
       /\ Becomes(c, [step |-> "debited", lot |-> l, qty |-> q, left |-> lots[l].qty - q, job |-> j])
  /\ UNCHANGED <<lots, received, issued, jobs, installed>>

(* ... and the issue line, whose job must exist, and the commit.           *)
CommitIssue(c) ==
  LET l == clerk[c].lot  j == clerk[c].job IN
  /\ At(c, "debited")
  /\ j # Nothing => jobs[j].row
  /\ lots' = [lots EXCEPT ![l].qty = clerk[c].left]
  /\ issued' = [issued EXCEPT ![l][j] = @ + clerk[c].qty]
  /\ End(c)
  /\ UNCHANGED <<received, jobs, installed>>

(* create_installation looks at no status of the unit. *)
Install(u, p) ==
  /\ installed' = installed \cup {<<u, p>>}
  /\ UNCHANGED <<lots, received, issued, jobs, clerk>>

-----------------------------------------------------------------------------
(* genealogy.py *)

JobsOf(l)    == {j \in Jobs : issued[l][j] > 0}
UnitsOf(js)  == {jobs[j].unit : j \in js} \ {Nothing}
PlantsOf(us) == {p \in Plants : \E u \in us : <<u, p>> \in installed}

(* Where the lot's material is, all of it read at once. *)
Reached(l) == PlantsOf(UnitsOf(JobsOf(l)))

(* forward_trace reads the lot and its issue lines, then their jobs, then  *)
(* the installations, each by a statement of its own.                      *)
TraceLines(c, l) ==
  /\ At(c, "idle")
  /\ lots[l].row
  /\ Becomes(c, [step |-> "jobs", lot |-> l, jobs |-> JobsOf(l), atStart |-> Reached(l)])
  /\ UNCHANGED <<lots, received, issued, jobs, installed>>

TraceJobs(c) ==
  /\ At(c, "jobs")
  /\ Becomes(c, [step |-> "units", lot |-> clerk[c].lot, units |-> UnitsOf(clerk[c].jobs),
                 atStart |-> clerk[c].atStart])
  /\ UNCHANGED <<lots, received, issued, jobs, installed>>

TraceInstallations(c) ==
  /\ At(c, "units")
  /\ Becomes(c, [step |-> "traced", lot |-> clerk[c].lot, plants |-> PlantsOf(clerk[c].units),
                 atStart |-> clerk[c].atStart])
  /\ UNCHANGED <<lots, received, issued, jobs, installed>>

(* A plausible bug: material that a lot has left is no longer looked for. *)
Emptied(l) == lots[l].qty = 0

InRecall(l) == TRUE

(* recall_trace joins orders, receipts, lots, issue lines, jobs, units and *)
(* installations.                                                          *)
Recall(v, from, to) ==
  {p \in Plants : \E l \in Lots, j \in Jobs, u \in Units :
     /\ lots[l].row /\ lots[l].line # Nothing /\ InRecall(l)
     /\ VendorOf[lots[l].line] = v /\ PoDate[lots[l].line] \in from..to
     /\ issued[l][j] > 0 /\ jobs[j].row /\ jobs[j].unit = u
     /\ <<u, p>> \in installed}

Next ==
  \/ \E l \in Lots : CreateLot(l)
  \/ \E j \in Jobs : CreateJob(j)
  \/ \E u \in Units, p \in Plants : Install(u, p)
  \/ \E c \in Clerks :
       \/ \E l \in Lots : Debit(c, l) \/ TraceLines(c, l)
       \/ CommitIssue(c) \/ TraceJobs(c) \/ TraceInstallations(c)
       \/ Finish(c)

Spec == Init /\ [][Next]_vars

-----------------------------------------------------------------------------

IssuedOf(l) == FoldFunction(LAMBDA q, sum : q + sum, 0, issued[l])

(* However many issues of a lot overlap, what is on hand and what the      *)
(* issue lines say make up what was received, and nothing is issued that   *)
(* is not there (production.py:220-224).                                   *)
StockIsConserved ==
  \A l \in Lots : lots[l].row => lots[l].qty + IssuedOf(l) = received[l]

(* A forward trace misses no plant that the material had reached when the  *)
(* trace started, and names none that it has not reached by the end,       *)
(* whatever is issued and installed between its statements.                *)
TraceMissesNothing ==
  \A c \in Clerks : At(c, "traced") =>
    clerk[c].atStart \subseteq clerk[c].plants /\ clerk[c].plants \subseteq Reached(clerk[c].lot)

(* A recall names the plants that the forward traces of the vendor's lots  *)
(* of that time name, and no other (genealogy.py:167-171).                 *)
RecallNamesEveryPlant ==
  \A v \in Vendors, from \in Dates, to \in Dates :
    Recall(v, from, to) =
      UNION {Reached(l) : l \in {k \in Lots :
        lots[k].row /\ lots[k].line # Nothing
          /\ VendorOf[lots[k].line] = v /\ PoDate[lots[k].line] \in from..to}}
==============================================================================
