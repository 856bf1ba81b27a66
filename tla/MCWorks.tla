------------------------------- MODULE MCWorks -------------------------------
(***************************************************************************)
(* The engineering and production side for TLC: modules that share no row  *)
(* are checked in one run, a behaviour being about one of them (its focus) *)
(* while the others stay as they begin.  The BOMs come twice: two of them  *)
(* with all their data; and three, so that one can be revised twice, whose *)
(* items are all alike and never patched.  The lots together are created   *)
(* with a bounded quantity.  What has no prefix is Engineering's.          *)
(***************************************************************************)
EXTENDS Engineering

CONSTANTS
  b1, b2, b3,         \* the BOMs
  Drawings, Revisions, Contents,
  Lots, Jobs, Units, Plants, GrnLines, MaxQty,
  Buyers

VARIABLES focus, drawings, draft,
          lots, received, issued, jobs, installed, clerk,
          batch, certificate, seller, job, unit, lead, foreman

(* Each line of a receipt is of a vendor of its own, on the same day. *)
D == INSTANCE Drawings WITH Drafters <- Requests, NoDrawing <- None
I == INSTANCE Inventory WITH Clerks <- Requests, Nothing <- None, Vendors <- GrnLines,
       VendorOf <- [g \in GrnLines |-> g], PoDate <- [g \in GrnLines |-> 1], Dates <- {1}
O == INSTANCE Offtake WITH Clerks <- Requests, Nobody <- None, clerk <- seller
S == INSTANCE Statuses WITH Foremen <- Requests

ASSUME WorksAssumption ==
  /\ Boms = {b1, b2, b3} /\ NoneIsNoRow
  /\ D!NoDrawingIsNoRow /\ I!InventoryAssumption /\ O!NobodyIsNoBuyer

drawings_  == <<drawings, draft>>
inventory_ == <<lots, received, issued, jobs, installed, clerk>>
offtake_   == <<batch, certificate, seller>>
statuses_  == <<job, unit, lead, foreman>>

works_ == <<focus, vars, drawings_, inventory_, offtake_, statuses_>>

WorksInit ==
  /\ focus \in {"edits", "lineage", "drawings", "inventory", "offtake", "statuses"}
  /\ Init /\ D!Init /\ I!Init /\ O!Init /\ S!Init

Plain == CHOOSE f \in Fields : TRUE
Alike == \A b \in Boms, l \in Lines :
           boms[b].items[l] # None => boms[b].items[l].fields = Plain
NoPatch == \A r \in Requests : req[r].step # "item"

EngineeringStep ==
  /\ Next
  /\ \/ focus = "edits" /\ boms'[b3] = boms[b3]
     \/ focus = "lineage" /\ (Alike /\ NoPatch)'
  /\ UNCHANGED <<focus, drawings_, inventory_, offtake_, statuses_>>

DrawingStep ==
  /\ focus = "drawings" /\ D!Next
  /\ UNCHANGED <<focus, vars, inventory_, offtake_, statuses_>>

InventoryStep ==
  /\ focus = "inventory" /\ I!Next
  /\ \A k, l \in Lots : k # l => received'[k] + received'[l] <= MaxQty
  /\ UNCHANGED <<focus, vars, drawings_, offtake_, statuses_>>

OfftakeStep ==
  /\ focus = "offtake" /\ O!Next
  /\ UNCHANGED <<focus, vars, drawings_, inventory_, statuses_>>

StatusStep ==
  /\ focus = "statuses" /\ S!Next
  /\ UNCHANGED <<focus, vars, drawings_, inventory_, offtake_>>

WorksNext == EngineeringStep \/ DrawingStep \/ InventoryStep \/ OfftakeStep \/ StatusStep

WorksSpec == WorksInit /\ [][WorksNext]_works_

-----------------------------------------------------------------------------

About(focuses) == focus \in focuses

(* The variables of each module keep their types.                          *)
WorksTypeOK ==
  /\ TypeOK
  /\ About({"drawings"}) => D!TypeOK
  /\ About({"inventory"}) => I!TypeOK
  /\ About({"offtake"}) => O!TypeOK
  /\ About({"statuses"}) => S!TypeOK

(* What is finished stays as it is: released BOMs (erp_boms.py:1-2) and    *)
(* drawings (erp_drawings.py:4-7), jobs, units and leads, but for requests *)
(* that had found them unfinished.                                         *)
FinishedIsFrozen ==
  ReleasedAndQuietIsFrozen /\ D!ReleasedIsOnlySuperseded /\ S!FinishedIsFrozen

(* Overlapping issues take no more from a lot than there is                *)
(* (production.py:214-278).                                                *)
StockIsConserved == About({"inventory"}) => I!StockIsConserved

(* A trace misses no plant, nor does a recall (genealogy.py:34-237).       *)
TraceMissesNothing == About({"inventory"}) => I!TraceMissesNothing /\ I!RecallNamesEveryPlant

(* What is sold has passed (admin_offtake.py:190-291).                     *)
SoldHasPassed == About({"offtake"}) => O!SoldHasPassed
==============================================================================
