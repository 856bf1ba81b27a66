----------------------------- MODULE Engineering -----------------------------
(***************************************************************************)
(* Bills of materials, their revisions and the change requests for them    *)
(* (api/routers/erp_boms.py).                                              *)
(*                                                                         *)
(* A request is one READ COMMITTED transaction.  Most of them look whether *)
(* the BOM is a draft, or released, and write by primary key later: what   *)
(* others commit in between is not looked at again.  A request is split    *)
(* there; its last statement and the commit are one step.                  *)
(***************************************************************************)
EXTENDS Naturals, FiniteSets

CONSTANTS
  Requests,        \* requests that may be going on at once
  Boms,            \* rows of boms that may be inserted
  Lines,           \* rows of bom_items a BOM may have
  Headers,         \* name, revision and drawing of a BOM
  Materials,       \* what an item can be made of
  Quantities,      \* how many of it
  ChangeRequests,  \* rows of bom_change_requests
  None             \* SQL's NULL

NoneIsNoRow == None \notin Boms /\ None \notin ChangeRequests

VARIABLES
  boms,  \* boms, each with its bom_items
  ecrs,  \* bom_change_requests
  req    \* what each request is doing

vars == <<boms, ecrs, req>>

Fields == [material : Materials, qty : Quantities]

(* A plausible bug: the weight is that of what the row had before. *)
ComputeFromFound(found, merged) == found

(* compute_bom_item: weight and cost follow from the fields alone, so they *)
(* are the fields they were computed from.                                 *)
ComputeItem(found, merged) == merged

Item    == [fields : Fields, weighed : Fields]
Items   == [Lines -> Item \cup {None}]
NoItems == [l \in Lines |-> None]

Bom == [status : {"absent", "draft", "released"}, header : Headers \cup {None},
        items : Items, supersedes : Boms \cup {None}]
Ecr == [status : {"absent", "pending", "approved", "rejected"},
        bom : Boms \cup {None}, result : Boms \cup {None}]

Idle == [step |-> "idle"]

(* A request has found a draft, one of its items, a released BOM (for a    *)
(* change request, or for none), a pending change request; or it has       *)
(* copied the items of a BOM into the revision it is about to commit.      *)
Request ==
  {Idle} \cup [step : {"draft"}, bom : Boms]
         \cup [step : {"item"}, bom : Boms, line : Lines, found : Fields]
         \cup [step : {"pending"}, ecr : ChangeRequests]
         \cup [step : {"released"}, bom : Boms, header : Headers \cup {None}, ecr : ChangeRequests \cup {None}]
         \cup [step : {"copied"}, bom : Boms, header : Headers \cup {None}, ecr : ChangeRequests \cup {None}, items : Items]

TypeOK ==
  /\ boms \in [Boms -> Bom]
  /\ ecrs \in [ChangeRequests -> Ecr]
  /\ req \in [Requests -> Request]

Init ==
  /\ boms \in [Boms -> [status : {"absent"}, header : {None}, items : {NoItems}, supersedes : {None}]]
  /\ ecrs = [e \in ChangeRequests |-> [status |-> "absent", bom |-> None, result |-> None]]
  /\ req = [r \in Requests |-> Idle]

At(r, step) == req[r].step = step
Becomes(r, next) == req' = [req EXCEPT ![r] = next]
End(r) == Becomes(r, Idle)

(* A request is refused (404, 409, 422, 400) or fails, and is rolled back. *)
Rollback(r) ==
  /\ ~At(r, "idle")
  /\ End(r)
  /\ UNCHANGED <<boms, ecrs>>

-----------------------------------------------------------------------------
(* Drafts. *)

CreateBom(b) ==
  /\ boms[b].status = "absent"
  /\ \E h \in Headers : boms' = [boms EXCEPT ![b].status = "draft", ![b].header = h]
  /\ UNCHANGED <<ecrs, req>>

Editable(b) == boms[b].status = "draft"

(* update_bom, release_bom and the requests for items find a draft.        *)
SeeDraft(r, b) ==
  /\ At(r, "idle")
  /\ Editable(b)
  /\ Becomes(r, [step |-> "draft", bom |-> b])
  /\ UNCHANGED <<boms, ecrs>>

UpdateBom(r) ==
  /\ At(r, "draft")
  /\ \E h \in Headers : boms' = [boms EXCEPT ![req[r].bom].header = h]
  /\ End(r)
  /\ UNCHANGED ecrs

Weighed(found, merged) == [fields |-> merged, weighed |-> ComputeItem(found, merged)]

AddItem(r, l) ==
  /\ At(r, "draft")
  /\ boms[req[r].bom].items[l] = None
  /\ \E f \in Fields : boms' = [boms EXCEPT ![req[r].bom].items[l] = Weighed(f, f)]
  /\ End(r)
  /\ UNCHANGED ecrs

(* update_bom_item reads the row, to fill in what the patch leaves out ... *)
SeeItem(r, l) ==
  /\ At(r, "draft")
  /\ boms[req[r].bom].items[l] # None
  /\ Becomes(r, [step |-> "item", bom |-> req[r].bom, line |-> l,
                 found |-> boms[req[r].bom].items[l].fields])
  /\ UNCHANGED <<boms, ecrs>>

(* What the row becomes if the patch gives one field, or both. *)
Merged(found) ==
  {[material |-> m, qty |-> found.qty] : m \in Materials}
    \cup {[material |-> found.material, qty |-> q] : q \in Quantities} \cup Fields

(* ... and writes every field and the weight, if the row is still there. *)
UpdateItem(r) ==
  /\ At(r, "item")
  /\ boms[req[r].bom].items[req[r].line] # None
  /\ \E f \in Merged(req[r].found) :
       boms' = [boms EXCEPT ![req[r].bom].items[req[r].line] = Weighed(req[r].found, f)]
  /\ End(r)
  /\ UNCHANGED ecrs

DeleteItem(r, l) ==
  /\ At(r, "draft")
  /\ boms[req[r].bom].items[l] # None
  /\ boms' = [boms EXCEPT ![req[r].bom].items[l] = None]
  /\ End(r)
  /\ UNCHANGED ecrs

ReleaseBom(r) ==
  /\ At(r, "draft")
  /\ boms' = [boms EXCEPT ![req[r].bom].status = "released"]
  /\ End(r)
  /\ UNCHANGED ecrs

-----------------------------------------------------------------------------
(* Revisions and change requests. *)

(* A plausible bug: a draft can be revised too. *)
AnyStatus(b) == boms[b].status # "absent"

Revisable(b) == boms[b].status = "released"

(* revise_bom and request_bom_change find a released BOM. *)
SeeReleased(r, b) ==
  /\ At(r, "idle")
  /\ Revisable(b)
  /\ Becomes(r, [step |-> "released", bom |-> b, header |-> boms[b].header, ecr |-> None])
  /\ UNCHANGED <<boms, ecrs>>

RequestChange(r, e) ==
  /\ At(r, "released") /\ req[r].ecr = None
  /\ ecrs[e].status = "absent"
  /\ ecrs' = [ecrs EXCEPT ![e] = [status |-> "pending", bom |-> req[r].bom, result |-> None]]
  /\ End(r)
  /\ UNCHANGED boms

(* approve_change_request and reject_change_request find it pending ... *)
SeePending(r, e) ==
  /\ At(r, "idle")
  /\ ecrs[e].status = "pending"
  /\ Becomes(r, [step |-> "pending", ecr |-> e])
  /\ UNCHANGED <<boms, ecrs>>

(* ... the approval then finds its BOM released ... *)
SeeTarget(r) ==
  LET e == req[r].ecr  b == ecrs[e].bom IN
  /\ At(r, "pending")
  /\ Revisable(b)
  /\ Becomes(r, [step |-> "released", bom |-> b, header |-> boms[b].header, ecr |-> e])
  /\ UNCHANGED <<boms, ecrs>>

(* ... and the rejection says why, by id alone. *)
Reject(r) ==
  /\ At(r, "pending")
  /\ ecrs' = [ecrs EXCEPT ![req[r].ecr].status = "rejected"]
  /\ End(r)
  /\ UNCHANGED boms

(* _create_revision inserts the row, which nobody sees yet, and reads what *)
(* to copy; a direct revision may give another header, or copy nothing.    *)
CopyItems(r) ==
  /\ At(r, "released")
  /\ \E h \in (IF req[r].ecr = None THEN Headers ELSE {req[r].header}),
        items \in {boms[req[r].bom].items} \cup (IF req[r].ecr = None THEN {NoItems} ELSE {}) :
       Becomes(r, [step |-> "copied", bom |-> req[r].bom, header |-> h,
                   ecr |-> req[r].ecr, items |-> items])
  /\ UNCHANGED <<boms, ecrs>>

Approved(e, b) == [ecrs EXCEPT ![e].status = "approved", ![e].result = b]

(* The revision and the approval, by the id of the request alone, commit   *)
(* together.                                                               *)
CommitRevision(r, b) ==
  /\ At(r, "copied")
  /\ boms[b].status = "absent"
  /\ boms' = [boms EXCEPT ![b] = [status |-> "draft", header |-> req[r].header,
                                  items |-> req[r].items, supersedes |-> req[r].bom]]
  /\ ecrs' = IF req[r].ecr = None THEN ecrs ELSE Approved(req[r].ecr, b)
  /\ End(r)

RequestStep(r) ==
  \/ \E b \in Boms : SeeDraft(r, b) \/ SeeReleased(r, b) \/ CommitRevision(r, b)
  \/ \E l \in Lines : AddItem(r, l) \/ SeeItem(r, l) \/ DeleteItem(r, l)
  \/ UpdateBom(r) \/ UpdateItem(r) \/ ReleaseBom(r)
  \/ \E e \in ChangeRequests : RequestChange(r, e) \/ SeePending(r, e)
  \/ SeeTarget(r) \/ Reject(r) \/ CopyItems(r)
  \/ Rollback(r)

Next ==
  \/ \E b \in Boms : CreateBom(b)
  \/ \E r \in Requests : RequestStep(r)

Spec == Init /\ [][Next]_vars

-----------------------------------------------------------------------------

FoundDraft(r, b) == req[r].step \in {"draft", "item"} /\ req[r].bom = b

(* A released BOM keeps its status, header and items (erp_boms.py:1-2), so *)
(* long as no request that found it a draft is still going on: what can    *)
(* change it is only what was already under way when it was released.      *)
ReleasedAndQuietIsFrozen ==
  [][\A b \in Boms :
       (boms[b].status = "released" /\ \A r \in Requests : ~FoundDraft(r, b))
         => boms'[b] = boms[b]]_vars

(* Weight and cost of an item are those of the fields it has, whichever    *)
(* patches that each filled in the other's fields overlap; the same goes   *)
(* for items copied into a revision.                                       *)
ItemsAreWeighedAsTheyStand ==
  /\ \A b \in Boms, l \in Lines :
       boms[b].items[l] # None => boms[b].items[l].weighed = boms[b].items[l].fields
  /\ \A r \in Requests, l \in Lines :
       (At(r, "copied") /\ req[r].items[l] # None) => req[r].items[l].weighed = req[r].items[l].fields

(* Lineage: a revision supersedes a released BOM; a change request is about *)
(* a released BOM, and an approved one has its revision, of that BOM, with *)
(* no moment in between (erp_boms.py:540-543).                             *)
LineageHolds ==
  /\ \A b \in Boms : boms[b].supersedes # None =>
       /\ boms[b].status # "absent"
       /\ boms[boms[b].supersedes].status = "released"
  /\ \A e \in ChangeRequests :
       /\ ecrs[e].status # "absent" => boms[ecrs[e].bom].status = "released"
       /\ ecrs[e].status = "approved" => boms[ecrs[e].result].supersedes = ecrs[e].bom
==============================================================================
