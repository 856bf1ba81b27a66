------------------------------ MODULE Drawings ------------------------------
(***************************************************************************)
(* The revisions of one drawing number (api/routers/erp_drawings.py).      *)
(* A request looks at the status of a row and writes by id later.          *)
(***************************************************************************)
CONSTANTS
  Drafters,   \* requests that may be going on at once
  Drawings,   \* rows of drawings with this project_id and dwg_no
  Revisions,  \* their revision strings
  Contents,   \* title, file_url and sha256 of a row
  NoDrawing   \* SQL's NULL

VARIABLES
  drawings,  \* drawings
  draft      \* what each request is doing

vars == <<drawings, draft>>

Status == {"draft", "for_review", "released", "superseded"}

Drawing == [status : Status, revision : Revisions, content : Contents]
NoDrawingIsNoRow == NoDrawing \notin Drawing

Idle == [step |-> "idle"]

(* A request has found a row that is not released, or one that is. *)
Drafting == {Idle} \cup [step : {"open", "release", "revise"}, drawing : Drawings]

TypeOK ==
  /\ drawings \in [Drawings -> Drawing \cup {NoDrawing}]
  /\ draft \in [Drafters -> Drafting]

Init ==
  /\ drawings = [d \in Drawings |-> NoDrawing]
  /\ draft = [r \in Drafters |-> Idle]

At(r, step) == draft[r].step = step
Becomes(r, next) == draft' = [draft EXCEPT ![r] = next]
End(r) == Becomes(r, Idle)

Rollback(r) ==
  /\ ~At(r, "idle")
  /\ End(r)
  /\ UNCHANGED drawings

Exists(d) == drawings[d] # NoDrawing

(* UNIQUE (project_id, dwg_no, revision) *)
Unused(revision, d) == \A o \in Drawings \ {d} : Exists(o) => drawings[o].revision # revision

Insert(d, revision, content) ==
  [drawings EXCEPT ![d] = [status |-> "draft", revision |-> revision, content |-> content]]

CreateDrawing(d) ==
  /\ ~Exists(d)
  /\ \E revision \in Revisions, content \in Contents :
       /\ Unused(revision, d)
       /\ drawings' = Insert(d, revision, content)
  /\ UNCHANGED draft

Patchable(d) == drawings[d].status # "released"

(* update_drawing finds a row that is not released ... *)
SeeOpen(r, d) ==
  /\ At(r, "idle")
  /\ Exists(d) /\ Patchable(d)
  /\ Becomes(r, [step |-> "open", drawing |-> d])
  /\ UNCHANGED drawings

(* ... and sets what the body gives, the status among it. *)
UpdateDrawing(r) ==
  LET d == draft[r].drawing IN
  /\ At(r, "open")
  /\ \E s \in Status, revision \in Revisions, content \in Contents :
       /\ Unused(revision, d)
       /\ drawings' = [drawings EXCEPT ![d] = [status |-> s, revision |-> revision, content |-> content]]
  /\ End(r)

(* release_drawing: neither released nor superseded. *)
SeeReleasable(r, d) ==
  /\ At(r, "idle")
  /\ Exists(d) /\ drawings[d].status \in {"draft", "for_review"}
  /\ Becomes(r, [step |-> "release", drawing |-> d])
  /\ UNCHANGED drawings

ReleaseDrawing(r) ==
  /\ At(r, "release")
  /\ drawings' = [drawings EXCEPT ![draft[r].drawing].status = "released"]
  /\ End(r)

SeeReleased(r, d) ==
  /\ At(r, "idle")
  /\ Exists(d) /\ drawings[d].status = "released"
  /\ Becomes(r, [step |-> "revise", drawing |-> d])
  /\ UNCHANGED drawings

(* The new row, with what the body gives, and the old one superseded, in   *)
(* one commit.                                                             *)
ReviseDrawing(r, d) ==
  /\ At(r, "revise")
  /\ ~Exists(d)
  /\ \E revision \in Revisions, content \in Contents :
       /\ Unused(revision, d)
       /\ drawings' = [Insert(d, revision, content) EXCEPT ![draft[r].drawing].status = "superseded"]
  /\ End(r)

Next ==
  \/ \E d \in Drawings : CreateDrawing(d)
  \/ \E r \in Drafters :
       \/ \E d \in Drawings : SeeOpen(r, d) \/ SeeReleasable(r, d) \/ SeeReleased(r, d) \/ ReviseDrawing(r, d)
       \/ UpdateDrawing(r) \/ ReleaseDrawing(r) \/ Rollback(r)

Spec == Init /\ [][Next]_vars

-----------------------------------------------------------------------------

(* A released drawing changes only by being superseded, and then there is  *)
(* a row that came after it, unless a request that found it unreleased is  *)
(* still going on (erp_drawings.py:4-7).                                   *)
ReleasedIsOnlySuperseded ==
  [][\A d \in Drawings :
       (Exists(d) /\ drawings[d].status = "released"
          /\ \A r \in Drafters : draft[r].step \in {"open", "release"} => draft[r].drawing # d)
         => \/ drawings'[d] = drawings[d]
            \/ /\ drawings'[d] = [drawings[d] EXCEPT !.status = "superseded"]
               /\ \E o \in Drawings : ~Exists(o) /\ drawings'[o] # NoDrawing]_vars
==============================================================================
