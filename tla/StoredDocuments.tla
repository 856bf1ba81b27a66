--------------------------- MODULE StoredDocuments ---------------------------
(***************************************************************************)
(* One uploaded document: its row and its object (api/routers/             *)
(* admin_documents.py, api/erp_storage.py).  The object is uploaded before *)
(* the row is committed, and deleted before the deletion of the row is:    *)
(* the session commits when the handler has returned (api/deps.py).        *)
(***************************************************************************)
CONSTANT Deleters   \* requests to delete it that may be going on at once

VARIABLES
  row,      \* whether documents has the row
  object,   \* the object at its key
  upload,   \* how far the upload is
  deleter,  \* how far each deletion is
  removed   \* history: whether a deletion ever got as far as the object

vars == <<row, object, upload, deleter, removed>>

TypeOK ==
  /\ row \in BOOLEAN
  /\ object \in {"none", "whole", "broken"}
  /\ upload \in {"begun", "put", "verified", "stored", "done", "failed"}
  /\ deleter \in [Deleters -> {"idle", "found", "deleted", "gone"}]
  /\ removed \in BOOLEAN

Init ==
  /\ row = FALSE /\ object = "none"
  /\ upload = "begun"
  /\ deleter = [d \in Deleters |-> "idle"]
  /\ removed = FALSE

(* upload_bytes: PUT, which may fail, or store something else ...          *)
Put ==
  /\ upload = "begun"
  /\ \/ object' \in {"whole", "broken"} /\ upload' = "put"
     \/ UNCHANGED object /\ upload' = "failed"
  /\ UNCHANGED <<row, deleter, removed>>

(* A plausible bug: that something was stored is enough. *)
AnyObject == object # "none"

Verified == object = "whole"

(* ... and the object is read back and hashed; what is wrong is deleted,   *)
(* if that works.                                                          *)
Verify ==
  /\ upload = "put"
  /\ IF Verified
     THEN upload' = "verified" /\ UNCHANGED object
     ELSE upload' = "failed" /\ object' \in {object, "none"}
  /\ UNCHANGED <<row, deleter, removed>>

(* The verifying read fails: the object stays.                             *)
VerifyFails ==
  /\ upload = "put"
  /\ upload' = "failed"
  /\ UNCHANGED <<row, object, deleter, removed>>

(* upload_document inserts the row, and the session commits, or not. *)
InsertRow ==
  /\ upload = "verified"
  /\ \/ row' = TRUE /\ upload' = "stored"
     \/ UNCHANGED row /\ upload' = "failed"
  /\ UNCHANGED <<object, deleter, removed>>

AnswerUpload ==
  /\ upload = "stored"
  /\ upload' = "done"
  /\ UNCHANGED <<row, object, deleter, removed>>

(* delete_document finds the row ... *)
SeeRow(d) ==
  /\ deleter[d] = "idle" /\ row
  /\ deleter' = [deleter EXCEPT ![d] = "found"]
  /\ UNCHANGED <<row, object, upload, removed>>

(* ... deletes it, having waited for any other that did ... *)
DeleteRow(d) ==
  /\ deleter[d] = "found"
  /\ \A o \in Deleters : deleter[o] \notin {"deleted", "gone"}
  /\ deleter' = [deleter EXCEPT ![d] = "deleted"]
  /\ UNCHANGED <<row, object, upload, removed>>

(* ... and then the object, if that works ... *)
DeleteKey(d) ==
  /\ deleter[d] = "deleted"
  /\ object' \in {object, "none"}
  /\ removed' = TRUE
  /\ deleter' = [deleter EXCEPT ![d] = "gone"]
  /\ UNCHANGED <<row, upload>>

(* ... before the commit, which may fail. *)
CommitDelete(d) ==
  /\ deleter[d] = "gone"
  /\ row' \in {row, FALSE}
  /\ deleter' = [deleter EXCEPT ![d] = "idle"]
  /\ UNCHANGED <<object, upload, removed>>

Next ==
  \/ Put \/ Verify \/ VerifyFails \/ InsertRow \/ AnswerUpload
  \/ \E d \in Deleters : SeeRow(d) \/ DeleteRow(d) \/ DeleteKey(d) \/ CommitDelete(d)

Spec == Init /\ [][Next]_vars

-----------------------------------------------------------------------------

(* What was answered is kept until somebody deletes it: the row is there,  *)
(* and the whole object with it.  No failure on the way ever leaves a row  *)
(* of an object that is not what was uploaded, deletions or not.           *)
AnsweredIsKept ==
  /\ row => object # "broken"
  /\ ~removed => /\ row => object = "whole"
                 /\ upload \in {"stored", "done"} => row

(* The comment of admin_documents.py:182-185: the row goes first, so that  *)
(* there is no row that exists and has no object to download, once no      *)
(* request is deleting it.                                                 *)
NoRowWithoutObject == (row /\ \A d \in Deleters : deleter[d] = "idle") => object = "whole"
==============================================================================
