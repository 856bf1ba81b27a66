------------------------------- MODULE Offtake -------------------------------
(***************************************************************************)
(* One batch of product from its quality check to its buyer, and its       *)
(* certificate of analysis (api/routers/admin_offtake.py).  Each request   *)
(* looks at the batch and updates it by id later; the CHECK constraints of *)
(* product_batches (migration 0011) are looked at by every UPDATE.         *)
(***************************************************************************)
CONSTANTS
  Clerks,   \* requests that may be going on at once
  Buyers,
  Nobody    \* SQL's NULL

NobodyIsNoBuyer == Nobody \notin Buyers

VARIABLES
  batch,        \* the row of product_batches
  certificate,  \* the PDF at the batch's object key
  clerk         \* what each request is doing

vars == <<batch, certificate, clerk>>

Stages == {"absent", "produced", "allocated", "dispatched"}
Qc     == {"pending", "passed", "failed"}

(* What a certificate certifies, and which request rendered it: two       *)
(* renderings differ by the time they carry.                               *)
Certificate == [qc : Qc, by : Clerks]

Batch == [status : Stages, qc : Qc, buyer : Buyers \cup {Nobody},
          coa : Certificate \cup {Nobody}]   \* coa_sha256

Idle == [step |-> "idle"]

(* A request has found what it asks for, or it has uploaded a certificate. *)
Clerk == {Idle} \cup [step : {"qc", "allocate", "dispatch"}]
                \cup [step : {"render", "uploaded"}, made : Certificate]

TypeOK ==
  /\ batch \in Batch
  /\ certificate \in Certificate \cup {Nobody}
  /\ clerk \in [Clerks -> Clerk]

Init ==
  /\ batch = [status |-> "absent", qc |-> "pending", buyer |-> Nobody, coa |-> Nobody]
  /\ certificate = Nobody
  /\ clerk = [c \in Clerks |-> Idle]

At(c, step) == clerk[c].step = step
Becomes(c, next) == clerk' = [clerk EXCEPT ![c] = next]
End(c) == Becomes(c, Idle)

(* Refused, failed, or stopped by a constraint: rolled back, but for what  *)
(* is in the object store.                                                 *)
Rollback(c) ==
  /\ ~At(c, "idle")
  /\ End(c)
  /\ UNCHANGED <<batch, certificate>>

(* A plausible bug: the table without its constraints. *)
NoConstraints(b) == TRUE

Constraints(b) ==
  /\ b.status \in {"absent", "produced"} \/ b.qc = "passed"
  /\ b.status = "dispatched" => b.buyer # Nobody

(* UPDATE product_batches ... WHERE id = :id, and the commit. *)
Update(c, b) ==
  /\ Constraints(b)
  /\ batch' = b
  /\ End(c)
  /\ UNCHANGED certificate

(* UNIQUE (plant_id, batch_no): the row is inserted once. *)
CreateBatch ==
  /\ batch.status = "absent"
  /\ batch' = [batch EXCEPT !.status = "produced"]
  /\ UNCHANGED <<certificate, clerk>>

Find(c, found) ==
  /\ At(c, "idle")
  /\ batch.status # "absent"
  /\ Becomes(c, found)
  /\ UNCHANGED <<batch, certificate>>

SeePending(c) == batch.qc = "pending" /\ Find(c, [step |-> "qc"])

RecordQc(c) ==
  /\ At(c, "qc")
  /\ \E result \in {"passed", "failed"} : Update(c, [batch EXCEPT !.qc = result])

SeeProduced(c) ==
  /\ batch.qc = "passed" /\ batch.status = "produced"
  /\ Find(c, [step |-> "allocate"])

Allocate(c) ==
  /\ At(c, "allocate")
  /\ \E b \in Buyers : Update(c, [batch EXCEPT !.status = "allocated", !.buyer = b])

SeeAllocated(c) == batch.status = "allocated" /\ Find(c, [step |-> "dispatch"])

Dispatch(c) ==
  /\ At(c, "dispatch")
  /\ Update(c, [batch EXCEPT !.status = "dispatched"])

(* generate_coa renders what it has found ... *)
RenderCertificate(c) ==
  /\ batch.qc = "passed"
  /\ Find(c, [step |-> "render", made |-> [qc |-> batch.qc, by |-> c]])

(* ... overwrites the object at the key ... *)
UploadCertificate(c) ==
  /\ At(c, "render")
  /\ certificate' = clerk[c].made
  /\ Becomes(c, [step |-> "uploaded", made |-> clerk[c].made])
  /\ UNCHANGED batch

(* ... and records its checksum. *)
RecordCertificate(c) ==
  /\ At(c, "uploaded")
  /\ Update(c, [batch EXCEPT !.coa = clerk[c].made])

Next ==
  \/ CreateBatch
  \/ \E c \in Clerks :
       \/ SeePending(c) \/ RecordQc(c)
       \/ SeeProduced(c) \/ Allocate(c)
       \/ SeeAllocated(c) \/ Dispatch(c)
       \/ RenderCertificate(c) \/ UploadCertificate(c) \/ RecordCertificate(c)
       \/ Rollback(c)

Spec == Init /\ [][Next]_vars

-----------------------------------------------------------------------------

(* What is sold has passed, and what has left has a buyer, whichever       *)
(* inspectors, allocations and dispatches overlap: a second inspection     *)
(* that comes late can no longer fail a batch that has been sold.          *)
SoldHasPassed ==
  /\ batch.status \in {"allocated", "dispatched"} => batch.qc = "passed" /\ batch.buyer # Nobody
  /\ batch.qc = "failed" => batch.status = "produced"

(* "this platform does not certify a product that failed or was never      *)
(* tested" (admin_offtake.py:298-300).                                     *)
FailedIsNotCertified == batch.coa # Nobody => batch.qc = "passed"
==============================================================================
