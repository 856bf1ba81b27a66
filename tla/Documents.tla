------------------------------ MODULE Documents ------------------------------
(***************************************************************************)
(* The two workers that put a document into the object store and a row     *)
(* about it into the database: workers/archive_worker.py (a day's readings *)
(* as Parquet, logged in archive_log) and workers/billing_worker.py (a     *)
(* month's invoice PDF, with its row in invoices), and the approval of an  *)
(* invoice in api/routers/admin_billing.py.                                *)
(*                                                                         *)
(* Both upload through upload_atomic: put a staging object, copy it to the *)
(* final key, delete the staging object, download the final object again   *)
(* and compare its checksum.  Workers are commands without a lock: any     *)
(* number may run at once, each may fail or be killed between two steps,   *)
(* and late readings arrive at any moment.  No two documents share a key   *)
(* or a row, so one is modelled: the archive of a day, or the invoice of a *)
(* period.                                                                 *)
(***************************************************************************)
EXTENDS Contracts

CONSTANTS
  Workers,     \* runs of the two workers that may go on at once
  PeriodStart, \* the first day of the billed period
  MaxData      \* bound: how often readings of the period arrive

ASSUME DocumentsAssumption == PeriodStart \in Days /\ MaxData \in Nat

VARIABLES
  kind,      \* which document it is
  data,      \* how many lots of readings the readings table holds
  staging,   \* the object at its staging key
  final,     \* the object at its final key
  proof,     \* the document the .ots proof object is about
  row,       \* its row in the database
  run,       \* what each worker is doing
  approving  \* the administrators who have seen a draft and will approve it

documentVars == <<kind, data, staging, final, proof, row, run, approving>>
vars         == <<contractVars, documentVars>>

Kinds == {"archive", "invoice"}

(* What a document states: which readings, and for an invoice under which  *)
(* contract.  A rendered PDF carries the time of its rendering, so that    *)
(* two renderings differ; a Parquet file is determined by its rows.        *)
AnyRun == "any"
Document == [data : 0..MaxData, contract : Ids \cup {NoneYet}, by : Workers \cup {AnyRun}]
Nothing  == [data |-> 0, contract |-> NoneYet, by |-> AnyRun]

(* The figures an invoice row copies, of one rendering or another. *)
Figures(document) == [document EXCEPT !.by = AnyRun]

RowStatus == {"absent", "draft", "approved", "logged"}
NoRow == [status |-> "absent", states |-> Nothing]

(* A run's next step and the document it made.  Two notes the code does    *)
(* not keep: alone, that no other run of the same document has gone on     *)
(* since it began, and landed, that its document has been at the final key. *)
Steps == {"idle", "contract", "render", "stage", "copy", "unstage", "verify", "proof", "upsert"}
Run   == [step : Steps, document : Document, alone : BOOLEAN, landed : BOOLEAN]
Idle  == [step |-> "idle", document |-> Nothing, alone |-> FALSE, landed |-> FALSE]

TypeOK ==
  /\ ContractsTypeOK
  /\ kind \in Kinds
  /\ data \in 0..MaxData
  /\ {staging, final, proof} \subseteq Document
  /\ row \in [status : RowStatus, states : Document]
  /\ row.status \in IF kind = "archive" THEN {"absent", "logged"} ELSE {"absent", "draft", "approved"}
  /\ run \in [Workers -> Run]
  /\ approving \subseteq Admins

Init ==
  /\ ContractsInit
  /\ kind \in Kinds
  /\ data = 0
  /\ staging = Nothing /\ final = Nothing /\ proof = Nothing
  /\ row = NoRow
  /\ run = [w \in Workers |-> Idle]
  /\ approving = {}

(* Readings of the day arrive late: the ingest service inserts them. *)
DataArrives ==
  /\ data < MaxData
  /\ data' = data + 1
  /\ UNCHANGED <<contractVars, kind, staging, final, proof, row, run, approving>>

At(w, step)   == run[w].step = step
Goto(w, step) == run' = [run EXCEPT ![w].step = step]
End(w)        == run' = [run EXCEPT ![w] = Idle]

Others(w) == {v \in Workers \ {w} : ~At(v, "idle")}

(* A run begins; it and the runs it overlaps are no longer alone. *)
Begin(w) ==
  /\ At(w, "idle")
  /\ run' = [v \in Workers |->
       IF v = w THEN [step |-> IF kind = "invoice" THEN "contract" ELSE "render",
                      document |-> Nothing, alone |-> Others(w) = {}, landed |-> FALSE]
       ELSE [run[v] EXCEPT !.alone = FALSE]]
  /\ UNCHANGED <<contractVars, kind, data, staging, final, proof, row, approving>>

(* generate_invoice finds the contract of the period's first day; without  *)
(* one the plant is skipped.                                               *)
FindContract(w) ==
  /\ At(w, "contract")
  /\ LET id == ContractFor(PeriodStart) IN
       IF id = NoneYet THEN End(w)
       ELSE run' = [run EXCEPT ![w].step = "render", ![w].document.contract = id]
  /\ UNCHANGED <<contractVars, kind, data, staging, final, proof, row, approving>>

(* compute_billing_numbers and render_invoice_pdf, or export_day_to_parquet: *)
(* a day without readings is skipped, a month without is billed.           *)
Render(w) ==
  /\ At(w, "render")
  /\ IF kind = "archive" /\ data = 0 THEN End(w)
     ELSE run' = [run EXCEPT ![w].step = "stage", ![w].document.data = data,
                    ![w].document.by = IF kind = "invoice" THEN w ELSE AnyRun]
  /\ UNCHANGED <<contractVars, kind, data, staging, final, proof, row, approving>>

Stage(w) ==
  /\ At(w, "stage")
  /\ staging' = run[w].document
  /\ Goto(w, "copy")
  /\ UNCHANGED <<contractVars, kind, data, final, proof, row, approving>>

(* What is copied to the final key has been there. *)
Landing ==
  [v \in Workers |->
     IF ~At(v, "idle") /\ run[v].document = staging
     THEN [run[v] EXCEPT !.landed = TRUE] ELSE run[v]]

(* Copy what the staging key holds by now; the copy of an object another   *)
(* run has deleted raises, and the run ends.                               *)
Copy(w) ==
  /\ At(w, "copy")
  /\ IF staging = Nothing THEN End(w) /\ UNCHANGED final
     ELSE final' = staging /\ run' = [Landing EXCEPT ![w].step = "unstage"]
  /\ UNCHANGED <<contractVars, kind, data, staging, proof, row, approving>>

DeleteStaging(w) ==
  /\ At(w, "unstage")
  /\ staging' = Nothing
  /\ Goto(w, "verify")
  /\ UNCHANGED <<contractVars, kind, data, final, proof, row, approving>>

(* A plausible bug: the checksum is not compared. *)
Unverified(w) == TRUE

(* Whether the final object is, by its checksum, the file uploaded. *)
Verified(w) == final = run[w].document

Verify(w) ==
  /\ At(w, "verify")
  /\ IF ~Verified(w) THEN End(w)
     ELSE Goto(w, IF kind = "archive" THEN "proof" ELSE "upsert")
  /\ UNCHANGED <<contractVars, kind, data, staging, final, proof, row, approving>>

(* The timestamp proof, or the stub that stands in for it, of the digest.  *)
PutProof(w) ==
  /\ At(w, "proof")
  /\ proof' = run[w].document
  /\ Goto(w, "upsert")
  /\ UNCHANGED <<contractVars, kind, data, staging, final, row, approving>>

(* Plausible bugs: the row of the day is written once, ON CONFLICT DO      *)
(* NOTHING; or it is written as a draft.                                   *)
LogOnce(old, document) ==
  IF old.status = "absent" THEN [status |-> "logged", states |-> document] ELSE old
LogDraft(old, document) == [status |-> "draft", states |-> document]

(* upsert_archive_log overwrites the row of the day. *)
LogArchive(old, document) == [status |-> "logged", states |-> document]

(* A plausible bug: the upsert without its WHERE invoices.status = 'draft'. *)
SaveAlways(old, document) == [status |-> "draft", states |-> Figures(document)]

(* _upsert_invoice inserts a draft, or overwrites one; the row of an       *)
(* invoice no longer a draft is left as it is.                             *)
SaveInvoice(old, document) ==
  IF old.status \in {"absent", "draft"}
  THEN [status |-> "draft", states |-> Figures(document)]
  ELSE old

Save(old, document) ==
  IF kind = "archive" THEN LogArchive(old, document) ELSE SaveInvoice(old, document)

Upsert(w) ==
  /\ At(w, "upsert")
  /\ row' = Save(row, run[w].document)
  /\ End(w)
  /\ UNCHANGED <<contractVars, kind, data, staging, final, proof, approving>>

(* Any step may raise, and the process may be killed: what it has uploaded *)
(* stays.                                                                  *)
RunFails(w) ==
  /\ ~At(w, "idle")
  /\ End(w)
  /\ UNCHANGED <<contractVars, kind, data, staging, final, proof, row, approving>>

(* approve_invoice reads the row and refuses unless it is a draft ... *)
SeeDraft(a) ==
  /\ a \notin approving /\ creating[a] = NoRequest
  /\ row.status = "draft"
  /\ approving' = approving \cup {a}
  /\ UNCHANGED <<contractVars, kind, data, staging, final, proof, row, run>>

(* ... and then updates it by its id alone. *)
Approve(a) ==
  /\ a \in approving
  /\ approving' = approving \ {a}
  /\ row' = [row EXCEPT !.status = "approved"]
  /\ UNCHANGED <<contractVars, kind, data, staging, final, proof, run>>

RunStep(w) ==
  \/ Begin(w) \/ FindContract(w) \/ Render(w) \/ Stage(w) \/ Copy(w) \/ DeleteStaging(w)
  \/ Verify(w) \/ PutProof(w) \/ Upsert(w) \/ RunFails(w)

(* Contracts bear on invoices alone. *)
Next ==
  \/ kind = "invoice" /\ (\E a \in Admins \ approving : ContractStep(a)) /\ UNCHANGED documentVars
  \/ DataArrives
  \/ \E w \in Workers : RunStep(w)
  \/ \E a \in Admins : SeeDraft(a) \/ Approve(a)

Spec == Init /\ [][Next]_vars

-----------------------------------------------------------------------------

(* A row is only ever written for a document that was stored: however runs *)
(* overlap over the one staging key, what the row states has been, whole,  *)
(* at the final key.                                                       *)
WrittenWasStored ==
  [][\A w \in Workers : Upsert(w) => run[w].landed]_vars

(* Nothing changes what an approved invoice charges, and nothing makes it  *)
(* a draft again, whoever regenerates it meanwhile.                        *)
ApprovedIsFrozen ==
  [][row.status = "approved" => row' = row]_vars

(* The next run heals: once a run that overlapped no other completes, row, *)
(* object and proof agree again, whatever earlier runs left behind.  Only  *)
(* an invoice approved before has kept its row.                            *)
Agree ==
  IF kind = "archive" THEN row.states = final /\ proof = final
  ELSE row.states = Figures(final)

LoneRunHeals ==
  [][\A w \in Workers :
       (run[w].alone /\ row.status # "approved" /\ Upsert(w)) => Agree']_vars

(* What regenerating an approved invoice is not to do (the comment at      *)
(* billing_worker.py:497-499): the document behind pdf_url stays the one   *)
(* that was approved.                                                      *)
ApprovedPdfIsKept ==
  [][row.status = "approved" => final' = final]_vars
==============================================================================
