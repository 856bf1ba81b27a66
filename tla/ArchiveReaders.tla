--------------------------- MODULE ArchiveReaders ---------------------------
(***************************************************************************)
(* The two readers of the archive, beside the workers that write it: one   *)
(* day of an MRV export (api/routers/admin_mrv.py) and the restore drill   *)
(* (scripts/restore_drill.py).  Both read the row of the day, download the *)
(* object at its key and compare the checksum, and then fetch the proof:   *)
(* the row, the object and the proof are each overwritten in place by the  *)
(* next run of the worker.                                                 *)
(***************************************************************************)
EXTENDS Documents

CONSTANT NotRead   \* nothing has been read

ReadersAssumption == NotRead \notin Document

VARIABLE reader   \* what the reader is doing

readerVars == <<vars, reader>>

(* What was found in the row, in the object, as the proof; settled, that   *)
(* row, object and proof agreed when the reader began and that no run has  *)
(* been going on since (for the properties).                               *)
Reader == [step     : {"idle", "row", "object", "proof", "included", "refused"},
           recorded : Document \cup {NotRead},
           included : Document \cup {NotRead},
           timestamp : Document \cup {NotRead},
           settled  : BOOLEAN]

NoReader == [step |-> "idle", recorded |-> NotRead, included |-> NotRead,
             timestamp |-> NotRead, settled |-> FALSE]

ReadersTypeOK == TypeOK /\ reader \in Reader

ReadersInit == Init /\ kind = "archive" /\ reader = NoReader

Quiet == \A w \in Workers : At(w, "idle")

(* A day that is not in archive_log is made up from the readings by the    *)
(* export, and fails the drill.                                            *)
ReadRow ==
  /\ reader.step = "idle"
  /\ reader' = IF row.status = "logged"
               THEN [NoReader EXCEPT !.step = "row", !.recorded = row.states, !.settled = Quiet /\ Agree]
               ELSE [NoReader EXCEPT !.step = "refused"]
  /\ UNCHANGED vars

(* _export_day_synth *)
Synthesize ==
  /\ reader.step = "idle" /\ row.status = "absent"
  /\ reader' = [NoReader EXCEPT !.step = "included", !.included = [Nothing EXCEPT !.data = data]]
  /\ UNCHANGED vars

Download ==
  /\ reader.step = "row"
  /\ reader' = [reader EXCEPT !.step = "object", !.included = final]
  /\ UNCHANGED vars

(* A plausible bug: compared with what the readings give now. *)
SameAsReadings == reader.included.data = data

ChecksumMatches == reader.included = reader.recorded

CompareChecksum ==
  /\ reader.step = "object"
  /\ reader' = [reader EXCEPT !.step = IF ChecksumMatches THEN "proof" ELSE "refused"]
  /\ UNCHANGED vars

(* Best effort: a proof that cannot be fetched is noted as unavailable.    *)
FetchProof ==
  /\ reader.step = "proof"
  /\ \E p \in {proof, NotRead} : reader' = [reader EXCEPT !.step = "included", !.timestamp = p]
  /\ UNCHANGED vars

Answer ==
  /\ reader.step \in {"included", "refused"}
  /\ reader' = NoReader
  /\ UNCHANGED vars

ReadersNext ==
  \/ /\ Next
     /\ reader' = [reader EXCEPT !.settled = @ /\ (\A w \in Workers : run'[w] = Idle)]
  \/ ReadRow \/ Synthesize \/ Download \/ CompareChecksum \/ FetchProof \/ Answer

ReadersSpec == ReadersInit /\ [][ReadersNext]_readerVars

-----------------------------------------------------------------------------

(* What the drill and the export rely on: once a run has brought row,      *)
(* object and proof into agreement, and until another begins, a reader     *)
(* gets the document, and with its own proof if with any.                  *)
SettledIsReadable ==
  reader.settled =>
    /\ reader.step # "refused"
    /\ reader.step = "included" => reader.timestamp \in {reader.included, NotRead}
==============================================================================
