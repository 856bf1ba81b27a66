------------------------------- MODULE Statuses -------------------------------
(***************************************************************************)
(* Rows of which only the status moves: a fabrication job and the unit it  *)
(* builds (api/routers/production.py), and a lead (api/routers/            *)
(* admin_crm.py).  A request reads the status, checks that the one asked   *)
(* for may follow, and writes it by primary key, whatever the row has      *)
(* become by then.  No two rows share anything, so one of each is followed. *)
(***************************************************************************)
EXTENDS Naturals, Functions

CONSTANT Foremen   \* requests that may be going on at once, for any of the rows

VARIABLES
  job,      \* the job: status, and whether started and finished are set
  unit,     \* the status of the unit
  lead,     \* the stage of the lead, and why it was lost or which plant it became
  foreman   \* what each request is doing

vars == <<job, unit, lead, foreman>>

JobStatus == {"planned", "in_progress", "on_hold", "completed", "cancelled"}

_JOB_TRANSITIONS == [planned     |-> {"in_progress", "cancelled"},
                     in_progress |-> {"on_hold", "completed", "cancelled"},
                     on_hold     |-> {"in_progress", "cancelled"},
                     completed   |-> {},
                     cancelled   |-> {}]

_SERIAL_ORDER == <<"fabrication", "qc", "dispatched", "installed">>

Stages == {"lead", "site_assessment", "proposal", "contract_sent", "won", "lost"}

(* A plausible bug: what was lost can be taken up again. *)
NotWon(stage) == stage # "won"

StillOpen(stage) == stage \notin {"won", "lost"}

Idle == [step |-> "idle"]

TypeOK ==
  /\ job \in [status : JobStatus, started : BOOLEAN, finished : BOOLEAN]
  /\ unit \in Range(_SERIAL_ORDER)
  /\ lead \in [stage : Stages, closing : {"none", "reason", "plant", "both"}]
  /\ foreman \in [Foremen -> {Idle} \cup [step : {"job"}, found : JobStatus]
                                    \cup [step : {"unit"}, found : Range(_SERIAL_ORDER)]
                                    \cup [step : {"lead"}, found : Stages]]

Init ==
  /\ job = [status |-> "planned", started |-> FALSE, finished |-> FALSE]
  /\ unit = "fabrication"
  /\ lead = [stage |-> "lead", closing |-> "none"]
  /\ foreman = [f \in Foremen |-> Idle]

At(f, step) == foreman[f].step = step
Becomes(f, next) == foreman' = [foreman EXCEPT ![f] = next]
End(f) == Becomes(f, Idle)

Refuse(f) ==
  /\ ~At(f, "idle")
  /\ End(f)
  /\ UNCHANGED <<job, unit, lead>>

SeeJob(f) ==
  /\ At(f, "idle")
  /\ Becomes(f, [step |-> "job", found |-> job.status])
  /\ UNCHANGED <<job, unit, lead>>

(* The status it has may be asked for again. *)
MayBecome(found) == {found} \cup _JOB_TRANSITIONS[found]

UpdateJob(f) ==
  /\ At(f, "job")
  /\ \E s \in MayBecome(foreman[f].found) :
       job' = [status   |-> s,
               started  |-> job.started \/ s = "in_progress",
               finished |-> job.finished \/ s \in {"completed", "cancelled"}]
  /\ End(f)
  /\ UNCHANGED <<unit, lead>>

Follows(s, t) == \E i \in 1..3 : s = _SERIAL_ORDER[i] /\ t = _SERIAL_ORDER[i + 1]

SeeUnit(f) ==
  /\ At(f, "idle")
  /\ Becomes(f, [step |-> "unit", found |-> unit])
  /\ UNCHANGED <<job, unit, lead>>

AdvanceUnit(f) ==
  /\ At(f, "unit")
  /\ \E s \in Range(_SERIAL_ORDER) : Follows(foreman[f].found, s) /\ unit' = s
  /\ End(f)
  /\ UNCHANGED <<job, lead>>

SeeLead(f) ==
  /\ At(f, "idle")
  /\ StillOpen(lead.stage)
  /\ Becomes(f, [step |-> "lead", found |-> lead.stage])
  /\ UNCHANGED <<job, unit, lead>>

(* update_stage: to any stage, back too; lost needs a reason and won a     *)
(* plant, and both columns are written, with nothing if not given.         *)
MoveLead(f) ==
  /\ At(f, "lead")
  /\ \E stage \in Stages, closing \in {"none", "reason", "plant", "both"} :
       /\ stage = "lost" => closing \in {"reason", "both"}
       /\ stage = "won" => closing \in {"plant", "both"}
       /\ lead' = [stage |-> stage, closing |-> closing]
  /\ End(f)
  /\ UNCHANGED <<job, unit>>

Next == \E f \in Foremen :
          \/ SeeJob(f) \/ UpdateJob(f) \/ SeeUnit(f) \/ AdvanceUnit(f)
          \/ SeeLead(f) \/ MoveLead(f)
          \/ Refuse(f)

Spec == Init /\ [][Next]_vars

-----------------------------------------------------------------------------

FoundOtherwise(step, status) == \E f \in Foremen : At(f, step) /\ foreman[f].found # status

(* A job and a unit move along their diagrams (production.py:347-353, 402) *)
(* and a closed lead stays as it is (admin_crm.py:101-102), unless they    *)
(* have moved since the request that moves them looked: only requests that *)
(* overlap can leave the diagrams, and what is finished is final.          *)
FinishedIsFrozen ==
  [][/\ job'.status # job.status =>
          job'.status \in _JOB_TRANSITIONS[job.status] \/ FoundOtherwise("job", job.status)
     /\ unit' # unit => Follows(unit, unit') \/ FoundOtherwise("unit", unit)
     /\ (lead' # lead /\ lead.stage \in {"won", "lost"}) => FoundOtherwise("lead", lead.stage)]_vars

(* The comment and the refusal of production.py:402, 480-484: units only   *)
(* advance one step forward.                                               *)
UnitsOnlyAdvance == [][unit' # unit => Follows(unit, unit')]_unit
==============================================================================
