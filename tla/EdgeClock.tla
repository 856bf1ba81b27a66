------------------------------ MODULE EdgeClock ------------------------------
(***************************************************************************)
(* The clock gate of an edge unit (edge/clock.py) and the rolling history  *)
(* that is pruned by the same clock (edge/local_store.py), under the       *)
(* daemon's check before every poll cycle (edge/daemon.py).                *)
(*                                                                         *)
(* The system clock is set to anything at any moment: NTP steps it, and a  *)
(* unit without a battery forgets it with the power.  The unit may restart *)
(* at any moment, and the watermark file may fail to be written.           *)
(***************************************************************************)
EXTENDS Naturals, Sequences

CONSTANTS
  MaxTime,               \* bound: clock readings are 0..MaxTime
  BUILD_EPOCH,
  REGRESSION_TOLERANCE_S,
  RETENTION,             \* retention_days
  REQUIRE_SYNC_SOURCE,
  MaxRows                \* bound: rows that are ever inserted

EdgeClockAssumption ==
  /\ {MaxTime, BUILD_EPOCH, REGRESSION_TOLERANCE_S, RETENTION, MaxRows} \subseteq Nat
  /\ REQUIRE_SYNC_SOURCE \in BOOLEAN

VARIABLES
  clock,      \* datetime.now()
  watermark,  \* ClockGate._watermark
  file,       \* what the watermark file says
  rows,       \* local_readings: the ts of each id, Never once it is deleted
  step,       \* the poll cycle: "idle", or the ts of the cycle is being read
  latest,     \* latest ts that any cycle has been given (for the properties)
  savedAll    \* every watermark has reached the file (for the properties)

vars == <<clock, watermark, file, rows, step, latest, savedAll>>

Time  == 0..MaxTime
Never == MaxTime + 1     \* no watermark, no cycle going on
Stamp == Time \cup {Never}

TypeOK ==
  /\ clock \in Time
  /\ watermark \in Stamp /\ file \in Stamp
  /\ rows \in Seq(Stamp) /\ Len(rows) <= MaxRows
  /\ step \in Stamp /\ latest \in Stamp
  /\ savedAll \in BOOLEAN

Init ==
  /\ clock \in Time
  /\ watermark = Never /\ file = Never
  /\ rows = <<>>
  /\ step = Never
  /\ latest = Never /\ savedAll = TRUE

(* Time passes, or the clock is set. *)
SetClock ==
  /\ clock' \in Time \ {clock}
  /\ UNCHANGED <<watermark, file, rows, step, latest, savedAll>>

(* check: not before the build, not back past the watermark by more than   *)
(* the tolerance, and with a source of synchronisation if one is required. *)
Regressed == watermark # Never /\ watermark > clock + REGRESSION_TOLERANCE_S

Check ==
  /\ clock >= BUILD_EPOCH
  /\ ~Regressed
  /\ \E ntp, rtc \in BOOLEAN : ntp \/ rtc \/ ~REQUIRE_SYNC_SOURCE

(* A plausible bug: the watermark follows the clock back. *)
Follows(ts) == watermark # ts

Advances(ts) == watermark = Never \/ ts > watermark

(* poller_task: the check, observe with the reading of the clock that was  *)
(* checked, and the cycle begins; a watermark that cannot be saved is only *)
(* logged.                                                                 *)
BeginCycle ==
  /\ step = Never
  /\ Check
  /\ step' = clock
  /\ latest' = IF latest = Never \/ clock > latest THEN clock ELSE latest
  /\ IF Advances(clock)
     THEN /\ watermark' = clock
          /\ \E saved \in BOOLEAN :
               /\ file' = IF saved THEN clock ELSE file
               /\ savedAll' = (savedAll /\ saved)
     ELSE UNCHANGED <<watermark, file, savedAll>>
  /\ UNCHANGED <<clock, rows>>

(* insert_many: the rows of the cycle, and then everything older than the  *)
(* retention by what the clock says now.                                   *)
Kept(r) == [id \in DOMAIN r |-> IF r[id] + RETENTION >= clock THEN r[id] ELSE Never]

EndCycle ==
  /\ step # Never
  /\ Len(rows) < MaxRows
  /\ rows' = Kept(Append(rows, step))
  /\ step' = Never
  /\ UNCHANGED <<clock, watermark, file, latest, savedAll>>

(* The cycle exceeds its time budget: nothing is inserted. *)
AbandonCycle ==
  /\ step # Never
  /\ step' = Never
  /\ UNCHANGED <<clock, watermark, file, rows, latest, savedAll>>

(* The process starts again and loads the file; the history is on disk.   *)
Restart ==
  /\ watermark' = file
  /\ step' = Never
  /\ UNCHANGED <<clock, file, rows, latest, savedAll>>

Next == SetClock \/ BeginCycle \/ EndCycle \/ AbandonCycle \/ Restart

Spec == Init /\ [][Next]_vars

-----------------------------------------------------------------------------

(* However often the clock is set back by little, and whatever restarts    *)
(* come in between, no cycle is given a time further back than the         *)
(* tolerance before the latest any cycle was given, so long as watermarks  *)
(* reach the disk (clock.py:20-34): the tolerances do not add up.          *)
ClockNeverFarBack ==
  (savedAll /\ step # Never) => latest <= step + REGRESSION_TOLERANCE_S
==============================================================================
