----------------------------- MODULE MCPlatform -----------------------------
(***************************************************************************)
(* The rest of the platform for TLC: modules that share no row are checked *)
(* in one run, a behaviour being about one of them (its focus) while the   *)
(* others stay as they begin.                                              *)
(***************************************************************************)
EXTENDS Integers

CONSTANTS
  Actors,   \* whoever makes requests, and runs of workers
  Null,
  LastDay, PeriodStart, MaxContracts, MaxData,                        \* archives
  MaxClock, BUILD_EPOCH, REGRESSION_TOLERANCE_S, RETENTION,           \* the clock gate
  REQUIRE_SYNC_SOURCE, MaxRows,
  MinValid, MaxValid, Width, ONEWIRE_FREEZE_STUCK_READS, STALE_AFTER, \* sensors
  MaxFreeze, MaxUptime,
  Ips, Emails, IP_MAX_ATTEMPTS, IP_WINDOW_S,                          \* logins
  FAIL_MAX_ATTEMPTS, FAIL_WINDOW_S, MaxLoginTime,
  Plants, Invites,                                                    \* accounts
  Alerts, MaxHours, MaxTasks,                                         \* trips
  MaxMessages, BACKOFF_MAX,                                           \* the live feed
  Runs, MaxVersion,                                                   \* provisioning
  HoursPerDay, DaysPerMonth, TRAILING_LOOKBACK_DAYS,                  \* figures
  Amounts, Rates, Rupees, Paise, Years, Fees, Marks,
  Values, Ages, Counts, Thresholds, Windows,                          \* judgements
  FRESHNESS_WINDOW_S, SNAPSHOT_ROWS_PER_SENSOR, LOOKBACK_SLACK,
  MaxReadings, MaxSamples, MaxTimestamp

VARIABLES focus,
          contracts, creating, kind, data, staging, final, proof, row, run, approving, reader,
          clock, watermark, file, rows, step, latest, savedAll,
          uptime, history, repeated, frame, frozen, setpoint, measured,
          time, attempts, failures, pruned, session, passed,
          user, grants, invites, admin, guest,
          hour, trip, stop, tasks, webhook,
          stored, object, upload, deleter, removed,
          watched, handler, registry, bridge, backoff, inbox, taken, targets, received, since,
          script, written, passwd, broker, registered, disturbed, standing,
          source, cache, booted, highest,
          asked, answer, question, conclusion

R == INSTANCE ArchiveReaders WITH Admins <- {}, Workers <- Actors, NotRead <- Null
C == INSTANCE EdgeClock WITH MaxTime <- MaxClock
S == INSTANCE Sensors WITH MaxTime <- MaxUptime, NoValue <- Null,
       now <- uptime, run <- repeated, answer <- measured
L == INSTANCE LoginLimiter WITH Sessions <- Actors, MaxTime <- MaxLoginTime, now <- time
A == INSTANCE Accounts WITH Admins <- Actors, Guests <- Actors, NotGiven <- Null
T == INSTANCE Logistics WITH MaxTime <- MaxHours, now <- hour
D == INSTANCE StoredDocuments WITH Deleters <- Actors, row <- stored
W == INSTANCE LiveFeed WITH Sockets <- Actors
P == INSTANCE Provisioning WITH None <- Null, step <- script

(* Money goes below zero, where a credit or a discount does. *)
Money == Amounts \cup {-1, -100}
Taxes == Rates \cup {-18}

(* Hours with nothing, a good zero, a half that is flagged, and all of it; *)
(* contracts with either threshold, both, in either order, or none.        *)
Said(value, good) == [value |-> value, good |-> good]
Terms == [base_fee : Fees, usage_rate : Fees, bonus_at : Marks \cup {Null}, bonus : Fees,
          penalty_at : Marks \cup {Null}, penalty : Fees]

F == INSTANCE Figures WITH
       Samples <- {<<>>, <<Said(0, TRUE)>>, <<Said(8, FALSE)>>,
                   <<Said(4, TRUE), Said(8, FALSE), Said(Null, TRUE)>>},
       Contracts <- Terms, Amounts <- Money, Rates <- Taxes
J == INSTANCE Judgements WITH MaxTime <- MaxTimestamp, asked <- question, answer <- conclusion

ASSUME PlatformAssumption ==
  /\ R!ContractsAssumption /\ R!DocumentsAssumption /\ R!ReadersAssumption
  /\ C!EdgeClockAssumption /\ S!SensorsAssumption
  /\ L!LimiterAssumption /\ A!AccountsAssumption /\ T!LogisticsAssumption
  /\ W!FeedAssumption /\ P!ProvisioningAssumption
  /\ F!FiguresAssumption /\ J!JudgementsAssumption

readers_  == <<contracts, creating, kind, data, staging, final, proof, row, run, approving, reader>>
clock_    == <<clock, watermark, file, rows, step, latest, savedAll>>
sensors_  == <<uptime, history, repeated, frame, frozen, setpoint, measured>>
logins_   == <<time, attempts, failures, pruned, session, passed>>
accounts_ == <<user, grants, invites, admin, guest>>
trips_    == <<hour, trip, stop, tasks, webhook>>
stored_   == <<stored, object, upload, deleter, removed>>
feed_     == <<watched, handler, registry, bridge, backoff, inbox, taken, targets, received, since>>
scripts_  == <<script, written, passwd, broker, registered, disturbed, standing>>
boots_    == <<source, cache, booted, highest>>
figures_  == <<asked, answer, question, conclusion>>

vars == <<focus, readers_, clock_, sensors_, logins_, accounts_, trips_, stored_, feed_,
          scripts_, boots_, figures_>>

Init ==
  /\ focus \in {"readers", "clock", "sensors", "logins", "accounts", "trips", "stored",
               "feed", "scripts", "boots", "figures"}
  /\ R!ReadersInit
  /\ C!Init /\ (focus = "clock" \/ clock = 0)
  /\ S!Init /\ (focus = "sensors" \/ setpoint = MinValid)
  /\ L!Init /\ A!Init /\ T!Init /\ D!Init
  /\ W!Init /\ (focus = "feed" \/ watched = [s \in Actors |-> CHOOSE p \in Plants : TRUE])
  /\ P!Init /\ F!Init /\ J!Init

ReadersStep ==
  /\ focus = "readers" /\ R!ReadersNext
  /\ UNCHANGED <<focus, clock_, sensors_, logins_, accounts_, trips_, stored_, feed_,
                  scripts_, boots_, figures_>>

ClockStep ==
  /\ focus = "clock" /\ C!Next
  /\ UNCHANGED <<focus, readers_, sensors_, logins_, accounts_, trips_, stored_, feed_,
                  scripts_, boots_, figures_>>

SensorsStep ==
  /\ focus = "sensors" /\ S!Next
  /\ UNCHANGED <<focus, readers_, clock_, logins_, accounts_, trips_, stored_, feed_,
                  scripts_, boots_, figures_>>

LoginsStep ==
  /\ focus = "logins" /\ L!Next
  /\ UNCHANGED <<focus, readers_, clock_, sensors_, accounts_, trips_, stored_, feed_,
                  scripts_, boots_, figures_>>

AccountsStep ==
  /\ focus = "accounts" /\ A!Next
  /\ UNCHANGED <<focus, readers_, clock_, sensors_, logins_, trips_, stored_, feed_,
                  scripts_, boots_, figures_>>

TripsStep ==
  /\ focus = "trips" /\ T!Next
  /\ UNCHANGED <<focus, readers_, clock_, sensors_, logins_, accounts_, stored_, feed_,
                  scripts_, boots_, figures_>>

StoredStep ==
  /\ focus = "stored" /\ D!Next
  /\ UNCHANGED <<focus, readers_, clock_, sensors_, logins_, accounts_, trips_, feed_,
                  scripts_, boots_, figures_>>

FeedStep ==
  /\ focus = "feed" /\ W!Next
  /\ UNCHANGED <<focus, readers_, clock_, sensors_, logins_, accounts_, trips_, stored_,
                  scripts_, boots_, figures_>>

ScriptsStep ==
  /\ focus = "scripts" /\ P!ScriptsNext
  /\ UNCHANGED <<focus, readers_, clock_, sensors_, logins_, accounts_, trips_, stored_,
                  feed_, boots_, figures_>>

BootsStep ==
  /\ focus = "boots" /\ P!BootsNext
  /\ UNCHANGED <<focus, readers_, clock_, sensors_, logins_, accounts_, trips_, stored_,
                  feed_, scripts_, figures_>>

FiguresStep ==
  /\ focus = "figures" /\ asked = F!NoFigure /\ question = J!NoQuestion
  /\ \/ F!Next /\ UNCHANGED <<question, conclusion>>
     \/ J!Next /\ UNCHANGED <<asked, answer>>
  /\ UNCHANGED <<focus, readers_, clock_, sensors_, logins_, accounts_, trips_, stored_,
                  feed_, scripts_, boots_>>

Next ==
  \/ ReadersStep \/ ClockStep \/ SensorsStep
  \/ LoginsStep \/ AccountsStep
  \/ TripsStep \/ StoredStep
  \/ FeedStep
  \/ ScriptsStep \/ BootsStep
  \/ FiguresStep

Spec == Init /\ [][Next]_vars

-----------------------------------------------------------------------------

About(f) == focus = f

(* The variables of each module keep their types.                          *)
TypeOK ==
  /\ About("readers") => R!ReadersTypeOK
  /\ About("clock") => C!TypeOK
  /\ About("sensors") => S!TypeOK
  /\ About("logins") => L!TypeOK
  /\ About("accounts") => A!TypeOK
  /\ About("trips") => T!TypeOK
  /\ About("stored") => D!TypeOK
  /\ About("feed") => W!TypeOK
  /\ About("scripts") => P!TypeOK
  /\ About("boots") => P!TypeOK

(* Readers of the archive are not refused what has settled                 *)
(* (restore_drill.py, admin_mrv.py).                                       *)
SettledIsReadable == About("readers") => R!SettledIsReadable

(* The tolerances of the clock gate do not add up (clock.py:20-34).        *)
ClockNeverFarBack == About("clock") => C!ClockNeverFarBack

(* No address gets more logins through than allowed (ratelimit.py:6-8).    *)
AttemptsAreLimited == About("logins") => L!AttemptsAreLimited

(* Plants go with the role of an account (admin_tenants.py:378-386).       *)
ScopeFollowsRole == A!ScopeFollowsRole

(* Whatever failed or came twice: an answered webhook has a task for every *)
(* alert that was firing, and an answered stop has ended its trip          *)
(* (logistics.py:148-258).                                                 *)
TripsAreKept == About("trips") => T!AnsweredIsKept

(* A document that was answered has its row and its object, unless         *)
(* somebody has deleted it, and no row is of an object that is not what    *)
(* was sent (admin_documents.py:104-187, erp_storage.py).                  *)
DocumentsAreKept == About("stored") => D!AnsweredIsKept

(* Whoever keeps watching a plant is sent all that the bridge takes of it, *)
(* once and in order (mqtt_bridge.py:54-97).                               *)
FeedIsWhole == About("feed") => W!FeedIsWhole

(* A run of the provisioning script that succeeds undisturbed leaves files *)
(* that belong together, whatever earlier runs left                        *)
(* (provision_pi.py:335-445).                                              *)
LastRunMends == About("scripts") => P!LastRunMends

(* A device never boots with an older manifest than it ran with before     *)
(* (manifest.py:96-123).                                                   *)
ManifestNeverGoesBack == About("boots") => P!ManifestNeverGoesBack

(* What was answered, sent or written down is not lost, each as said of it *)
(* above, whatever fails, comes twice or overlaps.                         *)
NothingIsLost ==
  /\ TripsAreKept /\ DocumentsAreKept /\ FeedIsWhole
  /\ LastRunMends /\ ManifestNeverGoesBack

(* What is flagged is not billed, and doing better never costs less        *)
(* (billing_worker.py).                                                    *)
BillsAreFair ==
  About("figures") => F!FlaggedHoursAreNotBilled /\ F!MorePerformanceNeverCostsLess

(* Taxes add up, and a voucher is off by no more than the match lets its   *)
(* invoice be (erp_calc.py, tally.py).                                     *)
MoneyAddsUp == About("figures") => F!TaxAddsUp /\ F!VoucherFollowsInvoice

(* Printed amounts read as what they are, and months follow each other     *)
(* (erp_calc.py).                                                          *)
PrintReadsBack == About("figures") => F!WordsReadBack /\ F!MonthsFollowEachOther

(* The conditions of alarm rules hold when they should (alarm_engine.py).  *)
RulesFireRightly ==
  About("figures") => J!FrozenIsNoticed /\ J!DeviationIsBounded /\ J!WiderNeverFires

(* KPIs, risks, colours, tanks and metrics are of the readings they claim  *)
(* to be of, and worse readings never look better.                         *)
PlantsAreJudgedRightly ==
  About("figures") =>
    /\ J!KpisAreBacked /\ J!RiskFollows /\ J!ColourFollows
    /\ J!DrainingIsSeen /\ J!MetricsAreOfRows

(* A probe that repeats itself is flagged (mockgen.py:377-387).            *)
StuckIsFlagged == About("sensors") => S!StuckIsFlagged

(* Figures and judgements are what they claim, each as said of it above.   *)
FiguresAgree ==
  /\ BillsAreFair /\ MoneyAddsUp /\ PrintReadsBack
  /\ RulesFireRightly /\ PlantsAreJudgedRightly /\ StuckIsFlagged
==============================================================================
