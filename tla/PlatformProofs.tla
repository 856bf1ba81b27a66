---------------------------- MODULE PlatformProofs ----------------------------
(***************************************************************************)
(* Theorems about the smaller components, for every value of the bounds    *)
(* that the run gives one of.                                              *)
(***************************************************************************)
EXTENDS FiguresProofs

\* Each step is one of one module, and leaves the others alone.
LEMMA PlatformSteps ==
  ASSUME [Next]_vars
  PROVE  /\ focus' = focus
         /\ [R!ReadersNext]_(R!readerVars) /\ [C!Next]_(C!vars) /\ [S!Next]_(S!vars)
         /\ [L!Next]_(L!vars) /\ [A!Next]_(A!vars) /\ [T!Next]_(T!vars)
         /\ [D!Next]_(D!vars) /\ [W!Next]_(W!vars) /\ [P!Next]_(P!vars)
         /\ [F!Next]_(F!vars) /\ [J!Next]_(J!vars)
<1> USE DEF readers_, clock_, sensors_, logins_, accounts_, trips_, stored_, feed_, scripts_,
            boots_, figures_, F!vars, J!vars, R!readerVars, R!vars, R!contractVars, R!documentVars, C!vars, S!vars, L!vars,
            A!vars, T!vars, D!vars, W!vars, P!vars, P!scripts_, P!boots_
<1>1. CASE ReadersStep
  BY <1>1 DEF ReadersStep
<1>2. CASE ClockStep
  BY <1>2 DEF ClockStep
<1>3. CASE SensorsStep
  BY <1>3 DEF SensorsStep
<1>4. CASE LoginsStep
  BY <1>4 DEF LoginsStep
<1>5. CASE AccountsStep
  BY <1>5 DEF AccountsStep
<1>6. CASE TripsStep
  BY <1>6 DEF TripsStep
<1>7. CASE StoredStep
  BY <1>7 DEF StoredStep
<1>8. CASE FeedStep
  BY <1>8 DEF FeedStep
<1>9. CASE ScriptsStep \/ BootsStep
  BY <1>9 DEF ScriptsStep, BootsStep, P!Next
<1>10. CASE FiguresStep
  BY <1>10 DEF FiguresStep
<1>11. CASE UNCHANGED vars
  BY <1>11 DEF vars
<1> QED BY <1>1, <1>2, <1>3, <1>4, <1>5, <1>6, <1>7, <1>8, <1>9, <1>10, <1>11 DEF Next

-----------------------------------------------------------------------------
(* The clock gate. *)

\* While every watermark reaches the file, file, watermark and the latest
\* time of any cycle are the same.
ClockInv ==
  /\ clock \in C!Time /\ step \in C!Stamp
  /\ watermark \in C!Stamp /\ latest \in C!Stamp /\ file \in C!Stamp
  /\ savedAll => watermark = latest /\ file = latest
  /\ step # C!Never => latest # C!Never
  /\ C!ClockNeverFarBack

LEMMA ClockStart == ASSUME C!EdgeClockAssumption PROVE C!Init => ClockInv
BY DEF C!EdgeClockAssumption, C!Init, ClockInv, C!Time, C!Stamp, C!Never, C!ClockNeverFarBack

LEMMA ClockNext == ASSUME C!EdgeClockAssumption, ClockInv, [C!Next]_C!vars PROVE ClockInv'
<1>0. /\ MaxClock \in Nat /\ REGRESSION_TOLERANCE_S \in Nat
      /\ C!Time \subseteq Nat /\ C!Never \in Nat /\ C!Never \notin C!Time
      /\ C!Stamp = C!Time \cup {C!Never}
  BY DEF C!EdgeClockAssumption, C!Time, C!Never, C!Stamp
<1> USE <1>0
<1>1. CASE C!SetClock
  BY <1>1 DEF C!SetClock, ClockInv, C!ClockNeverFarBack
<1>2. CASE C!BeginCycle
  <2>1. /\ step = C!Never /\ step' = clock /\ clock' = clock
        /\ ~C!Regressed
        /\ latest' = IF latest = C!Never \/ clock > latest THEN clock ELSE latest
    BY <1>2 DEF C!BeginCycle, C!Check
  <2>2. CASE C!Advances(clock)
    <3>1. PICK saved \in BOOLEAN :
            file' = (IF saved THEN clock ELSE file) /\ savedAll' = (savedAll /\ saved)
      BY <1>2, <2>2 DEF C!BeginCycle
    <3>2. watermark' = clock
      BY <1>2, <2>2 DEF C!BeginCycle
    <3>3. savedAll' => saved /\ savedAll /\ file' = clock /\ latest' = clock
      <4>1. savedAll => watermark = latest
        BY DEF ClockInv
      <4> QED BY <2>1, <2>2, <3>1, <4>1 DEF C!Advances
    <3>4. file' \in C!Stamp /\ latest' \in C!Stamp /\ latest' # C!Never /\ clock \in C!Time
      BY <2>1, <3>1 DEF ClockInv
    <3> QED BY <2>1, <3>2, <3>3, <3>4 DEF ClockInv, C!ClockNeverFarBack
  <2>3. CASE ~C!Advances(clock)
    <3>1. UNCHANGED <<watermark, file, savedAll>>
      BY <1>2, <2>3 DEF C!BeginCycle
    <3>2. /\ watermark # C!Never /\ watermark \in Nat /\ clock \in Nat
          /\ ~(clock > watermark) /\ watermark <= clock + REGRESSION_TOLERANCE_S
      BY <2>1, <2>3 DEF C!Advances, C!Regressed, ClockInv
    <3>3. savedAll => latest' = latest /\ latest = watermark
      BY <2>1, <3>2 DEF ClockInv
    <3>4. latest' \in C!Stamp /\ latest' # C!Never
      BY <2>1 DEF ClockInv
    <3> QED BY <2>1, <3>1, <3>2, <3>3, <3>4 DEF ClockInv, C!ClockNeverFarBack
  <2> QED BY <2>2, <2>3
<1>3. CASE C!EndCycle \/ C!AbandonCycle
  BY <1>3 DEF C!EndCycle, C!AbandonCycle, ClockInv, C!ClockNeverFarBack
<1>4. CASE C!Restart
  BY <1>4 DEF C!Restart, ClockInv, C!ClockNeverFarBack
<1>5. CASE UNCHANGED C!vars
  BY <1>5 DEF C!vars, ClockInv, C!ClockNeverFarBack
<1> QED BY <1>1, <1>2, <1>3, <1>4, <1>5 DEF C!Next

-----------------------------------------------------------------------------
(* Stored documents. *)

\* What is broken has no row, and its upload is being looked at or has failed;
\* and until somebody deletes the document, what has been verified is whole,
\* and what has been stored has its row.
DocumentInv ==
  /\ deleter \in [Actors -> {"idle", "found", "deleted", "gone"}]
  /\ stored => upload \in {"stored", "done"}
  /\ object = "broken" => upload \in {"put", "failed"}
  /\ ~removed =>
       /\ \A d \in Actors : deleter[d] # "gone"
       /\ upload \in {"verified", "stored", "done"} => object = "whole"
       /\ upload \in {"stored", "done"} => stored

LEMMA DocumentStep == ASSUME DocumentInv, [D!Next]_D!vars PROVE DocumentInv'
<1>1. CASE D!Put \/ D!Verify \/ D!VerifyFails
  BY <1>1 DEF D!Put, D!Verify, D!Verified, D!VerifyFails, DocumentInv
<1>2. CASE D!InsertRow \/ D!AnswerUpload
  BY <1>2 DEF D!InsertRow, D!AnswerUpload, DocumentInv
<1>3. ASSUME NEW d \in Actors, D!SeeRow(d) \/ D!DeleteRow(d) PROVE DocumentInv'
  BY <1>3 DEF D!SeeRow, D!DeleteRow, DocumentInv
<1>4. ASSUME NEW d \in Actors, D!DeleteKey(d) PROVE DocumentInv'
  BY <1>4 DEF D!DeleteKey, DocumentInv
<1>5. ASSUME NEW d \in Actors, D!CommitDelete(d) PROVE DocumentInv'
  <2>1. /\ UNCHANGED <<object, upload, removed>> /\ (stored' = stored \/ stored' = FALSE)
        /\ deleter[d] = "gone" /\ deleter' = [deleter EXCEPT ![d] = "idle"]
    BY <1>5 DEF D!CommitDelete
  <2>2. stored' => stored
    BY <2>1, Zenon
  <2>3. removed /\ removed'
    BY <2>1 DEF DocumentInv
  <2> QED BY <2>1, <2>2, <2>3 DEF DocumentInv
<1>6. CASE UNCHANGED D!vars
  BY <1>6 DEF D!vars, DocumentInv
<1> QED BY <1>1, <1>2, <1>3, <1>4, <1>5, <1>6 DEF D!Next

\* For any number of deletions and any failure of the object store: a document
\* that was answered has its row and its object until a deletion has got to the
\* object, and there never is a row of an object that is not what was uploaded
\* (erp_storage.py:23-42, admin_documents.py:80-187).
THEOREM StoredAsSent == D!Spec => []D!AnsweredIsKept
<1>1. D!Init => DocumentInv
  BY DEF D!Init, DocumentInv
<1>2. DocumentInv /\ [D!Next]_D!vars => DocumentInv'
  BY DocumentStep
<1>3. DocumentInv => D!AnsweredIsKept
  BY DEF DocumentInv, D!AnsweredIsKept
<1> QED BY <1>1, <1>2, <1>3, PTL DEF D!Spec

-----------------------------------------------------------------------------
(* The manifest a daemon boots with. *)

ManifestInv ==
  /\ source \in Nat /\ highest \in Nat /\ source # 0
  /\ highest <= source
  /\ cache # 0 => cache = highest
  /\ booted # 0 => booted = highest

LEMMA ManifestStep == ASSUME P!ProvisioningAssumption, ManifestInv, [P!Next]_P!vars PROVE ManifestInv'
<1>1. CASE P!ChangeSensors
  BY <1>1 DEF P!ChangeSensors, ManifestInv
<1>2. CASE P!BootFromSource
  BY <1>2 DEF P!BootFromSource, P!BootWith, P!Cached, ManifestInv
<1>3. CASE P!BootFromCache
  BY <1>3 DEF P!BootFromCache, P!BootWith, ManifestInv
<1>4. CASE P!TearCache \/ P!Shutdown
  BY <1>4 DEF P!TearCache, P!Shutdown, ManifestInv
<1>5. CASE P!ScriptsNext
  <2>1. UNCHANGED P!boots_
    BY <1>5 DEF P!ScriptsNext, P!RestartBroker, P!Begin, P!WriteKeys, P!Skip, P!RegisterDevice,
                P!CannotRegister, P!WriteEnv, P!WriteSummary, P!Die
  <2> QED BY <2>1 DEF P!boots_, ManifestInv
<1>6. CASE UNCHANGED P!vars
  BY <1>6 DEF P!vars, P!boots_, ManifestInv
<1> QED BY <1>1, <1>2, <1>3, <1>4, <1>5, <1>6 DEF P!Next, P!BootsNext

\* Whatever is torn, cached, changed and restarted: no daemon boots with an
\* older manifest than it had before (manifest.py:96-123).
THEOREM ManifestsOnlyAdvance ==
  ASSUME P!ProvisioningAssumption PROVE P!Spec => []P!ManifestNeverGoesBack
<1>1. P!Init => ManifestInv
  BY DEF P!Init, ManifestInv
<1>2. ManifestInv /\ [P!Next]_P!vars => ManifestInv'
  BY ManifestStep
<1>3. ManifestInv => P!ManifestNeverGoesBack
  BY DEF ManifestInv, P!ManifestNeverGoesBack
<1> QED BY <1>1, <1>2, <1>3, PTL DEF P!Spec

-----------------------------------------------------------------------------
(* Runs of the provisioning script. *)

\* A run that no other has disturbed is the only one under way, and what it
\* has passed bears its name; what stood before it does no more.
RunsInv ==
  /\ script \in [Runs -> P!Steps]
  /\ written \in [P!Files -> Runs \cup {Null}]
  /\ registered \in [Runs -> BOOLEAN]
  /\ standing \in Runs \cup {Null}
  /\ P!UnderWay # {} => standing = Null
  /\ \A r \in P!UnderWay \ disturbed, o \in P!UnderWay : o = r
  /\ \A r \in Runs \ disturbed :
       /\ script[r] \in {"stanza", "register", "env", "summary"} => written["wg0.conf"] = r
       /\ script[r] \in {"register", "env", "summary"} => written["stanza"] = r
       /\ script[r] = "summary" => written["edge.env"] = r
       /\ script[r] \in {"idle", "keys", "stanza", "register"} => ~registered[r]
       /\ script[r] \in {"env", "summary"} /\ registered[r] => passwd = r
  /\ P!LastRunMends

LEMMA RunsInit == ASSUME P!ProvisioningAssumption PROVE P!Init => RunsInv
BY DEF P!ProvisioningAssumption, P!Init, RunsInv, P!Steps, P!Files, P!UnderWay, P!LastRunMends

\* What a run under way does, with nothing standing: the effect of its step
\* on itself is all there is to show.
LEMMA StepOfRun ==
  ASSUME P!ProvisioningAssumption, RunsInv, NEW r \in P!UnderWay, NEW to \in P!Steps,
         P!Goes(r, to), to # "done", to # "idle", UNCHANGED <<disturbed, standing>>,
         written' \in [P!Files -> Runs \cup {Null}], registered' \in [Runs -> BOOLEAN],
         \A o \in Runs : o # r => registered'[o] = registered[o],
         r \notin disturbed =>
           /\ to \in {"stanza", "register", "env", "summary"} => written'["wg0.conf"] = r
           /\ to \in {"register", "env", "summary"} => written'["stanza"] = r
           /\ to = "summary" => written'["edge.env"] = r
           /\ to \in {"idle", "keys", "stanza", "register"} => ~registered'[r]
           /\ to \in {"env", "summary"} /\ registered'[r] => passwd' = r
  PROVE  RunsInv'
<1>1. script' = [script EXCEPT ![r] = to] /\ r \in Runs /\ standing = Null
  BY DEF P!Goes, P!UnderWay, RunsInv
<1>2. script' \in [Runs -> P!Steps] /\ script'[r] = to
  BY <1>1 DEF RunsInv
<1>3. \A o \in Runs : o # r => script'[o] = script[o]
  BY <1>1 DEF RunsInv
<1>4. P!UnderWay' \subseteq P!UnderWay
  BY <1>1, <1>3 DEF P!UnderWay
<1>5. \A q \in P!UnderWay' \ disturbed', o \in P!UnderWay' : o = q
  BY <1>4 DEF RunsInv
<1>6. ASSUME NEW q \in Runs \ disturbed
      PROVE  /\ script'[q] \in {"stanza", "register", "env", "summary"} => written'["wg0.conf"] = q
             /\ script'[q] \in {"register", "env", "summary"} => written'["stanza"] = q
             /\ script'[q] = "summary" => written'["edge.env"] = q
             /\ script'[q] \in {"idle", "keys", "stanza", "register"} => ~registered'[q]
             /\ script'[q] \in {"env", "summary"} /\ registered'[q] => passwd' = q
  <2>1. CASE q = r
    BY <1>2, <2>1
  <2>2. CASE q # r
    <3>1. q \notin P!UnderWay
      BY <2>2 DEF RunsInv
    <3>2. script'[q] = script[q] /\ script[q] \in {"idle", "done", "failed"} /\ registered'[q] = registered[q]
      BY <1>3, <2>2, <3>1 DEF P!UnderWay
    <3> QED BY <3>2 DEF RunsInv
  <2> QED BY <2>1, <2>2
<1>7. standing' = Null /\ P!LastRunMends'
  BY <1>1 DEF P!LastRunMends
<1> QED BY <1>2, <1>5, <1>6, <1>7 DEF RunsInv

LEMMA RunsStep == ASSUME P!ProvisioningAssumption, RunsInv, [P!Next]_P!vars PROVE RunsInv'
<1>1. CASE P!RestartBroker
  BY <1>1 DEF P!RestartBroker, RunsInv, P!UnderWay, P!LastRunMends
<1>2. ASSUME NEW r \in Runs, P!Begin(r) PROVE RunsInv'
  <2>1. /\ script' = [script EXCEPT ![r] = "keys"] /\ script[r] = "idle" /\ r \notin P!UnderWay
        /\ standing' = Null /\ UNCHANGED <<written, passwd, registered>>
        /\ disturbed' = IF P!UnderWay = {} THEN disturbed ELSE disturbed \cup P!UnderWay \cup {r}
    BY <1>2 DEF P!Begin, P!Goes, P!UnderWay
  <2>2. script' \in [Runs -> P!Steps] /\ script'[r] = "keys" /\ \A o \in Runs : o # r => script'[o] = script[o]
    BY <2>1 DEF RunsInv, P!Steps
  <2>3. P!UnderWay' = P!UnderWay \cup {r}
    BY <2>1, <2>2 DEF P!UnderWay
  <2>4. \A q \in P!UnderWay' \ disturbed', o \in P!UnderWay' : o = q
    BY <2>1, <2>3
  <2>5. disturbed \subseteq disturbed'
    BY <2>1
  <2>6. ASSUME NEW q \in Runs \ disturbed'
        PROVE  /\ script'[q] \in {"stanza", "register", "env", "summary"} => written'["wg0.conf"] = q
               /\ script'[q] \in {"register", "env", "summary"} => written'["stanza"] = q
               /\ script'[q] = "summary" => written'["edge.env"] = q
               /\ script'[q] \in {"idle", "keys", "stanza", "register"} => ~registered'[q]
               /\ script'[q] \in {"env", "summary"} /\ registered'[q] => passwd' = q
    <3>1. q \in Runs \ disturbed
      BY <2>5
    <3>2. CASE q = r
      BY <2>1, <2>2, <3>1, <3>2 DEF RunsInv
    <3>3. CASE q # r
      BY <2>1, <2>2, <3>1, <3>3 DEF RunsInv
    <3> QED BY <3>2, <3>3
  <2>7. P!LastRunMends'
    BY <2>1 DEF P!LastRunMends
  <2> QED BY <2>1, <2>2, <2>4, <2>6, <2>7 DEF RunsInv
<1>3. ASSUME NEW r \in Runs, P!WriteKeys(r) PROVE RunsInv'
  <2>1. r \in P!UnderWay
    BY <1>3 DEF P!WriteKeys, P!UnderWay
  <2>2. /\ UNCHANGED <<passwd, registered, disturbed, standing>>
        /\ \/ script[r] = "keys" /\ P!Writes(r, "wg0.conf") /\ P!Goes(r, "stanza")
           \/ script[r] = "stanza" /\ P!Writes(r, "stanza") /\ P!Goes(r, "register")
    BY <1>3 DEF P!WriteKeys
  <2>3. {"wg0.conf", "stanza", "edge.env", "device.json"} = P!Files /\ {"stanza", "register"} \subseteq P!Steps
    BY DEF P!Files, P!Steps
  <2>4. CASE script[r] = "keys" /\ P!Writes(r, "wg0.conf") /\ P!Goes(r, "stanza")
    <3>1. written' \in [P!Files -> Runs \cup {Null}] /\ written'["wg0.conf"] = r
      BY <2>3, <2>4 DEF P!Writes, RunsInv
    <3>2. r \notin disturbed => ~registered[r]
      BY <2>4 DEF RunsInv
    <3>3. registered \in [Runs -> BOOLEAN]
      BY DEF RunsInv
    <3> QED BY <2>1, <2>2, <2>3, <2>4, <3>1, <3>2, <3>3, StepOfRun
  <2>5. CASE script[r] = "stanza" /\ P!Writes(r, "stanza") /\ P!Goes(r, "register")
    <3>1. /\ written' \in [P!Files -> Runs \cup {Null}] /\ written'["stanza"] = r
          /\ written'["wg0.conf"] = written["wg0.conf"]
      BY <2>3, <2>5 DEF P!Writes, RunsInv
    <3>2. r \notin disturbed => ~registered[r] /\ written["wg0.conf"] = r
      BY <2>5 DEF RunsInv
    <3>3. registered \in [Runs -> BOOLEAN]
      BY DEF RunsInv
    <3> QED BY <2>1, <2>2, <2>3, <2>5, <3>1, <3>2, <3>3, StepOfRun
  <2> QED BY <2>2, <2>4, <2>5
<1>4. ASSUME NEW r \in Runs, P!Skip(r) \/ P!RegisterDevice(r) PROVE RunsInv'
  <2>1. r \in P!UnderWay /\ script[r] = "register" /\ P!Goes(r, "env")
    BY <1>4 DEF P!Skip, P!RegisterDevice, P!UnderWay
  <2>2. UNCHANGED <<written, disturbed, standing>>
    BY <1>4 DEF P!Skip, P!RegisterDevice
  <2>3. r \notin disturbed => written["wg0.conf"] = r /\ written["stanza"] = r /\ ~registered[r]
    BY <2>1 DEF RunsInv
  <2>4. "env" \in P!Steps /\ written \in [P!Files -> Runs \cup {Null}] /\ registered \in [Runs -> BOOLEAN]
    BY DEF P!Steps, RunsInv
  <2>5. CASE P!Skip(r)
    <3>1. registered' = registered /\ passwd' = passwd
      BY <2>5 DEF P!Skip
    <3> QED BY <2>1, <2>2, <2>3, <2>4, <3>1, StepOfRun
  <2>6. CASE P!RegisterDevice(r)
    <3>1. registered' = [registered EXCEPT ![r] = TRUE] /\ passwd' = r
      BY <2>6 DEF P!RegisterDevice
    <3>2. registered' \in [Runs -> BOOLEAN] /\ \A o \in Runs : o # r => registered'[o] = registered[o]
      BY <2>4, <3>1
    <3> QED BY <2>1, <2>2, <2>3, <2>4, <3>1, <3>2, StepOfRun
  <2> QED BY <1>4, <2>5, <2>6
<1>5. ASSUME NEW r \in Runs, P!CannotRegister(r) \/ P!Die(r) PROVE RunsInv'
  <2>1. /\ r \in P!UnderWay /\ P!Goes(r, "failed")
        /\ UNCHANGED <<written, registered, disturbed, standing>>
    BY <1>5 DEF P!CannotRegister, P!GivesUp, P!Die, P!UnderWay
  <2>2. "failed" \in P!Steps /\ written \in [P!Files -> Runs \cup {Null}] /\ registered \in [Runs -> BOOLEAN]
    BY DEF P!Steps, RunsInv
  <2> QED BY <2>1, <2>2, StepOfRun
<1>6. ASSUME NEW r \in Runs, P!WriteEnv(r) PROVE RunsInv'
  <2>1. /\ r \in P!UnderWay /\ script[r] = "env" /\ P!Goes(r, "summary") /\ P!Writes(r, "edge.env")
        /\ UNCHANGED <<passwd, registered, disturbed, standing>>
    BY <1>6 DEF P!WriteEnv, P!UnderWay
  <2>2. /\ "summary" \in P!Steps /\ registered \in [Runs -> BOOLEAN]
        /\ written' \in [P!Files -> Runs \cup {Null}] /\ written'["edge.env"] = r
        /\ written'["stanza"] = written["stanza"] /\ written'["wg0.conf"] = written["wg0.conf"]
    BY <2>1 DEF P!Steps, P!Files, P!Writes, RunsInv
  <2>3. r \notin disturbed => /\ written["wg0.conf"] = r /\ written["stanza"] = r
                              /\ registered[r] => passwd = r
    BY <2>1 DEF RunsInv
  <2> QED BY <2>1, <2>2, <2>3, StepOfRun
<1>7. ASSUME NEW r \in Runs, P!WriteSummary(r) PROVE RunsInv'
  <2>1. /\ r \in P!UnderWay /\ script[r] = "summary"
        /\ script' = [script EXCEPT ![r] = "done"] /\ written' = [written EXCEPT !["device.json"] = r]
        /\ standing' = IF r \in disturbed THEN standing ELSE r
        /\ UNCHANGED <<passwd, registered, disturbed>>
    BY <1>7 DEF P!WriteSummary, P!UnderWay, P!Goes, P!Writes
  <2>2. /\ script' \in [Runs -> P!Steps] /\ script'[r] = "done"
        /\ \A o \in Runs : o # r => script'[o] = script[o]
    BY <2>1 DEF RunsInv, P!Steps
  <2>3. /\ written' \in [P!Files -> Runs \cup {Null}] /\ written'["device.json"] = r
        /\ \A f \in P!Files : f # "device.json" => written'[f] = written[f]
    BY <2>1 DEF RunsInv, P!Files
  <2>4. standing = Null /\ P!UnderWay' = P!UnderWay \ {r}
    BY <2>1, <2>2 DEF RunsInv, P!UnderWay
  <2>5. CASE r \in disturbed
    <3>1. standing' = Null /\ P!LastRunMends'
      BY <2>1, <2>4, <2>5 DEF P!LastRunMends
    <3>2. \A q \in P!UnderWay' \ disturbed', o \in P!UnderWay' : o = q
      BY <2>1, <2>4 DEF RunsInv
    <3>3. ASSUME NEW q \in Runs \ disturbed
          PROVE  script'[q] = script[q] /\ script[q] \notin {"keys", "stanza", "register", "env", "summary"}
      BY <2>1, <2>2, <2>5, <3>3 DEF RunsInv, P!UnderWay
    <3> QED BY <2>1, <2>2, <2>3, <3>1, <3>2, <3>3 DEF RunsInv
  <2>6. CASE r \notin disturbed
    <3>1. /\ written["wg0.conf"] = r /\ written["stanza"] = r /\ written["edge.env"] = r
          /\ registered[r] => passwd = r
      BY <2>1, <2>6 DEF RunsInv, P!UnderWay
    <3>2. standing' = r /\ P!LastRunMends'
      BY <2>1, <2>3, <2>6, <3>1 DEF P!LastRunMends, P!Files
    <3>3. P!UnderWay' = {}
      BY <2>1, <2>4, <2>6 DEF RunsInv
    <3>4. ASSUME NEW q \in Runs \ disturbed
          PROVE  q # r => script'[q] = script[q] /\ script[q] \notin {"keys", "stanza", "register", "env", "summary"}
      BY <2>1, <2>2, <2>6, <3>4 DEF RunsInv, P!UnderWay
    <3>5. r \in Runs
      BY <2>1 DEF P!UnderWay
    <3> QED BY <2>1, <2>2, <2>3, <3>2, <3>3, <3>4, <3>5 DEF RunsInv
  <2> QED BY <2>5, <2>6
<1>8. CASE P!BootsNext
  <2>1. UNCHANGED P!scripts_
    BY <1>8 DEF P!BootsNext, P!ChangeSensors, P!BootFromSource, P!BootFromCache, P!TearCache, P!Shutdown
  <2> QED BY <2>1 DEF P!scripts_, RunsInv, P!UnderWay, P!LastRunMends
<1>9. CASE UNCHANGED P!vars
  BY <1>9 DEF P!vars, P!scripts_, RunsInv, P!UnderWay, P!LastRunMends
<1> QED BY <1>1, <1>2, <1>3, <1>4, <1>5, <1>6, <1>7, <1>8, <1>9 DEF P!Next, P!ScriptsNext

\* For any number of runs, failed, killed or overlapping: one that is
\* undisturbed and exits with 0 leaves files that belong together and a
\* password the broker's file has (provision_pi.py:335-445).
THEOREM LastRunCounts ==
  ASSUME P!ProvisioningAssumption PROVE P!Spec => []P!LastRunMends
<1>1. P!Init => RunsInv
  BY RunsInit
<1>2. RunsInv /\ [P!Next]_P!vars => RunsInv'
  BY RunsStep
<1>3. RunsInv => P!LastRunMends
  BY DEF RunsInv
<1> QED BY <1>1, <1>2, <1>3, PTL DEF P!Spec

-----------------------------------------------------------------------------
(* Accounts. *)

\* What is known of the state is enough for both halves of the property.
AccountInv ==
  /\ admin \in [Actors -> {A!Idle} \cup [step : {"found"}, role : A!Roles]]
  /\ guest \in [Actors -> {A!Idle} \cup [step : {"valid"}, invite : Invites]]
  /\ invites \in [Invites -> {"absent", "open", "expired", "used"}]
  /\ user \in A!User \cup {Null}
  /\ user = Null => \A i \in Invites : invites[i] = "absent"
  /\ \A g \in Actors : guest[g].step = "valid" => user # Null
  /\ \A a \in Actors : admin[a].step = "found" => user # Null
  /\ user # Null => \A i \in Invites : user.password = i => invites[i] = "used"

LEMMA AccountStep ==
  ASSUME A!AccountsAssumption, AccountInv, [A!Next]_A!vars
  PROVE  AccountInv'
<1>0. A!Idle.step = "idle" /\ Null \notin A!User
  BY DEF A!Idle, A!AccountsAssumption
<1>1. ASSUME NEW i \in Invites, A!CreateUser(i) PROVE AccountInv'
  <2>1. PICK role \in A!Roles :
          /\ user' = [role |-> role, active |-> TRUE, password |-> Null]
          /\ invites' = [invites EXCEPT ![i] = "open"]
          /\ UNCHANGED <<admin, guest>>
    BY <1>1 DEF A!CreateUser
  <2>2. user' \in A!User /\ user'.password = Null
    BY <2>1 DEF A!User
  <2>3. Null \notin Invites /\ user' # Null
    BY <2>2 DEF A!AccountsAssumption
  <2> QED BY <2>1, <2>2, <2>3 DEF AccountInv
<1>2. ASSUME NEW i \in Invites, A!Reinvite(i) \/ A!Expire(i) PROVE AccountInv'
  BY <1>2 DEF A!Reinvite, A!Expire, AccountInv
<1>3. ASSUME NEW a \in Actors, A!SeeUser(a) PROVE AccountInv'
  <2>1. /\ user # Null /\ user \in A!User /\ UNCHANGED <<user, invites, guest>>
        /\ admin' = [admin EXCEPT ![a] = [step |-> "found", role |-> user.role]]
    BY <1>3 DEF A!SeeUser, AccountInv
  <2>2. user.role \in A!Roles
    BY <2>1 DEF A!User
  <2> QED BY <2>1, <2>2 DEF AccountInv
<1>4. ASSUME NEW a \in Actors, A!PatchUser(a) PROVE AccountInv'
  <2>1. PICK role \in A!Roles, active \in BOOLEAN :
          /\ user' = [user EXCEPT !.role = role, !.active = active]
          /\ admin' = [admin EXCEPT ![a] = A!Idle]
          /\ UNCHANGED <<invites, guest>>
    BY <1>4 DEF A!PatchUser
  <2>2. user \in A!User
    BY <1>4 DEF A!PatchUser, AccountInv
  <2>3. user' \in A!User /\ user'.password = user.password
    BY <2>1, <2>2 DEF A!User
  <2> QED BY <1>0, <2>1, <2>2, <2>3 DEF AccountInv
<1>5. ASSUME NEW a \in Actors, A!RefusePatch(a) PROVE AccountInv'
  BY <1>0, <1>5 DEF A!RefusePatch, AccountInv
<1>6. ASSUME NEW g \in Actors, NEW i \in Invites, A!SeeInvite(g, i) PROVE AccountInv'
  BY <1>6 DEF A!SeeInvite, AccountInv
<1>7. ASSUME NEW g \in Actors, A!AcceptInvite(g) PROVE AccountInv'
  <2> DEFINE i == guest[g].invite
  <2>1. /\ user' = [user EXCEPT !.password = i] /\ invites' = [invites EXCEPT ![i] = "used"]
        /\ guest' = [guest EXCEPT ![g] = A!Idle] /\ UNCHANGED admin /\ guest[g].step = "valid"
    BY <1>7 DEF A!AcceptInvite
  <2>2. i \in Invites /\ user \in A!User
    BY <1>0, <2>1 DEF AccountInv
  <2>3. user' \in A!User /\ user'.password = i
    BY <2>1, <2>2 DEF A!User
  <2> HIDE DEF i
  <2> QED BY <1>0, <2>1, <2>2, <2>3 DEF AccountInv
<1>8. CASE UNCHANGED A!vars
  BY <1>8 DEF A!vars, AccountInv
<1> QED BY <1>1, <1>2, <1>3, <1>4, <1>5, <1>6, <1>7, <1>8 DEF A!Next

\* The check that a change is looked at by is enough while the role is still
\* the one that was found.
LEMMA ScopeStep ==
  ASSUME A!AccountsAssumption, AccountInv, [A!Next]_A!vars, A!ScopeMatches,
         \A a \in Actors : admin[a].step = "found" => admin[a].role = user.role
  PROVE  A!ScopeMatches'
<1>1. ASSUME NEW i \in Invites, A!CreateUser(i) PROVE A!ScopeMatches'
  BY <1>1 DEF A!CreateUser, A!ScopeMatches
<1>2. ASSUME NEW a \in Actors, A!PatchUser(a) PROVE A!ScopeMatches'
  <2>1. PICK role \in A!Roles, plants \in (SUBSET Plants) \cup {Null}, active \in BOOLEAN :
          /\ A!Acceptable(admin[a].role, role, plants)
          /\ user' = [user EXCEPT !.role = role, !.active = active]
          /\ grants' = IF plants = Null THEN grants ELSE plants
    BY <1>2 DEF A!PatchUser
  <2>2. user \in A!User /\ user # Null /\ admin[a].role = user.role
    BY <1>2 DEF A!PatchUser, AccountInv
  <2>3. user'.role = role
    BY <2>1, <2>2 DEF A!User
  <2>4. CASE plants = Null
    <3>1. A!PlantRole(role) = A!PlantRole(user.role) /\ grants' = grants
      BY <2>1, <2>2, <2>4 DEF A!Acceptable
    <3> QED BY <2>2, <2>3, <3>1 DEF A!ScopeMatches, A!Scoped, A!PlantRole
  <2>5. CASE plants # Null
    BY <2>1, <2>3, <2>5 DEF A!Acceptable, A!ScopeMatches
  <2> QED BY <2>4, <2>5
<1>3. ASSUME NEW g \in Actors, A!AcceptInvite(g) PROVE A!ScopeMatches'
  <2>1. user # Null /\ user \in A!User
    BY <1>3 DEF A!AcceptInvite, AccountInv
  <2>2. user'.role = user.role /\ grants' = grants
    BY <1>3, <2>1 DEF A!AcceptInvite, A!User
  <2> QED BY <2>1, <2>2 DEF A!ScopeMatches
<1>4. CASE UNCHANGED <<user, grants>>
  BY <1>4 DEF A!ScopeMatches
<1> QED BY <1>1, <1>2, <1>3, <1>4
        DEF A!Next, A!vars, A!Reinvite, A!Expire, A!SeeUser, A!RefusePatch, A!SeeInvite

-----------------------------------------------------------------------------
(* Types of what has been proved about so far. *)

LEMMA ClockTypes ==
  ASSUME C!TypeOK, [C!Next]_(C!vars) PROVE C!TypeOK'
<1>0. /\ clock \in C!Time /\ step \in C!Stamp /\ C!Never \in C!Stamp /\ C!Time \subseteq C!Stamp
      /\ C!Time \subseteq Nat /\ MaxRows \in Nat
  BY PlatformAssumption DEF C!TypeOK, C!Stamp, C!Time, C!EdgeClockAssumption
<1>1. CASE C!SetClock \/ C!AbandonCycle \/ C!Restart
  BY <1>0, <1>1 DEF C!SetClock, C!AbandonCycle, C!Restart, C!TypeOK
<1>2. CASE C!BeginCycle
  <2>1. savedAll' \in BOOLEAN /\ UNCHANGED <<clock, rows>> /\ step' = clock
        /\ {watermark', file', latest'} \subseteq C!Stamp
    BY <1>0, <1>2 DEF C!BeginCycle, C!TypeOK
  <2> QED BY <1>0, <2>1 DEF C!TypeOK
<1>3. CASE C!EndCycle
  <2> DEFINE longer == Append(rows, step)
  <2>1. longer \in Seq(C!Stamp) /\ Len(longer) = Len(rows) + 1
    BY <1>0 DEF C!TypeOK
  <2>2. rows' = [id \in 1..Len(longer) |->
                   IF longer[id] + RETENTION >= clock THEN longer[id] ELSE C!Never]
    BY <1>3, <2>1 DEF C!EndCycle, C!Kept
  <2> HIDE DEF longer
  <2>3. \A id \in 1..Len(longer) : longer[id] \in C!Stamp
    BY <2>1
  <2>4. rows' \in Seq(C!Stamp) /\ Len(rows') = Len(longer)
    BY <1>0, <2>1, <2>2, <2>3
  <2> QED BY <1>0, <1>3, <2>1, <2>4 DEF C!EndCycle, C!TypeOK
<1>4. CASE UNCHANGED C!vars
  BY <1>4 DEF C!vars, C!TypeOK
<1> QED BY <1>1, <1>2, <1>3, <1>4 DEF C!Next

LEMMA DocumentTypes ==
  ASSUME D!TypeOK, [D!Next]_(D!vars) PROVE D!TypeOK'
<1>1. CASE D!Put \/ D!Verify \/ D!VerifyFails
  BY <1>1 DEF D!Put, D!Verify, D!VerifyFails, D!TypeOK
<1>2. CASE D!InsertRow \/ D!AnswerUpload
  BY <1>2 DEF D!InsertRow, D!AnswerUpload, D!TypeOK
<1>3. ASSUME NEW d \in Actors, D!SeeRow(d) \/ D!DeleteRow(d) \/ D!DeleteKey(d)
      PROVE  D!TypeOK'
  BY <1>3 DEF D!SeeRow, D!DeleteRow, D!DeleteKey, D!TypeOK
<1>4. ASSUME NEW d \in Actors, D!CommitDelete(d) PROVE D!TypeOK'
  BY <1>4 DEF D!CommitDelete, D!TypeOK
<1>5. CASE UNCHANGED D!vars
  BY <1>5 DEF D!vars, D!TypeOK
<1> QED BY <1>1, <1>2, <1>3, <1>4, <1>5 DEF D!Next

LEMMA ScriptTypes ==
  ASSUME P!TypeOK, [P!Next]_(P!vars) PROVE P!TypeOK'
<1>0. MaxVersion \in Nat \ {0} /\ 1 \in P!Version
  BY PlatformAssumption DEF P!ProvisioningAssumption, P!Version
<1>1. CASE P!BootsNext
  <2>1. UNCHANGED P!scripts_
    BY <1>1 DEF P!BootsNext, P!ChangeSensors, P!BootFromSource, P!BootFromCache, P!TearCache, P!Shutdown
  <2>2. source' \in P!Version /\ cache' \in {0} \cup P!Version
        /\ booted' \in {0} \cup P!Version /\ highest' \in {0} \cup P!Version
    BY <1>0, <1>1 DEF P!BootsNext, P!ChangeSensors, P!BootFromSource, P!BootFromCache, P!TearCache,
         P!Shutdown, P!BootWith, P!Cached, P!TypeOK, P!Version
  <2> QED BY <2>1, <2>2 DEF P!scripts_, P!TypeOK
<1>2. CASE P!RestartBroker
  BY <1>2 DEF P!RestartBroker, P!boots_, P!TypeOK
<1>3. ASSUME NEW r \in Runs,
             \/ P!Begin(r) \/ P!WriteKeys(r) \/ P!Skip(r) \/ P!RegisterDevice(r)
             \/ P!CannotRegister(r) \/ P!WriteEnv(r) \/ P!WriteSummary(r) \/ P!Die(r)
      PROVE  P!TypeOK'
  <2>1. UNCHANGED P!boots_
    BY <1>3 DEF P!Begin, P!WriteKeys, P!Skip, P!RegisterDevice, P!CannotRegister, P!WriteEnv,
         P!WriteSummary, P!Die
  <2>2. script' \in [Runs -> P!Steps]
    BY <1>3 DEF P!Begin, P!WriteKeys, P!Skip, P!RegisterDevice, P!CannotRegister, P!GivesUp, P!WriteEnv,
         P!WriteSummary, P!Die, P!Goes, P!Steps, P!TypeOK
  <2>3. written' \in [P!Files -> Runs \cup {Null}]
    BY <1>3 DEF P!Begin, P!WriteKeys, P!Skip, P!RegisterDevice, P!CannotRegister, P!WriteEnv,
         P!WriteSummary, P!Die, P!Writes, P!Files, P!TypeOK
  <2>4. disturbed' \subseteq Runs
    BY <1>3 DEF P!Begin, P!WriteKeys, P!Skip, P!RegisterDevice, P!CannotRegister, P!WriteEnv,
         P!WriteSummary, P!Die, P!UnderWay, P!TypeOK
  <2>5. {passwd', broker', standing'} \subseteq Runs \cup {Null}
    BY <1>3 DEF P!Begin, P!WriteKeys, P!Skip, P!RegisterDevice, P!CannotRegister, P!WriteEnv,
         P!WriteSummary, P!Die, P!TypeOK
  <2>6. registered' \in [Runs -> BOOLEAN]
    <3>1. registered' \in {registered, [registered EXCEPT ![r] = TRUE]}
      BY <1>3 DEF P!Begin, P!WriteKeys, P!Skip, P!RegisterDevice, P!CannotRegister, P!GivesUp,
           P!WriteEnv, P!WriteSummary, P!Die
    <3> QED BY <3>1 DEF P!TypeOK
  <2> QED BY <2>1, <2>2, <2>3, <2>4, <2>5, <2>6 DEF P!boots_, P!TypeOK
<1>4. CASE UNCHANGED P!vars
  BY <1>4 DEF P!vars, P!scripts_, P!boots_, P!TypeOK
<1> QED BY <1>1, <1>2, <1>3, <1>4 DEF P!Next, P!ScriptsNext

LEMMA AccountTypes ==
  ASSUME AccountInv, A!TypeOK, [A!Next]_(A!vars), AccountInv' PROVE A!TypeOK'
<1>1. grants' \subseteq Plants
  <2>1. ASSUME NEW i \in Invites, A!CreateUser(i) PROVE grants' \subseteq Plants
    BY <2>1 DEF A!CreateUser
  <2>2. ASSUME NEW a \in Actors, A!PatchUser(a) PROVE grants' \subseteq Plants
    <3>1. PICK plants \in (SUBSET Plants) \cup {Null} :
            grants' = IF plants = Null THEN grants ELSE plants
      BY <2>2 DEF A!PatchUser
    <3>2. grants \subseteq Plants
      BY DEF A!TypeOK
    <3>3. CASE plants = Null
      BY <3>1, <3>2, <3>3
    <3>4. CASE plants # Null
      <4>1. grants' = plants /\ plants \in SUBSET Plants
        BY <3>1, <3>4
      <4> QED BY <4>1
    <3> QED BY <3>3, <3>4
  <2>3. CASE UNCHANGED grants
    BY <2>3 DEF A!TypeOK
  <2> QED BY <2>1, <2>2, <2>3 DEF A!Next, A!vars, A!Reinvite, A!Expire, A!SeeUser,
            A!RefusePatch, A!SeeInvite, A!AcceptInvite
<1> QED BY <1>1 DEF A!TypeOK, AccountInv

-----------------------------------------------------------------------------
(* Trips and the tasks that alerts ask for. *)

\* What is committed is there for every alert that fires, and a stop that was
\* carried out is not undone.
TripInv ==
  /\ T!TypeOK
  /\ webhook.step = "committed" => webhook.inserted = webhook.firing
  /\ webhook.step \in {"committed", "answered"} => \A a \in webhook.firing : tasks[a] > 0
  /\ stop # "none" => trip.status # "absent"
  /\ stop \in {"sent", "answered"} => trip.status = "completed"

LEMMA TripStart == T!Init => TripInv
<1> SUFFICES ASSUME T!Init PROVE TripInv
  OBVIOUS
<1>1. MaxHours \in Nat /\ MaxTasks \in Nat \ {0}
  BY PlatformAssumption DEF T!LogisticsAssumption
<1> QED BY <1>1 DEF T!Init, TripInv, T!TypeOK, T!Trip, T!Time, T!Never

LEMMA TripNext == ASSUME TripInv, [T!Next]_(T!vars) PROVE TripInv'
<1>0. /\ MaxHours \in Nat /\ MaxTasks \in Nat \ {0} /\ T!Time \subseteq Nat /\ hour \in T!Time
      /\ T!TypeOK
  BY PlatformAssumption DEF T!LogisticsAssumption, T!Time, TripInv, T!TypeOK
<1>1. CASE T!Tick
  BY <1>0, <1>1 DEF T!Tick, TripInv, T!TypeOK, T!Time
<1>2. CASE T!StartTrip \/ T!PingTrip \/ T!StopTrip
  <2>1. trip \in T!Trip /\ hour \in T!Time
    BY <1>0 DEF T!TypeOK
  <2>2. CASE T!StartTrip
    <3>1. trip' \in T!Trip /\ trip'.status = "in_transit" /\ trip.status = "absent"
      BY <2>1, <2>2 DEF T!StartTrip, T!Trip
    <3> QED BY <1>0, <2>2, <3>1 DEF T!StartTrip, TripInv, T!TypeOK
  <2>3. CASE T!PingTrip
    <3>1. trip' \in T!Trip /\ trip'.status = trip.status
      BY <2>1, <2>3 DEF T!PingTrip, T!Trip
    <3> QED BY <1>0, <2>3, <3>1 DEF T!PingTrip, TripInv, T!TypeOK
  <2>4. CASE T!StopTrip
    <3>1. trip' \in T!Trip /\ trip'.status = "completed"
      BY <2>1, <2>4 DEF T!StopTrip, T!Trip
    <3> QED BY <1>0, <2>4, <3>1 DEF T!StopTrip, TripInv, T!TypeOK
  <2> QED BY <1>2, <2>2, <2>3, <2>4
<1>3. CASE T!VerifyStop \/ T!AnswerStop
  BY <1>0, <1>3 DEF T!VerifyStop, T!AnswerStop, TripInv, T!TypeOK
<1>4. CASE T!Fire \/ T!InsertTask \/ T!AnswerWebhook \/ T!RetryWebhook
  <2>1. UNCHANGED <<hour, trip, stop, tasks>>
    BY <1>4 DEF T!Fire, T!InsertTask, T!AnswerWebhook, T!RetryWebhook
  <2>2. /\ webhook.step \in {"none", "firing", "inserting", "committed", "answered"}
        /\ webhook.firing \subseteq Alerts /\ webhook.inserted \subseteq Alerts
    BY <1>0 DEF T!TypeOK
  <2>3. CASE T!Fire \/ T!InsertTask \/ T!RetryWebhook
    <3> DEFINE Early == [step : {"firing", "inserting"}, firing : SUBSET Alerts, inserted : SUBSET Alerts]
    <3>1. CASE T!Fire
      BY <1>0, <2>1, <3>1 DEF T!Fire, TripInv, T!TypeOK
    <3>2. CASE T!InsertTask
      <4>1. PICK a \in webhook.firing \ webhook.inserted :
              webhook' = [webhook EXCEPT !.step = "inserting", !.inserted = @ \cup {a}]
        BY <3>2 DEF T!InsertTask
      <4>2. a \in Alerts
        BY <2>2, <4>1
      <4>3. webhook' \in Early
        BY <1>0, <2>2, <4>1, <4>2 DEF T!TypeOK
      <4> QED BY <1>0, <2>1, <4>3 DEF TripInv, T!TypeOK
    <3>3. CASE T!RetryWebhook
      <4>1. webhook' \in Early
        BY <1>0, <2>2, <3>3 DEF T!RetryWebhook, T!TypeOK
      <4> QED BY <1>0, <2>1, <4>1 DEF TripInv, T!TypeOK
    <3> QED BY <2>3, <3>1, <3>2, <3>3
  <2>4. CASE T!AnswerWebhook
    <3>1. /\ webhook' \in [step : {"answered"}, firing : SUBSET Alerts, inserted : SUBSET Alerts]
          /\ webhook'.firing = webhook.firing
      BY <1>0, <2>2, <2>4 DEF T!AnswerWebhook, T!TypeOK
    <3>2. \A a \in webhook.firing : tasks[a] > 0
      BY <2>4 DEF T!AnswerWebhook, TripInv
    <3> QED BY <1>0, <2>1, <3>1, <3>2 DEF TripInv, T!TypeOK
  <2> QED BY <1>4, <2>3, <2>4
<1>5. CASE T!CommitTasks
  <2>1. /\ webhook' \in [step : {"committed"}, firing : SUBSET Alerts, inserted : SUBSET Alerts]
        /\ webhook'.firing = webhook.firing /\ webhook'.inserted = webhook.firing
        /\ webhook.inserted = webhook.firing /\ webhook.firing \subseteq Alerts
    BY <1>0, <1>5 DEF T!CommitTasks, T!AllInserted, T!TypeOK
  <2>2. \A a \in Alerts : tasks'[a] = tasks[a] + IF a \in webhook.inserted THEN 1 ELSE 0
    BY <1>5 DEF T!CommitTasks
  <2>3. \A a \in Alerts : tasks[a] \in 0..MaxTasks /\ (a \in webhook.inserted => tasks[a] < MaxTasks)
    BY <1>0, <1>5 DEF T!CommitTasks, T!TypeOK
  <2>4. \A a \in Alerts : tasks'[a] \in 0..MaxTasks /\ (a \in webhook.firing => tasks'[a] > 0)
    BY <1>0, <2>1, <2>2, <2>3
  <2>5. tasks' \in [Alerts -> 0..MaxTasks]
    BY <1>5, <2>4 DEF T!CommitTasks
  <2> QED BY <1>0, <1>5, <2>1, <2>4, <2>5 DEF T!CommitTasks, TripInv, T!TypeOK
<1>6. CASE UNCHANGED T!vars
  BY <1>6 DEF T!vars, TripInv, T!TypeOK
<1> QED BY <1>1, <1>2, <1>3, <1>4, <1>5, <1>6 DEF T!Next
-----------------------------------------------------------------------------
(* Logins. *)

LEMMA LimiterConstants ==
  /\ IP_MAX_ATTEMPTS \in Nat \ {0} /\ FAIL_MAX_ATTEMPTS \in Nat \ {0}
  /\ IP_WINDOW_S \in Nat /\ FAIL_WINDOW_S \in Nat /\ MaxLoginTime \in Nat
  /\ IsFiniteSet(Actors) /\ Cardinality(Actors) \in Nat
<1>1. IsFiniteSet(Actors)
  BY PlatformAssumption DEF L!LimiterAssumption, L!IsFiniteSet, IsFiniteSet
<1> QED BY <1>1, FS_CardinalityType, PlatformAssumption DEF L!LimiterAssumption

LEMMA TimesAre ==
  ASSUME NEW Ticks, Ticks \subseteq Nat, NEW q \in Seq(Ticks)
  PROVE  /\ Len(q) \in Nat /\ DOMAIN q = 1..Len(q)
         /\ \A n \in 1..Len(q) : q[n] \in Ticks
         /\ \A n \in 1..Len(q) : q[n] \in Nat
<1>1. \A n \in 1..Len(q) : q[n] \in Ticks
  OBVIOUS
<1>2. \A n \in 1..Len(q) : q[n] \in Nat
  BY <1>1
<1> QED BY <1>1, <1>2

LEMMA Least ==
  ASSUME NEW set, set \subseteq Nat, set # {}
  PROVE  L!Min(set) \in set /\ \A n \in set : L!Min(set) <= n
BY FirstNumber DEF L!Min

\* What is recent of a bucket: what was dropped from the front is not, and
\* the first that is left is.
Recent(q, w, t) == L!From(q, {n \in DOMAIN q : q[n] + w >= t})

\* What is left when the front is dropped.
LEMMA SuffixIs ==
  ASSUME NEW Ticks, NEW q \in Seq(Ticks), NEW m \in 1..Len(q)
  PROVE  SubSeq(q, m, Len(q)) = [n \in 1..(Len(q) - m + 1) |-> q[m + n - 1]]
OBVIOUS

LEMMA RecentIs ==
  ASSUME NEW Ticks, Ticks \subseteq Nat, NEW q \in Seq(Ticks), NEW w \in Nat, NEW t \in Nat
  PROVE  \E k \in 0..Len(q) :
           /\ Recent(q, w, t) \in Seq(Ticks)
           /\ Len(Recent(q, w, t)) = Len(q) - k
           /\ \A n \in 1..Len(q) - k : Recent(q, w, t)[n] = q[k + n]
           /\ \A n \in 1..k : q[n] + w < t
           /\ k < Len(q) => q[k + 1] + w >= t
<1> DEFINE kept == {n \in DOMAIN q : q[n] + w >= t}
<1>1. /\ Len(q) \in Nat /\ DOMAIN q = 1..Len(q)
      /\ \A n \in 1..Len(q) : q[n] \in Ticks
      /\ \A n \in 1..Len(q) : q[n] \in Nat
  BY TimesAre
<1>2. CASE kept = {}
  <2>1. Recent(q, w, t) = <<>>
    BY <1>2 DEF Recent, L!From
  <2>2. \A n \in 1..Len(q) : q[n] + w < t
    BY <1>1, <1>2
  <2>3. /\ Len(q) \in 0..Len(q) /\ Len(q) - Len(q) = 0 /\ Len(<<>>) = 0 /\ <<>> \in Seq(Ticks)
        /\ ~(Len(q) < Len(q)) /\ 1..0 = {}
    BY <1>1
  <2> QED BY <2>1, <2>2, <2>3
<1>3. CASE kept # {}
  <2>1. kept \subseteq 1..Len(q)
    BY <1>1
  <2>2. PICK m \in kept : m = L!Min(kept) /\ \A n \in kept : m <= n
    <3>1. kept \subseteq Nat
      BY <1>1, <2>1
    <3> HIDE DEF kept
    <3> QED BY <1>3, <3>1, Least
  <2>3. m \in 1..Len(q) /\ q[m] + w >= t /\ m - 1 \in 0..Len(q) /\ m - 1 < Len(q) /\ (m - 1) + 1 = m
    BY <1>1, <2>1, <2>2
  <2>4. Recent(q, w, t) = SubSeq(q, m, Len(q))
    BY <1>3, <2>2 DEF Recent, L!From
  <2>5. ASSUME NEW n \in 1..(m - 1) PROVE q[n] + w < t
    <3>1. n \in 1..Len(q) /\ ~(m <= n) /\ q[n] \in Nat
      BY <1>1, <2>3
    <3>2. n \notin kept
      BY <2>2, <3>1
    <3>3. ~(q[n] + w >= t)
      BY <1>1, <3>1, <3>2
    <3> QED BY <3>1, <3>3
  <2>6. /\ SubSeq(q, m, Len(q)) \in Seq(Ticks) /\ Len(SubSeq(q, m, Len(q))) = Len(q) - (m - 1)
        /\ \A n \in 1..Len(q) - (m - 1) : SubSeq(q, m, Len(q))[n] = q[(m - 1) + n]
    <3>1. m \in 1..Len(q) + 1 /\ Len(q) \in 1..Len(q)
      BY <1>1, <2>3
    <3>2. SubSeq(q, m, Len(q)) = [n \in 1..(Len(q) - m + 1) |-> q[m + n - 1]]
      BY <2>3, SuffixIs
    <3>3. Len(q) - m + 1 = Len(q) - (m - 1) /\ Len(q) - (m - 1) \in Nat
      BY <1>1, <2>3
    <3>4. \A n \in 1..Len(q) - (m - 1) : m + n - 1 = (m - 1) + n /\ (m - 1) + n \in 1..Len(q)
      <4> DEFINE len == Len(q)
      <4>1. len \in Nat /\ m \in 1..len
        BY <1>1, <2>3
      <4> HIDE DEF len
      <4>2. \A n \in 1..len - (m - 1) : m + n - 1 = (m - 1) + n /\ (m - 1) + n \in 1..len
        BY <4>1
      <4> QED BY <4>2 DEF len
    <3>5. SubSeq(q, m, Len(q)) = [n \in 1..Len(q) - (m - 1) |-> q[(m - 1) + n]]
      BY <3>2, <3>3, <3>4
    <3>6. \A n \in 1..Len(q) - (m - 1) : q[(m - 1) + n] \in Ticks
      BY <1>1, <3>4
    <3> DEFINE c == Len(q) - (m - 1)
               s == SubSeq(q, m, Len(q))
    <3>7. c \in Nat /\ s = [n \in 1..c |-> q[(m - 1) + n]] /\ \A n \in 1..c : q[(m - 1) + n] \in Ticks
      BY <3>3, <3>5, <3>6
    <3> HIDE DEF c, s
    <3>8. s \in Seq(Ticks) /\ Len(s) = c /\ \A n \in 1..c : s[n] = q[(m - 1) + n]
      BY <3>7
    <3> QED BY <3>8 DEF c, s
  <2> QED BY <2>3, <2>4, <2>5, <2>6
<1> QED BY <1>2, <1>3

LEMMA RecentOfNothing ==
  ASSUME NEW w, NEW t PROVE Len(Recent(<<>>, w, t)) = 0
<1>1. DOMAIN <<>> = {} /\ Len(<<>>) = 0
  OBVIOUS
<1>2. {n \in DOMAIN <<>> : <<>>[n] + w >= t} = {}
  BY <1>1
<1>3. Recent(<<>>, w, t) = <<>>
  BY <1>2 DEF Recent, L!From
<1> QED BY <1>1, <1>3

LEMMA RecentShrinks ==
  ASSUME NEW Ticks, Ticks \subseteq Nat, NEW q \in Seq(Ticks), NEW w \in Nat, NEW t \in Nat, NEW u \in Nat, t <= u
  PROVE  /\ Len(Recent(q, w, u)) <= Len(Recent(q, w, t))
         /\ Len(Recent(q, w, t)) <= Len(q)
         /\ Len(Recent(q, w, t)) \in Nat
<1>1. PICK i \in 0..Len(q) :
        /\ Len(Recent(q, w, t)) = Len(q) - i
        /\ \A n \in 1..i : q[n] + w < t
  BY RecentIs
<1>2. PICK j \in 0..Len(q) :
        /\ Len(Recent(q, w, u)) = Len(q) - j
        /\ j < Len(q) => q[j + 1] + w >= u
  BY RecentIs
<1>3. ASSUME j < i PROVE FALSE
  <2>1. j + 1 \in 1..i /\ j + 1 \in 1..Len(q) /\ j < Len(q)
    BY <1>3
  <2>2. q[j + 1] + w < t /\ q[j + 1] + w >= u
    BY <1>1, <1>2, <2>1
  <2>3. q[j + 1] \in Nat
    BY <2>1, TimesAre
  <2> QED BY <2>2, <2>3
<1> QED BY <1>1, <1>2, <1>3

\* What is left of the times of an address is their end; what was dropped is
\* over, and those that came through are a window apart, each from the one that
\* came so many before.
Left(q, p, t) ==
  \E k \in 0..Len(p) :
    /\ Len(q) = Len(p) - k
    /\ \A n \in 1..Len(q) : q[n] = p[k + n]
    /\ \A n \in 1..k : p[n] + IP_WINDOW_S < t

Ascending(p, t) ==
  /\ \A m, n \in DOMAIN p : m <= n => p[m] <= p[n]
  /\ \A n \in DOMAIN p : p[n] <= t

Apart(p) == \A m, n \in DOMAIN p : m + IP_MAX_ATTEMPTS <= n => p[m] + IP_WINDOW_S < p[n]

LEMMA LeftRecent ==
  ASSUME NEW Ticks, Ticks \subseteq Nat, NEW q \in Seq(Ticks), NEW p \in Seq(Ticks), NEW t \in Nat, Left(q, p, t)
  PROVE  Left(Recent(q, IP_WINDOW_S, t), p, t)
<1> DEFINE r == Recent(q, IP_WINDOW_S, t)
<1>1. PICK i \in 0..Len(p) :
        /\ Len(q) = Len(p) - i
        /\ \A n \in 1..Len(q) : q[n] = p[i + n]
        /\ \A n \in 1..i : p[n] + IP_WINDOW_S < t
  BY DEF Left
<1>2. PICK j \in 0..Len(q) :
        /\ Len(r) = Len(q) - j
        /\ \A n \in 1..Len(q) - j : r[n] = q[j + n]
        /\ \A n \in 1..j : q[n] + IP_WINDOW_S < t
  BY LimiterConstants, RecentIs
<1> HIDE DEF r
<1>3. Len(p) \in Nat /\ Len(q) \in Nat /\ i \in Nat /\ j \in Nat
  OBVIOUS
<1>4. i + j \in 0..Len(p) /\ Len(r) = Len(p) - (i + j)
  BY <1>1, <1>2, <1>3
<1>5. ASSUME NEW n \in 1..Len(r) PROVE r[n] = p[(i + j) + n]
  <2>1. n \in 1..Len(q) - j /\ j + n \in 1..Len(q) /\ i + (j + n) = (i + j) + n
    BY <1>2, <1>3
  <2> QED BY <1>1, <1>2, <2>1
<1>6. ASSUME NEW n \in 1..(i + j) PROVE p[n] + IP_WINDOW_S < t
  <2>1. CASE n \in 1..i
    BY <1>1, <2>1
  <2>2. CASE n \notin 1..i
    <3>1. n - i \in 1..j /\ n - i \in 1..Len(q) /\ i + (n - i) = n
      BY <1>3, <2>2
    <3> QED BY <1>1, <1>2, <3>1
  <2> QED BY <2>1, <2>2
<1> QED BY <1>4, <1>5, <1>6 DEF Left, r

LEMMA LeftNothing ==
  ASSUME NEW Ticks, Ticks \subseteq Nat, NEW q \in Seq(Ticks), NEW p \in Seq(Ticks), NEW t \in Nat, Left(q, p, t),
         Ascending(p, t), q # <<>> => q[Len(q)] + IP_WINDOW_S < t
  PROVE  Left(<<>>, p, t)
<1>1. PICK i \in 0..Len(p) :
        /\ Len(q) = Len(p) - i
        /\ \A n \in 1..Len(q) : q[n] = p[i + n]
        /\ \A n \in 1..i : p[n] + IP_WINDOW_S < t
  BY DEF Left
<1>2. Len(p) \in Nat /\ Len(q) \in Nat /\ DOMAIN p = 1..Len(p) /\ \A n \in 1..Len(p) : p[n] \in Nat
  BY TimesAre
<1>3. ASSUME NEW n \in 1..Len(p) PROVE p[n] + IP_WINDOW_S < t
  <2>1. CASE q = <<>>
    <3>1. i = Len(p)
      BY <1>1, <1>2, <2>1
    <3> QED BY <1>1, <3>1
  <2>2. CASE q # <<>>
    <3>1. Len(q) \in 1..Len(q) /\ i + Len(q) = Len(p) /\ Len(p) \in 1..Len(p)
      BY <1>1, <1>2, <2>2
    <3>2. p[Len(p)] + IP_WINDOW_S < t
      BY <1>1, <2>2, <3>1
    <3>3. p[n] <= p[Len(p)]
      BY <1>2, <3>1 DEF Ascending
    <3> QED BY <1>2, <3>1, <3>2, <3>3, LimiterConstants, SMTT(30)
  <2> QED BY <2>1, <2>2
<1>4. Len(p) \in 0..Len(p) /\ Len(<<>>) = Len(p) - Len(p) /\ 1..Len(<<>>) = {}
  BY <1>2
<1> QED BY <1>3, <1>4 DEF Left

LEMMA LeftLater ==
  ASSUME NEW Ticks, Ticks \subseteq Nat, NEW q, NEW p \in Seq(Ticks), NEW t \in Nat, NEW u \in Nat,
         t <= u, Left(q, p, t)
  PROVE  Left(q, p, u)
<1>1. PICK i \in 0..Len(p) :
        /\ Len(q) = Len(p) - i
        /\ \A n \in 1..Len(q) : q[n] = p[i + n]
        /\ \A n \in 1..i : p[n] + IP_WINDOW_S < t
  BY DEF Left
<1>2. \A n \in 1..i : p[n] + IP_WINDOW_S < u
  <2>1. \A n \in 1..i : p[n] \in Nat
    <3>1. \A n \in 1..i : n \in 1..Len(p)
      OBVIOUS
    <3> QED BY <3>1, TimesAre
  <2> QED BY <1>1, <2>1, LimiterConstants
<1> QED BY <1>1, <1>2 DEF Left

\* An attempt that finds fewer than the limit is a window after the one that
\* came so many before it.
LEMMA OneMore ==
  ASSUME NEW Ticks, Ticks \subseteq Nat, NEW q \in Seq(Ticks), NEW p \in Seq(Ticks), NEW t \in Ticks,
         Left(q, p, t), Ascending(p, t), Apart(p), Len(q) < IP_MAX_ATTEMPTS
  PROVE  /\ Left(Append(q, t), Append(p, t), t)
         /\ Ascending(Append(p, t), t)
         /\ Apart(Append(p, t))
<1> DEFINE q2 == Append(q, t)
           p2 == Append(p, t)
<1>1. PICK i \in 0..Len(p) :
        /\ Len(q) = Len(p) - i
        /\ \A n \in 1..Len(q) : q[n] = p[i + n]
        /\ \A n \in 1..i : p[n] + IP_WINDOW_S < t
  BY DEF Left
<1>2. /\ Len(p) \in Nat /\ Len(q) \in Nat /\ Len(p2) = Len(p) + 1 /\ Len(q2) = Len(q) + 1
      /\ DOMAIN p = 1..Len(p) /\ DOMAIN p2 = 1..Len(p) + 1
      /\ \A n \in 1..Len(p) : p2[n] = p[n] /\ p[n] \in Nat
      /\ \A n \in 1..Len(q) : q2[n] = q[n]
      /\ p2[Len(p) + 1] = t /\ q2[Len(q) + 1] = t /\ t \in Nat
  <2>1. /\ Len(p) \in Nat /\ Len(q) \in Nat /\ DOMAIN p = 1..Len(p) /\ t \in Nat
        /\ \A n \in 1..Len(p) : p[n] \in Nat
    BY TimesAre
  <2>2. /\ Len(p2) = Len(p) + 1 /\ DOMAIN p2 = 1..Len(p) + 1 /\ p2[Len(p) + 1] = t
        /\ \A n \in 1..Len(p) : p2[n] = p[n]
    OBVIOUS
  <2>3. /\ Len(q2) = Len(q) + 1 /\ q2[Len(q) + 1] = t
        /\ \A n \in 1..Len(q) : q2[n] = q[n]
    OBVIOUS
  <2> HIDE DEF p2, q2
  <2> QED BY <2>1, <2>2, <2>3
<1> HIDE DEF p2, q2
<1>3. Left(q2, p2, t)
  <2>1. i \in 0..Len(p2) /\ Len(q2) = Len(p2) - i
    BY <1>1, <1>2
  <2>2. ASSUME NEW n \in 1..Len(q2) PROVE q2[n] = p2[i + n]
    <3>1. CASE n \in 1..Len(q)
      <4>1. i + n \in 1..Len(p)
        BY <1>1, <1>2, <3>1
      <4> QED BY <1>1, <1>2, <3>1, <4>1
    <3>2. CASE n \notin 1..Len(q)
      <4>1. n = Len(q) + 1 /\ i + n = Len(p) + 1
        BY <1>1, <1>2, <3>2
      <4> QED BY <1>2, <4>1
    <3> QED BY <3>1, <3>2
  <2>3. \A n \in 1..i : p2[n] + IP_WINDOW_S < t
    BY <1>1, <1>2, SMTT(30)
  <2> QED BY <2>1, <2>2, <2>3 DEF Left
<1>4. Ascending(p2, t)
  <2>1. ASSUME NEW n \in 1..Len(p) + 1 PROVE p2[n] <= t
    <3>1. CASE n \in 1..Len(p)
      <4>1. p2[n] = p[n] /\ n \in DOMAIN p
        BY <1>2, <3>1
      <4> QED BY <4>1 DEF Ascending
    <3>2. CASE n = Len(p) + 1
      BY <1>2, <3>2
    <3> QED BY <1>2, <3>1, <3>2
  <2>2. ASSUME NEW m \in 1..Len(p) + 1, NEW n \in 1..Len(p) + 1, m <= n PROVE p2[m] <= p2[n]
    <3>1. CASE n \in 1..Len(p)
      <4>1. m \in 1..Len(p)
        BY <1>2, <2>2, <3>1
      <4> QED BY <1>2, <2>2, <3>1, <4>1 DEF Ascending
    <3>2. CASE n \notin 1..Len(p)
      <4>1. n = Len(p) + 1
        BY <1>2, <3>2
      <4> QED BY <1>2, <2>1, <4>1
    <3> QED BY <3>1, <3>2
  <2> QED BY <1>2, <2>1, <2>2 DEF Ascending
<1>5. Apart(p2)
  <2>1. ASSUME NEW m \in 1..Len(p) + 1, NEW n \in 1..Len(p) + 1, m + IP_MAX_ATTEMPTS <= n
        PROVE  p2[m] + IP_WINDOW_S < p2[n]
    <3>1. m \in 1..Len(p)
      BY <1>2, <2>1, LimiterConstants
    <3>2. CASE n \in 1..Len(p)
      BY <1>2, <2>1, <3>1, <3>2 DEF Apart
    <3>3. CASE n \notin 1..Len(p)
      <4>1. n = Len(p) + 1
        BY <1>2, <3>3
      <4>2. m + IP_MAX_ATTEMPTS <= Len(p) + 1 /\ Len(p) - i < IP_MAX_ATTEMPTS /\ IP_MAX_ATTEMPTS \in Nat
        BY <1>1, <2>1, <4>1, LimiterConstants
      <4>3. m \in 1..i
        BY <1>2, <3>1, <4>2
      <4> QED BY <1>1, <1>2, <3>1, <4>1, <4>3
    <3> QED BY <3>2, <3>3
  <2> QED BY <1>2, <2>1 DEF Apart
<1> QED BY <1>3, <1>4, <1>5 DEF p2, q2

\* Those that are so far apart are few in a window.
LEMMA FewInAWindow ==
  ASSUME NEW p \in Seq(Nat), Apart(p), NEW from \in Nat
  PROVE  Cardinality({n \in DOMAIN p : p[n] \in from..from + IP_WINDOW_S}) <= IP_MAX_ATTEMPTS
<1> DEFINE set == {n \in DOMAIN p : p[n] \in from..from + IP_WINDOW_S}
<1>1. set \subseteq 1..Len(p) /\ set \subseteq Nat
  OBVIOUS
<1>2. CASE set = {}
  <2>1. Cardinality(set) = 0
    BY <1>2, FS_EmptySet
  <2> HIDE DEF set
  <2>2. Cardinality(set) <= IP_MAX_ATTEMPTS
    BY <2>1, LimiterConstants
  <2> QED BY <2>2 DEF set
<1>3. CASE set # {}
  <2>1. PICK a \in set : \A n \in set : a <= n
    BY <1>1, <1>3, Least
  <2>2. set \subseteq a..a + IP_MAX_ATTEMPTS - 1
    <3>1. ASSUME NEW n \in set PROVE n <= a + IP_MAX_ATTEMPTS - 1
      <4>1. p[a] \in from..from + IP_WINDOW_S /\ p[n] \in from..from + IP_WINDOW_S
        OBVIOUS
      <4>2. ~(p[a] + IP_WINDOW_S < p[n])
        BY <4>1, LimiterConstants
      <4>3. ~(a + IP_MAX_ATTEMPTS <= n)
        BY <4>2 DEF Apart
      <4> QED BY <1>1, <4>3, LimiterConstants
    <3> QED BY <1>1, <2>1, <3>1, LimiterConstants
  <2>3. /\ IsFiniteSet(a..a + IP_MAX_ATTEMPTS - 1)
        /\ Cardinality(a..a + IP_MAX_ATTEMPTS - 1) = IP_MAX_ATTEMPTS
    <3>1. a \in Int /\ a + IP_MAX_ATTEMPTS - 1 \in Int /\ ~(a > a + IP_MAX_ATTEMPTS - 1)
      BY <1>1, LimiterConstants
    <3>3. /\ IsFiniteSet(a..a + IP_MAX_ATTEMPTS - 1)
          /\ Cardinality(a..a + IP_MAX_ATTEMPTS - 1) = (a + IP_MAX_ATTEMPTS - 1) - a + 1
      BY <3>1, FS_Interval
    <3>2. (a + IP_MAX_ATTEMPTS - 1) - a + 1 = IP_MAX_ATTEMPTS
      BY <1>1, LimiterConstants
    <3> QED BY <3>2, <3>3
  <2> HIDE DEF set
  <2>4. Cardinality(set) <= Cardinality(a..a + IP_MAX_ATTEMPTS - 1)
    BY <2>2, <2>3, FS_Subset
  <2>5. Cardinality(set) <= IP_MAX_ATTEMPTS
    BY <2>3, <2>4
  <2> QED BY <2>5 DEF set
<1> QED BY <1>2, <1>3

Within(e, store, going, t) ==
  Len(Recent(store[e], FAIL_WINDOW_S, t)) + Cardinality(going) < FAIL_MAX_ATTEMPTS + Cardinality(Actors)

LoginInv ==
  /\ L!TypeOK
  /\ \A ip \in Ips :
       /\ Left(attempts[ip], passed[ip], time)
       /\ Ascending(passed[ip], time)
       /\ Apart(passed[ip])
  /\ \A e \in Emails : Within(e, failures, L!Waiting(e), time)

LEMMA LoginTyping ==
  ASSUME LoginInv
  PROVE  /\ L!Time \subseteq Nat /\ time \in L!Time /\ pruned \in L!Time
         /\ \A ip \in Ips : attempts[ip] \in Seq(L!Time) /\ passed[ip] \in Seq(L!Time)
         /\ \A e \in Emails : failures[e] \in Seq(L!Time)
         /\ \A s \in Actors : session[s] = L!None
              \/ session[s] \in [waiting : {TRUE}, ip : Ips, email : Emails]
         /\ \A s \in Actors : session[s].waiting =>
              session[s].email \in Emails /\ session[s].ip \in Ips
<1>1. L!Time \subseteq Nat
  BY DEF L!Time
<1>2. \A s \in Actors : session[s] = L!None \/ session[s] \in [waiting : {TRUE}, ip : Ips, email : Emails]
  BY DEF LoginInv, L!TypeOK
<1>3. ASSUME NEW s \in Actors, session[s].waiting
      PROVE  session[s].email \in Emails /\ session[s].ip \in Ips
  <2>1. session[s] # L!None
    BY <1>3 DEF L!None
  <2> QED BY <1>2, <2>1
<1> QED BY <1>1, <1>2, <1>3 DEF LoginInv, L!TypeOK

LEMMA WaitingIsFinite ==
  ASSUME NEW X, X \subseteq Actors
  PROVE  IsFiniteSet(X) /\ Cardinality(X) \in Nat /\ Cardinality(X) <= Cardinality(Actors)
BY LimiterConstants, FS_Subset, FS_CardinalityType

LEMMA LoginStart == L!Init => LoginInv
<1> SUFFICES ASSUME L!Init PROVE LoginInv
  OBVIOUS
<1>1. L!TypeOK
  <2>1. 0 \in L!Time /\ <<>> \in Seq(L!Time)
    BY LimiterConstants DEF L!Time
  <2> QED BY <2>1 DEF L!Init, L!TypeOK
<1>2. ASSUME NEW ip \in Ips
      PROVE  Left(attempts[ip], passed[ip], time) /\ Ascending(passed[ip], time) /\ Apart(passed[ip])
  <2>1. attempts[ip] = <<>> /\ passed[ip] = <<>> /\ Len(<<>>) = 0 /\ DOMAIN <<>> = {} /\ 1..0 = {}
    BY <1>2 DEF L!Init
  <2> QED BY <2>1 DEF Left, Ascending, Apart
<1>3. ASSUME NEW e \in Emails PROVE Within(e, failures, L!Waiting(e), time)
  <2>1. failures[e] = <<>> /\ <<>> \in Seq(Nat) /\ Len(<<>>) = 0 /\ time \in Nat
    BY <1>3, LimiterConstants DEF L!Init
  <2>2. Len(Recent(<<>>, FAIL_WINDOW_S, time)) = 0
    BY RecentOfNothing
  <2>3. L!Waiting(e) \subseteq Actors
    BY DEF L!Waiting
  <2>4. Cardinality(L!Waiting(e)) \in Nat /\ Cardinality(L!Waiting(e)) <= Cardinality(Actors)
    BY <2>3, WaitingIsFinite
  <2> QED BY <2>1, <2>2, <2>4, LimiterConstants DEF Within
<1> QED BY <1>1, <1>2, <1>3 DEF LoginInv

\* A bucket that is dropped has nothing that is recent.
LEMMA PrunedIs ==
  ASSUME NEW K, NEW store \in [K -> Seq(L!Time)], NEW w \in Nat, time \in L!Time
  PROVE  /\ L!Pruned(store, w) \in [K -> Seq(L!Time)]
         /\ \A k \in K : \/ L!Pruned(store, w)[k] = store[k]
                         \/ /\ L!Pruned(store, w)[k] = <<>>
                            /\ store[k] # <<>> => store[k][Len(store[k])] + w < time
<1>0. <<>> \in Seq(L!Time) /\ time \in Nat
  BY DEF L!Time
<1>1. CASE L!PruneDue
  <2>1. L!Pruned(store, w) =
          [k \in K |-> IF store[k] # <<>> /\ L!Last(store[k]) + w >= time THEN store[k] ELSE <<>>]
    BY <1>1 DEF L!Pruned
  <2>2. ASSUME NEW k \in K, store[k] # <<>>, ~(store[k][Len(store[k])] + w >= time)
        PROVE  store[k][Len(store[k])] + w < time
    <3>1. store[k] \in Seq(L!Time)
      OBVIOUS
    <3>2. store[k][Len(store[k])] \in L!Time
      BY <2>2, <3>1
    <3>3. store[k][Len(store[k])] \in Nat
      BY <3>2 DEF L!Time
    <3> QED BY <1>0, <2>2, <3>3
  <2> QED BY <1>0, <2>1, <2>2 DEF L!Last
<1>2. CASE ~L!PruneDue
  BY <1>2 DEF L!Pruned
<1> QED BY <1>1, <1>2

\* What an attempt leaves of the bucket of its address, before it is added.
LEMMA LeftPruned ==
  ASSUME LoginInv, NEW ip \in Ips
  PROVE  /\ L!Pruned(attempts, IP_WINDOW_S) \in [Ips -> Seq(L!Time)]
         /\ Left(L!Pruned(attempts, IP_WINDOW_S)[ip], passed[ip], time)
<1> DEFINE q == L!Pruned(attempts, IP_WINDOW_S)[ip]
<1>1. /\ attempts \in [Ips -> Seq(L!Time)] /\ time \in L!Time /\ time \in Nat /\ L!Time \subseteq Nat
      /\ attempts[ip] \in Seq(L!Time) /\ passed[ip] \in Seq(L!Time)
  BY LoginTyping DEF LoginInv, L!TypeOK
<1>2. /\ L!Pruned(attempts, IP_WINDOW_S) \in [Ips -> Seq(L!Time)]
      /\ \/ q = attempts[ip]
         \/ /\ q = <<>>
            /\ attempts[ip] # <<>> => attempts[ip][Len(attempts[ip])] + IP_WINDOW_S < time
  BY <1>1, LimiterConstants, PrunedIs
<1> HIDE DEF q
<1>3. Left(attempts[ip], passed[ip], time) /\ Ascending(passed[ip], time)
  BY DEF LoginInv
<1>4. CASE q = attempts[ip]
  BY <1>2, <1>3, <1>4 DEF q
<1>5. CASE /\ q = <<>>
           /\ attempts[ip] # <<>> => attempts[ip][Len(attempts[ip])] + IP_WINDOW_S < time
  <2>1. Left(<<>>, passed[ip], time)
    BY <1>1, <1>3, <1>5, LeftNothing
  <2> QED BY <1>2, <1>5, <2>1 DEF q
<1> QED BY <1>2, <1>4, <1>5

\* A failure is one more, and a look none.
LEMMA RecentAgain ==
  ASSUME NEW q \in Seq(L!Time), time \in L!Time, L!Time \subseteq Nat
  PROVE  LET r == Recent(q, FAIL_WINDOW_S, time) IN
         /\ r \in Seq(L!Time) /\ Len(r) \in Nat
         /\ Append(r, time) \in Seq(L!Time)
         /\ Len(Recent(r, FAIL_WINDOW_S, time)) \in Nat
         /\ Len(Recent(r, FAIL_WINDOW_S, time)) <= Len(r)
         /\ Len(Recent(Append(r, time), FAIL_WINDOW_S, time)) \in Nat
         /\ Len(Recent(Append(r, time), FAIL_WINDOW_S, time)) <= Len(r) + 1
         /\ Len(Recent(<<>>, FAIL_WINDOW_S, time)) = 0
<1> DEFINE r == Recent(q, FAIL_WINDOW_S, time)
<1>1. r \in Seq(L!Time) /\ time \in Nat
  BY LimiterConstants, RecentIs
<1> HIDE DEF r
<1>2. Append(r, time) \in Seq(L!Time) /\ Len(Append(r, time)) = Len(r) + 1 /\ Len(r) \in Nat
  BY <1>1
<1>3. <<>> \in Seq(L!Time) /\ Len(<<>>) = 0
  OBVIOUS
<1>4. time <= time
  BY <1>1
<1>5. \A s \in Seq(L!Time) : /\ Len(Recent(s, FAIL_WINDOW_S, time)) \in Nat
                             /\ Len(Recent(s, FAIL_WINDOW_S, time)) <= Len(s)
  BY <1>1, <1>4, LimiterConstants, RecentShrinks
<1>6. Len(Recent(<<>>, FAIL_WINDOW_S, time)) = 0
  BY RecentOfNothing
<1> QED BY <1>1, <1>2, <1>5, <1>6 DEF r

LEMMA LoginNext == ASSUME LoginInv, [L!Next]_(L!vars) PROVE LoginInv'
<1>0. /\ L!Time \subseteq Nat /\ time \in L!Time /\ time \in Nat /\ pruned \in L!Time
      /\ attempts \in [Ips -> Seq(L!Time)] /\ passed \in [Ips -> Seq(L!Time)]
      /\ failures \in [Emails -> Seq(L!Time)]
      /\ session \in [Actors -> {L!None} \cup [waiting : {TRUE}, ip : Ips, email : Emails]]
  BY LoginTyping DEF LoginInv, L!TypeOK
<1>t. \A ip \in Ips : Left(attempts[ip], passed[ip], time) /\ Ascending(passed[ip], time) /\ Apart(passed[ip])
  BY DEF LoginInv
<1>w. \A e \in Emails : Within(e, failures, L!Waiting(e), time)
  BY DEF LoginInv
<1>1. CASE L!Tick
  <2>1. /\ time' = time + 1 /\ time' \in L!Time /\ time' \in Nat /\ time <= time'
        /\ UNCHANGED <<attempts, failures, pruned, session, passed>>
    BY <1>0, <1>1, LimiterConstants DEF L!Tick, L!Time
  <2>2. L!TypeOK'
    BY <2>1 DEF LoginInv, L!TypeOK
  <2> PICK now \in L!Time : now = time'
    BY <2>1
  <2>3. ASSUME NEW ip \in Ips
        PROVE  Left(attempts[ip], passed[ip], now) /\ Ascending(passed[ip], now) /\ Apart(passed[ip])
    <3>1. passed[ip] \in Seq(L!Time)
      BY <1>0
    <3>2. Left(attempts[ip], passed[ip], now)
      BY <1>0, <1>t, <2>1, <3>1, LeftLater
    <3>3. \A n \in DOMAIN passed[ip] : passed[ip][n] \in Nat
      BY <1>0, <3>1, TimesAre
    <3>4. Ascending(passed[ip], now)
      BY <1>0, <1>t, <2>1, <3>3 DEF Ascending
    <3> QED BY <1>t, <3>2, <3>4
  <2>4. ASSUME NEW e \in Emails PROVE Within(e, failures, L!Waiting(e), now)
    <3>1. /\ Len(Recent(failures[e], FAIL_WINDOW_S, now)) <= Len(Recent(failures[e], FAIL_WINDOW_S, time))
          /\ Len(Recent(failures[e], FAIL_WINDOW_S, time)) \in Nat
      BY <1>0, <2>1, LimiterConstants, RecentShrinks
    <3>2. Len(Recent(failures[e], FAIL_WINDOW_S, now)) \in Nat
      BY <1>0, <2>1, LimiterConstants, RecentShrinks
    <3>3. Cardinality(L!Waiting(e)) \in Nat
      BY WaitingIsFinite DEF L!Waiting
    <3> QED BY <1>w, <3>1, <3>2, <3>3, LimiterConstants DEF Within
  <2>5. \A e \in Emails : L!Waiting(e)' = L!Waiting(e)
    BY <2>1 DEF L!Waiting
  <2> QED BY <2>1, <2>2, <2>3, <2>4, <2>5 DEF LoginInv, Within
<1>2. ASSUME NEW s \in Actors, NEW ip \in Ips, NEW email \in Emails, L!Attempt(s, ip, email)
      PROVE  LoginInv'
  <2> DEFINE ips    == L!Pruned(attempts, IP_WINDOW_S)
             emails == L!Pruned(failures, FAIL_WINDOW_S)
             recent == Recent(ips[ip], IP_WINDOW_S, time)
             failed == Recent(emails[email], FAIL_WINDOW_S, time)
             limited == Len(recent) >= IP_MAX_ATTEMPTS
             locked  == Len(failed) >= FAIL_MAX_ATTEMPTS
  <2>1. /\ session[s] = L!None /\ time' = time
        /\ pruned' = IF L!PruneDue THEN time ELSE pruned
        /\ attempts' = [ips EXCEPT ![ip] = IF limited \/ locked THEN recent ELSE Append(recent, time)]
        /\ failures' = IF limited THEN emails ELSE [emails EXCEPT ![email] = failed]
        /\ limited \/ locked => UNCHANGED <<session, passed>>
        /\ ~(limited \/ locked) =>
             /\ session' = [session EXCEPT ![s] = [waiting |-> TRUE, ip |-> ip, email |-> email]]
             /\ passed' = [passed EXCEPT ![ip] = Append(@, time)]
    BY <1>2 DEF L!Attempt, L!Trimmed, Recent
  <2>2. /\ ips \in [Ips -> Seq(L!Time)]
        /\ \A i \in Ips : Left(ips[i], passed[i], time)
    BY LeftPruned
  <2>3. /\ emails \in [Emails -> Seq(L!Time)]
        /\ \A e \in Emails : emails[e] = failures[e] \/ emails[e] = <<>>
    <3>1. /\ emails \in [Emails -> Seq(L!Time)]
          /\ \A e \in Emails :
               \/ emails[e] = failures[e]
               \/ /\ emails[e] = <<>>
                  /\ failures[e] # <<>> => failures[e][Len(failures[e])] + FAIL_WINDOW_S < time
      BY <1>0, LimiterConstants, PrunedIs
    <3> HIDE DEF emails
    <3> QED BY <3>1
  <2> HIDE DEF ips, emails
  <2>4. /\ recent \in Seq(L!Time) /\ Left(recent, passed[ip], time)
        /\ Append(recent, time) \in Seq(L!Time) /\ Len(recent) \in Nat
    <3>1. ips[ip] \in Seq(L!Time) /\ passed[ip] \in Seq(L!Time)
      BY <1>0, <2>2
    <3>2. recent \in Seq(L!Time)
      BY <1>0, <3>1, LimiterConstants, RecentIs
    <3>3. Left(recent, passed[ip], time)
      BY <1>0, <2>2, <3>1, LeftRecent
    <3> HIDE DEF recent
    <3> QED BY <1>0, <3>2, <3>3
  <2>5. failed \in Seq(L!Time) /\ Len(failed) \in Nat
    BY <1>0, <2>3, RecentAgain
  <2> HIDE DEF recent, failed
  <2>6. L!TypeOK'
    <3>1. attempts' \in [Ips -> Seq(L!Time)]
      BY <2>1, <2>2, <2>4
    <3>2. failures' \in [Emails -> Seq(L!Time)]
      BY <2>1, <2>3, <2>5
    <3>3. session' \in [Actors -> {L!None} \cup [waiting : {TRUE}, ip : Ips, email : Emails]]
      <4>1. [waiting |-> TRUE, ip |-> ip, email |-> email] \in [waiting : {TRUE}, ip : Ips, email : Emails]
        OBVIOUS
      <4>2. \/ session' = session
            \/ session' = [session EXCEPT ![s] = [waiting |-> TRUE, ip |-> ip, email |-> email]]
        BY <2>1
      <4> QED BY <1>0, <4>1, <4>2
    <3>4. passed' \in [Ips -> Seq(L!Time)]
      <4>1. Append(passed[ip], time) \in Seq(L!Time)
        BY <1>0
      <4> QED BY <1>0, <2>1, <4>1
    <3> QED BY <1>0, <2>1, <3>1, <3>2, <3>3, <3>4 DEF L!TypeOK
  <2>7. ASSUME NEW i \in Ips
        PROVE  Left(attempts'[i], passed'[i], time) /\ Ascending(passed'[i], time) /\ Apart(passed'[i])
    <3>1. CASE i # ip
      <4>1. attempts'[i] = ips[i] /\ passed'[i] = passed[i]
        BY <1>0, <2>1, <2>2, <3>1
      <4> QED BY <1>t, <2>2, <4>1
    <3>2. CASE i = ip /\ (limited \/ locked)
      <4>1. attempts'[i] = recent /\ passed'[i] = passed[i]
        BY <1>0, <2>1, <2>2, <3>2
      <4> QED BY <1>t, <2>4, <3>2, <4>1
    <3>3. CASE i = ip /\ ~(limited \/ locked)
      <4>1. attempts'[i] = Append(recent, time) /\ passed'[i] = Append(passed[ip], time)
        BY <1>0, <2>1, <2>2, <3>3
      <4>2. Len(recent) < IP_MAX_ATTEMPTS
        BY <2>4, <3>3, LimiterConstants
      <4>3. passed[ip] \in Seq(L!Time) /\ Ascending(passed[ip], time) /\ Apart(passed[ip])
        BY <1>0, <1>t
      <4>4. /\ Left(Append(recent, time), Append(passed[ip], time), time)
            /\ Ascending(Append(passed[ip], time), time)
            /\ Apart(Append(passed[ip], time))
        BY <1>0, <2>4, <4>2, <4>3, OneMore
      <4> QED BY <4>1, <4>4
    <3> QED BY <3>1, <3>2, <3>3
  <2>8. ASSUME NEW e \in Emails PROVE Within(e, failures', L!Waiting(e)', time)
    <3>0. /\ Cardinality(L!Waiting(e)) \in Nat
          /\ Cardinality(L!Waiting(e)') \in Nat /\ Cardinality(L!Waiting(e)') <= Cardinality(Actors)
      BY WaitingIsFinite DEF L!Waiting
    <3>1. /\ Len(Recent(failures[e], FAIL_WINDOW_S, time)) \in Nat
          /\ Len(Recent(emails[e], FAIL_WINDOW_S, time)) \in Nat
          /\ Len(Recent(emails[e], FAIL_WINDOW_S, time)) <= Len(Recent(failures[e], FAIL_WINDOW_S, time))
      <4>1. failures[e] \in Seq(L!Time) /\ emails[e] \in Seq(L!Time)
        BY <1>0, <2>3
      <4>2. /\ Len(Recent(failures[e], FAIL_WINDOW_S, time)) \in Nat
            /\ Len(Recent(emails[e], FAIL_WINDOW_S, time)) \in Nat
        BY <1>0, <4>1, RecentAgain
      <4>3. CASE emails[e] = failures[e]
        BY <4>2, <4>3
      <4>4. CASE emails[e] = <<>>
        BY <4>2, <4>4, RecentOfNothing
      <4> QED BY <2>3, <4>3, <4>4
    <3>2. /\ Len(Recent(failures'[e], FAIL_WINDOW_S, time)) \in Nat
          /\ Len(Recent(failures'[e], FAIL_WINDOW_S, time)) <= Len(Recent(emails[e], FAIL_WINDOW_S, time))
      <4>1. CASE failures'[e] = emails[e]
        BY <3>1, <4>1
      <4>2. CASE failures'[e] = failed /\ e = email
        <5>1. /\ Len(Recent(failed, FAIL_WINDOW_S, time)) \in Nat
              /\ Len(Recent(failed, FAIL_WINDOW_S, time)) <= Len(Recent(emails[email], FAIL_WINDOW_S, time))
          BY <1>0, <2>3, RecentAgain DEF failed
        <5> QED BY <4>2, <5>1
      <4> QED BY <2>1, <2>3, <4>1, <4>2
    <3>3. CASE L!Waiting(e)' = L!Waiting(e)
      BY <1>w, <3>0, <3>1, <3>2, <3>3, LimiterConstants DEF Within
    <3>4. CASE L!Waiting(e)' # L!Waiting(e)
      <4>1. ~(limited \/ locked)
        BY <2>1, <3>4 DEF L!Waiting
      <4>2. session' = [session EXCEPT ![s] = [waiting |-> TRUE, ip |-> ip, email |-> email]]
        BY <2>1, <4>1
      <4>3. e = email
        <5>1. ASSUME e # email PROVE L!Waiting(e)' = L!Waiting(e)
          <6>1. ~session[s].waiting
            BY <2>1 DEF L!None
          <6>2. ASSUME NEW a \in Actors
                PROVE  (session'[a].waiting /\ session'[a].email = e) <=> (session[a].waiting /\ session[a].email = e)
            BY <1>0, <4>2, <5>1, <6>1
          <6> QED BY <6>2 DEF L!Waiting
        <5> QED BY <3>4, <5>1
      <4>4. failures'[e] = failed /\ Len(failed) < FAIL_MAX_ATTEMPTS
        BY <2>1, <2>3, <2>5, <4>1, <4>3, LimiterConstants
      <4>5. Len(Recent(failures'[e], FAIL_WINDOW_S, time)) <= Len(failed)
        BY <1>0, <2>3, <4>4, RecentAgain DEF failed
      <4>6. Len(Recent(failures'[e], FAIL_WINDOW_S, time)) < FAIL_MAX_ATTEMPTS
        BY <2>5, <3>2, <4>4, <4>5, LimiterConstants
      <4> QED BY <3>0, <3>2, <4>6, LimiterConstants DEF Within
    <3> QED BY <3>3, <3>4
  <2> QED BY <2>1, <2>6, <2>7, <2>8 DEF LoginInv, Within
<1>3. ASSUME NEW s \in Actors, L!Fail(s) \/ L!Succeed(s) \/ L!Break(s) PROVE LoginInv'
  <2>1. /\ session[s].waiting /\ session' = [session EXCEPT ![s] = L!None]
        /\ UNCHANGED <<time, attempts, pruned, passed>>
    BY <1>3 DEF L!Fail, L!Succeed, L!Break, L!Ends
  <2> PICK email \in Emails : email = session[s].email
    BY <2>1, LoginTyping
  <2> DEFINE failed == Recent(failures[email], FAIL_WINDOW_S, time)
  <2>2. \/ failures' = [failures EXCEPT ![email] = Append(failed, time)]
        \/ failures' = [failures EXCEPT ![email] = <<>>]
        \/ failures' = failures
    BY <1>0, <1>3 DEF L!Fail, L!Succeed, L!Break, L!Trimmed, Recent
  <2>3. /\ failed \in Seq(L!Time) /\ Append(failed, time) \in Seq(L!Time) /\ <<>> \in Seq(L!Time)
        /\ Len(failed) \in Nat
        /\ Len(Recent(Append(failed, time), FAIL_WINDOW_S, time)) \in Nat
        /\ Len(Recent(Append(failed, time), FAIL_WINDOW_S, time)) <= Len(failed) + 1
        /\ Len(Recent(<<>>, FAIL_WINDOW_S, time)) = 0
    <3>1. failures[email] \in Seq(L!Time) /\ <<>> \in Seq(L!Time)
      BY <1>0
    <3> QED BY <1>0, <3>1, RecentAgain
  <2>4. L!TypeOK'
    <3>1. failures' \in [Emails -> Seq(L!Time)]
      <4> HIDE DEF failed
      <4> QED BY <1>0, <2>2, <2>3
    <3>2. session' \in [Actors -> {L!None} \cup [waiting : {TRUE}, ip : Ips, email : Emails]]
      BY <1>0, <2>1
    <3> QED BY <1>0, <2>1, <3>1, <3>2 DEF L!TypeOK
  <2>5. ASSUME NEW e \in Emails PROVE Within(e, failures', L!Waiting(e)', time)
    <3>0. /\ L!Waiting(e) \subseteq Actors /\ L!Waiting(e)' = L!Waiting(e) \ {s}
          /\ e = email => s \in L!Waiting(e)
      BY <1>0, <2>1 DEF L!Waiting, L!None
    <3>1. /\ IsFiniteSet(L!Waiting(e)) /\ Cardinality(L!Waiting(e)) \in Nat
          /\ Cardinality(L!Waiting(e)') \in Nat
          /\ Cardinality(L!Waiting(e)') = IF s \in L!Waiting(e) THEN Cardinality(L!Waiting(e)) - 1
                                          ELSE Cardinality(L!Waiting(e))
      <4>1. L!Waiting(e) \ {s} \subseteq Actors
        BY <3>0
      <4> QED BY <3>0, <4>1, WaitingIsFinite, FS_RemoveElement
    <3>2. /\ Len(Recent(failures[e], FAIL_WINDOW_S, time)) \in Nat
          /\ Len(Recent(failures'[e], FAIL_WINDOW_S, time)) \in Nat
          /\ Len(Recent(failures'[e], FAIL_WINDOW_S, time)) <=
               Len(Recent(failures[e], FAIL_WINDOW_S, time)) + IF e = email THEN 1 ELSE 0
      <4>1. Len(Recent(failures[e], FAIL_WINDOW_S, time)) \in Nat
        BY <1>0, RecentAgain
      <4>2. CASE e # email
        BY <1>0, <2>2, <4>1, <4>2
      <4>3. CASE e = email
        <5> HIDE DEF failed
        <5>1. CASE failures' = [failures EXCEPT ![email] = Append(failed, time)]
          <6>1. failures'[e] = Append(failed, time)
            BY <1>0, <4>3, <5>1
          <6> QED BY <2>3, <4>1, <4>3, <6>1 DEF failed
        <5>2. CASE failures' = [failures EXCEPT ![email] = <<>>]
          <6>1. failures'[e] = <<>>
            BY <1>0, <4>3, <5>2
          <6> QED BY <2>3, <4>1, <4>3, <6>1
        <5>3. CASE failures' = failures
          BY <4>1, <5>3
        <5> QED BY <2>2, <5>1, <5>2, <5>3
      <4> QED BY <4>2, <4>3
    <3> QED BY <1>w, <3>0, <3>1, <3>2, LimiterConstants DEF Within
  <2> QED BY <1>t, <2>1, <2>4, <2>5 DEF LoginInv, Within
<1>4. CASE UNCHANGED L!vars
  BY <1>4, <1>t, <1>w DEF L!vars, LoginInv, L!TypeOK, Within, L!Waiting
<1> QED BY <1>1, <1>2, <1>3, <1>4 DEF L!Next

LEMMA LoginsFollow == LoginInv => L!AttemptsAreLimited
<1> SUFFICES ASSUME LoginInv PROVE L!AttemptsAreLimited
  OBVIOUS
<1>1. ASSUME NEW ip \in Ips, NEW from \in L!Time PROVE L!Cardinality(L!Through(ip, from)) <= IP_MAX_ATTEMPTS
  <2>1. passed[ip] \in Seq(Nat) /\ from \in Nat
    <3>1. passed[ip] \in Seq(L!Time) /\ L!Time \subseteq Nat
      BY LoginTyping
    <3>2. \A n \in 1..Len(passed[ip]) : passed[ip][n] \in Nat
      BY <3>1, TimesAre
    <3> QED BY <3>1, <3>2
  <2>2. Apart(passed[ip])
    BY DEF LoginInv
  <2>3. Cardinality({n \in DOMAIN passed[ip] : passed[ip][n] \in from..from + IP_WINDOW_S}) <= IP_MAX_ATTEMPTS
    BY <2>1, <2>2, FewInAWindow
  <2> QED BY <2>3 DEF L!Through, L!Cardinality, Cardinality
<1>2. ASSUME NEW e \in Emails
      PROVE  Len(L!Trimmed(failures[e], FAIL_WINDOW_S)) + L!Cardinality(L!Waiting(e))
               < FAIL_MAX_ATTEMPTS + L!Cardinality(Actors)
  <2>1. Within(e, failures, L!Waiting(e), time)
    BY DEF LoginInv
  <2>2. \A X : L!Cardinality(X) = Cardinality(X)
    BY DEF L!Cardinality, Cardinality
  <2>3. L!Trimmed(failures[e], FAIL_WINDOW_S) = Recent(failures[e], FAIL_WINDOW_S, time)
    BY DEF L!Trimmed, Recent
  <2> QED BY <2>1, <2>2, <2>3 DEF Within
<1> QED BY <1>1, <1>2 DEF L!AttemptsAreLimited
-----------------------------------------------------------------------------
(* The live feed. *)

\* Whoever is still to be sent the last message registered before it was taken,
\* for its plant; whoever has not registered has got nothing.
FeedInv ==
  /\ W!TypeOK
  /\ Len(inbox) + Len(taken) <= MaxMessages
  /\ \A s \in targets : /\ since[s] < Len(taken) /\ taken[Len(taken)] = watched[s]
                        /\ handler[s] \in {"open", "left", "ended"}
  /\ \A s \in Actors : /\ since[s] <= Len(taken)
                       /\ handler[s] \in {"asking", "accepted", "denied"} => received[s] = <<>>
  /\ W!FeedIsWhole

LEMMA FeedConstants == MaxMessages \in Nat /\ BACKOFF_MAX \in Nat \ {0} /\ 0 \in W!Number
BY PlatformAssumption DEF W!FeedAssumption, W!Number

LEMMA FeedTyping ==
  ASSUME W!TypeOK
  PROVE  /\ watched \in [Actors -> Plants] /\ registry \in [Plants -> SUBSET Actors]
         /\ handler \in [Actors -> {"asking", "accepted", "denied", "open", "left", "ended"}]
         /\ inbox \in Seq(Plants) /\ taken \in Seq(Plants)
         /\ Len(inbox) \in Nat /\ Len(taken) \in Nat /\ DOMAIN taken = 1..Len(taken)
         /\ targets \subseteq Actors
         /\ received \in [Actors -> Seq(W!Number)] /\ since \in [Actors -> W!Number]
         /\ \A s \in Actors : /\ received[s] \in Seq(W!Number) /\ Len(received[s]) \in Nat
                              /\ DOMAIN received[s] = 1..Len(received[s])
                              /\ since[s] \in Nat
<1>1. \A s \in Actors : since[s] \in Nat
  BY DEF W!TypeOK, W!Number
<1> QED BY <1>1 DEF W!TypeOK

LEMMA FeedStart == W!Init => FeedInv
<1> SUFFICES ASSUME W!Init PROVE FeedInv
  OBVIOUS
<1>1. Len(<<>>) = 0 /\ <<>> \in Seq(Plants) /\ <<>> \in Seq(W!Number) /\ DOMAIN <<>> = {}
  OBVIOUS
<1>2. W!TypeOK
  BY <1>1, FeedConstants DEF W!Init, W!TypeOK
<1>3. \A s \in Actors : handler[s] = "asking" /\ received[s] = <<>> /\ since[s] = 0
  BY DEF W!Init
<1>4. W!FeedIsWhole
  BY <1>3 DEF W!Init, W!FeedIsWhole
<1> QED BY <1>1, <1>2, <1>3, <1>4, FeedConstants DEF W!Init, FeedInv

\* Nothing but the bridge's doings changes when the connection does.
LEMMA FeedConnects ==
  ASSUME FeedInv,
         UNCHANGED <<watched, handler, registry, taken, targets, received, since>>,
         bridge' \in {"connecting", "listening", "waiting", "stopped"}, backoff' \in 1..BACKOFF_MAX,
         inbox' \in Seq(Plants), Len(inbox') + Len(taken) <= MaxMessages
  PROVE  FeedInv'
<1>1. W!TypeOK'
  BY DEF FeedInv, W!TypeOK
<1>2. W!FeedIsWhole'
  BY DEF FeedInv, W!FeedIsWhole, W!Due
<1> QED BY <1>1, <1>2 DEF FeedInv

\* A socket's handler goes on, without a message.
LEMMA FeedHandles ==
  ASSUME FeedInv, NEW s \in Actors,
         NEW to \in {"accepted", "denied", "open", "left", "ended"},
         handler' = [handler EXCEPT ![s] = to],
         handler[s] \in {"asking", "accepted", "denied"} =>
           to \in {"accepted", "denied"} \/ (to = "open" /\ since'[s] = Len(taken)),
         handler[s] \notin {"asking", "accepted", "denied"} => to \in {"left", "ended"},
         since' \in [Actors -> W!Number],
         since'[s] \in {since[s], Len(taken)}, since' # since => handler[s] = "accepted",
         \A o \in Actors : o # s => since'[o] = since[o],
         registry' \in [Plants -> SUBSET Actors],
         \A p \in Plants : registry'[p] = {o \in Actors : watched[o] = p /\ handler'[o] \in {"open", "left"}},
         UNCHANGED <<watched, bridge, backoff, inbox, taken, targets, received>>
  PROVE  FeedInv'
<1>0. W!TypeOK
  BY DEF FeedInv
<1>1. W!TypeOK'
  BY <1>0, FeedTyping DEF W!TypeOK
<1>2. handler'[s] = to /\ \A o \in Actors : o # s => handler'[o] = handler[o]
  BY <1>0, FeedTyping
<1>3. ASSUME NEW o \in targets
      PROVE  /\ since'[o] < Len(taken) /\ taken[Len(taken)] = watched[o]
             /\ handler'[o] \in {"open", "left", "ended"}
  <2>1. o \in Actors /\ since[o] < Len(taken) /\ taken[Len(taken)] = watched[o]
        /\ handler[o] \in {"open", "left", "ended"}
    BY <1>0, FeedTyping DEF FeedInv
  <2> QED BY <1>2, <2>1
<1>4. ASSUME NEW o \in Actors
      PROVE  /\ since'[o] <= Len(taken)
             /\ handler'[o] \in {"asking", "accepted", "denied"} => received[o] = <<>>
  BY <1>0, <1>2, FeedTyping DEF FeedInv
<1>5. ASSUME NEW o \in Actors, handler'[o] = "open"
      PROVE  W!ToSet(received[o]) = W!Due(o)' /\ W!InOrder(received[o])
  <2>1. CASE o # s \/ handler[s] \notin {"asking", "accepted", "denied"}
    <3>1. handler[o] = "open" /\ since'[o] = since[o]
      BY <1>2, <1>5, <2>1
    <3>2. W!Due(o)' = W!Due(o)
      BY <3>1 DEF W!Due
    <3> QED BY <3>1, <3>2 DEF FeedInv, W!FeedIsWhole
  <2>2. CASE o = s /\ handler[s] \in {"asking", "accepted", "denied"}
    <3>1. since'[o] = Len(taken) /\ received[o] = <<>>
      BY <1>2, <1>5, <2>2 DEF FeedInv
    <3>2. W!Due(o)' = {}
      BY <1>0, <3>1, FeedTyping DEF W!Due
    <3>3. W!ToSet(<<>>) = {} /\ W!InOrder(<<>>)
      <4>1. DOMAIN <<>> = {}
        OBVIOUS
      <4> QED BY <4>1 DEF W!ToSet, W!InOrder
    <3> QED BY <3>1, <3>2, <3>3
  <2> QED BY <2>1, <2>2
<1>6. W!FeedIsWhole'
  BY <1>5 DEF W!FeedIsWhole
<1> QED BY <1>1, <1>3, <1>4, <1>6 DEF FeedInv

LEMMA FeedNext == ASSUME FeedInv, [W!Next]_(W!vars) PROVE FeedInv'
<1>0. W!TypeOK
  BY DEF FeedInv
<1> USE FeedTyping, <1>0
<1>1. CASE W!Connect \/ W!Lose \/ W!Retry \/ W!Stop
  <2>1. UNCHANGED <<watched, handler, registry, taken, targets, received, since>>
    BY <1>1 DEF W!Connect, W!Lose, W!Retry, W!Stop
  <2>2. bridge' \in {"connecting", "listening", "waiting", "stopped"} /\ backoff' \in 1..BACKOFF_MAX
    BY <1>1, FeedConstants DEF W!Connect, W!Lose, W!Retry, W!Stop, W!TypeOK
  <2>3. inbox' = inbox \/ inbox' = <<>>
    BY <1>1 DEF W!Connect, W!Lose, W!Retry, W!Stop
  <2>4. <<>> \in Seq(Plants) /\ Len(<<>>) = 0
    OBVIOUS
  <2>5. inbox' \in Seq(Plants) /\ Len(inbox') + Len(taken) <= MaxMessages
    <3>1. CASE inbox' = inbox
      BY <3>1 DEF FeedInv
    <3>2. CASE inbox' = <<>>
      <4>1. Len(taken) <= MaxMessages
        BY FeedConstants DEF FeedInv
      <4>2. Len(inbox') = 0
        BY <2>4, <3>2
      <4> QED BY <2>4, <3>2, <4>1, <4>2
    <3> QED BY <2>3, <3>1, <3>2
  <2> QED BY <2>1, <2>2, <2>5, FeedConnects
<1>2. ASSUME NEW p \in Plants, W!Publish(p) PROVE FeedInv'
  <2>1. /\ UNCHANGED <<watched, handler, registry, bridge, backoff, taken, targets, received, since>>
        /\ Len(inbox) + Len(taken) < MaxMessages /\ inbox' = Append(inbox, p)
    BY <1>2 DEF W!Publish
  <2>2. inbox' \in Seq(Plants) /\ Len(inbox') = Len(inbox) + 1
    BY <2>1
  <2>3. bridge' \in {"connecting", "listening", "waiting", "stopped"} /\ backoff' \in 1..BACKOFF_MAX
    BY <2>1 DEF W!TypeOK
  <2>4. Len(inbox') + Len(taken) <= MaxMessages
    BY <2>1, <2>2, FeedConstants
  <2> QED BY <2>1, <2>2, <2>3, <2>4, FeedConnects
<1>3. CASE W!Take
  <2> DEFINE p == Head(inbox)
             last == Len(taken)
  <2>1. /\ UNCHANGED <<watched, handler, registry, bridge, backoff, received, since>>
        /\ targets = {} /\ inbox # <<>>
        /\ inbox' = Tail(inbox) /\ taken' = Append(taken, p) /\ targets' = registry[p]
    BY <1>3 DEF W!Take
  <2>2. /\ p \in Plants /\ inbox' \in Seq(Plants) /\ Len(inbox') = Len(inbox) - 1
    BY <2>1
  <2>3. /\ taken' \in Seq(Plants) /\ Len(taken') = last + 1 /\ taken'[last + 1] = p
        /\ \A n \in 1..last : taken'[n] = taken[n]
    BY <2>1, <2>2
  <2>4. targets' \subseteq Actors
    BY <2>1, <2>2
  <2>5. W!TypeOK'
    BY <2>1, <2>2, <2>3, <2>4 DEF W!TypeOK
  <2> HIDE DEF p
  <2>6. ASSUME NEW s \in registry[p]
        PROVE  s \in Actors /\ watched[s] = p /\ handler[s] \in {"open", "left"} /\ since[s] < last + 1
    <3>1. s \in Actors /\ watched[s] = p /\ handler[s] \in {"open", "left"}
      BY <2>2 DEF FeedInv, W!FeedIsWhole
    <3> QED BY <3>1 DEF FeedInv
  <2>7. ASSUME NEW s \in Actors, handler[s] = "open" PROVE W!Due(s)' = W!Due(s)
    <3>1. W!Due(s)' = {n \in 1..(last + 1) : /\ n > since[s] /\ taken'[n] = watched[s]
                                         /\ (n = last + 1 => s \notin registry[p])}
      BY <2>1, <2>3 DEF W!Due
    <3>2. W!Due(s) = {n \in 1..last : n > since[s] /\ taken[n] = watched[s]}
      BY <2>1 DEF W!Due
    <3>3. watched[s] = p => s \in registry[p]
      BY <2>2, <2>7 DEF FeedInv, W!FeedIsWhole
    <3>4. ASSUME NEW n \in 1..(last + 1)
          PROVE  (/\ n > since[s] /\ taken'[n] = watched[s] /\ (n = last + 1 => s \notin registry[p]))
                   <=> (n \in 1..last /\ n > since[s] /\ taken[n] = watched[s])
      <4>1. CASE n = last + 1
        BY <2>3, <3>3, <4>1
      <4>2. CASE n # last + 1
        <5>1. n \in 1..last
          BY <4>2
        <5> QED BY <2>3, <4>2, <5>1
      <4> QED BY <4>1, <4>2
    <3>5. 1..last \subseteq 1..(last + 1)
      OBVIOUS
    <3> HIDE DEF last
    <3> QED BY <3>1, <3>2, <3>4, <3>5
  <2>8. W!FeedIsWhole'
    BY <2>1, <2>7 DEF FeedInv, W!FeedIsWhole
  <2>9. Len(inbox') + Len(taken') <= MaxMessages
    BY <2>2, <2>3, FeedConstants DEF FeedInv
  <2>10. \A s \in Actors : since[s] <= last + 1
    BY DEF FeedInv
  <2> QED BY <2>1, <2>3, <2>5, <2>6, <2>8, <2>9, <2>10 DEF FeedInv
<1>4. ASSUME NEW s \in Actors, W!Send(s) PROVE FeedInv'
  <2> DEFINE last == Len(taken)
  <2>1. /\ UNCHANGED <<watched, handler, registry, bridge, backoff, inbox, taken, since>>
        /\ s \in targets /\ targets' = targets \ {s}
        /\ received' = IF handler[s] = "open"
                       THEN [received EXCEPT ![s] = Append(received[s], last)] ELSE received
    BY <1>4 DEF W!Send
  <2>2. last \in W!Number /\ since[s] < last /\ taken[last] = watched[s] /\ handler[s] \in {"open", "left", "ended"}
    BY <2>1, FeedConstants DEF FeedInv, W!Number
  <2>3. /\ Append(received[s], last) \in Seq(W!Number)
        /\ Len(Append(received[s], last)) = Len(received[s]) + 1
        /\ DOMAIN Append(received[s], last) = 1..Len(received[s]) + 1
        /\ Append(received[s], last)[Len(received[s]) + 1] = last
        /\ \A i \in 1..Len(received[s]) : Append(received[s], last)[i] = received[s][i]
    BY <2>2
  <2>4. /\ received' \in [Actors -> Seq(W!Number)]
        /\ \A o \in Actors : o # s => received'[o] = received[o]
        /\ handler[s] = "open" => received'[s] = Append(received[s], last)
    BY <2>1, <2>3
  <2>5. W!TypeOK'
    BY <2>1, <2>4 DEF W!TypeOK
  <2>6. ASSUME NEW o \in Actors, handler[o] = "open", o # s
        PROVE  W!ToSet(received'[o]) = W!Due(o)' /\ W!InOrder(received'[o])
    <3>1. W!Due(o)' = W!Due(o)
      BY <2>1, <2>6 DEF W!Due
    <3> QED BY <2>4, <2>6, <3>1 DEF FeedInv, W!FeedIsWhole
  <2>7. ASSUME handler[s] = "open"
        PROVE  W!ToSet(received'[s]) = W!Due(s)' /\ W!InOrder(received'[s])
    <3>1. W!ToSet(received[s]) = W!Due(s) /\ W!InOrder(received[s])
      BY <2>7 DEF FeedInv, W!FeedIsWhole
    <3>2. last \in 1..last /\ last > since[s]
      BY <2>2
    <3>3. W!Due(s)' = W!Due(s) \cup {last} /\ \A n \in W!Due(s) : n < last
      <4>1. W!Due(s)' = {n \in 1..last : n > since[s] /\ taken[n] = watched[s]}
        BY <2>1 DEF W!Due
      <4>2. W!Due(s) = {n \in 1..last : n > since[s] /\ taken[n] = watched[s] /\ n # last}
        BY <2>1 DEF W!Due
      <4> QED BY <2>2, <3>2, <4>1, <4>2
    <3>4. W!ToSet(received'[s]) = W!ToSet(received[s]) \cup {last}
      <4>1. received'[s] = Append(received[s], last)
        BY <2>4, <2>7
      <4> DEFINE q == received[s]
                 r == Append(received[s], last)
      <4>2. /\ Len(q) \in Nat /\ DOMAIN q = 1..Len(q) /\ DOMAIN r = 1..Len(q) + 1
            /\ r[Len(q) + 1] = last /\ \A i \in 1..Len(q) : r[i] = q[i]
        BY <2>3
      <4> HIDE DEF q, r
      <4>3. {r[i] : i \in 1..Len(q) + 1} = {q[i] : i \in 1..Len(q)} \cup {last}
        <5>1. ASSUME NEW i \in 1..Len(q) + 1 PROVE r[i] \in {q[j] : j \in 1..Len(q)} \cup {last}
          <6>1. i \in 1..Len(q) \/ i = Len(q) + 1
            BY <4>2, SMTT(30)
          <6> QED BY <4>2, <6>1
        <5>2. ASSUME NEW j \in 1..Len(q) PROVE q[j] \in {r[i] : i \in 1..Len(q) + 1}
          <6>1. j \in 1..Len(q) + 1 /\ r[j] = q[j]
            BY <4>2
          <6> QED BY <6>1
        <5>3. last \in {r[i] : i \in 1..Len(q) + 1}
          <6>1. Len(q) + 1 \in 1..Len(q) + 1
            BY <4>2
          <6> QED BY <4>2, <6>1
        <5> QED BY <5>1, <5>2, <5>3
      <4>4. W!ToSet(r) = {r[i] : i \in 1..Len(q) + 1} /\ W!ToSet(q) = {q[i] : i \in 1..Len(q)}
        BY <4>2 DEF W!ToSet
      <4> QED BY <4>1, <4>3, <4>4 DEF q, r
    <3>5. W!InOrder(received'[s])
      <4>1. \A i \in 1..Len(received[s]) : received[s][i] < last
        BY <3>1, <3>3 DEF W!ToSet
      <4>2. ASSUME NEW i \in 1..Len(received[s]) + 1, NEW j \in 1..Len(received[s]) + 1, i < j
            PROVE  Append(received[s], last)[i] < Append(received[s], last)[j]
        <5>1. i \in 1..Len(received[s])
          BY <4>2
        <5>2. CASE j \in 1..Len(received[s])
          <6>1. received[s][i] < received[s][j]
            BY <3>1, <4>2, <5>1, <5>2 DEF W!InOrder
          <6> QED BY <2>3, <5>1, <5>2, <6>1
        <5>3. CASE j \notin 1..Len(received[s])
          <6>1. j = Len(received[s]) + 1
            BY <5>3
          <6> QED BY <2>3, <4>1, <5>1, <6>1
        <5> QED BY <5>2, <5>3
      <4> QED BY <2>3, <2>4, <2>7, <4>2 DEF W!InOrder
    <3> QED BY <3>1, <3>3, <3>4, <3>5
  <2>8. W!FeedIsWhole'
    <3>1. ASSUME NEW o \in Actors, handler[o] = "open"
          PROVE  W!ToSet(received'[o]) = W!Due(o)' /\ W!InOrder(received'[o])
      BY <2>6, <2>7, <3>1
    <3> QED BY <2>1, <3>1 DEF FeedInv, W!FeedIsWhole
  <2>9. \A o \in Actors : handler[o] \in {"asking", "accepted", "denied"} => received'[o] = <<>>
    BY <2>2, <2>4 DEF FeedInv
  <2> QED BY <2>1, <2>5, <2>8, <2>9 DEF FeedInv
<1>5. ASSUME NEW s \in Actors, W!Admit(s) \/ W!Leave(s) PROVE FeedInv'
  <2>1. PICK to \in {"accepted", "denied", "left"} :
          /\ handler' = [handler EXCEPT ![s] = to]
          /\ \/ handler[s] = "asking" /\ to \in {"accepted", "denied"}
             \/ handler[s] = "open" /\ to = "left"
          /\ UNCHANGED <<watched, registry, bridge, backoff, inbox, taken, targets, received, since>>
    BY <1>5 DEF W!Admit, W!Leave
  <2>2. handler'[s] = to /\ \A o \in Actors : o # s => handler'[o] = handler[o]
    BY <2>1
  <2>3. ASSUME NEW p \in Plants
        PROVE  registry'[p] = {o \in Actors : watched[o] = p /\ handler'[o] \in {"open", "left"}}
    <3>1. \A o \in Actors : handler'[o] \in {"open", "left"} <=> handler[o] \in {"open", "left"}
      BY <2>1, <2>2
    <3> QED BY <2>1, <3>1 DEF FeedInv, W!FeedIsWhole
  <2> QED BY <2>1, <2>3, FeedHandles
<1>6. ASSUME NEW s \in Actors, W!Register(s) PROVE FeedInv'
  <2>1. /\ handler[s] = "accepted" /\ handler' = [handler EXCEPT ![s] = "open"]
        /\ registry' = [registry EXCEPT ![watched[s]] = registry[watched[s]] \cup {s}]
        /\ since' = [since EXCEPT ![s] = Len(taken)]
        /\ UNCHANGED <<watched, bridge, backoff, inbox, taken, targets, received>>
    BY <1>6 DEF W!Register
  <2>2. Len(taken) \in W!Number
    BY FeedConstants DEF FeedInv, W!Number
  <2>3. /\ since' \in [Actors -> W!Number] /\ since'[s] = Len(taken)
        /\ \A o \in Actors : o # s => since'[o] = since[o]
    BY <2>1, <2>2
  <2>4. /\ handler'[s] = "open" /\ \A o \in Actors : o # s => handler'[o] = handler[o]
        /\ registry' \in [Plants -> SUBSET Actors]
        /\ registry'[watched[s]] = registry[watched[s]] \cup {s}
        /\ \A p \in Plants : p # watched[s] => registry'[p] = registry[p]
    BY <2>1
  <2>5. ASSUME NEW p \in Plants
        PROVE  registry'[p] = {o \in Actors : watched[o] = p /\ handler'[o] \in {"open", "left"}}
    <3>1. registry[p] = {o \in Actors : watched[o] = p /\ handler[o] \in {"open", "left"}}
      BY DEF FeedInv, W!FeedIsWhole
    <3> QED BY <2>1, <2>4, <3>1
  <2> QED BY <2>1, <2>3, <2>4, <2>5, FeedHandles
<1>7. ASSUME NEW s \in Actors, W!Unregister(s) PROVE FeedInv'
  <2>1. /\ handler[s] = "left" /\ handler' = [handler EXCEPT ![s] = "ended"]
        /\ registry' = [registry EXCEPT ![watched[s]] = registry[watched[s]] \ {s}]
        /\ UNCHANGED <<watched, bridge, backoff, inbox, taken, targets, received, since>>
    BY <1>7 DEF W!Unregister, W!Without
  <2>2. /\ handler'[s] = "ended" /\ \A o \in Actors : o # s => handler'[o] = handler[o]
        /\ registry' \in [Plants -> SUBSET Actors]
        /\ registry'[watched[s]] = registry[watched[s]] \ {s}
        /\ \A p \in Plants : p # watched[s] => registry'[p] = registry[p]
    BY <2>1
  <2>3. ASSUME NEW p \in Plants
        PROVE  registry'[p] = {o \in Actors : watched[o] = p /\ handler'[o] \in {"open", "left"}}
    <3>1. registry[p] = {o \in Actors : watched[o] = p /\ handler[o] \in {"open", "left"}}
      BY DEF FeedInv, W!FeedIsWhole
    <3> QED BY <2>1, <2>2, <3>1
  <2> QED BY <2>1, <2>2, <2>3, FeedHandles
<1>8. CASE UNCHANGED W!vars
  <2>1. bridge' \in {"connecting", "listening", "waiting", "stopped"} /\ backoff' \in 1..BACKOFF_MAX
        /\ inbox' \in Seq(Plants) /\ Len(inbox') + Len(taken) <= MaxMessages
    BY <1>8 DEF W!vars, W!TypeOK, FeedInv
  <2> QED BY <1>8, <2>1, FeedConnects DEF W!vars
<1> QED BY <1>1, <1>2, <1>3, <1>4, <1>5, <1>6, <1>7, <1>8 DEF W!Next
-----------------------------------------------------------------------------
(* The readers of the archive. *)

\* What a reader that began with row, object and proof in agreement has found
\* is still what is there.
SettledInv ==
  reader.settled =>
    /\ \A w \in Actors : R!At(w, "idle")
    /\ row.states = final /\ proof = final
    /\ reader.step \in {"row", "object", "proof", "included"}
    /\ reader.recorded = row.states
    /\ reader.step \in {"object", "proof", "included"} => reader.included = final
    /\ reader.timestamp \in {proof, Null}

ReaderInv == R!ReadersTypeOK /\ kind = "archive" /\ contracts = <<>> /\ SettledInv

LEMMA ReaderStart == R!ReadersInit => ReaderInv
<1> SUFFICES ASSUME R!ReadersInit PROVE ReaderInv
  OBVIOUS
<1>1. <<>> \in Seq(R!Contract) /\ Len(<<>>) = 0 /\ MaxContracts \in Nat /\ MaxData \in Nat
  BY PlatformAssumption DEF R!ContractsAssumption, R!DocumentsAssumption
<1>2. R!Nothing \in R!Document /\ R!Idle \in R!Run
  BY <1>1 DEF R!Nothing, R!Document, R!AnyRun, R!Idle, R!Run, R!Steps
<1>3. R!ContractsTypeOK
  BY <1>1 DEF R!ReadersInit, R!Init, R!ContractsInit, R!ContractsTypeOK
<1>4. R!TypeOK
  BY <1>1, <1>2, <1>3 DEF R!ReadersInit, R!Init, R!TypeOK, R!NoRow, R!RowStatus
<1>5. reader \in R!Reader /\ ~reader.settled
  BY DEF R!ReadersInit, R!NoReader, R!Reader
<1> QED BY <1>4, <1>5 DEF ReaderInv, R!ReadersTypeOK, SettledInv, R!ReadersInit, R!Init, R!ContractsInit

\* The parts of the type that a step of a run changes.
LEMMA RunTyped ==
  ASSUME R!TypeOK, kind = "archive", NEW w \in Actors
  PROVE  /\ run \in [Actors -> R!Run] /\ run[w] \in R!Run
         /\ run[w].document \in R!Document /\ row.states \in R!Document
         /\ row.status \in {"absent", "logged"}
         /\ R!Nothing \in R!Document /\ R!Idle \in R!Run /\ R!Idle.step = "idle"
         /\ \A s \in R!Steps : [run[w] EXCEPT !.step = s] \in R!Run
<1>1. MaxData \in Nat
  BY PlatformAssumption DEF R!DocumentsAssumption
<1> QED BY <1>1 DEF R!TypeOK, R!Nothing, R!Document, R!AnyRun, R!Idle, R!Run, R!Steps

\* A step of the workers or the readings' arrival keeps the types, and
\* whenever nothing goes on after it, nothing has been changed.
LEMMA WorkersTyped ==
  ASSUME R!TypeOK, kind = "archive", contracts = <<>>, R!Next
  PROVE  /\ R!TypeOK' /\ kind' = "archive" /\ contracts' = <<>>
         /\ (\A w \in Actors : R!At(w, "idle") /\ run'[w] = R!Idle) => UNCHANGED <<final, proof, row>>
<1>1. ASSUME R!DataArrives
      PROVE  R!TypeOK' /\ UNCHANGED <<kind, contracts, final, proof, row>>
  <2>1. data' \in 0..MaxData
    BY <1>1, PlatformAssumption DEF R!DataArrives, R!TypeOK, R!DocumentsAssumption
  <2> QED BY <1>1, <2>1 DEF R!DataArrives, R!TypeOK, R!contractVars, R!ContractsTypeOK
<1>2. ASSUME NEW w \in Actors, R!Begin(w)
      PROVE  R!TypeOK' /\ UNCHANGED <<kind, contracts>> /\ run'[w] # R!Idle
  <2>1. \A v \in Actors : run[v] \in R!Run
    BY RunTyped
  <2>2. \A v \in Actors : [run[v] EXCEPT !.alone = FALSE] \in R!Run
    BY <2>1 DEF R!Run
  <2>3. [step |-> "render", document |-> R!Nothing, alone |-> R!Others(w) = {}, landed |-> FALSE] \in R!Run
    BY RunTyped DEF R!Run, R!Steps
  <2>4. run' = [v \in Actors |->
          IF v = w THEN [step |-> "render", document |-> R!Nothing, alone |-> R!Others(w) = {}, landed |-> FALSE]
          ELSE [run[v] EXCEPT !.alone = FALSE]]
    BY <1>2 DEF R!Begin
  <2>5. run' \in [Actors -> R!Run]
    BY <2>2, <2>3, <2>4
  <2>6. run'[w].step = "render"
    BY <2>4
  <2>7. run'[w] # R!Idle
    BY <2>6, RunTyped
  <2>8. UNCHANGED <<R!contractVars, kind, data, staging, final, proof, row, approving>>
    BY <1>2 DEF R!Begin
  <2> QED BY <2>5, <2>7, <2>8 DEF R!TypeOK, R!contractVars, R!ContractsTypeOK
<1>3. ASSUME NEW w \in Actors, R!FindContract(w) \/ R!Render(w) \/ R!RunFails(w) \/ R!Verify(w)
      PROVE  R!TypeOK' /\ UNCHANGED <<kind, contracts, final, proof, row>>
  <2>1. R!ContractFor(PeriodStart) = R!NoneYet
    BY DEF R!ContractFor
  <2>2. /\ UNCHANGED <<R!contractVars, kind, data, staging, final, proof, row, approving>>
        /\ \/ R!End(w)
           \/ run' = [run EXCEPT ![w].step = "stage", ![w].document.data = data, ![w].document.by = R!AnyRun]
           \/ R!Goto(w, "proof")
    BY <1>3, <2>1 DEF R!FindContract, R!Render, R!RunFails, R!Verify
  <2>3. CASE R!End(w)
    BY <2>2, <2>3, RunTyped DEF R!End, R!TypeOK, R!contractVars, R!ContractsTypeOK
  <2>4. CASE run' = [run EXCEPT ![w].step = "stage", ![w].document.data = data, ![w].document.by = R!AnyRun]
    <3> DEFINE next == [run[w] EXCEPT !.step = "stage", !.document.data = data, !.document.by = R!AnyRun]
    <3>1. next \in R!Run
      <4> DEFINE doc == [run[w].document EXCEPT !.data = data, !.by = R!AnyRun]
      <4>1. doc \in R!Document
        BY RunTyped DEF R!TypeOK, R!Document
      <4>2. next = [run[w] EXCEPT !.step = "stage", !.document = doc]
        OBVIOUS
      <4> HIDE DEF doc, next
      <4>3. run[w] \in R!Run
        BY RunTyped
      <4> QED BY <4>1, <4>2, <4>3 DEF R!Run, R!Steps
    <3>2. run' = [run EXCEPT ![w] = next]
      BY <2>4
    <3> HIDE DEF next
    <3>3. run' \in [Actors -> R!Run]
      BY <3>1, <3>2, RunTyped
    <3> QED BY <2>2, <3>3 DEF R!TypeOK, R!contractVars, R!ContractsTypeOK
  <2>5. CASE R!Goto(w, "proof")
    <3>1. "proof" \in R!Steps /\ run' = [run EXCEPT ![w] = [run[w] EXCEPT !.step = "proof"]]
      BY <2>5 DEF R!Goto, R!Steps
    <3>2. run' \in [Actors -> R!Run]
      BY <3>1, RunTyped
    <3> QED BY <2>2, <3>2 DEF R!TypeOK, R!contractVars, R!ContractsTypeOK
  <2> QED BY <2>2, <2>3, <2>4, <2>5 DEF R!contractVars
<1>4. ASSUME NEW w \in Actors, R!Stage(w) \/ R!DeleteStaging(w) \/ R!PutProof(w)
      PROVE  R!TypeOK' /\ UNCHANGED <<kind, contracts>> /\ ~R!At(w, "idle")
  <2>1. PICK to \in {"copy", "verify", "upsert"} : R!Goto(w, to)
    BY <1>4 DEF R!Stage, R!DeleteStaging, R!PutProof
  <2>2. run' = [run EXCEPT ![w] = [run[w] EXCEPT !.step = to]] /\ to \in R!Steps
    BY <2>1 DEF R!Goto, R!Steps
  <2>3. run' \in [Actors -> R!Run]
    BY <2>2, RunTyped
  <2>4. /\ UNCHANGED <<R!contractVars, kind, data, final, row, approving>>
        /\ staging' \in {staging, run[w].document, R!Nothing} /\ proof' \in {proof, run[w].document}
    BY <1>4 DEF R!Stage, R!DeleteStaging, R!PutProof
  <2>5. staging' \in R!Document /\ proof' \in R!Document
    BY <2>4, RunTyped DEF R!TypeOK
  <2>6. ~R!At(w, "idle")
    BY <1>4 DEF R!Stage, R!DeleteStaging, R!PutProof, R!At
  <2> QED BY <2>3, <2>4, <2>5, <2>6 DEF R!TypeOK, R!contractVars, R!ContractsTypeOK
<1>5. ASSUME NEW w \in Actors, R!Copy(w)
      PROVE  R!TypeOK' /\ UNCHANGED <<kind, contracts>> /\ ~R!At(w, "idle")
  <2>1. UNCHANGED <<R!contractVars, kind, data, staging, proof, row, approving>> /\ ~R!At(w, "idle")
    BY <1>5 DEF R!Copy, R!At
  <2>2. CASE R!End(w) /\ UNCHANGED final
    BY <2>1, <2>2, RunTyped DEF R!End, R!TypeOK, R!contractVars, R!ContractsTypeOK
  <2>3. CASE final' = staging /\ run' = [R!Landing EXCEPT ![w].step = "unstage"]
    <3>1. \A v \in Actors : run[v] \in R!Run
      BY RunTyped
    <3>2. \A v \in Actors : [run[v] EXCEPT !.landed = TRUE] \in R!Run
      BY <3>1 DEF R!Run
    <3>3. R!Landing \in [Actors -> R!Run]
      BY <3>1, <3>2 DEF R!Landing
    <3>4. [R!Landing[w] EXCEPT !.step = "unstage"] \in R!Run
      BY <3>3 DEF R!Run, R!Steps
    <3>5. run' \in [Actors -> R!Run]
      BY <2>3, <3>3, <3>4
    <3> QED BY <2>1, <2>3, <3>5 DEF R!TypeOK, R!contractVars, R!ContractsTypeOK
  <2> QED BY <1>5, <2>2, <2>3 DEF R!Copy
<1>6. ASSUME NEW w \in Actors, R!Upsert(w)
      PROVE  R!TypeOK' /\ UNCHANGED <<kind, contracts>> /\ ~R!At(w, "idle")
  <2>1. /\ UNCHANGED <<R!contractVars, kind, data, staging, final, proof, approving>> /\ ~R!At(w, "idle")
        /\ row' = [status |-> "logged", states |-> run[w].document]
        /\ run' = [run EXCEPT ![w] = R!Idle]
    BY <1>6 DEF R!Upsert, R!Save, R!LogArchive, R!End, R!At
  <2>2. row' \in [status : R!RowStatus, states : R!Document] /\ row'.status = "logged"
    BY <2>1, RunTyped DEF R!RowStatus
  <2>3. run' \in [Actors -> R!Run]
    BY <2>1, RunTyped
  <2> QED BY <2>1, <2>2, <2>3 DEF R!TypeOK, R!contractVars, R!ContractsTypeOK
<1>7. R!DataArrives \/ \E w \in Actors : R!RunStep(w)
  BY DEF R!Next
<1> QED BY <1>1, <1>2, <1>3, <1>4, <1>5, <1>6, <1>7 DEF R!RunStep

LEMMA ReaderNext == ASSUME ReaderInv, [R!ReadersNext]_(R!readerVars) PROVE ReaderInv'
<1>0. R!TypeOK /\ reader \in R!Reader /\ kind = "archive" /\ contracts = <<>>
  BY DEF ReaderInv, R!ReadersTypeOK
<1>1. CASE /\ R!Next
           /\ reader' = [reader EXCEPT !.settled = @ /\ (\A w \in Actors : run'[w] = R!Idle)]
  <2>1. /\ R!TypeOK' /\ kind' = "archive" /\ contracts' = <<>>
        /\ (\A w \in Actors : R!At(w, "idle") /\ run'[w] = R!Idle) => UNCHANGED <<final, proof, row>>
    BY <1>0, <1>1, WorkersTyped
  <2>2. /\ reader' \in R!Reader
        /\ reader'.settled => reader.settled /\ \A w \in Actors : run'[w] = R!Idle
        /\ reader'.step = reader.step /\ reader'.recorded = reader.recorded
        /\ reader'.included = reader.included /\ reader'.timestamp = reader.timestamp
    BY <1>0, <1>1 DEF R!Reader
  <2>3. ASSUME reader'.settled PROVE UNCHANGED <<final, proof, row>> /\ \A w \in Actors : R!At(w, "idle")'
    <3>1. \A w \in Actors : R!At(w, "idle") /\ run'[w] = R!Idle
      BY <2>2, <2>3 DEF ReaderInv, SettledInv
    <3>2. \A w \in Actors : run'[w].step = "idle"
      BY <3>1 DEF R!Idle
    <3> QED BY <2>1, <3>1, <3>2 DEF R!At
  <2>4. SettledInv'
    BY <2>2, <2>3 DEF ReaderInv, SettledInv
  <2> QED BY <2>1, <2>2, <2>4 DEF ReaderInv, R!ReadersTypeOK
<1>2. ASSUME UNCHANGED R!vars, reader' \in R!Reader,
             reader'.settled =>
               /\ \A w \in Actors : R!At(w, "idle")
               /\ row.states = final /\ proof = final
               /\ reader'.step \in {"row", "object", "proof", "included"}
               /\ reader'.recorded = row.states
               /\ reader'.step \in {"object", "proof", "included"} => reader'.included = final
               /\ reader'.timestamp \in {proof, Null}
      PROVE  ReaderInv'
  <2>1. UNCHANGED <<contracts, creating, kind, data, staging, final, proof, row, run, approving>>
    BY <1>2 DEF R!vars, R!contractVars, R!documentVars
  <2>2. R!TypeOK'
    BY <1>0, <2>1 DEF R!TypeOK, R!ContractsTypeOK
  <2>3. SettledInv'
    BY <1>2, <2>1 DEF SettledInv, R!At
  <2> QED BY <1>0, <1>2, <2>1, <2>2, <2>3 DEF ReaderInv, R!ReadersTypeOK
<1>3. /\ final \in R!Document /\ proof \in R!Document /\ row.states \in R!Document
      /\ R!NoReader \in R!Reader /\ ~R!NoReader.settled
  BY <1>0 DEF R!TypeOK, R!NoReader, R!Reader
<1>4. CASE R!ReadRow
  <2>1. /\ UNCHANGED R!vars
        /\ reader' = IF row.status = "logged"
                     THEN [R!NoReader EXCEPT !.step = "row", !.recorded = row.states, !.settled = R!Quiet /\ R!Agree]
                     ELSE [R!NoReader EXCEPT !.step = "refused"]
    BY <1>4 DEF R!ReadRow
  <2>2. reader' \in R!Reader
    BY <1>3, <2>1 DEF R!Reader, R!NoReader
  <2>3. reader'.settled => /\ R!Quiet /\ R!Agree /\ reader'.step = "row" /\ reader'.recorded = row.states
                           /\ reader'.timestamp = Null
    BY <2>1 DEF R!NoReader
  <2> QED BY <1>0, <1>2, <2>1, <2>2, <2>3 DEF R!Quiet, R!Agree
<1>5. CASE R!Synthesize
  <2>1. /\ UNCHANGED R!vars
        /\ reader' = [R!NoReader EXCEPT !.step = "included", !.included = [R!Nothing EXCEPT !.data = data]]
    BY <1>5 DEF R!Synthesize
  <2>2. [R!Nothing EXCEPT !.data = data] \in R!Document
    BY <1>0 DEF R!TypeOK, R!Nothing, R!Document, R!AnyRun
  <2>3. reader' \in R!Reader /\ ~reader'.settled
    BY <2>1, <2>2 DEF R!Reader, R!NoReader
  <2> QED BY <1>2, <2>1, <2>3
<1>6. CASE R!Download
  <2>1. UNCHANGED R!vars /\ reader' = [reader EXCEPT !.step = "object", !.included = final]
    BY <1>6 DEF R!Download
  <2>2. reader' \in R!Reader
    BY <1>0, <1>3, <2>1 DEF R!Reader
  <2>3. /\ reader'.settled = reader.settled /\ reader'.step = "object" /\ reader'.included = final
        /\ reader'.recorded = reader.recorded /\ reader'.timestamp = reader.timestamp
    BY <1>0, <2>1 DEF R!Reader
  <2> QED BY <1>2, <2>1, <2>2, <2>3 DEF ReaderInv, SettledInv
<1>7. CASE R!CompareChecksum
  <2>1. /\ UNCHANGED R!vars /\ reader.step = "object"
        /\ reader' = [reader EXCEPT !.step = IF R!ChecksumMatches THEN "proof" ELSE "refused"]
    BY <1>7 DEF R!CompareChecksum
  <2>2. reader' \in R!Reader
    BY <1>0, <2>1 DEF R!Reader
  <2>3. reader.settled => R!ChecksumMatches
    BY <2>1 DEF ReaderInv, SettledInv, R!ChecksumMatches
  <2>4. /\ reader'.settled = reader.settled /\ reader'.included = reader.included
        /\ reader'.recorded = reader.recorded /\ reader'.timestamp = reader.timestamp
        /\ R!ChecksumMatches => reader'.step = "proof"
    BY <1>0, <2>1 DEF R!Reader
  <2> QED BY <1>2, <2>1, <2>2, <2>3, <2>4 DEF ReaderInv, SettledInv
<1>8. CASE R!FetchProof
  <2>1. PICK p \in {proof, Null} : reader' = [reader EXCEPT !.step = "included", !.timestamp = p]
    BY <1>8 DEF R!FetchProof
  <2>2. UNCHANGED R!vars /\ reader.step = "proof"
    BY <1>8 DEF R!FetchProof
  <2>3. reader' \in R!Reader
    BY <1>0, <1>3, <2>1 DEF R!Reader
  <2>4. /\ reader'.settled = reader.settled /\ reader'.included = reader.included
        /\ reader'.recorded = reader.recorded /\ reader'.timestamp = p /\ reader'.step = "included"
    BY <1>0, <2>1 DEF R!Reader
  <2> QED BY <1>2, <2>2, <2>3, <2>4 DEF ReaderInv, SettledInv
<1>9. CASE R!Answer
  BY <1>2, <1>3, <1>9 DEF R!Answer
<1>10. CASE UNCHANGED R!readerVars
  BY <1>0, <1>2, <1>10 DEF R!readerVars, ReaderInv, SettledInv
<1> QED BY <1>1, <1>4, <1>5, <1>6, <1>7, <1>8, <1>9, <1>10 DEF R!ReadersNext

LEMMA ReadersFollow == ReaderInv => R!SettledIsReadable
BY DEF ReaderInv, SettledInv, R!SettledIsReadable
-----------------------------------------------------------------------------
(* The sensor sources. *)

\* The probe's history ends in as many readings of its last value as have been
\* counted, and in no more.
StreakOf(h, r) ==
  /\ r.length <= Len(h)
  /\ \A i \in 1..Len(h) : i > Len(h) - r.length => h[i] = r.value
  /\ r.length < Len(h) => h[Len(h) - r.length] # r.value
  /\ r.length = 0 => r.value = Null /\ h = <<>>

SensorInv == S!TypeOK /\ StreakOf(history, repeated) /\ S!StuckIsFlagged

LEMMA SensorConstants ==
  /\ {MinValid, MaxValid, Width, ONEWIRE_FREEZE_STUCK_READS, STALE_AFTER, MaxFreeze, MaxUptime} \subseteq Nat
  /\ MinValid <= MaxValid /\ Width > MaxValid + 1 /\ ONEWIRE_FREEZE_STUCK_READS > 1
  /\ Null \notin S!Raw /\ S!Raw \subseteq Nat /\ Width - 1 \in S!Raw
BY PlatformAssumption DEF S!SensorsAssumption, S!Raw

LEMMA SensorStart == S!Init => SensorInv
<1> SUFFICES ASSUME S!Init PROVE SensorInv
  OBVIOUS
<1> USE SensorConstants DEF S!Init, S!NoRun, S!NoFrame, S!Thawed, S!NoAnswer
<1>1. <<>> \in Seq(S!Raw) /\ Len(<<>>) = 0
  OBVIOUS
<1>2. S!TypeOK
  BY <1>1 DEF S!TypeOK, S!Answer, S!COMM_ERROR
<1>3. StreakOf(history, repeated)
  BY <1>1 DEF StreakOf
<1>4. S!StuckIsFlagged
  BY DEF S!StuckIsFlagged
<1> QED BY <1>2, <1>3, <1>4 DEF SensorInv

\* A reading in range lengthens the streak, or begins another.
LEMMA StreakGrows ==
  ASSUME S!TypeOK, StreakOf(history, repeated), NEW value \in S!Raw
  PROVE  /\ S!Pushed(value) \in Seq(S!Raw) /\ Len(S!Pushed(value)) <= ONEWIRE_FREEZE_STUCK_READS
         /\ S!RunAfter(value) \in [value : S!Raw \cup {Null}, length : 0..ONEWIRE_FREEZE_STUCK_READS]
         /\ StreakOf(S!Pushed(value), S!RunAfter(value))
<1> DEFINE N == ONEWIRE_FREEZE_STUCK_READS
           h == history
           r == repeated
           longer == Append(h, value)
           next == S!Pushed(value)
           after == S!RunAfter(value)
<1>1. /\ h \in Seq(S!Raw) /\ Len(h) \in Nat /\ Len(h) <= N /\ N \in Nat /\ N > 1
      /\ r.value \in S!Raw \cup {Null} /\ r.length \in 0..N
  BY SensorConstants DEF S!TypeOK
<1>2. /\ longer \in Seq(S!Raw) /\ Len(longer) = Len(h) + 1 /\ longer[Len(h) + 1] = value
      /\ \A i \in 1..Len(h) : longer[i] = h[i]
  BY <1>1
<1>3. /\ after.value = value
      /\ after.length = IF r.value # value THEN 1 ELSE IF r.length < N THEN r.length + 1 ELSE r.length
      /\ after \in [value : S!Raw \cup {Null}, length : 0..N]
  BY <1>1 DEF S!RunAfter
<1>4. /\ r.length <= Len(h)
      /\ \A i \in 1..Len(h) : i > Len(h) - r.length => h[i] = r.value
      /\ r.length < Len(h) => h[Len(h) - r.length] # r.value
      /\ r.length = 0 => r.value = Null /\ Len(h) = 0
  BY DEF StreakOf
<1>5. value # Null
  BY SensorConstants
<1> HIDE DEF longer, next, after, h, r, N
<1>6. r.value # value /\ Len(h) > 0 => h[Len(h)] # value
  BY <1>1, <1>4
<1>7. r.value = value => r.length > 0
  BY <1>1, <1>4, <1>5
<1>8. CASE Len(h) < N
  <2>1. next = longer
    BY <1>1, <1>2, <1>8 DEF S!Pushed, longer, next, h, N
  <2>2. StreakOf(longer, after)
    <3>1. CASE r.value # value
      <4>1. after.length = 1
        BY <1>3, <3>1
      <4> QED BY <1>1, <1>2, <1>3, <1>6, <3>1, <4>1 DEF StreakOf
    <3>2. CASE r.value = value
      <4>1. after.length = r.length + 1
        BY <1>1, <1>3, <1>4, <1>8, <3>2
      <4>2. ASSUME r.length + 1 < Len(h) + 1 PROVE longer[Len(h) - r.length] # value
        <5>1. r.length < Len(h) /\ Len(h) - r.length \in 1..Len(h)
          BY <1>1, <1>7, <3>2, <4>2
        <5> QED BY <1>2, <1>4, <3>2, <5>1
      <4>3. ASSUME NEW i \in 1..Len(h) + 1, i > Len(h) - r.length PROVE longer[i] = value
        <5>1. CASE i = Len(h) + 1
          BY <1>2, <5>1
        <5>2. CASE i # Len(h) + 1
          <6>1. i \in 1..Len(h)
            BY <1>1, <5>2
          <6> QED BY <1>2, <1>4, <3>2, <4>3, <6>1
        <5> QED BY <5>1, <5>2
      <4>4. Len(longer) - after.length = Len(h) - r.length
        BY <1>1, <1>2, <4>1
      <4> QED BY <1>1, <1>2, <1>3, <1>4, <4>1, <4>2, <4>3, <4>4 DEF StreakOf
    <3> QED BY <3>1, <3>2
  <2> QED BY <1>1, <1>2, <1>3, <1>8, <2>1, <2>2 DEF next, after, N
<1>9. CASE Len(h) = N
  <2>1. next = Tail(longer)
    BY <1>1, <1>2, <1>9 DEF S!Pushed, longer, next, h, N
  <2>2. /\ next \in Seq(S!Raw) /\ Len(next) = N /\ next[N] = value
        /\ \A i \in 1..N : i < N => next[i] = h[i + 1]
    <3>1. longer # <<>> /\ \A i \in 1..N : Tail(longer)[i] = longer[i + 1]
      BY <1>1, <1>2, <1>9
    <3>2. Tail(longer) \in Seq(S!Raw) /\ Len(Tail(longer)) = N
      BY <1>1, <1>2, <1>9, <3>1
    <3> QED BY <1>1, <1>2, <1>9, <2>1, <3>1, <3>2
  <2>3. StreakOf(next, after)
    <3>1. CASE r.value # value
      <4>1. after.length = 1
        BY <1>3, <3>1
      <4>2. next[N - 1] # value
        BY <1>1, <1>6, <1>9, <2>2, <3>1
      <4> QED BY <1>1, <1>3, <2>2, <4>1, <4>2 DEF StreakOf
    <3>2. CASE r.value = value /\ r.length < N
      <4>1. after.length = r.length + 1
        BY <1>3, <3>2
      <4>2. ASSUME r.length + 1 < N PROVE next[N - (r.length + 1)] # value
        <5>1. N - (r.length + 1) \in 1..N /\ N - (r.length + 1) < N /\ N - (r.length + 1) + 1 = N - r.length
          BY <1>1, <4>2
        <5> QED BY <1>1, <1>4, <1>9, <2>2, <3>2, <5>1
      <4>3. ASSUME NEW i \in 1..N, i > N - (r.length + 1) PROVE next[i] = value
        BY <1>1, <1>4, <1>9, <2>2, <3>2, <4>3
      <4> QED BY <1>1, <1>3, <2>2, <4>1, <4>2, <4>3 DEF StreakOf
    <3>3. CASE r.value = value /\ r.length = N
      <4>1. after.length = N
        BY <1>1, <1>3, <3>3
      <4>2. ASSUME NEW i \in 1..N PROVE next[i] = value
        BY <1>1, <1>4, <1>9, <2>2, <3>3
      <4> QED BY <1>1, <1>3, <2>2, <4>1, <4>2 DEF StreakOf
    <3> QED BY <1>1, <3>1, <3>2, <3>3
  <2> QED BY <1>1, <1>3, <2>2, <2>3 DEF next, after, N
<1> QED BY <1>1, <1>8, <1>9

\* A history is stuck when the streak is as long as it may get.
LEMMA StuckIsAStreak ==
  ASSUME NEW h \in Seq(S!Raw), Len(h) <= ONEWIRE_FREEZE_STUCK_READS,
         NEW r \in [value : S!Raw \cup {Null}, length : 0..ONEWIRE_FREEZE_STUCK_READS],
         StreakOf(h, r)
  PROVE  S!Stuck(h) <=> r.length = ONEWIRE_FREEZE_STUCK_READS
<1> DEFINE N == ONEWIRE_FREEZE_STUCK_READS
<1>1. /\ N \in Nat /\ N > 1 /\ Len(h) \in Nat /\ Len(h) <= N /\ DOMAIN h = 1..Len(h)
      /\ r.length \in 0..N
  BY SensorConstants
<1> HIDE DEF N
<1>2. ASSUME S!Stuck(h) PROVE r.length = N
  <2>1. Len(h) = N
    BY <1>2 DEF S!Stuck, N
  <2>2. PICK v \in S!Raw : \A i \in 1..N : h[i] = v
    BY <1>1, <1>2, <2>1 DEF S!Stuck, S!ToSet
  <2>3. r.length > 0
    BY <1>1, <2>1 DEF StreakOf
  <2>4. h[N] = r.value
    BY <1>1, <2>1, <2>3 DEF StreakOf
  <2>5. CASE r.length < N
    <3>1. N - r.length \in 1..N
      BY <1>1, <2>3, <2>5
    <3>2. h[N - r.length] # r.value
      BY <2>1, <2>5 DEF StreakOf
    <3> QED BY <1>1, <2>2, <2>4, <3>1, <3>2
  <2> QED BY <1>1, <2>5
<1>3. ASSUME r.length = N PROVE S!Stuck(h)
  <2>1. Len(h) = N
    <3>1. r.length <= Len(h)
      BY DEF StreakOf
    <3>2. N <= Len(h)
      BY <1>3, <3>1
    <3>3. Len(h) <= N /\ N \in Nat /\ Len(h) \in Nat
      BY <1>1
    <3> QED BY <3>2, <3>3
  <2>2. \A i \in 1..N : h[i] = r.value
    BY <1>1, <1>3, <2>1 DEF StreakOf
  <2>3. h[1] \in S!Raw /\ 1 \in 1..N
    BY <1>1, <2>1
  <2>4. S!ToSet(h) = {r.value} /\ r.value \in S!Raw
    BY <1>1, <2>1, <2>2, <2>3 DEF S!ToSet
  <2> QED BY <2>1, <2>4 DEF S!Stuck, N
<1> QED BY <1>2, <1>3 DEF N

\* What an answer may be, for its type.
LEMMA SensorAnswers ==
  ASSUME NEW value \in S!Raw \cup {Null}, NEW quality \in 0..3,
         NEW origin \in {"none", "modbus", "onewire", "pms", "mock"},
         S!Answers(origin, value, quality)
  PROVE  /\ measured' \in S!Answer
         /\ measured'.source = origin /\ measured'.value = value /\ measured'.quality = quality
BY DEF S!Answers, S!Answer

LEMMA SensorNext == ASSUME SensorInv, [S!Next]_(S!vars) PROVE SensorInv'
<1>0. S!TypeOK /\ StreakOf(history, repeated) /\ S!StuckIsFlagged
  BY DEF SensorInv
<1> DEFINE Flags == {S!GOOD, S!COMM_ERROR, S!OUT_OF_RANGE, S!FROZEN}
<1>a. Flags \subseteq 0..3 /\ S!FROZEN # S!GOOD /\ S!FROZEN # S!OUT_OF_RANGE
  BY DEF S!GOOD, S!COMM_ERROR, S!OUT_OF_RANGE, S!FROZEN
<1>b. \* a step that does not touch the probe
      ASSUME UNCHANGED <<history, repeated>>, measured' = measured \/ measured'.source # "onewire"
                                              \/ measured'.value = Null
      PROVE  StreakOf(history, repeated)' /\ S!StuckIsFlagged'
  BY <1>0, <1>b DEF StreakOf, S!StuckIsFlagged, S!InRange
<1>1. CASE S!Tick \/ S!NudgeSetpoint \/ S!FrameArrives
  <2>1. UNCHANGED <<history, repeated, measured, frozen>>
    BY <1>1 DEF S!Tick, S!NudgeSetpoint, S!FrameArrives
  <2>2. uptime' \in 0..MaxUptime
    BY <1>0, <1>1, SensorConstants, SMTT(30) DEF S!TypeOK, S!Tick, S!NudgeSetpoint, S!FrameArrives
  <2>3. setpoint' \in S!Lo..S!Hi
    BY <1>0, <1>1 DEF S!TypeOK, S!Tick, S!NudgeSetpoint, S!FrameArrives
  <2>4. frame' \in [value : S!Raw \cup {Null}, at : 0..MaxUptime]
    BY <1>0, <1>1 DEF S!TypeOK, S!Tick, S!NudgeSetpoint, S!FrameArrives
  <2>5. S!TypeOK'
    BY <1>0, <2>1, <2>2, <2>3, <2>4 DEF S!TypeOK
  <2> QED BY <1>b, <2>1, <2>5 DEF SensorInv
<1>2. CASE S!ReadModbus \/ S!ReadPms \/ S!OneWireFails
  <2>1. UNCHANGED <<uptime, history, repeated, frame, frozen, setpoint>>
    BY <1>2 DEF S!ReadModbus, S!ReadPms, S!OneWireFails
  <2>2. frame.value \in S!Raw \cup {Null}
    BY <1>0 DEF S!TypeOK
  <2>3. PICK origin \in {"modbus", "pms", "onewire"}, value \in S!Raw \cup {Null}, quality \in Flags :
          S!Answers(origin, value, quality) /\ (origin = "onewire" => value = Null)
    BY <1>2, <2>2 DEF S!ReadModbus, S!ReadPms, S!OneWireFails, S!Classified, S!Decode
  <2>4. measured' \in S!Answer /\ (measured'.source # "onewire" \/ measured'.value = Null)
    BY <1>a, <2>3, SensorAnswers
  <2>5. S!TypeOK'
    BY <1>0, <2>1, <2>4 DEF S!TypeOK
  <2> QED BY <1>b, <2>1, <2>4, <2>5 DEF SensorInv
<1>3. CASE S!ReadMock
  <2>1. UNCHANGED <<uptime, history, repeated, frame, setpoint>>
    BY <1>3 DEF S!ReadMock
  <2>2. /\ frozen.value \in S!Raw \cup {Null} /\ uptime \in 0..MaxUptime
        /\ frozen \in [value : S!Raw \cup {Null}, until : 0..MaxUptime + MaxFreeze]
    BY <1>0 DEF S!TypeOK
  <2>3. S!Thawed \in [value : S!Raw \cup {Null}, until : 0..MaxUptime + MaxFreeze]
    BY SensorConstants DEF S!Thawed
  <2>4. PICK value \in S!Raw \cup {Null}, quality \in Flags : S!Answers("mock", value, quality)
    BY <1>3, <2>2, SensorConstants DEF S!ReadMock
  <2>5. measured' \in S!Answer /\ measured'.source # "onewire"
    BY <1>a, <2>4, SensorAnswers
  <2>6. \/ frozen' = frozen \/ frozen' = S!Thawed
        \/ \E v \in S!Raw, d \in 1..MaxFreeze : frozen' = [value |-> v, until |-> uptime + d]
    BY <1>3 DEF S!ReadMock
  <2>7. frozen' \in [value : S!Raw \cup {Null}, until : 0..MaxUptime + MaxFreeze]
    BY <2>2, <2>3, <2>6, SensorConstants
  <2>8. S!TypeOK'
    BY <1>0, <2>1, <2>5, <2>7 DEF S!TypeOK
  <2> QED BY <1>b, <2>1, <2>5, <2>8 DEF SensorInv
<1>4. CASE S!ReadOneWire
  <2>1. PICK value \in S!Raw :
          /\ history' = IF S!Remembered(value) THEN S!Pushed(value) ELSE history
          /\ repeated' = IF S!InRange(value) THEN S!RunAfter(value) ELSE repeated
          /\ IF S!InRange(value) /\ S!Stuck(history')
             THEN S!Answers("onewire", value, S!FROZEN)
             ELSE S!Classified("onewire", value)
    BY <1>4 DEF S!ReadOneWire
  <2>2. UNCHANGED <<uptime, frame, frozen, setpoint>>
    BY <1>4 DEF S!ReadOneWire
  <2>3. /\ history' \in Seq(S!Raw) /\ Len(history') <= ONEWIRE_FREEZE_STUCK_READS
        /\ repeated' \in [value : S!Raw \cup {Null}, length : 0..ONEWIRE_FREEZE_STUCK_READS]
        /\ StreakOf(history', repeated')
    <3>1. CASE S!InRange(value)
      BY <1>0, <2>1, <3>1, StreakGrows DEF S!Remembered
    <3>2. CASE ~S!InRange(value)
      <4>1. history' = history /\ repeated' = repeated
        BY <2>1, <3>2 DEF S!Remembered
      <4> QED BY <1>0, <4>1 DEF S!TypeOK
    <3> QED BY <3>1, <3>2
  <2>4. S!Stuck(history') <=> repeated'.length = ONEWIRE_FREEZE_STUCK_READS
    BY <2>3, StuckIsAStreak
  <2>5. PICK quality \in Flags :
          /\ S!Answers("onewire", value, quality)
          /\ quality = S!FROZEN <=> S!InRange(value) /\ S!Stuck(history')
    BY <1>a, <2>1 DEF S!Classified
  <2>6. /\ measured' \in S!Answer
        /\ measured'.value = value /\ measured'.quality = quality
    BY <1>a, <2>5, SensorAnswers
  <2>7. S!TypeOK'
    BY <1>0, <2>2, <2>3, <2>6 DEF S!TypeOK
  <2>8. S!StuckIsFlagged'
    BY <2>4, <2>5, <2>6 DEF S!StuckIsFlagged
  <2> QED BY <2>3, <2>7, <2>8 DEF SensorInv
<1>5. CASE S!Restart
  <2>1. history' = <<>> /\ repeated' = S!NoRun /\ UNCHANGED <<uptime, setpoint>>
        /\ frame' = S!NoFrame /\ frozen' = S!Thawed /\ measured' = S!NoAnswer
    BY <1>5 DEF S!Restart
  <2>2. <<>> \in Seq(S!Raw) /\ Len(<<>>) = 0
    OBVIOUS
  <2>3. S!TypeOK'
    BY <1>0, <2>1, <2>2, SensorConstants, SMTT(30)
       DEF S!TypeOK, S!NoRun, S!NoFrame, S!Thawed, S!NoAnswer, S!Answer, S!COMM_ERROR
  <2>4. StreakOf(<<>>, S!NoRun)
    BY <2>2 DEF StreakOf, S!NoRun
  <2>5. S!StuckIsFlagged'
    BY <2>1 DEF S!StuckIsFlagged, S!NoAnswer
  <2> QED BY <2>1, <2>3, <2>4, <2>5 DEF SensorInv
<1>6. CASE UNCHANGED S!vars
  <2>1. UNCHANGED <<uptime, history, repeated, frame, frozen, setpoint, measured>>
    BY <1>6 DEF S!vars
  <2>2. S!TypeOK'
    BY <1>0, <2>1 DEF S!TypeOK
  <2> QED BY <1>b, <2>1, <2>2 DEF SensorInv
<1> QED BY <1>1, <1>2, <1>3, <1>4, <1>5, <1>6 DEF S!Next
-----------------------------------------------------------------------------
(* The platform: every step is of one module, so its invariants go together. *)

PlatformInv ==
  /\ ReaderInv /\ ClockInv /\ C!TypeOK /\ SensorInv /\ LoginInv
  /\ AccountInv /\ A!TypeOK /\ TripInv
  /\ DocumentInv /\ D!TypeOK /\ FeedInv
  /\ RunsInv /\ ManifestInv /\ P!TypeOK

LEMMA PlatformStart == Init => PlatformInv
<1> SUFFICES ASSUME Init PROVE PlatformInv
  OBVIOUS
<1>1. /\ R!ReadersInit /\ C!Init /\ S!Init /\ L!Init /\ A!Init /\ T!Init /\ D!Init
      /\ W!Init /\ P!Init
  BY DEF Init
<1>2. C!EdgeClockAssumption /\ A!AccountsAssumption /\ P!ProvisioningAssumption
  BY PlatformAssumption
<1>3. ReaderInv /\ ClockInv /\ SensorInv /\ LoginInv /\ TripInv /\ FeedInv /\ RunsInv
  BY <1>1, <1>2, ReaderStart, ClockStart, SensorStart, LoginStart, TripStart, FeedStart, RunsInit
<1>4. <<>> \in Seq(C!Stamp) /\ Len(<<>>) = 0
  OBVIOUS
<1>5. C!TypeOK
  BY <1>1, <1>2, <1>4 DEF C!Init, C!TypeOK, C!EdgeClockAssumption, C!Time, C!Stamp, C!Never
<1>6. AccountInv /\ A!TypeOK
  BY <1>1, <1>2 DEF A!Init, AccountInv, A!TypeOK, A!Idle
<1>7. DocumentInv /\ D!TypeOK
  BY <1>1 DEF D!Init, DocumentInv, D!TypeOK
<1>8. ManifestInv
  BY <1>1 DEF P!Init, ManifestInv
<1>9. P!TypeOK
  BY <1>1, <1>2 DEF P!Init, P!TypeOK, P!Steps, P!Files, P!Version, P!ProvisioningAssumption
<1> QED BY <1>3, <1>5, <1>6, <1>7, <1>8, <1>9 DEF PlatformInv

LEMMA PlatformNext == ASSUME PlatformInv, [Next]_vars PROVE PlatformInv'
<1>1. /\ [R!ReadersNext]_(R!readerVars) /\ [C!Next]_(C!vars) /\ [S!Next]_(S!vars)
      /\ [L!Next]_(L!vars) /\ [A!Next]_(A!vars) /\ [T!Next]_(T!vars)
      /\ [D!Next]_(D!vars) /\ [W!Next]_(W!vars) /\ [P!Next]_(P!vars)
  BY PlatformSteps
<1>2. C!EdgeClockAssumption /\ A!AccountsAssumption /\ P!ProvisioningAssumption
  BY PlatformAssumption
<1>3. ReaderInv' /\ SensorInv' /\ LoginInv' /\ TripInv' /\ FeedInv'
  BY <1>1, ReaderNext, SensorNext, LoginNext, TripNext, FeedNext DEF PlatformInv
<1>4. ClockInv' /\ C!TypeOK'
  BY <1>1, <1>2, ClockNext, ClockTypes DEF PlatformInv
<1>5. AccountInv'
  BY <1>1, <1>2, AccountStep DEF PlatformInv
<1>6. A!TypeOK'
  BY <1>1, <1>5, AccountTypes DEF PlatformInv
<1>7. DocumentInv' /\ D!TypeOK'
  BY <1>1, DocumentStep, DocumentTypes DEF PlatformInv
<1>8. RunsInv' /\ ManifestInv' /\ P!TypeOK'
  BY <1>1, <1>2, RunsStep, ManifestStep, ScriptTypes DEF PlatformInv
<1> QED BY <1>3, <1>4, <1>5, <1>6, <1>7, <1>8 DEF PlatformInv

\* The variables of each module keep their types, for every value of the
\* bounds.
THEOREM PlatformTypeCorrect == Spec => []TypeOK
<1>1. PlatformInv => TypeOK
  BY DEF PlatformInv, TypeOK, ReaderInv, SensorInv, LoginInv, TripInv, FeedInv
<1>2. Init => PlatformInv
  BY PlatformStart
<1>3. PlatformInv /\ [Next]_vars => PlatformInv'
  BY PlatformNext
<1> QED BY <1>1, <1>2, <1>3, PTL DEF Spec

\* For any number of runs and readers' steps between theirs: once a run has
\* brought row, object and proof into agreement, and until another begins, the
\* drill and the export are given the document, and with its own proof if with
\* any (restore_drill.py:68-141, admin_mrv.py:128-195).
THEOREM SettledCanBeRead == Spec => []SettledIsReadable
<1>1. PlatformInv => SettledIsReadable
  BY ReadersFollow DEF PlatformInv, SettledIsReadable
<1>2. Init => PlatformInv
  BY PlatformStart
<1>3. PlatformInv /\ [Next]_vars => PlatformInv'
  BY PlatformNext
<1> QED BY <1>1, <1>2, <1>3, PTL DEF Spec

\* For any tolerance, clock and number of restarts: no cycle is given a time
\* further back than the tolerance before the latest any cycle was given,
\* while watermarks reach the disk (clock.py:151-194).
THEOREM TolerancesDoNotAddUp ==
  /\ C!Spec => []C!ClockNeverFarBack
  /\ Spec => []ClockNeverFarBack
<1>1. C!EdgeClockAssumption
  BY PlatformAssumption
<1>2. C!Init => ClockInv
  BY <1>1, ClockStart
<1>3. ClockInv /\ [C!Next]_C!vars => ClockInv'
  BY <1>1, ClockNext
<1>4. ClockInv => C!ClockNeverFarBack /\ ClockNeverFarBack
  BY DEF ClockInv, ClockNeverFarBack
<1>5. Init => C!Init
  BY DEF Init
<1>6. [Next]_vars => [C!Next]_C!vars
  BY PlatformSteps
<1> QED BY <1>2, <1>3, <1>4, <1>5, <1>6, PTL DEF C!Spec, Spec

\* For any limits, windows, addresses and interleaving of logins: no address
\* gets more logins through in any span of the window than allowed, and the
\* failures of an email, with those that may still come, exceed their limit by
\* no more than the logins at once (ratelimit.py:38-107).
THEOREM LoginsAreLimited == Spec => []AttemptsAreLimited
<1>1. PlatformInv => AttemptsAreLimited
  BY LoginsFollow DEF PlatformInv, AttemptsAreLimited
<1>2. Init => PlatformInv
  BY PlatformStart
<1>3. PlatformInv /\ [Next]_vars => PlatformInv'
  BY PlatformNext
<1> QED BY <1>1, <1>2, <1>3, PTL DEF Spec

LEMMA InvariantHolds == Spec => []PlatformInv
<1>1. Init => PlatformInv
  BY PlatformStart
<1>2. PlatformInv /\ [Next]_vars => PlatformInv'
  BY PlatformNext
<1> QED BY <1>1, <1>2, PTL DEF Spec

\* Whatever fails, is retried or overlaps: an answered webhook has its tasks and
\* an answered stop has ended its trip; an answered document has its row and its
\* whole object until a deletion has got to the object; a socket that stays open
\* has been sent what it is due, once and in order; and a device's files belong
\* together after a run of the provisioning script that succeeds undisturbed, and
\* its daemon never boots with an older manifest than before.
THEOREM AnswersAreKept == Spec => []NothingIsLost
<1>1. PlatformInv => TripsAreKept /\ DocumentsAreKept /\ FeedIsWhole
  <2>1. TripInv => T!AnsweredIsKept
    BY DEF TripInv, T!AnsweredIsKept
  <2>2. DocumentInv => D!AnsweredIsKept
    BY DEF DocumentInv, D!AnsweredIsKept
  <2> QED BY <2>1, <2>2 DEF PlatformInv, FeedInv, TripsAreKept, DocumentsAreKept, FeedIsWhole
<1>2. PlatformInv => LastRunMends /\ ManifestNeverGoesBack
  BY DEF PlatformInv, RunsInv, ManifestInv, P!ManifestNeverGoesBack, LastRunMends, ManifestNeverGoesBack
<1>3. PlatformInv => NothingIsLost
  BY <1>1, <1>2 DEF NothingIsLost
<1> QED BY <1>3, InvariantHolds, PTL

\* For any range, history length and sequence of readings, failed ones among
\* them: a probe is flagged frozen exactly when its last readings in range were
\* equal, as many as the code counts (mockgen.py:377-387).
THEOREM StuckProbeIsFlagged == Spec => []StuckIsFlagged
<1>1. PlatformInv => StuckIsFlagged
  BY DEF PlatformInv, SensorInv, StuckIsFlagged
<1> QED BY <1>1, InvariantHolds, PTL

\* For any number of administrators, guests, plants and invites: an account
\* keeps plants that go with its role, unless the role changes between look
\* and write; a password was set by a spent invite (admin_tenants.py:338-408).
THEOREM AccountsKeepTheirScope ==
  /\ A!Spec => A!ScopeFollowsRole
  /\ Spec => ScopeFollowsRole
<1>1. A!AccountsAssumption
  BY PlatformAssumption
<1>2. A!Init => AccountInv
  BY <1>1 DEF A!Init, AccountInv, A!Idle
<1>3. AccountInv /\ [A!Next]_A!vars => AccountInv'
  BY <1>1, AccountStep
<1>4. AccountInv => (user # Null => \A i \in Invites : user.password = i => invites[i] = "used")
  BY DEF AccountInv
<1>5. AccountInv /\ [A!Next]_A!vars
        => [(/\ A!ScopeMatches
             /\ \A a \in Actors : admin[a].step = "found" => admin[a].role = user.role)
              => A!ScopeMatches']_A!vars
  BY <1>1, ScopeStep
<1>6. Init => A!Init
  BY DEF Init
<1>7. [Next]_vars => [A!Next]_A!vars
  BY PlatformSteps
<1> QED BY <1>2, <1>3, <1>4, <1>5, <1>6, <1>7, PTL
        DEF A!Spec, Spec, ScopeFollowsRole, A!ScopeFollowsRole

LEMMA FiguresStay == ASSUME F!FiguresAgree, UNCHANGED F!vars PROVE F!FiguresAgree'
<1>1. asked' = asked /\ answer' = answer
  BY DEF F!vars
<1>2. F!FlaggedHoursAreNotBilled'
  BY <1>1 DEF F!FiguresAgree, F!FlaggedHoursAreNotBilled, F!Asked
<1>3. F!MorePerformanceNeverCostsLess'
  BY <1>1 DEF F!FiguresAgree, F!MorePerformanceNeverCostsLess, F!Asked
<1>4. F!TaxAddsUp'
  BY <1>1 DEF F!FiguresAgree, F!TaxAddsUp, F!Asked
<1>5. F!VoucherFollowsInvoice'
  BY <1>1 DEF F!FiguresAgree, F!VoucherFollowsInvoice, F!Asked
<1>6. F!WordsReadBack'
  BY <1>1 DEF F!FiguresAgree, F!WordsReadBack, F!Asked, F!SelectInSeq
<1>7. F!MonthsFollowEachOther'
  BY <1>1 DEF F!FiguresAgree, F!MonthsFollowEachOther, F!Asked
<1> QED BY <1>2, <1>3, <1>4, <1>5, <1>6, <1>7 DEF F!FiguresAgree

\* For any amounts, rates, contracts, years and hours: taxes add up to what is
\* charged on the amount, and a voucher is off by what its invoice is, which the
\* match bounds, but for an odd paisa (erp_calc.py, tally.py); an amount, in words or in groups, reads as itself;
\* more capture and more uptime never cost more of the fee, and what is flagged
\* is not billed (billing_worker.py); fiscal years turn in April, and the month
\* before this one ends where it begins.
THEOREM FiguresAddUp == Spec => []F!FiguresAgree
<1>1. Init => F!FiguresAgree
  BY DEF Init, F!Init, F!NoFigure, F!Asked, F!FiguresAgree, F!TaxAddsUp, F!VoucherFollowsInvoice,
         F!MorePerformanceNeverCostsLess, F!MonthsFollowEachOther,
         F!FlaggedHoursAreNotBilled, F!WordsReadBack
<1>2. F!FiguresAgree /\ [Next]_vars => F!FiguresAgree'
  <2> SUFFICES ASSUME F!FiguresAgree, [Next]_vars PROVE F!FiguresAgree'
    OBVIOUS
  <2>1. CASE F!Next
    <3>1. /\ F!FlaggedHoursAreNotBilled' /\ F!MorePerformanceNeverCostsLess' /\ F!TaxAddsUp'
          /\ F!VoucherFollowsInvoice' /\ F!WordsReadBack' /\ F!MonthsFollowEachOther'
      BY <2>1, BillStep, ItemsStep, TaxStep, VoucherStep, WordsStep, DateStep
    <3> QED BY <3>1 DEF F!FiguresAgree
  <2>2. CASE UNCHANGED F!vars
    BY <2>2, FiguresStay
  <2> QED BY <2>1, <2>2, PlatformSteps
<1> QED BY <1>1, <1>2, PTL DEF Spec

LEMMA JudgementsStay == ASSUME J!JudgementsAgree, UNCHANGED J!vars PROVE J!JudgementsAgree'
<1>1. question' = question /\ conclusion' = conclusion
  BY DEF J!vars
<1>2. J!KpisAreBacked' /\ J!RiskFollows' /\ J!ColourFollows'
  BY <1>1 DEF J!JudgementsAgree, J!KpisAreBacked, J!RiskFollows, J!ColourFollows, J!Asked
<1>3. J!FrozenIsNoticed'
  BY <1>1 DEF J!JudgementsAgree, J!FrozenIsNoticed, J!Asked
<1>4. J!DeviationIsBounded'
  BY <1>1 DEF J!JudgementsAgree, J!DeviationIsBounded, J!Asked
<1>5. J!WiderNeverFires'
  BY <1>1 DEF J!JudgementsAgree, J!WiderNeverFires, J!Asked
<1>6. J!DrainingIsSeen'
  BY <1>1 DEF J!JudgementsAgree, J!DrainingIsSeen, J!Asked
<1>7. J!MetricsAreOfRows'
  BY <1>1 DEF J!JudgementsAgree, J!MetricsAreOfRows, J!Asked
<1> QED BY <1>2, <1>3, <1>4, <1>5, <1>6, <1>7 DEF J!JudgementsAgree

\* For any readings, counts and freshness: a KPI is computed from fresh readings
\* and flagged no better than they are (kpi_worker.py:110-166); a rule fires on
\* what its readings show, and less readily with a wider threshold
\* (alarm_engine.py); a tank that drains is seen to; a plant that does worse has
\* no lower risk, which stays within 100, and no better a colour; a metric is of
\* the rows it counts (admin_risk.py, admin_fleet.py, admin_metrics.py).
THEOREM JudgementsAreFair == Spec => []J!JudgementsAgree
<1>1. Init => J!JudgementsAgree
  BY DEF Init, J!Init, J!NoQuestion, J!Asked, J!JudgementsAgree, J!KpisAreBacked, J!RiskFollows,
         J!ColourFollows, J!FrozenIsNoticed, J!DeviationIsBounded, J!WiderNeverFires,
         J!DrainingIsSeen, J!MetricsAreOfRows
<1>2. J!JudgementsAgree /\ [Next]_vars => J!JudgementsAgree'
  <2> SUFFICES ASSUME J!JudgementsAgree, [Next]_vars PROVE J!JudgementsAgree'
    OBVIOUS
  <2>1. CASE J!Next
    <3>1. /\ J!KpisAreBacked' /\ J!FrozenIsNoticed' /\ J!DeviationIsBounded' /\ J!WiderNeverFires'
          /\ J!RiskFollows' /\ J!ColourFollows' /\ J!DrainingIsSeen' /\ J!MetricsAreOfRows'
      BY <2>1, KpiStep, FrozenStep, DeviationStep, WiderStep, ScoreStep, ColourStep, DrainStep, MetricStep
    <3> QED BY <3>1 DEF J!JudgementsAgree
  <2>2. CASE UNCHANGED J!vars
    BY <2>2, JudgementsStay
  <2> QED BY <2>1, <2>2, PlatformSteps
<1> QED BY <1>1, <1>2, PTL DEF Spec

\* As the run checks them: bills, money and what is printed, the conditions of
\* rules and what is concluded about plants, and probes that repeat themselves.
THEOREM FiguresAreRight == Spec => []FiguresAgree
<1>1. F!FiguresAgree => BillsAreFair /\ MoneyAddsUp /\ PrintReadsBack
  BY DEF F!FiguresAgree, BillsAreFair, MoneyAddsUp, PrintReadsBack
<1>2. J!JudgementsAgree => RulesFireRightly /\ PlantsAreJudgedRightly
  BY DEF J!JudgementsAgree, RulesFireRightly, PlantsAreJudgedRightly
<1>3. (F!FiguresAgree /\ J!JudgementsAgree /\ StuckIsFlagged) => FiguresAgree
  BY <1>1, <1>2 DEF FiguresAgree
<1> QED BY <1>3, FiguresAddUp, JudgementsAreFair, StuckProbeIsFlagged, PTL
===============================================================================
