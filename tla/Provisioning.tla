---------------------------- MODULE Provisioning ----------------------------
(***************************************************************************)
(* What a device gets before its daemon polls: the files and credentials   *)
(* of one plant's device, written by runs of scripts/provision_pi.py that  *)
(* may fail, die or overlap; and the sensor manifest a daemon boots with   *)
(* (edge/manifest.py), from the database or from a cached file.  A file is *)
(* known by the run that wrote it, a manifest by its version.              *)
(***************************************************************************)
EXTENDS Naturals

CONSTANTS
  Runs,         \* runs of the script, each with its own keys and password
  MaxVersion,   \* bound: changes of the manifest
  None

ProvisioningAssumption == MaxVersion \in Nat \ {0} /\ None \notin Runs

VARIABLES
  step,        \* how far each run is
  written,     \* the run whose wg0.conf, peer stanza, edge.env, device.json stand
  passwd,      \* the run whose password the passwd file has for the device
  broker,      \* ... and that the running broker has loaded
  registered,  \* whether mqtt_status of each run says registered
  disturbed,   \* the runs that overlapped another (for the properties)
  standing,    \* the undisturbed run that ended last (for the properties)
  source, cache, booted,  \* versions: sensors table, cache file (0: none
                           \* that can be read), the daemon (0: not running)
  highest      \* the highest booted with (for the properties)

scripts_ == <<step, written, passwd, broker, registered, disturbed, standing>>
boots_   == <<source, cache, booted, highest>>
vars     == <<scripts_, boots_>>

Files == {"wg0.conf", "stanza", "edge.env", "device.json"}
Steps == {"idle", "keys", "stanza", "register", "env", "summary", "done", "failed"}
Version == 1..MaxVersion

TypeOK ==
  /\ step \in [Runs -> Steps]
  /\ written \in [Files -> Runs \cup {None}]
  /\ {passwd, broker, standing} \subseteq Runs \cup {None}
  /\ registered \in [Runs -> BOOLEAN]
  /\ disturbed \subseteq Runs
  /\ source \in Version
  /\ cache \in {0} \cup Version
  /\ booted \in {0} \cup Version /\ highest \in {0} \cup Version

Init ==
  /\ step = [r \in Runs |-> "idle"]
  /\ written = [f \in Files |-> None]
  /\ passwd = None /\ broker = None /\ standing = None
  /\ registered = [r \in Runs |-> FALSE]
  /\ disturbed = {}
  /\ source = 1 /\ cache = 0 /\ booted = 0 /\ highest = 0

-----------------------------------------------------------------------------

UnderWay == {r \in Runs : step[r] \notin {"idle", "done", "failed"}}

Goes(r, to) == step' = [step EXCEPT ![r] = to]
Writes(r, file) == written' = [written EXCEPT ![file] = r]

Begin(r) ==
  /\ step[r] = "idle"
  /\ Goes(r, "keys")
  /\ disturbed' = IF UnderWay = {} THEN disturbed ELSE disturbed \cup UnderWay \cup {r}
  /\ standing' = None
  /\ UNCHANGED <<written, passwd, broker, registered, boots_>>

(* wg_genkey: the key pair goes to two files. *)
WriteKeys(r) ==
  /\ \/ step[r] = "keys" /\ Writes(r, "wg0.conf") /\ Goes(r, "stanza")
     \/ step[r] = "stanza" /\ Writes(r, "stanza") /\ Goes(r, "register")
  /\ UNCHANGED <<passwd, broker, registered, disturbed, standing, boots_>>

Skip(r) ==
  /\ step[r] = "register" /\ Goes(r, "env")
  /\ UNCHANGED <<written, passwd, broker, registered, disturbed, standing, boots_>>

(* register_mqtt_device: the local script, which restarts nothing; else a  *)
(* container, and a restart of the broker, of which nobody looks whether   *)
(* it worked.                                                              *)
RegisterDevice(r) ==
  /\ step[r] = "register" /\ Goes(r, "env")
  /\ passwd' = r
  /\ broker' \in {broker, r}
  /\ registered' = [registered EXCEPT ![r] = TRUE]
  /\ UNCHANGED <<written, disturbed, standing, boots_>>

(* A plausible bug: that the last way failed is not looked at. *)
GoesOn(r) == Goes(r, "env") /\ registered' = [registered EXCEPT ![r] = TRUE]

GivesUp(r) == Goes(r, "failed") /\ UNCHANGED registered

(* All ways fail: an exception ends the run. *)
CannotRegister(r) ==
  /\ step[r] = "register"
  /\ GivesUp(r)
  /\ UNCHANGED <<written, passwd, broker, disturbed, standing, boots_>>

WriteEnv(r) ==
  /\ step[r] = "env" /\ Writes(r, "edge.env") /\ Goes(r, "summary")
  /\ UNCHANGED <<passwd, broker, registered, disturbed, standing, boots_>>

(* device.json, the static files, and the run exits with 0. *)
WriteSummary(r) ==
  /\ step[r] = "summary" /\ Writes(r, "device.json") /\ Goes(r, "done")
  /\ standing' = IF r \in disturbed THEN standing ELSE r
  /\ UNCHANGED <<passwd, broker, registered, disturbed, boots_>>

(* The run is killed, or a way of registering times out: it may have done  *)
(* its work, without the restart.  (What a container left behind might     *)
(* still do later is not modelled.)                                        *)
Die(r) ==
  /\ r \in UnderWay
  /\ Goes(r, "failed")
  /\ passwd' \in IF step[r] = "register" THEN {passwd, r} ELSE {passwd}
  /\ UNCHANGED <<written, broker, registered, disturbed, standing, boots_>>

(* The broker's container is restarted by somebody else. *)
RestartBroker ==
  /\ broker' = passwd
  /\ UNCHANGED <<step, written, passwd, registered, disturbed, standing, boots_>>

-----------------------------------------------------------------------------

(* A sensor is added to the plant, or changed. *)
ChangeSensors ==
  /\ source < MaxVersion /\ source' = source + 1
  /\ UNCHANGED <<cache, booted, highest, scripts_>>

(* A plausible bug: what is cached is not written again. *)
CachedOnce == IF cache = 0 THEN source ELSE cache

Cached == source

(* The daemon boots with a version, which goes over to highest. *)
BootWith(v) ==
  /\ booted' = v
  /\ highest' = IF v > highest THEN v ELSE highest

(* load_manifest: fetched, and cached, ...                                 *)
BootFromSource ==
  /\ booted = 0
  /\ cache' = Cached /\ BootWith(source)
  /\ UNCHANGED <<source, scripts_>>

(* ... or the fetch fails, says nothing of the plant, or cannot be cached, *)
(* and the cache is read ...                                               *)
BootFromCache ==
  /\ booted = 0 /\ cache # 0
  /\ BootWith(cache)
  /\ UNCHANGED <<source, cache, scripts_>>

(* ... unless the process dies, or the disk is full, while it is written.  *)
TearCache ==
  /\ booted = 0
  /\ cache' = 0
  /\ UNCHANGED <<source, booted, highest, scripts_>>

Shutdown ==
  /\ booted # 0 /\ booted' = 0
  /\ UNCHANGED <<source, cache, highest, scripts_>>

ScriptsNext ==
  \/ RestartBroker
  \/ \E r \in Runs :
       \/ Begin(r) \/ WriteKeys(r) \/ Skip(r) \/ RegisterDevice(r) \/ CannotRegister(r)
       \/ WriteEnv(r) \/ WriteSummary(r) \/ Die(r)

BootsNext == ChangeSensors \/ BootFromSource \/ BootFromCache \/ TearCache \/ Shutdown

Next == ScriptsNext \/ BootsNext

Spec == Init /\ [][Next]_vars

-----------------------------------------------------------------------------

(* Whatever runs failed, died or overlapped before it, a run that is       *)
(* undisturbed and exits with 0 leaves files that belong together, and     *)
(* a password the broker takes once it has been restarted, if device.json  *)
(* says that it was registered (provision_pi.py:335-445).                  *)
LastRunMends ==
  standing # None =>
    /\ \A f \in Files : written[f] = standing
    /\ registered[standing] => passwd = standing

(* A daemon that boots, from the source or from its cache, never has an    *)
(* older manifest than the one it ran with before (manifest.py:96-123).    *)
ManifestNeverGoesBack == booted # 0 => booted = highest
==============================================================================
