------------------------------- MODULE Sensors -------------------------------
(***************************************************************************)
(* The sensor sources of an edge unit (edge/mockgen.py): a Modbus register, *)
(* a DS18B20 probe on the 1-Wire bus, a PMS7003 dust sensor that sends     *)
(* frames of its own accord, and the simulator with its drive setpoint.    *)
(* Each read answers with a value, or none, and a quality flag             *)
(* (shared/quality.py).  One sensor of each kind is followed: they share   *)
(* nothing but the clock.                                                  *)
(***************************************************************************)
EXTENDS Integers, Sequences, SequencesExt

CONSTANTS
  MinValid, MaxValid,          \* the sensor's range in the manifest
  Width,                       \* 2^16 values of a register, or fewer
  ONEWIRE_FREEZE_STUCK_READS,
  STALE_AFTER,                 \* stale_after_s
  MaxFreeze,                   \* bound: how long the simulator freezes
  MaxTime,                     \* bound: the clock
  NoValue                      \* None

SensorsAssumption ==
  /\ MinValid \in Nat /\ MaxValid \in Nat /\ MinValid <= MaxValid
  /\ {Width, ONEWIRE_FREEZE_STUCK_READS, STALE_AFTER, MaxFreeze, MaxTime} \subseteq Nat
  /\ ONEWIRE_FREEZE_STUCK_READS > 1 /\ Width > MaxValid + 1
  /\ NoValue \notin Int

VARIABLES
  now,       \* time.monotonic()
  history,   \* what the probe's deque holds
  run,       \* what the probe last said in range, and how often in a row (for the properties)
  frame,     \* the last good frame of the dust sensor, and when it came
  frozen,    \* until when the simulator is frozen, and at which value
  setpoint,  \* the simulated register
  answer     \* the last answer of any source

vars == <<now, history, run, frame, frozen, setpoint, answer>>

GOOD == 0  COMM_ERROR == 1  OUT_OF_RANGE == 2  FROZEN == 3

Raw      == 0..Width - 1      \* below, in and above the range
Lo       == MinValid
Hi       == MaxValid
NoFrame  == [value |-> NoValue, at |-> 0]
NoRun    == [value |-> NoValue, length |-> 0]
NoAnswer == [source |-> "none", value |-> NoValue, quality |-> COMM_ERROR]
Thawed   == [value |-> NoValue, until |-> 0]
Answer   == [source : {"none", "modbus", "onewire", "pms", "mock"},
             value : Raw \cup {NoValue}, quality : 0..3]

TypeOK ==
  /\ now \in 0..MaxTime
  /\ history \in Seq(Raw) /\ Len(history) <= ONEWIRE_FREEZE_STUCK_READS
  /\ run \in [value : Raw \cup {NoValue}, length : 0..ONEWIRE_FREEZE_STUCK_READS]
  /\ frame \in [value : Raw \cup {NoValue}, at : 0..MaxTime]
  /\ frozen \in [value : Raw \cup {NoValue}, until : 0..MaxTime + MaxFreeze]
  /\ setpoint \in Lo..Hi
  /\ answer \in Answer

Init ==
  /\ now = 0
  /\ history = <<>> /\ run = NoRun
  /\ frame = NoFrame
  /\ frozen = Thawed
  /\ setpoint \in Lo..Hi
  /\ answer = NoAnswer

Tick ==
  /\ now < MaxTime
  /\ now' = now + 1
  /\ UNCHANGED <<history, run, frame, frozen, setpoint, answer>>

Answers(source, value, quality) ==
  answer' = [source |-> source, value |-> value, quality |-> quality]

InRange(value) == value \in MinValid..MaxValid

Classified(source, value) ==
  Answers(source, value, IF InRange(value) THEN GOOD ELSE OUT_OF_RANGE)

(* _decode of one register: the number as it stands, whatever its datatype *)
(* is said to be; a read that fails anywhere is a comm error.              *)
Decode(register) == register

ReadModbus ==
  /\ \/ Answers("modbus", NoValue, COMM_ERROR)
     \/ \E register \in Raw : Classified("modbus", Decode(register))
  /\ UNCHANGED <<now, history, run, frame, frozen, setpoint>>

(* A plausible bug: what is out of range enters the history, too.          *)
Remembers(value) == TRUE

Remembered(value) == InRange(value)

(* A plausible bug: a list, without the length of a deque.                 *)
Lengthened(value) == Append(history, value)

(* deque(maxlen) *)
Pushed(value) ==
  LET longer == Append(history, value)
  IN  IF Len(longer) > ONEWIRE_FREEZE_STUCK_READS THEN Tail(longer) ELSE longer

Stuck(h) == Len(h) = ONEWIRE_FREEZE_STUCK_READS /\ \E value \in Raw : ToSet(h) = {value}

RunAfter(value) ==
  [value |-> value,
   length |-> IF run.value # value THEN 1
              ELSE IF run.length < ONEWIRE_FREEZE_STUCK_READS THEN run.length + 1
              ELSE run.length]

(* The probe is missing, or its checksum is wrong ... *)
OneWireFails ==
  /\ Answers("onewire", NoValue, COMM_ERROR)
  /\ UNCHANGED <<now, history, run, frame, frozen, setpoint>>

(* ... or it has answered. *)
ReadOneWire ==
  /\ \E value \in Raw :
       /\ history' = IF Remembered(value) THEN Pushed(value) ELSE history
       /\ run' = IF InRange(value) THEN RunAfter(value) ELSE run
       /\ IF InRange(value) /\ Stuck(history')
          THEN Answers("onewire", value, FROZEN)
          ELSE Classified("onewire", value)
  /\ UNCHANGED <<now, frame, frozen, setpoint>>

(* _reader_loop: a frame whose checksum is right is kept with its time; a  *)
(* broken one, or a port that has to be opened again, leaves the last one. *)
FrameArrives ==
  /\ \E value \in Raw : frame' = [value |-> value, at |-> now]
  /\ UNCHANGED <<now, history, run, frozen, setpoint, answer>>

ReadPms ==
  /\ IF frame = NoFrame \/ now > frame.at + STALE_AFTER
     THEN Answers("pms", NoValue, COMM_ERROR)
     ELSE Classified("pms", frame.value)
  /\ UNCHANGED <<now, history, run, frame, frozen, setpoint>>

(* MockSensorSource.read: still frozen, or a new value: good, dropped, a    *)
(* spike, or the first of a freeze.                                        *)
ReadMock ==
  /\ IF frozen.value # NoValue /\ now < frozen.until
     THEN Answers("mock", frozen.value, FROZEN) /\ UNCHANGED frozen
     ELSE \/ \E value \in Raw : Answers("mock", value, GOOD) /\ frozen' = Thawed
          \/ Answers("mock", NoValue, COMM_ERROR) /\ frozen' = Thawed
          \/ Answers("mock", Width - 1, OUT_OF_RANGE) /\ frozen' = Thawed
          \/ \E value \in Raw, d \in 1..MaxFreeze :
               /\ Answers("mock", value, FROZEN)
               /\ frozen' = [value |-> value, until |-> now + d]
  /\ UNCHANGED <<now, history, run, frame, setpoint>>

(* MockSetpointSource.poll: a step up or down within the limits, if it     *)
(* changes anything.                                                       *)
NudgeSetpoint ==
  /\ setpoint' \in {setpoint - 1, setpoint + 1} \cap (Lo..Hi)
  /\ UNCHANGED <<now, history, run, frame, frozen, answer>>

(* The process starts again: all of it was in memory. *)
Restart ==
  /\ history' = <<>> /\ run' = NoRun
  /\ frame' = NoFrame
  /\ frozen' = Thawed
  /\ answer' = NoAnswer
  /\ UNCHANGED <<now, setpoint>>

Next ==
  \/ Tick \/ ReadModbus
  \/ OneWireFails \/ ReadOneWire
  \/ FrameArrives \/ ReadPms
  \/ ReadMock \/ NudgeSetpoint
  \/ Restart

Spec == Init /\ [][Next]_vars

-----------------------------------------------------------------------------

(* A probe that repeats itself is flagged from its STUCK_READS-th reading  *)
(* on, and not before, whatever failed or fell out of range in between     *)
(* (mockgen.py:377-387): such readings neither hide a stuck probe nor make *)
(* one.                                                                    *)
StuckIsFlagged ==
  (answer.source = "onewire" /\ answer.value # NoValue /\ InRange(answer.value))
    => (answer.quality = FROZEN <=> run.length = ONEWIRE_FREEZE_STUCK_READS)
==============================================================================
