------------------------------ MODULE EdgeItems ------------------------------
(***************************************************************************)
(* What the edge daemon ships to the cloud: sensor readings and setpoint   *)
(* changes.  A reading is identified, as in the readings table, by its     *)
(* (plant, sensor, ts); a setpoint change by (plant, device, register,     *)
(* ts).  One plant is modelled, so an item is a slot (which sensor, or     *)
(* which register) and the poll cycle whose timestamp it carries.          *)
(***************************************************************************)
EXTENDS Naturals, FiniteSets

CONSTANTS
  NumSensors,    \* sensors of the plant, in manifest order
  NumRegisters,  \* setpoint registers of the plant
  MaxCycles      \* bound: poll cycles the model runs

ASSUME ItemsAssumption ==
  /\ NumSensors \in Nat \ {0}
  /\ NumRegisters \in Nat
  /\ MaxCycles \in Nat \ {0}

Sensors   == 1..NumSensors
Registers == NumSensors + 1 .. NumSensors + NumRegisters
Item      == [cycle : 1..MaxCycles, slot : Sensors \cup Registers]
Reading   == [cycle : 1..MaxCycles, slot : Sensors]
Setpoint  == [cycle : 1..MaxCycles, slot : Registers]

\* Items are generated cycle by cycle, the readings of a cycle before its
\* setpoint changes; the outbox is FIFO, so this is also its order.
GeneratedBefore(a, b) ==
  \/ a.cycle < b.cycle
  \/ a.cycle = b.cycle /\ a.slot < b.slot

\* The first item of a non-empty set in that order.
Oldest(S) == CHOOSE x \in S : \A y \in S : ~GeneratedBefore(y, x)

\* put_many is called with the readings of a publish cycle followed by its
\* setpoint changes, so rows of one call are ordered by kind first.
InsertedBefore(a, b) ==
  IF (a \in Reading) = (b \in Reading)
    THEN GeneratedBefore(a, b)
    ELSE a \in Reading
=============================================================================
