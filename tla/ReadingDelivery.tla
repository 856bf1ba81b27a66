--------------------------- MODULE ReadingDelivery ---------------------------
(***************************************************************************)
(* What the telemetry path promises for every reading and setpoint change: *)
(* it is generated once, is then on its way, and ends as one row of the    *)
(* database.  Only when Lossy may one that is on its way be given up; a    *)
(* row, once there, stays, and nothing given up comes back.                *)
(***************************************************************************)
CONSTANTS
  Items,
  Lossy  \* may the system give an item up?

VARIABLE status  \* of every item

Status == {"unborn", "underway", "stored", "gone"}

DeliveryInit == status = [i \in Items |-> "unborn"]

Move(S, from, to) ==
  /\ \A i \in S : status[i] = from
  /\ status' = [i \in Items |-> IF i \in S THEN to ELSE status[i]]

Generate == \E S \in SUBSET Items : Move(S, "unborn", "underway")
Store    == \E S \in SUBSET Items : Move(S, "underway", "stored")
GiveUp   == Lossy /\ \E S \in SUBSET Items : Move(S, "underway", "gone")

DeliverySpec == DeliveryInit /\ [][Generate \/ Store \/ GiveUp]_status
=============================================================================
