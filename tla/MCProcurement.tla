---------------------------- MODULE MCProcurement ----------------------------
(***************************************************************************)
(* Procurement for TLC.  One request is like another, and a line orders or *)
(* accepts one unit of its item, or one less than nothing.  Numbers are    *)
(* given while the order waits, since the two share nothing.               *)
(***************************************************************************)
EXTENDS Procurement, TLC

OneMoreOrLess == {-1, 1}

Symmetry == Permutations(Requests)

OrderWaits ==
  /\ status = "draft" /\ Len(items) = created /\ accepted = NoGoods
  /\ \A i \in Invoices : invoices[i].status = "absent"
  /\ \A r \in Requests : At(r, "idle") \/ At(r, "numbered")

NumbersWait ==
  /\ \A y \in Years : numbers[y] = {}
  /\ \A r \in Requests : ~At(r, "numbered")

MCNext == Next /\ (OrderWaits \/ NumbersWait)'

MCSpec == Init /\ [][MCNext]_vars
==============================================================================
