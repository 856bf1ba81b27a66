------------------------------ MODULE Contracts ------------------------------
(***************************************************************************)
(* The commercial contracts of one plant: create_contract                  *)
(* (api/routers/admin_billing.py) by any number of administrators at once, *)
(* and the choice the billing worker makes among them.                     *)
(*                                                                         *)
(* create_contract reads the active contract, and later ends it, inserts   *)
(* its own and commits.  Nothing it writes is seen before the commit, and  *)
(* a second insert of an active contract waits for the first one's commit  *)
(* to meet the partial unique index, so read and commit are the two steps. *)
(***************************************************************************)
EXTENDS Naturals, Sequences

CONSTANTS
  Admins,        \* administrators, each with at most one request going on
  LastDay,       \* bound: the last day a contract may start
  MaxContracts   \* bound: rows of the contracts table

ASSUME ContractsAssumption == LastDay \in Nat \ {0} /\ MaxContracts \in Nat

VARIABLES
  contracts,   \* the contracts table, in order of insertion
  creating     \* the create_contract request of each administrator

contractVars == <<contracts, creating>>

Days    == 1..LastDay
OpenEnd == LastDay + 1   \* an effective_to that is NULL
Ids     == 1..MaxContracts
NoneYet == 0

Contract == [status : {"active", "ended"}, from : Days, to : Days \cup {OpenEnd}]

(* A request that has passed its checks: the day its contract starts, and  *)
(* the active contract it found.                                           *)
Request  == [from : Days, current : Ids \cup {NoneYet}]
NoRequest == [from |-> OpenEnd, current |-> NoneYet]

ContractsTypeOK ==
  /\ contracts \in Seq(Contract)
  /\ Len(contracts) <= MaxContracts
  /\ creating \in [Admins -> Request \cup {NoRequest}]

ContractsInit ==
  /\ contracts = << >>
  /\ creating = [a \in Admins |-> NoRequest]

ActiveIn(cs) == {i \in DOMAIN cs : cs[i].status = "active"}

(* The request reads the active contract; a start that is not later than   *)
(* its start is refused with 409.                                          *)
CheckContract(a) ==
  /\ creating[a] = NoRequest
  /\ Len(contracts) < MaxContracts
  /\ \E day \in Days :
       \/ /\ ActiveIn(contracts) = {}
          /\ creating' = [creating EXCEPT ![a] = [from |-> day, current |-> NoneYet]]
       \/ \E i \in ActiveIn(contracts) :
            /\ contracts[i].from < day
            /\ creating' = [creating EXCEPT ![a] = [from |-> day, current |-> i]]
  /\ UNCHANGED contracts

(* UPDATE of the contract found, by its id alone. *)
EndContract(cs, id, day) ==
  IF id = NoneYet THEN cs
  ELSE [cs EXCEPT ![id].status = "ended", ![id].to = day]

AddContract(cs, day) ==
  Append(cs, [status |-> "active", from |-> day, to |-> OpenEnd])

(* A plausible bug: the schema without the index. *)
NoIndex(cs) == TRUE

(* contracts_one_active_per_plant. *)
OneActive(cs) == \A i, j \in ActiveIn(cs) : i = j

(* The contract found is ended and the new one inserted, unless the index  *)
(* refuses the insert and with it the whole transaction.                   *)
CommitContract(a) ==
  LET request == creating[a]
      changed == AddContract(EndContract(contracts, request.current, request.from),
                             request.from)
  IN /\ request # NoRequest
     /\ OneActive(changed) => Len(contracts) < MaxContracts
     /\ contracts' = IF OneActive(changed) THEN changed ELSE contracts
     /\ creating' = [creating EXCEPT ![a] = NoRequest]

ContractStep(a) == CheckContract(a) \/ CommitContract(a)

(* _active_contract: of the contracts that cover the day, the one that     *)
(* started last.  NoneYet when no contract covers it.                      *)
Covers(c, day) == c.from <= day /\ (c.to = OpenEnd \/ c.to >= day)

ContractFor(day) ==
  LET covering == {i \in DOMAIN contracts : Covers(contracts[i], day)}
      latest   == {i \in covering : \A j \in covering : contracts[j].from <= contracts[i].from}
  IN IF covering = {} THEN NoneYet ELSE CHOOSE i \in latest : TRUE

(* The terms that apply on a day are those agreed last among the contracts *)
(* started by then: however two requests interleave, superseding leaves    *)
(* neither a gap between contracts nor an older one that still wins.       *)
LatestAgreedApplies ==
  \A day \in Days :
    LET started == {i \in DOMAIN contracts : contracts[i].from <= day}
    IN started # {} => ContractFor(day) = CHOOSE i \in started : \A j \in started : j <= i
==============================================================================
