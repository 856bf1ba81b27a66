--------------------------- MODULE DocumentsProofs ---------------------------
(***************************************************************************)
(* Theorems about contracts and documents.                                 *)
(***************************************************************************)
EXTENDS Documents, TLAPS

USE ContractsAssumption, DocumentsAssumption

\* The contracts follow each other without a gap, the last one alone is
\* active, and a request holds a contract that started before its own.
Chain ==
  /\ \A i, j \in DOMAIN contracts : i < j => contracts[i].from < contracts[j].from
  /\ \A i \in DOMAIN contracts : i < Len(contracts) =>
       contracts[i].status = "ended" /\ contracts[i].to = contracts[i + 1].from
  /\ contracts # << >> =>
       /\ contracts[Len(contracts)].status = "active"
       /\ contracts[Len(contracts)].to = OpenEnd

RequestsAreOld ==
  \A a \in Admins :
    (creating[a] # NoRequest /\ creating[a].current # NoneYet) =>
      /\ creating[a].current \in DOMAIN contracts
      /\ contracts[creating[a].current].from < creating[a].from

\* Among the contracts started by a day there is one agreed last.
HasLatest ==
  \A day \in Days : (\E i \in DOMAIN contracts : contracts[i].from <= day) =>
    \E i \in DOMAIN contracts :
      /\ contracts[i].from <= day
      /\ \A j \in DOMAIN contracts : contracts[j].from <= day => j <= i

ContractsInv == ContractsTypeOK /\ Chain /\ RequestsAreOld /\ HasLatest

\* The rows of the table, one by one.
LEMMA ContractRows ==
  ASSUME ContractsTypeOK
  PROVE  /\ Len(contracts) \in Nat /\ DOMAIN contracts = 1..Len(contracts)
         /\ \A i \in DOMAIN contracts :
              /\ contracts[i] \in Contract
              /\ contracts[i].from \in Days
              /\ contracts[i].to \in Days \cup {OpenEnd}
<1>1. contracts \in Seq(Contract)
  BY DEF ContractsTypeOK
<1>2. \A i \in DOMAIN contracts : contracts[i] \in Contract
  BY <1>1
<1>3. \A c \in Contract : c.from \in Days /\ c.to \in Days \cup {OpenEnd}
  BY DEF Contract
<1> QED BY <1>1, <1>2, <1>3

\* Ending a contract keeps it a contract.
LEMMA EndedContract ==
  ASSUME NEW c \in Contract, NEW day \in Days
  PROVE  LET e == [c EXCEPT !.status = "ended", !.to = day] IN
         /\ e \in Contract
         /\ e.from = c.from /\ e.status = "ended" /\ e.to = day
BY DEF Contract

LEMMA ContractsInitInv == ContractsInit => ContractsInv
<1> SUFFICES ASSUME ContractsInit PROVE ContractsInv
  OBVIOUS
<1>1. contracts = << >> /\ Len(contracts) = 0 /\ DOMAIN contracts = {}
  BY DEF ContractsInit
<1>2. ContractsTypeOK
  BY <1>1 DEF ContractsInit, ContractsTypeOK
<1>3. Chain /\ RequestsAreOld /\ HasLatest
  BY <1>1 DEF ContractsInit, Chain, RequestsAreOld, HasLatest, NoRequest
<1> QED BY <1>2, <1>3 DEF ContractsInv

LEMMA CheckContractInv ==
  ASSUME ContractsInv, NEW a \in Admins, CheckContract(a)
  PROVE  ContractsInv'
<1> USE DEF ContractsInv
<1>1. UNCHANGED contracts
  BY DEF CheckContract
<1>2. PICK day \in Days, i \in Ids \cup {NoneYet} :
        /\ creating' = [creating EXCEPT ![a] = [from |-> day, current |-> i]]
        /\ i # NoneYet => i \in DOMAIN contracts /\ contracts[i].from < day
  <2>1. PICK day \in Days :
          \/ creating' = [creating EXCEPT ![a] = [from |-> day, current |-> NoneYet]]
          \/ \E i \in ActiveIn(contracts) :
               /\ contracts[i].from < day
               /\ creating' = [creating EXCEPT ![a] = [from |-> day, current |-> i]]
    BY DEF CheckContract
  <2>2. ActiveIn(contracts) \subseteq DOMAIN contracts /\ DOMAIN contracts \subseteq Ids
    BY DEF ActiveIn, ContractsTypeOK, Ids
  <2> QED BY <2>1, <2>2
<1>3. creating \in [Admins -> Request \cup {NoRequest}]
  BY DEF ContractsTypeOK
<1>4. ContractsTypeOK'
  <2>1. [from |-> day, current |-> i] \in Request
    BY DEF Request
  <2> QED BY <1>1, <1>2, <1>3, <2>1 DEF ContractsTypeOK
<1>5. RequestsAreOld'
  <2> SUFFICES ASSUME NEW b \in Admins, creating'[b] # NoRequest, creating'[b].current # NoneYet
               PROVE  /\ creating'[b].current \in DOMAIN contracts
                      /\ contracts[creating'[b].current].from < creating'[b].from
    BY <1>1 DEF RequestsAreOld
  <2>1. CASE b = a
    BY <1>2, <1>3, <2>1
  <2>2. CASE b # a
    BY <1>2, <1>3, <2>2 DEF RequestsAreOld
  <2> QED BY <2>1, <2>2
<1>6. Chain' /\ HasLatest'
  BY <1>1 DEF Chain, HasLatest
<1> QED BY <1>4, <1>5, <1>6

\* What a commit writes: contract id ends, a new one follows the others.
Supersedes(changed, cs, id, day) ==
  /\ changed \in Seq(Contract)
  /\ Len(changed) = Len(cs) + 1 /\ DOMAIN changed = 1..Len(cs) + 1
  /\ changed[Len(cs) + 1].status = "active"
  /\ changed[Len(cs) + 1].from = day
  /\ changed[Len(cs) + 1].to = OpenEnd
  /\ \A i \in 1..Len(cs) :
       /\ changed[i].from = cs[i].from
       /\ i # id => changed[i] = cs[i]
       /\ i = id => changed[i].status = "ended" /\ changed[i].to = day

LEMMA Changed ==
  ASSUME NEW cs \in Seq(Contract), NEW id \in 0..Len(cs), NEW day \in Days,
         NEW changed, changed = AddContract(EndContract(cs, id, day), day)
  PROVE  Supersedes(changed, cs, id, day)
<1> DEFINE ended == EndContract(cs, id, day)
           new   == [status |-> "active", from |-> day, to |-> OpenEnd]
<1>1. /\ ended \in Seq(Contract) /\ Len(ended) = Len(cs)
      /\ \A i \in 1..Len(cs) :
           /\ ended[i].from = cs[i].from
           /\ i # id => ended[i] = cs[i]
           /\ i = id => ended[i].status = "ended" /\ ended[i].to = day
  <2>1. CASE id = 0
    BY <2>1 DEF EndContract, NoneYet
  <2>2. CASE id # 0
    <3> DEFINE e == [cs[id] EXCEPT !.status = "ended", !.to = day]
    <3>1. id \in 1..Len(cs) /\ cs[id] \in Contract
      BY <2>2
    <3>2. e \in Contract /\ e.from = cs[id].from /\ e.status = "ended" /\ e.to = day
      BY <3>1, EndedContract
    <3>3. ended = [cs EXCEPT ![id] = e]
      BY <2>2 DEF EndContract, NoneYet
    <3> HIDE DEF e, ended
    <3>4. ended \in Seq(Contract) /\ Len(ended) = Len(cs)
      BY <3>1, <3>2, <3>3
    <3>5. \A i \in 1..Len(cs) : ended[i] = IF i = id THEN e ELSE cs[i]
      BY <3>1, <3>3
    <3> QED BY <3>2, <3>4, <3>5
  <2> QED BY <2>1, <2>2
<1>2. new \in Contract /\ new.status = "active" /\ new.from = day /\ new.to = OpenEnd
  BY DEF Contract
<1>3. changed = Append(ended, new)
  BY DEF AddContract
<1> HIDE DEF ended, new
<1>4. /\ changed \in Seq(Contract) /\ Len(changed) = Len(cs) + 1
      /\ changed[Len(cs) + 1] = new
      /\ \A i \in 1..Len(cs) : changed[i] = ended[i]
  BY <1>1, <1>2, <1>3
<1> QED BY <1>1, <1>2, <1>4 DEF Supersedes

\* What a request holds.
LEMMA RequestHolds ==
  ASSUME ContractsInv, NEW a \in Admins, creating[a] # NoRequest
  PROVE  /\ contracts \in Seq(Contract)
         /\ creating[a].from \in Days
         /\ creating[a].current \in 0..Len(contracts)
<1>1. creating[a] \in Request
  BY DEF ContractsInv, ContractsTypeOK
<1>2. creating[a].current \in Ids \cup {NoneYet} /\ creating[a].from \in Days
  BY <1>1 DEF Request
<1>3. contracts \in Seq(Contract)
  BY DEF ContractsInv, ContractsTypeOK
<1>4. creating[a].current # NoneYet => creating[a].current \in DOMAIN contracts
  BY DEF ContractsInv, RequestsAreOld
<1> QED BY <1>2, <1>3, <1>4 DEF NoneYet

\* A commit that the unique index lets pass supersedes the last contract, or
\* is the first.
LEMMA CommitSupersedes ==
  ASSUME ContractsInv, NEW a \in Admins, creating[a] # NoRequest, NEW changed,
         changed = AddContract(EndContract(contracts, creating[a].current, creating[a].from),
                               creating[a].from),
         OneActive(changed)
  PROVE  creating[a].current = Len(contracts)
<1> DEFINE n == Len(contracts)
<1>1. n \in Nat /\ DOMAIN contracts = 1..n /\ creating[a].current \in 0..n
  BY RequestHolds, ContractRows DEF ContractsInv
<1>2. Supersedes(changed, contracts, creating[a].current, creating[a].from)
  BY RequestHolds, Changed
<1>3. CASE n > 0 /\ creating[a].current # n
  <2>1. contracts[n].status = "active"
    BY <1>1, <1>3 DEF ContractsInv, Chain
  <2>2. {n, n + 1} \subseteq ActiveIn(changed)
    BY <1>1, <1>2, <1>3, <2>1 DEF ActiveIn, Supersedes
  <2> QED BY <1>1, <2>2 DEF OneActive
<1> QED BY <1>1, <1>3

LEMMA CommitContractInv ==
  ASSUME ContractsInv, NEW a \in Admins, CommitContract(a)
  PROVE  ContractsInv'
<1>0. PICK n, day : n = Len(contracts) /\ day = creating[a].from
  OBVIOUS
<1>1. PICK changed :
        /\ changed = AddContract(EndContract(contracts, creating[a].current, day), day)
        /\ creating[a] # NoRequest
        /\ creating' = [creating EXCEPT ![a] = NoRequest]
        /\ OneActive(changed) => n < MaxContracts
        /\ contracts' = IF OneActive(changed) THEN changed ELSE contracts
  BY <1>0 DEF CommitContract
<1>2. /\ contracts \in Seq(Contract) /\ n \in Nat /\ DOMAIN contracts = 1..n
      /\ n <= MaxContracts
      /\ creating \in [Admins -> Request \cup {NoRequest}]
      /\ day \in Days /\ creating[a].current \in 0..n
      /\ ContractsTypeOK /\ Chain /\ RequestsAreOld /\ HasLatest
  BY <1>0, <1>1, RequestHolds, ContractRows DEF ContractsInv, ContractsTypeOK
<1>3. creating' \in [Admins -> Request \cup {NoRequest}]
  BY <1>1, <1>2
<1>4. \A b \in Admins : creating'[b] # NoRequest => creating'[b] = creating[b]
  BY <1>1, <1>2
<1>5. CASE ~OneActive(changed)
  <2>1. UNCHANGED contracts
    BY <1>1, <1>5
  <2>2. RequestsAreOld'
    BY <1>2, <1>4, <2>1 DEF RequestsAreOld
  <2>3. ContractsTypeOK'
    BY <1>2, <1>3, <2>1 DEF ContractsTypeOK
  <2> QED BY <1>2, <2>1, <2>2, <2>3 DEF ContractsInv, Chain, HasLatest
<1>6. CASE OneActive(changed)
  <2>1. contracts' = changed /\ creating[a].current = n
    BY <1>0, <1>1, <1>6, CommitSupersedes
  <2>2. /\ contracts' \in Seq(Contract)
        /\ Len(contracts') = n + 1 /\ DOMAIN contracts' = 1..n + 1
        /\ contracts'[n + 1].status = "active"
        /\ contracts'[n + 1].from = day
        /\ contracts'[n + 1].to = OpenEnd
        /\ \A i \in 1..n :
             /\ contracts'[i].from = contracts[i].from
             /\ i # n => contracts'[i] = contracts[i]
             /\ i = n => contracts'[i].status = "ended" /\ contracts'[i].to = day
    <3>1. /\ contracts \in Seq(Contract) /\ n \in 0..Len(contracts) /\ day \in Days
          /\ changed = AddContract(EndContract(contracts, n, day), day)
      BY <1>0, <1>1, <1>2, <2>1
    <3>2. Supersedes(changed, contracts, n, day)
      BY <3>1, Changed
    <3> QED BY <1>0, <2>1, <3>2 DEF Supersedes
  <2>3. n > 0 => contracts[n].from < day
    BY <1>0, <1>1, <1>2, <2>1 DEF RequestsAreOld, NoneYet
  <2>4. \A i \in 1..n : contracts[i].from < day /\ contracts[i].from \in Nat
    <3> SUFFICES ASSUME NEW i \in 1..n
                 PROVE  contracts[i].from < day /\ contracts[i].from \in Nat
      OBVIOUS
    <3>1. contracts[i].from \in Nat /\ contracts[n].from \in Nat /\ day \in Nat
      BY <1>2, ContractRows DEF Days
    <3>2. i < n => contracts[i].from < contracts[n].from
      BY <1>0, <1>2 DEF Chain
    <3> QED BY <1>2, <2>3, <3>1, <3>2
  <2>5. ContractsTypeOK'
    BY <1>1, <1>2, <1>3, <1>6, <2>2 DEF ContractsTypeOK
  <2>6. Chain'
    <3>1. \A i, j \in 1..n + 1 : i < j => contracts'[i].from < contracts'[j].from
      <4> SUFFICES ASSUME NEW i \in 1..n + 1, NEW j \in 1..n + 1, i < j
                   PROVE  contracts'[i].from < contracts'[j].from
        OBVIOUS
      <4>1. i \in 1..n /\ contracts'[i].from = contracts[i].from
        BY <1>2, <2>2
      <4>2. CASE j = n + 1
        BY <2>2, <2>4, <4>1, <4>2
      <4>3. CASE j \in 1..n
        BY <1>2, <2>2, <4>1, <4>3 DEF Chain
      <4> QED BY <1>2, <4>2, <4>3
    <3>2. \A i \in 1..n + 1 : i < n + 1 =>
            contracts'[i].status = "ended" /\ contracts'[i].to = contracts'[i + 1].from
      <4> SUFFICES ASSUME NEW i \in 1..n
                   PROVE  contracts'[i].status = "ended" /\ contracts'[i].to = contracts'[i + 1].from
        BY <1>2
      <4>1. CASE i = n
        BY <2>2, <4>1
      <4>2. CASE i < n
        <5>1. contracts'[i] = contracts[i] /\ i + 1 \in 1..n
          BY <1>2, <2>2, <4>2
        <5>2. contracts'[i + 1].from = contracts[i + 1].from
          BY <2>2, <5>1
        <5>3. contracts[i].status = "ended" /\ contracts[i].to = contracts[i + 1].from
          BY <1>0, <1>2, <4>2 DEF Chain
        <5> QED BY <5>1, <5>2, <5>3
      <4> QED BY <1>2, <4>1, <4>2
    <3> QED BY <1>2, <2>2, <3>1, <3>2 DEF Chain
  <2>7. RequestsAreOld'
    <3> SUFFICES ASSUME NEW b \in Admins, creating'[b] # NoRequest, creating'[b].current # NoneYet
                 PROVE  /\ creating'[b].current \in DOMAIN contracts'
                        /\ contracts'[creating'[b].current].from < creating'[b].from
      BY DEF RequestsAreOld
    <3> DEFINE c == creating[b].current
    <3>1. creating'[b] = creating[b] /\ c \in 1..n /\ contracts[c].from < creating[b].from
      BY <1>2, <1>4 DEF RequestsAreOld
    <3>2. c \in DOMAIN contracts' /\ contracts'[c].from = contracts[c].from
      BY <1>2, <2>2, <3>1
    <3> QED BY <3>1, <3>2
  <2>8. HasLatest'
    <3> SUFFICES ASSUME NEW d \in Days, NEW k \in 1..n + 1, contracts'[k].from <= d
                 PROVE  \E i \in 1..n + 1 :
                          /\ contracts'[i].from <= d
                          /\ \A j \in 1..n + 1 : contracts'[j].from <= d => j <= i
      BY <2>2 DEF HasLatest
    <3>1. CASE day <= d
      <4>1. \A j \in 1..n + 1 : j <= n + 1
        BY <1>2
      <4> QED BY <1>2, <2>2, <3>1, <4>1
    <3>2. CASE ~(day <= d)
      <4>1. \A j \in 1..n + 1 : contracts'[j].from <= d =>
              j \in 1..n /\ contracts[j].from <= d
        BY <1>2, <2>2, <3>2
      <4>2. PICK i \in 1..n : /\ contracts[i].from <= d
                              /\ \A j \in 1..n : contracts[j].from <= d => j <= i
        BY <1>2, <4>1 DEF HasLatest
      <4>3. i \in 1..n + 1 /\ contracts'[i].from <= d
        BY <1>2, <2>2, <4>2
      <4> QED BY <4>1, <4>2, <4>3
    <3> QED BY <3>1, <3>2
  <2> QED BY <2>5, <2>6, <2>7, <2>8 DEF ContractsInv
<1> QED BY <1>5, <1>6

\* What the chain is for: the choice by dates is the contract agreed last.
LEMMA ChainChooses ==
  ASSUME ContractsInv, NEW day \in Days
  PROVE  LET started == {i \in DOMAIN contracts : contracts[i].from <= day} IN
         IF started = {} THEN ContractFor(day) = NoneYet
         ELSE /\ ContractFor(day) \in started
              /\ \A j \in started : j <= ContractFor(day)
<1> DEFINE n        == Len(contracts)
           started  == {i \in DOMAIN contracts : contracts[i].from <= day}
           covering == {i \in DOMAIN contracts : Covers(contracts[i], day)}
           latest   == {i \in covering :
                          \A j \in covering : contracts[j].from <= contracts[i].from}
<1>1. n \in Nat /\ DOMAIN contracts = 1..n
      /\ \A i \in 1..n : contracts[i].from \in Days /\ contracts[i].to \in Days \cup {OpenEnd}
  BY ContractRows DEF ContractsInv
<1>2. covering \subseteq started
  BY DEF Covers
<1>3. CASE started = {}
  BY <1>2, <1>3 DEF ContractFor
<1>4. CASE started # {}
  <2>1. PICK i \in started : \A j \in started : j <= i
    BY <1>4 DEF ContractsInv, HasLatest
  <2>2. i \in covering
    <3>1. CASE i = n
      <4>1. contracts[i].to = OpenEnd
        BY <1>1, <3>1 DEF ContractsInv, Chain
      <4> QED BY <4>1 DEF Covers
    <3>2. CASE i < n
      <4>1. contracts[i].to = contracts[i + 1].from /\ i + 1 \in DOMAIN contracts
        BY <1>1, <3>2 DEF ContractsInv, Chain
      <4>2. ~(contracts[i + 1].from <= day)
        BY <1>1, <2>1, <4>1
      <4>3. contracts[i].to >= day
        BY <1>1, <4>1, <4>2 DEF Days
      <4> QED BY <4>3 DEF Covers
    <3> QED BY <1>1, <3>1, <3>2
  <2>3. \A j \in covering : contracts[j].from <= contracts[i].from
    <3> SUFFICES ASSUME NEW j \in covering PROVE contracts[j].from <= contracts[i].from
      OBVIOUS
    <3>1. j <= i
      BY <1>2, <2>1
    <3> QED BY <1>1, <3>1 DEF ContractsInv, Chain, Days
  <2>4. \A k \in latest : k = i
    <3> SUFFICES ASSUME NEW k \in latest PROVE k = i
      OBVIOUS
    <3>1. k <= i /\ contracts[i].from <= contracts[k].from
      BY <1>2, <2>1, <2>2
    <3> QED BY <1>1, <3>1 DEF ContractsInv, Chain, Days
  <2>5. latest = {i}
    BY <2>2, <2>3, <2>4
  <2>6. ContractFor(day) = i
    BY <2>2, <2>5 DEF ContractFor
  <2> QED BY <1>4, <2>1, <2>6
<1> QED BY <1>3, <1>4

LEMMA ChainAppliesLatest == ContractsInv => LatestAgreedApplies
<1> SUFFICES ASSUME ContractsInv, NEW day \in Days,
                    NEW started, started = {i \in DOMAIN contracts : contracts[i].from <= day},
                    started # {}
             PROVE  ContractFor(day) = CHOOSE i \in started : \A j \in started : j <= i
  BY DEF LatestAgreedApplies
<1>1. ContractFor(day) \in started /\ \A j \in started : j <= ContractFor(day)
  BY ChainChooses
<1>2. started \subseteq Nat
  BY DEF ContractsInv, ContractsTypeOK
<1>3. \A i \in started : (\A j \in started : j <= i) => i = ContractFor(day)
  BY <1>1, <1>2
<1> QED BY <1>1, <1>3

-----------------------------------------------------------------------------

\* A run knows what it has left behind.  One that is alone finds its own
\* document wherever it put it; any run whose document is at the final key
\* after its copy, or that has verified it, has seen it land there.
RunInv(w) ==
  /\ run[w].alone => \A v \in Workers \ {w} : run[v].step = "idle"
  /\ run[w].alone /\ run[w].step = "copy" => staging = run[w].document
  /\ run[w].alone /\ run[w].step \in {"unstage", "verify", "proof", "upsert"} =>
       final = run[w].document
  /\ run[w].alone /\ run[w].step = "upsert" /\ kind = "archive" => proof = run[w].document
  /\ run[w].step \in {"unstage", "verify"} /\ final = run[w].document => run[w].landed
  /\ run[w].step \in {"proof", "upsert"} => run[w].landed

\* Only an invoice is approved.
ApprovingInv == approving # {} => kind = "invoice"

DocumentsInv == ContractsInv /\ TypeOK /\ ApprovingInv /\ \A w \in Workers : RunInv(w)

LEMMA Typing ==
  /\ Nothing \in Document
  /\ Idle \in Run /\ Idle.step = "idle" /\ Idle.alone = FALSE
  /\ \A r \in Run :
       /\ r.step \in Steps /\ r.document \in Document /\ r.alone \in BOOLEAN /\ r.landed \in BOOLEAN
       /\ \A s \in Steps : [r EXCEPT !.step = s] \in Run
       /\ [r EXCEPT !.landed = TRUE] \in Run
       /\ [r EXCEPT !.alone = FALSE] \in Run
<1>1. Nothing \in Document
  BY DEF Nothing, Document
<1>2. Idle \in Run /\ Idle.step = "idle" /\ Idle.alone = FALSE
  BY <1>1 DEF Idle, Run, Steps
<1>3. \A r \in Run :
       /\ r.step \in Steps /\ r.document \in Document /\ r.alone \in BOOLEAN /\ r.landed \in BOOLEAN
       /\ \A s \in Steps : [r EXCEPT !.step = s] \in Run
       /\ [r EXCEPT !.landed = TRUE] \in Run
       /\ [r EXCEPT !.alone = FALSE] \in Run
  BY DEF Run
<1> QED BY <1>1, <1>2, <1>3

LEMMA DocumentsInitInv == Init => DocumentsInv
<1> SUFFICES ASSUME Init PROVE DocumentsInv
  OBVIOUS
<1>1. ContractsInv
  BY ContractsInitInv DEF Init
<1>2. TypeOK
  <2>1. NoRow.status = "absent" /\ NoRow \in [status : RowStatus, states : Document]
    BY Typing DEF NoRow, RowStatus
  <2> QED BY <1>1, <2>1, Typing DEF Init, TypeOK, ContractsInv
<1>3. \A w \in Workers : RunInv(w)
  BY Typing DEF Init, RunInv
<1>4. ApprovingInv
  BY DEF Init, ApprovingInv
<1> QED BY <1>1, <1>2, <1>3, <1>4 DEF DocumentsInv

\* Steps of administrators and the arrival of readings leave every run alone.
LEMMA OthersKeepRuns ==
  ASSUME DocumentsInv,
         UNCHANGED <<kind, staging, final, proof, run>>,
         ContractsInv', TypeOK', ApprovingInv'
  PROVE  DocumentsInv'
BY DEF DocumentsInv, RunInv

LEMMA ContractStepInv ==
  ASSUME DocumentsInv, NEW a \in Admins, ContractStep(a), UNCHANGED documentVars
  PROVE  DocumentsInv'
<1>1. ContractsInv'
  BY CheckContractInv, CommitContractInv DEF DocumentsInv, ContractStep
<1>2. TypeOK'
  BY <1>1 DEF DocumentsInv, TypeOK, ContractsInv, documentVars
<1>3. ApprovingInv'
  BY DEF DocumentsInv, ApprovingInv, documentVars
<1> QED BY <1>1, <1>2, <1>3, OthersKeepRuns DEF documentVars

LEMMA ContractsUnchanged ==
  ASSUME ContractsInv, UNCHANGED contractVars
  PROVE  ContractsInv'
BY DEF ContractsInv, ContractsTypeOK, Chain, RequestsAreOld, HasLatest, contractVars

LEMMA ApprovalInv ==
  ASSUME DocumentsInv, NEW a \in Admins, SeeDraft(a) \/ Approve(a)
  PROVE  DocumentsInv'
<1>1. ContractsInv'
  BY ContractsUnchanged DEF DocumentsInv, SeeDraft, Approve
<1>2. TypeOK'
  <2>1. CASE SeeDraft(a)
    BY <1>1, <2>1 DEF DocumentsInv, TypeOK, ContractsInv, SeeDraft
  <2>2. CASE Approve(a)
    <3>1. row' \in [status : RowStatus, states : Document] /\ row'.status = "approved"
      BY <2>2 DEF DocumentsInv, TypeOK, Approve, RowStatus
    <3>2. kind' = "invoice"
      BY <2>2 DEF DocumentsInv, ApprovingInv, Approve
    <3> QED BY <1>1, <2>2, <3>1, <3>2 DEF DocumentsInv, TypeOK, ContractsInv, Approve
  <2> QED BY <2>1, <2>2
<1>3. ApprovingInv'
  BY DEF DocumentsInv, TypeOK, ApprovingInv, SeeDraft, Approve, Kinds
<1> QED BY <1>1, <1>2, <1>3, OthersKeepRuns DEF SeeDraft, Approve

LEMMA DataArrivesInv == DocumentsInv /\ DataArrives => DocumentsInv'
<1> SUFFICES ASSUME DocumentsInv, DataArrives PROVE DocumentsInv'
  OBVIOUS
<1>1. ContractsInv'
  BY ContractsUnchanged DEF DocumentsInv, DataArrives
<1>2. TypeOK'
  BY <1>1 DEF DocumentsInv, TypeOK, ContractsInv, DataArrives
<1>3. ApprovingInv'
  BY DEF DocumentsInv, ApprovingInv, DataArrives
<1> QED BY <1>1, <1>2, <1>3, OthersKeepRuns DEF DataArrives

\* A run step leaves what the administrators see, and is type correct if the
\* run and what it stores are.
LEMMA RunStepTypes ==
  ASSUME DocumentsInv, UNCHANGED <<contractVars, kind, data, approving>>,
         run' \in [Workers -> Run],
         staging' \in Document, final' \in Document, proof' \in Document,
         row' = row \/ \E document \in Document : row' = Save(row, document)
  PROVE  ContractsInv' /\ TypeOK' /\ ApprovingInv'
<1>1. ContractsInv'
  BY ContractsUnchanged DEF DocumentsInv
<1>2. row' \in [status : RowStatus, states : Document]
      /\ row'.status \in IF kind = "archive" THEN {"absent", "logged"}
                         ELSE {"absent", "draft", "approved"}
  <2>1. CASE row' = row
    BY <2>1 DEF DocumentsInv, TypeOK
  <2>2. CASE row' # row
    <3>1. PICK document \in Document : row' = Save(row, document)
      BY <2>2
    <3>2. Figures(document) \in Document
      BY <3>1 DEF Figures, Document
    <3> QED BY <3>1, <3>2 DEF Save, LogArchive, SaveInvoice, DocumentsInv, TypeOK, RowStatus
  <2> QED BY <2>1, <2>2
<1>3. TypeOK'
  BY <1>1, <1>2 DEF DocumentsInv, TypeOK, ContractsInv
<1> QED BY <1>1, <1>3 DEF DocumentsInv, ApprovingInv

\* A step in which only run w moves, and the final object stays, disturbs no
\* other run: one that is alone is the only one there is.
LEMMA OtherRuns ==
  ASSUME DocumentsInv, NEW w \in Workers, run[w].step # "idle",
         NEW v \in Workers \ {w}, run'[v] = run[v],
         UNCHANGED <<kind, final>>
  PROVE  RunInv(v)'
BY DEF DocumentsInv, RunInv

LEMMA EndInv ==
  ASSUME DocumentsInv, NEW w \in Workers, run[w].step # "idle", End(w),
         UNCHANGED <<contractVars, kind, data, staging, final, proof, approving>>,
         row' = row \/ \E document \in Document : row' = Save(row, document)
  PROVE  DocumentsInv'
<1>1. run' = [run EXCEPT ![w] = Idle] /\ run \in [Workers -> Run]
  BY DEF End, DocumentsInv, TypeOK
<1>2. run' \in [Workers -> Run]
  BY <1>1, Typing
<1>3. ContractsInv' /\ TypeOK' /\ ApprovingInv'
  BY <1>2, RunStepTypes DEF DocumentsInv, TypeOK
<1>4. RunInv(w)'
  BY <1>1, Typing DEF RunInv
<1>5. \A v \in Workers \ {w} : RunInv(v)'
  BY <1>1, OtherRuns
<1> QED BY <1>3, <1>4, <1>5 DEF DocumentsInv

LEMMA BeginInv ==
  ASSUME DocumentsInv, NEW w \in Workers, Begin(w)
  PROVE  DocumentsInv'
<1> DEFINE first == [step |-> IF kind = "invoice" THEN "contract" ELSE "render",
                     document |-> Nothing, alone |-> Others(w) = {}, landed |-> FALSE]
<1>1. /\ run \in [Workers -> Run]
      /\ run' = [v \in Workers |-> IF v = w THEN first ELSE [run[v] EXCEPT !.alone = FALSE]]
  BY DEF Begin, DocumentsInv, TypeOK
<1>2. /\ first \in Run /\ first.step \in {"contract", "render"}
      /\ first.alone = (Others(w) = {})
  BY Typing DEF Run, Steps
<1> HIDE DEF first
<1>3. run' \in [Workers -> Run]
  BY <1>1, <1>2, Typing
<1>4. ContractsInv' /\ TypeOK' /\ ApprovingInv'
  BY <1>3, RunStepTypes DEF DocumentsInv, TypeOK, Begin
<1>5. RunInv(w)'
  <2>1. run'[w] = first /\ \A v \in Workers \ {w} : run'[v].step = run[v].step
    BY <1>1 DEF Run
  <2> QED BY <1>2, <2>1 DEF RunInv, Others, At
<1>6. ASSUME NEW v \in Workers \ {w} PROVE RunInv(v)'
  <2>1. /\ run'[v].step = run[v].step /\ run'[v].document = run[v].document
        /\ run'[v].landed = run[v].landed /\ run'[v].alone = FALSE
    BY <1>1 DEF Run
  <2>2. RunInv(v)
    BY DEF DocumentsInv
  <2> QED BY <2>1, <2>2 DEF RunInv, Begin
<1> QED BY <1>4, <1>5, <1>6 DEF DocumentsInv

LEMMA FindContractInv ==
  ASSUME DocumentsInv, NEW w \in Workers, FindContract(w)
  PROVE  DocumentsInv'
<1> DEFINE id == ContractFor(PeriodStart)
<1>1. CASE id = NoneYet
  BY <1>1, EndInv DEF FindContract, At
<1>2. CASE id # NoneYet
  <2>1. id \in Ids
    <3>1. PeriodStart \in Days
      OBVIOUS
    <3>2. id \in DOMAIN contracts
      BY <1>2, <3>1, ChainChooses DEF DocumentsInv
    <3> QED BY <3>2 DEF DocumentsInv, ContractsInv, ContractsTypeOK, Ids
  <2> DEFINE next == [run[w] EXCEPT !.step = "render", !.document.contract = id]
  <2>2. run \in [Workers -> Run] /\ run' = [run EXCEPT ![w] = next] /\ run[w].step = "contract"
    BY <1>2 DEF DocumentsInv, TypeOK, FindContract, At
  <2>3. next \in Run /\ next.step = "render" /\ next.alone = run[w].alone
    <3>0. run[w].document \in Document
      BY <2>2, Typing
    <3>1. [run[w].document EXCEPT !.contract = id] \in Document
      BY <2>1, <3>0 DEF Document
    <3> QED BY <2>2, <3>1 DEF Run, Steps
  <2> HIDE DEF next
  <2>4. run' \in [Workers -> Run]
    BY <2>2, <2>3
  <2>5. ContractsInv' /\ TypeOK' /\ ApprovingInv'
    BY <2>4, RunStepTypes DEF DocumentsInv, TypeOK, FindContract
  <2>6. RunInv(w)'
    BY <2>2, <2>3 DEF RunInv, DocumentsInv
  <2>7. \A v \in Workers \ {w} : RunInv(v)'
    BY <2>2, OtherRuns DEF FindContract
  <2> QED BY <2>5, <2>6, <2>7 DEF DocumentsInv
<1> QED BY <1>1, <1>2

LEMMA RenderInv ==
  ASSUME DocumentsInv, NEW w \in Workers, Render(w)
  PROVE  DocumentsInv'
<1>1. CASE kind = "archive" /\ data = 0
  BY <1>1, EndInv DEF Render, At
<1>2. CASE ~(kind = "archive" /\ data = 0)
  <2> DEFINE by   == IF kind = "invoice" THEN w ELSE AnyRun
             next == [run[w] EXCEPT !.step = "stage", !.document.data = data, !.document.by = by]
  <2>1. run \in [Workers -> Run] /\ run' = [run EXCEPT ![w] = next] /\ run[w].step = "render"
    BY <1>2 DEF DocumentsInv, TypeOK, Render, At
  <2>2. next \in Run /\ next.step = "stage" /\ next.alone = run[w].alone
    <3>0. run[w].document \in Document
      BY <2>1, Typing
    <3>1. [run[w].document EXCEPT !.data = data, !.by = by] \in Document
      BY <3>0 DEF Document, DocumentsInv, TypeOK
    <3> QED BY <2>1, <3>1 DEF Run, Steps
  <2> HIDE DEF next
  <2>3. run' \in [Workers -> Run]
    BY <2>1, <2>2
  <2>4. ContractsInv' /\ TypeOK' /\ ApprovingInv'
    BY <2>3, RunStepTypes DEF DocumentsInv, TypeOK, Render
  <2>5. RunInv(w)'
    BY <2>1, <2>2 DEF RunInv, DocumentsInv
  <2>6. \A v \in Workers \ {w} : RunInv(v)'
    BY <2>1, OtherRuns DEF Render
  <2> QED BY <2>4, <2>5, <2>6 DEF DocumentsInv
<1> QED BY <1>1, <1>2

\* The steps that only move on to another step.
LEMMA GotoRuns ==
  ASSUME DocumentsInv, NEW w \in Workers, NEW step \in Steps, Goto(w, step)
  PROVE  /\ run' \in [Workers -> Run]
         /\ run'[w].step = step /\ run'[w].document = run[w].document
         /\ run'[w].alone = run[w].alone /\ run'[w].landed = run[w].landed
         /\ \A v \in Workers \ {w} : run'[v] = run[v]
<1> DEFINE next == [run[w] EXCEPT !.step = step]
<1>1. run \in [Workers -> Run] /\ run' = [run EXCEPT ![w] = next]
  BY DEF DocumentsInv, TypeOK, Goto
<1>2. /\ next \in Run /\ next.step = step /\ next.document = run[w].document
      /\ next.alone = run[w].alone /\ next.landed = run[w].landed
  BY <1>1, Typing DEF Run
<1> HIDE DEF next
<1> QED BY <1>1, <1>2

LEMMA StageInv ==
  ASSUME DocumentsInv, NEW w \in Workers, Stage(w)
  PROVE  DocumentsInv'
<1>1. /\ run' \in [Workers -> Run]
      /\ run'[w].step = "copy" /\ run'[w].document = run[w].document
      /\ run'[w].alone = run[w].alone
      /\ \A v \in Workers \ {w} : run'[v] = run[v]
  BY GotoRuns DEF Stage, Steps
<1>2. run[w].document \in Document
  BY Typing DEF DocumentsInv, TypeOK
<1>3. ContractsInv' /\ TypeOK' /\ ApprovingInv'
  BY <1>1, <1>2, RunStepTypes DEF DocumentsInv, TypeOK, Stage
<1>4. RunInv(w)'
  BY <1>1 DEF RunInv, DocumentsInv, Stage, At
<1>5. \A v \in Workers \ {w} : RunInv(v)'
  BY <1>1, OtherRuns DEF Stage, At
<1> QED BY <1>3, <1>4, <1>5 DEF DocumentsInv

LEMMA CopyInv ==
  ASSUME DocumentsInv, NEW w \in Workers, Copy(w)
  PROVE  DocumentsInv'
<1>1. run \in [Workers -> Run] /\ run[w].step = "copy"
  BY DEF DocumentsInv, TypeOK, Copy, At
<1>2. CASE staging = Nothing
  BY <1>1, <1>2, EndInv DEF Copy
<1>3. CASE staging # Nothing
  <2> DEFINE lands(v) == run[v].step # "idle" /\ run[v].document = staging
  <2>1. /\ final' = staging /\ staging' = staging
        /\ run' = [Landing EXCEPT ![w].step = "unstage"]
    BY <1>3 DEF Copy
  <2>2. Landing \in [Workers -> Run]
    BY <1>1, Typing DEF Landing
  <2>3. \A v \in Workers :
          /\ Landing[v].step = run[v].step /\ Landing[v].document = run[v].document
          /\ Landing[v].alone = run[v].alone
          /\ Landing[v].landed = (run[v].landed \/ lands(v))
    <3> SUFFICES ASSUME NEW v \in Workers
                 PROVE  /\ Landing[v].step = run[v].step
                        /\ Landing[v].document = run[v].document
                        /\ Landing[v].alone = run[v].alone
                        /\ Landing[v].landed = (run[v].landed \/ lands(v))
      OBVIOUS
    <3>1. Landing[v] = IF lands(v) THEN [run[v] EXCEPT !.landed = TRUE] ELSE run[v]
      BY DEF Landing, At
    <3>2. run[v] \in Run
      BY <1>1
    <3>3. CASE lands(v)
      BY <3>1, <3>2, <3>3 DEF Run
    <3>4. CASE ~lands(v)
      BY <3>1, <3>2, <3>4 DEF Run
    <3> QED BY <3>3, <3>4
  <2> DEFINE next == [Landing[w] EXCEPT !.step = "unstage"]
  <2>4. next \in Run /\ next.step = "unstage" /\ next.document = run[w].document
        /\ next.alone = run[w].alone /\ next.landed = (run[w].landed \/ lands(w))
    <3>1. Landing[w] \in Run
      BY <2>2
    <3>2. \A r \in Run : LET moved == [r EXCEPT !.step = "unstage"] IN
            /\ moved \in Run /\ moved.step = "unstage" /\ moved.document = r.document
            /\ moved.alone = r.alone /\ moved.landed = r.landed
      BY DEF Run, Steps
    <3> QED BY <2>3, <3>1, <3>2
  <2>5. run' = [Landing EXCEPT ![w] = next]
    BY <2>1
  <2> HIDE DEF next, lands
  <2>6. run' \in [Workers -> Run] /\ run'[w] = next
        /\ \A v \in Workers \ {w} : run'[v] = Landing[v]
    BY <2>2, <2>4, <2>5
  <2>7. ContractsInv' /\ TypeOK' /\ ApprovingInv'
    BY <2>1, <2>6, RunStepTypes DEF DocumentsInv, TypeOK, Copy
  <2>8. RunInv(w)'
    <3>1. RunInv(w)
      BY DEF DocumentsInv
    <3>2. \A v \in Workers \ {w} : run'[v].step = run[v].step
      BY <2>3, <2>6
    <3>3. run[w].alone => final' = run[w].document
      BY <1>1, <2>1, <3>1 DEF RunInv
    <3>4. final' = run[w].document => next.landed
      BY <1>1, <2>1, <2>4 DEF lands
    <3> QED BY <2>4, <2>6, <3>1, <3>2, <3>3, <3>4 DEF RunInv
  <2>9. ASSUME NEW v \in Workers \ {w} PROVE RunInv(v)'
    <3>1. RunInv(v) /\ ~run[v].alone
      BY <1>1 DEF DocumentsInv, RunInv
    <3>2. run'[v].step = run[v].step /\ run'[v].document = run[v].document
          /\ ~run'[v].alone /\ run'[v].landed = (run[v].landed \/ lands(v))
      BY <2>3, <2>6, <3>1
    <3> QED BY <2>1, <3>1, <3>2 DEF RunInv, lands
  <2> QED BY <2>7, <2>8, <2>9 DEF DocumentsInv
<1> QED BY <1>2, <1>3

LEMMA DeleteStagingInv ==
  ASSUME DocumentsInv, NEW w \in Workers, DeleteStaging(w)
  PROVE  DocumentsInv'
<1>1. /\ run' \in [Workers -> Run]
      /\ run'[w].step = "verify" /\ run'[w].document = run[w].document
      /\ run'[w].alone = run[w].alone /\ run'[w].landed = run[w].landed
      /\ \A v \in Workers \ {w} : run'[v] = run[v]
  BY GotoRuns DEF DeleteStaging, Steps
<1>2. ContractsInv' /\ TypeOK' /\ ApprovingInv'
  BY <1>1, Typing, RunStepTypes DEF DocumentsInv, TypeOK, DeleteStaging
<1>3. RunInv(w)'
  BY <1>1 DEF RunInv, DocumentsInv, DeleteStaging, At
<1>4. \A v \in Workers \ {w} : RunInv(v)'
  BY <1>1, OtherRuns DEF DeleteStaging, At
<1> QED BY <1>2, <1>3, <1>4 DEF DocumentsInv

LEMMA VerifyInv ==
  ASSUME DocumentsInv, NEW w \in Workers, Verify(w)
  PROVE  DocumentsInv'
<1>1. CASE ~Verified(w)
  BY <1>1, EndInv DEF Verify, At
<1>2. CASE Verified(w)
  <2> DEFINE next == IF kind = "archive" THEN "proof" ELSE "upsert"
  <2>1. /\ run' \in [Workers -> Run]
        /\ run'[w].step = next /\ run'[w].document = run[w].document
        /\ run'[w].alone = run[w].alone /\ run'[w].landed = run[w].landed
        /\ \A v \in Workers \ {w} : run'[v] = run[v]
    BY <1>2, GotoRuns DEF Verify, Steps
  <2>2. ContractsInv' /\ TypeOK' /\ ApprovingInv'
    BY <2>1, RunStepTypes DEF DocumentsInv, TypeOK, Verify
  <2>3. RunInv(w)'
    <3>1. RunInv(w)
      BY DEF DocumentsInv
    <3>2. UNCHANGED <<kind, staging, final, proof>> /\ run[w].step = "verify"
          /\ final = run[w].document
      BY <1>2 DEF Verify, Verified, At
    <3> QED BY <2>1, <3>1, <3>2 DEF RunInv
  <2>4. \A v \in Workers \ {w} : RunInv(v)'
    BY <2>1, OtherRuns DEF Verify, At
  <2> QED BY <2>2, <2>3, <2>4 DEF DocumentsInv
<1> QED BY <1>1, <1>2

LEMMA PutProofInv ==
  ASSUME DocumentsInv, NEW w \in Workers, PutProof(w)
  PROVE  DocumentsInv'
<1>1. /\ run' \in [Workers -> Run]
      /\ run'[w].step = "upsert" /\ run'[w].document = run[w].document
      /\ run'[w].alone = run[w].alone /\ run'[w].landed = run[w].landed
      /\ \A v \in Workers \ {w} : run'[v] = run[v]
  BY GotoRuns DEF PutProof, Steps
<1>2. run[w].document \in Document
  BY Typing DEF DocumentsInv, TypeOK
<1>3. ContractsInv' /\ TypeOK' /\ ApprovingInv'
  BY <1>1, <1>2, RunStepTypes DEF DocumentsInv, TypeOK, PutProof
<1>4. RunInv(w)'
  BY <1>1 DEF RunInv, DocumentsInv, PutProof, At
<1>5. \A v \in Workers \ {w} : RunInv(v)'
  BY <1>1, OtherRuns DEF PutProof, At
<1> QED BY <1>3, <1>4, <1>5 DEF DocumentsInv

LEMMA UpsertInv ==
  ASSUME DocumentsInv, NEW w \in Workers, Upsert(w)
  PROVE  DocumentsInv'
<1>1. run[w].document \in Document
  BY Typing DEF DocumentsInv, TypeOK
<1> QED BY <1>1, EndInv DEF Upsert, At

LEMMA DocumentsStep == DocumentsInv /\ [Next]_vars => DocumentsInv'
<1> SUFFICES ASSUME DocumentsInv, [Next]_vars PROVE DocumentsInv'
  OBVIOUS
<1>1. CASE \E a \in Admins : ContractStep(a) /\ UNCHANGED documentVars
  BY <1>1, ContractStepInv
<1>2. CASE DataArrives
  BY <1>2, DataArrivesInv
<1>3. ASSUME NEW w \in Workers, RunStep(w) PROVE DocumentsInv'
  <2>1. CASE RunFails(w)
    BY <2>1, EndInv DEF RunFails, At
  <2> QED BY <1>3, <2>1, BeginInv, FindContractInv, RenderInv, StageInv, CopyInv,
             DeleteStagingInv, VerifyInv, PutProofInv, UpsertInv DEF RunStep
<1>4. CASE \E a \in Admins : SeeDraft(a) \/ Approve(a)
  BY <1>4, ApprovalInv
<1>5. CASE UNCHANGED vars
  <2>1. ContractsInv'
    BY <1>5, ContractsUnchanged DEF vars, DocumentsInv
  <2>2. TypeOK' /\ ApprovingInv'
    BY <1>5, <2>1 DEF vars, documentVars, DocumentsInv, TypeOK, ApprovingInv, ContractsInv
  <2> QED BY <1>5, <2>1, <2>2, OthersKeepRuns DEF vars, documentVars
<1> QED BY <1>1, <1>2, <1>3, <1>4, <1>5 DEF Next

LEMMA DocumentsAlways == Spec => []DocumentsInv
BY DocumentsInitInv, DocumentsStep, PTL DEF Spec

\* The state stays of its type, whatever runs, requests and crashes.
THEOREM DocumentsTypeCorrect == Spec => []TypeOK
<1>1. DocumentsInv => TypeOK
  BY DEF DocumentsInv
<1> QED BY <1>1, DocumentsAlways, PTL

\* However requests for new contracts interleave, the terms the billing
\* worker finds for a day are those agreed last among the contracts started by
\* then: the partial unique index (0008_contracts.py:89-92) is enough.
THEOREM LatestTermsApply == Spec => []LatestAgreedApplies
<1>1. DocumentsInv => LatestAgreedApplies
  BY ChainAppliesLatest DEF DocumentsInv
<1> QED BY <1>1, DocumentsAlways, PTL

\* A row is written only for a document that was, whole, at its final key
\* (archive_worker.py:228-250): the checksum makes up for the staging key that
\* overlapping runs share.
THEOREM RowsSpeakOfStored == Spec => WrittenWasStored
<1>1. DocumentsInv /\ [Next]_vars => [\A w \in Workers : Upsert(w) => run[w].landed]_vars
  BY DEF DocumentsInv, RunInv, Upsert, At
<1> QED BY <1>1, DocumentsAlways, PTL DEF Spec, WrittenWasStored

\* Nothing changes the row of an approved invoice (billing_worker.py:462-509).
THEOREM ApprovedStays == Spec => ApprovedIsFrozen
<1>1. DocumentsInv /\ [Next]_vars => [row.status = "approved" => row' = row]_vars
  <2> SUFFICES ASSUME DocumentsInv, Next, row.status = "approved" PROVE row' = row
    OBVIOUS
  <2>1. kind = "invoice" /\ row \in [status : RowStatus, states : Document]
    BY DEF DocumentsInv, TypeOK, Kinds
  <2>2. CASE \E a \in Admins : ContractStep(a) /\ UNCHANGED documentVars
    BY <2>2 DEF documentVars
  <2>3. CASE DataArrives
    BY <2>3 DEF DataArrives
  <2>4. ASSUME NEW w \in Workers, RunStep(w) PROVE row' = row
    <3>1. CASE Upsert(w)
      BY <2>1, <3>1 DEF Upsert, Save, SaveInvoice
    <3> QED BY <2>4, <3>1 DEF RunStep, Begin, FindContract, Render, Stage, Copy,
               DeleteStaging, Verify, PutProof, RunFails
  <2>5. CASE \E a \in Admins : SeeDraft(a) \/ Approve(a)
    <3>1. [row EXCEPT !.status = "approved"] = row
      BY <2>1
    <3> QED BY <2>5, <3>1 DEF SeeDraft, Approve
  <2> QED BY <2>2, <2>3, <2>4, <2>5 DEF Next
<1> QED BY <1>1, DocumentsAlways, PTL DEF Spec, ApprovedIsFrozen

\* A run that overlapped no other leaves row, object and proof in agreement,
\* whatever crashed before it.
THEOREM NextRunHeals == Spec => LoneRunHeals
<1>1. DocumentsInv /\ [Next]_vars =>
        [\A w \in Workers :
           (run[w].alone /\ row.status # "approved" /\ Upsert(w)) => Agree']_vars
  <2> SUFFICES ASSUME DocumentsInv, NEW w \in Workers,
                      run[w].alone, row.status # "approved", Upsert(w)
               PROVE  Agree'
    OBVIOUS
  <2>1. /\ row' = Save(row, run[w].document)
        /\ UNCHANGED <<kind, final, proof>>
        /\ final = run[w].document
        /\ kind = "archive" => proof = run[w].document
    BY DEF Upsert, At, DocumentsInv, RunInv
  <2>2. CASE kind = "archive"
    BY <2>1, <2>2 DEF Save, LogArchive, Agree
  <2>3. CASE kind # "archive"
    <3>1. row.status \in {"absent", "draft"}
      BY <2>3 DEF DocumentsInv, TypeOK
    <3> QED BY <2>1, <2>3, <3>1 DEF Save, SaveInvoice, Agree
  <2> QED BY <2>2, <2>3
<1> QED BY <1>1, DocumentsAlways, PTL DEF Spec, LoneRunHeals
==============================================================================
