-------------------------- MODULE EngineeringProofs --------------------------
(***************************************************************************)
(* Theorems about bills of materials, their revisions and the change       *)
(* requests for them.                                                      *)
(***************************************************************************)
EXTENDS MCWorks, FiniteSetTheorems, WellFoundedInduction, TLAPS

\* What a request remembers, by the step it is at.
LEMMA RequestFields ==
  ASSUME TypeOK, NEW r \in Requests
  PROVE  /\ At(r, "draft") => req[r].bom \in Boms
         /\ At(r, "item") => /\ req[r].bom \in Boms /\ req[r].line \in Lines
                             /\ req[r].found \in Fields
         /\ At(r, "pending") => req[r].ecr \in ChangeRequests
         /\ At(r, "released") => /\ req[r].bom \in Boms
                                 /\ req[r].header \in Headers \cup {None}
                                 /\ req[r].ecr \in ChangeRequests \cup {None}
         /\ At(r, "copied") => /\ req[r].bom \in Boms
                               /\ req[r].header \in Headers \cup {None}
                               /\ req[r].ecr \in ChangeRequests \cup {None}
                               /\ req[r].items \in Items
<1>1. req[r] \in Request
  BY DEF TypeOK
<1>2. CASE req[r] = Idle
  BY <1>2 DEF Idle, At
<1>3. CASE req[r] \in [step : {"draft"}, bom : Boms]
  BY <1>3 DEF At
<1>4. CASE req[r] \in [step : {"item"}, bom : Boms, line : Lines, found : Fields]
  BY <1>4 DEF At
<1>5. CASE req[r] \in [step : {"pending"}, ecr : ChangeRequests]
  BY <1>5 DEF At
<1>6. CASE req[r] \in [step : {"released"}, bom : Boms, header : Headers \cup {None},
                       ecr : ChangeRequests \cup {None}]
  BY <1>6 DEF At
<1>7. CASE req[r] \in [step : {"copied"}, bom : Boms, header : Headers \cup {None},
                       ecr : ChangeRequests \cup {None}, items : Items]
  BY <1>7 DEF At
<1> QED BY <1>1, <1>2, <1>3, <1>4, <1>5, <1>6, <1>7 DEF Request

\* A request that goes on keeps the type of the requests.
LEMMA BecomesRequest ==
  ASSUME TypeOK, NEW r \in Requests, NEW next \in Request, Becomes(r, next)
  PROVE  /\ req' \in [Requests -> Request]
         /\ req'[r] = next
         /\ \A o \in Requests : o # r => req'[o] = req[o]
BY DEF TypeOK, Becomes

\* The forms a request can have are requests.
LEMMA RequestForms ==
  /\ Idle \in Request
  /\ \A b \in Boms : [step |-> "draft", bom |-> b] \in Request
  /\ \A b \in Boms, l \in Lines, f \in Fields :
       [step |-> "item", bom |-> b, line |-> l, found |-> f] \in Request
  /\ \A e \in ChangeRequests : [step |-> "pending", ecr |-> e] \in Request
  /\ \A b \in Boms, h \in Headers \cup {None}, e \in ChangeRequests \cup {None} :
       [step |-> "released", bom |-> b, header |-> h, ecr |-> e] \in Request
  /\ \A b \in Boms, h \in Headers \cup {None}, e \in ChangeRequests \cup {None}, i \in Items :
       [step |-> "copied", bom |-> b, header |-> h, ecr |-> e, items |-> i] \in Request
BY DEF Request

-----------------------------------------------------------------------------

\* The bill of materials, and the change request, of a request are there.
Sound(q) ==
  /\ q.step \in {"draft", "item"} => boms[q.bom].status # "absent"
  /\ q.step \in {"released", "copied"} => boms[q.bom].status = "released"
  /\ q.step = "pending" => ecrs[q.ecr].status # "absent"
  /\ (q.step \in {"released", "copied"} /\ q.ecr # None) =>
       ecrs[q.ecr].status # "absent" /\ ecrs[q.ecr].bom = q.bom

Refers ==
  /\ \A b \in Boms : boms[b].status = "absent" => boms[b].supersedes = None
  /\ \A r \in Requests : Sound(req[r])
  /\ \A e \in ChangeRequests :
       /\ ecrs[e].status # "absent" => ecrs[e].bom \in Boms
       /\ ecrs[e].status = "approved" => ecrs[e].result \in Boms

Inv == TypeOK /\ Refers /\ LineageHolds

LEMMA InitInv == ASSUME NoneIsNoRow PROVE Init => Inv
<1> SUFFICES ASSUME Init PROVE Inv
  OBVIOUS
<1>1. \A b \in Boms : boms[b].status = "absent" /\ boms[b].header = None
                      /\ boms[b].items = NoItems /\ boms[b].supersedes = None
  BY DEF Init
<1>2. boms \in [Boms -> Bom]
  <2>1. NoItems \in Items
    BY DEF NoItems, Items
  <2> QED BY <2>1 DEF Init, Bom
<1>3. ecrs \in [ChangeRequests -> Ecr]
  BY DEF Init, Ecr
<1>4. req \in [Requests -> Request]
  BY RequestForms DEF Init
<1>5. \A r \in Requests : req[r].step = "idle"
  BY DEF Init, Idle
<1>6. \A e \in ChangeRequests : ecrs[e].status = "absent"
  BY DEF Init
<1> QED BY <1>1, <1>2, <1>3, <1>4, <1>5, <1>6 DEF Inv, TypeOK, Refers, Sound, LineageHolds

-----------------------------------------------------------------------------

\* What a step may change of one row: the kinds of row stay as they are.
LEMMA BomRow ==
  ASSUME TypeOK, NEW b \in Boms
  PROVE  /\ boms[b] \in Bom
         /\ boms[b].items \in Items
         /\ boms[b].header \in Headers \cup {None}
         /\ \A h \in Headers : [boms EXCEPT ![b].header = h] \in [Boms -> Bom]
         /\ \A h \in Headers :
              [boms EXCEPT ![b].status = "draft", ![b].header = h] \in [Boms -> Bom]
         /\ [boms EXCEPT ![b].status = "released"] \in [Boms -> Bom]
         /\ \A l \in Lines, i \in Item \cup {None} :
              [boms EXCEPT ![b].items[l] = i] \in [Boms -> Bom]
<1>1. /\ boms \in [Boms -> Bom] /\ boms[b] \in Bom
      /\ boms[b].items \in Items /\ boms[b].header \in Headers \cup {None}
  BY DEF TypeOK, Bom
<1>2. \A h \in Headers : [boms[b] EXCEPT !.header = h] \in Bom
  BY <1>1 DEF Bom
<1>3. \A h \in Headers : [boms[b] EXCEPT !.status = "draft", !.header = h] \in Bom
  BY <1>1 DEF Bom
<1>4. [boms[b] EXCEPT !.status = "released"] \in Bom
  BY <1>1 DEF Bom
<1>5. \A l \in Lines, i \in Item \cup {None} : [boms[b].items EXCEPT ![l] = i] \in Items
  BY <1>1 DEF Items
<1>6. \A l \in Lines, i \in Item \cup {None} : [boms[b] EXCEPT !.items[l] = i] \in Bom
  BY <1>1, <1>5 DEF Bom
<1> QED BY <1>1, <1>2, <1>3, <1>4, <1>6

\* An item is weighed by its own fields.
LEMMA WeighedItem ==
  ASSUME NEW found, NEW f \in Fields
  PROVE  Weighed(found, f) = [fields |-> f, weighed |-> f] /\ Weighed(found, f) \in Item
BY DEF Weighed, ComputeItem, Item

\* A patch makes fields of fields.
LEMMA MergedFields ==
  ASSUME NEW found \in Fields
  PROVE  Merged(found) \subseteq Fields
BY DEF Merged, Fields

LEMMA TypeStep == ASSUME NoneIsNoRow, Inv, [Next]_vars PROVE TypeOK'
<1>0. TypeOK
  BY DEF Inv
<1> USE <1>0
<1>1. ASSUME NEW b \in Boms, CreateBom(b) PROVE TypeOK'
  <2>1. PICK h \in Headers : boms' = [boms EXCEPT ![b].status = "draft", ![b].header = h]
    BY <1>1 DEF CreateBom
  <2>2. boms' \in [Boms -> Bom]
    BY <2>1, BomRow
  <2> QED BY <1>1, <2>2 DEF CreateBom, TypeOK
<1>2. ASSUME NEW r \in Requests, RequestStep(r) PROVE TypeOK'
  <2> USE RequestForms, BecomesRequest
  <2>f. /\ At(r, "draft") => req[r].bom \in Boms
        /\ At(r, "item") => /\ req[r].bom \in Boms /\ req[r].line \in Lines
                            /\ req[r].found \in Fields
        /\ At(r, "pending") => req[r].ecr \in ChangeRequests
        /\ At(r, "released") => /\ req[r].bom \in Boms
                                /\ req[r].header \in Headers \cup {None}
                                /\ req[r].ecr \in ChangeRequests \cup {None}
        /\ At(r, "copied") => /\ req[r].bom \in Boms
                              /\ req[r].header \in Headers \cup {None}
                              /\ req[r].ecr \in ChangeRequests \cup {None}
                              /\ req[r].items \in Items
    BY RequestFields
  <2> USE <2>f
  <2>1. ASSUME NEW b \in Boms, SeeDraft(r, b) PROVE TypeOK'
    BY <2>1 DEF SeeDraft, TypeOK
  <2>2. ASSUME NEW b \in Boms, SeeReleased(r, b) PROVE TypeOK'
    BY <2>2, BomRow DEF SeeReleased, TypeOK
  <2>3. ASSUME NEW b \in Boms, CommitRevision(r, b) PROVE TypeOK'
    <3>1. [status |-> "draft", header |-> req[r].header, items |-> req[r].items,
           supersedes |-> req[r].bom] \in Bom
      BY <2>3 DEF CommitRevision, Bom
    <3>2. boms' \in [Boms -> Bom]
      BY <2>3, <3>1 DEF CommitRevision, TypeOK
    <3>3. ecrs' \in [ChangeRequests -> Ecr]
      <4>1. CASE req[r].ecr = None
        BY <2>3, <4>1 DEF CommitRevision, TypeOK
      <4>2. CASE req[r].ecr \in ChangeRequests
        <5>1. /\ ecrs[req[r].ecr] \in Ecr
              /\ [ecrs[req[r].ecr] EXCEPT !.status = "approved", !.result = b] \in Ecr
          <6>1. ecrs[req[r].ecr] \in Ecr
            BY <4>2 DEF TypeOK
          <6> QED BY <6>1 DEF Ecr
        <5> QED BY <2>3, <4>2, <5>1 DEF CommitRevision, Approved, TypeOK, NoneIsNoRow
      <4> QED BY <2>3, <4>1, <4>2 DEF CommitRevision
    <3> QED BY <2>3, <3>2, <3>3 DEF CommitRevision, End, TypeOK
  <2>4. ASSUME NEW l \in Lines, AddItem(r, l) PROVE TypeOK'
    <3>1. PICK f \in Fields :
            boms' = [boms EXCEPT ![req[r].bom].items[l] = Weighed(f, f)]
      BY <2>4 DEF AddItem
    <3>2. Weighed(f, f) \in Item
      BY WeighedItem
    <3>3. boms' \in [Boms -> Bom]
      BY <2>4, <3>1, <3>2, BomRow DEF AddItem
    <3> QED BY <2>4, <3>3 DEF AddItem, End, TypeOK
  <2>5. ASSUME NEW l \in Lines, SeeItem(r, l) PROVE TypeOK'
    <3>0. boms[req[r].bom].items \in Items
      BY <2>5, BomRow DEF SeeItem
    <3>1. boms[req[r].bom].items[l] \in Item
      BY <2>5, <3>0 DEF SeeItem, Items
    <3>2. boms[req[r].bom].items[l].fields \in Fields
      BY <3>1 DEF Item
    <3> QED BY <2>5, <3>2 DEF SeeItem, TypeOK
  <2>6. ASSUME NEW l \in Lines, DeleteItem(r, l) PROVE TypeOK'
    BY <2>6, BomRow DEF DeleteItem, End, TypeOK
  <2>7. ASSUME UpdateBom(r) PROVE TypeOK'
    <3>0. PICK h \in Headers : boms' = [boms EXCEPT ![req[r].bom].header = h]
      BY <2>7 DEF UpdateBom
    <3>1. boms' \in [Boms -> Bom]
      BY <2>7, <3>0, BomRow DEF UpdateBom
    <3> QED BY <2>7, <3>1 DEF UpdateBom, End, TypeOK
  <2>8. ASSUME UpdateItem(r) PROVE TypeOK'
    <3>1. PICK f \in Merged(req[r].found) :
            boms' = [boms EXCEPT ![req[r].bom].items[req[r].line] = Weighed(req[r].found, f)]
      BY <2>8 DEF UpdateItem
    <3>2. f \in Fields
      BY <2>8, MergedFields DEF UpdateItem
    <3> QED BY <2>8, <3>1, <3>2, BomRow, WeighedItem DEF UpdateItem, End, TypeOK
  <2>9. ASSUME ReleaseBom(r) PROVE TypeOK'
    BY <2>9, BomRow DEF ReleaseBom, End, TypeOK
  <2>10. ASSUME NEW e \in ChangeRequests, RequestChange(r, e) PROVE TypeOK'
    BY <2>10 DEF RequestChange, End, TypeOK, Ecr
  <2>11. ASSUME NEW e \in ChangeRequests, SeePending(r, e) PROVE TypeOK'
    BY <2>11 DEF SeePending, TypeOK
  <2>12. ASSUME SeeTarget(r) PROVE TypeOK'
    <3>1. ecrs[req[r].ecr].bom \in Boms
      BY <2>12 DEF SeeTarget, Inv, Refers, Sound, At
    <3> QED BY <2>12, <3>1, BomRow DEF SeeTarget, TypeOK
  <2>13. ASSUME Reject(r) PROVE TypeOK'
    BY <2>13 DEF Reject, End, TypeOK, Ecr
  <2>14. ASSUME CopyItems(r) PROVE TypeOK'
    <3>1. NoItems \in Items
      BY DEF NoItems, Items
    <3>2. boms[req[r].bom].items \in Items
      BY <2>14, BomRow DEF CopyItems
    <3>3. PICK h \in Headers \cup {None}, items \in Items :
            Becomes(r, [step |-> "copied", bom |-> req[r].bom, header |-> h,
                        ecr |-> req[r].ecr, items |-> items])
      BY <2>14, <3>1, <3>2 DEF CopyItems
    <3> QED BY <2>14, <3>3 DEF CopyItems, TypeOK
  <2>15. ASSUME Rollback(r) PROVE TypeOK'
    BY <2>15 DEF Rollback, End, TypeOK
  <2> QED
    BY <1>2, <2>1, <2>2, <2>3, <2>4, <2>5, <2>6, <2>7, <2>8, <2>9, <2>10, <2>11, <2>12, <2>13,
       <2>14, <2>15 DEF RequestStep
<1>3. ASSUME UNCHANGED vars PROVE TypeOK'
  BY <1>3 DEF vars, TypeOK
<1> QED BY <1>1, <1>2, <1>3 DEF Next

-----------------------------------------------------------------------------

Links == Refers /\ LineageHolds

\* A step that leaves the change requests and what BOMs supersede alone,
\* makes no BOM disappear or lose its release, and ends a request or none.
LEMMA RowsOnly ==
  ASSUME Inv,
         \A b \in Boms :
           /\ boms'[b].supersedes = boms[b].supersedes
           /\ boms[b].status # "absent" => boms'[b].status # "absent"
           /\ boms[b].status = "released" => boms'[b].status = "released",
         \A r \in Requests : req'[r] = req[r] \/ req'[r] = Idle,
         ecrs' = ecrs
  PROVE  Links'
<1>1. \A b \in Boms : boms[b].supersedes \in Boms \cup {None}
  BY DEF Inv, TypeOK, Bom
<1>2. \A b \in Boms : boms'[b].status = "absent" => boms'[b].supersedes = None
  BY DEF Inv, Refers
<1>3. ASSUME NEW r \in Requests PROVE Sound(req[r])'
  <2>1. CASE req'[r] = Idle
    BY <2>1 DEF Sound, Idle
  <2>2. CASE req'[r] = req[r]
    <3>1. Sound(req[r])
      BY DEF Inv, Refers
    <3>2. req[r].step \in {"draft", "item", "released", "copied"} => req[r].bom \in Boms
      BY RequestFields DEF Inv, At
    <3> QED BY <2>2, <3>1, <3>2 DEF Sound
  <2> QED BY <2>1, <2>2
<1>4. LineageHolds'
  BY <1>1 DEF Inv, Refers, LineageHolds
<1>5. Refers'
  BY <1>2, <1>3 DEF Inv, Refers
<1> QED BY <1>4, <1>5 DEF Links

\* A step of one request that writes no row.
LEMMA RequestOnly ==
  ASSUME Inv, NEW r \in Requests, NEW next \in Request, Becomes(r, next), Sound(next),
         UNCHANGED <<boms, ecrs>>
  PROVE  Links'
<1>1. \A o \in Requests : req'[o] = next \/ req'[o] = req[o]
  BY BecomesRequest DEF Inv
<1>2. ASSUME NEW o \in Requests PROVE Sound(req[o])'
  <2>1. Sound(req[o])
    BY DEF Inv, Refers
  <2> QED BY <1>1, <2>1 DEF Sound
<1> QED BY <1>2 DEF Links, Inv, Refers, LineageHolds

LEMMA LinksStep == ASSUME NoneIsNoRow, Inv, TypeOK', [Next]_vars PROVE Links'
<1>0. TypeOK
  BY DEF Inv
<1>1. ASSUME NEW b \in Boms, CreateBom(b) PROVE Links'
  <2>1. \A c \in Boms : /\ boms'[c].supersedes = boms[c].supersedes
                        /\ boms[c].status # "absent" => boms'[c].status = boms[c].status
    BY <1>0, <1>1 DEF CreateBom, TypeOK, Bom
  <2> QED BY <1>1, <2>1, RowsOnly DEF CreateBom
<1>2. ASSUME NEW r \in Requests, RequestStep(r) PROVE Links'
  <2>f. /\ At(r, "draft") => req[r].bom \in Boms
        /\ At(r, "item") => req[r].bom \in Boms /\ req[r].line \in Lines
        /\ At(r, "pending") => req[r].ecr \in ChangeRequests
        /\ At(r, "released") => /\ req[r].bom \in Boms
                                /\ req[r].header \in Headers \cup {None}
                                /\ req[r].ecr \in ChangeRequests \cup {None}
        /\ At(r, "copied") => /\ req[r].bom \in Boms
                              /\ req[r].header \in Headers \cup {None}
                              /\ req[r].ecr \in ChangeRequests \cup {None}
                              /\ req[r].items \in Items
    BY <1>0, RequestFields
  <2>s. Sound(req[r])
    BY DEF Inv, Refers
  <2>e. ASSUME End(r) PROVE \A o \in Requests : req'[o] = req[o] \/ req'[o] = Idle
    BY <1>0, <2>e, BecomesRequest, RequestForms DEF End
  <2>1. ASSUME NEW b \in Boms, SeeDraft(r, b) PROVE Links'
    <3>1. Sound([step |-> "draft", bom |-> b])
      BY <2>1 DEF SeeDraft, Editable, Sound
    <3> QED BY <2>1, <3>1, RequestForms, RequestOnly DEF SeeDraft
  <2>2. ASSUME NEW b \in Boms, SeeReleased(r, b) PROVE Links'
    <3>1. Sound([step |-> "released", bom |-> b, header |-> boms[b].header, ecr |-> None])
      BY <2>2 DEF SeeReleased, Revisable, Sound
    <3> QED BY <1>0, <2>2, <3>1, BomRow, RequestForms, RequestOnly DEF SeeReleased
  <2>3. ASSUME NEW b \in Boms, CommitRevision(r, b) PROVE Links'
    <3>1. /\ req[r].bom \in Boms /\ boms[req[r].bom].status = "released"
          /\ req[r].bom # b /\ req[r].bom # None
      BY <2>3, <2>f, <2>s DEF CommitRevision, Sound, At, NoneIsNoRow
    <3>2. /\ boms'[b].status = "draft" /\ boms'[b].supersedes = req[r].bom
          /\ \A c \in Boms : c # b => boms'[c] = boms[c]
      BY <1>0, <2>3 DEF CommitRevision, TypeOK
    <3>3. \A e \in ChangeRequests :
            /\ (ecrs[e].status # "absent" <=> ecrs'[e].status # "absent")
            /\ ecrs'[e].bom = ecrs[e].bom
            /\ \/ ecrs'[e].status = ecrs[e].status /\ ecrs'[e].result = ecrs[e].result
               \/ /\ ecrs'[e].result = b /\ ecrs[e].status # "absent"
                  /\ ecrs[e].bom = req[r].bom
      <4>1. CASE req[r].ecr = None
        BY <2>3, <4>1 DEF CommitRevision
      <4>2. CASE req[r].ecr \in ChangeRequests
        <5>1. req[r].ecr # None
          BY <4>2 DEF NoneIsNoRow
        <5>2. ecrs' = Approved(req[r].ecr, b)
          BY <2>3, <5>1 DEF CommitRevision
        <5>3. ecrs[req[r].ecr].status # "absent" /\ ecrs[req[r].ecr].bom = req[r].bom
          BY <2>3, <2>s, <5>1 DEF CommitRevision, Sound, At
        <5>4. ecrs'[req[r].ecr].status = "approved" /\ ecrs'[req[r].ecr].result = b
              /\ ecrs'[req[r].ecr].bom = ecrs[req[r].ecr].bom
          BY <1>0, <4>2, <5>2 DEF Approved, TypeOK, Ecr
        <5>5. \A e \in ChangeRequests : e # req[r].ecr => ecrs'[e] = ecrs[e]
          BY <1>0, <4>2, <5>2 DEF Approved, TypeOK
        <5> QED BY <5>3, <5>4, <5>5
      <4> QED BY <2>3, <2>f, <4>1, <4>2 DEF CommitRevision
    <3>4. \A c \in Boms : /\ boms[c].status # "absent" => boms'[c] = boms[c]
                          /\ boms[c].supersedes # None => boms[c].status # "absent"
      BY <2>3, <3>2 DEF CommitRevision, Inv, Refers
    <3>5. LineageHolds'
      <4>1. ASSUME NEW c \in Boms, boms'[c].supersedes # None
            PROVE  boms'[c].status # "absent" /\ boms'[boms'[c].supersedes].status = "released"
        <5>1. CASE c = b
          BY <3>1, <3>2, <5>1
        <5>2. CASE c # b
          <6>1. boms'[c] = boms[c] /\ boms[c].supersedes \in Boms
            BY <1>0, <3>2, <4>1, <5>2 DEF TypeOK, Bom
          <6> QED BY <3>4, <4>1, <6>1 DEF Inv, LineageHolds
        <5> QED BY <5>1, <5>2
      <4>2. ASSUME NEW e \in ChangeRequests
            PROVE  /\ ecrs'[e].status # "absent" => boms'[ecrs'[e].bom].status = "released"
                   /\ ecrs'[e].status = "approved" => boms'[ecrs'[e].result].supersedes = ecrs'[e].bom
        <5>1. ecrs[e].status # "absent" =>
                ecrs[e].bom \in Boms /\ boms[ecrs[e].bom].status = "released"
          BY DEF Inv, Refers, LineageHolds
        <5>2. ecrs[e].status = "approved" =>
                /\ ecrs[e].result \in Boms /\ boms[ecrs[e].result].supersedes = ecrs[e].bom
                /\ ecrs[e].bom # None
          BY <5>1 DEF Inv, Refers, LineageHolds, NoneIsNoRow
        <5> QED BY <3>2, <3>3, <3>4, <5>1, <5>2
      <4> QED BY <4>1, <4>2 DEF LineageHolds
    <3>6. \A o \in Requests : Sound(req[o])'
      <4> TAKE o \in Requests
      <4>1. CASE req'[o] = Idle
        BY <4>1 DEF Sound, Idle
      <4>2. CASE req'[o] = req[o]
        <5>1. /\ Sound(req[o])
              /\ req[o].step \in {"draft", "item", "released", "copied"} => req[o].bom \in Boms
              /\ req[o].step = "pending" => req[o].ecr \in ChangeRequests
              /\ req[o].step \in {"released", "copied"} => req[o].ecr \in ChangeRequests \cup {None}
          BY <1>0, RequestFields DEF Inv, Refers, At
        <5> QED BY <3>3, <3>4, <4>2, <5>1 DEF Sound
      <4> QED BY <2>3, <2>e, <4>1, <4>2 DEF CommitRevision
    <3>7. Refers'
      <4>1. \A c \in Boms : boms'[c].status = "absent" => boms'[c].supersedes = None
        BY <3>2 DEF Inv, Refers
      <4>2. \A e \in ChangeRequests :
              /\ ecrs'[e].status # "absent" => ecrs'[e].bom \in Boms
              /\ ecrs'[e].status = "approved" => ecrs'[e].result \in Boms
        BY <3>3 DEF Inv, Refers
      <4> QED BY <3>6, <4>1, <4>2 DEF Refers
    <3> QED BY <3>5, <3>7 DEF Links
  <2>4. ASSUME NEW l \in Lines, AddItem(r, l) PROVE Links'
    <3>1. \A b \in Boms : boms'[b].supersedes = boms[b].supersedes /\ boms'[b].status = boms[b].status
      BY <1>0, <2>4, <2>f DEF AddItem, TypeOK, Bom
    <3> QED BY <2>4, <2>e, <3>1, RowsOnly DEF AddItem
  <2>5. ASSUME NEW l \in Lines, SeeItem(r, l) PROVE Links'
    <3> DEFINE next == [step |-> "item", bom |-> req[r].bom, line |-> l,
                        found |-> boms[req[r].bom].items[l].fields]
    <3>1. Sound(next)
      BY <2>5, <2>s DEF SeeItem, Sound, At
    <3>2. next \in Request
      <4>0. boms[req[r].bom].items \in Items
        BY <1>0, <2>5, <2>f, BomRow DEF SeeItem
      <4>1. boms[req[r].bom].items[l] \in Item
        BY <2>5, <4>0 DEF SeeItem, Items
      <4>2. boms[req[r].bom].items[l].fields \in Fields
        BY <4>1 DEF Item
      <4> QED BY <2>5, <2>f, <4>2, RequestForms DEF SeeItem
    <3> QED BY <2>5, <3>1, <3>2, RequestOnly DEF SeeItem
  <2>6. ASSUME NEW l \in Lines, DeleteItem(r, l) PROVE Links'
    <3>1. \A b \in Boms : boms'[b].supersedes = boms[b].supersedes /\ boms'[b].status = boms[b].status
      BY <1>0, <2>6, <2>f DEF DeleteItem, TypeOK, Bom
    <3> QED BY <2>6, <2>e, <3>1, RowsOnly DEF DeleteItem
  <2>7. ASSUME UpdateBom(r) PROVE Links'
    <3>1. \A b \in Boms : boms'[b].supersedes = boms[b].supersedes /\ boms'[b].status = boms[b].status
      BY <1>0, <2>7, <2>f DEF UpdateBom, TypeOK, Bom
    <3> QED BY <2>7, <2>e, <3>1, RowsOnly DEF UpdateBom
  <2>8. ASSUME UpdateItem(r) PROVE Links'
    <3>1. \A b \in Boms : boms'[b].supersedes = boms[b].supersedes /\ boms'[b].status = boms[b].status
      BY <1>0, <2>8, <2>f DEF UpdateItem, TypeOK, Bom
    <3> QED BY <2>8, <2>e, <3>1, RowsOnly DEF UpdateItem
  <2>9. ASSUME ReleaseBom(r) PROVE Links'
    <3>1. \A b \in Boms : /\ boms'[b].supersedes = boms[b].supersedes
                          /\ boms'[b].status \in {boms[b].status, "released"}
      BY <1>0, <2>9, <2>f DEF ReleaseBom, TypeOK, Bom
    <3> QED BY <2>9, <2>e, <3>1, RowsOnly DEF ReleaseBom
  <2>10. ASSUME NEW e \in ChangeRequests, RequestChange(r, e) PROVE Links'
    <3>1. /\ req[r].bom \in Boms /\ boms[req[r].bom].status = "released"
      BY <2>10, <2>f, <2>s DEF RequestChange, Sound, At
    <3>2. /\ ecrs'[e] = [status |-> "pending", bom |-> req[r].bom, result |-> None]
          /\ \A o \in ChangeRequests : o # e => ecrs'[o] = ecrs[o]
          /\ ecrs[e].status = "absent" /\ boms' = boms
      BY <1>0, <2>10 DEF RequestChange, TypeOK
    <3>3. \A o \in Requests : Sound(req[o])'
      <4> TAKE o \in Requests
      <4>1. CASE req'[o] = Idle
        BY <4>1 DEF Sound, Idle
      <4>2. CASE req'[o] = req[o]
        <5>1. /\ Sound(req[o])
              /\ req[o].step = "pending" => req[o].ecr \in ChangeRequests
              /\ req[o].step \in {"released", "copied"} => req[o].ecr \in ChangeRequests \cup {None}
          BY <1>0, RequestFields DEF Inv, Refers, At
        <5> QED BY <3>2, <4>2, <5>1 DEF Sound
      <4> QED BY <2>10, <2>e, <4>1, <4>2 DEF RequestChange
    <3>4. Refers'
      BY <3>1, <3>2, <3>3 DEF Inv, Refers
    <3>5. LineageHolds'
      BY <3>1, <3>2 DEF Inv, Refers, LineageHolds
    <3> QED BY <3>4, <3>5 DEF Links
  <2>11. ASSUME NEW e \in ChangeRequests, SeePending(r, e) PROVE Links'
    <3>1. Sound([step |-> "pending", ecr |-> e])
      BY <2>11 DEF SeePending, Sound
    <3> QED BY <2>11, <3>1, RequestForms, RequestOnly DEF SeePending
  <2>12. ASSUME SeeTarget(r) PROVE Links'
    <3> DEFINE e == req[r].ecr
               b == ecrs[e].bom
    <3>1. /\ e \in ChangeRequests /\ ecrs[e].status # "absent"
          /\ b \in Boms /\ boms[b].status = "released"
      BY <2>12, <2>f, <2>s DEF SeeTarget, Sound, At, Revisable, Inv, Refers
    <3>2. Sound([step |-> "released", bom |-> b, header |-> boms[b].header, ecr |-> e])
      BY <3>1 DEF Sound
    <3>3. boms[b].header \in Headers \cup {None}
      BY <1>0, <3>1, BomRow
    <3>4. [step |-> "released", bom |-> b, header |-> boms[b].header, ecr |-> e] \in Request
      BY <3>1, <3>3, RequestForms
    <3> QED BY <2>12, <3>2, <3>4, RequestOnly DEF SeeTarget
  <2>13. ASSUME Reject(r) PROVE Links'
    <3>1. req[r].ecr \in ChangeRequests /\ ecrs[req[r].ecr].status # "absent"
      BY <2>13, <2>f, <2>s DEF Reject, Sound, At
    <3>2. /\ ecrs'[req[r].ecr].status = "rejected"
          /\ ecrs'[req[r].ecr].bom = ecrs[req[r].ecr].bom
          /\ \A o \in ChangeRequests : o # req[r].ecr => ecrs'[o] = ecrs[o]
          /\ boms' = boms
      BY <1>0, <2>13, <3>1 DEF Reject, TypeOK, Ecr
    <3>3. \A o \in Requests : Sound(req[o])'
      <4> TAKE o \in Requests
      <4>1. CASE req'[o] = Idle
        BY <4>1 DEF Sound, Idle
      <4>2. CASE req'[o] = req[o]
        <5>1. /\ Sound(req[o])
              /\ req[o].step = "pending" => req[o].ecr \in ChangeRequests
              /\ req[o].step \in {"released", "copied"} => req[o].ecr \in ChangeRequests \cup {None}
          BY <1>0, RequestFields DEF Inv, Refers, At
        <5> QED BY <3>1, <3>2, <4>2, <5>1 DEF Sound
      <4> QED BY <2>13, <2>e, <4>1, <4>2 DEF Reject
    <3>4. Refers'
      BY <3>1, <3>2, <3>3 DEF Inv, Refers
    <3>5. LineageHolds'
      BY <3>1, <3>2 DEF Inv, Refers, LineageHolds
    <3> QED BY <3>4, <3>5 DEF Links
  <2>14. ASSUME CopyItems(r) PROVE Links'
    <3>1. NoItems \in Items /\ boms[req[r].bom].items \in Items
      BY <1>0, <2>14, <2>f, BomRow DEF CopyItems, NoItems, Items
    <3>2. PICK h \in Headers \cup {None}, items \in Items :
            Becomes(r, [step |-> "copied", bom |-> req[r].bom, header |-> h,
                        ecr |-> req[r].ecr, items |-> items])
      BY <2>14, <2>f, <3>1 DEF CopyItems
    <3>3. Sound([step |-> "copied", bom |-> req[r].bom, header |-> h,
                 ecr |-> req[r].ecr, items |-> items])
      BY <2>14, <2>s DEF CopyItems, Sound, At
    <3>4. [step |-> "copied", bom |-> req[r].bom, header |-> h,
           ecr |-> req[r].ecr, items |-> items] \in Request
      BY <2>14, <2>f, RequestForms DEF CopyItems
    <3> QED BY <2>14, <3>2, <3>3, <3>4, RequestOnly DEF CopyItems
  <2>15. ASSUME Rollback(r) PROVE Links'
    BY <2>15, <2>e, RowsOnly DEF Rollback
  <2> QED
    BY <1>2, <2>1, <2>2, <2>3, <2>4, <2>5, <2>6, <2>7, <2>8, <2>9, <2>10, <2>11, <2>12, <2>13,
       <2>14, <2>15 DEF RequestStep
<1>3. ASSUME UNCHANGED vars PROVE Links'
  BY <1>3, RowsOnly DEF vars
<1> QED BY <1>1, <1>2, <1>3 DEF Next

LEMMA InvStep == ASSUME NoneIsNoRow, Inv, [Next]_vars PROVE Inv'
BY TypeStep, LinksStep DEF Inv, Links

LEMMA AlwaysInv == ASSUME NoneIsNoRow PROVE Spec => []Inv
<1>1. Init => Inv
  BY InitInv
<1>2. Inv /\ [Next]_vars => Inv'
  BY InvStep
<1> QED BY <1>1, <1>2, PTL DEF Spec

\* Every variable keeps its type.
THEOREM EngineeringTypeCorrect == ASSUME NoneIsNoRow PROVE Spec => []TypeOK
<1>1. Inv => TypeOK
  BY DEF Inv
<1> QED BY <1>1, AlwaysInv, PTL

\* Lineage (erp_boms.py:384-438, 526-576): a revision supersedes a released
\* BOM, and an approved change request has its revision, however many
\* requests overlap and whatever they found has changed since.
THEOREM LineageStands == ASSUME NoneIsNoRow PROVE Spec => []LineageHolds
<1>1. Inv => LineageHolds
  BY DEF Inv
<1> QED BY <1>1, AlwaysInv, PTL

-----------------------------------------------------------------------------

\* Frozen rows: what can change a released BOM is a request that found it a
\* draft before it was released (erp_boms.py:207-214, 364-381).
Frozen ==
  \A b \in Boms :
    (boms[b].status = "released" /\ \A r \in Requests : ~FoundDraft(r, b)) => boms'[b] = boms[b]

LEMMA FrozenStep == ASSUME Inv, Next PROVE Frozen
<1> SUFFICES ASSUME NEW b \in Boms, boms[b].status = "released",
                    \A r \in Requests : ~FoundDraft(r, b)
             PROVE  boms'[b] = boms[b]
  BY DEF Frozen
<1>0. boms \in [Boms -> Bom]
  BY DEF Inv, TypeOK
<1>1. ASSUME NEW c \in Boms, CreateBom(c) PROVE boms'[b] = boms[b]
  BY <1>0, <1>1 DEF CreateBom
<1>2. ASSUME NEW r \in Requests, RequestStep(r) PROVE boms'[b] = boms[b]
  <2>1. At(r, "draft") \/ At(r, "item") => req[r].bom # b /\ req[r].bom \in Boms
    BY RequestFields DEF FoundDraft, At, Inv
  <2>2. ASSUME NEW c \in Boms, CommitRevision(r, c) PROVE boms'[b] = boms[b]
    BY <1>0, <2>2 DEF CommitRevision
  <2>3. ASSUME \/ UpdateBom(r) \/ UpdateItem(r) \/ ReleaseBom(r)
               \/ \E l \in Lines : AddItem(r, l) \/ DeleteItem(r, l)
        PROVE  boms'[b] = boms[b]
    BY <1>0, <2>1, <2>3 DEF UpdateBom, UpdateItem, ReleaseBom, AddItem, DeleteItem
  <2>4. ASSUME \/ \E c \in Boms : SeeDraft(r, c) \/ SeeReleased(r, c)
               \/ \E l \in Lines : SeeItem(r, l)
               \/ \E e \in ChangeRequests : RequestChange(r, e) \/ SeePending(r, e)
               \/ SeeTarget(r) \/ Reject(r) \/ CopyItems(r) \/ Rollback(r)
        PROVE  boms'[b] = boms[b]
    BY <2>4 DEF SeeDraft, SeeReleased, SeeItem, RequestChange, SeePending, SeeTarget, Reject,
                CopyItems, Rollback
  <2> QED BY <1>2, <2>2, <2>3, <2>4 DEF RequestStep
<1> QED BY <1>1, <1>2 DEF Next

\* A released BOM that no earlier request still has for a draft does not
\* change any more (erp_boms.py:1-2).
THEOREM ReleasedStays == ASSUME NoneIsNoRow PROVE Spec => ReleasedAndQuietIsFrozen
<1>1. Inv /\ [Next]_vars => [Frozen]_vars
  BY FrozenStep
<1>2. Spec => [][Frozen]_vars
  BY <1>1, AlwaysInv, PTL DEF Spec
<1>3. [][Frozen]_vars <=> ReleasedAndQuietIsFrozen
  BY DEF Frozen, ReleasedAndQuietIsFrozen
<1> QED BY <1>2, <1>3

-----------------------------------------------------------------------------

LEMMA WeighedStep ==
  ASSUME NoneIsNoRow, Inv, ItemsAreWeighedAsTheyStand, [Next]_vars
  PROVE  ItemsAreWeighedAsTheyStand'
<1> DEFINE Good(items) == \A l \in Lines : items[l] # None => items[l].weighed = items[l].fields
<1>0. /\ TypeOK
      /\ \A b \in Boms : Good(boms[b].items) /\ boms[b].items \in Items
      /\ \A r \in Requests : At(r, "copied") => Good(req[r].items)
  BY BomRow DEF Inv, ItemsAreWeighedAsTheyStand
<1>s. ASSUME \A b \in Boms : Good(boms'[b].items),
             \A r \in Requests : At(r, "copied")' => Good(req'[r].items)
      PROVE  ItemsAreWeighedAsTheyStand'
  BY <1>s DEF ItemsAreWeighedAsTheyStand
<1>i. ASSUME NEW b \in Boms, NEW l \in Lines, NEW i,
             i = None \/ i.weighed = i.fields,
             boms' = [boms EXCEPT ![b].items[l] = i]
      PROVE  \A c \in Boms : Good(boms'[c].items)
  <2>1. boms'[b].items = [boms[b].items EXCEPT ![l] = i]
        /\ \A c \in Boms : c # b => boms'[c] = boms[c]
    BY <1>0, <1>i DEF TypeOK, Bom
  <2>2. Good(boms'[b].items)
    BY <1>0, <1>i, <2>1 DEF Items
  <2>3. ASSUME NEW c \in Boms, c # b PROVE Good(boms'[c].items)
    BY <1>0, <2>1, <2>3
  <2> QED BY <2>2, <2>3
<1>r. ASSUME NEW r \in Requests, NEW next \in Request, Becomes(r, next), next.step # "copied"
      PROVE  \A o \in Requests : At(o, "copied")' => Good(req'[o].items)
  BY <1>0, <1>r, BecomesRequest DEF At
<1>e. ASSUME NEW r \in Requests, End(r)
      PROVE  \A o \in Requests : At(o, "copied")' => Good(req'[o].items)
  BY <1>e, <1>r, RequestForms DEF End, Idle
<1>1. ASSUME NEW b \in Boms, CreateBom(b) PROVE ItemsAreWeighedAsTheyStand'
  <2>1. \A c \in Boms : boms'[c].items = boms[c].items
    BY <1>0, <1>1 DEF CreateBom, TypeOK, Bom
  <2>2. \A c \in Boms : Good(boms'[c].items)
    BY <1>0, <2>1
  <2>3. \A r \in Requests : At(r, "copied")' => Good(req'[r].items)
    BY <1>0, <1>1 DEF CreateBom, At
  <2> QED BY <1>s, <2>2, <2>3
<1>2. ASSUME NEW r \in Requests, RequestStep(r) PROVE ItemsAreWeighedAsTheyStand'
  <2>f. /\ At(r, "draft") => req[r].bom \in Boms
        /\ At(r, "item") => /\ req[r].bom \in Boms /\ req[r].line \in Lines
                            /\ req[r].found \in Fields
        /\ At(r, "copied") => req[r].items \in Items
    BY <1>0, RequestFields
  <2>1. ASSUME NEW b \in Boms, CommitRevision(r, b) PROVE ItemsAreWeighedAsTheyStand'
    <3>1. boms'[b].items = req[r].items /\ \A c \in Boms : c # b => boms'[c] = boms[c]
      BY <1>0, <2>1 DEF CommitRevision, TypeOK
    <3>2. Good(req[r].items)
      BY <1>0, <2>1 DEF CommitRevision
    <3>3. \A c \in Boms : Good(boms'[c].items)
      BY <1>0, <3>1, <3>2
    <3> QED BY <1>e, <1>s, <2>1, <3>3 DEF CommitRevision
  <2>2. ASSUME NEW l \in Lines, AddItem(r, l) PROVE ItemsAreWeighedAsTheyStand'
    <3>1. PICK f \in Fields : boms' = [boms EXCEPT ![req[r].bom].items[l] = Weighed(f, f)]
      BY <2>2 DEF AddItem
    <3>2. Weighed(f, f).weighed = Weighed(f, f).fields
      BY WeighedItem
    <3>3. \A c \in Boms : Good(boms'[c].items)
      BY <1>i, <2>2, <2>f, <3>1, <3>2 DEF AddItem
    <3> QED BY <1>e, <1>s, <2>2, <3>3 DEF AddItem
  <2>3. ASSUME UpdateItem(r) PROVE ItemsAreWeighedAsTheyStand'
    <3>1. PICK f \in Merged(req[r].found) :
            boms' = [boms EXCEPT ![req[r].bom].items[req[r].line] = Weighed(req[r].found, f)]
      BY <2>3 DEF UpdateItem
    <3>2. f \in Fields
      BY <2>3, <2>f, MergedFields DEF UpdateItem
    <3>3. Weighed(req[r].found, f).weighed = Weighed(req[r].found, f).fields
      BY <3>2, WeighedItem
    <3>4. \A c \in Boms : Good(boms'[c].items)
      BY <1>i, <2>3, <2>f, <3>1, <3>3 DEF UpdateItem
    <3> QED BY <1>e, <1>s, <2>3, <3>4 DEF UpdateItem
  <2>4. ASSUME NEW l \in Lines, DeleteItem(r, l) PROVE ItemsAreWeighedAsTheyStand'
    <3>1. \A c \in Boms : Good(boms'[c].items)
      BY <1>i, <2>4, <2>f DEF DeleteItem
    <3> QED BY <1>e, <1>s, <2>4, <3>1 DEF DeleteItem
  <2>5. ASSUME UpdateBom(r) \/ ReleaseBom(r) PROVE ItemsAreWeighedAsTheyStand'
    <3>1. \A c \in Boms : boms'[c].items = boms[c].items
      <4>1. CASE UpdateBom(r)
        BY <1>0, <2>f, <4>1 DEF UpdateBom, TypeOK, Bom
      <4>2. CASE ReleaseBom(r)
        BY <1>0, <2>f, <4>2 DEF ReleaseBom, TypeOK, Bom
      <4> QED BY <2>5, <4>1, <4>2
    <3>2. End(r)
      BY <2>5 DEF UpdateBom, ReleaseBom
    <3>3. \A c \in Boms : Good(boms'[c].items)
      BY <1>0, <3>1
    <3> QED BY <1>e, <1>s, <3>2, <3>3
  <2>6. ASSUME \/ \E e \in ChangeRequests : RequestChange(r, e)
               \/ Reject(r) \/ Rollback(r)
        PROVE  ItemsAreWeighedAsTheyStand'
    <3>1. boms' = boms /\ End(r)
      BY <2>6 DEF RequestChange, Reject, Rollback
    <3>2. \A c \in Boms : Good(boms'[c].items)
      BY <1>0, <3>1
    <3> QED BY <1>e, <1>s, <3>1, <3>2
  <2>7. ASSUME \/ \E b \in Boms : SeeDraft(r, b) \/ SeeReleased(r, b)
               \/ \E l \in Lines : SeeItem(r, l)
               \/ \E e \in ChangeRequests : SeePending(r, e)
               \/ SeeTarget(r)
        PROVE  ItemsAreWeighedAsTheyStand'
    <3>1. PICK next : Becomes(r, next) /\ next.step # "copied" /\ boms' = boms
      BY <2>7 DEF SeeDraft, SeeReleased, SeeItem, SeePending, SeeTarget
    <3>2. \A o \in Requests : req'[o] = next \/ req'[o] = req[o]
      BY <1>0, <3>1 DEF Becomes, TypeOK
    <3>a. \A c \in Boms : Good(boms'[c].items)
      BY <1>0, <3>1
    <3>b. \A o \in Requests : At(o, "copied")' => Good(req'[o].items)
      BY <1>0, <3>1, <3>2 DEF At
    <3> QED BY <1>s, <3>a, <3>b
  <2>8. ASSUME CopyItems(r) PROVE ItemsAreWeighedAsTheyStand'
    <3>1. Good(NoItems)
      BY DEF NoItems
    <3>2. req[r].bom \in Boms
      BY <1>0, <2>8, RequestFields DEF CopyItems
    <3>3. PICK next : Becomes(r, next) /\ Good(next.items) /\ boms' = boms
      BY <1>0, <2>8, <3>1, <3>2 DEF CopyItems
    <3>4. \A o \in Requests : req'[o] = next \/ req'[o] = req[o]
      BY <1>0, <3>3 DEF Becomes, TypeOK
    <3>a. \A c \in Boms : Good(boms'[c].items)
      BY <1>0, <3>3
    <3>b. \A o \in Requests : At(o, "copied")' => Good(req'[o].items)
      BY <1>0, <3>3, <3>4 DEF At
    <3> QED BY <1>s, <3>a, <3>b
  <2> QED BY <1>2, <2>1, <2>2, <2>3, <2>4, <2>5, <2>6, <2>7, <2>8 DEF RequestStep
<1>3. ASSUME UNCHANGED vars PROVE ItemsAreWeighedAsTheyStand'
  <2>1. \A c \in Boms : Good(boms'[c].items)
    BY <1>0, <1>3 DEF vars
  <2>2. \A r \in Requests : At(r, "copied")' => Good(req'[r].items)
    BY <1>0, <1>3 DEF vars, At
  <2> QED BY <1>s, <2>1, <2>2
<1> QED BY <1>1, <1>2, <1>3 DEF Next

\* However patches of one item overlap, its weight and cost are computed
\* from the fields it has, and so are those of the items a revision copies
\* (erp_boms.py:285-343).
THEOREM WeightsAgree == ASSUME NoneIsNoRow PROVE Spec => []ItemsAreWeighedAsTheyStand
<1>1. Init => ItemsAreWeighedAsTheyStand
  BY DEF Init, Idle, At, NoItems, ItemsAreWeighedAsTheyStand
<1>2. Inv /\ ItemsAreWeighedAsTheyStand /\ [Next]_vars => ItemsAreWeighedAsTheyStand'
  BY WeighedStep
<1> QED BY <1>1, <1>2, AlwaysInv, PTL DEF Spec
-----------------------------------------------------------------------------
(* The modules that are checked together *)

\* Each step is one of one module, and leaves the others alone.
LEMMA WorksSteps ==
  ASSUME [WorksNext]_works_
  PROVE  /\ focus' = focus
         /\ [Next]_vars /\ [D!Next]_(D!vars) /\ [I!Next]_(I!vars)
         /\ [O!Next]_(O!vars) /\ [S!Next]_(S!vars)
<1> USE DEF vars, drawings_, inventory_, offtake_, statuses_, D!vars, I!vars, O!vars, S!vars
<1>1. CASE EngineeringStep
  BY <1>1 DEF EngineeringStep
<1>2. CASE DrawingStep
  BY <1>2 DEF DrawingStep
<1>3. CASE InventoryStep
  BY <1>3 DEF InventoryStep
<1>4. CASE OfftakeStep
  BY <1>4 DEF OfftakeStep
<1>5. CASE StatusStep
  BY <1>5 DEF StatusStep
<1>6. CASE UNCHANGED works_
  BY <1>6 DEF works_
<1> QED BY <1>1, <1>2, <1>3, <1>4, <1>5, <1>6 DEF WorksNext

-----------------------------------------------------------------------------
(* Offtake *)

\* What a clerk of the offtake remembers, by the step he is at.
LEMMA SellerFields ==
  ASSUME O!TypeOK, NEW c \in Requests
  PROVE  O!At(c, "render") \/ O!At(c, "uploaded") => seller[c].made \in O!Certificate
<1>1. seller[c] \in O!Clerk
  BY DEF O!TypeOK
<1>2. CASE seller[c] \in [step : {"render", "uploaded"}, made : O!Certificate]
  BY <1>2
<1>3. CASE seller[c] \in {O!Idle} \cup [step : {"qc", "allocate", "dispatch"}]
  BY <1>3 DEF O!Idle, O!At
<1> QED BY <1>1, <1>2, <1>3 DEF O!Clerk

LEMMA SellerForms ==
  /\ O!Idle \in O!Clerk
  /\ \A s \in {"qc", "allocate", "dispatch"} : [step |-> s] \in O!Clerk
  /\ \A s \in {"render", "uploaded"}, k \in O!Certificate : [step |-> s, made |-> k] \in O!Clerk
BY DEF O!Clerk

LEMMA SellerBecomes ==
  ASSUME O!TypeOK, NEW c \in Requests, NEW next \in O!Clerk, O!Becomes(c, next)
  PROVE  /\ seller' \in [Requests -> O!Clerk] /\ seller'[c] = next
         /\ \A o \in Requests : o # c => seller'[o] = seller[o]
BY DEF O!TypeOK, O!Becomes

\* A batch that a request has found stays.
FoundIsThere == \A c \in Requests : ~O!At(c, "idle") => batch.status # "absent"

OfftakeInv == O!TypeOK /\ FoundIsThere /\ O!SoldHasPassed

LEMMA OfftakeInit == O!Init => OfftakeInv
<1> SUFFICES ASSUME O!Init PROVE OfftakeInv
  OBVIOUS
<1>1. O!TypeOK
  BY SellerForms DEF O!Init, O!TypeOK, O!Batch, O!Stages, O!Qc
<1> QED BY <1>1 DEF O!Init, O!Idle, O!At, OfftakeInv, FoundIsThere, O!SoldHasPassed

\* An UPDATE that passes the constraints.
LEMMA UpdateSells ==
  ASSUME OfftakeInv, NEW c \in Requests, NEW b \in O!Batch, ~O!At(c, "idle"), O!Update(c, b),
         b.status # "absent",
         b.status \in {"allocated", "dispatched"} => b.buyer # None
  PROVE  OfftakeInv'
<1>1. /\ batch' = b /\ certificate' = certificate /\ O!Constraints(b)
      /\ seller' \in [Requests -> O!Clerk]
  BY SellerForms, SellerBecomes DEF OfftakeInv, O!Update, O!End
<1>2. O!TypeOK'
  BY <1>1 DEF OfftakeInv, O!TypeOK
<1>3. FoundIsThere'
  BY <1>1 DEF FoundIsThere
<1>4. O!SoldHasPassed'
  BY <1>1 DEF O!SoldHasPassed, O!Constraints, O!Batch, O!Stages, O!Qc
<1> QED BY <1>2, <1>3, <1>4 DEF OfftakeInv

LEMMA FindKeeps ==
  ASSUME OfftakeInv, NEW c \in Requests, NEW found \in O!Clerk, O!Find(c, found)
  PROVE  OfftakeInv'
<1>1. /\ UNCHANGED <<batch, certificate>> /\ batch.status # "absent"
      /\ seller' \in [Requests -> O!Clerk]
  BY SellerBecomes DEF OfftakeInv, O!Find
<1> QED BY <1>1 DEF OfftakeInv, O!TypeOK, FoundIsThere, O!SoldHasPassed

LEMMA OfftakeNext ==
  ASSUME O!NobodyIsNoBuyer, OfftakeInv, [O!Next]_(O!vars)
  PROVE  OfftakeInv'
<1>0. O!TypeOK /\ FoundIsThere /\ O!SoldHasPassed /\ batch \in O!Batch
  BY DEF OfftakeInv, O!TypeOK
<1>1. CASE O!CreateBatch
  <2>1. batch' \in O!Batch /\ batch'.status = "produced" /\ batch'.qc = batch.qc
    BY <1>0, <1>1 DEF O!CreateBatch, O!Batch, O!Stages
  <2>2. UNCHANGED <<certificate, seller>>
    BY <1>1 DEF O!CreateBatch
  <2> QED BY <1>0, <2>1, <2>2 DEF OfftakeInv, O!TypeOK, FoundIsThere, O!SoldHasPassed, O!At
<1>2. ASSUME NEW c \in Requests, O!RecordQc(c) PROVE OfftakeInv'
  <2>1. PICK result \in {"passed", "failed"} : O!Update(c, [batch EXCEPT !.qc = result])
    BY <1>2 DEF O!RecordQc
  <2> DEFINE b == [batch EXCEPT !.qc = result]
  <2>2. b \in O!Batch /\ b.status = batch.status /\ b.buyer = batch.buyer
    BY <1>0 DEF O!Batch, O!Qc
  <2>3. ~O!At(c, "idle")
    BY <1>2 DEF O!RecordQc, O!At
  <2> HIDE DEF b
  <2> QED BY <1>0, <2>1, <2>2, <2>3, UpdateSells DEF b, FoundIsThere, O!SoldHasPassed
<1>3. ASSUME NEW c \in Requests, O!Allocate(c) PROVE OfftakeInv'
  <2>1. PICK y \in Buyers : O!Update(c, [batch EXCEPT !.status = "allocated", !.buyer = y])
    BY <1>3 DEF O!Allocate
  <2> DEFINE b == [batch EXCEPT !.status = "allocated", !.buyer = y]
  <2>2. b \in O!Batch /\ b.status = "allocated" /\ b.buyer = y /\ y # None
    BY <1>0 DEF O!Batch, O!Stages, O!NobodyIsNoBuyer
  <2>3. ~O!At(c, "idle")
    BY <1>3 DEF O!Allocate, O!At
  <2> HIDE DEF b
  <2> QED BY <1>0, <2>1, <2>2, <2>3, UpdateSells DEF b
<1>4. ASSUME NEW c \in Requests, O!Dispatch(c) PROVE OfftakeInv'
  <2> DEFINE b == [batch EXCEPT !.status = "dispatched"]
  <2>1. O!Update(c, b) /\ ~O!At(c, "idle")
    BY <1>4 DEF O!Dispatch, O!At
  <2>2. b \in O!Batch /\ b.status = "dispatched"
    BY <1>0 DEF O!Batch, O!Stages
  <2>3. b.buyer # None
    BY <2>1, <2>2 DEF O!Update, O!Constraints
  <2> HIDE DEF b
  <2> QED BY <1>0, <2>1, <2>2, <2>3, UpdateSells
<1>5. ASSUME NEW c \in Requests, O!RecordCertificate(c) PROVE OfftakeInv'
  <2> DEFINE b == [batch EXCEPT !.coa = seller[c].made]
  <2>1. O!Update(c, b) /\ ~O!At(c, "idle")
    BY <1>5 DEF O!RecordCertificate, O!At
  <2>2. b \in O!Batch /\ b.status = batch.status /\ b.buyer = batch.buyer
    BY <1>0, <1>5, SellerFields DEF O!RecordCertificate, O!Batch
  <2> HIDE DEF b
  <2> QED BY <1>0, <2>1, <2>2, UpdateSells DEF FoundIsThere, O!SoldHasPassed
<1>6. ASSUME NEW c \in Requests,
             O!SeePending(c) \/ O!SeeProduced(c) \/ O!SeeAllocated(c) \/ O!RenderCertificate(c)
      PROVE  OfftakeInv'
  <2>1. batch.qc \in O!Qc
    BY <1>0 DEF O!Batch
  <2>2. [qc |-> batch.qc, by |-> c] \in O!Certificate
    BY <2>1 DEF O!Certificate
  <2> QED BY <1>0, <1>6, <2>2, SellerForms, FindKeeps DEF O!SeePending, O!SeeProduced, O!SeeAllocated, O!RenderCertificate
<1>7. ASSUME NEW c \in Requests, O!UploadCertificate(c) PROVE OfftakeInv'
  <2>1. /\ certificate' \in O!Certificate /\ UNCHANGED batch
        /\ seller' \in [Requests -> O!Clerk]
        /\ \A o \in Requests : o # c => seller'[o] = seller[o]
    BY <1>0, <1>7, SellerForms, SellerFields, SellerBecomes DEF O!UploadCertificate
  <2>2. ~O!At(c, "idle")
    BY <1>7 DEF O!UploadCertificate, O!At
  <2> QED BY <1>0, <2>1, <2>2 DEF OfftakeInv, O!TypeOK, FoundIsThere, O!SoldHasPassed, O!At
<1>8. ASSUME NEW c \in Requests, O!Rollback(c) PROVE OfftakeInv'
  <2>1. /\ UNCHANGED <<batch, certificate>>
        /\ seller' \in [Requests -> O!Clerk]
        /\ \A o \in Requests : o # c => seller'[o] = seller[o]
        /\ ~O!At(c, "idle")
    BY <1>0, <1>8, SellerForms, SellerBecomes DEF O!Rollback, O!End
  <2> QED BY <1>0, <2>1 DEF OfftakeInv, O!TypeOK, FoundIsThere, O!SoldHasPassed, O!At
<1>9. CASE UNCHANGED O!vars
  BY <1>0, <1>9 DEF O!vars, OfftakeInv, O!TypeOK, FoundIsThere, O!SoldHasPassed, O!At
<1> QED BY <1>1, <1>2, <1>3, <1>4, <1>5, <1>6, <1>7, <1>8, <1>9 DEF O!Next

LEMMA OfftakeAlways == WorksSpec => []OfftakeInv
<1>1. WorksInit => OfftakeInv
  BY OfftakeInit DEF WorksInit
<1>2. OfftakeInv /\ [WorksNext]_works_ => OfftakeInv'
  BY WorksSteps, OfftakeNext, WorksAssumption
<1> QED BY <1>1, <1>2, PTL DEF WorksSpec

\* Whichever inspections, allocations and dispatches of a batch overlap, what is
\* sold has passed and has a buyer, and a batch that failed has not been sold
\* (admin_offtake.py:190-291): the constraints look again where the requests do
\* not.
THEOREM SoldPassed ==
  /\ O!Spec => []O!SoldHasPassed
  /\ WorksSpec => []SoldHasPassed
<1>1. OfftakeInv /\ [O!Next]_(O!vars) => OfftakeInv'
  BY OfftakeNext, WorksAssumption
<1>2. OfftakeInv => O!SoldHasPassed
  BY DEF OfftakeInv
<1>3. OfftakeInv => SoldHasPassed
  BY <1>2 DEF SoldHasPassed
<1>4. O!Spec => []O!SoldHasPassed
  BY <1>1, <1>2, OfftakeInit, PTL DEF O!Spec
<1>5. WorksSpec => []SoldHasPassed
  BY <1>3, OfftakeAlways, PTL
<1> QED BY <1>4, <1>5
-----------------------------------------------------------------------------
(* Inventory: traces and recalls *)

\* What the variables hold, but for how much the issue lines of a lot add up to.
StockTyped ==
  /\ lots \in [Lots -> I!Lot]
  /\ received \in [Lots -> I!Qty]
  /\ issued \in [Lots -> [I!Target -> Nat]]
  /\ jobs \in [Jobs -> I!Job]
  /\ installed \in SUBSET (Units \X Plants)
  /\ clerk \in [Requests -> I!Clerk]

\* An issue line names a job that is there.
IssuedToRows == \A l \in Lots, j \in Jobs : issued[l][j] > 0 => jobs[j].row

\* What a trace has found so far is of its lot, and leads to all that was there
\* when it started.
OnTheTrail ==
  \A c \in Requests :
    /\ I!At(c, "jobs") => /\ clerk[c].jobs \subseteq I!JobsOf(clerk[c].lot)
                          /\ clerk[c].atStart \subseteq I!PlantsOf(I!UnitsOf(clerk[c].jobs))
    /\ I!At(c, "units") => /\ clerk[c].units \subseteq I!UnitsOf(I!JobsOf(clerk[c].lot))
                           /\ clerk[c].atStart \subseteq I!PlantsOf(clerk[c].units)

TraceInv == StockTyped /\ IssuedToRows /\ OnTheTrail /\ I!TraceMissesNothing

\* What a clerk of the stock remembers, by the step he is at.
LEMMA ClerkFields ==
  ASSUME StockTyped, NEW c \in Requests
  PROVE  /\ I!At(c, "debited") => /\ clerk[c].lot \in Lots /\ clerk[c].job \in I!Target
                                  /\ clerk[c].qty \in I!Qty /\ clerk[c].left \in I!Qty
         /\ I!At(c, "jobs") => clerk[c].lot \in Lots /\ clerk[c].jobs \in SUBSET Jobs
         /\ I!At(c, "units") => clerk[c].lot \in Lots /\ clerk[c].units \in SUBSET Units
         /\ I!At(c, "traced") => clerk[c].lot \in Lots /\ clerk[c].plants \in SUBSET Plants
         /\ I!At(c, "jobs") \/ I!At(c, "units") \/ I!At(c, "traced") =>
              clerk[c].atStart \in SUBSET Plants
<1>1. clerk[c] \in I!Clerk
  BY DEF StockTyped
<1>2. CASE clerk[c] = I!Idle
  BY <1>2 DEF I!Idle, I!At
<1>3. CASE clerk[c] \in [step : {"debited"}, lot : Lots, qty : I!Qty, left : I!Qty, job : I!Target]
  BY <1>3 DEF I!At
<1>4. CASE clerk[c] \in [step : {"jobs"}, lot : Lots, jobs : SUBSET Jobs, atStart : SUBSET Plants]
  BY <1>4 DEF I!At
<1>5. CASE clerk[c] \in [step : {"units"}, lot : Lots, units : SUBSET Units, atStart : SUBSET Plants]
  BY <1>5 DEF I!At
<1>6. CASE clerk[c] \in [step : {"traced"}, lot : Lots, plants : SUBSET Plants, atStart : SUBSET Plants]
  BY <1>6 DEF I!At
<1> QED BY <1>1, <1>2, <1>3, <1>4, <1>5, <1>6 DEF I!Clerk

LEMMA StockBecomes ==
  ASSUME StockTyped, NEW c \in Requests, NEW next \in I!Clerk, I!Becomes(c, next)
  PROVE  /\ clerk' \in [Requests -> I!Clerk] /\ clerk'[c] = next
         /\ \A o \in Requests : o # c => clerk'[o] = clerk[o]
BY DEF StockTyped, I!Becomes

\* A job builds a unit, or none.
LEMMA UnitsAreUnits ==
  ASSUME StockTyped, NEW js \in SUBSET Jobs, \A j \in js : jobs[j].row
  PROVE  I!UnitsOf(js) \subseteq Units
<1> SUFFICES ASSUME NEW j \in js, jobs[j].unit # None PROVE jobs[j].unit \in Units
  BY DEF I!UnitsOf
<1>1. j \in Jobs /\ jobs[j].row
  OBVIOUS
<1>2. jobs[j] \in I!Job
  BY <1>1 DEF StockTyped
<1>3. jobs[j] # I!Absent
  <2> SUFFICES ASSUME jobs[j] = I!Absent PROVE jobs[j].row = FALSE
    BY <1>1
  <2> QED BY DEF I!Absent
<1>4. jobs[j] \in [row : {TRUE}, unit : Units \cup {None}]
  BY <1>2, <1>3 DEF I!Job
<1> QED BY <1>4

\* Rows are only ever inserted.
Grown ==
  /\ \A l \in Lots, j \in Jobs : issued[l][j] > 0 => issued'[l][j] > 0
  /\ \A j \in Jobs : jobs[j].row => jobs'[j] = jobs[j]
  /\ installed \subseteq installed'

\* What can be reached grows with them.
LEMMA ReachGrows ==
  ASSUME StockTyped, IssuedToRows, Grown
  PROVE  /\ \A l \in Lots : I!JobsOf(l) \subseteq I!JobsOf(l)'
         /\ \A js \in SUBSET Jobs : (\A j \in js : jobs[j].row) => I!UnitsOf(js)' = I!UnitsOf(js)
         /\ \A us \in SUBSET Units : I!PlantsOf(us) \subseteq I!PlantsOf(us)'
         /\ \A l \in Lots : I!UnitsOf(I!JobsOf(l)) \subseteq I!UnitsOf(I!JobsOf(l))'
         /\ \A l \in Lots : I!Reached(l) \subseteq I!Reached(l)'
<1>1. ASSUME NEW l \in Lots PROVE I!JobsOf(l) \subseteq I!JobsOf(l)'
  BY DEF Grown, I!JobsOf
<1>2. ASSUME NEW js \in SUBSET Jobs, \A j \in js : jobs[j].row
      PROVE  I!UnitsOf(js)' = I!UnitsOf(js)
  <2>1. \A j \in js : jobs'[j].unit = jobs[j].unit
    BY <1>2 DEF Grown
  <2> QED BY <2>1 DEF I!UnitsOf
<1>3. ASSUME NEW us \in SUBSET Units PROVE I!PlantsOf(us) \subseteq I!PlantsOf(us)'
  BY DEF Grown, I!PlantsOf
<1>4. ASSUME NEW l \in Lots PROVE I!UnitsOf(I!JobsOf(l)) \subseteq I!UnitsOf(I!JobsOf(l))'
  <2> SUFFICES ASSUME NEW j \in I!JobsOf(l), jobs[j].unit # None
               PROVE  /\ j \in I!JobsOf(l)' /\ jobs'[j].unit = jobs[j].unit
    BY DEF I!UnitsOf
  <2>1. j \in Jobs /\ jobs[j].row
    BY DEF I!JobsOf, IssuedToRows
  <2> QED BY <1>1, <2>1 DEF Grown
<1>5. ASSUME NEW l \in Lots PROVE I!Reached(l) \subseteq I!Reached(l)'
  BY <1>4 DEF I!Reached, I!PlantsOf, Grown
<1> QED BY <1>1, <1>2, <1>3, <1>4, <1>5
LEMMA TraceInit == I!Init => TraceInv
<1> SUFFICES ASSUME I!Init PROVE TraceInv
  OBVIOUS
<1>1. StockTyped
  <2>1. I!Absent \in I!Lot /\ I!Absent \in I!Job /\ I!Idle \in I!Clerk /\ 0 \in I!Qty
    BY WorksAssumption DEF I!Lot, I!Job, I!Clerk, I!Qty, I!InventoryAssumption
  <2> QED BY <2>1 DEF StockTyped, I!Init
<1>2. \A l \in Lots, j \in Jobs : issued[l][j] = 0
  BY DEF I!Init, I!Target
<1>3. \A c \in Requests : clerk[c].step = "idle"
  BY DEF I!Init, I!Idle
<1> QED BY <1>1, <1>2, <1>3 DEF TraceInv, IssuedToRows, OnTheTrail, I!TraceMissesNothing, I!At

\* A debit remembers at most what the lot has.
LEMMA LotFields ==
  ASSUME StockTyped, NEW l \in Lots, lots[l].row
  PROVE  lots[l].qty \in I!Qty /\ lots[l] \in [row : {TRUE}, line : GrnLines \cup {None}, qty : I!Qty]
<1>1. lots[l] \in I!Lot
  BY DEF StockTyped
<1>2. lots[l] # I!Absent
  <2> SUFFICES ASSUME lots[l] = I!Absent PROVE lots[l].row = FALSE
    OBVIOUS
  <2> QED BY DEF I!Absent
<1>3. lots[l] \in [row : {TRUE}, line : GrnLines \cup {None}, qty : I!Qty]
  BY <1>1, <1>2 DEF I!Lot
<1> QED BY <1>3

LEMMA StockTypedNext ==
  ASSUME StockTyped, IssuedToRows, OnTheTrail, [I!Next]_(I!vars)
  PROVE  StockTyped'
<1>0. MaxQty \in Nat
  BY WorksAssumption DEF I!InventoryAssumption
<1>i. I!Idle \in I!Clerk
  BY DEF I!Clerk
<1>1. ASSUME NEW l \in Lots, I!CreateLot(l) PROVE StockTyped'
  <2>1. PICK g \in GrnLines \cup {None}, q \in I!Qty :
          /\ lots' = [lots EXCEPT ![l] = [row |-> TRUE, line |-> g, qty |-> q]]
          /\ received' = [received EXCEPT ![l] = q]
    BY <1>1 DEF I!CreateLot
  <2>2. [row |-> TRUE, line |-> g, qty |-> q] \in I!Lot
    BY DEF I!Lot
  <2> QED BY <1>1, <2>1, <2>2 DEF I!CreateLot, StockTyped
<1>2. ASSUME NEW j \in Jobs, I!CreateJob(j) PROVE StockTyped'
  <2>1. PICK u \in Units \cup {None} : jobs' = [jobs EXCEPT ![j] = [row |-> TRUE, unit |-> u]]
    BY <1>2 DEF I!CreateJob
  <2>2. [row |-> TRUE, unit |-> u] \in I!Job
    BY DEF I!Job
  <2> QED BY <1>2, <2>1, <2>2 DEF I!CreateJob, StockTyped
<1>3. ASSUME NEW u \in Units, NEW p \in Plants, I!Install(u, p) PROVE StockTyped'
  BY <1>3 DEF I!Install, StockTyped
<1>4. ASSUME NEW c \in Requests, NEW l \in Lots, I!Debit(c, l) PROVE StockTyped'
  <2>1. PICK q \in I!Qty \ {0}, j \in I!Target :
          /\ lots[l].qty >= q
          /\ I!Becomes(c, [step |-> "debited", lot |-> l, qty |-> q, left |-> lots[l].qty - q, job |-> j])
    BY <1>4 DEF I!Debit
  <2>2. lots[l].qty - q \in I!Qty
    <3>1. lots[l].qty \in I!Qty
      BY <1>4, LotFields DEF I!Debit
    <3> QED BY <1>0, <2>1, <3>1 DEF I!Qty
  <2>3. [step |-> "debited", lot |-> l, qty |-> q, left |-> lots[l].qty - q, job |-> j] \in I!Clerk
    BY <2>2 DEF I!Clerk
  <2> QED BY <1>4, <2>1, <2>3, StockBecomes DEF I!Debit, StockTyped
<1>5. ASSUME NEW c \in Requests, NEW l \in Lots, I!TraceLines(c, l) PROVE StockTyped'
  <2>1. I!JobsOf(l) \in SUBSET Jobs /\ I!Reached(l) \in SUBSET Plants
    BY DEF I!JobsOf, I!Reached, I!PlantsOf
  <2>2. [step |-> "jobs", lot |-> l, jobs |-> I!JobsOf(l), atStart |-> I!Reached(l)] \in I!Clerk
    BY <2>1 DEF I!Clerk
  <2> QED BY <1>5, <2>2, StockBecomes DEF I!TraceLines, StockTyped
<1>6. ASSUME NEW c \in Requests, I!CommitIssue(c) PROVE StockTyped'
  <2>1. /\ clerk[c].lot \in Lots /\ clerk[c].job \in I!Target
        /\ clerk[c].qty \in Nat /\ clerk[c].left \in I!Qty
    BY <1>0, <1>6, ClerkFields DEF I!CommitIssue, I!Qty
  <2>2. lots' \in [Lots -> I!Lot]
    <3> DEFINE l == clerk[c].lot
               b == [lots[l] EXCEPT !.qty = clerk[c].left]
    <3>1. lots' = [lots EXCEPT ![l] = b]
      BY <1>6 DEF I!CommitIssue
    <3>2. CASE lots[l] = I!Absent
      <4>1. b = I!Absent
        BY <3>2 DEF I!Absent
      <4> HIDE DEF b
      <4> QED BY <3>1, <4>1, <2>1 DEF StockTyped, I!Lot
    <3>3. CASE lots[l] # I!Absent
      <4>1. b \in I!Lot
        BY <3>3, <2>1, ZenonT(30) DEF StockTyped, I!Lot
      <4> HIDE DEF b
      <4> QED BY <3>1, <4>1, <2>1 DEF StockTyped
    <3> QED BY <3>2, <3>3
  <2>3. issued' \in [Lots -> [I!Target -> Nat]]
    BY <1>6, <2>1 DEF I!CommitIssue, StockTyped
  <2> QED BY <1>6, <1>i, <2>2, <2>3, StockBecomes DEF I!CommitIssue, I!End, StockTyped
<1>7. ASSUME NEW c \in Requests, I!TraceJobs(c) PROVE StockTyped'
  <2>1. PICK l \in Lots, us \in SUBSET Units, ps \in SUBSET Plants :
          I!Becomes(c, [step |-> "units", lot |-> l, units |-> us, atStart |-> ps])
    <3>1. clerk[c].lot \in Lots /\ clerk[c].jobs \in SUBSET Jobs /\ clerk[c].atStart \in SUBSET Plants
      BY <1>7, ClerkFields DEF I!TraceJobs
    <3>2. I!UnitsOf(clerk[c].jobs) \in SUBSET Units
      <4>1. \A j \in clerk[c].jobs : jobs[j].row
        BY <1>7, <3>1 DEF I!TraceJobs, OnTheTrail, I!JobsOf, IssuedToRows
      <4> QED BY <3>1, <4>1, UnitsAreUnits
    <3> QED BY <1>7, <3>1, <3>2 DEF I!TraceJobs
  <2>2. [step |-> "units", lot |-> l, units |-> us, atStart |-> ps] \in I!Clerk
    BY DEF I!Clerk
  <2> QED BY <1>7, <2>1, <2>2, StockBecomes DEF I!TraceJobs, StockTyped
<1>8. ASSUME NEW c \in Requests, I!TraceInstallations(c) PROVE StockTyped'
  <2>1. clerk[c].lot \in Lots /\ clerk[c].units \in SUBSET Units /\ clerk[c].atStart \in SUBSET Plants
    BY <1>8, ClerkFields DEF I!TraceInstallations
  <2>2. I!PlantsOf(clerk[c].units) \in SUBSET Plants
    BY DEF I!PlantsOf
  <2>3. [step |-> "traced", lot |-> clerk[c].lot, plants |-> I!PlantsOf(clerk[c].units),
         atStart |-> clerk[c].atStart] \in I!Clerk
    BY <2>1, <2>2 DEF I!Clerk
  <2> QED BY <1>8, <2>3, StockBecomes DEF I!TraceInstallations, StockTyped
<1>9. ASSUME NEW c \in Requests, I!Finish(c) PROVE StockTyped'
  BY <1>9, <1>i, StockBecomes DEF I!Finish, I!End, StockTyped
<1>10. CASE UNCHANGED I!vars
  BY <1>10 DEF I!vars, StockTyped
<1> QED BY <1>1, <1>2, <1>3, <1>4, <1>5, <1>6, <1>7, <1>8, <1>9, <1>10 DEF I!Next
\* What a commit adds to the issue lines.
LEMMA CommitAdds ==
  ASSUME StockTyped, NEW c \in Requests, I!CommitIssue(c), NEW l \in Lots, NEW j \in I!Target
  PROVE  issued'[l][j] =
           IF l = clerk[c].lot /\ j = clerk[c].job THEN issued[l][j] + clerk[c].qty ELSE issued[l][j]
<1>1. clerk[c].lot \in Lots /\ clerk[c].job \in I!Target
  BY ClerkFields DEF I!CommitIssue
<1> QED BY <1>1 DEF I!CommitIssue, StockTyped

LEMMA GrownNext ==
  ASSUME StockTyped, IssuedToRows, [I!Next]_(I!vars)
  PROVE  Grown /\ IssuedToRows'
<1>0. Jobs \subseteq I!Target /\ None \notin Jobs
  BY WorksAssumption DEF I!Target, I!InventoryAssumption
<1>1. ASSUME NEW j \in Jobs, I!CreateJob(j) PROVE Grown /\ IssuedToRows'
  <2>1. \A k \in Jobs : (k # j => jobs'[k] = jobs[k]) /\ jobs'[j].row
    BY <1>1 DEF I!CreateJob, StockTyped
  <2>2. ~jobs[j].row /\ issued' = issued /\ installed' = installed
    BY <1>1 DEF I!CreateJob
  <2>3. \A k \in Jobs : jobs[k].row => jobs'[k] = jobs[k]
    BY <2>1, <2>2
  <2>4. \A k \in Jobs : jobs[k].row => jobs'[k].row
    BY <2>3
  <2> QED BY <2>2, <2>3, <2>4 DEF Grown, IssuedToRows
<1>2. ASSUME NEW c \in Requests, I!CommitIssue(c) PROVE Grown /\ IssuedToRows'
  <2>1. /\ clerk[c].lot \in Lots /\ clerk[c].job \in I!Target /\ clerk[c].qty \in Nat
        /\ \A l \in Lots, j \in Jobs : issued[l][j] \in Nat
    BY <1>0, <1>2, ClerkFields, WorksAssumption DEF I!CommitIssue, I!Qty, StockTyped, I!InventoryAssumption
  <2>2. jobs' = jobs /\ installed' = installed
        /\ (clerk[c].job # None => jobs[clerk[c].job].row)
    BY <1>2 DEF I!CommitIssue
  <2>3. \A l \in Lots, j \in Jobs : issued[l][j] > 0 => issued'[l][j] > 0
    BY <1>0, <1>2, <2>1, CommitAdds
  <2>4. \A l \in Lots, j \in Jobs : issued'[l][j] > 0 => issued[l][j] > 0 \/ j = clerk[c].job
    BY <1>0, <1>2, <2>1, CommitAdds
  <2> QED BY <1>0, <2>2, <2>3, <2>4 DEF Grown, IssuedToRows
<1>3. ASSUME NEW u \in Units, NEW p \in Plants, I!Install(u, p) PROVE Grown /\ IssuedToRows'
  BY <1>3 DEF I!Install, Grown, IssuedToRows
<1>4. ASSUME UNCHANGED <<issued, jobs, installed>> PROVE Grown /\ IssuedToRows'
  BY <1>4 DEF Grown, IssuedToRows
<1>5. CASE \E l \in Lots : I!CreateLot(l)
  BY <1>4, <1>5 DEF I!CreateLot
<1>6. CASE \E c \in Requests :
             \/ \E l \in Lots : I!Debit(c, l) \/ I!TraceLines(c, l)
             \/ I!TraceJobs(c) \/ I!TraceInstallations(c) \/ I!Finish(c)
  BY <1>4, <1>6 DEF I!Debit, I!TraceLines, I!TraceJobs, I!TraceInstallations, I!Finish
<1>7. CASE UNCHANGED I!vars
  BY <1>4, <1>7 DEF I!vars
<1> QED BY <1>1, <1>2, <1>3, <1>5, <1>6, <1>7 DEF I!Next

\* A step of a trace, or one that ends.
Tracing(c) ==
  \/ \E l \in Lots : I!TraceLines(c, l)
  \/ I!TraceJobs(c) \/ I!TraceInstallations(c)

LEMMA WhoMoves ==
  ASSUME StockTyped, [I!Next]_(I!vars)
  PROVE  \A c \in Requests :
           \/ clerk'[c] = clerk[c]
           \/ ~(I!At(c, "jobs") \/ I!At(c, "units") \/ I!At(c, "traced"))'
           \/ Tracing(c)
<1> SUFFICES ASSUME NEW c \in Requests, clerk'[c] # clerk[c], ~Tracing(c)
             PROVE  ~(I!At(c, "jobs") \/ I!At(c, "units") \/ I!At(c, "traced"))'
  OBVIOUS
<1>1. \A o \in Requests : \A next : I!Becomes(o, next) => o = c /\ clerk'[c] = next
  BY DEF I!Becomes, StockTyped
<1>2. PICK o \in Requests :
        \/ \E l \in Lots : I!Debit(o, l) \/ I!TraceLines(o, l)
        \/ I!CommitIssue(o) \/ I!TraceJobs(o) \/ I!TraceInstallations(o) \/ I!Finish(o)
  BY DEF I!Next, I!vars, I!CreateLot, I!CreateJob, I!Install
<1>3. PICK next : I!Becomes(o, next) /\ (next.step \in {"debited", "idle"} \/ Tracing(o))
  <2>1. CASE Tracing(o)
    <3>1. \E next : I!Becomes(o, next)
      BY <2>1 DEF Tracing, I!TraceLines, I!TraceJobs, I!TraceInstallations
    <3> QED BY <2>1, <3>1
  <2>2. CASE I!CommitIssue(o) \/ I!Finish(o)
    <3>1. I!Becomes(o, I!Idle) /\ I!Idle.step = "idle"
      BY <2>2 DEF I!CommitIssue, I!Finish, I!End, I!Idle
    <3> QED BY <3>1
  <2>3. CASE \E l \in Lots : I!Debit(o, l)
    <3>1. PICK l \in Lots, q \in I!Qty, j \in I!Target :
            I!Becomes(o, [step |-> "debited", lot |-> l, qty |-> q, left |-> lots[l].qty - q, job |-> j])
      BY <2>3 DEF I!Debit
    <3> QED BY <3>1
  <2> QED BY <1>2, <2>1, <2>2, <2>3 DEF Tracing
<1> QED BY <1>1, <1>3 DEF I!At

LEMMA TraceNext ==
  ASSUME TraceInv, [I!Next]_(I!vars)
  PROVE  TraceInv'
<1>0. StockTyped /\ IssuedToRows /\ OnTheTrail /\ I!TraceMissesNothing
  BY DEF TraceInv
<1>1. StockTyped' /\ Grown /\ IssuedToRows'
  BY <1>0, StockTypedNext, GrownNext
<1>2. /\ \A l \in Lots : I!JobsOf(l) \subseteq I!JobsOf(l)'
      /\ \A js \in SUBSET Jobs : (\A j \in js : jobs[j].row) => I!UnitsOf(js)' = I!UnitsOf(js)
      /\ \A us \in SUBSET Units : I!PlantsOf(us) \subseteq I!PlantsOf(us)'
      /\ \A l \in Lots : I!UnitsOf(I!JobsOf(l)) \subseteq I!UnitsOf(I!JobsOf(l))'
      /\ \A l \in Lots : I!Reached(l) \subseteq I!Reached(l)'
  BY <1>0, <1>1, ReachGrows
<1>3. \A l \in Lots : \A js : js \subseteq I!JobsOf(l) => js \in SUBSET Jobs /\ \A j \in js : jobs[j].row
  BY <1>0 DEF I!JobsOf, IssuedToRows
<1> DEFINE JobsFound(c) ==
             I!At(c, "jobs") => /\ clerk[c].jobs \subseteq I!JobsOf(clerk[c].lot)
                                /\ clerk[c].atStart \subseteq I!PlantsOf(I!UnitsOf(clerk[c].jobs))
           UnitsFound(c) ==
             I!At(c, "units") => /\ clerk[c].units \subseteq I!UnitsOf(I!JobsOf(clerk[c].lot))
                                 /\ clerk[c].atStart \subseteq I!PlantsOf(clerk[c].units)
           PlantsFound(c) ==
             I!At(c, "traced") => /\ clerk[c].atStart \subseteq clerk[c].plants
                                  /\ clerk[c].plants \subseteq I!Reached(clerk[c].lot)
<1>4. ASSUME NEW c \in Requests, clerk'[c] = clerk[c]
      PROVE  JobsFound(c)' /\ UnitsFound(c)' /\ PlantsFound(c)'
  <2>1. JobsFound(c) /\ UnitsFound(c) /\ PlantsFound(c)
    BY <1>0 DEF OnTheTrail, I!TraceMissesNothing
  <2>2. ASSUME I!At(c, "jobs") PROVE JobsFound(c)'
    <3>1. PICK l \in Lots, js \in SUBSET Jobs, ps \in SUBSET Plants :
            clerk[c].lot = l /\ clerk[c].jobs = js /\ clerk[c].atStart = ps
      BY <1>0, <2>2, ClerkFields
    <3>2. js \subseteq I!JobsOf(l) /\ ps \subseteq I!PlantsOf(I!UnitsOf(js))
      BY <2>1, <2>2, <3>1
    <3>3. \A j \in js : jobs[j].row
      BY <1>3, <3>2
    <3>4. I!UnitsOf(js)' = I!UnitsOf(js) /\ I!UnitsOf(js) \in SUBSET Units
      BY <1>0, <1>2, <3>3, UnitsAreUnits
    <3>5. js \subseteq I!JobsOf(l)' /\ ps \subseteq I!PlantsOf(I!UnitsOf(js))'
      BY <1>1, <1>2, <3>2, <3>4 DEF I!PlantsOf, Grown
    <3> QED BY <1>4, <3>1, <3>5
  <2>3. ASSUME I!At(c, "units") PROVE UnitsFound(c)'
    <3>1. PICK l \in Lots, us \in SUBSET Units, ps \in SUBSET Plants :
            clerk[c].lot = l /\ clerk[c].units = us /\ clerk[c].atStart = ps
      BY <1>0, <2>3, ClerkFields
    <3>2. us \subseteq I!UnitsOf(I!JobsOf(l)) /\ ps \subseteq I!PlantsOf(us)
      BY <2>1, <2>3, <3>1
    <3>3. us \subseteq I!UnitsOf(I!JobsOf(l))' /\ ps \subseteq I!PlantsOf(us)'
      BY <1>2, <3>2
    <3> QED BY <1>4, <3>1, <3>3
  <2>4. ASSUME I!At(c, "traced") PROVE PlantsFound(c)'
    <3>1. PICK l \in Lots : clerk[c].lot = l
      BY <1>0, <2>4, ClerkFields
    <3>2. clerk[c].plants \subseteq I!Reached(l)'
      BY <1>2, <2>1, <2>4, <3>1
    <3> QED BY <1>4, <2>1, <2>4, <3>1, <3>2
  <2> QED BY <1>4, <2>2, <2>3, <2>4 DEF I!At
<1>5. ASSUME NEW c \in Requests, Tracing(c)
      PROVE  JobsFound(c)' /\ UnitsFound(c)' /\ PlantsFound(c)'
  <2>1. UNCHANGED <<lots, received, issued, jobs, installed>>
    BY <1>5 DEF Tracing, I!TraceLines, I!TraceJobs, I!TraceInstallations
  <2>2. ASSUME NEW l \in Lots, I!TraceLines(c, l) PROVE JobsFound(c)' /\ clerk'[c].step = "jobs"
    <3>1. clerk'[c] = [step |-> "jobs", lot |-> l, jobs |-> I!JobsOf(l), atStart |-> I!Reached(l)]
      BY <1>0, <2>2 DEF I!TraceLines, I!Becomes, StockTyped
    <3>2. I!JobsOf(l)' = I!JobsOf(l)
      BY <2>1 DEF I!JobsOf
    <3>3. I!PlantsOf(I!UnitsOf(I!JobsOf(l)))' = I!Reached(l)
      BY <2>1, <3>2 DEF I!Reached, I!PlantsOf, I!UnitsOf
    <3>4. clerk'[c].lot = l /\ clerk'[c].jobs = I!JobsOf(l)' /\ clerk'[c].atStart = I!Reached(l)
      BY <3>1, <3>2
    <3> QED BY <3>1, <3>3, <3>4
  <2>3. ASSUME I!TraceJobs(c) PROVE UnitsFound(c)' /\ clerk'[c].step = "units"
    <3>1. PICK l \in Lots, js \in SUBSET Jobs, ps \in SUBSET Plants :
            clerk[c].lot = l /\ clerk[c].jobs = js /\ clerk[c].atStart = ps
      BY <1>0, <2>3, ClerkFields DEF I!TraceJobs
    <3>2. clerk'[c] = [step |-> "units", lot |-> l, units |-> I!UnitsOf(js), atStart |-> ps]
      BY <1>0, <2>3, <3>1 DEF I!TraceJobs, I!Becomes, StockTyped
    <3>3. js \subseteq I!JobsOf(l) /\ ps \subseteq I!PlantsOf(I!UnitsOf(js))
      BY <1>0, <2>3, <3>1 DEF OnTheTrail, I!TraceJobs
    <3>4. I!UnitsOf(js) \subseteq I!UnitsOf(I!JobsOf(l))
      BY <3>3 DEF I!UnitsOf
    <3>5. I!UnitsOf(I!JobsOf(l))' = I!UnitsOf(I!JobsOf(l))
      BY <2>1 DEF I!UnitsOf, I!JobsOf
    <3>6. I!PlantsOf(I!UnitsOf(js)) = {p \in Plants : \E u \in I!UnitsOf(js) : <<u, p>> \in installed'}
      BY <2>1 DEF I!PlantsOf
    <3>7. clerk'[c].lot = l /\ clerk'[c].units = I!UnitsOf(js) /\ clerk'[c].atStart = ps
      BY <3>2
    <3> QED BY <3>2, <3>3, <3>4, <3>5, <3>6, <3>7 DEF I!PlantsOf
  <2>4. ASSUME I!TraceInstallations(c) PROVE PlantsFound(c)' /\ clerk'[c].step = "traced"
    <3>1. PICK l \in Lots, us \in SUBSET Units, ps \in SUBSET Plants :
            clerk[c].lot = l /\ clerk[c].units = us /\ clerk[c].atStart = ps
      BY <1>0, <2>4, ClerkFields DEF I!TraceInstallations
    <3>2. clerk'[c] = [step |-> "traced", lot |-> l, plants |-> I!PlantsOf(us), atStart |-> ps]
      BY <1>0, <2>4, <3>1 DEF I!TraceInstallations, I!Becomes, StockTyped
    <3>3. us \subseteq I!UnitsOf(I!JobsOf(l)) /\ ps \subseteq I!PlantsOf(us)
      BY <1>0, <2>4, <3>1 DEF OnTheTrail, I!TraceInstallations
    <3>4. I!PlantsOf(us) \subseteq I!Reached(l)
      BY <3>3 DEF I!PlantsOf, I!Reached
    <3>5. I!Reached(l) \subseteq I!Reached(l)'
      BY <1>2
    <3>6. clerk'[c].lot = l /\ clerk'[c].plants = I!PlantsOf(us) /\ clerk'[c].atStart = ps
      BY <3>2
    <3> QED BY <3>2, <3>3, <3>4, <3>5, <3>6
  <2> QED BY <1>5, <2>2, <2>3, <2>4 DEF Tracing, I!At
<1>6. \A c \in Requests : JobsFound(c)' /\ UnitsFound(c)' /\ PlantsFound(c)'
  BY <1>0, <1>4, <1>5, WhoMoves
<1>7. OnTheTrail' /\ I!TraceMissesNothing'
  BY <1>6 DEF OnTheTrail, I!TraceMissesNothing
<1> QED BY <1>1, <1>7 DEF TraceInv

\* A recall joins what the forward traces follow.
LEMMA RecallFollows == TraceInv => I!RecallNamesEveryPlant
<1> SUFFICES ASSUME TraceInv, NEW v \in GrnLines, NEW from \in {1}, NEW to \in {1}
             PROVE  I!Recall(v, from, to) =
                      UNION {I!Reached(l) : l \in {k \in Lots :
                        /\ lots[k].row /\ lots[k].line # None
                        /\ [g \in GrnLines |-> g][lots[k].line] = v
                        /\ [g \in GrnLines |-> 1][lots[k].line] \in from..to}}
  BY DEF I!RecallNamesEveryPlant
<1> DEFINE Ls == {k \in Lots : /\ lots[k].row /\ lots[k].line # None
                                /\ [g \in GrnLines |-> g][lots[k].line] = v
                                /\ [g \in GrnLines |-> 1][lots[k].line] \in from..to}
<1>1. ASSUME NEW l \in Lots, NEW p \in Plants
      PROVE  p \in I!Reached(l) <=>
               \E j \in Jobs, u \in Units :
                 issued[l][j] > 0 /\ jobs[j].row /\ jobs[j].unit = u /\ <<u, p>> \in installed
  <2>1. ASSUME NEW j \in Jobs, issued[l][j] > 0 PROVE jobs[j].row
    BY <2>1 DEF TraceInv, IssuedToRows
  <2>2. None \notin Units
    BY WorksAssumption DEF I!InventoryAssumption
  <2>3. ASSUME p \in I!Reached(l)
        PROVE  \E j \in Jobs, u \in Units :
                 issued[l][j] > 0 /\ jobs[j].row /\ jobs[j].unit = u /\ <<u, p>> \in installed
    <3>1. PICK u \in I!UnitsOf(I!JobsOf(l)) : <<u, p>> \in installed
      BY <2>3 DEF I!Reached, I!PlantsOf
    <3>2. PICK j \in I!JobsOf(l) : jobs[j].unit = u
      BY DEF I!UnitsOf
    <3>3. j \in Jobs /\ issued[l][j] > 0
      BY DEF I!JobsOf
    <3>4. u \in Units
      BY <3>1 DEF TraceInv, StockTyped
    <3> QED BY <2>1, <3>1, <3>2, <3>3, <3>4
  <2>4. ASSUME NEW j \in Jobs, NEW u \in Units,
               issued[l][j] > 0, jobs[j].row, jobs[j].unit = u, <<u, p>> \in installed
        PROVE  p \in I!Reached(l)
    <3>1. j \in I!JobsOf(l)
      BY <2>4 DEF I!JobsOf
    <3>2. u \in I!UnitsOf(I!JobsOf(l))
      BY <2>2, <2>4, <3>1 DEF I!UnitsOf
    <3> QED BY <2>4, <3>2 DEF I!Reached, I!PlantsOf
  <2> QED BY <2>3, <2>4
<1>2. ASSUME NEW p
      PROVE  p \in I!Recall(v, from, to) <=>
               p \in Plants /\ \E l \in Ls, j \in Jobs, u \in Units :
                 issued[l][j] > 0 /\ jobs[j].row /\ jobs[j].unit = u /\ <<u, p>> \in installed
  BY DEF I!Recall, I!InRecall
<1>3. ASSUME NEW l PROVE I!Reached(l) \subseteq Plants
  BY DEF I!Reached, I!PlantsOf
<1>4. \A p : p \in I!Recall(v, from, to) <=> \E l \in Ls : p \in I!Reached(l)
  BY <1>1, <1>2, <1>3
<1> HIDE DEF Ls
<1>5. I!Recall(v, from, to) = UNION {I!Reached(l) : l \in Ls}
  BY <1>4
<1> QED BY <1>5 DEF Ls

\* A forward trace misses no plant that its lot's material had reached when it
\* started, and a recall names what the traces name (genealogy.py:34-237): no row
\* that a trace has passed is ever changed or taken away.
THEOREM NothingMissed ==
  /\ I!Spec => [](I!TraceMissesNothing /\ I!RecallNamesEveryPlant)
  /\ WorksSpec => []TraceMissesNothing
<1>1. TraceInv /\ [I!Next]_(I!vars) => TraceInv'
  BY TraceNext
<1>2. TraceInv => I!TraceMissesNothing /\ I!RecallNamesEveryPlant
  BY RecallFollows DEF TraceInv
<1>3. TraceInv => TraceMissesNothing
  BY <1>2 DEF TraceMissesNothing
<1>4. WorksInit => TraceInv
  BY TraceInit DEF WorksInit
<1>5. TraceInv /\ [WorksNext]_works_ => TraceInv'
  BY WorksSteps, TraceNext
<1>6. I!Spec => [](I!TraceMissesNothing /\ I!RecallNamesEveryPlant)
  BY <1>1, <1>2, TraceInit, PTL DEF I!Spec
<1>7. WorksSpec => []TraceMissesNothing
  BY <1>3, <1>4, <1>5, PTL DEF WorksSpec
<1> QED BY <1>6, <1>7
-----------------------------------------------------------------------------
(* Induction, and sums *)

\* Every number is in a set that has 0 and with each number the next.
LEMMA EveryNumber ==
  ASSUME NEW Good, 0 \in Good, \A n \in Nat : n \in Good => n + 1 \in Good
  PROVE  Nat \subseteq Good
<1> DEFINE Less == {p \in Nat \X Nat : p[1] < p[2]}
           Bad == Nat \ Good
<1>1. IsWellFoundedOn(Less, Nat)
  BY NatLessThanWellFounded DEF OpToRel
<1> SUFFICES ASSUME Bad # {} PROVE FALSE
  OBVIOUS
<1>2. PICK m \in Bad : \A k \in Bad : ~(<<k, m>> \in Less)
  BY <1>1, WFMin
<1>3. m \in Nat /\ m # 0 /\ m - 1 \in Nat
  OBVIOUS
<1>4. <<m - 1, m>> \in Less
  <2>1. <<m - 1, m>> \in Nat \X Nat /\ <<m - 1, m>>[1] = m - 1 /\ <<m - 1, m>>[2] = m /\ m - 1 < m
    BY <1>3
  <2> QED BY <2>1
<1>5. m - 1 \in Good
  BY <1>2, <1>3, <1>4
<1>6. (m - 1) + 1 = m
  BY <1>3
<1>7. m \in Good
  BY <1>3, <1>5, <1>6
<1> QED BY <1>7

Some(s) == CHOOSE x \in s : TRUE

LEMMA SomeOf == ASSUME NEW s, s # {} PROVE Some(s) \in s
BY DEF Some

\* Every subset of a finite set is in a set that has the empty one and with each
\* subset less one of its elements the subset.
LEMMA EverySubset ==
  ASSUME NEW T, IsFiniteSet(T), NEW Good, {} \in Good,
         \A s \in SUBSET T : s # {} /\ s \ {Some(s)} \in Good => s \in Good
  PROVE  SUBSET T \subseteq Good
<1> DEFINE Sized == {n \in Nat : \A s \in SUBSET T : Cardinality(s) = n => s \in Good}
<1>0. \A s \in SUBSET T : IsFiniteSet(s) /\ Cardinality(s) \in Nat
  BY FS_Subset, FS_CardinalityType
<1>1. 0 \in Sized
  BY <1>0, FS_EmptySet
<1>2. ASSUME NEW n \in Nat, n \in Sized PROVE n + 1 \in Sized
  <2> SUFFICES ASSUME NEW s \in SUBSET T, Cardinality(s) = n + 1 PROVE s \in Good
    OBVIOUS
  <2>1. s # {}
    BY FS_EmptySet
  <2>2. Cardinality(s \ {Some(s)}) = n
    <3>1. Cardinality(s \ {Some(s)}) = Cardinality(s) - 1
      BY <1>0, <2>1, SomeOf, FS_RemoveElement
    <3> QED BY <3>1
  <2>3. s \ {Some(s)} \in Good
    BY <1>2, <2>2
  <2> QED BY <2>1, <2>3
<1> HIDE DEF Sized
<1>3. Nat \subseteq Sized
  BY <1>1, <1>2, EveryNumber
<1> QED BY <1>0, <1>3 DEF Sized

\* g adds up f over each set of its arguments, in the order of the fold.
AddsUp(f, g) ==
  g = [s \in SUBSET DOMAIN f |-> IF s = {} THEN 0 ELSE f[Some(s)] + g[s \ {Some(s)}]]

LEMMA SumExists ==
  ASSUME NEW T, IsFiniteSet(T), NEW f, DOMAIN f = T
  PROVE  \E g : AddsUp(f, g)
<1> DEFINE Step(g, s) == IF s = {} THEN 0 ELSE f[Some(s)] + g[s \ {Some(s)}]
           UpTo(n, g) == \A s \in SUBSET T : Cardinality(s) <= n => g[s] = Step(g, s)
           Good == {n \in Nat : \E g : UpTo(n, g)}
<1>0. \A s \in SUBSET T : IsFiniteSet(s) /\ Cardinality(s) \in Nat
  BY FS_Subset, FS_CardinalityType
<1>1. 0 \in Good
  <2> DEFINE g == [s \in SUBSET T |-> 0]
  <2>1. \A s \in SUBSET T : Cardinality(s) <= 0 => s = {}
    BY <1>0, FS_EmptySet
  <2>2. UpTo(0, g)
    BY <2>1
  <2> QED BY <2>2
<1>2. ASSUME NEW n \in Nat, n \in Good PROVE n + 1 \in Good
  <2>1. PICK g : UpTo(n, g)
    BY <1>2
  <2> DEFINE h == [s \in SUBSET T |-> Step(g, s)]
  <2>2. ASSUME NEW s \in SUBSET T, Cardinality(s) <= n + 1 PROVE h[s] = Step(h, s)
    <3>1. CASE s = {}
      BY <3>1
    <3>2. CASE s # {}
      <4> DEFINE r == s \ {Some(s)}
      <4>1. r \in SUBSET T /\ Cardinality(r) <= n
        <5>1. Cardinality(r) = Cardinality(s) - 1
          BY <1>0, <3>2, SomeOf, FS_RemoveElement
        <5> QED BY <1>0, <2>2, <5>1
      <4>2. g[r] = Step(g, r) /\ h[r] = Step(g, r)
        BY <2>1, <4>1
      <4>3. h[s] = f[Some(s)] + g[r] /\ Step(h, s) = f[Some(s)] + h[r]
        BY <3>2
      <4> QED BY <4>2, <4>3
    <3> QED BY <3>1, <3>2
  <2> HIDE DEF h
  <2>3. UpTo(n + 1, h)
    BY <2>2
  <2> QED BY <2>3
<1> HIDE DEF Good
<1>3. Cardinality(T) \in Nat /\ Cardinality(T) \in Good
  <2>1. Nat \subseteq Good
    BY <1>1, <1>2, EveryNumber
  <2> QED BY <2>1, FS_CardinalityType
<1>4. PICK g : UpTo(Cardinality(T), g)
  BY <1>3 DEF Good
<1>5. \A s \in SUBSET T : g[s] = Step(g, s)
  BY <1>4, FS_Subset
<1> DEFINE h == [s \in SUBSET T |-> g[s]]
<1>6. \A s \in SUBSET T : h[s] = Step(h, s)
  <2> TAKE s \in SUBSET T
  <2>1. h[s] = Step(g, s)
    BY <1>5
  <2>2. s \ {Some(s)} \in SUBSET T
    OBVIOUS
  <2> QED BY <2>1, <2>2
<1>7. h = [s \in SUBSET T |-> Step(h, s)]
  <2>1. h = [s \in SUBSET T |-> h[s]]
    OBVIOUS
  <2> HIDE DEF h
  <2> QED BY <1>6, <2>1
<1> HIDE DEF h
<1>8. AddsUp(f, h)
  BY <1>7 DEF AddsUp
<1> QED BY <1>8

\* What a fold that adds makes of numbers: nothing of nothing, and q more when one
\* of them is q more.
SumOf(f) == FoldFunction(LAMBDA q, sum : q + sum, 0, f)

LEMMA SumStep ==
  ASSUME NEW f, NEW g, AddsUp(f, g), NEW s \in SUBSET DOMAIN f
  PROVE  g[s] = IF s = {} THEN 0 ELSE f[Some(s)] + g[s \ {Some(s)}]
<1> DEFINE b(r) == IF r = {} THEN 0 ELSE f[Some(r)] + g[r \ {Some(r)}]
<1>1. g = [r \in SUBSET DOMAIN f |-> b(r)]
  BY DEF AddsUp
<1>2. [r \in SUBSET DOMAIN f |-> b(r)][s] = b(s)
  OBVIOUS
<1> HIDE DEF b
<1>3. g[s] = b(s)
  BY <1>1, <1>2
<1> QED BY <1>3 DEF b

Sums(T, f, g) ==
  /\ SumOf(f) = g[T] /\ g[{}] = 0
  /\ \A s \in SUBSET T : s # {} => g[s] = f[Some(s)] + g[s \ {Some(s)}]

LEMMA SumIs ==
  ASSUME NEW T, IsFiniteSet(T), NEW f, DOMAIN f = T
  PROVE  \E g : Sums(T, f, g)
<1> DEFINE g == CHOOSE h : AddsUp(f, h)
<1>1. AddsUp(f, g)
  BY SumExists
<1>2. SumOf(f) = g[T]
  BY DEF SumOf, AddsUp, Some, FoldFunction, FoldFunctionOnSet, MapThenFoldSet
<1> HIDE DEF g
<1>3. \A s \in SUBSET T : g[s] = IF s = {} THEN 0 ELSE f[Some(s)] + g[s \ {Some(s)}]
  BY <1>1, SumStep
<1>4. g[{}] = 0
  BY <1>3
<1> QED BY <1>2, <1>3, <1>4 DEF Sums

LEMMA SumOfNothing ==
  ASSUME NEW T, IsFiniteSet(T), NEW f \in [T -> Nat], \A t \in T : f[t] = 0
  PROVE  SumOf(f) = 0
<1>0. DOMAIN f = T
  OBVIOUS
<1>1. PICK g : Sums(T, f, g)
  BY <1>0, SumIs
<1> DEFINE Good == {s \in SUBSET T : g[s] = 0}
<1>2. {} \in Good
  BY <1>1 DEF Sums
<1>3. ASSUME NEW s \in SUBSET T, s # {}, s \ {Some(s)} \in Good PROVE s \in Good
  <2>1. g[s] = f[Some(s)] + g[s \ {Some(s)}]
    BY <1>1, <1>3 DEF Sums
  <2>2. f[Some(s)] = 0 /\ g[s \ {Some(s)}] = 0
    BY <1>3, SomeOf
  <2> QED BY <2>1, <2>2
<1> HIDE DEF Good
<1>4. T \in Good
  BY <1>2, <1>3, EverySubset
<1> QED BY <1>1, <1>4 DEF Good, Sums

MoreBy(T, f, e, j, q) == \A t \in T : e[t] = IF t = j THEN f[t] + q ELSE f[t]

LEMMA SumOfMore ==
  ASSUME NEW T, IsFiniteSet(T), NEW f \in [T -> Nat], NEW e \in [T -> Nat], NEW j \in T, NEW q \in Nat,
         MoreBy(T, f, e, j, q)
  PROVE  SumOf(f) \in Nat /\ SumOf(e) = SumOf(f) + q
<1>0. DOMAIN f = T /\ DOMAIN e = T
  OBVIOUS
<1>1. PICK g : Sums(T, f, g)
  BY <1>0, SumIs
<1>2. PICK h : Sums(T, e, h)
  BY <1>0, SumIs
<1> DEFINE Good == {s \in SUBSET T : g[s] \in Nat /\ h[s] = g[s] + (IF j \in s THEN q ELSE 0)}
<1>3. {} \in Good
  <2>1. g[{}] = 0 /\ h[{}] = 0
    BY <1>1, <1>2 DEF Sums
  <2> QED BY <2>1
<1>4. ASSUME NEW s \in SUBSET T, s # {}, s \ {Some(s)} \in Good PROVE s \in Good
  <2> DEFINE x == Some(s)
             r == s \ {Some(s)}
  <2>1. g[s] = f[x] + g[r] /\ h[s] = e[x] + h[r]
    BY <1>1, <1>2, <1>4 DEF Sums
  <2>2. x \in s /\ x \in T
    BY <1>4, SomeOf
  <2>3. f[x] \in Nat /\ e[x] = IF x = j THEN f[x] + q ELSE f[x]
    BY <2>2 DEF MoreBy
  <2>4. g[r] \in Nat /\ h[r] = g[r] + (IF j \in r THEN q ELSE 0)
    BY <1>4
  <2>5. j \in r <=> j \in s /\ x # j
    BY <2>2
  <2> HIDE DEF x, r
  <2>6. g[s] \in Nat /\ h[s] = g[s] + (IF j \in s THEN q ELSE 0)
    <3>1. CASE x = j
      BY <2>1, <2>2, <2>3, <2>4, <2>5, <3>1
    <3>2. CASE x # j /\ j \in s
      BY <2>1, <2>3, <2>4, <2>5, <3>2
    <3>3. CASE x # j /\ j \notin s
      BY <2>1, <2>3, <2>4, <2>5, <3>3
    <3> QED BY <3>1, <3>2, <3>3
  <2> QED BY <2>6
<1> HIDE DEF Good
<1>5. T \in Good
  BY <1>3, <1>4, EverySubset
<1> QED BY <1>1, <1>2, <1>5 DEF Good, Sums

-----------------------------------------------------------------------------
(* Inventory: stock *)

\* A request that has debited a lot has it locked, and remembers what is left.
DebitsAreLocked ==
  \A c \in Requests : I!At(c, "debited") =>
    /\ lots[clerk[c].lot].row
    /\ lots[clerk[c].lot].qty = clerk[c].left + clerk[c].qty
    /\ \A d \in Requests : I!At(d, "debited") /\ clerk[d].lot = clerk[c].lot => d = c

\* Nothing is issued of a lot that is not there.
IssuedFromLots == \A l \in Lots, j \in I!Target : ~lots[l].row => issued[l][j] = 0

StockInv == TraceInv /\ DebitsAreLocked /\ IssuedFromLots /\ I!StockIsConserved

LEMMA TargetIsFinite == IsFiniteSet(I!Target)
<1>1. IsFiniteSet(Jobs)
  BY WorksAssumption DEF I!InventoryAssumption, I!IsFiniteSet, IsFiniteSet
<1>2. IsFiniteSet({None})
  BY FS_Singleton
<1> QED BY <1>1, <1>2, FS_Union DEF I!Target

LEMMA IssuedIsSum ==
  \A l : I!IssuedOf(l) = SumOf(issued[l]) /\ I!IssuedOf(l)' = SumOf(issued'[l])
<1>1. \A l : I!IssuedOf(l) = SumOf(issued[l])
  BY DEF I!IssuedOf, I!FoldFunction, I!FoldFunctionOnSet, I!MapThenFoldSet,
         SumOf, FoldFunction, FoldFunctionOnSet, MapThenFoldSet
<1>2. \A l : I!IssuedOf(l)' = SumOf(issued'[l])
  BY DEF I!IssuedOf, I!FoldFunction, I!FoldFunctionOnSet, I!MapThenFoldSet,
         SumOf, FoldFunction, FoldFunctionOnSet, MapThenFoldSet
<1> QED BY <1>1, <1>2

LEMMA StockInit == I!Init => StockInv
<1> SUFFICES ASSUME I!Init PROVE StockInv
  OBVIOUS
<1>1. \A l \in Lots : ~lots[l].row
  <2> TAKE l \in Lots
  <2>1. lots[l].row = FALSE
    BY DEF I!Init, I!Absent
  <2> QED BY <2>1
<1>2. \A c \in Requests : clerk[c].step = "idle"
  BY DEF I!Init, I!Idle
<1>3. IssuedFromLots
  BY DEF I!Init, IssuedFromLots
<1> QED BY <1>1, <1>2, <1>3, TraceInit DEF StockInv, DebitsAreLocked, I!StockIsConserved, I!At

\* A step that changes no lot and no issue line, and debits none.
LEMMA StockStays ==
  ASSUME StockInv, UNCHANGED <<lots, received, issued>>,
         \A c \in Requests : I!At(c, "debited")' => clerk'[c] = clerk[c]
  PROVE  DebitsAreLocked' /\ IssuedFromLots' /\ I!StockIsConserved'
<1>1. I!StockIsConserved'
  <2>1. \A l : I!IssuedOf(l)' = I!IssuedOf(l)
    BY IssuedIsSum
  <2> QED BY <2>1 DEF StockInv, I!StockIsConserved
<1>4. IssuedFromLots'
  BY DEF StockInv, IssuedFromLots
<1>2. \A c \in Requests : I!At(c, "debited")' => I!At(c, "debited") /\ clerk'[c] = clerk[c]
  BY DEF I!At
<1>3. DebitsAreLocked'
  BY <1>2 DEF StockInv, DebitsAreLocked
<1> QED BY <1>1, <1>3, <1>4

LEMMA StockNext ==
  ASSUME StockInv, [I!Next]_(I!vars)
  PROVE  StockInv'
<1>0. TraceInv /\ StockTyped /\ DebitsAreLocked /\ IssuedFromLots /\ I!StockIsConserved
  BY DEF StockInv, TraceInv
<1>t. TraceInv' /\ StockTyped'
  BY <1>0, TraceNext DEF TraceInv
<1>q. MaxQty \in Nat
  BY WorksAssumption DEF I!InventoryAssumption
<1> SUFFICES DebitsAreLocked' /\ IssuedFromLots' /\ I!StockIsConserved'
  BY <1>t DEF StockInv
<1>1. ASSUME NEW l \in Lots, I!CreateLot(l)
      PROVE  DebitsAreLocked' /\ IssuedFromLots' /\ I!StockIsConserved'
  <2>1. PICK g \in GrnLines \cup {None}, q \in I!Qty :
          /\ lots' = [lots EXCEPT ![l] = [row |-> TRUE, line |-> g, qty |-> q]]
          /\ received' = [received EXCEPT ![l] = q]
    BY <1>1 DEF I!CreateLot
  <2>2. ~lots[l].row /\ issued' = issued /\ clerk' = clerk
    BY <1>1 DEF I!CreateLot
  <2>3. \A k \in Lots : k # l => lots'[k] = lots[k] /\ received'[k] = received[k]
    BY <1>0, <2>1 DEF StockTyped
  <2>4. lots'[l].row /\ lots'[l].qty = q /\ received'[l] = q
    BY <1>0, <2>1 DEF StockTyped
  <2>5. DebitsAreLocked'
    <3>1. \A c \in Requests : I!At(c, "debited")' = I!At(c, "debited")
      BY <2>2 DEF I!At
    <3>2. \A c \in Requests : I!At(c, "debited") => clerk[c].lot \in Lots /\ clerk[c].lot # l
      BY <1>0, <2>2, ClerkFields DEF DebitsAreLocked
    <3> QED BY <1>0, <2>2, <2>3, <3>1, <3>2 DEF DebitsAreLocked
  <2>6. IssuedFromLots'
    BY <1>0, <2>2, <2>3, <2>4 DEF IssuedFromLots
  <2>7. I!StockIsConserved'
    <3>1. SumOf(issued[l]) = 0
      <4>1. issued[l] \in [I!Target -> Nat] /\ \A j \in I!Target : issued[l][j] = 0
        BY <1>0, <2>2 DEF StockTyped, IssuedFromLots
      <4> QED BY <4>1, TargetIsFinite, SumOfNothing
    <3>2. q \in Nat
      BY <1>q DEF I!Qty
    <3>3. \A k : I!IssuedOf(k)' = I!IssuedOf(k)
      BY <2>2, IssuedIsSum
    <3> QED BY <1>0, <2>3, <2>4, <3>1, <3>2, <3>3, IssuedIsSum DEF I!StockIsConserved
  <2> QED BY <2>5, <2>6, <2>7
<1>2. ASSUME NEW c \in Requests, NEW l \in Lots, I!Debit(c, l)
      PROVE  DebitsAreLocked' /\ IssuedFromLots' /\ I!StockIsConserved'
  <2>1. PICK q \in I!Qty \ {0}, j \in I!Target :
          /\ lots[l].qty >= q
          /\ I!Becomes(c, [step |-> "debited", lot |-> l, qty |-> q, left |-> lots[l].qty - q, job |-> j])
    BY <1>2 DEF I!Debit
  <2>2. /\ lots[l].row /\ I!At(c, "idle") /\ UNCHANGED <<lots, received, issued>>
        /\ \A d \in Requests : I!At(d, "debited") => clerk[d].lot # l
    BY <1>2 DEF I!Debit, I!RowFree
  <2>3. /\ clerk'[c] = [step |-> "debited", lot |-> l, qty |-> q, left |-> lots[l].qty - q, job |-> j]
        /\ \A d \in Requests : d # c => clerk'[d] = clerk[d]
    BY <1>0, <2>1 DEF StockTyped, I!Becomes
  <2>4. lots[l].qty \in Nat /\ q \in Nat /\ (lots[l].qty - q) + q = lots[l].qty
    <3>1. lots[l].qty \in I!Qty
      BY <1>0, <2>2, LotFields
    <3> QED BY <1>q, <2>1, <3>1 DEF I!Qty
  <2>5. /\ clerk'[c].lot = l /\ clerk'[c].qty = q /\ clerk'[c].left = lots[l].qty - q
        /\ \A d \in Requests : d # c => I!At(d, "debited")' = I!At(d, "debited")
    BY <2>3 DEF I!At
  <2>6. DebitsAreLocked'
    <3> SUFFICES ASSUME NEW d \in Requests, I!At(d, "debited")'
                 PROVE  /\ lots'[clerk'[d].lot].row
                        /\ lots'[clerk'[d].lot].qty = clerk'[d].left + clerk'[d].qty
                        /\ \A e \in Requests : I!At(e, "debited")' /\ clerk'[e].lot = clerk'[d].lot => e = d
      BY DEF DebitsAreLocked
    <3>1. CASE d = c
      BY <2>2, <2>3, <2>4, <2>5, <3>1
    <3>2. CASE d # c
      BY <1>0, <2>2, <2>3, <2>5, <3>2 DEF DebitsAreLocked
    <3> QED BY <3>1, <3>2
  <2>7. IssuedFromLots' /\ I!StockIsConserved'
    <3>1. \A k : I!IssuedOf(k)' = I!IssuedOf(k)
      BY <2>2, IssuedIsSum
    <3> QED BY <1>0, <2>2, <3>1 DEF IssuedFromLots, I!StockIsConserved
  <2> QED BY <2>6, <2>7
<1>3. ASSUME NEW c \in Requests, I!CommitIssue(c)
      PROVE  DebitsAreLocked' /\ IssuedFromLots' /\ I!StockIsConserved'
  <2>1. PICK l \in Lots, j \in I!Target, q \in I!Qty, left \in I!Qty :
          clerk[c].lot = l /\ clerk[c].job = j /\ clerk[c].qty = q /\ clerk[c].left = left
    BY <1>0, <1>3, ClerkFields DEF I!CommitIssue
  <2>2. q \in Nat /\ left \in Nat
    BY <1>q DEF I!Qty
  <2>3. lots[l].row /\ lots[l].qty = left + q
    BY <1>0, <1>3, <2>1 DEF DebitsAreLocked, I!CommitIssue
  <2>4. /\ lots' = [lots EXCEPT ![l].qty = left] /\ UNCHANGED <<received, jobs>>
        /\ \A k \in Lots, t \in I!Target :
             issued'[k][t] = IF k = l /\ t = j THEN issued[k][t] + q ELSE issued[k][t]
    <3>1. lots' = [lots EXCEPT ![l].qty = left] /\ UNCHANGED <<received, jobs>>
      BY <1>3, <2>1 DEF I!CommitIssue
    <3>2. \A k \in Lots, t \in I!Target :
            issued'[k][t] = IF k = l /\ t = j THEN issued[k][t] + q ELSE issued[k][t]
      BY <1>0, <1>3, <2>1, CommitAdds
    <3> QED BY <3>1, <3>2
  <2>5. \A k \in Lots : k # l => lots'[k] = lots[k]
    BY <1>0, <2>4 DEF StockTyped
  <2>6. lots'[l].row /\ lots'[l].qty = left
    <3>1. lots'[l] = [lots[l] EXCEPT !.qty = left]
      BY <1>0, <2>4 DEF StockTyped
    <3>2. lots[l] \in [row : {TRUE}, line : GrnLines \cup {None}, qty : I!Qty]
      BY <1>0, <2>3, LotFields
    <3> QED BY <3>1, <3>2
  <2>7. /\ clerk'[c] = I!Idle
        /\ \A d \in Requests : d # c => clerk'[d] = clerk[d] /\ I!At(d, "debited")' = I!At(d, "debited")
    BY <1>0, <1>3 DEF StockTyped, I!CommitIssue, I!End, I!Becomes, I!At
  <2>8. DebitsAreLocked'
    <3> SUFFICES ASSUME NEW d \in Requests, I!At(d, "debited")'
                 PROVE  /\ lots'[clerk'[d].lot].row
                        /\ lots'[clerk'[d].lot].qty = clerk'[d].left + clerk'[d].qty
                        /\ \A e \in Requests : I!At(e, "debited")' /\ clerk'[e].lot = clerk'[d].lot => e = d
      BY DEF DebitsAreLocked
    <3>1. d # c /\ ~I!At(c, "debited")'
      BY <2>7 DEF I!Idle, I!At
    <3>2. I!At(d, "debited") /\ clerk'[d] = clerk[d] /\ clerk[d].lot \in Lots
      BY <1>0, <2>7, <3>1, ClerkFields
    <3>3. clerk[d].lot # l
      BY <1>0, <1>3, <2>1, <3>1, <3>2 DEF DebitsAreLocked, I!CommitIssue
    <3>4. \A e \in Requests : I!At(e, "debited")' => I!At(e, "debited") /\ clerk'[e] = clerk[e]
      BY <2>7, <3>1
    <3> QED BY <1>0, <2>5, <3>2, <3>3, <3>4 DEF DebitsAreLocked
  <2>9. IssuedFromLots'
    BY <1>0, <2>3, <2>4, <2>5, <2>6 DEF IssuedFromLots
  <2>10. I!StockIsConserved'
    <3> SUFFICES ASSUME NEW k \in Lots, lots'[k].row
                 PROVE  lots'[k].qty + SumOf(issued'[k]) = received'[k]
      BY IssuedIsSum DEF I!StockIsConserved
    <3>1. issued[k] \in [I!Target -> Nat] /\ issued'[k] \in [I!Target -> Nat]
      BY <1>0, <1>t DEF StockTyped
    <3>2. CASE k # l
      <4>1. \A t \in I!Target : issued'[k][t] = issued[k][t]
        BY <2>4, <3>2
      <4>2. issued'[k] = issued[k]
        BY <3>1, <4>1
      <4> QED BY <1>0, <2>4, <2>5, <3>2, <4>2, IssuedIsSum DEF I!StockIsConserved
    <3>3. CASE k = l
      <4>1. \A t \in I!Target : issued'[l][t] = IF t = j THEN issued[l][t] + q ELSE issued[l][t]
        BY <2>4
      <4>2. SumOf(issued[l]) \in Nat /\ SumOf(issued'[l]) = SumOf(issued[l]) + q
        <5>1. PICK f \in [I!Target -> Nat], e \in [I!Target -> Nat] : f = issued[l] /\ e = issued'[l]
          BY <3>1, <3>3
        <5>2. MoreBy(I!Target, f, e, j, q)
          BY <4>1, <5>1 DEF MoreBy
        <5>3. SumOf(f) \in Nat /\ SumOf(e) = SumOf(f) + q
          BY <2>2, <5>2, TargetIsFinite, SumOfMore
        <5> QED BY <5>1, <5>3
      <4>3. (left + q) + SumOf(issued[l]) = received[l]
        BY <1>0, <2>3, IssuedIsSum DEF I!StockIsConserved
      <4> QED BY <2>2, <2>4, <2>6, <3>3, <4>2, <4>3
    <3> QED BY <3>2, <3>3
  <2> QED BY <2>8, <2>9, <2>10
<1>4. CASE \/ \E j \in Jobs : I!CreateJob(j)
           \/ \E u \in Units, p \in Plants : I!Install(u, p)
           \/ UNCHANGED I!vars
  <2>1. UNCHANGED <<lots, received, issued, clerk>>
    BY <1>4 DEF I!CreateJob, I!Install, I!vars
  <2> QED BY <1>0, <2>1, StockStays DEF StockInv
<1>5. ASSUME NEW c \in Requests,
             Tracing(c) \/ I!Finish(c)
      PROVE  DebitsAreLocked' /\ IssuedFromLots' /\ I!StockIsConserved'
  <2>1. UNCHANGED <<lots, received, issued>>
    BY <1>5 DEF Tracing, I!TraceLines, I!TraceJobs, I!TraceInstallations, I!Finish
  <2>2. PICK next : I!Becomes(c, next) /\ next.step # "debited"
    <3>1. CASE Tracing(c)
      <4>1. CASE \E l \in Lots : I!TraceLines(c, l)
        BY <4>1 DEF I!TraceLines
      <4>2. CASE I!TraceJobs(c)
        BY <4>2 DEF I!TraceJobs
      <4>3. CASE I!TraceInstallations(c)
        BY <4>3 DEF I!TraceInstallations
      <4> QED BY <3>1, <4>1, <4>2, <4>3 DEF Tracing
    <3>2. CASE I!Finish(c)
      BY <3>2 DEF I!Finish, I!End, I!Idle
    <3> QED BY <1>5, <3>1, <3>2
  <2>3. \A d \in Requests : I!At(d, "debited")' => clerk'[d] = clerk[d]
    BY <1>0, <2>2 DEF StockTyped, I!Becomes, I!At
  <2> QED BY <2>1, <2>3, StockStays
<1> QED BY <1>1, <1>2, <1>3, <1>4, <1>5 DEF I!Next, Tracing

LEMMA StockAlways == WorksSpec => []StockInv
<1>1. WorksInit => StockInv
  BY StockInit DEF WorksInit
<1>2. StockInv /\ [WorksNext]_works_ => StockInv'
  BY WorksSteps, StockNext
<1> QED BY <1>1, <1>2, PTL DEF WorksSpec

\* However many issues of a lot overlap, what is on hand and what the issue lines
\* add up to make up what was received (production.py:214-278): the quantity is
\* debited under the lock of the row it was read from.
THEOREM StockConserved ==
  /\ I!Spec => []I!StockIsConserved
  /\ WorksSpec => []StockIsConserved
<1>1. StockInv /\ [I!Next]_(I!vars) => StockInv'
  BY StockNext
<1>2. StockInv => I!StockIsConserved
  BY DEF StockInv
<1>3. StockInv => StockIsConserved
  BY <1>2 DEF StockIsConserved
<1>4. I!Spec => []I!StockIsConserved
  BY <1>1, <1>2, StockInit, PTL DEF I!Spec
<1>5. WorksSpec => []StockIsConserved
  BY <1>3, StockAlways, PTL
<1> QED BY <1>4, <1>5
-----------------------------------------------------------------------------
(* Drawings *)

\* A row that a request has found is there.
FoundRowsExist == \A r \in Requests : ~D!At(r, "idle") => D!Exists(draft[r].drawing)

DrawingsInv == D!TypeOK /\ FoundRowsExist

LEMMA DraftFields ==
  ASSUME D!TypeOK, NEW r \in Requests, ~D!At(r, "idle")
  PROVE  draft[r].drawing \in Drawings /\ draft[r].step \in {"open", "release", "revise"}
<1>1. draft[r] \in D!Drafting /\ draft[r] # D!Idle
  BY DEF D!TypeOK, D!At, D!Idle
<1>2. draft[r] \in [step : {"open", "release", "revise"}, drawing : Drawings]
  BY <1>1 DEF D!Drafting
<1> QED BY <1>2

\* Rows are inserted with a status, or keep one that is theirs.
LEMMA DrawingsInit == D!Init => DrawingsInv
BY DEF D!Init, D!Idle, D!At, D!Drafting, DrawingsInv, D!TypeOK, FoundRowsExist

LEMMA DraftBecomes ==
  ASSUME D!TypeOK, NEW r \in Requests, NEW next \in D!Drafting, D!Becomes(r, next)
  PROVE  /\ draft' \in [Requests -> D!Drafting] /\ draft'[r] = next
         /\ \A o \in Requests : o # r => draft'[o] = draft[o]
BY DEF D!TypeOK, D!Becomes

\* The drawings a step can leave behind.
LEMMA DrawingRows ==
  ASSUME D!TypeOK
  PROVE  /\ \A d \in Drawings, n \in D!Drawing : [drawings EXCEPT ![d] = n] \in [Drawings -> D!Drawing \cup {None}]
         /\ \A n \in D!Drawing : n # None
         /\ \A d \in Drawings : D!Exists(d) => drawings[d] \in D!Drawing
<1>1. None \notin D!Drawing
  BY WorksAssumption DEF D!NoDrawingIsNoRow
<1> QED BY <1>1 DEF D!TypeOK, D!Exists

LEMMA DrawingForms ==
  /\ D!Idle \in D!Drafting
  /\ \A s \in {"open", "release", "revise"}, d \in Drawings : [step |-> s, drawing |-> d] \in D!Drafting
  /\ \A s \in D!Status, v \in Revisions, c \in Contents :
       [status |-> s, revision |-> v, content |-> c] \in D!Drawing
  /\ \A n \in D!Drawing, s \in D!Status : [n EXCEPT !.status = s] \in D!Drawing
BY DEF D!Drafting, D!Drawing

\* A step that finds a row, or forgets it.
LEMMA DraftOnly ==
  ASSUME DrawingsInv, NEW r \in Requests, NEW next \in D!Drafting, D!Becomes(r, next),
         next.step # "idle" => D!Exists(next.drawing), UNCHANGED drawings
  PROVE  DrawingsInv'
<1>1. /\ draft' \in [Requests -> D!Drafting] /\ draft'[r] = next
      /\ \A o \in Requests : o # r => draft'[o] = draft[o]
  BY DraftBecomes DEF DrawingsInv
<1>2. FoundRowsExist'
  BY <1>1 DEF DrawingsInv, FoundRowsExist, D!At, D!Exists
<1> QED BY <1>1, <1>2 DEF DrawingsInv, D!TypeOK

\* A step that writes rows: no row goes.
LEMMA RowsWritten ==
  ASSUME DrawingsInv, drawings' \in [Drawings -> D!Drawing \cup {None}],
         \A d \in Drawings : D!Exists(d) => drawings'[d] # None,
         \/ draft' = draft
         \/ \E r \in Requests : D!End(r)
  PROVE  DrawingsInv'
<1>1. draft' \in [Requests -> D!Drafting]
      /\ \A o \in Requests : draft'[o] = draft[o] \/ draft'[o] = D!Idle
  BY DrawingForms, DraftBecomes DEF DrawingsInv, D!TypeOK, D!End
<1>2. FoundRowsExist'
  <2> SUFFICES ASSUME NEW r \in Requests, ~D!At(r, "idle")' PROVE drawings'[draft'[r].drawing] # None
    BY DEF FoundRowsExist, D!Exists
  <2>1. draft'[r] = draft[r] /\ ~D!At(r, "idle")
    BY <1>1 DEF D!At, D!Idle
  <2>2. draft[r].drawing \in Drawings /\ D!Exists(draft[r].drawing)
    BY <2>1, DraftFields DEF DrawingsInv, FoundRowsExist
  <2> QED BY <2>1, <2>2
<1> QED BY <1>1, <1>2 DEF DrawingsInv, D!TypeOK

LEMMA DrawingsNext ==
  ASSUME DrawingsInv, [D!Next]_(D!vars)
  PROVE  DrawingsInv'
<1>0. D!TypeOK /\ FoundRowsExist /\ drawings \in [Drawings -> D!Drawing \cup {None}]
  BY DEF DrawingsInv, D!TypeOK
<1>1. ASSUME NEW d \in Drawings, NEW n \in D!Drawing, drawings' = [drawings EXCEPT ![d] = n],
             draft' = draft \/ \E r \in Requests : D!End(r)
      PROVE  DrawingsInv'
  <2>1. drawings' \in [Drawings -> D!Drawing \cup {None}]
    BY <1>0, <1>1, DrawingRows
  <2>2. \A o \in Drawings : D!Exists(o) => drawings'[o] # None
    BY <1>0, <1>1, DrawingRows DEF D!Exists
  <2> QED BY <1>1, <2>1, <2>2, RowsWritten
<1>2. ASSUME NEW d \in Drawings, D!CreateDrawing(d) PROVE DrawingsInv'
  <2>1. PICK v \in Revisions, c \in Contents :
          drawings' = [drawings EXCEPT ![d] = [status |-> "draft", revision |-> v, content |-> c]]
    BY <1>2 DEF D!CreateDrawing, D!Insert
  <2>2. [status |-> "draft", revision |-> v, content |-> c] \in D!Drawing
    BY DrawingForms DEF D!Status
  <2> QED BY <1>1, <1>2, <2>1, <2>2 DEF D!CreateDrawing
<1>3. ASSUME NEW r \in Requests, D!UpdateDrawing(r) PROVE DrawingsInv'
  <2>1. draft[r].drawing \in Drawings /\ D!End(r)
    BY <1>0, <1>3, DraftFields DEF D!UpdateDrawing, D!At
  <2>2. PICK s \in D!Status, v \in Revisions, c \in Contents :
          drawings' = [drawings EXCEPT ![draft[r].drawing] = [status |-> s, revision |-> v, content |-> c]]
    BY <1>3 DEF D!UpdateDrawing
  <2>3. [status |-> s, revision |-> v, content |-> c] \in D!Drawing
    BY DrawingForms
  <2> QED BY <1>1, <2>1, <2>2, <2>3
<1>4. ASSUME NEW r \in Requests, D!ReleaseDrawing(r) PROVE DrawingsInv'
  <2> DEFINE d == draft[r].drawing
             n == [drawings[d] EXCEPT !.status = "released"]
  <2>1. d \in Drawings /\ D!Exists(d) /\ D!End(r)
    BY <1>0, <1>4, DraftFields DEF D!ReleaseDrawing, D!At, FoundRowsExist
  <2>2. n \in D!Drawing
    BY <1>0, <2>1, DrawingRows, DrawingForms DEF D!Status
  <2>3. drawings' = [drawings EXCEPT ![d] = n]
    BY <1>4 DEF D!ReleaseDrawing
  <2> HIDE DEF d, n
  <2> QED BY <1>1, <2>1, <2>2, <2>3
<1>5. ASSUME NEW r \in Requests, NEW d \in Drawings, D!ReviseDrawing(r, d) PROVE DrawingsInv'
  <2> DEFINE o == draft[r].drawing
  <2>1. o \in Drawings /\ D!Exists(o) /\ D!End(r) /\ o # d
    BY <1>0, <1>5, DraftFields DEF D!ReviseDrawing, D!At, FoundRowsExist
  <2>2. PICK v \in Revisions, c \in Contents :
          drawings' = [[drawings EXCEPT ![d] = [status |-> "draft", revision |-> v, content |-> c]]
                         EXCEPT ![o].status = "superseded"]
    BY <1>5 DEF D!ReviseDrawing, D!Insert
  <2> DEFINE n == [status |-> "draft", revision |-> v, content |-> c]
             m == [drawings[o] EXCEPT !.status = "superseded"]
  <2>3. n \in D!Drawing /\ m \in D!Drawing
    BY <1>0, <2>1, DrawingRows, DrawingForms DEF D!Status
  <2>4. drawings' = [[drawings EXCEPT ![d] = n] EXCEPT ![o] = m]
    BY <1>0, <2>1, <2>2
  <2> HIDE DEF o, n, m
  <2>5. drawings' \in [Drawings -> D!Drawing \cup {None}]
    BY <1>0, <2>1, <2>3, <2>4
  <2>6. \A k \in Drawings : D!Exists(k) => drawings'[k] # None
    BY <1>0, <2>1, <2>3, <2>4, DrawingRows DEF D!Exists
  <2> QED BY <2>1, <2>5, <2>6, RowsWritten
<1>6. ASSUME NEW r \in Requests,
             \/ \E d \in Drawings : D!SeeOpen(r, d) \/ D!SeeReleasable(r, d) \/ D!SeeReleased(r, d)
             \/ D!Rollback(r)
      PROVE  DrawingsInv'
  <2>1. PICK next \in D!Drafting :
          /\ D!Becomes(r, next) /\ UNCHANGED drawings
          /\ next.step # "idle" => D!Exists(next.drawing)
    <3>1. CASE \E d \in Drawings : D!SeeOpen(r, d) \/ D!SeeReleasable(r, d) \/ D!SeeReleased(r, d)
      BY <3>1, DrawingForms DEF D!SeeOpen, D!SeeReleasable, D!SeeReleased
    <3>2. CASE D!Rollback(r)
      BY <3>2, DrawingForms DEF D!Rollback, D!End, D!Idle
    <3> QED BY <1>6, <3>1, <3>2
  <2> QED BY <2>1, DraftOnly
<1>7. CASE UNCHANGED D!vars
  BY <1>7 DEF D!vars, DrawingsInv, D!TypeOK, FoundRowsExist, D!At, D!Exists
<1> QED BY <1>2, <1>3, <1>4, <1>5, <1>6, <1>7 DEF D!Next

\* What ReleasedIsOnlySuperseded says of one step.
OnlySuperseded ==
  \A d \in Drawings :
    (D!Exists(d) /\ drawings[d].status = "released"
       /\ \A r \in Requests : draft[r].step \in {"open", "release"} => draft[r].drawing # d)
      => \/ drawings'[d] = drawings[d]
         \/ /\ drawings'[d] = [drawings[d] EXCEPT !.status = "superseded"]
            /\ \E o \in Drawings : ~D!Exists(o) /\ drawings'[o] # None

LEMMA SupersededStep == ASSUME DrawingsInv, D!Next PROVE OnlySuperseded
<1>0. D!TypeOK /\ FoundRowsExist /\ drawings \in [Drawings -> D!Drawing \cup {None}]
  BY DEF DrawingsInv, D!TypeOK
<1> SUFFICES ASSUME NEW d \in Drawings, D!Exists(d), drawings[d].status = "released",
                    \A r \in Requests : draft[r].step \in {"open", "release"} => draft[r].drawing # d
             PROVE  \/ drawings'[d] = drawings[d]
                    \/ /\ drawings'[d] = [drawings[d] EXCEPT !.status = "superseded"]
                       /\ \E o \in Drawings : ~D!Exists(o) /\ drawings'[o] # None
  BY DEF OnlySuperseded
<1>1. ASSUME NEW c \in Drawings, D!CreateDrawing(c) PROVE drawings'[d] = drawings[d]
  BY <1>0, <1>1 DEF D!CreateDrawing, D!Insert
<1>2. ASSUME NEW r \in Requests, D!UpdateDrawing(r) \/ D!ReleaseDrawing(r)
      PROVE  drawings'[d] = drawings[d]
  <2>1. draft[r].drawing # d
    BY <1>2 DEF D!UpdateDrawing, D!ReleaseDrawing, D!At
  <2> QED BY <1>0, <1>2, <2>1 DEF D!UpdateDrawing, D!ReleaseDrawing
<1>3. ASSUME NEW r \in Requests, NEW c \in Drawings, D!ReviseDrawing(r, c)
      PROVE  \/ drawings'[d] = drawings[d]
             \/ /\ drawings'[d] = [drawings[d] EXCEPT !.status = "superseded"]
                /\ \E o \in Drawings : ~D!Exists(o) /\ drawings'[o] # None
  <2> DEFINE o == draft[r].drawing
  <2>1. o \in Drawings /\ D!Exists(o) /\ ~D!Exists(c) /\ o # c
    BY <1>0, <1>3, DraftFields DEF D!ReviseDrawing, D!At, FoundRowsExist
  <2>2. PICK v \in Revisions, t \in Contents :
          drawings' = [[drawings EXCEPT ![c] = [status |-> "draft", revision |-> v, content |-> t]]
                         EXCEPT ![o].status = "superseded"]
    BY <1>3 DEF D!ReviseDrawing, D!Insert
  <2>3. [status |-> "draft", revision |-> v, content |-> t] # None
    BY <1>0, DrawingForms, DrawingRows DEF D!Status
  <2>4. drawings'[c] # None
    BY <1>0, <2>1, <2>2, <2>3
  <2>5. CASE d = o
    <3>1. drawings'[d] = [drawings[d] EXCEPT !.status = "superseded"]
      BY <1>0, <2>1, <2>2, <2>5
    <3> QED BY <2>1, <2>4, <3>1
  <2>6. CASE d # o
    BY <1>0, <2>1, <2>2, <2>6
  <2> QED BY <2>5, <2>6
<1>4. ASSUME NEW r \in Requests,
             \/ \E c \in Drawings : D!SeeOpen(r, c) \/ D!SeeReleasable(r, c) \/ D!SeeReleased(r, c)
             \/ D!Rollback(r)
      PROVE  drawings'[d] = drawings[d]
  BY <1>4 DEF D!SeeOpen, D!SeeReleasable, D!SeeReleased, D!Rollback
<1> QED BY <1>1, <1>2, <1>3, <1>4 DEF D!Next

-----------------------------------------------------------------------------
(* Jobs, units and leads *)

\* A lead is found only while it is open.
LeadsFoundOpen == \A f \in Requests : S!At(f, "lead") => S!StillOpen(foreman[f].found)

StatusInv == S!TypeOK /\ LeadsFoundOpen

LEMMA ForemanFields ==
  ASSUME S!TypeOK, NEW f \in Requests
  PROVE  /\ S!At(f, "job") => foreman[f].found \in S!JobStatus
         /\ S!At(f, "unit") => foreman[f].found \in S!Range(S!_SERIAL_ORDER)
         /\ S!At(f, "lead") => foreman[f].found \in S!Stages
BY DEF S!TypeOK, S!At, S!Idle

\* The foremen of the type invariant.
Foreman ==
  {S!Idle} \cup [step : {"job"}, found : S!JobStatus]
           \cup [step : {"unit"}, found : S!Range(S!_SERIAL_ORDER)]
           \cup [step : {"lead"}, found : S!Stages]

LEMMA ForemanBecomes ==
  ASSUME StatusInv, NEW f \in Requests, NEW next \in Foreman, S!Becomes(f, next),
         next.step = "lead" => S!StillOpen(next.found)
  PROVE  foreman' \in [Requests -> Foreman] /\ LeadsFoundOpen'
<1>1. foreman \in [Requests -> Foreman]
  BY DEF StatusInv, S!TypeOK, Foreman
<1>2. /\ foreman' \in [Requests -> Foreman] /\ foreman'[f] = next
      /\ \A o \in Requests : o # f => foreman'[o] = foreman[o]
  BY <1>1 DEF S!Becomes
<1>3. LeadsFoundOpen'
  BY <1>2 DEF StatusInv, LeadsFoundOpen, S!At, S!StillOpen
<1> QED BY <1>2, <1>3

LEMMA ForemanForms ==
  /\ S!Idle \in Foreman /\ S!Idle.step = "idle"
  /\ \A s \in S!JobStatus : [step |-> "job", found |-> s] \in Foreman
  /\ \A s \in S!Range(S!_SERIAL_ORDER) : [step |-> "unit", found |-> s] \in Foreman
  /\ \A s \in S!Stages : [step |-> "lead", found |-> s] \in Foreman
BY DEF Foreman, S!Idle

LEMMA StatusInit == S!Init => StatusInv
<1> SUFFICES ASSUME S!Init PROVE StatusInv
  OBVIOUS
<1>1. "fabrication" \in S!Range(S!_SERIAL_ORDER)
  <2>1. 1 \in DOMAIN S!_SERIAL_ORDER /\ S!_SERIAL_ORDER[1] = "fabrication"
    BY DEF S!_SERIAL_ORDER
  <2> QED BY <2>1 DEF S!Range
<1>2. S!TypeOK
  BY <1>1 DEF S!Init, S!TypeOK, S!JobStatus, S!Stages
<1> QED BY <1>2 DEF S!Init, S!Idle, S!At, StatusInv, LeadsFoundOpen

\* The transitions lead to statuses.
LEMMA Transitions == \A s \in S!JobStatus : S!_JOB_TRANSITIONS[s] \subseteq S!JobStatus
BY DEF S!JobStatus, S!_JOB_TRANSITIONS

LEMMA StatusNext ==
  ASSUME StatusInv, [S!Next]_(S!vars)
  PROVE  StatusInv'
<1>0. S!TypeOK /\ LeadsFoundOpen
      /\ job \in [status : S!JobStatus, started : BOOLEAN, finished : BOOLEAN]
      /\ unit \in S!Range(S!_SERIAL_ORDER)
      /\ lead \in [stage : S!Stages, closing : {"none", "reason", "plant", "both"}]
  BY DEF StatusInv, S!TypeOK
<1>1. ASSUME NEW f \in Requests, NEW next \in Foreman, S!Becomes(f, next),
             next.step = "lead" => S!StillOpen(next.found),
             job' \in [status : S!JobStatus, started : BOOLEAN, finished : BOOLEAN],
             unit' \in S!Range(S!_SERIAL_ORDER),
             lead' \in [stage : S!Stages, closing : {"none", "reason", "plant", "both"}]
      PROVE  StatusInv'
  <2>1. foreman' \in [Requests -> Foreman] /\ LeadsFoundOpen'
    BY <1>1, ForemanBecomes
  <2> QED BY <1>1, <2>1 DEF StatusInv, S!TypeOK, Foreman
<1>2. ASSUME NEW f \in Requests, S!SeeJob(f) \/ S!SeeUnit(f) \/ S!SeeLead(f) \/ S!Refuse(f)
      PROVE  StatusInv'
  <2>1. PICK next \in Foreman :
          S!Becomes(f, next) /\ (next.step = "lead" => S!StillOpen(next.found))
    <3>1. CASE S!SeeJob(f)
      <4>1. job.status \in S!JobStatus
        BY <1>0
      <4> QED BY <3>1, <4>1, ForemanForms DEF S!SeeJob
    <3>2. CASE S!SeeUnit(f)
      BY <1>0, <3>2, ForemanForms DEF S!SeeUnit
    <3>3. CASE S!SeeLead(f)
      <4>1. lead.stage \in S!Stages
        BY <1>0
      <4> QED BY <3>3, <4>1, ForemanForms DEF S!SeeLead
    <3>4. CASE S!Refuse(f)
      BY <3>4, ForemanForms DEF S!Refuse, S!End
    <3> QED BY <1>2, <3>1, <3>2, <3>3, <3>4
  <2>2. UNCHANGED <<job, unit, lead>>
    BY <1>2 DEF S!SeeJob, S!SeeUnit, S!SeeLead, S!Refuse
  <2> QED BY <1>0, <1>1, <2>1, <2>2
<1>3. ASSUME NEW f \in Requests, S!UpdateJob(f) PROVE StatusInv'
  <2>1. PICK s \in S!MayBecome(foreman[f].found) :
          job' = [status   |-> s,
                  started  |-> job.started \/ s = "in_progress",
                  finished |-> job.finished \/ s \in {"completed", "cancelled"}]
    BY <1>3 DEF S!UpdateJob
  <2>2. s \in S!JobStatus
    <3>1. foreman[f].found \in S!JobStatus
      BY <1>0, <1>3, ForemanFields DEF S!UpdateJob
    <3> QED BY <3>1, Transitions DEF S!MayBecome
  <2>3. job' \in [status : S!JobStatus, started : BOOLEAN, finished : BOOLEAN]
    BY <2>1, <2>2
  <2> QED BY <1>0, <1>1, <1>3, <2>3, ForemanForms DEF S!UpdateJob, S!End
<1>4. ASSUME NEW f \in Requests, S!AdvanceUnit(f) PROVE StatusInv'
  BY <1>0, <1>1, <1>4, ForemanForms DEF S!AdvanceUnit, S!End
<1>5. ASSUME NEW f \in Requests, S!MoveLead(f) PROVE StatusInv'
  <2>1. lead' \in [stage : S!Stages, closing : {"none", "reason", "plant", "both"}]
    BY <1>5 DEF S!MoveLead
  <2> QED BY <1>0, <1>1, <1>5, <2>1, ForemanForms DEF S!MoveLead, S!End
<1>6. CASE UNCHANGED S!vars
  BY <1>6 DEF S!vars, StatusInv, S!TypeOK, LeadsFoundOpen, S!At
<1> QED BY <1>2, <1>3, <1>4, <1>5, <1>6 DEF S!Next

\* What FinishedIsFrozen says of one step.
MovesAlong ==
  /\ job'.status # job.status =>
       job'.status \in S!_JOB_TRANSITIONS[job.status] \/ S!FoundOtherwise("job", job.status)
  /\ unit' # unit => S!Follows(unit, unit') \/ S!FoundOtherwise("unit", unit)
  /\ (lead' # lead /\ lead.stage \in {"won", "lost"}) => S!FoundOtherwise("lead", lead.stage)

LEMMA StatusMoves == ASSUME StatusInv, S!Next PROVE MovesAlong
<1>1. PICK f \in Requests :
        \/ S!SeeJob(f) \/ S!UpdateJob(f) \/ S!SeeUnit(f) \/ S!AdvanceUnit(f)
        \/ S!SeeLead(f) \/ S!MoveLead(f) \/ S!Refuse(f)
  BY DEF S!Next
<1>2. CASE S!UpdateJob(f)
  <2>1. PICK s \in S!MayBecome(foreman[f].found) : job'.status = s
    BY <1>2 DEF S!UpdateJob
  <2>2. foreman[f].found = job.status => s = job.status \/ s \in S!_JOB_TRANSITIONS[job.status]
    BY DEF S!MayBecome
  <2>3. foreman[f].found # job.status => S!FoundOtherwise("job", job.status)
    BY <1>2 DEF S!UpdateJob, S!FoundOtherwise
  <2>4. UNCHANGED <<unit, lead>>
    BY <1>2 DEF S!UpdateJob
  <2> QED BY <2>1, <2>2, <2>3, <2>4 DEF MovesAlong
<1>3. CASE S!AdvanceUnit(f)
  <2>1. S!Follows(foreman[f].found, unit') /\ UNCHANGED <<job, lead>>
    BY <1>3 DEF S!AdvanceUnit
  <2>2. foreman[f].found # unit => S!FoundOtherwise("unit", unit)
    BY <1>3 DEF S!AdvanceUnit, S!FoundOtherwise
  <2> QED BY <2>1, <2>2 DEF MovesAlong
<1>4. CASE S!MoveLead(f)
  <2>1. S!At(f, "lead") /\ foreman[f].found \notin {"won", "lost"} /\ UNCHANGED <<job, unit>>
    BY <1>4 DEF S!MoveLead, StatusInv, LeadsFoundOpen, S!StillOpen
  <2> QED BY <2>1 DEF MovesAlong, S!FoundOtherwise
<1>5. CASE S!SeeJob(f) \/ S!SeeUnit(f) \/ S!SeeLead(f) \/ S!Refuse(f)
  <2>1. UNCHANGED <<job, unit, lead>>
    BY <1>5 DEF S!SeeJob, S!SeeUnit, S!SeeLead, S!Refuse
  <2> QED BY <2>1 DEF MovesAlong
<1> QED BY <1>1, <1>2, <1>3, <1>4, <1>5

-----------------------------------------------------------------------------
(* All of them *)

LEMMA EngineeringAlways == WorksSpec => []Inv
<1>1. NoneIsNoRow
  BY WorksAssumption
<1>2. WorksInit => Inv
  BY <1>1, InitInv DEF WorksInit
<1>3. Inv /\ [WorksNext]_works_ => Inv'
  BY <1>1, WorksSteps, InvStep
<1> QED BY <1>2, <1>3, PTL DEF WorksSpec

LEMMA DrawingsAlways == WorksSpec => []DrawingsInv
<1>1. WorksInit => DrawingsInv
  BY DrawingsInit DEF WorksInit
<1>2. DrawingsInv /\ [WorksNext]_works_ => DrawingsInv'
  BY WorksSteps, DrawingsNext
<1> QED BY <1>1, <1>2, PTL DEF WorksSpec

LEMMA StatusAlways == WorksSpec => []StatusInv
<1>1. WorksInit => StatusInv
  BY StatusInit DEF WorksInit
<1>2. StatusInv /\ [WorksNext]_works_ => StatusInv'
  BY WorksSteps, StatusNext
<1> QED BY <1>1, <1>2, PTL DEF WorksSpec

\* No issue line is more than its lot was received with.
LEMMA PartOfSum ==
  ASSUME NEW T, IsFiniteSet(T), NEW f \in [T -> Nat], NEW j \in T
  PROVE  SumOf(f) \in Nat /\ f[j] <= SumOf(f)
<1> DEFINE e == [f EXCEPT ![j] = 0]
<1>1. e \in [T -> Nat] /\ MoreBy(T, e, f, j, f[j]) /\ f[j] \in Nat
  BY DEF MoreBy
<1> HIDE DEF e
<1>2. SumOf(e) \in Nat /\ SumOf(f) = SumOf(e) + f[j]
  BY <1>1, SumOfMore
<1> QED BY <1>1, <1>2

LEMMA StockTypes == StockInv => I!TypeOK
<1> SUFFICES ASSUME StockInv, NEW l \in Lots, NEW j \in I!Target PROVE issued[l][j] \in I!Qty
  <2>1. StockInv => StockTyped
    BY DEF StockInv, TraceInv
  <2>2. ASSUME StockTyped, \A l \in Lots, j \in I!Target : issued[l][j] \in I!Qty PROVE I!TypeOK
    <3>1. \A l \in Lots : issued[l] \in [I!Target -> I!Qty]
      BY <2>2 DEF StockTyped
    <3>2. issued \in [Lots -> [I!Target -> I!Qty]]
      BY <2>2, <3>1 DEF StockTyped
    <3> QED BY <2>2, <3>2 DEF StockTyped, I!TypeOK
  <2> QED BY <2>1, <2>2
<1>0. StockTyped /\ IssuedFromLots /\ I!StockIsConserved /\ MaxQty \in Nat
  BY WorksAssumption DEF StockInv, TraceInv, I!InventoryAssumption
<1>1. issued[l] \in [I!Target -> Nat] /\ issued[l][j] \in Nat
  BY <1>0 DEF StockTyped
<1>2. CASE ~lots[l].row
  BY <1>0, <1>2 DEF IssuedFromLots, I!Qty
<1>3. CASE lots[l].row
  <2>1. lots[l].qty \in Nat /\ received[l] \in 0..MaxQty
    <3>1. lots[l].qty \in I!Qty
      BY <1>0, <1>3, LotFields
    <3> QED BY <1>0, <3>1 DEF I!Qty, StockTyped
  <2>2. SumOf(issued[l]) \in Nat /\ issued[l][j] <= SumOf(issued[l])
    <3>1. PICK f \in [I!Target -> Nat] : f = issued[l]
      BY <1>1
    <3>2. SumOf(f) \in Nat /\ f[j] <= SumOf(f)
      BY TargetIsFinite, PartOfSum
    <3> QED BY <3>1, <3>2
  <2>3. lots[l].qty + SumOf(issued[l]) = received[l]
    BY <1>0, <1>3, IssuedIsSum DEF I!StockIsConserved
  <2> QED BY <1>0, <1>1, <2>1, <2>2, <2>3 DEF I!Qty
<1> QED BY <1>2, <1>3

\* The variables of the five modules keep their types; that an issue line is of no
\* more than its lot was received with needs the sum of the lines.
THEOREM WorksTypeCorrect == WorksSpec => []WorksTypeOK
<1>1. Inv /\ DrawingsInv /\ StockInv /\ OfftakeInv /\ StatusInv => WorksTypeOK
  BY StockTypes DEF Inv, DrawingsInv, OfftakeInv, StatusInv, WorksTypeOK
<1> QED BY <1>1, EngineeringAlways, DrawingsAlways, StockAlways, OfftakeAlways, StatusAlways, PTL

\* What is finished stays as it is, but for requests that had found it unfinished:
\* released BOMs (erp_boms.py:1-2), released drawings, which are only superseded, by
\* a row that came after them (erp_drawings.py:4-7), jobs, units (production.py:347-353,
\* 402) and closed leads (admin_crm.py:101-102).
THEOREM FinishedStays == WorksSpec => FinishedIsFrozen
<1>1. Inv /\ [WorksNext]_works_ => [Frozen]_vars
  BY WorksSteps, FrozenStep
<1>2. DrawingsInv /\ [WorksNext]_works_ => [OnlySuperseded]_(D!vars)
  BY WorksSteps, SupersededStep
<1>3. StatusInv /\ [WorksNext]_works_ => [MovesAlong]_(S!vars)
  BY WorksSteps, StatusMoves
<1>4. WorksSpec => [][Frozen]_vars /\ [][OnlySuperseded]_(D!vars) /\ [][MovesAlong]_(S!vars)
  BY <1>1, <1>2, <1>3, EngineeringAlways, DrawingsAlways, StatusAlways, PTL DEF WorksSpec
<1>5. [][Frozen]_vars <=> ReleasedAndQuietIsFrozen
  BY DEF Frozen, ReleasedAndQuietIsFrozen
<1>6. [][OnlySuperseded]_(D!vars) <=> D!ReleasedIsOnlySuperseded
  BY DEF OnlySuperseded, D!ReleasedIsOnlySuperseded
<1>7. [][MovesAlong]_(S!vars) <=> S!FinishedIsFrozen
  BY DEF MovesAlong, S!FinishedIsFrozen
<1> QED BY <1>4, <1>5, <1>6, <1>7 DEF FinishedIsFrozen
=============================================================================
