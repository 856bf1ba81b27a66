-------------------------- MODULE EdgeDaemonProofs --------------------------
(***************************************************************************)
(* Theorems about EdgeDaemon, for any number of sensors, registers,        *)
(* cycles, faults and any chunk size.  It loses nothing while its disk     *)
(* accepts writes: a PUBACK is only ever taken for the publish it answers, *)
(* rows leave the buffer only after theirs, and every generated item stays *)
(* accounted for.                                                          *)
(***************************************************************************)
EXTENDS EdgeDaemon, FiniteSetTheorems, WellFoundedInduction, TLAPS

\* A non-empty set of items has an oldest one, so a publish cycle that has
\* only setpoint changes left always has a next one to send.
LEMMA OldestExists ==
  ASSUME NEW S \in SUBSET Item, S # {}
  PROVE  Oldest(S) \in S
<1> DEFINE Less == {p \in Nat \X Nat : p[1] < p[2]}
<1>1. IsWellFoundedOn(Less, Nat)
  BY NatLessThanWellFounded DEF OpToRel
<1>2. \A T \in SUBSET Nat : T # {} => \E m \in T : \A n \in T : ~(n < m)
  <2> SUFFICES ASSUME NEW T \in SUBSET Nat, T # {}
               PROVE  \E m \in T : \A n \in T : ~(n < m)
    OBVIOUS
  <2>1. PICK m \in T : \A n \in T : ~(<<n, m>> \in Less)
    BY <1>1, WFMin
  <2>2. \A n \in T : ~(n < m)
    BY <2>1
  <2> QED BY <2>2
<1>3. PICK c \in {x.cycle : x \in S} : \A d \in {x.cycle : x \in S} : ~(d < c)
  <2>1. {x.cycle : x \in S} \in SUBSET Nat /\ {x.cycle : x \in S} # {}
    BY DEF Item
  <2> QED BY <2>1, <1>2
<1> DEFINE First == {x \in S : x.cycle = c}
<1>4. PICK s \in {x.slot : x \in First} : \A t \in {x.slot : x \in First} : ~(t < s)
  <2>1. {x.slot : x \in First} \in SUBSET Nat
    BY ItemsAssumption DEF Item, Sensors, Registers
  <2>2. {x.slot : x \in First} # {}
    BY <1>3
  <2> QED BY <2>1, <2>2, <1>2
<1>5. PICK x \in First : x.slot = s
  BY <1>4
<1>6. \A y \in S : ~GeneratedBefore(y, x)
  BY <1>3, <1>4, <1>5 DEF GeneratedBefore, Item
<1> QED BY <1>5, <1>6 DEF Oldest

-----------------------------------------------------------------------------
(* The wire is a sequence of messages whatever is done to it. *)

LEMMA EmptyWire == << >> \in Seq(Message)
OBVIOUS

LEMMA WireAppend ==
  ASSUME NEW w \in Seq(Message), NEW m \in Message
  PROVE  Append(w, m) \in Seq(Message)
OBVIOUS

LEMMA WireTail ==
  ASSUME NEW w \in Seq(Message), w # << >>
  PROVE  /\ Head(w) \in Message
         /\ Tail(w) \in Seq(Message)
OBVIOUS

Unawaited(w) == [i \in 1..Len(w) |-> [w[i] EXCEPT !.awaited = FALSE]]

LEMMA WireUnawaited ==
  ASSUME NEW w \in Seq(Message)
  PROVE  /\ Unawaited(w) \in Seq(Message)
         /\ \A i \in 1..Len(Unawaited(w)) : ~Unawaited(w)[i].awaited
<1>1. \A i \in 1..Len(w) : [w[i] EXCEPT !.awaited = FALSE] \in Message
  <2> TAKE i \in 1..Len(w)
  <2>1. w[i] \in Message
    OBVIOUS
  <2> QED BY <2>1 DEF Message
<1>2. \A i \in 1..Len(w) : ~[w[i] EXCEPT !.awaited = FALSE].awaited
  <2> TAKE i \in 1..Len(w)
  <2>1. w[i] \in Message
    OBVIOUS
  <2> QED BY <2>1 DEF Message
<1>3. Len(w) \in Nat
  OBVIOUS
<1>4. Unawaited(w) \in Seq(Message)
  BY <1>1, <1>3 DEF Unawaited
<1>5. Len(Unawaited(w)) = Len(w)
  BY <1>3 DEF Unawaited
<1> QED BY <1>2, <1>4, <1>5 DEF Unawaited

-----------------------------------------------------------------------------
(* Type correctness.  That what is on the wire are items needs that a         *)
(* publisher that is sending holds something.                                  *)

PublisherHolds ==
  IF pubPc \in {"sending", "waiting", "failed"} THEN drained # {} ELSE drained = {}

\* A poll cycle under way has been given its timestamp.
CycleBegun == pollPc \in {"reading", "saved"} => cycle # 0

TypedPublisher == TypeOK /\ PublisherHolds /\ CycleBegun

\* The next message of a publish cycle consists of items the publisher holds.
LEMMA BatchIsDrained ==
  ASSUME drained \in SUBSET Item, drained # {}
  PROVE  PubBatch \in SUBSET drained /\ PubBatch # {}
<1>1. Oldest(drained) \in drained
  BY OldestExists
<1> QED BY <1>1 DEF PubBatch

LEMMA Parameters ==
  /\ MaxCycles \in Nat /\ MaxCycles > 0
  /\ NumSensors \in Nat
  /\ MaxFaults \in Nat
BY DaemonAssumption, ItemsAssumption

LEMMA TypedInit == Init => TypedPublisher
<1> SUFFICES ASSUME Init PROVE TypedPublisher
  OBVIOUS
<1>1. WireOK
  BY EmptyWire DEF Init, WireOK
<1>2. PublisherHolds /\ CycleBegun
  BY DEF Init, PublisherHolds, CycleBegun
<1>3. FlushOK
  BY DEF Init, FlushOK
<1>4. ControlOK
  BY DEF Init, ControlOK
<1>6. CountersOK
  BY Parameters DEF Init, CountersOK
<1>5. ItemsOK
  BY DEF Init, ItemsOK
<1> QED BY <1>1, <1>2, <1>3, <1>4, <1>5, <1>6 DEF TypedPublisher, TypeOK

\* The four things a step may do to the wire: nothing, empty it, append to it,
\* take its head, or stop waiting for what is on it.
LEMMA WireNext == TypedPublisher /\ [Next]_vars => WireOK'
<1> SUFFICES ASSUME TypedPublisher, [Next]_vars PROVE WireOK'
  OBVIOUS
<1>0. wire \in Seq(Message)
  BY DEF TypedPublisher, TypeOK, WireOK
<1>1. CASE UNCHANGED wire
  BY <1>0, <1>1 DEF WireOK
<1>2. CASE wire' = << >>
  BY <1>2, EmptyWire DEF WireOK
<1>3. CASE wire' = Unawaited(wire)
  BY <1>0, <1>3, WireUnawaited DEF WireOK
<1>4. CASE BrokerAccept
  BY <1>0, <1>4, WireTail DEF BrokerAccept, WireOK
<1>5. CASE PubSend
  <2>1. CASE session
    <3>1. drained # {} /\ drained \in SUBSET Item
      BY <1>5 DEF PubSend, TypedPublisher, TypeOK, ItemsOK, PublisherHolds
    <3>2. [topic |-> PubTopic, items |-> PubBatch, awaited |-> TRUE] \in Message
      BY <3>1, BatchIsDrained DEF PubTopic, Message
    <3> QED BY <1>0, <1>5, <2>1, <3>2, WireAppend DEF PubSend, Send, WireOK
  <2> QED BY <1>1, <1>5, <2>1 DEF PubSend
<1>6. CASE SyncSend
  <2>1. [topic |-> "backfill", items |-> ItemsOf(chunk), awaited |-> TRUE] \in Message
    BY DEF TypedPublisher, TypeOK, ItemsOK, ItemsOf, Row, Message
  <2>2. CASE syncPc = "locking" /\ session
    BY <1>0, <1>6, <2>1, <2>2, WireAppend DEF SyncSend, Send, WireOK
  <2> QED BY <1>1, <1>6, <2>2 DEF SyncSend
<1>7. CASE PollerNext
  BY <1>1, <1>7 DEF PollerNext, PollStart, ReadSensor, SaveLocal, EmitSetpoints,
       PollTimeout, PollStop, netVars
<1>8. CASE PublisherNext
  BY <1>1, <1>2, <1>3, <1>5, <1>8 DEF PublisherNext, PubConnect, PubDrain, PubAcked,
       PubTimeout, GiveUp, Unawaited, PubBuffer, PubBufferFails, PubClose, netVars
<1>9. CASE SyncNext
  BY <1>1, <1>3, <1>6, <1>9 DEF SyncNext, SyncPeek, SyncCheck, SyncAcked,
       SyncTimeout, GiveUp, Unawaited, SyncDelete, SyncDeleteFails, netVars
<1>10. CASE LinkLoss
  BY <1>2, <1>10 DEF LinkLoss
<1>11. CASE ProcessNext
  BY <1>1, <1>2, <1>11 DEF ProcessNext, Crash, SaveLocalFails, FlushCount, FlushAgain, FlushDone,
       FlushTimeout, Halt, ProcessEnds, ClockAfterRestart, Restart, netVars
<1>12. CASE UNCHANGED vars
  BY <1>1, <1>12 DEF vars, netVars
<1> QED
  BY <1>4, <1>7, <1>8, <1>9, <1>10, <1>11, <1>12 DEF Next

LEMMA FlushNext == TypedPublisher /\ [Next]_vars => FlushOK'
<1> SUFFICES ASSUME FlushOK, [Next]_vars PROVE FlushOK'
  BY DEF TypedPublisher, TypeOK
<1>1. CASE UNCHANGED flush
  BY <1>1 DEF FlushOK
<1>2. CASE flush' = [quiet |-> 0, saw |-> "nothing"]
  BY <1>2 DEF FlushOK
<1>3. CASE FlushCount
  BY <1>3 DEF FlushCount, FlushOK
<1>4. CASE FlushAgain
  BY <1>4 DEF FlushAgain, FlushOK
<1>5. CASE PollerNext
  BY <1>1, <1>2, <1>5 DEF PollerNext, PollStart, ReadSensor, SaveLocal, EmitSetpoints,
       PollTimeout, PollStop, endVars
<1>6. CASE PublisherNext
  BY <1>1, <1>6 DEF PublisherNext, PubConnect, PubDrain, PubSend, PubAcked,
       PubTimeout, PubBuffer, PubBufferFails, PubClose, endVars
<1>7. CASE SyncNext
  BY <1>1, <1>7 DEF SyncNext, SyncPeek, SyncCheck, SyncSend, SyncAcked,
       SyncTimeout, SyncDelete, SyncDeleteFails, endVars
<1>8. CASE BrokerAccept \/ LinkLoss
  BY <1>1, <1>8 DEF BrokerAccept, LinkLoss, endVars
<1>9. CASE ProcessNext
  BY <1>1, <1>2, <1>3, <1>4, <1>9 DEF ProcessNext, Crash, SaveLocalFails, FlushDone,
       FlushTimeout, Halt, ProcessEnds, ClockAfterRestart, Restart, endVars
<1>10. CASE UNCHANGED vars
  BY <1>1, <1>10 DEF vars, endVars
<1> QED BY <1>5, <1>6, <1>7, <1>8, <1>9, <1>10 DEF Next

LEMMA CountersNext == TypedPublisher /\ [Next]_vars => CountersOK' /\ CycleBegun'
<1> SUFFICES ASSUME CountersOK, CycleBegun, [Next]_vars
             PROVE  CountersOK' /\ CycleBegun'
  BY DEF TypedPublisher, TypeOK
<1> USE Parameters DEF CountersOK, CycleBegun,
        pollVars, pubVars, rowVars, syncVars, netVars, endVars
<1>1. CASE PollStart
  BY <1>1 DEF PollStart
<1>2. CASE ReadSensor
  BY <1>2 DEF ReadSensor, SensorsLeft
<1>3. CASE SaveLocal
  BY <1>3 DEF SaveLocal
<1>4. CASE EmitSetpoints
  BY <1>4 DEF EmitSetpoints
<1>5. CASE PollTimeout
  BY <1>5 DEF PollTimeout
<1>6. CASE PollStop
  BY <1>6 DEF PollStop
<1>7. CASE PubConnect
  BY <1>7 DEF PubConnect
<1>8. CASE PubDrain
  BY <1>8 DEF PubDrain
<1>9. CASE PubSend
  BY <1>9 DEF PubSend
<1>10. CASE PubAcked
  BY <1>10 DEF PubAcked
<1>11. CASE PubTimeout
  BY <1>11 DEF PubTimeout, TimeoutAllowed
<1>12. CASE PubBuffer
  BY <1>12 DEF PubBuffer
<1>13. CASE PubBufferFails
  BY <1>13 DEF PubBufferFails, DiskFails
<1>14. CASE PubClose
  BY <1>14 DEF PubClose
<1>15. CASE SyncPeek
  BY <1>15 DEF SyncPeek
<1>16. CASE SyncCheck
  BY <1>16 DEF SyncCheck
<1>17. CASE SyncSend
  BY <1>17 DEF SyncSend
<1>18. CASE SyncAcked
  BY <1>18 DEF SyncAcked
<1>19. CASE SyncTimeout
  BY <1>19 DEF SyncTimeout, TimeoutAllowed
<1>20. CASE SyncDelete
  BY <1>20 DEF SyncDelete
<1>21. CASE BrokerAccept
  BY <1>21 DEF BrokerAccept
<1>22. CASE LinkLoss
  BY <1>22 DEF LinkLoss
<1>23. CASE Crash
  BY <1>23 DEF Crash, ProcessEnds, ClockAfterRestart
<1>24. CASE FlushCount
  BY <1>24 DEF FlushCount
<1>25. CASE FlushAgain
  BY <1>25 DEF FlushAgain
<1>26. CASE FlushDone
  BY <1>26 DEF FlushDone, Halt, ProcessEnds, ClockAfterRestart
<1>27. CASE FlushTimeout
  BY <1>27 DEF FlushTimeout, Halt, ProcessEnds, ClockAfterRestart
<1>28. CASE Restart
  BY <1>28 DEF Restart
<1>29. CASE UNCHANGED vars
  BY <1>29 DEF vars
<1>30. CASE SyncDeleteFails
  BY <1>30 DEF SyncDeleteFails, DiskFails
<1>31. CASE SaveLocalFails
  BY <1>31 DEF SaveLocalFails, ProcessEnds, ClockAfterRestart, DiskFails
<1> QED
  BY <1>1, <1>2, <1>3, <1>4, <1>5, <1>6, <1>7, <1>8, <1>9, <1>10,
     <1>11, <1>12, <1>13, <1>14, <1>15, <1>16, <1>17, <1>18, <1>19, <1>20,
     <1>21, <1>22, <1>23, <1>24, <1>25, <1>26, <1>27, <1>28, <1>29, <1>30, <1>31
  DEF Next, PollerNext, PublisherNext, SyncNext, ProcessNext

LEMMA ControlNext ==
  TypedPublisher /\ [Next]_vars => ControlOK' /\ PublisherHolds'
<1> SUFFICES ASSUME ControlOK, PublisherHolds, WireOK, [Next]_vars
             PROVE  ControlOK' /\ PublisherHolds'
  BY DEF TypedPublisher, TypeOK
<1> USE DEF ControlOK, PublisherHolds,
        pollVars, pubVars, rowVars, syncVars, netVars, endVars
<1>1. CASE PollStart
  BY <1>1 DEF PollStart
<1>2. CASE ReadSensor
  BY <1>2 DEF ReadSensor, SensorsLeft
<1>3. CASE SaveLocal
  BY <1>3 DEF SaveLocal
<1>4. CASE EmitSetpoints
  BY <1>4 DEF EmitSetpoints
<1>5. CASE PollTimeout
  BY <1>5 DEF PollTimeout
<1>6. CASE PollStop
  BY <1>6 DEF PollStop
<1>7. CASE PubConnect
  BY <1>7 DEF PubConnect
<1>8. CASE PubDrain
  BY <1>8 DEF PubDrain
<1>9. CASE PubSend
  BY <1>9 DEF PubSend
<1>10. CASE PubAcked
  BY <1>10 DEF PubAcked, PubackArrived
<1>11. CASE PubTimeout
  BY <1>11 DEF PubTimeout, GiveUp
<1>12. CASE PubBuffer
  BY <1>12 DEF PubBuffer
<1>13. CASE PubBufferFails
  BY <1>13 DEF PubBufferFails
<1>14. CASE PubClose
  BY <1>14 DEF PubClose
<1>15. CASE SyncPeek
  BY <1>15 DEF SyncPeek
<1>16. CASE SyncCheck
  BY <1>16 DEF SyncCheck
<1>17. CASE SyncSend
  BY <1>17 DEF SyncSend
<1>18. CASE SyncAcked
  BY <1>18 DEF SyncAcked, PubackArrived
<1>19. CASE SyncTimeout
  BY <1>19 DEF SyncTimeout, GiveUp
<1>20. CASE SyncDelete
  BY <1>20 DEF SyncDelete
<1>21. CASE BrokerAccept
  <2>1. Head(wire).awaited \in BOOLEAN
    BY <1>21, WireTail DEF BrokerAccept, WireOK, Message
  <2> QED BY <1>21, <2>1 DEF BrokerAccept
<1>22. CASE LinkLoss
  BY <1>22 DEF LinkLoss
<1>23. CASE Crash
  BY <1>23 DEF Crash, ProcessEnds, ClockAfterRestart
<1>24. CASE FlushCount
  BY <1>24 DEF FlushCount
<1>25. CASE FlushAgain
  BY <1>25 DEF FlushAgain
<1>26. CASE FlushDone
  BY <1>26 DEF FlushDone, Halt, ProcessEnds, ClockAfterRestart
<1>27. CASE FlushTimeout
  BY <1>27 DEF FlushTimeout, Halt, ProcessEnds, ClockAfterRestart
<1>28. CASE Restart
  BY <1>28 DEF Restart
<1>29. CASE UNCHANGED vars
  BY <1>29 DEF vars
<1>30. CASE SyncDeleteFails
  BY <1>30 DEF SyncDeleteFails
<1>31. CASE SaveLocalFails
  BY <1>31 DEF SaveLocalFails, ProcessEnds, ClockAfterRestart
<1> QED
  BY <1>1, <1>2, <1>3, <1>4, <1>5, <1>6, <1>7, <1>8, <1>9, <1>10,
     <1>11, <1>12, <1>13, <1>14, <1>15, <1>16, <1>17, <1>18, <1>19, <1>20,
     <1>21, <1>22, <1>23, <1>24, <1>25, <1>26, <1>27, <1>28, <1>29, <1>30, <1>31
  DEF Next, PollerNext, PublisherNext, SyncNext, ProcessNext

LEMMA ItemsNext == TypedPublisher /\ [Next]_vars => ItemsOK'
<1> SUFFICES ASSUME TypedPublisher, [Next]_vars PROVE ItemsOK'
  OBVIOUS
<1> USE DaemonAssumption, ItemsAssumption
    DEF TypedPublisher, TypeOK, CountersOK, ItemsOK, CycleBegun,
        pollVars, pubVars, rowVars, syncVars, netVars, endVars
<1>1. CASE PollStart
  BY <1>1 DEF PollStart
<1>2. CASE ReadSensor
  BY <1>2 DEF ReadSensor, SensorsLeft, Item, Reading, Sensors
<1>3. CASE SaveLocal
  BY <1>3 DEF SaveLocal, LocalBatch, Item, Reading, Sensors
<1>4. CASE EmitSetpoints
  BY <1>4 DEF EmitSetpoints, Item, Sensors, Registers
<1>5. CASE PollTimeout
  BY <1>5 DEF PollTimeout
<1>6. CASE PollStop
  BY <1>6 DEF PollStop
<1>7. CASE PubConnect
  BY <1>7 DEF PubConnect
<1>8. CASE PubDrain
  BY <1>8 DEF PubDrain
<1>9. CASE PubSend
  BY <1>9 DEF PubSend
<1>10. CASE PubAcked
  BY <1>10 DEF PubAcked
<1>11. CASE PubTimeout
  BY <1>11 DEF PubTimeout
<1>12. CASE PubBuffer
  BY <1>12 DEF PubBuffer, Unsettled, Row
<1>13. CASE PubBufferFails
  BY <1>13 DEF PubBufferFails
<1>14. CASE PubClose
  BY <1>14 DEF PubClose
<1>15. CASE SyncPeek
  BY <1>15 DEF SyncPeek, FirstRows
<1>16. CASE SyncCheck
  BY <1>16 DEF SyncCheck
<1>17. CASE SyncSend
  BY <1>17 DEF SyncSend
<1>18. CASE SyncAcked
  BY <1>18 DEF SyncAcked
<1>19. CASE SyncTimeout
  BY <1>19 DEF SyncTimeout
<1>20. CASE SyncDelete
  BY <1>20 DEF SyncDelete
<1>21. CASE BrokerAccept
  <2>1. Head(wire) \in Message
    BY <1>21, WireTail DEF BrokerAccept, WireOK
  <2> QED BY <1>21, <2>1 DEF BrokerAccept, Message
<1>22. CASE LinkLoss
  BY <1>22 DEF LinkLoss
<1>23. CASE Crash
  BY <1>23 DEF Crash, ProcessEnds, ClockAfterRestart
<1>24. CASE FlushCount
  BY <1>24 DEF FlushCount
<1>25. CASE FlushAgain
  BY <1>25 DEF FlushAgain
<1>26. CASE FlushDone
  BY <1>26 DEF FlushDone, Halt, ProcessEnds, ClockAfterRestart
<1>27. CASE FlushTimeout
  BY <1>27 DEF FlushTimeout, Halt, ProcessEnds, ClockAfterRestart
<1>28. CASE Restart
  BY <1>28 DEF Restart
<1>29. CASE UNCHANGED vars
  BY <1>29 DEF vars
<1>30. CASE SyncDeleteFails
  BY <1>30 DEF SyncDeleteFails
<1>31. CASE SaveLocalFails
  BY <1>31 DEF SaveLocalFails, ProcessEnds, ClockAfterRestart
<1> QED
  BY <1>1, <1>2, <1>3, <1>4, <1>5, <1>6, <1>7, <1>8, <1>9, <1>10,
     <1>11, <1>12, <1>13, <1>14, <1>15, <1>16, <1>17, <1>18, <1>19, <1>20,
     <1>21, <1>22, <1>23, <1>24, <1>25, <1>26, <1>27, <1>28, <1>29, <1>30, <1>31
  DEF Next, PollerNext, PublisherNext, SyncNext, ProcessNext

LEMMA TypedNext == TypedPublisher /\ [Next]_vars => TypedPublisher'
BY WireNext, FlushNext, CountersNext, ControlNext, ItemsNext DEF TypedPublisher, TypeOK

\* Every variable of the daemon keeps its type.
THEOREM TypeCorrect == Spec => []TypeOK
<1>1. TypedPublisher => TypeOK
  BY DEF TypedPublisher
<1> QED BY <1>1, TypedInit, TypedNext, PTL DEF Spec

-----------------------------------------------------------------------------
(* Delivery. *)

\* mqtt_lock is held exactly while its holder awaits a PUBACK.
LockIsHeld ==
  /\ lock = "publisher" <=> pubPc = "waiting"
  /\ lock = "sync" <=> syncPc = "waiting"

\* An awaited message carries what the holder of the lock would settle.
AwaitedIsHeld ==
  \A n \in 1..Len(wire) : wire[n].awaited =>
    \/ lock = "publisher" /\ wire[n].items = PubBatch
    \/ lock = "sync" /\ wire[n].items = ItemsOf(chunk)

\* At most one message is awaited, and none once its PUBACK has arrived.
OneAwaited ==
  \A n \in 1..Len(wire) : wire[n].awaited =>
    ~ack /\ \A m \in 1..Len(wire) : wire[m].awaited => m = n

\* The rows about to be deleted have been acknowledged.
DeletingIsAcked == syncPc = "deleting" => ItemsOf(chunk) \subseteq accepted

PublishProtocol ==
  /\ TypedPublisher
  /\ LockIsHeld
  /\ AwaitedIsHeld
  /\ OneAwaited
  /\ DeletingIsAcked
  /\ AckIsForTheAwaited

LEMMA ProtocolInit == Init => PublishProtocol
<1> SUFFICES ASSUME Init PROVE PublishProtocol
  OBVIOUS
<1>1. Len(wire) = 0
  BY DEF Init
<1>2. AwaitedIsHeld /\ OneAwaited
  BY <1>1 DEF AwaitedIsHeld, OneAwaited
<1>3. LockIsHeld /\ DeletingIsAcked /\ AckIsForTheAwaited
  BY DEF Init, LockIsHeld, DeletingIsAcked, AckIsForTheAwaited
<1> QED BY <1>2, <1>3, TypedInit DEF PublishProtocol

\* The lock changes hands exactly at the awaits of a publish.
LEMMA LockNext == PublishProtocol /\ [Next]_vars => LockIsHeld'
<1> SUFFICES ASSUME LockIsHeld, [Next]_vars PROVE LockIsHeld'
  BY DEF PublishProtocol
<1> USE DEF LockIsHeld, pubVars, syncVars
<1>1. CASE PollerNext
  BY <1>1 DEF PollerNext, PollStart, ReadSensor, SaveLocal, EmitSetpoints,
       PollTimeout, PollStop
<1>2. CASE PubConnect \/ PubDrain \/ PubBuffer \/ PubBufferFails \/ PubClose
  BY <1>2 DEF PubConnect, PubDrain, PubBuffer, PubBufferFails, PubClose
<1>3. CASE PubSend \/ PubAcked \/ PubTimeout
  BY <1>3 DEF PubSend, PubAcked, PubTimeout, GiveUp
<1>4. CASE SyncPeek \/ SyncCheck \/ SyncDelete \/ SyncDeleteFails
  BY <1>4 DEF SyncPeek, SyncCheck, SyncDelete, SyncDeleteFails
<1>5. CASE SyncSend \/ SyncAcked \/ SyncTimeout
  BY <1>5 DEF SyncSend, SyncAcked, SyncTimeout, GiveUp
<1>6. CASE BrokerAccept \/ LinkLoss
  BY <1>6 DEF BrokerAccept, LinkLoss
<1>7. CASE ProcessNext
  BY <1>7 DEF ProcessNext, Crash, SaveLocalFails, FlushCount, FlushAgain, FlushDone, FlushTimeout,
       Halt, ProcessEnds, Restart
<1>8. CASE UNCHANGED vars
  BY <1>8 DEF vars
<1> QED
  BY <1>1, <1>2, <1>3, <1>4, <1>5, <1>6, <1>7, <1>8
  DEF Next, PublisherNext, SyncNext

\* What the publisher would settle depends on nothing but what it holds.
LEMMA SameBatch == UNCHANGED drained => UNCHANGED PubBatch
BY DEF PubBatch

\* A task that takes the lock finds nothing awaited on the wire.
LEMMA SendAwaited ==
  ASSUME PublishProtocol, lock = "free", UNCHANGED ack,
         NEW items, NEW topic,
         Send(topic, items),
         \/ lock' = "publisher" /\ items = PubBatch'
         \/ lock' = "sync" /\ items = ItemsOf(chunk)'
  PROVE  AwaitedIsHeld' /\ OneAwaited'
<1> DEFINE m == [topic |-> topic, items |-> items, awaited |-> TRUE]
<1>1. wire \in Seq(Message) /\ Len(wire) \in Nat
  BY DEF PublishProtocol, TypedPublisher, TypeOK, WireOK
<1>2. \A n \in 1..Len(wire) : ~wire[n].awaited
  BY DEF PublishProtocol, AwaitedIsHeld
<1>3. Len(wire') = Len(wire) + 1 /\ wire'[Len(wire) + 1] = m
  BY <1>1 DEF Send
<1>4. \A n \in 1..Len(wire) : wire'[n] = wire[n]
  BY <1>1 DEF Send
<1>5. \A n \in 1..Len(wire') : wire'[n].awaited => n = Len(wire) + 1
  BY <1>1, <1>2, <1>3, <1>4
<1>6. m.items = items
  OBVIOUS
<1>7. AwaitedIsHeld'
  BY <1>3, <1>5, <1>6 DEF AwaitedIsHeld
<1>8. ~ack'
  BY DEF PublishProtocol, AckIsForTheAwaited
<1> QED BY <1>5, <1>7, <1>8 DEF OneAwaited

\* An awaited message stays what its sender would settle, and stays alone.
LEMMA AwaitedNext ==
  PublishProtocol /\ [Next]_vars => AwaitedIsHeld' /\ OneAwaited'
<1> SUFFICES ASSUME PublishProtocol, [Next]_vars
             PROVE  AwaitedIsHeld' /\ OneAwaited'
  OBVIOUS
<1>0. wire \in Seq(Message) /\ Len(wire) \in Nat
  BY DEF PublishProtocol, TypedPublisher, TypeOK, WireOK
<1>a. LockIsHeld /\ AwaitedIsHeld /\ OneAwaited
  BY DEF PublishProtocol
<1>1. CASE wire' = << >>
  BY <1>1 DEF AwaitedIsHeld, OneAwaited
<1>2. CASE wire' = Unawaited(wire)
  BY <1>0, <1>2, WireUnawaited DEF AwaitedIsHeld, OneAwaited
<1>3. CASE /\ UNCHANGED <<wire, lock, ack>>
           /\ lock = "publisher" => UNCHANGED drained
           /\ lock = "sync" => UNCHANGED chunk
  BY <1>a, <1>3, SameBatch DEF AwaitedIsHeld, OneAwaited, ItemsOf
<1>4. CASE ack /\ UNCHANGED wire
  BY <1>a, <1>4 DEF AwaitedIsHeld, OneAwaited
<1>5. CASE PubSend
  <2>1. CASE session
    BY <1>5, <2>1, SendAwaited, SameBatch DEF PubSend
  <2> QED BY <1>3, <1>5, <2>1 DEF PubSend, syncVars
<1>6. CASE SyncSend
  <2>1. CASE syncPc = "locking" /\ session
    BY <1>6, <2>1, SendAwaited DEF SyncSend, ItemsOf
  <2> QED BY <1>3, <1>6, <2>1 DEF SyncSend, pubVars
<1>7. CASE BrokerAccept
  <2>1. Len(Tail(wire)) = Len(wire) - 1 /\ Len(wire) > 0
    BY <1>0, <1>7 DEF BrokerAccept
  <2>2. \A n \in 1..Len(wire') : wire'[n] = wire[n + 1] /\ n + 1 \in 1..Len(wire)
    BY <1>0, <1>7, <2>1 DEF BrokerAccept
  <2>3. UNCHANGED <<lock, drained, chunk>>
    BY <1>7 DEF BrokerAccept, pubVars, syncVars
  <2>4. AwaitedIsHeld'
    BY <1>a, <2>2, <2>3, SameBatch DEF AwaitedIsHeld, ItemsOf
  <2>5. \A n \in 1..Len(wire') : wire'[n].awaited => ~ack /\ ~wire[1].awaited
    BY <1>0, <1>a, <2>1, <2>2 DEF OneAwaited
  <2>6. Head(wire) = wire[1]
    BY <1>0, <2>1
  <2>7. \A n \in 1..Len(wire') : wire'[n].awaited => ~ack'
    BY <1>7, <2>5, <2>6 DEF BrokerAccept
  <2>8. Len(wire') \in Nat
    BY <1>0, <1>7, <2>1 DEF BrokerAccept
  <2>9. \A n, k \in 1..Len(wire') : wire'[n].awaited /\ wire'[k].awaited => k = n
    BY <1>a, <2>2, <2>8 DEF OneAwaited
  <2> QED BY <2>4, <2>7, <2>9 DEF OneAwaited
<1>8. CASE PollerNext
  BY <1>3, <1>8 DEF PollerNext, PollStart, ReadSensor, SaveLocal, EmitSetpoints,
       PollTimeout, PollStop, pubVars, syncVars, netVars
<1>9. CASE PublisherNext
  BY <1>a, <1>1, <1>2, <1>3, <1>4, <1>5, <1>9 DEF PublisherNext, PubConnect, PubDrain,
       PubAcked, PubackArrived, PubTimeout, GiveUp, Unawaited, PubBuffer, PubBufferFails,
       PubClose, LockIsHeld, pubVars, syncVars, netVars
<1>10. CASE SyncNext
  BY <1>a, <1>2, <1>3, <1>4, <1>6, <1>10 DEF SyncNext, SyncPeek, SyncCheck, SyncAcked,
       PubackArrived, SyncTimeout, GiveUp, Unawaited, SyncDelete, SyncDeleteFails, LockIsHeld,
       pubVars, syncVars, netVars
<1>11. CASE LinkLoss
  BY <1>1, <1>11 DEF LinkLoss
<1>12. CASE ProcessNext
  BY <1>1, <1>3, <1>12 DEF ProcessNext, Crash, SaveLocalFails, FlushCount, FlushAgain, FlushDone,
       FlushTimeout, Halt, ProcessEnds, Restart, pubVars, syncVars, netVars
<1>13. CASE UNCHANGED vars
  BY <1>3, <1>13 DEF vars, pubVars, syncVars, netVars
<1> QED
  BY <1>7, <1>8, <1>9, <1>10, <1>11, <1>12, <1>13 DEF Next

\* The PUBACK of a publish arrives while its sender holds the lock, and the
\* broker has taken the items it settles.
LEMMA AckNext == PublishProtocol /\ [Next]_vars => AckIsForTheAwaited'
<1> SUFFICES ASSUME PublishProtocol, [Next]_vars PROVE AckIsForTheAwaited'
  OBVIOUS
<1>a. LockIsHeld /\ AckIsForTheAwaited
  BY DEF PublishProtocol
<1>1. CASE ~ack'
  BY <1>1 DEF AckIsForTheAwaited
<1>2. CASE /\ UNCHANGED <<lock, ack, accepted>>
           /\ lock = "publisher" => UNCHANGED drained
           /\ lock = "sync" => UNCHANGED chunk
  BY <1>a, <1>2, SameBatch DEF AckIsForTheAwaited, ItemsOf
<1>3. CASE BrokerAccept
  <2>1. wire \in Seq(Message) /\ Len(wire) \in Nat /\ wire # << >>
    BY <1>3 DEF BrokerAccept, PublishProtocol, TypedPublisher, TypeOK, WireOK
  <2>2. Head(wire) = wire[1] /\ 1 \in 1..Len(wire)
    BY <2>1
  <2>3. UNCHANGED <<lock, drained, chunk>> /\ accepted' = accepted \cup wire[1].items
    BY <1>3, <2>2 DEF BrokerAccept, pubVars, syncVars
  <2>4. CASE wire[1].awaited
    BY <2>2, <2>3, <2>4, SameBatch DEF PublishProtocol, AwaitedIsHeld,
       AckIsForTheAwaited, ItemsOf
  <2>5. CASE ~wire[1].awaited
    <3>1. UNCHANGED ack
      BY <1>3, <2>2, <2>5 DEF BrokerAccept, PublishProtocol, TypedPublisher, TypeOK,
         ControlOK
    <3> QED BY <1>a, <2>3, <3>1, SameBatch DEF AckIsForTheAwaited, ItemsOf
  <2> QED BY <2>4, <2>5
<1>4. CASE PubSend \/ SyncSend
  BY <1>a, <1>1, <1>4 DEF PubSend, SyncSend, AckIsForTheAwaited
<1>5. CASE PollerNext
  BY <1>2, <1>5 DEF PollerNext, PollStart, ReadSensor, SaveLocal, EmitSetpoints,
       PollTimeout, PollStop, pubVars, syncVars, netVars
<1>6. CASE PublisherNext
  BY <1>a, <1>1, <1>2, <1>4, <1>6 DEF PublisherNext, PubConnect, PubDrain, PubAcked,
       PubTimeout, GiveUp, PubBuffer, PubBufferFails, PubClose, LockIsHeld,
       pubVars, syncVars, netVars
<1>7. CASE SyncNext
  BY <1>a, <1>1, <1>2, <1>4, <1>7 DEF SyncNext, SyncPeek, SyncCheck, SyncAcked,
       SyncTimeout, GiveUp, SyncDelete, SyncDeleteFails, LockIsHeld, pubVars, syncVars, netVars
<1>8. CASE LinkLoss
  BY <1>2, <1>8 DEF LinkLoss, pubVars, syncVars
<1>9. CASE ProcessNext
  BY <1>1, <1>2, <1>9 DEF ProcessNext, Crash, SaveLocalFails, FlushCount, FlushAgain, FlushDone,
       FlushTimeout, Halt, ProcessEnds, Restart, pubVars, syncVars, netVars
<1>10. CASE UNCHANGED vars
  BY <1>2, <1>10 DEF vars, pubVars, syncVars, netVars
<1> QED
  BY <1>3, <1>5, <1>6, <1>7, <1>8, <1>9, <1>10 DEF Next

\* Only SyncAcked lets the sync task delete, and it has just seen its PUBACK.
LEMMA DeletingNext == PublishProtocol /\ [Next]_vars => DeletingIsAcked'
<1> SUFFICES ASSUME PublishProtocol, [Next]_vars PROVE DeletingIsAcked'
  OBVIOUS
<1>a. LockIsHeld /\ AckIsForTheAwaited /\ DeletingIsAcked
  BY DEF PublishProtocol
<1>1. CASE syncPc' # "deleting"
  BY <1>1 DEF DeletingIsAcked
<1>2. CASE UNCHANGED <<syncPc, chunk>> /\ accepted \subseteq accepted'
  BY <1>a, <1>2 DEF DeletingIsAcked, ItemsOf
<1>3. CASE SyncAcked
  BY <1>a, <1>3 DEF SyncAcked, PubackArrived, LockIsHeld, AckIsForTheAwaited,
     DeletingIsAcked, ItemsOf
<1>4. CASE PollerNext \/ BrokerAccept \/ LinkLoss
  BY <1>2, <1>4 DEF PollerNext, PollStart, ReadSensor, SaveLocal, EmitSetpoints,
       PollTimeout, PollStop, BrokerAccept, LinkLoss, syncVars, netVars
<1>5. CASE PublisherNext
  BY <1>1, <1>2, <1>5 DEF PublisherNext, PubConnect, PubDrain, PubSend, PubAcked,
       PubTimeout, PubBuffer, PubBufferFails, PubClose, syncVars, netVars
<1>6. CASE SyncNext
  BY <1>1, <1>3, <1>6 DEF SyncNext, SyncPeek, SyncCheck, SyncSend,
       SyncTimeout, SyncDelete, SyncDeleteFails
<1>7. CASE ProcessNext
  BY <1>1, <1>2, <1>7 DEF ProcessNext, Crash, SaveLocalFails, FlushCount, FlushAgain, FlushDone,
       FlushTimeout, Halt, ProcessEnds, Restart, syncVars, netVars
<1>8. CASE UNCHANGED vars
  BY <1>2, <1>8 DEF vars, syncVars, netVars
<1> QED
  BY <1>4, <1>5, <1>6, <1>7, <1>8 DEF Next

LEMMA ProtocolNext == PublishProtocol /\ [Next]_vars => PublishProtocol'
<1>1. PublishProtocol => TypedPublisher
  BY DEF PublishProtocol
<1> QED
  BY <1>1, TypedNext, LockNext, AwaitedNext, AckNext, DeletingNext DEF PublishProtocol

LEMMA Protocol == Spec => []PublishProtocol
BY ProtocolInit, ProtocolNext, PTL DEF Spec

\* A PUBACK seen by a task is the one of its own publish (daemon.py:309-315,
\* 406-414): neither task takes the late answer to the other's timed-out one.
THEOREM AckForTheAwaited == Spec => []AckIsForTheAwaited
<1>1. PublishProtocol => AckIsForTheAwaited
  BY DEF PublishProtocol
<1> QED BY <1>1, Protocol, PTL

-----------------------------------------------------------------------------
(* What leaves the buffer, and what is lost. *)

\* A row that a step removes from the buffer was one of the chunk the sync
\* task had got acknowledged.
LEMMA OnlyDeletingRemoves ==
  ASSUME PublishProtocol, [Next]_vars
  PROVE  \A r \in buffer \ buffer' : SyncDelete /\ syncPc = "deleting" /\ r \in chunk
<1>1. CASE buffer \subseteq buffer'
  BY <1>1
<1>2. CASE SyncDelete
  BY <1>2 DEF SyncDelete
<1>3. CASE PollerNext \/ BrokerAccept \/ LinkLoss
  BY <1>1, <1>3 DEF PollerNext, PollStart, ReadSensor, SaveLocal, EmitSetpoints,
       PollTimeout, PollStop, BrokerAccept, LinkLoss, rowVars
<1>4. CASE PublisherNext
  BY <1>1, <1>4 DEF PublisherNext, PubConnect, PubDrain, PubSend, PubAcked,
       PubTimeout, PubBuffer, PubBufferFails, PubClose, rowVars
<1>5. CASE SyncNext
  BY <1>1, <1>2, <1>5 DEF SyncNext, SyncPeek, SyncCheck, SyncSend, SyncAcked,
       SyncTimeout, SyncDeleteFails, rowVars
<1>6. CASE ProcessNext
  BY <1>1, <1>6 DEF ProcessNext, Crash, SaveLocalFails, FlushCount, FlushAgain, FlushDone,
       FlushTimeout, Halt, ProcessEnds, Restart, rowVars
<1>7. CASE UNCHANGED vars
  BY <1>1, <1>7 DEF vars, rowVars
<1> QED
  BY <1>3, <1>4, <1>5, <1>6, <1>7 DEF Next

LEMMA RemovedIsAccepted ==
  PublishProtocol /\ [Next]_vars => \A r \in buffer \ buffer' : r.item \in accepted
<1> SUFFICES ASSUME PublishProtocol, [Next]_vars, NEW r \in buffer \ buffer'
             PROVE  r.item \in accepted
  OBVIOUS
<1>1. syncPc = "deleting" /\ r \in chunk
  BY OnlyDeletingRemoves
<1> QED BY <1>1 DEF PublishProtocol, DeletingIsAcked, ItemsOf

\* A row leaves the SQLite buffer only when the broker has acknowledged its
\* item (buffer.py:3-5), through any crash, link loss or slow PUBACK.
THEOREM RowsOutlive == Spec => RowsOutliveTheirAck
<1>1. PublishProtocol /\ [Next]_vars
        => [\A r \in buffer \ buffer' : r.item \in accepted]_vars
  BY RemovedIsAccepted
<1> QED BY <1>1, Protocol, PTL DEF Spec, RowsOutliveTheirAck

LEMMA NothingLostNext ==
  ASSUME PublishProtocol, NothingDrainedIsLost, [Next]_vars
  PROVE  NothingDrainedIsLost'
<1> USE DEF NothingDrainedIsLost
<1>1. CASE /\ outbox \subseteq outbox' /\ generated' \subseteq generated \cup outbox'
           /\ UNCHANGED <<drained, buffer, accepted, lost>>
  BY <1>1 DEF ItemsOf
<1>2. CASE /\ UNCHANGED <<outbox, drained, buffer, lost, generated>>
           /\ accepted \subseteq accepted'
  BY <1>2 DEF ItemsOf
<1>3. CASE PollerNext
  BY <1>1, <1>3 DEF PollerNext, PollStart, ReadSensor, SaveLocal, EmitSetpoints,
       PollTimeout, PollStop, pubVars, rowVars, netVars, endVars
<1>4. CASE PubConnect \/ PubSend \/ PubTimeout \/ PubClose
  BY <1>2, <1>4 DEF PubConnect, PubSend, PubTimeout, PubClose, rowVars, netVars, endVars
<1>5. CASE PubDrain
  BY <1>5 DEF PubDrain, rowVars, netVars, endVars, ItemsOf, PublishProtocol,
       TypedPublisher, PublisherHolds
<1>6. CASE PubAcked
  <2>1. PubBatch \subseteq accepted
    BY <1>6 DEF PubAcked, PubackArrived, PublishProtocol, LockIsHeld, AckIsForTheAwaited
  <2> QED BY <1>6, <2>1 DEF PubAcked, rowVars, netVars, endVars, ItemsOf
<1>7. CASE PubBuffer
  <2>1. ASSUME NEW i \in drained PROVE i \in ItemsOf(buffer')
    <3>1. [batch |-> batches + 1, item |-> i] \in buffer'
      BY <1>7, <2>1 DEF PubBuffer, Unsettled
    <3> QED BY <3>1 DEF ItemsOf
  <2>2. ItemsOf(buffer) \subseteq ItemsOf(buffer')
    BY <1>7 DEF PubBuffer, ItemsOf
  <2> QED BY <1>7, <2>1, <2>2 DEF PubBuffer, netVars, endVars, ItemsOf
<1>8. CASE PubBufferFails
  BY <1>8 DEF PubBufferFails, rowVars, netVars, ItemsOf
<1>9. CASE SyncPeek \/ SyncCheck \/ SyncSend \/ SyncAcked \/ SyncTimeout
           \/ SyncDeleteFails
  BY <1>2, <1>9 DEF SyncPeek, SyncCheck, SyncSend, SyncAcked, SyncTimeout, SyncDeleteFails,
       pubVars, rowVars, netVars, endVars
<1>10. CASE SyncDelete
  <2>1. ItemsOf(buffer) \subseteq ItemsOf(buffer') \cup accepted
    BY <1>10, RemovedIsAccepted DEF ItemsOf
  <2> QED BY <1>10, <2>1 DEF SyncDelete, pubVars, netVars, endVars, ItemsOf
<1>11. CASE BrokerAccept \/ LinkLoss
  BY <1>2, <1>11 DEF BrokerAccept, LinkLoss, pubVars, rowVars, endVars
<1>12. CASE ProcessNext
  <2>1. CASE ProcessEnds
    BY <2>1 DEF ProcessEnds, rowVars, ItemsOf
  <2>2. CASE FlushCount \/ FlushAgain \/ Restart
    BY <1>2, <2>2 DEF FlushCount, FlushAgain, Restart, pubVars, rowVars, netVars, endVars
  <2> QED BY <1>12, <2>1, <2>2 DEF ProcessNext, Crash, SaveLocalFails, FlushDone, FlushTimeout, Halt
<1>13. CASE UNCHANGED vars
  BY <1>2, <1>13 DEF vars, pubVars, rowVars, netVars, endVars
<1> QED
  BY <1>3, <1>4, <1>5, <1>6, <1>7, <1>8, <1>9, <1>10, <1>11, <1>12, <1>13
  DEF Next, PublisherNext, SyncNext

\* Every generated item is held by the daemon, with the broker, or was in
\* memory when the process ended or in the publisher's hands when put_many
\* raised, through any interleaving of publish, backfill, timeouts and link
\* losses (daemon.py:311-338, 406-418).
THEOREM NothingLost == Spec => []NothingDrainedIsLost
<1>1. Init => NothingDrainedIsLost
  BY DEF Init, NothingDrainedIsLost
<1>2. PublishProtocol /\ NothingDrainedIsLost /\ [Next]_vars => NothingDrainedIsLost'
  BY NothingLostNext
<1> QED BY <1>1, <1>2, Protocol, PTL DEF Spec

-----------------------------------------------------------------------------
(* The daemon holds no item twice. *)

\* What the daemon holds was generated once.
HeldWasGenerated == outbox \cup drained \cup ItemsOf(buffer) \subseteq generated

\* Items come in the order of the clock, and within a cycle in that of the slots.
GeneratedSoFar ==
  \A i \in generated :
    /\ i.cycle <= cycle
    /\ i.cycle = cycle /\ pollPc \in {"reading", "saved"} => i.slot <= readCount

HeldInv == TypedPublisher /\ HeldWasGenerated /\ GeneratedSoFar /\ EachItemHeldOnce

\* The item a sensor or a register yields next is a new one.
LEMMA NextItemIsNew ==
  ASSUME HeldInv, pollPc \in {"reading", "saved"}, NEW s, s > readCount
  PROVE  [cycle |-> cycle, slot |-> s] \notin generated
<1> SUFFICES ASSUME [cycle |-> cycle, slot |-> s] \in generated,
                    s \in Nat, readCount \in Nat, s <= readCount
             PROVE  FALSE
  BY DEF HeldInv, GeneratedSoFar, TypedPublisher, TypeOK, ItemsOK, CountersOK, Item, Sensors, Registers
<1> QED OBVIOUS

LEMMA GeneratedNext ==
  ASSUME ~KeepPolling, HeldInv, [Next]_vars
  PROVE  GeneratedSoFar'
<1> USE DEF GeneratedSoFar
<1>0. /\ GeneratedSoFar
      /\ cycle \in Nat /\ readCount \in 0..NumSensors /\ NumSensors \in Nat /\ NumRegisters \in Nat
      /\ \A i \in generated : i.cycle \in Nat /\ i.slot \in Nat
  BY ItemsAssumption DEF HeldInv, TypedPublisher, TypeOK, ItemsOK, CountersOK, Item, Sensors, Registers
<1>1. CASE UNCHANGED <<cycle, generated>> /\ pollPc' \notin {"reading", "saved"}
  BY <1>0, <1>1
<1>2. CASE UNCHANGED <<cycle, generated, readCount>>
           /\ (pollPc' \in {"reading", "saved"} => pollPc \in {"reading", "saved"})
  BY <1>0, <1>2
<1>3. CASE PollStart
  BY <1>0, <1>3 DEF PollStart
<1>4. CASE ReadSensor
  BY <1>0, <1>4 DEF ReadSensor
<1>5. CASE EmitSetpoints
  <2>1. cycle' = cycle /\ pollPc' = "idle" /\ readCount' = readCount
    BY <1>5 DEF EmitSetpoints
  <2>2. \A i \in generated' : i \in generated \/ i.cycle = cycle
    BY <1>5 DEF EmitSetpoints
  <2> QED BY <1>0, <2>1, <2>2
<1>6. CASE SaveLocal \/ PollTimeout \/ PollStop
  BY <1>1, <1>2, <1>6 DEF SaveLocal, PollTimeout, PollStop
<1>7. CASE UNCHANGED pollVars /\ UNCHANGED generated
  BY <1>2, <1>7 DEF pollVars
<1>8. CASE ProcessNext
  BY <1>1, <1>2, <1>8 DEF ProcessNext, Crash, SaveLocalFails, FlushCount, FlushAgain, FlushDone,
       FlushTimeout, Halt, ProcessEnds, ClockAfterRestart, Restart, pollVars
<1>9. CASE PublisherNext
  BY <1>7, <1>9 DEF PublisherNext, PubConnect, PubDrain, PubSend, PubAcked,
       PubTimeout, PubBuffer, PubBufferFails, PubClose
<1>10. CASE SyncNext
  BY <1>7, <1>10 DEF SyncNext, SyncPeek, SyncCheck, SyncSend, SyncAcked,
       SyncTimeout, SyncDelete, SyncDeleteFails
<1>11. CASE BrokerAccept \/ LinkLoss \/ UNCHANGED vars
  BY <1>7, <1>11 DEF BrokerAccept, LinkLoss, vars, pollVars
<1> QED
  BY <1>3, <1>4, <1>5, <1>6, <1>8, <1>9, <1>10, <1>11 DEF Next, PollerNext

\* A poll step may add new items to the outbox; every other step moves items
\* from outbox to publisher to buffer, or drops them.
LEMMA HeldOnceNext ==
  ASSUME HeldInv, [Next]_vars
  PROVE  HeldWasGenerated' /\ EachItemHeldOnce'
<1> USE DEF HeldWasGenerated, EachItemHeldOnce
<1>0. /\ HeldWasGenerated /\ EachItemHeldOnce
      /\ drained \subseteq Item /\ buffer \subseteq Row /\ batches \in Nat
      /\ readCount \in Nat /\ NumSensors \in Nat /\ readCount <= NumSensors
  BY ItemsAssumption DEF HeldInv, TypedPublisher, TypeOK, ItemsOK, CountersOK
<1>1. ASSUME NEW new, outbox' = outbox \cup new, generated' = generated \cup new,
             new \cap generated = {}, UNCHANGED <<drained, buffer>>
      PROVE  HeldWasGenerated' /\ EachItemHeldOnce'
  BY <1>0, <1>1 DEF ItemsOf
<1>2. CASE /\ outbox' \subseteq outbox /\ drained' \subseteq drained
           /\ buffer' \subseteq buffer /\ UNCHANGED generated
  <2>1. ItemsOf(buffer') \subseteq ItemsOf(buffer)
    BY <1>2 DEF ItemsOf
  <2>2. ItemsOf(buffer)' = ItemsOf(buffer')
    BY DEF ItemsOf
  <2> QED BY <1>0, <1>2, <2>1, <2>2
<1>3. CASE ReadSensor
  <2>1. [cycle |-> cycle, slot |-> readCount + 1] \notin generated
    BY <1>0, <1>3, NextItemIsNew DEF ReadSensor
  <2> DEFINE new == {[cycle |-> cycle, slot |-> readCount + 1]}
  <2>2. /\ outbox' = outbox \cup new /\ generated' = generated \cup new
        /\ UNCHANGED <<drained, buffer>>
    BY <1>3 DEF ReadSensor, pubVars, rowVars
  <2>3. new \cap generated = {}
    BY <2>1
  <2> HIDE DEF new
  <2> QED BY <1>1, <2>2, <2>3
<1>4. CASE EmitSetpoints
  <2>1. PICK changed \in SUBSET Registers :
          LET items == {[cycle |-> cycle, slot |-> r] : r \in changed}
          IN  outbox' = outbox \cup items /\ generated' = generated \cup items
    BY <1>4 DEF EmitSetpoints
  <2>2. \A r \in changed : r > readCount
    BY <1>0, ItemsAssumption DEF Registers
  <2>3. \A r \in changed : [cycle |-> cycle, slot |-> r] \notin generated
    BY <1>4, <2>2, NextItemIsNew DEF EmitSetpoints
  <2> DEFINE new == {[cycle |-> cycle, slot |-> r] : r \in changed}
  <2>4. /\ outbox' = outbox \cup new /\ generated' = generated \cup new
        /\ UNCHANGED <<drained, buffer>>
    BY <1>4, <2>1 DEF EmitSetpoints, pubVars, rowVars
  <2>5. new \cap generated = {}
    BY <2>3
  <2> HIDE DEF new
  <2> QED BY <1>1, <2>4, <2>5
<1>5. CASE PubDrain
  <2>1. drained = {}
    BY <1>5 DEF PubDrain, HeldInv, TypedPublisher, PublisherHolds
  <2> QED BY <1>0, <1>5, <2>1 DEF PubDrain, rowVars, ItemsOf
<1>6. CASE PubBuffer
  <2> DEFINE new == {[batch |-> batches + 1, item |-> i] : i \in drained}
  <2>1. buffer' = buffer \cup new /\ drained' = {} /\ UNCHANGED <<outbox, generated>>
    BY <1>6 DEF PubBuffer, Unsettled
  <2>2. ItemsOf(buffer)' = ItemsOf(buffer) \cup drained
    <3>1. \A i \in drained : [batch |-> batches + 1, item |-> i] \in new
      OBVIOUS
    <3>2. \A r \in new : r.item \in drained
      OBVIOUS
    <3> HIDE DEF new
    <3>3. \A i \in drained : \E r \in new : r.item = i
      <4> SUFFICES ASSUME NEW i \in drained PROVE \E r \in new : r.item = i
        OBVIOUS
      <4>1. [batch |-> batches + 1, item |-> i] \in new
        BY <3>1
      <4> QED BY <4>1
    <3>4. ItemsOf(buffer)' = {r.item : r \in buffer'}
      BY DEF ItemsOf
    <3>5. {r.item : r \in buffer'} = ItemsOf(buffer) \cup {r.item : r \in new}
      BY <2>1 DEF ItemsOf
    <3>6. {r.item : r \in new} = drained
      BY <3>2, <3>3
    <3> QED BY <3>4, <3>5, <3>6
  <2>3. \A r \in new : r.item \in drained /\ r = [batch |-> batches + 1, item |-> r.item]
    OBVIOUS
  <2>4. \A r \in buffer : r.item \notin drained
    BY <1>0 DEF ItemsOf
  <2>5. \A r, q \in buffer' : r.item = q.item => r = q
    <3> HIDE DEF new
    <3> QED BY <1>0, <2>1, <2>3, <2>4
  <2> QED BY <1>0, <2>1, <2>2, <2>5
<1>7. CASE PollStart \/ SaveLocal \/ PollTimeout \/ PollStop
  BY <1>2, <1>7 DEF PollStart, SaveLocal, PollTimeout, PollStop, pubVars, rowVars
<1>8. CASE PubConnect \/ PubSend \/ PubAcked \/ PubTimeout \/ PubBufferFails \/ PubClose
  BY <1>2, <1>8 DEF PubConnect, PubSend, PubAcked, PubTimeout, PubBufferFails, PubClose, rowVars
<1>9. CASE SyncNext
  BY <1>2, <1>9 DEF SyncNext, SyncPeek, SyncCheck, SyncSend, SyncAcked,
       SyncTimeout, SyncDelete, SyncDeleteFails, pubVars, rowVars
<1>10. CASE BrokerAccept \/ LinkLoss \/ UNCHANGED vars
  BY <1>2, <1>10 DEF BrokerAccept, LinkLoss, vars, pubVars, rowVars
<1>11. CASE ProcessNext
  BY <1>2, <1>11 DEF ProcessNext, Crash, SaveLocalFails, FlushCount, FlushAgain, FlushDone,
       FlushTimeout, Halt, ProcessEnds, Restart, pubVars, rowVars
<1> QED
  BY <1>3, <1>4, <1>5, <1>6, <1>7, <1>8, <1>9, <1>10, <1>11
  DEF Next, PollerNext, PublisherNext

\* While the clock goes forward, as the clock gate sees to, no item is in two of
\* outbox, publisher and buffer, nor in two rows (daemon.py:311-338, 406-418).
\* Under KeepPolling one timestamp stands for many, and the claim means nothing.
THEOREM HeldOnce ==
  ASSUME ~KeepPolling
  PROVE  Spec => []EachItemHeldOnce
<1>1. Init => HeldInv
  <2> SUFFICES ASSUME Init PROVE HeldInv
    OBVIOUS
  <2> QED BY TypedInit DEF Init, HeldInv, HeldWasGenerated, GeneratedSoFar, EachItemHeldOnce, ItemsOf
<1>2. HeldInv /\ [Next]_vars => HeldInv'
  BY TypedNext, GeneratedNext, HeldOnceNext DEF HeldInv
<1>3. HeldInv => EachItemHeldOnce
  BY DEF HeldInv
<1> QED BY <1>1, <1>2, <1>3, PTL DEF Spec

-----------------------------------------------------------------------------
(* The buffer is drained oldest first. *)

LEMMA InsertedTransitive ==
  ASSUME NEW a \in Item, NEW b \in Item, NEW c \in Item,
         InsertedBefore(a, b), InsertedBefore(b, c)
  PROVE  InsertedBefore(a, c)
<1>1. GeneratedBefore(a, b) /\ GeneratedBefore(b, c) => GeneratedBefore(a, c)
  BY ItemsAssumption DEF GeneratedBefore, Item, Sensors, Registers
<1>2. CASE a \in Reading
  BY <1>1, <1>2 DEF InsertedBefore
<1>3. CASE a \notin Reading
  BY <1>1, <1>3 DEF InsertedBefore
<1> QED BY <1>2, <1>3

LEMMA RowsTransitive ==
  ASSUME NEW p \in Row, NEW q \in Row, NEW r \in Row, RowBefore(p, q), RowBefore(q, r)
  PROVE  RowBefore(p, r)
<1>1. p.batch \in Nat /\ q.batch \in Nat /\ r.batch \in Nat
      /\ p.item \in Item /\ q.item \in Item /\ r.item \in Item
  BY DEF Row
<1>2. CASE InsertedBefore(p.item, q.item) /\ InsertedBefore(q.item, r.item)
  <2>1. InsertedBefore(p.item, r.item)
    BY <1>1, <1>2, InsertedTransitive
  <2> QED BY <1>1, <2>1 DEF RowBefore
<1> QED BY <1>1, <1>2 DEF RowBefore

\* The buffer is finite: its rows come from the put_many calls so far.
LEMMA ItemFinite == IsFiniteSet(Item)
<1> DEFINE Slots == Sensors \cup Registers
           Pairs == (1..MaxCycles) \X Slots
           f == [p \in Pairs |-> [cycle |-> p[1], slot |-> p[2]]]
<1>1. IsFiniteSet(1..MaxCycles) /\ IsFiniteSet(Sensors) /\ IsFiniteSet(Registers)
  BY ItemsAssumption, FS_Interval DEF Sensors, Registers
<1>2. IsFiniteSet(Slots)
  BY <1>1, FS_Union
<1>3. IsFiniteSet(Pairs)
  BY <1>1, <1>2, FS_Product
<1>4. f \in Surjection(Pairs, Item)
  <2>1. \A i \in Item : \E p \in Pairs : f[p] = i
    <3> SUFFICES ASSUME NEW i \in Item PROVE \E p \in Pairs : f[p] = i
      OBVIOUS
    <3>1. <<i.cycle, i.slot>> \in Pairs
      BY DEF Item
    <3>2. f[<<i.cycle, i.slot>>] = i
      BY <3>1 DEF Item
    <3> QED BY <3>1, <3>2
  <2> QED BY <2>1 DEF Surjection, Item
<1> QED BY <1>3, <1>4, FS_Surjection

LEMMA RowsFinite ==
  ASSUME NEW n \in Nat, NEW S \in SUBSET Row, \A r \in S : r.batch <= n
  PROVE  IsFiniteSet(S)
<1> DEFINE Pairs == (0..n) \X Item
           Rows == [batch : 0..n, item : Item]
           f == [p \in Pairs |-> [batch |-> p[1], item |-> p[2]]]
<1>1. IsFiniteSet(0..n)
  BY FS_Interval
<1>2. IsFiniteSet(Pairs)
  BY <1>1, ItemFinite, FS_Product
<1>3. f \in Surjection(Pairs, Rows)
  <2>1. \A r \in Rows : \E p \in Pairs : f[p] = r
    <3> SUFFICES ASSUME NEW r \in Rows PROVE \E p \in Pairs : f[p] = r
      OBVIOUS
    <3>1. <<r.batch, r.item>> \in Pairs
      OBVIOUS
    <3>2. f[<<r.batch, r.item>>] = r
      BY <3>1
    <3> QED BY <3>1, <3>2
  <2> QED BY <2>1 DEF Surjection
<1>4. IsFiniteSet(Rows)
  BY <1>2, <1>3, FS_Surjection
<1>5. S \in SUBSET Rows
  BY DEF Row
<1> QED BY <1>4, <1>5, FS_Subset

\* LIMIT keeps the rows before any row it keeps.
LEMMA FirstRowsClosed ==
  ASSUME buffer \subseteq Row, IsFiniteSet(buffer),
         NEW r \in FirstRows, NEW q \in buffer, RowBefore(q, r)
  PROVE  q \in FirstRows
<1> DEFINE Before(x) == {p \in buffer : RowBefore(p, x)}
<1>1. r \in buffer /\ Cardinality(Before(r)) < ChunkSize
  BY DEF FirstRows
<1>2. Before(q) \in SUBSET Before(r)
  BY <1>1, RowsTransitive
<1>3. Before(r) \in SUBSET buffer
  OBVIOUS
<1> HIDE DEF Before
<1>4. IsFiniteSet(Before(r))
  BY <1>3, FS_Subset
<1>5. /\ Cardinality(Before(r)) \in Nat /\ Cardinality(Before(q)) \in Nat
      /\ Cardinality(Before(q)) <= Cardinality(Before(r))
  BY <1>2, <1>4, FS_Subset, FS_CardinalityType
<1>6. Cardinality(Before(q)) < ChunkSize
  BY <1>1, <1>5, DaemonAssumption
<1> USE DEF Before
<1> QED BY <1>6 DEF FirstRows

\* Rows are numbered by the put_many calls so far.
RowsSoFar == \A r \in buffer : r.batch <= batches

\* While the sync task works on its chunk, no older row than one of the chunk's
\* is in the buffer outside it: what is put meanwhile comes after.
ChunkIsOldest ==
  /\ chunk \subseteq buffer
  /\ \A r \in chunk, q \in buffer \ chunk : ~RowBefore(q, r)

OldestInv == PublishProtocol /\ RowsSoFar /\ ChunkIsOldest

LEMMA OldestNext ==
  ASSUME OldestInv, [Next]_vars
  PROVE  RowsSoFar' /\ ChunkIsOldest'
<1> USE DEF RowsSoFar, ChunkIsOldest
<1>0. /\ RowsSoFar /\ ChunkIsOldest /\ PublishProtocol
      /\ buffer \subseteq Row /\ batches \in Nat
  BY DEF OldestInv, PublishProtocol, TypedPublisher, TypeOK, ItemsOK, CountersOK
<1>1. CASE UNCHANGED rowVars /\ (UNCHANGED chunk \/ chunk' = {})
  BY <1>0, <1>1 DEF rowVars
<1>2. CASE SyncPeek
  <2>1. UNCHANGED rowVars /\ chunk' = FirstRows
    BY <1>2 DEF SyncPeek
  <2>2. FirstRows \subseteq buffer
    BY DEF FirstRows
  <2>3. IsFiniteSet(buffer)
    BY <1>0, RowsFinite
  <2>4. \A r \in FirstRows, q \in buffer \ FirstRows : ~RowBefore(q, r)
    BY <1>0, <2>3, FirstRowsClosed
  <2> QED BY <1>0, <2>1, <2>2, <2>4 DEF rowVars
<1>3. CASE SyncDelete
  BY <1>0, <1>3 DEF SyncDelete
<1>4. CASE PubBuffer
  <2> DEFINE new == {[batch |-> batches + 1, item |-> i] : i \in drained}
  <2>1. /\ buffer' = buffer \cup new /\ batches' = batches + 1 /\ UNCHANGED chunk
    BY <1>4 DEF PubBuffer, Unsettled, syncVars
  <2>2. \A q \in new : q.batch = batches + 1
    OBVIOUS
  <2>3. \A r \in buffer : r.batch \in Nat /\ r.batch <= batches
    BY <1>0 DEF Row
  <2> HIDE DEF new
  <2>4. \A q \in new, r \in buffer : ~RowBefore(q, r)
    BY <1>0, <2>2, <2>3 DEF RowBefore
  <2>5. \A r \in buffer' : r.batch <= batches'
    BY <1>0, <2>1, <2>2, <2>3
  <2>6. \A r \in chunk', q \in buffer' \ chunk' : ~RowBefore(q, r)
    BY <1>0, <2>1, <2>4
  <2> QED BY <1>0, <2>1, <2>5, <2>6
<1>5. CASE PollerNext \/ BrokerAccept \/ LinkLoss
  BY <1>1, <1>5 DEF PollerNext, PollStart, ReadSensor, SaveLocal, EmitSetpoints,
       PollTimeout, PollStop, BrokerAccept, LinkLoss, syncVars
<1>6. CASE PublisherNext
  BY <1>1, <1>4, <1>6 DEF PublisherNext, PubConnect, PubDrain, PubSend, PubAcked,
       PubTimeout, PubBufferFails, PubClose, syncVars
<1>7. CASE SyncNext
  BY <1>1, <1>2, <1>3, <1>7 DEF SyncNext, SyncCheck, SyncSend, SyncAcked,
       SyncTimeout, SyncDeleteFails
<1>8. CASE ProcessNext
  BY <1>1, <1>8 DEF ProcessNext, Crash, SaveLocalFails, FlushCount, FlushAgain, FlushDone,
       FlushTimeout, Halt, ProcessEnds, Restart, syncVars
<1>9. CASE UNCHANGED vars
  BY <1>1, <1>9 DEF vars, syncVars
<1> QED
  BY <1>5, <1>6, <1>7, <1>8, <1>9 DEF Next

\* Backfill goes oldest-first (buffer.py:4, 68-77): whatever an outage appends
\* between peek_chunk and delete_ids, no row is deleted before an older one.
THEOREM OldestFirst == Spec => DrainedOldestFirst
<1>1. Init => OldestInv
  BY ProtocolInit DEF Init, OldestInv, RowsSoFar, ChunkIsOldest
<1>2. OldestInv /\ [Next]_vars => OldestInv'
  BY ProtocolNext, OldestNext DEF OldestInv
<1>3. OldestInv /\ [Next]_vars
        => [\A r \in buffer \ buffer', q \in buffer' : ~RowBefore(q, r)]_vars
  <2> SUFFICES ASSUME OldestInv, [Next]_vars, NEW r \in buffer \ buffer', NEW q \in buffer'
               PROVE  ~RowBefore(q, r)
    OBVIOUS
  <2>1. SyncDelete /\ r \in chunk
    BY OnlyDeletingRemoves DEF OldestInv
  <2> QED BY <2>1 DEF SyncDelete, OldestInv, ChunkIsOldest
<1> QED BY <1>1, <1>2, <1>3, PTL DEF Spec, DrainedOldestFirst
=============================================================================
