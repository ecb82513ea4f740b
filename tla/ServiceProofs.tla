--------------------------- MODULE ServiceProofs ---------------------------
(***************************************************************************)
(* What a crash and a stop of MonitorService lose, who holds its locks,    *)
(* and how soon a stop ends, for every number of requests in flight, every *)
(* save interval and every number of windows, alerts and failed writes.    *)
(* Then the page: it shows one answer and catches up, and the service it   *)
(* asks, which Dashboard assumes, is this one.                             *)
(***************************************************************************)
EXTENDS MonitorService, Dashboard, TLAPS

\* A window is closed only while the bound leaves room for it.
RoomLeft == cap \in {"append", "update", "updating"} => learned < MaxWindows

\* The store is entered with an alert in hand.
AlertInHand == cap = "saving" => pending > 0

\* stop() goes past join() once, and a thread that was joined stays ended.
JoinOrder ==
    /\ main \in {"serving", "joining"} <=> joined = "no"
    /\ joined = "yes" => ~ CaptureAlive

\* What main serialized after a join is all that was ever learned.
CopyOfEnd ==
    /\ copy <= learned /\ saved <= learned
    /\ main \in {"serializing", "store", "storing"} /\ joined = "yes" => copy = learned

\* Windows learned and not yet counted by sinceSave, or counted and not saved.
Allowance ==
    IF cap \in {"store", "storing"} THEN SaveInterval
    ELSE IF cap \in {"behavioral", "alerts", "saving", "recent", "crashed"} THEN sinceSave + 1
    ELSE sinceSave

\* Every save that failed leaves one interval more behind.
Backlog == joined # "timeout" => learned - saved <= SaveInterval * lostSaves + Allowance

\* After the last write of a stop that joined.
StopSaved ==
    main \in {"close", "closeDest", "stopped"} /\ joined = "yes" /\ lostSaves = 0
        => saved = learned

\* Alerts are written or pending while the thread lives, and pending only
\* between the detectors and the last write.
AlertsCounted ==
    /\ cap # "crashed" => rows + pending = raised
    /\ cap \notin {"behavioral", "alerts", "saving", "recent"} => pending = 0

TInv == TypeOK /\ RoomLeft /\ AlertInHand

SInv == TInv /\ JoinOrder /\ CopyOfEnd /\ Backlog /\ StopSaved

-----------------------------------------------------------------------------
(* Type correctness.                                                       *)

\* TypeOK by the variables each thread changes.
CountersType ==
    /\ learned \in 0..MaxWindows /\ copy \in 0..MaxWindows /\ saved \in 0..MaxWindows
    /\ keys \in 0..MaxKeys
    /\ pending \in 0..MaxAlerts
    /\ sinceSave \in 0..(SaveInterval - 1)
    /\ rows \in Nat /\ raised \in Nat /\ lostSaves \in Nat
    /\ failures \in 0..MaxFailures

PlacesType ==
    /\ cap \in CapturePlaces
    /\ main \in MainPlaces
    /\ svcLock \in Readers \union {Free}
    /\ dbLock \in {Capture, Main, Free}
    /\ stopEvt \in BOOLEAN
    /\ closed \in {{}, {"alerts"}, {"alerts", "dest"}}
    /\ joined \in {"no", "yes", "timeout"}

ReadersType ==
    /\ req \in [Readers -> Requests \union {"idle", "total", "iterating"}]
    /\ snapKeys \in [Readers \union {Main} -> 0..MaxKeys]
    /\ answer \in [Readers -> {"ok", "error"}]

LEMMA TypeParts == TypeOK <=> CountersType /\ PlacesType /\ ReadersType
BY DEF TypeOK, CountersType, PlacesType, ReadersType

LEMMA ConstantsType ==
    /\ SaveInterval \in Nat \ {0} /\ MaxAlerts \in Nat /\ MaxKeys \in Nat
    /\ MaxWindows \in Nat /\ MaxFailures \in Nat
BY ServiceAssumption

LEMMA CountersStep ==
    ASSUME CountersType, RoomLeft, AlertInHand, [Next]_vars
    PROVE  CountersType'
<1> USE ConstantsType DEF CountersType
<1>1. CASE UNCHANGED vars
  BY <1>1 DEF vars, state, history
<1>2. CASE Packet \/ ReadFails \/ Check \/ AppendWindow \/ SaveAlert \/ Recent \/ Store
  BY <1>2 DEF Packet, ReadFails, Check, AppendWindow, SaveAlert, Recent, Store, state, history
<1>3. CASE UpdateBegins
  BY <1>3 DEF UpdateBegins, history
<1>4. CASE UpdateEnds
  <2>1. learned < MaxWindows /\ learned' = learned + 1
    BY <1>4 DEF UpdateEnds, RoomLeft
  <2>2. PICK n \in 0..MaxAlerts : pending' = n /\ raised' = raised + n
    BY <1>4 DEF UpdateEnds
  <2>3. UNCHANGED <<keys, sinceSave, copy, saved, rows, failures, lostSaves>>
    BY <1>4 DEF UpdateEnds
  <2>4. QED
    BY <2>1, <2>2, <2>3
<1>5. CASE Behavioral
  BY <1>5 DEF Behavioral, Dies
<1>6. CASE AlertSaved
  <2>1. UNCHANGED <<learned, keys, sinceSave, copy, saved, raised, lostSaves>>
    BY <1>6 DEF AlertSaved
  <2>2. \/ rows' = rows + 1 /\ pending' = pending - 1 /\ UNCHANGED failures
        \/ rows' = rows /\ pending' = 0 /\ UNCHANGED failures
        \/ rows' = rows /\ pending' = 0 /\ failures < MaxFailures /\ failures' = failures + 1
    BY <1>6 DEF AlertSaved, Dies
  <2>3. pending > 0
    BY <1>6 DEF AlertSaved, AlertInHand
  <2>4. QED
    BY <2>1, <2>2, <2>3
<1>7. CASE Count
  BY <1>7 DEF Count, history
<1>8. CASE Stored \/ FinalStored
  BY <1>8 DEF Stored, FinalStored, Written
<1>9. CASE Stop \/ Join \/ FinalStore \/ Close \/ Exited
  BY <1>9 DEF Stop, Join, FinalStore, Close, Exited, vars, state, history
<1>10. CASE SerializeBegins
  BY <1>10 DEF SerializeBegins, history
<1>11. CASE SerializeEnds
  BY <1>11 DEF SerializeEnds, state
<1>12. ASSUME NEW r \in Readers, Ask(r) \/ Serve(r)
       PROVE  CountersType'
  BY <1>12 DEF Ask, Serve, Windows, Alerts, Status, Total, BaselineBegins, BaselineEnds,
               state, history
<1>13. QED
  BY <1>1, <1>2, <1>3, <1>4, <1>5, <1>6, <1>7, <1>8, <1>9, <1>10, <1>11, <1>12
  DEF Next, CaptureStep, MainStep

LEMMA PlacesStep ==
    ASSUME PlacesType, [Next]_vars
    PROVE  PlacesType'
<1> USE DEF PlacesType
<1>1. CASE UNCHANGED vars
  BY <1>1 DEF vars, threads, history
<1>2. CASE Packet \/ ReadFails \/ Check \/ AppendWindow \/ UpdateBegins \/ Recent \/ Count
  BY <1>2 DEF Packet, ReadFails, Check, AppendWindow, UpdateBegins, Recent, Count, CapturePlaces,
              history
<1>3. CASE UpdateEnds
  BY <1>3 DEF UpdateEnds, CapturePlaces
<1>4. CASE Behavioral
  BY <1>4 DEF Behavioral, Dies, CapturePlaces
<1>5. CASE SaveAlert \/ Store
  BY <1>5 DEF SaveAlert, Store, CapturePlaces, history
<1>6. CASE AlertSaved
  BY <1>6 DEF AlertSaved, Dies, CapturePlaces
<1>7. CASE Stored
  BY <1>7 DEF Stored, CapturePlaces
<1>8. CASE FinalStored
  BY <1>8 DEF FinalStored, MainPlaces
<1>9. CASE Stop \/ FinalStore \/ Close
  BY <1>9 DEF Stop, FinalStore, Close, MainPlaces, history
<1>10. CASE Join
  BY <1>10 DEF Join, MainPlaces
<1>11. CASE SerializeBegins
  BY <1>11 DEF SerializeBegins, MainPlaces, history
<1>12. CASE SerializeEnds
  BY <1>12 DEF SerializeEnds, MainPlaces
<1>13. CASE Exited
  BY <1>13 DEF Exited, vars, threads, history
<1>14. ASSUME NEW r \in Readers, Ask(r) \/ Serve(r)
       PROVE  PlacesType'
  BY <1>14 DEF Ask, Serve, Windows, Alerts, Status, Total, BaselineBegins, BaselineEnds,
               history
<1>15. QED
  BY <1>1, <1>2, <1>3, <1>4, <1>5, <1>6, <1>7, <1>8, <1>9, <1>10, <1>11, <1>12, <1>13, <1>14
  DEF Next, CaptureStep, MainStep

\* The steps of the two threads leave the requests alone; main notes its keys.
LEMMA ReadersStep ==
    ASSUME ReadersType, keys \in 0..MaxKeys, [Next]_vars
    PROVE  ReadersType'
<1> USE DEF ReadersType
<1>1. CASE UNCHANGED vars
  BY <1>1 DEF vars, threads, state, history
<1>2. CASE \/ Packet \/ ReadFails \/ Check \/ AppendWindow \/ UpdateBegins \/ UpdateEnds \/ Behavioral
           \/ SaveAlert \/ AlertSaved \/ Recent \/ Count \/ Store \/ Stored
  BY <1>2 DEF Packet, ReadFails, Check, AppendWindow, UpdateBegins, UpdateEnds, Behavioral,
              SaveAlert, AlertSaved, Recent, Count, Store, Stored, state, history
<1>3. CASE Stop \/ Join \/ SerializeEnds \/ FinalStore \/ FinalStored \/ Close \/ Exited
  BY <1>3 DEF Stop, Join, SerializeEnds, FinalStore, FinalStored, Close, Exited,
              vars, threads, state, history
<1>4. CASE SerializeBegins
  BY <1>4 DEF SerializeBegins, history
<1>5. ASSUME NEW r \in Readers, Ask(r)
      PROVE  ReadersType'
  <2>1. PICK q \in Requests : At(r, q)
    BY <1>5 DEF Ask
  <2>2. UNCHANGED <<snapKeys, answer>>
    BY <1>5 DEF Ask, state, history
  <2>3. QED
    BY <2>1, <2>2 DEF At
<1>6. ASSUME NEW r \in Readers, Windows(r) \/ Alerts(r) \/ Total(r)
      PROVE  ReadersType'
  BY <1>6 DEF Windows, Alerts, Total, Answers, At, state
<1>7. ASSUME NEW r \in Readers, Status(r)
      PROVE  ReadersType'
  BY <1>7 DEF Status, At, state, history
<1>8. ASSUME NEW r \in Readers, BaselineBegins(r)
      PROVE  ReadersType'
  BY <1>8 DEF BaselineBegins, At, history
<1>9. ASSUME NEW r \in Readers, BaselineEnds(r)
      PROVE  ReadersType'
  <2>1. PICK how \in {"ok", "error"} : Answers(r, how)
    BY <1>9 DEF BaselineEnds
  <2>2. UNCHANGED snapKeys
    BY <1>9 DEF BaselineEnds, state
  <2>3. QED
    BY <2>1, <2>2 DEF Answers, At
<1>10. QED
  BY <1>1, <1>2, <1>3, <1>4, <1>5, <1>6, <1>7, <1>8, <1>9 DEF Next, CaptureStep, MainStep, Serve

\* The requests leave alone all that is counted and where the threads are.
LEMMA ReaderFrame ==
    ASSUME NEW r \in Readers, Ask(r) \/ Serve(r)
    PROVE  UNCHANGED <<cap, main, learned, pending, sinceSave, copy, saved,
                       rows, raised, lostSaves, joined>>
BY DEF Ask, Serve, Windows, Alerts, Status, Total, BaselineBegins, BaselineEnds, state, history

LEMMA HandStep ==
    ASSUME TInv, [Next]_vars
    PROVE  RoomLeft' /\ AlertInHand'
<1> USE DEF RoomLeft, AlertInHand
<1>0. RoomLeft /\ AlertInHand /\ pending \in 0..MaxAlerts
  BY DEF TInv, TypeOK
<1>1. CASE UNCHANGED vars
  BY <1>0, <1>1 DEF vars, threads, state
<1>2. CASE Packet \/ ReadFails \/ Check \/ AppendWindow \/ SaveAlert \/ Recent \/ Store
  BY <1>0, <1>2 DEF Packet, ReadFails, Check, AppendWindow, SaveAlert, Recent, Store, state
<1>3. CASE UpdateBegins
  BY <1>0, <1>3 DEF UpdateBegins
<1>4. CASE UpdateEnds
  BY <1>4 DEF UpdateEnds
<1>5. CASE Behavioral
  BY <1>5 DEF Behavioral, Dies
<1>6. CASE AlertSaved
  BY <1>6 DEF AlertSaved, Dies
<1>7. CASE Count \/ Stored
  BY <1>7 DEF Count, Stored
<1>8. CASE Stop \/ Join \/ SerializeBegins \/ SerializeEnds \/ FinalStore \/ FinalStored \/ Close \/ Exited
  BY <1>0, <1>8 DEF Stop, Join, SerializeBegins, SerializeEnds, FinalStore, FinalStored, Close,
                    Exited, vars, threads, state
<1>9. ASSUME NEW r \in Readers, Ask(r) \/ Serve(r)
      PROVE  RoomLeft' /\ AlertInHand'
  BY <1>0, <1>9, ReaderFrame
<1>10. QED
  BY <1>1, <1>2, <1>3, <1>4, <1>5, <1>6, <1>7, <1>8, <1>9 DEF Next, CaptureStep, MainStep

LEMMA TypeInit == Init => TInv
<1> SUFFICES ASSUME Init
             PROVE  TInv
  OBVIOUS
<1>1. CountersType
  BY ConstantsType DEF Init, CountersType
<1>2. PlacesType
  BY DEF Init, PlacesType, CapturePlaces, MainPlaces
<1>3. ReadersType
  <2>1. 0 \in 0..MaxKeys
    BY ConstantsType
  <2>2. QED
    BY <2>1 DEF Init, ReadersType
<1>4. RoomLeft /\ AlertInHand
  BY DEF Init, RoomLeft, AlertInHand
<1>5. QED
  BY <1>1, <1>2, <1>3, <1>4, TypeParts DEF TInv

LEMMA TypeStep ==
    ASSUME TInv, [Next]_vars
    PROVE  TInv'
<1>1. CountersType /\ PlacesType /\ ReadersType /\ keys \in 0..MaxKeys
  BY TypeParts DEF TInv, CountersType
<1>2. CountersType' /\ PlacesType' /\ ReadersType'
  BY <1>1, CountersStep, PlacesStep, ReadersStep DEF TInv
<1>3. TypeOK'
  BY <1>2 DEF TypeOK, CountersType, PlacesType, ReadersType
<1>4. QED
  BY <1>3, HandStep DEF TInv

\* Every thread is somewhere, every lock has a holder that can hold it, every
\* count is a count (service.py:108-215).
THEOREM TypeCorrect == Spec => []TypeOK
<1>1. TInv => TypeOK
  BY DEF TInv
<1>2. QED
  BY <1>1, TypeInit, TypeStep, PTL DEF Spec

-----------------------------------------------------------------------------
(* What is lost.                                                           *)

LEMMA Interval ==
    ASSUME NEW a \in Nat, NEW b \in Nat
    PROVE  a * b \in Nat /\ a * (b + 1) = a * b + a /\ a * 0 = 0
OBVIOUS

LEMMA Facts ==
    ASSUME SInv
    PROVE  /\ CountersType /\ PlacesType /\ RoomLeft /\ JoinOrder /\ CopyOfEnd /\ Backlog /\ StopSaved
           /\ SaveInterval \in Nat /\ SaveInterval >= 1
           /\ SaveInterval * lostSaves \in Nat
           /\ SaveInterval * (lostSaves + 1) = SaveInterval * lostSaves + SaveInterval
           /\ SaveInterval * 0 = 0
BY TypeParts, ConstantsType, Interval DEF SInv, TInv, CountersType

LEMMA JoinOrderStep ==
    ASSUME SInv, [Next]_vars
    PROVE  JoinOrder'
<1> USE DEF JoinOrder, CaptureAlive
<1>0. JoinOrder
  BY DEF SInv
<1>1. CASE UNCHANGED vars
  BY <1>0, <1>1 DEF vars, threads, history
<1>2. CASE \/ Packet \/ ReadFails \/ Check \/ AppendWindow \/ UpdateBegins \/ UpdateEnds \/ Behavioral
           \/ SaveAlert \/ AlertSaved \/ Recent \/ Count \/ Store \/ Stored
  <2>1. UNCHANGED <<main, joined>>
    BY <1>2 DEF Packet, ReadFails, Check, AppendWindow, UpdateBegins, UpdateEnds, Behavioral,
              SaveAlert, AlertSaved, Recent, Count, Store, Stored, history
  <2>2. cap \notin {"done", "crashed"}
    BY <1>2 DEF Packet, ReadFails, Check, AppendWindow, UpdateBegins, UpdateEnds, Behavioral,
              SaveAlert, AlertSaved, Recent, Count, Store, Stored
  <2>3. QED
    BY <1>0, <2>1, <2>2
<1>3. CASE Stop \/ SerializeBegins \/ SerializeEnds \/ FinalStore \/ FinalStored \/ Close
  <2>1. UNCHANGED <<cap, joined>>
    BY <1>3 DEF Stop, SerializeBegins, SerializeEnds, FinalStore, FinalStored, Close, history
  <2>2. main \in {"serving", "joining"} <=> main' \in {"serving", "joining"}
    BY <1>3 DEF Stop, SerializeBegins, SerializeEnds, FinalStore, FinalStored, Close
  <2>3. QED
    BY <1>0, <2>1, <2>2
<1>4. CASE Join
  BY <1>4 DEF Join
<1>5. CASE Exited
  BY <1>0, <1>5 DEF Exited, vars, threads, history
<1>6. ASSUME NEW r \in Readers, Ask(r) \/ Serve(r)
      PROVE  JoinOrder'
  BY <1>0, <1>6, ReaderFrame
<1>7. QED
  BY <1>1, <1>2, <1>3, <1>4, <1>5, <1>6 DEF Next, CaptureStep, MainStep

\* The parts of the invariant that are about the saved state.
LossInv == CopyOfEnd /\ Backlog /\ StopSaved

LEMMA LossStep ==
    ASSUME SInv, [Next]_vars
    PROVE  LossInv' /\ (joined' # "timeout" => saved' >= saved)
<1>f. /\ learned \in Nat /\ copy \in Nat /\ saved \in Nat /\ lostSaves \in Nat
      /\ sinceSave \in 0..(SaveInterval - 1) /\ SaveInterval \in Nat /\ SaveInterval >= 1
      /\ SaveInterval * lostSaves \in Nat
      /\ SaveInterval * (lostSaves + 1) = SaveInterval * lostSaves + SaveInterval
      /\ SaveInterval * 0 = 0
      /\ JoinOrder /\ CopyOfEnd /\ Backlog /\ StopSaved
  BY Facts DEF CountersType
<1> USE DEF LossInv, CopyOfEnd, Backlog, StopSaved, Allowance
<1>1. CASE UNCHANGED vars
  BY <1>f, <1>1 DEF vars, threads, state, history
<1>2. CASE Packet \/ ReadFails \/ Check \/ AppendWindow \/ UpdateBegins \/ SaveAlert \/ Recent
  <2>1. UNCHANGED <<main, learned, copy, saved, sinceSave, lostSaves, joined>>
    BY <1>2 DEF Packet, ReadFails, Check, AppendWindow, UpdateBegins, SaveAlert, Recent, state, history
  <2>2. \/ cap \in {"read", "check", "append", "update"}
           /\ cap' \in {"check", "crashed", "done", "read", "append", "update", "updating"}
        \/ cap \in {"alerts", "recent"} /\ cap' \in {"saving", "alerts"}
    BY <1>2 DEF Packet, ReadFails, Check, AppendWindow, UpdateBegins, SaveAlert, Recent
  <2>3. Allowance' >= Allowance
    BY <1>f, <2>1, <2>2
  <2>4. QED
    BY <1>f, <2>1, <2>3
<1>3. CASE UpdateEnds
  <2>1. /\ cap = "updating" /\ cap' = "behavioral" /\ learned' = learned + 1
        /\ UNCHANGED <<main, copy, saved, sinceSave, lostSaves, joined>>
    BY <1>3 DEF UpdateEnds
  <2>2. joined # "yes"
    BY <1>f, <2>1 DEF JoinOrder, CaptureAlive
  <2>3. QED
    BY <1>f, <2>1, <2>2
<1>4. CASE Behavioral \/ AlertSaved
  <2>1. UNCHANGED <<main, learned, copy, saved, sinceSave, lostSaves, joined>>
    BY <1>4 DEF Behavioral, AlertSaved
  <2>2. cap \in {"behavioral", "saving"} /\ cap' \in {"alerts", "recent", "crashed"}
    BY <1>4 DEF Behavioral, AlertSaved, Dies
  <2>3. Allowance' = Allowance
    BY <2>1, <2>2
  <2>4. QED
    BY <1>f, <2>1, <2>3
<1>5. CASE Count
  <2>1. UNCHANGED <<main, learned, copy, saved, lostSaves, joined>> /\ cap = "alerts"
    BY <1>5 DEF Count, history
  <2>2. \/ cap' = "store" /\ sinceSave + 1 >= SaveInterval
        \/ cap' = "read" /\ sinceSave' = sinceSave + 1
    BY <1>5 DEF Count
  <2>3. Allowance' >= Allowance /\ Allowance' \in Nat /\ Allowance \in Nat
    BY <1>f, <2>1, <2>2
  <2>4. QED
    BY <1>f, <2>1, <2>3
<1>6. CASE Store
  <2>1. UNCHANGED <<main, learned, copy, saved, sinceSave, lostSaves, joined>>
    BY <1>6 DEF Store, state, history
  <2>2. cap = "store" /\ cap' = "storing"
    BY <1>6 DEF Store
  <2>3. QED
    BY <1>f, <2>1, <2>2
<1>7. CASE Stored
  <2>1. /\ UNCHANGED <<main, learned, copy, sinceSave, joined>>
        /\ cap = "storing" /\ cap' = "read"
    BY <1>7 DEF Stored
  <2>2. \/ saved' = learned /\ lostSaves' = 0
        \/ saved' = saved /\ lostSaves' = lostSaves + 1
    BY <1>7 DEF Stored, Written
  <2>3. joined # "yes"
    BY <1>f, <2>1 DEF JoinOrder, CaptureAlive
  <2>4. CASE saved' = learned /\ lostSaves' = 0
    <3>1. SaveInterval * lostSaves' = 0
      BY <1>f, <2>4
    <3>2. QED
      BY <1>f, <2>1, <2>3, <2>4, <3>1
  <2>5. CASE saved' = saved /\ lostSaves' = lostSaves + 1
    <3>1. SaveInterval * lostSaves' = SaveInterval * lostSaves + SaveInterval
      BY <1>f, <2>5
    <3>2. QED
      BY <1>f, <2>1, <2>3, <2>5, <3>1
  <2>6. QED
    BY <2>2, <2>4, <2>5
<1>8. CASE Stop \/ Join \/ FinalStore \/ Close \/ SerializeBegins
  <2>1. UNCHANGED <<cap, learned, saved, sinceSave, lostSaves>>
    BY <1>8 DEF Stop, Join, FinalStore, Close, SerializeBegins, state, history
  <2>2. joined' = joined \/ (main = "joining" /\ main' = "serialize" /\ joined = "no")
    BY <1>8, <1>f DEF Stop, Join, FinalStore, Close, SerializeBegins, history, JoinOrder
  <2>3. \/ main' \in {"joining", "serialize"} /\ copy' = copy
        \/ main = "serialize" /\ main' = "serializing" /\ copy' = learned
        \/ main = "store" /\ main' = "storing" /\ copy' = copy
        \/ main \in {"close", "closeDest"} /\ main' \in {"closeDest", "stopped"} /\ copy' = copy
    BY <1>8 DEF Stop, Join, FinalStore, Close, SerializeBegins, state
  <2>4. QED
    BY <1>f, <2>1, <2>2, <2>3
<1>9. CASE SerializeEnds
  <2>1. UNCHANGED <<cap, learned, copy, saved, sinceSave, joined>> /\ main = "serializing"
    BY <1>9 DEF SerializeEnds, state
  <2>2. \/ main' = "store" /\ lostSaves' = lostSaves
        \/ main' = "close" /\ lostSaves' = lostSaves + 1
    BY <1>9 DEF SerializeEnds
  <2>3. SaveInterval * lostSaves' >= SaveInterval * lostSaves /\ SaveInterval * lostSaves' \in Nat
    BY <1>f, <2>2
  <2>4. QED
    BY <1>f, <2>1, <2>2, <2>3
<1>10. CASE FinalStored
  <2>1. /\ UNCHANGED <<cap, learned, copy, sinceSave, joined>>
        /\ main = "storing" /\ main' = "close"
    BY <1>10 DEF FinalStored
  <2>2. \/ saved' = copy /\ lostSaves' = 0
        \/ saved' = saved /\ lostSaves' = lostSaves + 1
    BY <1>10 DEF FinalStored, Written
  <2>3. joined # "no" /\ (joined = "yes" => copy = learned)
    BY <1>f, <2>1 DEF JoinOrder
  <2>4. joined \in {"no", "yes", "timeout"}
    BY Facts DEF PlacesType
  <2>5. CASE saved' = copy /\ lostSaves' = 0
    <3>1. SaveInterval * lostSaves' = 0
      BY <1>f, <2>5
    <3>2. QED
      BY <1>f, <2>1, <2>3, <2>4, <2>5, <3>1
  <2>6. CASE saved' = saved /\ lostSaves' = lostSaves + 1
    <3>1. SaveInterval * lostSaves' = SaveInterval * lostSaves + SaveInterval
      BY <1>f, <2>6
    <3>2. QED
      BY <1>f, <2>1, <2>3, <2>6, <3>1
  <2>7. QED
    BY <2>2, <2>5, <2>6
<1>11. CASE Exited
  BY <1>f, <1>11 DEF Exited, vars, threads, state, history
<1>12. ASSUME NEW r \in Readers, Ask(r) \/ Serve(r)
       PROVE  LossInv' /\ (joined' # "timeout" => saved' >= saved)
  <2>1. UNCHANGED <<cap, main, learned, sinceSave, copy, saved, lostSaves, joined>>
    BY <1>12, ReaderFrame
  <2>2. QED
    BY <1>f, <2>1
<1>13. QED
  BY <1>1, <1>2, <1>3, <1>4, <1>5, <1>6, <1>7, <1>8, <1>9, <1>10, <1>11, <1>12
  DEF Next, CaptureStep, MainStep

LEMMA SInvInit == Init => SInv
<1>1. Init => JoinOrder /\ CopyOfEnd /\ Backlog /\ StopSaved
  BY ConstantsType DEF Init, JoinOrder, CaptureAlive, CopyOfEnd, Backlog, Allowance, StopSaved
<1>2. QED
  BY <1>1, TypeInit DEF SInv

LEMMA SInvStep ==
    ASSUME SInv, [Next]_vars
    PROVE  SInv' /\ (joined' # "timeout" => saved' >= saved)
<1>1. TInv'
  BY TypeStep DEF SInv
<1>2. QED
  BY <1>1, JoinOrderStep, LossStep DEF SInv, LossInv

\* A crash at any moment loses at most SaveInterval windows of learning, and
\* SaveInterval more for every save that failed since (service.py:165-177).
THEOREM CrashLossIsBounded == Spec => []LossIsBounded
<1>1. SInv => LossIsBounded
  <2> SUFFICES ASSUME SInv, joined # "timeout"
               PROVE  learned - saved <= SaveInterval * (lostSaves + 1)
    BY DEF LossIsBounded
  <2>1. /\ SaveInterval * lostSaves \in Nat /\ SaveInterval \in Nat /\ SaveInterval >= 1
        /\ SaveInterval * (lostSaves + 1) = SaveInterval * lostSaves + SaveInterval
        /\ learned \in Nat /\ saved \in Nat /\ sinceSave \in 0..(SaveInterval - 1)
    BY Facts DEF CountersType
  <2>2. learned - saved <= SaveInterval * lostSaves + Allowance
    BY DEF SInv, Backlog
  <2>3. Allowance <= SaveInterval /\ Allowance \in Nat
    BY <2>1 DEF Allowance
  <2>4. QED
    BY <2>1, <2>2, <2>3
<1>2. QED
  BY <1>1, SInvInit, SInvStep, PTL DEF Spec

\* A stop() that waited for the capture thread leaves the last state saved,
\* unless writing it failed (service.py:125-133).
THEOREM JoinedStopSaves == Spec => []JoinedStopSavesAll
<1>1. SInv => JoinedStopSavesAll
  BY DEF SInv, StopSaved, JoinedStopSavesAll
<1>2. QED
  BY <1>1, SInvInit, SInvStep, PTL DEF Spec

\* A saved state gives way to a later one only, but for a stop() that did not
\* wait for the capture thread (service.py:128-130, 165-177).
THEOREM SavesGoForward == Spec => SavedNeverRegresses
<1>1. SInv /\ [Next]_vars => [joined' # "timeout" => saved' >= saved]_vars
  BY SInvStep
<1>2. SInv /\ [Next]_vars => SInv'
  BY SInvStep
<1>3. QED
  BY <1>1, <1>2, SInvInit, PTL DEF Spec, SavedNeverRegresses

-----------------------------------------------------------------------------
(* The alerts.                                                             *)

LEMMA AlertsStep ==
    ASSUME TInv, AlertsCounted, [Next]_vars
    PROVE  AlertsCounted'
<1> USE DEF AlertsCounted
<1>0. /\ AlertsCounted /\ rows \in Nat /\ raised \in Nat /\ pending \in 0..MaxAlerts
  BY DEF TInv, TypeOK
<1>1. CASE UNCHANGED vars
  BY <1>0, <1>1 DEF vars, threads, state, history
<1>2. CASE Packet \/ ReadFails \/ Check \/ AppendWindow \/ UpdateBegins \/ SaveAlert \/ Recent \/ Store
  <2>1. UNCHANGED <<pending, rows, raised>>
    BY <1>2 DEF Packet, ReadFails, Check, AppendWindow, UpdateBegins, SaveAlert, Recent, Store,
                state, history
  <2>2. \/ cap \in {"read", "check", "append", "update", "store"}
           /\ cap' \in {"check", "crashed", "done", "read", "append", "update", "updating", "storing"}
        \/ cap \in {"alerts", "recent"} /\ cap' \in {"saving", "alerts"}
    BY <1>2 DEF Packet, ReadFails, Check, AppendWindow, UpdateBegins, SaveAlert, Recent, Store
  <2>3. QED
    BY <1>0, <2>1, <2>2
<1>3. CASE UpdateEnds
  <2>1. cap = "updating" /\ cap' = "behavioral" /\ rows' = rows
    BY <1>3 DEF UpdateEnds
  <2>2. PICK n \in 0..MaxAlerts : pending' = n /\ raised' = raised + n
    BY <1>3 DEF UpdateEnds
  <2>3. QED
    BY <1>0, <2>1, <2>2, ConstantsType
<1>4. CASE Behavioral
  BY <1>0, <1>4 DEF Behavioral, Dies
<1>5. CASE AlertSaved
  BY <1>0, <1>5 DEF AlertSaved, Dies
<1>6. CASE Count
  BY <1>0, <1>6 DEF Count, history
<1>7. CASE Stored
  BY <1>0, <1>7 DEF Stored
<1>8. CASE Stop \/ Join \/ SerializeBegins \/ SerializeEnds \/ FinalStore \/ FinalStored \/ Close \/ Exited
  BY <1>0, <1>8 DEF Stop, Join, SerializeBegins, SerializeEnds, FinalStore, FinalStored, Close,
                    Exited, vars, threads, state, history
<1>9. ASSUME NEW r \in Readers, Ask(r) \/ Serve(r)
      PROVE  AlertsCounted'
  BY <1>0, <1>9, ReaderFrame
<1>10. QED
  BY <1>1, <1>2, <1>3, <1>4, <1>5, <1>6, <1>7, <1>8, <1>9 DEF Next, CaptureStep, MainStep

\* While the capture thread lives, every alert it was handed is in the table
\* before it reads the next packet (service.py:154-163).
THEOREM AlertsComeFirst == Spec => []AlertsPrecedeNextPacket
<1>1. Init => TInv /\ AlertsCounted
  BY TypeInit DEF Init, AlertsCounted
<1>2. TInv /\ AlertsCounted /\ [Next]_vars => TInv' /\ AlertsCounted'
  BY TypeStep, AlertsStep
<1>3. TInv /\ AlertsCounted => AlertsPrecedeNextPacket
  BY DEF TInv, TypeOK, AlertsCounted, AlertsPrecedeNextPacket
<1>4. QED
  BY <1>1, <1>2, <1>3, PTL DEF Spec

-----------------------------------------------------------------------------
(* The locks.                                                              *)

Threads == Readers \union {Capture, Main}

\* The places inside the service lock and inside the store's.
InService(t) == t \in Readers /\ req[t] = "total"

InStore(t) ==
    \/ t = Capture /\ cap \in {"saving", "storing"}
    \/ t = Main /\ main = "storing"

\* The places from which a thread goes on only with a lock.
AwaitsService(t) ==
    \/ t = Capture /\ cap \in {"append", "recent"}
    \/ t \in Readers /\ req[t] \in {"windows", "status"}

AwaitsStore(t) ==
    \/ t = Capture /\ (cap = "store" \/ (cap = "alerts" /\ pending > 0))
    \/ t = Main /\ main \in {"store", "close"}
    \/ t \in Readers /\ req[t] \in {"alerts", "total"}

Blocked(t) ==
    \/ AwaitsService(t) /\ svcLock # Free
    \/ AwaitsStore(t) /\ dbLock # Free

\* A lock is held by the thread that is inside it, and by no thread that left:
\* neither a write that fails nor an exception leaves one locked.
LocksAreHeld ==
    \A t \in Threads : (svcLock = t <=> InService(t)) /\ (dbLock = t <=> InStore(t))

\* Two threads are never inside one lock.
MutualExclusion ==
    \A t, u \in Threads :
        \/ InService(t) /\ InService(u)
        \/ InStore(t) /\ InStore(u)
        => t = u

\* Some thread inside a lock waits for none that is taken, so that what is
\* taken can be given back.
SomeHolderRuns ==
    (\E t \in Threads : Blocked(t))
        => \E u \in Threads : (InService(u) \/ InStore(u)) /\ ~ Blocked(u)

LInv == PlacesType /\ ReadersType /\ LocksAreHeld

LEMMA ThreadsApart ==
    /\ Capture \in Threads /\ Main \in Threads /\ Capture # Main
    /\ Capture \notin Readers /\ Main \notin Readers /\ Free \notin Threads
BY ServiceAssumption DEF Threads

LEMMA LockInit == Init => LocksAreHeld
BY ThreadsApart DEF Init, LocksAreHeld, InService, InStore, Threads

LEMMA LockStep ==
    ASSUME LInv, [Next]_vars
    PROVE  LocksAreHeld'
<1> USE ThreadsApart DEF LocksAreHeld, InService, InStore
<1>0. LocksAreHeld /\ req \in [Readers -> Requests \union {"idle", "total", "iterating"}]
  BY DEF LInv, ReadersType
<1>1. CASE UNCHANGED vars
  BY <1>0, <1>1 DEF vars, threads
<1>2. CASE \/ Packet \/ ReadFails \/ Check \/ AppendWindow \/ UpdateBegins \/ UpdateEnds
           \/ Behavioral \/ Recent \/ Count
  <2>1. /\ UNCHANGED <<main, req, svcLock, dbLock>>
        /\ cap \notin {"saving", "storing"} /\ cap' \notin {"saving", "storing"}
    BY <1>2 DEF Packet, ReadFails, Check, AppendWindow, UpdateBegins, UpdateEnds, Behavioral, Dies,
                Recent, Count
  <2>2. QED
    BY <1>0, <2>1
<1>3. CASE SaveAlert \/ Store
  <2>1. /\ UNCHANGED <<main, req, svcLock>> /\ dbLock = Free /\ dbLock' = Capture
        /\ cap' \in {"saving", "storing"}
    BY <1>3 DEF SaveAlert, Store
  <2>2. main # "storing"
    BY <1>0, <2>1
  <2>3. QED
    BY <1>0, <2>1, <2>2
<1>4. CASE AlertSaved \/ Stored
  <2>1. /\ UNCHANGED <<main, req, svcLock>> /\ dbLock' = Free
        /\ cap \in {"saving", "storing"} /\ cap' \notin {"saving", "storing"}
    BY <1>4 DEF AlertSaved, Stored, Dies
  <2>2. main # "storing"
    BY <1>0, <2>1
  <2>3. QED
    BY <1>0, <2>1, <2>2
<1>5. CASE Stop \/ Join \/ SerializeBegins \/ SerializeEnds \/ Close \/ Exited
  <2>1. /\ UNCHANGED <<cap, req, svcLock, dbLock>>
        /\ main # "storing" /\ main' # "storing"
    BY <1>5 DEF Stop, Join, SerializeBegins, SerializeEnds, Close, Exited, vars, threads
  <2>2. QED
    BY <1>0, <2>1
<1>6. CASE FinalStore
  <2>1. /\ UNCHANGED <<cap, req, svcLock>> /\ dbLock = Free /\ dbLock' = Main
        /\ main' = "storing"
    BY <1>6 DEF FinalStore
  <2>2. cap \notin {"saving", "storing"}
    BY <1>0, <2>1
  <2>3. QED
    BY <1>0, <2>1, <2>2
<1>7. CASE FinalStored
  <2>1. /\ UNCHANGED <<cap, req, svcLock>> /\ dbLock' = Free
        /\ main = "storing" /\ main' # "storing"
    BY <1>7 DEF FinalStored
  <2>2. cap \notin {"saving", "storing"}
    BY <1>0, <2>1
  <2>3. QED
    BY <1>0, <2>1, <2>2
<1>8. ASSUME NEW r \in Readers, NEW place, place # "total", req[r] # "total", At(r, place),
             UNCHANGED <<cap, main, svcLock, dbLock>>
      PROVE  LocksAreHeld'
  <2>1. \A s \in Readers : req'[s] = "total" <=> req[s] = "total"
    BY <1>0, <1>8 DEF At
  <2>2. QED
    BY <1>0, <1>8, <2>1
<1>9. ASSUME NEW r \in Readers, Ask(r) \/ Windows(r) \/ Alerts(r) \/ BaselineBegins(r) \/ BaselineEnds(r)
      PROVE  LocksAreHeld'
  <2>1. req[r] # "total" /\ UNCHANGED <<cap, main, svcLock, dbLock>>
    BY <1>9 DEF Ask, Windows, Alerts, BaselineBegins, BaselineEnds
  <2>2. \E place \in Requests \union {"idle", "iterating"} : At(r, place)
    BY <1>9 DEF Ask, Windows, Alerts, BaselineBegins, BaselineEnds, Answers
  <2>3. "total" \notin Requests \union {"idle", "iterating"}
    BY DEF Requests
  <2>4. QED
    BY <1>8, <2>1, <2>2, <2>3
<1>10. ASSUME NEW r \in Readers, Status(r)
       PROVE  LocksAreHeld'
  <2>1. /\ UNCHANGED <<cap, main, dbLock>> /\ svcLock = Free /\ svcLock' = r
        /\ req' = [req EXCEPT ![r] = "total"]
    BY <1>10 DEF Status, At
  <2>2. \A s \in Readers : req'[s] = "total" <=> s = r
    BY <1>0, <2>1 DEF Threads
  <2>3. QED
    BY <1>0, <2>1, <2>2 DEF Threads
<1>11. ASSUME NEW r \in Readers, Total(r)
       PROVE  LocksAreHeld'
  <2>1. /\ UNCHANGED <<cap, main, dbLock>> /\ req[r] = "total" /\ svcLock' = Free
        /\ req' = [req EXCEPT ![r] = "idle"]
    BY <1>11 DEF Total, Answers, At
  <2>2. svcLock = r
    BY <1>0, <2>1 DEF Threads
  <2>3. \A s \in Readers : req'[s] # "total"
    BY <1>0, <2>1, <2>2 DEF Threads
  <2>4. QED
    BY <1>0, <2>1, <2>3 DEF Threads
<1>12. QED
  BY <1>1, <1>2, <1>3, <1>4, <1>5, <1>6, <1>7, <1>9, <1>10, <1>11
  DEF Next, CaptureStep, MainStep, Serve

LEMMA LocksInductive == Spec => []LInv
<1>1. Init => LInv
  BY TypeInit, TypeParts, LockInit DEF LInv, TInv
<1>2. TInv => PlacesType /\ ReadersType
  BY TypeParts DEF TInv
<1>3. LInv /\ [Next]_vars => LocksAreHeld'
  BY LockStep
<1>4. Init => TInv /\ LocksAreHeld
  BY TypeInit, LockInit
<1>5. TInv /\ LocksAreHeld /\ [Next]_vars => TInv' /\ LocksAreHeld'
  BY <1>2, <1>3, TypeStep DEF LInv
<1>6. TInv /\ LocksAreHeld => LInv
  BY <1>2 DEF LInv
<1>7. QED
  BY <1>4, <1>5, <1>6, PTL DEF Spec

\* The two locks exclude each other's threads, and each is given back by
\* whoever took it, whatever fails inside it (service.py:145-163, 181-215;
\* storage.py:61-128).
THEOREM LocksExclude == Spec => [](LocksAreHeld /\ MutualExclusion)
<1>1. LocksAreHeld => MutualExclusion
  BY DEF LocksAreHeld, MutualExclusion
<1>2. LInv => LocksAreHeld
  BY DEF LInv
<1>3. QED
  BY <1>1, <1>2, LocksInductive, PTL

\* No circle of threads waits for locks, although status() asks for the store's
\* with the service lock in its hands: the store's is held only by threads
\* that ask for no other (service.py:203-215).
THEOREM LocksAreOrdered == Spec => []SomeHolderRuns
<1>1. LInv => SomeHolderRuns
  <2> SUFFICES ASSUME LInv, NEW t \in Threads, Blocked(t)
               PROVE  \E u \in Threads : (InService(u) \/ InStore(u)) /\ ~ Blocked(u)
    BY DEF SomeHolderRuns
  <2> USE ThreadsApart
  <2>1. CASE dbLock # Free
    <3>1. dbLock \in Threads /\ InStore(dbLock)
      BY <2>1 DEF LInv, PlacesType, LocksAreHeld
    <3>2. ~ AwaitsService(dbLock) /\ ~ AwaitsStore(dbLock)
      BY <3>1 DEF InStore, AwaitsService, AwaitsStore
    <3>3. QED
      BY <3>1, <3>2 DEF Blocked
  <2>2. CASE dbLock = Free
    <3>1. svcLock \in Threads /\ InService(svcLock)
      BY <2>2 DEF Blocked, LInv, PlacesType, LocksAreHeld, Threads
    <3>2. ~ AwaitsService(svcLock)
      BY <3>1 DEF InService, AwaitsService
    <3>3. QED
      BY <2>2, <3>1, <3>2 DEF Blocked
  <2>3. QED
    BY <2>1, <2>2
<1>2. QED
  BY <1>1, LocksInductive, PTL

-----------------------------------------------------------------------------
(* A stop ends.                                                            *)

\* What is left of a thread once the stop event is set: the most steps it can
\* still take, beside three for each alert that is not written yet.
CaptureSteps ==
    [done |-> 0, crashed |-> 0, check |-> 1, read |-> 2, storing |-> 3, store |-> 4,
     saving |-> 4, alerts |-> 5, recent |-> 6, behavioral |-> 6, updating |-> 7,
     update |-> 8, append |-> 9]

MainSteps ==
    [stopped |-> 0, closeDest |-> 1, close |-> 2, storing |-> 3, store |-> 4,
     serializing |-> 5, serialize |-> 6, joining |-> 7, serving |-> 8]

\* The detectors may yet return as many alerts as a window has.
ToWrite(place, count) ==
    IF place \in {"append", "update", "updating"} THEN MaxAlerts
    ELSE IF place \in {"behavioral", "alerts", "saving", "recent"} THEN count
    ELSE 0

CaptureLeft(place, count) == CaptureSteps[place] + 3 * ToWrite(place, count)

MainLeft(place) == MainSteps[place]

StepsLeft == CaptureLeft(cap, pending) + MainLeft(main)

\* Every step of the process, by whichever thread, brings the end of a stop
\* nearer, and there are never more to take than a window of MaxAlerts alerts
\* and a last save need.
StopIsBounded ==
    /\ [](stopEvt => StepsLeft \in 0..(3 * MaxAlerts + 16))
    /\ [][stopEvt => StepsLeft' < StepsLeft]_vars

\* Until it has ended no request is left, nobody has the service lock, and the
\* store's is had only by a thread in the middle of a write, which waits for
\* nothing.
StopIsNeverStuck ==
    stopEvt =>
        /\ \A r \in Readers : req[r] = "idle"
        /\ svcLock = Free
        /\ dbLock # Free => \E t \in {Capture, Main} : dbLock = t /\ InStore(t) /\ ~ Blocked(t)

\* No request comes after the stop, which waits for those there are.
Shutting ==
    /\ main = "serving" <=> ~ stopEvt
    /\ stopEvt => \A r \in Readers : req[r] = "idle"

ShutInv == TInv /\ LInv /\ Shutting

LEMMA ShutInit == Init => ShutInv
BY TypeInit, TypeParts, LockInit DEF Init, ShutInv, TInv, LInv, Shutting

\* Once the stop event is set no request takes a step.
LEMMA NoRequestSteps ==
    ASSUME Shutting, stopEvt, NEW r \in Readers
    PROVE  ~ Ask(r) /\ ~ Serve(r)
<1>1. req[r] = "idle" /\ main # "serving"
  BY DEF Shutting
<1>2. QED
  BY <1>1 DEF Ask, Serve, Windows, Alerts, Status, Total, BaselineBegins, BaselineEnds

LEMMA ShuttingStep ==
    ASSUME Shutting, PlacesType, [Next]_vars
    PROVE  Shutting'
<1>1. CASE UNCHANGED vars
  BY <1>1 DEF Shutting, vars, threads
<1>2. CASE Packet \/ ReadFails \/ CaptureStep
  <2>1. UNCHANGED <<main, req, stopEvt>>
    BY <1>2 DEF Packet, ReadFails, CaptureStep, Check, AppendWindow, UpdateBegins, UpdateEnds,
                Behavioral, SaveAlert, AlertSaved, Recent, Count, Store, Stored
  <2>2. QED
    BY <2>1 DEF Shutting
<1>3. CASE Stop
  BY <1>3 DEF Stop, Shutting
<1>4. CASE MainStep \/ Exited
  <2>1. main # "serving" /\ main' # "serving" /\ UNCHANGED <<req, stopEvt>>
    BY <1>4 DEF MainStep, Join, SerializeBegins, SerializeEnds, FinalStore, FinalStored, Close,
                Exited, vars, threads
  <2>2. QED
    BY <2>1 DEF Shutting
<1>5. ASSUME NEW r \in Readers, Ask(r) \/ Serve(r)
      PROVE  Shutting'
  <2>1. ~ stopEvt
    BY <1>5, NoRequestSteps DEF PlacesType
  <2>2. UNCHANGED <<main, stopEvt>>
    BY <1>5 DEF Ask, Serve, Windows, Alerts, Status, Total, BaselineBegins, BaselineEnds
  <2>3. QED
    BY <2>1, <2>2 DEF Shutting
<1>6. QED
  BY <1>1, <1>2, <1>3, <1>4, <1>5 DEF Next

LEMMA ShutInductive == Spec => []ShutInv
<1>1. ShutInv /\ [Next]_vars => ShutInv'
  <2> SUFFICES ASSUME ShutInv, [Next]_vars PROVE ShutInv'
    OBVIOUS
  <2>1. TInv'
    BY TypeStep DEF ShutInv
  <2>2. PlacesType' /\ ReadersType'
    BY <2>1 DEF TInv, TypeOK, PlacesType, ReadersType
  <2>3. LocksAreHeld' /\ Shutting'
    BY LockStep, ShuttingStep DEF ShutInv, LInv
  <2>4. QED
    BY <2>1, <2>2, <2>3 DEF ShutInv, LInv
<1>2. QED
  BY <1>1, ShutInit, PTL DEF Spec

LEMMA StepsLeftType ==
    ASSUME NEW place \in CapturePlaces, NEW count \in 0..MaxAlerts, NEW other \in MainPlaces
    PROVE  /\ CaptureLeft(place, count) \in 0..(3 * MaxAlerts + 9)
           /\ MainLeft(other) \in 0..8
           /\ other # "serving" => MainLeft(other) \in 0..7
<1>1. CaptureSteps[place] \in 0..9
  BY DEF CaptureSteps, CapturePlaces
<1>2. ToWrite(place, count) \in 0..MaxAlerts
  BY ConstantsType DEF ToWrite
<1>3. MainLeft(other) \in 0..8 /\ (other # "serving" => MainLeft(other) \in 0..7)
  BY DEF MainLeft, MainSteps, MainPlaces
<1>4. QED
  BY <1>1, <1>2, <1>3, ConstantsType DEF CaptureLeft

LEMMA CaptureGoesOn ==
    ASSUME TInv, stopEvt, Packet \/ ReadFails \/ CaptureStep
    PROVE  CaptureLeft(cap', pending') < CaptureLeft(cap, pending)
<1>1. MaxAlerts \in Nat /\ pending \in 0..MaxAlerts /\ cap \in CapturePlaces
  BY ConstantsType DEF TInv, TypeOK
<1>3. CASE Packet \/ ReadFails \/ Check
  <2>1. \/ cap = "read" /\ cap' \in {"check", "crashed"}
        \/ cap = "check" /\ cap' = "done"
    BY <1>3 DEF Packet, ReadFails, Check
  <2>2. QED
    BY <2>1 DEF CaptureLeft, CaptureSteps, ToWrite
<1>4. CASE AppendWindow \/ UpdateBegins
  <2>1. \/ cap = "append" /\ cap' = "update"
        \/ cap = "update" /\ cap' = "updating"
    BY <1>4 DEF AppendWindow, UpdateBegins
  <2>2. QED
    BY <1>1, <2>1 DEF CaptureLeft, CaptureSteps, ToWrite
<1>5. CASE UpdateEnds
  <2>1. cap = "updating" /\ cap' = "behavioral" /\ pending' \in 0..MaxAlerts
    BY <1>5 DEF UpdateEnds
  <2>2. CaptureLeft(cap, pending) = 7 + 3 * MaxAlerts
    BY <2>1 DEF CaptureLeft, CaptureSteps, ToWrite
  <2>3. CaptureLeft(cap', pending') = 6 + 3 * pending'
    BY <2>1 DEF CaptureLeft, CaptureSteps, ToWrite
  <2>4. QED
    BY <1>1, <2>1, <2>2, <2>3
<1>6. CASE Behavioral
  <2>1. cap = "behavioral" /\ (cap' = "crashed" \/ (cap' = "alerts" /\ pending' = pending))
    BY <1>6 DEF Behavioral, Dies
  <2>2. QED
    BY <1>1, <2>1 DEF CaptureLeft, CaptureSteps, ToWrite
<1>7. CASE SaveAlert \/ Recent
  <2>1. /\ pending' = pending
        /\ \/ cap = "alerts" /\ cap' = "saving"
           \/ cap = "recent" /\ cap' = "alerts"
    BY <1>7 DEF SaveAlert, Recent, state
  <2>2. QED
    BY <1>1, <2>1 DEF CaptureLeft, CaptureSteps, ToWrite
<1>8. CASE AlertSaved
  <2>1. cap = "saving" /\ (cap' = "crashed" \/ (cap' = "recent" /\ pending' = pending - 1))
    BY <1>8 DEF AlertSaved, Dies
  <2>2. pending > 0
    BY <2>1 DEF TInv, AlertInHand
  <2>3. QED
    BY <1>1, <2>1, <2>2 DEF CaptureLeft, CaptureSteps, ToWrite
<1>9. CASE Count
  <2>1. cap = "alerts" /\ cap' \in {"store", "read"}
    BY <1>9 DEF Count
  <2>2. QED
    BY <1>1, <2>1 DEF CaptureLeft, CaptureSteps, ToWrite
<1>10. CASE Store \/ Stored
  <2>1. \/ cap = "store" /\ cap' = "storing"
        \/ cap = "storing" /\ cap' = "read"
    BY <1>10 DEF Store, Stored
  <2>2. QED
    BY <2>1 DEF CaptureLeft, CaptureSteps, ToWrite
<1>11. QED
  BY <1>3, <1>4, <1>5, <1>6, <1>7, <1>8, <1>9, <1>10 DEF CaptureStep

LEMMA MainGoesOn ==
    ASSUME MainStep
    PROVE  MainLeft(main') < MainLeft(main)
BY DEF MainLeft, MainSteps, MainStep, Join, SerializeBegins, SerializeEnds, FinalStore, FinalStored, Close

LEMMA StepsFall ==
    ASSUME ShutInv, [Next]_vars, stopEvt
    PROVE  StepsLeft' < StepsLeft \/ UNCHANGED vars
<1>0. /\ cap \in CapturePlaces /\ main \in MainPlaces /\ pending \in 0..MaxAlerts
      /\ cap' \in CapturePlaces /\ main' \in MainPlaces /\ pending' \in 0..MaxAlerts
  <2>1. TInv'
    BY TypeStep DEF ShutInv
  <2>2. QED
    BY <2>1 DEF ShutInv, TInv, TypeOK
<1>1. /\ CaptureLeft(cap, pending) \in Nat /\ MainLeft(main) \in Nat
      /\ CaptureLeft(cap', pending') \in Nat /\ MainLeft(main') \in Nat
  BY <1>0, StepsLeftType
<1>2. CASE Packet \/ ReadFails \/ CaptureStep
  <2>1. main' = main
    BY <1>2 DEF Packet, ReadFails, CaptureStep, Check, AppendWindow, UpdateBegins, UpdateEnds,
                Behavioral, SaveAlert, AlertSaved, Recent, Count, Store, Stored
  <2>2. CaptureLeft(cap', pending') < CaptureLeft(cap, pending)
    BY <1>2, CaptureGoesOn DEF ShutInv
  <2>3. QED
    BY <1>1, <2>1, <2>2 DEF StepsLeft
<1>3. CASE MainStep
  <2>1. cap' = cap /\ pending' = pending
    BY <1>3 DEF MainStep, Join, SerializeBegins, SerializeEnds, FinalStore, FinalStored, Close,
                state
  <2>2. MainLeft(main') < MainLeft(main)
    BY <1>3, MainGoesOn
  <2>3. QED
    BY <1>1, <2>1, <2>2 DEF StepsLeft
<1>4. ~ Stop
  BY DEF Stop, ShutInv, Shutting
<1>5. \A r \in Readers : ~ Ask(r) /\ ~ Serve(r)
  BY NoRequestSteps DEF ShutInv
<1>6. QED
  BY <1>2, <1>3, <1>4, <1>5 DEF Next, Exited

\* stop() cannot go on for ever: whatever the two threads do and in whatever
\* order, they take at most three steps for each alert of a window and
\* sixteen more, although nobody counts them and a write may fail at each
\* (service.py:125-133, 135-178).
THEOREM StopsAreBounded == Spec => StopIsBounded
<1>1. ShutInv => (stopEvt => StepsLeft \in 0..(3 * MaxAlerts + 16))
  <2> SUFFICES ASSUME ShutInv, stopEvt PROVE StepsLeft \in 0..(3 * MaxAlerts + 16)
    OBVIOUS
  <2>1. cap \in CapturePlaces /\ main \in MainPlaces /\ pending \in 0..MaxAlerts /\ main # "serving"
    BY DEF ShutInv, Shutting, TInv, TypeOK
  <2>2. CaptureLeft(cap, pending) \in 0..(3 * MaxAlerts + 9) /\ MainLeft(main) \in 0..7
    BY <2>1, StepsLeftType
  <2>3. QED
    BY <2>2, ConstantsType DEF StepsLeft
<1>2. ShutInv /\ [Next]_vars => [stopEvt => StepsLeft' < StepsLeft]_vars
  BY StepsFall
<1>3. QED
  BY <1>1, <1>2, ShutInductive, PTL DEF Spec, StopIsBounded

\* And nothing stops it half way: the lock a last save or a close waits for is
\* held only by a write under way (service.py:125-133, storage.py:130-152).
THEOREM StopsAreNeverStuck == Spec => []StopIsNeverStuck
<1>1. ShutInv => StopIsNeverStuck
  <2> SUFFICES ASSUME ShutInv, stopEvt
               PROVE  /\ \A r \in Readers : req[r] = "idle"
                      /\ svcLock = Free
                      /\ dbLock # Free =>
                             \E t \in {Capture, Main} : dbLock = t /\ InStore(t) /\ ~ Blocked(t)
    BY DEF StopIsNeverStuck
  <2> USE ThreadsApart
  <2>1. \A r \in Readers : req[r] = "idle"
    BY DEF ShutInv, Shutting
  <2>2. svcLock = Free
    <3>1. \A r \in Readers : ~ InService(r)
      BY <2>1 DEF InService
    <3>2. QED
      BY <3>1 DEF ShutInv, LInv, PlacesType, LocksAreHeld, Threads
  <2>3. ASSUME dbLock # Free
        PROVE  \E t \in {Capture, Main} : dbLock = t /\ InStore(t) /\ ~ Blocked(t)
    <3>1. dbLock \in {Capture, Main} /\ InStore(dbLock)
      BY <2>3 DEF ShutInv, LInv, PlacesType, LocksAreHeld
    <3>2. ~ AwaitsService(dbLock) /\ ~ AwaitsStore(dbLock)
      BY <3>1 DEF InStore, AwaitsService, AwaitsStore
    <3>3. QED
      BY <3>1, <3>2 DEF Blocked
  <2>4. QED
    BY <2>1, <2>2, <2>3
<1>2. QED
  BY <1>1, ShutInductive, PTL

-----------------------------------------------------------------------------
(* The page that asks the service: Dashboard, for every table of alerts,   *)
(* every limit and any number of ticks under way at a time.                *)

LEMMA PageConstants == MaxStored \in Nat /\ Limit \in Nat \ {0}
BY DashboardAssumption DEF MaxStored

Healths == {"warm", "ok", "error"}

Unanswered == {[is |-> "idle"], Waiting, Lost}

\* What the two requests of a tick may hold while the table has n rows.
StatusOf(n) == {Answer(s) : s \in [health : Healths, total : 0..n]}
AlertsOf(n) == {Answer(m) : m \in 0..n}

\* No tick holds an answer from a longer table than there is.
TicksHold(n, f) ==
    /\ f \in [Ticks -> [Apis -> Unanswered \cup StatusOf(n) \cup AlertsOf(n)]]
    /\ \A t \in Ticks : /\ f[t]["status"] \in Unanswered \cup StatusOf(n)
                        /\ f[t]["alerts"] \in Unanswered \cup AlertsOf(n)

PageRecords ==
    [pill : {"none", "warm", "ok", "error", "unreachable"}, total : Nat, histogram : Nat,
     rows : SUBSET Nat, details : SUBSET Nat]

PageInv ==
    /\ up \in BOOLEAN /\ health \in Healths /\ stored \in 0..MaxStored
    /\ TicksHold(stored, tick)
    /\ alerts \in 0..stored /\ expanded \subseteq 1..stored
    /\ filterSev \in Severities \cup {All}
    /\ page \in PageRecords /\ page.total <= stored
    /\ PageIsOfOneAnswer

LEMMA RowsFit ==
    ASSUME NEW latest \in Nat, NEW filter, Limit \in Nat \ {0}
    PROVE  /\ Shown(latest, filter) \subseteq 1..latest
           /\ \A i, j \in Shown(latest, filter) : i - j < Limit
BY DEF Shown, Rows

LEMMA TicksHoldMore ==
    ASSUME NEW n \in Nat, NEW f, TicksHold(n, f)
    PROVE  TicksHold(n + 1, f)
<1>1. StatusOf(n) \subseteq StatusOf(n + 1) /\ AlertsOf(n) \subseteq AlertsOf(n + 1)
    <2>1. 0..n \subseteq 0..(n + 1)
        OBVIOUS
    <2> QED BY <2>1 DEF StatusOf, AlertsOf
<1> QED BY <1>1 DEF TicksHold

\* One request of a tick gets another of the states it may have.
LEMMA TickTakes ==
    ASSUME NEW n, NEW f, TicksHold(n, f), NEW t \in Ticks, NEW api \in Apis, NEW reply,
           reply \in Unanswered \cup (IF api = "status" THEN StatusOf(n) ELSE AlertsOf(n))
    PROVE  TicksHold(n, [f EXCEPT ![t][api] = reply])
<1>1. Apis = {"status", "alerts"}
    BY DEF Apis
<1>2. f \in [Ticks -> [Apis -> Unanswered \cup StatusOf(n) \cup AlertsOf(n)]]
    BY DEF TicksHold
<1>3. reply \in Unanswered \cup StatusOf(n) \cup AlertsOf(n)
    OBVIOUS
<1> DEFINE g == [f EXCEPT ![t][api] = reply]
<1>4. g \in [Ticks -> [Apis -> Unanswered \cup StatusOf(n) \cup AlertsOf(n)]]
    BY <1>2, <1>3
<1>5. \A u \in Ticks, a \in Apis : g[u][a] = IF u = t /\ a = api THEN reply ELSE f[u][a]
    BY <1>2
<1>6. \A u \in Ticks : /\ g[u]["status"] \in Unanswered \cup StatusOf(n)
                       /\ g[u]["alerts"] \in Unanswered \cup AlertsOf(n)
    <2> HIDE DEF g
    <2>1. "status" # "alerts" /\ "status" \in Apis /\ "alerts" \in Apis
        BY <1>1
    <2> QED BY <1>1, <1>5, <2>1 DEF TicksHold
<1> QED BY <1>4, <1>6 DEF TicksHold

\* All requests of a tick are idle, waiting or lost.
LEMMA TickSet ==
    ASSUME NEW n, NEW f, TicksHold(n, f), NEW t \in Ticks, NEW both \in [Apis -> Unanswered]
    PROVE  TicksHold(n, [f EXCEPT ![t] = both])
BY DEF TicksHold, Apis

\* A click: the rows and the details of what the last tick left.
LEMMA ClickShows ==
    ASSUME PageInv, NEW filter \in Severities \cup {All},
           NEW open \in SUBSET (1..stored),
           page' = Again(filter, open), alerts' = alerts,
           filterSev' = filter, expanded' = open
    PROVE  /\ page' \in PageRecords /\ page'.total = page.total /\ PageIsOfOneAnswer'
<1> DEFINE visible == Shown(alerts, filter)
<1>1. alerts \in Nat /\ page \in PageRecords /\ page.histogram = alerts
    BY PageConstants DEF PageInv, PageIsOfOneAnswer
<1>2. visible \subseteq Nat
    BY <1>1, RowsFit, PageConstants
<1>3. page' = [page EXCEPT !.rows = visible, !.details = visible \cap open]
    BY DEF Again, Rendered
<1>4. page'.rows = Shown(alerts', filterSev')
    BY <1>1, <1>3 DEF PageRecords
<1> HIDE DEF visible
<1>5. /\ page' \in PageRecords /\ page'.total = page.total /\ page'.histogram = page.histogram
      /\ page'.rows = visible /\ page'.details = visible \cap open
    BY <1>1, <1>2, <1>3 DEF PageRecords
<1> QED BY <1>1, <1>4, <1>5 DEF PageIsOfOneAnswer

LEMMA PageInvInit == PageInit => PageInv
<1> SUFFICES ASSUME PageInit PROVE PageInv
    OBVIOUS
<1>1. /\ up = TRUE /\ health \in Healths /\ stored = 0 /\ tick = [t \in Ticks |-> Idle]
      /\ alerts = 0 /\ expanded = {} /\ filterSev = All
      /\ page = [pill |-> "none", total |-> 0, histogram |-> 0, rows |-> {}, details |-> {}]
    BY DEF PageInit, FirstPage, Started, Healths
<1>2. page \in PageRecords /\ page.total = 0 /\ page.histogram = 0 /\ page.rows = {}
      /\ page.details = {}
    BY <1>1 DEF PageRecords
<1>3. Shown(0, All) = {}
    BY DEF Shown, Rows
<1>4. PageIsOfOneAnswer
    BY <1>1, <1>2, <1>3 DEF PageIsOfOneAnswer
<1>5. TicksHold(stored, tick)
    <2>1. Idle \in [Apis -> Unanswered]
        BY DEF Idle, Unanswered
    <2> QED BY <1>1, <2>1 DEF TicksHold, Apis
<1>6. stored \in 0..MaxStored /\ alerts \in 0..stored
    BY <1>1, PageConstants
<1> QED BY <1>1, <1>2, <1>4, <1>5, <1>6 DEF PageInv

\* What the service does while the page waits.
LEMMA ServiceKeepsPage ==
    ASSUME PageInv, NewAlert \/ Warmed \/ CaptureDies \/ Up
    PROVE  PageInv'
<1>1. UNCHANGED <<tick, alerts, expanded, filterSev, page>>
    BY DEF NewAlert, Warmed, CaptureDies, Up, pageState
<1>2. up' \in BOOLEAN /\ health' \in Healths
    BY DEF NewAlert, Warmed, CaptureDies, Up, Started, PageInv, Healths
<1>3. stored \in Nat /\ stored' \in {stored, stored + 1} /\ stored' \in 0..MaxStored
    BY PageConstants DEF NewAlert, Warmed, CaptureDies, Up, PageInv
<1>4. TicksHold(stored', tick)
    BY <1>3, TicksHoldMore DEF PageInv
<1>5. alerts \in 0..stored' /\ expanded \subseteq 1..stored' /\ page.total <= stored'
    BY <1>3 DEF PageInv, PageRecords
<1> QED BY <1>1, <1>2, <1>3, <1>4, <1>5 DEF PageInv, PageIsOfOneAnswer, Shown,
                                            Rows

LEMMA DownKeepsPage ==
    ASSUME PageInv, Down
    PROVE  PageInv'
<1>1. /\ up' = FALSE /\ UNCHANGED <<health, stored, alerts, expanded, filterSev, page>>
      /\ tick' = [t \in Ticks |-> [api \in Apis |->
                     IF tick[t][api] = Waiting THEN Lost ELSE tick[t][api]]]
    BY DEF Down, pageState
<1>2. Lost \in Unanswered
    BY DEF Unanswered
<1>3. TicksHold(stored, tick')
    BY <1>1, <1>2 DEF TicksHold, PageInv, Apis
<1> QED BY <1>1, <1>3 DEF PageInv, PageIsOfOneAnswer, Shown, Rows

LEMMA ReplyKeepsPage ==
    ASSUME PageInv, NEW t \in Ticks, NEW api \in Apis, Reply(t, api)
    PROVE  PageInv'
<1>1. /\ tick' = [tick EXCEPT ![t][api] = Present(api)]
      /\ UNCHANGED <<up, health, stored, alerts, expanded, filterSev, page>>
    BY DEF Reply, service, pageState
<1>2. stored \in Nat /\ health \in Healths
    BY PageConstants DEF PageInv
<1>3. Present(api) \in IF api = "status" THEN StatusOf(stored) ELSE AlertsOf(stored)
    BY <1>2 DEF Present, StatusOf, AlertsOf
<1>4. TicksHold(stored, tick')
    BY <1>1, <1>3, TickTakes DEF PageInv
<1> QED BY <1>1, <1>4 DEF PageInv, PageIsOfOneAnswer, Shown, Rows

LEMMA TickKeepsPage ==
    ASSUME PageInv, NEW t \in Ticks, Tick(t)
    PROVE  PageInv'
<1>1. /\ tick' = [tick EXCEPT ![t] = Asked]
      /\ UNCHANGED <<up, health, stored, alerts, expanded, filterSev, page>>
    BY DEF Tick, service, pageState
<1>2. Asked \in [Apis -> Unanswered]
    BY DEF Asked, Unanswered
<1>3. TicksHold(stored, tick')
    BY <1>1, <1>2, TickSet DEF PageInv
<1> QED BY <1>1, <1>3 DEF PageInv, PageIsOfOneAnswer, Shown, Rows

LEMMA FailKeepsPage ==
    ASSUME PageInv, NEW t \in Ticks, Fail(t)
    PROVE  PageInv'
<1>1. /\ tick' = [tick EXCEPT ![t] = Idle] /\ page' = [page EXCEPT !.pill = "unreachable"]
      /\ UNCHANGED <<up, health, stored, alerts, expanded, filterSev>>
    BY DEF Fail, service, pageState
<1>2. Idle \in [Apis -> Unanswered]
    BY DEF Idle, Unanswered
<1>3. TicksHold(stored, tick')
    BY <1>1, <1>2, TickSet DEF PageInv
<1>4. /\ page' \in PageRecords /\ page'.total = page.total /\ page'.histogram = page.histogram
      /\ page'.rows = page.rows /\ page'.details = page.details
    BY <1>1 DEF PageInv, PageRecords
<1> QED BY <1>1, <1>3, <1>4 DEF PageInv, PageIsOfOneAnswer, Shown, Rows

\* What a tick whose answers are both in was told.
LEMMA AnswersSay ==
    ASSUME NEW n \in Nat, NEW f, TicksHold(n, f), NEW t \in Ticks,
           \A api \in Apis : f[t][api].is = "answered"
    PROVE  /\ f[t]["status"].value.health \in Healths
           /\ f[t]["status"].value.total \in 0..n
           /\ f[t]["alerts"].value \in 0..n
<1>1. f[t]["status"].is = "answered" /\ f[t]["alerts"].is = "answered"
    BY DEF Apis
<1>2. \A r \in Unanswered : r.is # "answered"
    BY DEF Unanswered, Waiting, Lost
<1>3. f[t]["status"] \in StatusOf(n) /\ f[t]["alerts"] \in AlertsOf(n)
    BY <1>1, <1>2 DEF TicksHold
<1>4. PICK s \in [health : Healths, total : 0..n] : f[t]["status"] = Answer(s)
    BY <1>3 DEF StatusOf
<1>5. PICK k \in 0..n : f[t]["alerts"] = Answer(k)
    BY <1>3 DEF AlertsOf
<1>6. f[t]["status"].value = s /\ f[t]["alerts"].value = k
    BY <1>4, <1>5 DEF Answer
<1> QED BY <1>6

LEMMA RenderKeepsPage ==
    ASSUME PageInv, NEW t \in Ticks, Render(t)
    PROVE  PageInv'
<1> DEFINE status == tick[t]["status"].value
           latest == tick[t]["alerts"].value
           visible == Shown(latest, filterSev)
<1>1. /\ page' = [pill |-> status.health, total |-> status.total, histogram |-> latest,
                  rows |-> visible, details |-> visible \cap expanded]
      /\ alerts' = latest /\ tick' = [tick EXCEPT ![t] = Idle]
      /\ UNCHANGED <<up, health, stored, expanded, filterSev>>
    BY DEF Render, Rendered, Pill, service
<1>2. stored \in Nat /\ TicksHold(stored, tick)
    BY PageConstants DEF PageInv
<1>3. status.health \in Healths /\ status.total \in 0..stored /\ latest \in 0..stored
    BY <1>2, AnswersSay DEF Render
<1>4. Idle \in [Apis -> Unanswered]
    BY DEF Idle, Unanswered
<1>5. TicksHold(stored, tick')
    BY <1>1, <1>2, <1>4, TickSet
<1>6. visible \subseteq Nat
    <2>1. latest \in Nat
        BY <1>2, <1>3
    <2> HIDE DEF latest
    <2> QED BY <2>1, RowsFit, PageConstants
<1>7. visible = Shown(alerts', filterSev')
    BY <1>1
<1> HIDE DEF status, latest, visible
<1>8. page' \in PageRecords
    <2>1. /\ status.health \in {"none", "warm", "ok", "error", "unreachable"}
          /\ status.total \in Nat /\ latest \in Nat
        BY <1>2, <1>3 DEF Healths
    <2>2. visible \in SUBSET Nat /\ visible \cap expanded \in SUBSET Nat
        BY <1>6
    <2> QED BY <1>1, <2>1, <2>2 DEF PageRecords
<1>9. /\ page'.total \in 0..stored /\ page'.histogram = alerts' /\ page'.rows = visible
      /\ page'.details = visible \cap expanded'
    BY <1>1, <1>3
<1>10. PageIsOfOneAnswer'
    BY <1>7, <1>9 DEF PageIsOfOneAnswer
<1> QED BY <1>1, <1>2, <1>3, <1>5, <1>8, <1>9, <1>10 DEF PageInv

LEMMA ClicksKeepPage ==
    ASSUME PageInv,
           \/ \E f \in Severities \cup {All} : Filter(f)
           \/ \E id \in page.rows : ToggleExpand(id)
    PROVE  PageInv'
<1>1. alerts \in Nat /\ alerts <= stored /\ stored \in Nat /\ expanded \in SUBSET (1..stored)
      /\ filterSev \in Severities \cup {All}
    BY PageConstants DEF PageInv
<1>2. ASSUME NEW f \in Severities \cup {All}, NEW open \in SUBSET (1..stored),
             page' = Again(f, open), alerts' = alerts, filterSev' = f, expanded' = open,
             UNCHANGED <<up, health, stored, tick>>
      PROVE  PageInv'
    BY <1>2, ClickShows DEF PageInv
<1>3. ASSUME NEW f \in Severities \cup {All}, Filter(f)
      PROVE  PageInv'
    BY <1>1, <1>2, <1>3 DEF Filter, service
<1>4. ASSUME NEW id \in page.rows, ToggleExpand(id)
      PROVE  PageInv'
    <2>1. id \in Shown(alerts, filterSev)
        BY <1>4 DEF PageInv, PageIsOfOneAnswer
    <2>2. Shown(alerts, filterSev) \subseteq 1..alerts
        BY <1>1, RowsFit, PageConstants
    <2>3. id \in 1..stored
        BY <1>1, <2>1, <2>2
    <2>4. Toggled(id) \in SUBSET (1..stored)
        BY <1>1, <2>3 DEF Toggled
    <2> QED BY <1>1, <1>2, <1>4, <2>4 DEF ToggleExpand, service
<1> QED BY <1>3, <1>4

LEMMA PageInductive == PageSpec => []PageInv
<1>1. PageInv /\ [PageNext]_pageVars => PageInv'
    <2> SUFFICES ASSUME PageInv, [PageNext]_pageVars PROVE PageInv'
        OBVIOUS
    <2>1. CASE UNCHANGED pageVars
        BY <2>1 DEF pageVars, service, pageState, PageInv, PageIsOfOneAnswer,
                    Shown, Rows
    <2>2. CASE NewAlert \/ Warmed \/ CaptureDies \/ Up
        BY <2>2, ServiceKeepsPage
    <2>3. CASE Down
        BY <2>3, DownKeepsPage
    <2>4. ASSUME NEW t \in Ticks, Tick(t) PROVE PageInv'
        BY <2>4, TickKeepsPage
    <2>5. ASSUME NEW t \in Ticks, Render(t) PROVE PageInv'
        BY <2>5, RenderKeepsPage
    <2>6. ASSUME NEW t \in Ticks, Fail(t) PROVE PageInv'
        BY <2>6, FailKeepsPage
    <2>7. ASSUME NEW t \in Ticks, NEW api \in Apis, Reply(t, api) PROVE PageInv'
        BY <2>7, ReplyKeepsPage
    <2>8. CASE \/ \E f \in Severities \cup {All} : Filter(f)
               \/ \E id \in page.rows : ToggleExpand(id)
        BY <2>8, ClicksKeepPage
    <2> QED BY <2>1, <2>2, <2>3, <2>4, <2>5, <2>6, <2>7, <2>8 DEF PageNext, ServiceNext
<1> QED BY <1>1, PageInvInit, PTL DEF PageSpec

\* The state of the page, the answers on their way to it and the table have
\* their types, and the page never shows more rows than it asks for
\* (web/static/app.js:74-81, 256-314, 379-396).
THEOREM PageTypes == PageSpec => []PageTypeOK
<1>1. PageInv => PageTypeOK
    <2> SUFFICES ASSUME PageInv PROVE PageTypeOK
        OBVIOUS
    <2>1. \A t \in Ticks, api \in Apis :
            CASE tick[t][api].is = "answered" -> tick[t][api].value \in Replies[api]
              [] OTHER -> tick[t][api].is \in {"idle", "waiting", "lost"}
        <3> SUFFICES ASSUME NEW t \in Ticks, NEW api \in Apis
                     PROVE  CASE tick[t][api].is = "answered" ->
                                     tick[t][api].value \in Replies[api]
                              [] OTHER -> tick[t][api].is \in {"idle", "waiting", "lost"}
            OBVIOUS
        <3>1. \A r \in Unanswered : r.is # "answered" /\ r.is \in {"idle", "waiting", "lost"}
            BY DEF Unanswered, Waiting, Lost
        <3>2. 0..stored \subseteq 0..MaxStored
            BY PageConstants DEF PageInv
        <3>3. \A r \in StatusOf(stored) : r.is = "answered" /\ r.value \in Replies["status"]
            BY <3>2 DEF StatusOf, Answer, Replies, Healths
        <3>4. \A r \in AlertsOf(stored) : r.is = "answered" /\ r.value \in Replies["alerts"]
            BY <3>2 DEF AlertsOf, Answer, Replies
        <3>5. \/ tick[t][api] \in Unanswered
              \/ api = "status" /\ tick[t][api] \in StatusOf(stored)
              \/ api = "alerts" /\ tick[t][api] \in AlertsOf(stored)
            BY DEF PageInv, TicksHold, Apis
        <3> QED BY <3>1, <3>3, <3>4, <3>5
    <2>2. alerts \in Nat /\ page.rows = Shown(alerts, filterSev) /\ 1..alerts \subseteq 1..stored
        BY PageConstants DEF PageInv, PageIsOfOneAnswer
    <2>3. page.rows \subseteq 1..stored /\ \A i, j \in page.rows : i - j < Limit
        BY <2>2, RowsFit, PageConstants
    <2>4. page.pill \in {"none", "warm", "ok", "error", "unreachable"} /\ page.total \in 0..stored
        BY PageConstants DEF PageInv, PageRecords
    <2> QED BY <2>1, <2>3, <2>4 DEF PageInv, PageTypeOK, Healths
<1> QED BY <1>1, PageInductive, PTL

\* Whatever ticks overlap, fail or end out of order, and whatever is clicked
\* between them, the rows, the details and the histogram are those of one
\* answer, of the filter and of the open rows that are active now
\* (web/static/app.js:74-81, 256-314, 379-396).
THEOREM PageShowsOneAnswer == PageSpec => []PageIsOfOneAnswer
<1>1. PageInv => PageIsOfOneAnswer
    BY DEF PageInv
<1> QED BY <1>1, PageInductive, PTL
-----------------------------------------------------------------------------
(* How the page catches up, once the service changes no more.              *)

\* Ticks under way that were told what the service would not say any more, or
\* nothing.
Stale ==
    {t \in Ticks : \E api \in Apis :
        \/ tick[t][api] = Lost
        \/ tick[t][api].is = "answered" /\ tick[t][api] # Present(api)}

\* While the server is up and has nothing new to say: no tick becomes stale,
\* one that is stale is not when it has ended, one that is not cannot fail and
\* makes the page current when it ends, and once none is left a current page
\* stays current, whatever is clicked.
CatchesUp ==
    up /\ UNCHANGED service =>
        /\ Stale' \subseteq Stale
        /\ \A t \in Stale : Render(t) \/ Fail(t) => t \notin Stale'
        /\ \A t \in Ticks \ Stale : ~ Fail(t) /\ (Render(t) => Current')
        /\ Current /\ Stale = {} => Current'

\* What a request is that is not stale.
LEMMA FreshRequests ==
    ASSUME NEW api \in Apis
    PROVE  /\ \A r \in {[is |-> "idle"], Waiting} : r # Lost /\ r.is # "answered"
           /\ Present(api) # Lost /\ Present(api).is = "answered"
BY DEF Waiting, Lost, Present, Answer

\* Every request stays what it is, or is asked, answered or ended.
LEMMA StaleShrinks ==
    ASSUME UNCHANGED service,
           \A t \in Ticks, api \in Apis :
               \/ tick'[t][api] = tick[t][api]
               \/ tick'[t][api] \in {[is |-> "idle"], Waiting, Present(api)}
    PROVE  Stale' \subseteq Stale
<1>1. \A api \in Apis : Present(api)' = Present(api)
    BY DEF Present, service
<1>2. SUFFICES ASSUME NEW t \in Ticks, NEW api \in Apis,
                      \/ tick'[t][api] = Lost
                      \/ tick'[t][api].is = "answered" /\ tick'[t][api] # Present(api)
               PROVE  t \in Stale
    BY <1>1 DEF Stale
<1>3. tick'[t][api] \notin {[is |-> "idle"], Waiting, Present(api)}
    BY <1>2, FreshRequests
<1> QED BY <1>2, <1>3 DEF Stale

\* A tick that is not stale has no lost request, and what it was told is so.
LEMMA FreshTick ==
    ASSUME NEW t \in Ticks \ Stale
    PROVE  /\ ~ Fail(t)
           /\ Render(t) => /\ tick[t]["status"].value = [health |-> health, total |-> stored]
                           /\ tick[t]["alerts"].value = stored
<1>1. \A api \in Apis : /\ tick[t][api] # Lost
                        /\ tick[t][api].is = "answered" => tick[t][api] = Present(api)
    BY DEF Stale
<1>2. Present("status").value = [health |-> health, total |-> stored]
    BY DEF Present, Answer
<1>3. Present("alerts").value = stored
    BY DEF Present, Answer
<1>4. ~ Fail(t)
    BY <1>1 DEF Fail
<1>5. ASSUME Render(t)
      PROVE  tick[t]["status"] = Present("status") /\ tick[t]["alerts"] = Present("alerts")
    BY <1>1, <1>5 DEF Render, Apis
<1> QED BY <1>2, <1>3, <1>4, <1>5

LEMMA RenderMakesCurrent ==
    ASSUME PageInv, NEW t \in Ticks \ Stale, Render(t)
    PROVE  Current'
<1>1. /\ tick[t]["status"].value = [health |-> health, total |-> stored]
      /\ tick[t]["alerts"].value = stored
    BY FreshTick
<1>2. page'.pill = health /\ page'.total = stored /\ alerts' = stored
    BY <1>1 DEF Render, Pill
<1>3. UNCHANGED <<health, stored>>
    BY DEF Render, service
<1>4. PageIsOfOneAnswer'
    BY RenderKeepsPage DEF PageInv
<1> QED BY <1>2, <1>3, <1>4 DEF Current

\* A click renders the rows of the same answer.
LEMMA ClickKeepsCurrent ==
    ASSUME PageInv, Current,
           \/ \E f \in Severities \cup {All} : Filter(f)
           \/ \E id \in page.rows : ToggleExpand(id)
    PROVE  Current'
<1>1. page \in PageRecords
    BY DEF PageInv
<1>2. /\ page'.pill = page.pill /\ page'.total = page.total
      /\ UNCHANGED <<health, stored, alerts>>
    BY <1>1 DEF Filter, ToggleExpand, Again, PageRecords, service
<1>3. PageIsOfOneAnswer'
    BY ClicksKeepPage DEF PageInv
<1> QED BY <1>2, <1>3 DEF Current

LEMMA CatchingUp ==
    ASSUME PageInv, [PageNext]_pageVars
    PROVE  CatchesUp
<1> SUFFICES ASSUME up, UNCHANGED service
             PROVE  /\ Stale' \subseteq Stale
                    /\ \A t \in Stale : Render(t) \/ Fail(t) => t \notin Stale'
                    /\ \A t \in Ticks \ Stale : ~ Fail(t) /\ (Render(t) => Current')
                    /\ Current /\ Stale = {} => Current'
    BY DEF CatchesUp
<1>1. DOMAIN tick = Ticks /\ \A t \in Ticks : DOMAIN tick[t] = Apis
    BY DEF PageInv, TicksHold
<1>2. ~ ServiceNext
    BY PageConstants DEF PageInv, service, ServiceNext, NewAlert, Warmed, CaptureDies, Down, Up
<1>3. \A t \in Ticks : Render(t) \/ Fail(t) => tick' = [tick EXCEPT ![t] = Idle]
    BY DEF Render, Fail
<1>4. \A api \in Apis : Idle[api] = [is |-> "idle"]
    BY DEF Idle
<1>5. Stale' \subseteq Stale
    <2> DEFINE Goes(t, api) ==
            \/ tick'[t][api] = tick[t][api]
            \/ tick'[t][api] \in {[is |-> "idle"], Waiting, Present(api)}
    <2> SUFFICES ASSUME NEW t \in Ticks, NEW api \in Apis PROVE Goes(t, api)
        BY StaleShrinks
    <2>1. ASSUME UNCHANGED tick PROVE Goes(t, api)
        BY <2>1
    <2>2. ASSUME NEW u \in Ticks, Tick(u) PROVE Goes(t, api)
        <3>1. Asked[api] = Waiting
            BY DEF Asked
        <3> QED BY <1>1, <2>2, <3>1 DEF Tick
    <2>3. ASSUME NEW u \in Ticks, Render(u) \/ Fail(u) PROVE Goes(t, api)
        BY <1>1, <1>3, <1>4, <2>3
    <2>4. ASSUME NEW u \in Ticks, NEW a \in Apis, Reply(u, a) PROVE Goes(t, api)
        BY <1>1, <2>4 DEF Reply
    <2>5. CASE \/ \E f \in Severities \cup {All} : Filter(f)
               \/ \E id \in page.rows : ToggleExpand(id)
        BY <2>1, <2>5 DEF Filter, ToggleExpand
    <2>6. CASE UNCHANGED pageVars
        BY <2>1, <2>6 DEF pageVars
    <2> HIDE DEF Goes
    <2> QED BY <1>2, <2>2, <2>3, <2>4, <2>5, <2>6 DEF PageNext
<1>6. ASSUME NEW t \in Stale, Render(t) \/ Fail(t) PROVE t \notin Stale'
    <2>1. \A api \in Apis : tick'[t][api] = [is |-> "idle"]
        BY <1>1, <1>3, <1>4, <1>6 DEF Stale
    <2>2. \A api \in Apis : [is |-> "idle"] # Lost /\ [is |-> "idle"].is # "answered"
        BY FreshRequests
    <2> QED BY <2>1, <2>2 DEF Stale
<1>7. \A t \in Ticks \ Stale : ~ Fail(t) /\ (Render(t) => Current')
    BY FreshTick, RenderMakesCurrent
<1>8. ASSUME Current, Stale = {} PROVE Current'
    <2>1. ASSUME UNCHANGED <<pageState, page>> PROVE Current'
        BY <1>8, <2>1 DEF Current, PageIsOfOneAnswer, Shown, Rows, service, pageState
    <2>2. ASSUME NEW t \in Ticks, Tick(t) \/ Fail(t) \/ \E api \in Apis : Reply(t, api)
          PROVE  Current'
        BY <1>7, <1>8, <2>1, <2>2 DEF Tick, Reply
    <2>3. ASSUME NEW t \in Ticks, Render(t) PROVE Current'
        BY <1>7, <1>8, <2>3
    <2>4. CASE \/ \E f \in Severities \cup {All} : Filter(f)
               \/ \E id \in page.rows : ToggleExpand(id)
        BY <1>8, <2>4, ClickKeepsCurrent
    <2>5. CASE UNCHANGED pageVars
        BY <2>1, <2>5 DEF pageVars
    <2> QED BY <1>2, <2>2, <2>3, <2>4, <2>5 DEF PageNext
<1> QED BY <1>5, <1>6, <1>7, <1>8

\* What an outage, an error or an answer that came late left on the page goes
\* with the ticks that hold it, whatever order they end in and whatever is
\* clicked; what remains for EventuallyCurrent is that ticks end
\* (web/static/app.js:84-95, 379-398).
THEOREM PageCatchesUp == PageSpec => [][CatchesUp]_pageVars
<1>1. PageInv /\ [PageNext]_pageVars => [CatchesUp]_pageVars
    BY CatchingUp
<1> QED BY <1>1, PageInductive, PTL DEF PageSpec
-----------------------------------------------------------------------------
(* The service the page asks: what Dashboard takes it to do is what        *)
(* MonitorService does, from its start until its process ends.             *)

CONSTANTS
    WarmupBase,   \* the warm-up in windows, of which status() counts down
    HistorySize   \* history_size: windows the service keeps

\* Windows handed over when the capture thread is at c and the detector has
\* learned n; _windows has the latest HistorySize of them.
Handed(c, n) == IF c \in {"update", "updating"} THEN n + 1 ELSE n

\* What status() says then, as the page reads it.
Health(c, n) ==
    IF c = "crashed" THEN "error"
    ELSE IF Handed(c, n) < WarmupBase \/ HistorySize < WarmupBase THEN "warm" ELSE "ok"

\* Dashboard with this service and a page that was never loaded.
Seen == INSTANCE Dashboard WITH
    up <- main = "serving", health <- Health(cap, learned), stored <- rows,
    tick <- [t \in Ticks |-> Idle], alerts <- 0, expanded <- {}, filterSev <- All,
    page <- FirstPage

\* There is never an alert more than the windows can have raised.
RaisedFit == raised <= MaxAlerts * learned

LEMMA Products ==
    ASSUME NEW a \in Nat, NEW b \in Nat, NEW c \in Nat, b <= c
    PROVE  a * b \in Nat /\ a * b <= a * c
OBVIOUS

LEMMA RaisedFitStep ==
    ASSUME TInv, RaisedFit, [Next]_vars
    PROVE  RaisedFit'
<1>1. raised \in Nat /\ learned \in Nat /\ MaxAlerts \in Nat
    BY ConstantsType, TypeParts DEF TInv, CountersType
<1>2. CASE UpdateEnds
    <2>1. learned' = learned + 1 /\ \E n \in 0..MaxAlerts : raised' = raised + n
        BY <1>2 DEF UpdateEnds
    <2>2. MaxAlerts * (learned + 1) = MaxAlerts * learned + MaxAlerts /\ MaxAlerts * learned \in Nat
        BY <1>1, Interval
    <2>3. raised <= MaxAlerts * learned
        BY DEF RaisedFit
    <2> DEFINE k == MaxAlerts * learned
    <2>4. \A n \in 0..MaxAlerts : raised + n <= k + MaxAlerts
        <3>1. k \in Nat /\ raised <= k
            BY <2>2, <2>3
        <3> HIDE DEF k
        <3> QED BY <1>1, <3>1
    <2> QED BY <2>1, <2>2, <2>4 DEF RaisedFit
<1>3. CASE ~ UpdateEnds
    <2>1. UNCHANGED <<raised, learned>>
        <3>1. ASSUME NEW r \in Readers, Ask(r) \/ Serve(r) PROVE UNCHANGED <<raised, learned>>
            BY <3>1, ReaderFrame
        <3> QED
            BY <1>3, <3>1 DEF Next, CaptureStep, MainStep, vars, state, history, Packet, ReadFails,
               Check, AppendWindow, UpdateBegins, Behavioral, SaveAlert, AlertSaved, Recent, Count,
               Store, Stored, Stop, Join, SerializeBegins, SerializeEnds, FinalStore, FinalStored,
               Close, Exited
    <2> QED BY <2>1 DEF RaisedFit
<1> QED BY <1>2, <1>3

\* Windows are handed over before the detector learns them, and nothing but
\* the end of the capture thread and a window changes what status() says.
LEMMA HealthSteps ==
    ASSUME NEW c, NEW d, NEW m \in Nat, NEW n \in Nat, c # "crashed", d # "crashed",
           WarmupBase \in Int, HistorySize \in Int
    PROVE  /\ Handed(d, n) = Handed(c, m) => Health(d, n) = Health(c, m)
           /\ Handed(d, n) = Handed(c, m) + 1
                => \/ Health(d, n) = Health(c, m)
                   \/ Health(c, m) = "warm" /\ Health(d, n) = "ok"
           /\ Health(c, m) # "error"
<1>1. Handed(c, m) \in Nat /\ Handed(d, n) \in Nat
    BY DEF Handed
<1> QED BY <1>1 DEF Health

\* Every step is, for a page, one of the service's or none.
SeenStep ==
    \/ /\ Health(cap', learned') = Health(cap, learned) /\ rows' = rows
       /\ (main = "serving" <=> main' = "serving")
    \/ /\ Health(cap', learned') = Health(cap, learned) /\ rows' = rows
       /\ main = "serving" /\ main' # "serving"
    \/ /\ Health(cap, learned) = "warm" /\ Health(cap', learned') = "ok" /\ rows' = rows /\ main' = main
    \/ /\ Health(cap, learned) # "error" /\ Health(cap', learned') = "error" /\ rows' = rows /\ main' = main
    \/ /\ Health(cap, learned) # "error" /\ Health(cap', learned') = Health(cap, learned) /\ main' = main
       /\ rows' = rows + 1 /\ rows < MaxWindows * MaxAlerts

LEMMA SeenSteps ==
    ASSUME TInv, TInv', AlertsCounted, RaisedFit, [Next]_vars,
           WarmupBase \in Int, HistorySize \in Int
    PROVE  SeenStep
<1>1. /\ learned \in Nat /\ learned' \in Nat /\ rows \in Nat /\ raised \in Nat
      /\ pending \in Nat /\ learned <= MaxWindows /\ MaxAlerts \in Nat /\ MaxWindows \in Nat
    BY ConstantsType DEF TInv, TypeOK
<1>2. ASSUME \/ cap' = cap /\ learned' = learned
             \/ /\ cap # "crashed" /\ cap' # "crashed"
                /\ Handed(cap', learned') = Handed(cap, learned),
             rows' = rows,
             \/ main' = main
             \/ main = "serving" /\ main' # "serving"
             \/ main # "serving" /\ main' # "serving"
      PROVE  SeenStep
    BY <1>1, <1>2, HealthSteps DEF SeenStep
<1>3. ASSUME cap # "crashed", cap' = "crashed", rows' = rows, main' = main
      PROVE  SeenStep
    BY <1>3 DEF SeenStep, Health
<1>4. CASE UNCHANGED vars
    BY <1>2, <1>4 DEF vars, threads, state, history, Handed
<1>5. CASE AppendWindow
    <2>1. /\ cap = "append" /\ cap' = "update" /\ learned' = learned /\ rows' = rows
          /\ main' = main
        BY <1>5 DEF AppendWindow, state, history
    <2>2. Handed(cap', learned') = Handed(cap, learned) + 1
        BY <2>1 DEF Handed
    <2> QED BY <1>1, <2>1, <2>2, HealthSteps DEF SeenStep
<1>6. CASE UpdateEnds
    <2>1. /\ cap = "updating" /\ cap' = "behavioral" /\ learned' = learned + 1 /\ rows' = rows
          /\ main' = main
        BY <1>6 DEF UpdateEnds
    <2>2. Handed(cap', learned') = Handed(cap, learned)
        BY <2>1 DEF Handed
    <2> QED BY <1>2, <2>1, <2>2
<1>7. CASE ReadFails
    BY <1>3, <1>7 DEF ReadFails, history
<1>8. CASE Behavioral
    <2>1. /\ cap = "behavioral" /\ cap' \in {"alerts", "crashed"} /\ learned' = learned
          /\ rows' = rows /\ main' = main
        BY <1>8 DEF Behavioral, Dies
    <2>2. CASE cap' = "alerts"
        BY <1>2, <2>1, <2>2 DEF Handed
    <2>3. CASE cap' = "crashed"
        BY <1>3, <2>1, <2>3
    <2> QED BY <2>1, <2>2, <2>3
<1>9. CASE AlertSaved
    <2>1. /\ cap = "saving" /\ learned' = learned /\ main' = main
          /\ \/ cap' = "recent" /\ rows' = rows + 1
             \/ cap' = "crashed" /\ rows' = rows
        BY <1>9 DEF AlertSaved, Dies
    <2>2. CASE cap' = "crashed"
        BY <1>3, <2>1, <2>2
    <2>3. CASE cap' = "recent"
        <3>1. rows < raised
            BY <1>1, <2>1 DEF TInv, AlertInHand, AlertsCounted
        <3>2. raised <= MaxAlerts * learned
            BY DEF RaisedFit
        <3>3. /\ MaxAlerts * learned \in Nat /\ MaxAlerts * learned <= MaxAlerts * MaxWindows
              /\ MaxAlerts * MaxWindows \in Nat
            BY <1>1, Products
        <3>4. MaxAlerts * MaxWindows = MaxWindows * MaxAlerts
            BY <1>1
        <3> DEFINE most == MaxAlerts * MaxWindows
                   most2 == MaxAlerts * learned
        <3>5. rows < most
            <4>1. rows < raised /\ raised <= most2 /\ most2 <= most /\ most2 \in Nat /\ most \in Nat
                BY <3>1, <3>2, <3>3
            <4> HIDE DEF most, most2
            <4> QED BY <1>1, <4>1
        <3>6. rows < MaxWindows * MaxAlerts
            BY <3>4, <3>5
        <3>7. Handed(cap', learned') = Handed(cap, learned)
            BY <2>1, <2>3 DEF Handed
        <3> QED BY <1>1, <2>1, <2>3, <3>6, <3>7, HealthSteps DEF SeenStep
    <2> QED BY <2>1, <2>2, <2>3
<1>10. CASE \/ Packet \/ Check \/ UpdateBegins \/ SaveAlert \/ Recent \/ Count \/ Store \/ Stored
    <2>1. /\ learned' = learned /\ rows' = rows /\ main' = main
        BY <1>10 DEF Packet, Check, UpdateBegins, SaveAlert, Recent, Count, Store, Stored, state,
                     history
    <2>2. \/ cap = "update" /\ cap' = "updating"
          \/ /\ cap \in CapturePlaces \ {"update", "updating", "crashed"}
             /\ cap' \in CapturePlaces \ {"update", "updating", "crashed"}
        BY <1>10 DEF Packet, Check, UpdateBegins, SaveAlert, Recent, Count, Store, Stored,
                     CapturePlaces
    <2>3. Handed(cap', learned') = Handed(cap, learned) /\ cap # "crashed" /\ cap' # "crashed"
        BY <2>1, <2>2 DEF Handed
    <2> QED BY <1>2, <2>1, <2>3
<1>11. CASE Stop \/ MainStep \/ Exited
    <2>1. UNCHANGED <<cap, learned, rows>>
        BY <1>11 DEF Stop, MainStep, Join, SerializeBegins, SerializeEnds, FinalStore, FinalStored,
                     Close, Exited, vars, threads, state, history
    <2>2. \/ main = "serving" /\ main' # "serving"
          \/ main # "serving" /\ main' # "serving"
        BY <1>11 DEF Stop, MainStep, Join, SerializeBegins, SerializeEnds, FinalStore, FinalStored,
                     Close, Exited, vars, threads
    <2> QED BY <1>2, <2>1, <2>2 DEF Handed
<1>12. ASSUME NEW r \in Readers, Ask(r) \/ Serve(r) PROVE SeenStep
    BY <1>2, <1>12, ReaderFrame DEF Handed
<1> QED BY <1>4, <1>5, <1>6, <1>7, <1>8, <1>9, <1>10, <1>11, <1>12 DEF Next, CaptureStep

\* A page with no request under way has none to lose.
LEMMA NoneIsLost ==
    [t \in Ticks |-> Idle] =
        [t \in Ticks |-> [api \in Seen!Apis |->
            IF [u \in Ticks |-> Idle][t][api] = Seen!Waiting
            THEN Seen!Lost ELSE [u \in Ticks |-> Idle][t][api]]]
<1>1. Seen!Apis = Apis /\ Seen!Waiting = [is |-> "waiting"]
    BY DEF Seen!Apis, Apis, Seen!Waiting
<1>2. \A api \in Apis : Idle[api] = [is |-> "idle"] /\ [is |-> "idle"] # [is |-> "waiting"]
    BY DEF Idle
<1>3. Idle = [api \in Apis |-> IF Idle[api] = [is |-> "waiting"] THEN Seen!Lost ELSE Idle[api]]
    BY <1>2 DEF Idle
<1> QED BY <1>1, <1>3

LEMMA SeenIsService ==
    ASSUME SeenStep, TypeOK, MaxWindows * MaxAlerts <= Seen!MaxStored, Seen!MaxStored \in Nat
    PROVE  [Seen!ServiceNext]_(Seen!pageVars)
<1>1. CASE /\ Health(cap', learned') = Health(cap, learned) /\ rows' = rows
           /\ (main = "serving" <=> main' = "serving")
    BY <1>1 DEF Seen!pageVars, Seen!service, Seen!pageState
<1>2. CASE /\ Health(cap', learned') = Health(cap, learned) /\ rows' = rows
           /\ main = "serving" /\ main' # "serving"
    <2>1. (main = "serving")' = FALSE
        BY <1>2
    <2> QED BY <1>2, <2>1, NoneIsLost DEF Seen!Down, Seen!ServiceNext, Seen!pageState
<1>3. CASE /\ Health(cap, learned) = "warm" /\ Health(cap', learned') = "ok"
           /\ rows' = rows /\ main' = main
    BY <1>3 DEF Seen!Warmed, Seen!ServiceNext, Seen!pageState
<1>4. CASE /\ Health(cap, learned) # "error" /\ Health(cap', learned') = "error"
           /\ rows' = rows /\ main' = main
    BY <1>4 DEF Seen!CaptureDies, Seen!ServiceNext, Seen!pageState
<1>5. CASE /\ Health(cap, learned) # "error" /\ Health(cap', learned') = Health(cap, learned)
           /\ main' = main /\ rows' = rows + 1 /\ rows < MaxWindows * MaxAlerts
    <2>1. rows < Seen!MaxStored
        <3>1. rows \in Nat /\ MaxWindows \in Nat /\ MaxAlerts \in Nat
            BY ConstantsType DEF TypeOK
        <3>2. MaxWindows * MaxAlerts \in Nat
            BY <3>1, Products
        <3> DEFINE most == MaxWindows * MaxAlerts
                   room == Seen!MaxStored
        <3>3. rows < most /\ most \in Nat /\ most <= room /\ room \in Nat
            BY <1>5, <3>2
        <3> HIDE DEF most, room
        <3>4. rows < room
            BY <3>1, <3>3
        <3> QED BY <3>4 DEF room
    <2> QED BY <1>5, <2>1 DEF Seen!NewAlert, Seen!ServiceNext, Seen!pageState
<1> QED BY <1>1, <1>2, <1>3, <1>4, <1>5 DEF SeenStep

\* The service the page asks is a MonitorService: from its start, each of its
\* steps, of whichever thread, is for the page an alert that is saved, the end
\* of the warm-up, the death of the capture thread, the end of the server, or
\* nothing.  What is proved of the page above is proved of this service
\* (service.py:135-163, 181-209; web/app.py:23-41).
THEOREM ServiceIsThePages ==
    ASSUME WarmupBase \in Int, HistorySize \in Int, MaxWindows * MaxAlerts <= MaxStored
    PROVE  Spec => Seen!PageInit /\ [][Seen!ServiceNext]_(Seen!pageVars)
<1>0. Seen!MaxStored = MaxStored /\ MaxStored \in Nat
    BY PageConstants DEF Seen!MaxStored, MaxStored
<1>1. Init => Seen!PageInit /\ TInv /\ AlertsCounted /\ RaisedFit
    <2> SUFFICES ASSUME Init PROVE Seen!PageInit /\ TInv /\ AlertsCounted /\ RaisedFit
        OBVIOUS
    <2>1. TInv /\ AlertsCounted
        BY TypeInit DEF Init, AlertsCounted
    <2>2. RaisedFit
        <3>1. MaxAlerts \in Nat /\ raised = 0 /\ learned = 0
            BY ConstantsType DEF Init
        <3> QED BY <3>1, Interval DEF RaisedFit
    <2>3. Health(cap, learned) \in {"warm", "ok"}
        BY DEF Init, Health
    <2>4. Seen!PageInit
        BY <2>3 DEF Init, Seen!PageInit, Seen!Started, FirstPage, Seen!FirstPage, Idle, Seen!Idle,
                    Apis, Seen!Apis
    <2> QED BY <2>1, <2>2, <2>4
<1>2. TInv /\ AlertsCounted /\ RaisedFit /\ [Next]_vars
        => TInv' /\ AlertsCounted' /\ RaisedFit' /\ [Seen!ServiceNext]_(Seen!pageVars)
    <2> SUFFICES ASSUME TInv, AlertsCounted, RaisedFit, [Next]_vars
                 PROVE  /\ TInv' /\ AlertsCounted' /\ RaisedFit'
                        /\ [Seen!ServiceNext]_(Seen!pageVars)
        OBVIOUS
    <2>1. TInv' /\ AlertsCounted' /\ RaisedFit'
        BY TypeStep, AlertsStep, RaisedFitStep
    <2>2. SeenStep
        BY <2>1, SeenSteps
    <2> QED BY <1>0, <2>1, <2>2, SeenIsService DEF TInv
<1> QED BY <1>1, <1>2, PTL DEF Spec

-----------------------------------------------------------------------------
(* One answer of that service: Reply of Dashboard reads health and alerts  *)
(* at once, status() reads the health as it takes the service lock and the *)
(* alerts last, when the store lets it.                                    *)

VARIABLE
    asked   \* history: health and alerts when the service lock was last taken

AskedInit ==
    /\ Init
    /\ asked = [health |-> "warm", total |-> 0]

AskedNext ==
    /\ Next
    /\ asked' = IF svcLock = Free /\ svcLock' # Free
                THEN [health |-> Health(cap, learned), total |-> rows]
                ELSE asked

askedVars == <<vars, asked>>

AskedSpec == AskedInit /\ [][AskedNext]_askedVars

\* Whoever is about to read the alerts gives the answer of this moment, or of
\* the one in which the health was read.
OneMoment ==
    \A r \in Readers :
        req[r] = "total" => \/ asked.health = Health(cap, learned)
                            \/ asked.total = rows

\* The capture thread can save one alert while the lock is held, and then it
\* waits for it; or it can die.
HeldMoment ==
    svcLock # Free =>
        \/ /\ asked.health = Health(cap, learned)
           /\ asked.total = rows \/ cap = "recent"
        \/ cap = "crashed" /\ asked.total = rows

\* A step of any thread while the service lock is held.
LEMMA HeldSteps ==
    ASSUME TInv, TInv', svcLock # Free, [Next]_vars
    PROVE  \/ cap' = cap /\ learned' = learned /\ rows' = rows
           \/ /\ cap # "recent" /\ cap # "crashed" /\ cap' # "crashed"
              /\ Handed(cap', learned') = Handed(cap, learned)
              /\ rows' = rows \/ cap' = "recent"
           \/ cap \notin {"recent", "crashed"} /\ cap' = "crashed" /\ rows' = rows
<1>1. CASE UNCHANGED vars
    BY <1>1 DEF vars, threads, state, history
<1>2. CASE AppendWindow \/ Recent
    BY <1>2 DEF AppendWindow, Recent
<1>3. CASE UpdateEnds
    <2>1. cap = "updating" /\ cap' = "behavioral" /\ learned' = learned + 1 /\ rows' = rows
        BY <1>3 DEF UpdateEnds
    <2> QED BY <2>1 DEF Handed
<1>4. CASE ReadFails
    BY <1>4 DEF ReadFails, history
<1>5. CASE Behavioral
    <2>1. cap = "behavioral" /\ cap' \in {"alerts", "crashed"} /\ learned' = learned /\ rows' = rows
        BY <1>5 DEF Behavioral, Dies
    <2> QED BY <2>1 DEF Handed
<1>6. CASE AlertSaved
    <2>1. /\ cap = "saving" /\ learned' = learned
          /\ cap' = "recent" \/ (cap' = "crashed" /\ rows' = rows)
        BY <1>6 DEF AlertSaved, Dies
    <2> QED BY <2>1 DEF Handed
<1>7. CASE \/ Packet \/ Check \/ UpdateBegins \/ SaveAlert \/ Count \/ Store \/ Stored
    <2>1. learned' = learned /\ rows' = rows
        BY <1>7 DEF Packet, Check, UpdateBegins, SaveAlert, Count, Store, Stored, state, history
    <2>2. \/ cap = "update" /\ cap' = "updating"
          \/ /\ cap \in CapturePlaces \ {"update", "updating", "crashed", "recent"}
             /\ cap' \in CapturePlaces \ {"update", "updating", "crashed"}
        BY <1>7 DEF Packet, Check, UpdateBegins, SaveAlert, Count, Store, Stored, CapturePlaces
    <2> QED BY <2>1, <2>2 DEF Handed
<1>8. CASE Stop \/ MainStep \/ Exited
    BY <1>8 DEF Stop, MainStep, Join, SerializeBegins, SerializeEnds, FinalStore, FinalStored,
                Close, Exited, vars, threads, state, history
<1>9. ASSUME NEW r \in Readers, Ask(r) \/ Serve(r)
      PROVE  cap' = cap /\ learned' = learned /\ rows' = rows
    BY <1>9, ReaderFrame
<1> QED BY <1>1, <1>2, <1>3, <1>4, <1>5, <1>6, <1>7, <1>8, <1>9 DEF Next, CaptureStep

\* The service lock is taken by status() alone, which changes nothing else
\* that it reads.
LEMMA TakesServiceLock ==
    ASSUME [Next]_vars, svcLock = Free, svcLock' # Free
    PROVE  UNCHANGED <<cap, learned, rows>>
<1>1. CASE UNCHANGED vars
    BY <1>1 DEF vars, threads, state, history
<1>2. CASE \/ Packet \/ ReadFails \/ CaptureStep \/ Stop \/ MainStep \/ Exited
    <2>1. svcLock' = svcLock
        BY <1>2 DEF CaptureStep, MainStep, Packet, ReadFails, Check, AppendWindow, UpdateBegins,
                    UpdateEnds, Behavioral, SaveAlert, AlertSaved, Recent, Count, Store, Stored,
                    Stop, Join, SerializeBegins, SerializeEnds, FinalStore, FinalStored, Close,
                    Exited, vars, threads
    <2> QED BY <2>1
<1>3. ASSUME NEW r \in Readers, Ask(r) \/ Serve(r)
      PROVE  UNCHANGED <<cap, learned, rows>>
    BY <1>3, ReaderFrame
<1> QED BY <1>1, <1>2, <1>3 DEF Next

LEMMA MomentStep ==
    ASSUME TInv, TInv', HeldMoment, [AskedNext]_askedVars
    PROVE  HeldMoment'
<1>1. [Next]_vars
    BY DEF AskedNext, askedVars
<1>2. CASE svcLock' = Free
    BY <1>2 DEF HeldMoment
<1>3. CASE svcLock = Free /\ svcLock' # Free
    <2>1. UNCHANGED <<cap, learned, rows>>
        BY <1>1, <1>3, TakesServiceLock
    <2>2. asked' = [health |-> Health(cap, learned), total |-> rows]
        BY <1>3 DEF AskedNext, askedVars, vars, threads
    <2> QED BY <2>1, <2>2 DEF HeldMoment
<1>4. CASE svcLock # Free
    <2>1. asked' = asked
        BY <1>4 DEF AskedNext, askedVars
    <2>2. ASSUME cap # "crashed", cap' # "crashed",
                 Handed(cap', learned') = Handed(cap, learned)
          PROVE  Health(cap', learned') = Health(cap, learned)
        BY <2>2 DEF Health
    <2> QED BY <1>1, <1>4, <2>1, <2>2, HeldSteps DEF HeldMoment
<1> QED BY <1>2, <1>3, <1>4

\* An answer of status() is true of one moment: its health and its number of
\* alerts are those of the moment the service lock was taken or those of the
\* moment the alerts are counted, although alerts are saved and the capture
\* thread dies in between.  What is saved and what is announced under the
\* service lock cannot both change (service.py:144-147, 155-159, 181-209).
THEOREM StatusIsOfOneMoment == AskedSpec => []OneMoment
<1>1. AskedInit => Init /\ HeldMoment
    BY DEF AskedInit, HeldMoment, Init
<1>2. AskedSpec => Spec
    <2>1. [AskedNext]_askedVars => [Next]_vars
        BY DEF AskedNext, askedVars
    <2> QED BY <1>1, <2>1, PTL DEF AskedSpec, Spec
<1>3. Spec => []TInv
    <2>1. TInv /\ [Next]_vars => TInv'
        BY TypeStep
    <2> QED BY <2>1, TypeInit, PTL DEF Spec
<1>4. TInv /\ TInv' /\ HeldMoment /\ [AskedNext]_askedVars => HeldMoment'
    BY MomentStep
<1>5. LInv /\ HeldMoment => OneMoment
    <2> SUFFICES ASSUME LInv, HeldMoment, NEW r \in Readers, req[r] = "total"
                 PROVE  asked.health = Health(cap, learned) \/ asked.total = rows
        BY DEF OneMoment
    <2>1. svcLock = r /\ r # Free
        BY ThreadsApart DEF LInv, LocksAreHeld, InService, Threads
    <2>2. CASE cap = "crashed"
        BY <2>1, <2>2 DEF HeldMoment
    <2> QED BY <2>1, <2>2 DEF HeldMoment
<1> QED BY <1>1, <1>2, <1>3, <1>4, <1>5, LocksInductive, PTL DEF AskedSpec
=============================================================================
