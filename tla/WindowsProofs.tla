---------------------------- MODULE WindowsProofs ----------------------------
(***************************************************************************)
(* Theorems about the window aggregator, for every window length and any   *)
(* packet times: every packet is counted once, in the window of the latest *)
(* time seen, which is its own unless the clock went back; the windows     *)
(* handed over ascend and cut the stream where it stands.                  *)
(***************************************************************************)
EXTENDS Windows, TLAPS

-----------------------------------------------------------------------------
(* Boundaries.                                                             *)

\* Aligned (features.py:146) is the last boundary that is not after ts.
LEMMA AlignedIsBoundary ==
    ASSUME NEW ts \in Nat
    PROVE  /\ Aligned(ts) \in Nat
           /\ Aligned(ts) <= ts
           /\ ts < Aligned(ts) + WindowLen
           /\ Boundary(Aligned(ts))
<1> DEFINE k == ts \div WindowLen
<1>1. k \in Nat /\ ts % WindowLen \in 0 .. WindowLen - 1
  BY WindowsAssumption, SMT
<1>2. ts = (k * WindowLen) + (ts % WindowLen)
  BY WindowsAssumption, SMT
<1>3. k * WindowLen \in Nat
  BY <1>1, WindowsAssumption, SMT
<1>4. Aligned(ts) = k * WindowLen
  BY <1>1, <1>2, <1>3, WindowsAssumption, SMT DEF Aligned
<1>5. k <= k * WindowLen
  BY <1>1, WindowsAssumption, SMT
<1> HIDE DEF k
<1>6. Boundary(Aligned(ts))
  BY <1>1, <1>3, <1>4, <1>5, SMT DEF Boundary
<1> QED
  BY <1>1, <1>2, <1>3, <1>4, <1>6, WindowsAssumption, SMT

\* No boundary lies strictly between one and the next.
LEMMA BoundariesApart ==
    ASSUME NEW a \in Nat, NEW b \in Nat, Boundary(a), Boundary(b),
           a < b
    PROVE  a + WindowLen <= b
<1>1. PICK i \in 0 .. a : a = i * WindowLen
  BY DEF Boundary
<1>2. PICK j \in 0 .. b : b = j * WindowLen
  BY DEF Boundary
<1>3. i \in Nat /\ j \in Nat /\ WindowLen \in Nat \ {0}
  BY WindowsAssumption, SMT
<1>4. i < j
  <2> SUFFICES ASSUME j <= i PROVE FALSE
    BY <1>3, SMT
  <2>1. j * WindowLen <= i * WindowLen
    BY <1>3, SMT
  <2> QED BY <2>1, <1>1, <1>2, SMT
<1>5. (i + 1) * WindowLen <= j * WindowLen
  BY <1>3, <1>4, SMT
<1>6. (i + 1) * WindowLen = (i * WindowLen) + WindowLen
  BY <1>3, SMT
<1> QED BY <1>1, <1>2, <1>5, <1>6, SMT

-----------------------------------------------------------------------------
(* Type correctness.                                                       *)

LEMMA AddTypes ==
    ASSUME TypeOK, NEW ts \in Nat, NEW file \in Files, Add(ts, file)
    PROVE  /\ start' \in Nat
           /\ bucket' \subseteq 1 .. Len(packets')
           /\ handed' \in Seq(Window)
           /\ packets' \in Seq(Packet)
           /\ Len(packets') = Len(packets) + 1
           /\ packets'[Len(packets) + 1] = [ts |-> ts, file |-> file]
           /\ \A p \in 1 .. Len(packets) : packets'[p] = packets[p]
<1> USE DEF TypeOK
<1>1. [ts |-> ts, file |-> file] \in Packet
  BY DEF Packet
<1>2. /\ packets' \in Seq(Packet)
      /\ Len(packets') = Len(packets) + 1
      /\ packets'[Len(packets) + 1] = [ts |-> ts, file |-> file]
      /\ \A p \in 1 .. Len(packets) : packets'[p] = packets[p]
  BY <1>1, SMT DEF Add
<1>3. Aligned(ts) \in Nat /\ Opened(ts) \in Nat
  BY AlignedIsBoundary, SMT DEF Opened, None
<1>4. start' \in Nat
  BY <1>3 DEF Add, NextStart
<1>5. Len(packets) \in Nat
  BY SMT
<1>6. bucket' \subseteq 1 .. Len(packets')
  <2>1. bucket' \subseteq bucket \union {Len(packets) + 1}
    BY DEF Add, Refilled
  <2> QED BY <1>2, <1>5, <2>1, SMT
<1>7. Closed(Opened(ts)) \in Window
  BY <1>3, <1>5, SMT DEF Closed, Window
<1>8. handed' \in Seq(Window)
  BY <1>7, SMT DEF Add
<1> QED BY <1>2, <1>4, <1>6, <1>8

LEMMA BaseIsTime ==
    ASSUME TypeOK, Len(packets) >= 1
    PROVE  Base \in Nat
<1>1. packets[Len(packets)] \in Packet
  BY SMT DEF TypeOK
<1> QED BY <1>1, WindowsAssumption, SMT DEF Base, Cursor, Packet

(* A window in progress has a start. *)
Open == start = None => bucket = {}

LEMMA TypeInit == Init => TypeOK /\ Open
<1> SUFFICES ASSUME Init PROVE TypeOK /\ Open
  OBVIOUS
<1>1. 1 \in Files
  BY WindowsAssumption, SMT DEF Files
<1>2. <<>> \in Seq(Window) /\ <<>> \in Seq(Packet)
  OBVIOUS
<1> QED BY <1>1, <1>2 DEF Init, TypeOK, Open

LEMMA AddOpens ==
    ASSUME TypeOK, NEW ts \in Nat, NEW file \in Files, Add(ts, file)
    PROVE  Open'
BY AddTypes, SMT DEF Open, None

LEMMA FlushTypes ==
    ASSUME TypeOK, Open, Flush
    PROVE  /\ start' \in Nat \union {None}
           /\ bucket' = {}
           /\ handed' \in Seq(Window)
<1>1. CASE bucket = {}
  BY <1>1 DEF Flush, TypeOK
<1>2. CASE bucket # {}
  <2>1. start \in Nat
    BY <1>2 DEF TypeOK, Open
  <2>2. Closed(start) \in Window
    BY <2>1, SMT DEF Closed, Window, TypeOK
  <2>3. handed' = Append(handed, Closed(start)) /\ bucket' = {} /\ start' = None
    BY <1>2 DEF Flush
  <2>4. handed' \in Seq(Window)
    BY <2>2, <2>3, SMT DEF TypeOK
  <2> QED BY <2>3, <2>4
<1> QED BY <1>1, <1>2

\* What an Add of the next step adds.
LEMMA NextAdds ==
    ASSUME TypeOK, Next
    PROVE  \/ \E ts \in Nat, file \in Files :
                 /\ Add(ts, file)
                 /\ running /\ running' /\ driver' = driver
                 /\ stopping' = stopping /\ source' = file
                 /\ \/ file = source
                    \/ /\ file = source + 1
                       /\ Len(packets) >= 1
                       /\ ts = Base
           \/ /\ Flush /\ ~running'
              /\ UNCHANGED <<driver, stopping, source, packets>>
           \/ /\ UNCHANGED <<start, bucket, handed, source, packets, driver>>
              /\ stopping' \in BOOLEAN
              /\ running' \in BOOLEAN /\ (running' => running)
              /\ driver = "replay" /\ ~running' => ~running
<1>1. CASE ReadPacket
  <2>1. PICK ts \in 0 .. MaxTime : Add(ts, source)
    BY <1>1 DEF ReadPacket
  <2>2. ts \in Nat /\ source \in Files
    BY WindowsAssumption, SMT DEF TypeOK
  <2> QED BY <1>1, <2>1, <2>2 DEF ReadPacket, Capturing
<1>2. CASE AskStop
  BY <1>2 DEF AskStop, Capturing, TypeOK
<1>3. CASE EndCapture
  BY <1>3 DEF EndCapture, Capturing, TypeOK
<1>4. CASE ReplayPacket
  <2>1. PICK ts \in 0 .. MaxTime : Replay(ts, source)
    BY <1>4 DEF ReplayPacket
  <2>2. ts \in Nat /\ source \in Files
    BY WindowsAssumption, SMT DEF TypeOK
  <2> QED BY <1>4, <2>1, <2>2 DEF ReplayPacket, Replaying, Replay
<1>5. CASE ReplayNextFile
  <2>1. Len(packets) >= 1
    BY <1>5, SMT DEF ReplayNextFile, TypeOK
  <2>2. Base \in Nat
    BY <2>1, BaseIsTime
  <2>3. source + 1 \in Files
    BY <1>5, WindowsAssumption, SMT DEF ReplayNextFile, TypeOK, Files
  <2> QED BY <1>5, <2>1, <2>2, <2>3 DEF ReplayNextFile, Replaying, Replay
<1>6. CASE EndReplay
  BY <1>6 DEF EndReplay
<1>7. CASE Ended
  BY <1>7 DEF Ended, vars, TypeOK
<1> QED BY <1>1, <1>2, <1>3, <1>4, <1>5, <1>6, <1>7 DEF Next

LEMMA TypeStep == TypeOK /\ Open /\ [Next]_vars => TypeOK' /\ Open'
<1> SUFFICES ASSUME TypeOK, Open, [Next]_vars PROVE TypeOK' /\ Open'
  OBVIOUS
<1>1. CASE UNCHANGED vars
  BY <1>1 DEF vars, TypeOK, Open
<1>2. CASE Next
  <2>1. ASSUME NEW ts \in Nat, NEW file \in Files, Add(ts, file),
               running' = running, driver' = driver, stopping' = stopping,
               source' = file
        PROVE  TypeOK' /\ Open'
    BY <2>1, AddTypes, AddOpens DEF TypeOK
  <2>2. ASSUME Flush, ~running', running' \in BOOLEAN,
               UNCHANGED <<driver, stopping, source, packets>>
        PROVE  TypeOK' /\ Open'
    BY <2>2, FlushTypes DEF TypeOK, Open
  <2>3. ASSUME UNCHANGED <<start, bucket, handed, source, packets, driver>>,
               stopping' \in BOOLEAN, running' \in BOOLEAN
        PROVE  TypeOK' /\ Open'
    BY <2>3 DEF TypeOK, Open
  <2>4. running' \in BOOLEAN
    BY <1>2 DEF Next, ReadPacket, AskStop, EndCapture, ReplayPacket,
                ReplayNextFile, Replay, EndReplay, Ended, vars, TypeOK
  <2> QED BY <1>2, NextAdds, <2>1, <2>2, <2>3, <2>4 DEF TypeOK
<1> QED BY <1>1, <1>2

\* The aggregator's state keeps its types, its counters hold packets it was
\* given, and what it hands over is windows of them (features.py:86-184).
THEOREM TypeCorrect == Spec => []TypeOK
<1>1. Spec => [](TypeOK /\ Open)
  BY TypeInit, TypeStep, PTL DEF Spec
<1> QED BY <1>1, PTL

-----------------------------------------------------------------------------
(* What the steps do to the windows.                                       *)

\* add() either closes the window in progress and starts the next with the
\* new packet, or counts the packet in the window in progress.
LEMMA AddCases ==
    ASSUME TypeOK, NEW ts \in Nat, NEW file \in Files, Add(ts, file)
    PROVE  \/ /\ Crosses(ts) /\ bucket # {}
              /\ Len(handed') = Len(handed) + 1
              /\ \A i \in Emitted : handed'[i] = handed[i]
              /\ handed'[Len(handed) + 1] = Closed(Opened(ts))
              /\ bucket' = {Len(packets) + 1}
           \/ /\ ~(Crosses(ts) /\ bucket # {})
              /\ handed' = handed
              /\ bucket' = bucket \union {Len(packets) + 1}
<1>1. CASE Crosses(ts) /\ bucket # {}
  <2>1. handed' = Append(handed, Closed(Opened(ts)))
    BY <1>1 DEF Add
  <2>2. handed \in Seq(Window)
    BY DEF TypeOK
  <2>3. /\ Len(handed') = Len(handed) + 1
        /\ \A i \in Emitted : handed'[i] = handed[i]
        /\ handed'[Len(handed) + 1] = Closed(Opened(ts))
    BY <2>1, <2>2, SMT DEF Emitted
  <2> QED BY <1>1, <2>3 DEF Add, Refilled
<1>2. CASE ~(Crosses(ts) /\ bucket # {})
  BY <1>2 DEF Add, Refilled
<1> QED BY <1>1, <1>2

LEMMA FlushCases ==
    ASSUME TypeOK, Flush
    PROVE  /\ bucket' = {}
           /\ \/ /\ bucket # {}
                 /\ Len(handed') = Len(handed) + 1
                 /\ \A i \in Emitted : handed'[i] = handed[i]
                 /\ handed'[Len(handed) + 1] = Closed(start)
              \/ /\ bucket = {}
                 /\ handed' = handed
<1>1. CASE bucket # {}
  <2>1. handed' = Append(handed, Closed(start)) /\ bucket' = {}
    BY <1>1 DEF Flush
  <2>2. handed \in Seq(Window)
    BY DEF TypeOK
  <2>3. /\ Len(handed') = Len(handed) + 1
        /\ \A i \in Emitted : handed'[i] = handed[i]
        /\ handed'[Len(handed) + 1] = Closed(start)
    BY <2>1, <2>2, SMT DEF Emitted
  <2> QED BY <1>1, <2>1, <2>3
<1>2. CASE bucket = {}
  BY <1>2 DEF Flush
<1> QED BY <1>1, <1>2

-----------------------------------------------------------------------------
(* Every packet once.                                                      *)

\* EveryPacketOnce, element by element.
Counted ==
    /\ \A p \in Ids : p \in bucket \/ \E i \in Emitted : p \in handed[i].content
    /\ \A i \in Emitted : handed[i].content \subseteq Ids
    /\ \A i \in Emitted, p \in bucket : p \notin handed[i].content
    /\ \A i, j \in Emitted : \A p \in handed[i].content :
           p \in handed[j].content => i = j
    /\ driver = "replay" /\ ~running => bucket = {}

LEMMA CountedInit == Init => Counted
BY SMT DEF Init, Counted, Ids, Emitted

\* Closing a window moves the packets of the bucket, no more and no fewer.
LEMMA CountedAdd ==
    ASSUME TypeOK, Counted, NEW ts \in Nat, NEW file \in Files, Add(ts, file),
           running, running'
    PROVE  Counted'
<1> DEFINE n == Len(packets) + 1
<1>1. Len(packets) \in Nat /\ Len(handed) \in Nat
  BY SMT DEF TypeOK
<1>2. Ids' = Ids \union {n} /\ n \notin Ids /\ bucket \subseteq Ids
  <2>1. Len(packets') = Len(packets) + 1
    BY AddTypes
  <2>2. bucket \subseteq 1 .. Len(packets)
    BY DEF TypeOK
  <2> QED BY <1>1, <2>1, <2>2, SMT DEF Ids
<1>3. CASE /\ Len(handed') = Len(handed) + 1
           /\ \A i \in Emitted : handed'[i] = handed[i]
           /\ handed'[Len(handed) + 1] = Closed(Opened(ts))
           /\ bucket' = {n}
  <2>1. Emitted' = Emitted \union {Len(handed) + 1}
        /\ Len(handed) + 1 \notin Emitted
    BY <1>1, <1>3, SMT DEF Emitted
  <2>2. handed'[Len(handed) + 1].content = bucket
    BY <1>3 DEF Closed
  <2> DEFINE last == Len(handed) + 1
  <2> HIDE DEF last, n
  <2>3. \A p \in Ids' : p \in bucket' \/ \E i \in Emitted' : p \in handed'[i].content
    BY <1>2, <1>3, <2>1, <2>2, Zenon DEF Counted, last
  <2>4. \A i \in Emitted' : handed'[i].content \subseteq Ids'
    BY <1>2, <1>3, <2>1, <2>2, Zenon DEF Counted, last
  <2>5. \A i \in Emitted', p \in bucket' : p \notin handed'[i].content
    BY <1>2, <1>3, <2>1, <2>2 DEF Counted, last
  <2>6. \A i, j \in Emitted' : \A p \in handed'[i].content :
            p \in handed'[j].content => i = j
    BY <1>2, <1>3, <2>1, <2>2 DEF Counted, last
  <2> QED BY <2>3, <2>4, <2>5, <2>6 DEF Counted
<1>4. CASE handed' = handed /\ bucket' = bucket \union {n}
  <2>1. Emitted' = Emitted
    BY <1>4 DEF Emitted
  <2> HIDE DEF n
  <2> QED BY <1>2, <1>4, <2>1 DEF Counted
<1> QED BY <1>3, <1>4, AddCases

LEMMA CountedFlush ==
    ASSUME TypeOK, Counted, Flush, UNCHANGED packets
    PROVE  Counted'
<1>1. Len(packets) \in Nat /\ Len(handed) \in Nat
  BY SMT DEF TypeOK
<1>2. Ids' = Ids /\ bucket \subseteq Ids
  BY DEF Ids, TypeOK
<1>3. CASE /\ Len(handed') = Len(handed) + 1
           /\ \A i \in Emitted : handed'[i] = handed[i]
           /\ handed'[Len(handed) + 1] = Closed(start)
           /\ bucket' = {}
  <2>1. Emitted' = Emitted \union {Len(handed) + 1}
        /\ Len(handed) + 1 \notin Emitted
    BY <1>1, <1>3, SMT DEF Emitted
  <2>2. handed'[Len(handed) + 1].content = bucket
    BY <1>3 DEF Closed
  <2> DEFINE last == Len(handed) + 1
  <2> HIDE DEF last
  <2>3. \A p \in Ids' : p \in bucket' \/ \E i \in Emitted' : p \in handed'[i].content
    BY <1>2, <1>3, <2>1, <2>2, Zenon DEF Counted, last
  <2>4. \A i \in Emitted' : handed'[i].content \subseteq Ids'
    BY <1>2, <1>3, <2>1, <2>2, Zenon DEF Counted, last
  <2>5. \A i, j \in Emitted' : \A p \in handed'[i].content :
            p \in handed'[j].content => i = j
    BY <1>2, <1>3, <2>1, <2>2 DEF Counted, last
  <2> QED BY <1>3, <2>3, <2>4, <2>5 DEF Counted
<1>4. CASE handed' = handed /\ bucket = {} /\ bucket' = {}
  BY <1>2, <1>4 DEF Counted, Emitted
<1> QED BY <1>3, <1>4, FlushCases

LEMMA CountedStep == TypeOK /\ Counted /\ [Next]_vars => Counted'
<1> SUFFICES ASSUME TypeOK, Counted, [Next]_vars PROVE Counted'
  OBVIOUS
<1>1. CASE UNCHANGED vars
  BY <1>1 DEF vars, Counted, Ids, Emitted
<1>2. CASE Next
  <2>1. ASSUME UNCHANGED <<start, bucket, handed, source, packets, driver>>,
               driver = "replay" /\ ~running' => ~running
        PROVE  Counted'
    BY <2>1 DEF Counted, Ids, Emitted
  <2> QED BY <1>2, NextAdds, CountedAdd, CountedFlush, <2>1
<1> QED BY <1>1, <1>2

\* Whatever the packets' clock does, add() counts each packet in one window,
\* and the replay hands all of them over (features.py:143-184).
THEOREM PacketsAreCountedOnce == Spec => []EveryPacketOnce
<1>1. TypeOK /\ Counted => EveryPacketOnce
  <2> SUFFICES ASSUME TypeOK, Counted PROVE EveryPacketOnce
    OBVIOUS
  <2>1. Ids \subseteq bucket \union UNION {handed[i].content : i \in Emitted}
    BY DEF Counted
  <2>2. UNION {handed[i].content : i \in Emitted} \subseteq Ids
    BY DEF Counted
  <2>3. bucket \subseteq Ids
    BY DEF TypeOK, Ids
  <2>4. /\ \A i \in Emitted : handed[i].content \intersect bucket = {}
        /\ \A i, j \in Emitted :
               i # j => handed[i].content \intersect handed[j].content = {}
    BY DEF Counted
  <2>5. Ids = bucket \union UNION {handed[i].content : i \in Emitted}
    BY <2>1, <2>2, <2>3
  <2> QED BY <2>4, <2>5 DEF Counted, EveryPacketOnce
<1> QED BY <1>1, TypeCorrect, CountedInit, CountedStep, PTL DEF Spec

-----------------------------------------------------------------------------
(* Windows are runs of the stream.                                         *)

\* Windows cut the stream where it stands: each holds later packets than the
\* ones before it, and the one in progress holds the latest of all, so what
\* still waits to be handed over is the end of the stream and nothing older.
WindowsAreRuns ==
    /\ \A i, j \in Emitted : i < j =>
           \A p \in handed[i].content, q \in handed[j].content : p < q
    /\ \A i \in Emitted : \A p \in handed[i].content, q \in bucket : p < q

LEMMA RunsInit == Init => WindowsAreRuns
BY SMT DEF Init, WindowsAreRuns, Emitted

\* The window that closes comes after the others, whatever follows it.
LEMMA RunsClose ==
    ASSUME TypeOK, WindowsAreRuns, NEW last, last = Len(handed) + 1,
           Len(handed') = Len(handed) + 1,
           \A i \in Emitted : handed'[i] = handed[i],
           handed'[last].content = bucket
    PROVE  /\ Emitted' = Emitted \union {last}
           /\ \A i, j \in Emitted' : i < j =>
                  \A p \in handed'[i].content, q \in handed'[j].content : p < q
<1>1. last \in Nat
  BY SMT DEF TypeOK
<1>2. Emitted' = Emitted \union {last} /\ \A i \in Emitted : i < last /\ i \in Nat
  BY <1>1, SMT DEF Emitted, TypeOK
<1>3. ASSUME NEW i \in Emitted', NEW j \in Emitted', i < j,
             NEW p \in handed'[i].content, NEW q \in handed'[j].content
      PROVE  p < q
  <2>1. i \in Emitted
    BY <1>1, <1>2, <1>3, SMT
  <2>2. CASE j \in Emitted
    BY <1>3, <2>1, <2>2 DEF WindowsAreRuns
  <2>3. CASE j = last
    BY <1>3, <2>1, <2>3 DEF WindowsAreRuns
  <2> QED BY <1>2, <2>2, <2>3
<1> QED BY <1>2, <1>3

LEMMA RunsAdd ==
    ASSUME TypeOK, Counted, WindowsAreRuns,
           NEW ts \in Nat, NEW file \in Files, Add(ts, file)
    PROVE  WindowsAreRuns'
<1> DEFINE n == Len(packets) + 1
           last == Len(handed) + 1
<1>1. \A p \in Ids : p < n
  BY SMT DEF TypeOK, Ids
<1>2. bucket \subseteq Ids /\ \A i \in Emitted : handed[i].content \subseteq Ids
  BY DEF TypeOK, Ids, Counted
<1>3. CASE /\ Len(handed') = Len(handed) + 1
           /\ \A i \in Emitted : handed'[i] = handed[i]
           /\ handed'[last] = Closed(Opened(ts))
           /\ bucket' = {n}
  <2>1. handed'[last].content = bucket
    BY <1>3 DEF Closed
  <2> HIDE DEF n
  <2>2. /\ Emitted' = Emitted \union {last}
        /\ \A i, j \in Emitted' : i < j =>
               \A p \in handed'[i].content, q \in handed'[j].content : p < q
    BY <1>3, <2>1, RunsClose
  <2>3. \A i \in Emitted' : handed'[i].content \subseteq Ids
    BY <1>2, <1>3, <2>1, <2>2
  <2> QED BY <1>1, <1>3, <2>2, <2>3 DEF WindowsAreRuns
<1>4. CASE handed' = handed /\ bucket' = bucket \union {n}
  <2> HIDE DEF n
  <2> QED BY <1>1, <1>2, <1>4 DEF WindowsAreRuns, Emitted
<1> QED BY <1>3, <1>4, AddCases

LEMMA RunsFlush ==
    ASSUME TypeOK, WindowsAreRuns, Flush
    PROVE  WindowsAreRuns'
<1>1. CASE /\ Len(handed') = Len(handed) + 1
           /\ \A i \in Emitted : handed'[i] = handed[i]
           /\ handed'[Len(handed) + 1] = Closed(start)
           /\ bucket' = {}
  <2>1. handed'[Len(handed) + 1].content = bucket
    BY <1>1 DEF Closed
  <2>2. \A i, j \in Emitted' : i < j =>
            \A p \in handed'[i].content, q \in handed'[j].content : p < q
    BY <1>1, <2>1, RunsClose
  <2> QED BY <1>1, <2>2 DEF WindowsAreRuns
<1>2. CASE handed' = handed /\ bucket' = {}
  BY <1>2 DEF WindowsAreRuns, Emitted
<1> QED BY <1>1, <1>2, FlushCases

LEMMA RunsStep == TypeOK /\ Counted /\ WindowsAreRuns /\ [Next]_vars => WindowsAreRuns'
<1> SUFFICES ASSUME TypeOK, Counted, WindowsAreRuns, [Next]_vars PROVE WindowsAreRuns'
  OBVIOUS
<1>1. ASSUME UNCHANGED <<bucket, handed>> PROVE WindowsAreRuns'
  BY <1>1 DEF WindowsAreRuns, Emitted
<1>2. CASE Next
  BY <1>1, <1>2, NextAdds, RunsAdd, RunsFlush
<1> QED BY <1>1, <1>2 DEF vars

\* What waits for a packet of a later window, and what a live stop discards,
\* is the end of the stream, never a part of it that older or newer packets
\* have overtaken (features.py:149-154, service.py:211-225).
THEOREM WindowsCutTheStream == Spec => []WindowsAreRuns
BY TypeCorrect, CountedInit, CountedStep, RunsInit, RunsStep, PTL DEF Spec

-----------------------------------------------------------------------------
(* The clock.                                                              *)

\* InWindowOfLatest for the packets s, so that it can be stated of two states.
Fits(s, p, at) ==
    /\ Boundary(at)
    /\ \E q \in 1 .. p : s[q].ts >= at
    /\ \A q \in 1 .. p : s[q].ts < at + WindowLen

\* The window in progress is that of the latest time; without one, a loop that
\* still runs has not read a packet.
Clock ==
    /\ start # None => Len(packets) >= 1 /\ Fits(packets, Len(packets), start)
    /\ start = None /\ running => Len(packets) = 0 /\ handed = <<>>

\* A window of the past stays the window of its packets.
LEMMA LatestIsKept ==
    ASSUME TypeOK, NEW ts \in Nat, NEW file \in Files, Add(ts, file),
           NEW p \in Ids, NEW at \in Nat, Fits(packets, p, at)
    PROVE  Fits(packets', p, at)
<1>1. \A q \in 1 .. p : q \in 1 .. Len(packets)
  BY SMT DEF Ids, TypeOK
<1>2. \A q \in 1 .. p : packets'[q] = packets[q]
  BY <1>1, AddTypes
<1> QED BY <1>2 DEF Fits, Boundary

LEMMA OpenedIsBoundary ==
    ASSUME TypeOK, Clock, NEW ts \in Nat
    PROVE  Opened(ts) \in Nat /\ Boundary(Opened(ts))
BY AlignedIsBoundary DEF Opened, Clock, Fits, TypeOK

LEMMA ClockAdd ==
    ASSUME TypeOK, Clock, running, NEW ts \in Nat, NEW file \in Files, Add(ts, file)
    PROVE  start' # None /\ Fits(packets', Len(packets'), start')
<1> DEFINE n == Len(packets) + 1
<1>1. /\ Len(packets) \in Nat /\ WindowLen \in Nat \ {0}
      /\ Len(packets') = n
      /\ packets'[n].ts = ts
      /\ \A q \in 1 .. Len(packets) : packets'[q] = packets[q]
  <2>1. Len(packets) \in Nat
    BY SMT DEF TypeOK
  <2>2. packets'[n].ts = ts
    <3>1. packets'[n] = [ts |-> ts, file |-> file]
      BY AddTypes
    <3> QED BY <3>1
  <2> QED BY <2>1, <2>2, AddTypes, WindowsAssumption
<1>2. \A q \in 1 .. Len(packets) : packets[q].ts \in Nat
  <2>1. \A q \in 1 .. Len(packets) : packets[q] \in Packet
    BY SMT DEF TypeOK
  <2> QED BY <2>1 DEF Packet
<1>3. /\ Aligned(ts) \in Nat /\ Aligned(ts) <= ts /\ ts < Aligned(ts) + WindowLen
      /\ Boundary(Aligned(ts))
  BY AlignedIsBoundary
<1>4. start' = NextStart(ts) /\ start' \in Nat
  BY AddTypes DEF Add
<1>5. \A q \in 1 .. Len(packets) : packets[q].ts < Opened(ts) + WindowLen
  <2>1. CASE start = None
    BY <1>1, <2>1, SMT DEF Clock
  <2>2. CASE start # None
    BY <2>2 DEF Clock, Fits, Opened
  <2> QED BY <2>1, <2>2
<1>6. Boundary(start')
  BY <1>3, <1>4, OpenedIsBoundary DEF NextStart
<1>7. Opened(ts) \in Nat
  BY OpenedIsBoundary
<1>8. CASE Crosses(ts)
  <2>1. start' = Aligned(ts) /\ ts >= Opened(ts) + WindowLen
    BY <1>4, <1>8 DEF NextStart, Crosses
  <2>2. packets'[n].ts >= start'
    BY <1>1, <1>3, <2>1
  <2>3. \A q \in 1 .. n : packets'[q].ts < start' + WindowLen
    BY <1>1, <1>2, <1>3, <1>5, <1>7, <2>1, SMT
  <2> QED BY <1>1, <1>4, <1>6, <2>2, <2>3, SMT DEF Fits, Boundary, None
<1>9. CASE ~Crosses(ts)
  <2>1. start' = Opened(ts) /\ ts < Opened(ts) + WindowLen
    BY <1>1, <1>4, <1>7, <1>9, SMT DEF NextStart, Crosses
  <2>2. \A q \in 1 .. n : packets'[q].ts < start' + WindowLen
    BY <1>1, <1>2, <1>5, <1>7, <2>1, SMT
  <2>3. \E q \in 1 .. n : packets'[q].ts >= start'
    <3>1. CASE start = None
      BY <1>1, <1>3, <2>1, <3>1, SMT DEF Opened
    <3>2. CASE start # None
      <4>1. PICK q \in 1 .. Len(packets) : packets[q].ts >= start
        BY <3>2 DEF Clock, Fits
      <4>2. start' = start
        BY <2>1, <3>2 DEF Opened
      <4> QED BY <1>1, <4>1, <4>2, SMT
    <3> QED BY <3>1, <3>2
  <2> QED BY <1>1, <1>4, <1>6, <2>2, <2>3, SMT DEF Fits, Boundary, None
<1> QED BY <1>8, <1>9

LEMMA ClockInit == Init => Clock
BY SMT DEF Init, Clock, None

LEMMA ClockStep == TypeOK /\ Clock /\ [Next]_vars => Clock'
<1> SUFFICES ASSUME TypeOK, Clock, [Next]_vars PROVE Clock'
  OBVIOUS
<1>1. CASE UNCHANGED vars
  BY <1>1 DEF vars, Clock, Fits, Boundary
<1>2. CASE Next
  <2>1. ASSUME NEW ts \in Nat, NEW file \in Files, Add(ts, file), running
        PROVE  Clock'
    <3>1. start' # None /\ Fits(packets', Len(packets'), start')
      BY <2>1, ClockAdd
    <3>2. Len(packets) \in Nat
      BY SMT DEF TypeOK
    <3>3. Len(packets') = Len(packets) + 1
      BY <2>1, AddTypes
    <3>4. Len(packets') >= 1
      BY <3>2, <3>3, SMT
    <3> QED BY <3>1, <3>4 DEF Clock
  <2>2. ASSUME Flush, ~running', UNCHANGED packets
        PROVE  Clock'
    BY <2>2 DEF Flush, Clock, Fits, Boundary
  <2>3. ASSUME UNCHANGED <<start, bucket, handed, source, packets, driver>>,
               running' => running
        PROVE  Clock'
    BY <2>3 DEF Clock, Fits, Boundary
  <2> QED BY <1>2, NextAdds, <2>1, <2>2, <2>3
<1> QED BY <1>1, <1>2

-----------------------------------------------------------------------------
(* Every packet in the window of the latest time.                          *)

Follow ==
    /\ \A i \in Emitted : /\ handed[i].start \in Nat
                          /\ \A p \in handed[i].content :
                                 Fits(packets, p, handed[i].start)
    /\ \A p \in bucket : Fits(packets, p, start)

LEMMA FollowInit == Init => Follow
BY SMT DEF Init, Follow, Emitted

LEMMA FollowAdd ==
    ASSUME TypeOK, Open, Clock, Counted, Follow, running,
           NEW ts \in Nat, NEW file \in Files, Add(ts, file)
    PROVE  Follow'
<1> DEFINE n == Len(packets) + 1
<1>1. Len(packets') = n
  BY AddTypes
<1>2. Fits(packets', n, start')
  BY <1>1, ClockAdd
<1>3. \A i \in Emitted : /\ handed[i].start \in Nat
                         /\ \A p \in handed[i].content :
                                Fits(packets', p, handed[i].start)
  BY LatestIsKept DEF Follow, Counted
<1>4. \A p \in bucket : start \in Nat /\ Fits(packets', p, start)
  <2> SUFFICES ASSUME NEW p \in bucket
               PROVE  start \in Nat /\ Fits(packets', p, start)
    OBVIOUS
  <2>1. start \in Nat /\ p \in Ids
    BY DEF TypeOK, Open, Ids
  <2> QED BY <2>1, LatestIsKept DEF Follow
<1>5. start' = NextStart(ts)
  BY DEF Add
<1> HIDE DEF n
<1>6. CASE /\ Crosses(ts) /\ bucket # {}
           /\ Len(handed') = Len(handed) + 1
           /\ \A i \in Emitted : handed'[i] = handed[i]
           /\ handed'[Len(handed) + 1] = Closed(Opened(ts))
           /\ bucket' = {n}
  <2>1. start # None /\ Opened(ts) = start /\ start \in Nat
    BY <1>6 DEF Open, Opened, TypeOK
  <2>2. /\ handed'[Len(handed) + 1].start = start
        /\ handed'[Len(handed) + 1].content = bucket
    BY <1>6, <2>1 DEF Closed
  <2>3. Len(handed) \in Nat
    BY SMT DEF TypeOK
  <2>4. Emitted' = Emitted \union {Len(handed) + 1}
    BY <1>6, <2>3, SMT DEF Emitted
  <2> QED BY <1>2, <1>3, <1>4, <1>6, <2>1, <2>2, <2>4 DEF Follow
<1>7. CASE /\ ~(Crosses(ts) /\ bucket # {})
           /\ handed' = handed
           /\ bucket' = bucket \union {n}
  <2>1. bucket # {} => start' = start
    BY <1>5, <1>7 DEF NextStart, Opened, Open
  <2> QED BY <1>2, <1>3, <1>4, <1>7, <2>1 DEF Follow, Emitted
<1> QED BY <1>6, <1>7, AddCases DEF n

LEMMA FollowFlush ==
    ASSUME TypeOK, Open, Follow, Flush, UNCHANGED packets
    PROVE  Follow'
<1>1. CASE /\ bucket # {}
           /\ Len(handed') = Len(handed) + 1
           /\ \A i \in Emitted : handed'[i] = handed[i]
           /\ handed'[Len(handed) + 1] = Closed(start)
           /\ bucket' = {}
  <2>1. start \in Nat
    BY <1>1 DEF Open, TypeOK
  <2>2. /\ handed'[Len(handed) + 1].start = start
        /\ handed'[Len(handed) + 1].content = bucket
    BY <1>1 DEF Closed
  <2>3. Len(handed) \in Nat
    BY SMT DEF TypeOK
  <2>4. Emitted' = Emitted \union {Len(handed) + 1}
    BY <1>1, <2>3, SMT DEF Emitted
  <2> QED BY <1>1, <2>1, <2>2, <2>4 DEF Follow
<1>2. CASE handed' = handed /\ bucket' = {}
  BY <1>2 DEF Follow, Emitted
<1> QED BY <1>1, <1>2, FlushCases

LEMMA FollowStep ==
    TypeOK /\ Open /\ Clock /\ Counted /\ Follow /\ [Next]_vars => Follow'
<1> SUFFICES ASSUME TypeOK, Open, Clock, Counted, Follow, [Next]_vars PROVE Follow'
  OBVIOUS
<1>1. CASE UNCHANGED vars
  BY <1>1 DEF vars, Follow, Emitted
<1>2. CASE Next
  <2>1. ASSUME UNCHANGED <<start, bucket, handed, source, packets, driver>>
        PROVE  Follow'
    BY <2>1 DEF Follow, Emitted
  <2> QED BY <1>2, NextAdds, FollowAdd, FollowFlush, <2>1
<1> QED BY <1>1, <1>2

\* No packet is counted in a window the clock has not reached, and none in one
\* the clock has left (features.py:149-152).
THEOREM WindowsFollowTheClock == Spec => []PacketsFollowTheLatestClock
<1>1. Follow => PacketsFollowTheLatestClock
  BY DEF Follow, PacketsFollowTheLatestClock, Fits, InWindowOfLatest
<1> QED BY <1>1, TypeInit, TypeStep, CountedInit, CountedStep, ClockInit, ClockStep,
           FollowInit, FollowStep, PTL DEF Spec

\* The clock had not gone back when p was read.
OnLatestClock(p) == \A q \in 1 .. p : packets[q].ts <= packets[p].ts

\* A packet on the latest clock is counted in the window its own time is in.
InTimeIsInPlace ==
    /\ \A i \in Emitted : \A p \in handed[i].content : OnLatestClock(p) =>
           packets[p].ts \in handed[i].start .. handed[i].start + WindowLen - 1
    /\ \A p \in bucket : OnLatestClock(p) =>
           packets[p].ts \in start .. start + WindowLen - 1

LEMMA FitsInPlace ==
    ASSUME TypeOK, NEW p \in Ids, NEW at \in Nat, Fits(packets, p, at), OnLatestClock(p)
    PROVE  packets[p].ts \in at .. at + WindowLen - 1
<1>1. PICK r \in 1 .. p : packets[r].ts >= at
  BY DEF Fits
<1>2. /\ WindowLen \in Nat \ {0}
      /\ \A k \in Ids : packets[k] \in Packet
      /\ p \in 1 .. p /\ r \in Ids
  BY WindowsAssumption, SMT DEF TypeOK, Ids
<1>3. packets[p].ts \in Nat /\ packets[r].ts \in Nat
  BY <1>2 DEF Packet
<1>4. packets[p].ts < at + WindowLen /\ packets[r].ts <= packets[p].ts
  BY <1>2 DEF Fits, OnLatestClock
<1> QED BY <1>1, <1>2, <1>3, <1>4, SMT

\* The window a packet is counted in is wrong only for one whose clock went
\* back: any other lies in the window its own time is in (features.py:146-154).
THEOREM PacketsInTimeAreInPlace == Spec => []InTimeIsInPlace
<1>1. TypeOK /\ Open /\ Counted /\ Follow => InTimeIsInPlace
  <2> SUFFICES ASSUME TypeOK, Open, Counted, Follow PROVE InTimeIsInPlace
    OBVIOUS
  <2>1. ASSUME NEW i \in Emitted, NEW p \in handed[i].content, OnLatestClock(p)
        PROVE  packets[p].ts \in handed[i].start .. handed[i].start + WindowLen - 1
    <3>1. p \in Ids
      BY DEF Counted
    <3>2. handed[i].start \in Nat /\ Fits(packets, p, handed[i].start)
      BY DEF Follow
    <3> QED BY <2>1, <3>1, <3>2, FitsInPlace
  <2>2. ASSUME NEW p \in bucket, OnLatestClock(p)
        PROVE  packets[p].ts \in start .. start + WindowLen - 1
    <3>1. p \in Ids /\ start \in Nat
      BY DEF TypeOK, Ids, Open
    <3>2. Fits(packets, p, start)
      BY DEF Follow
    <3> QED BY <2>2, <3>1, <3>2, FitsInPlace
  <2> QED BY <2>1, <2>2 DEF InTimeIsInPlace
<1> QED BY <1>1, TypeInit, TypeStep, CountedInit, CountedStep, ClockInit, ClockStep,
           FollowInit, FollowStep, PTL DEF Spec

-----------------------------------------------------------------------------
(* Windows ascend.                                                         *)

Ascend ==
    /\ \A i \in Emitted : handed[i].content # {} /\ handed[i].start \in Nat
    /\ \A i, j \in Emitted : i < j => handed[i].start + WindowLen <= handed[j].start
    /\ start # None => \A i \in Emitted : handed[i].start + WindowLen <= start

LEMMA AscendInit == Init => Ascend
BY SMT DEF Init, Ascend, Emitted

\* The next start is no earlier, and a whole window later when it moves.
LEMMA StartAdvances ==
    ASSUME TypeOK, Clock, NEW ts \in Nat, NEW file \in Files, Add(ts, file),
           start # None
    PROVE  /\ start \in Nat /\ start' \in Nat
           /\ \/ start' = start
              \/ start + WindowLen <= start'
           /\ Crosses(ts) => start + WindowLen <= start'
<1>1. start \in Nat /\ Opened(ts) = start /\ start' = NextStart(ts) /\ Boundary(start)
  BY DEF TypeOK, Opened, Add, Clock, Fits
<1>2. start' \in Nat /\ WindowLen \in Nat \ {0}
  BY AddTypes, WindowsAssumption
<1>3. CASE Crosses(ts)
  <2>1. ts >= start + WindowLen /\ start' = Aligned(ts)
    BY <1>1, <1>3 DEF Crosses, NextStart
  <2>2. /\ Aligned(ts) \in Nat /\ ts < Aligned(ts) + WindowLen
        /\ Boundary(Aligned(ts))
    BY AlignedIsBoundary
  <2>3. start < Aligned(ts)
    BY <1>1, <1>2, <2>1, <2>2, SMT
  <2>4. start + WindowLen <= Aligned(ts)
    BY <1>1, <2>2, <2>3, BoundariesApart
  <2> QED BY <1>1, <1>2, <2>1, <2>4
<1>4. CASE ~Crosses(ts)
  BY <1>1, <1>2, <1>4 DEF NextStart
<1> QED BY <1>3, <1>4

LEMMA AscendAdd ==
    ASSUME TypeOK, Open, Clock, Ascend, running,
           NEW ts \in Nat, NEW file \in Files, Add(ts, file)
    PROVE  Ascend'
<1>1. WindowLen \in Nat \ {0} /\ Len(handed) \in Nat
  BY WindowsAssumption, SMT DEF TypeOK
<1>2. CASE start = None
  <2>1. handed = <<>> /\ bucket = {}
    BY <1>2 DEF Clock, Open
  <2>2. handed' = <<>>
    BY <2>1, AddCases
  <2>3. Emitted' = {}
    BY <2>2, SMT DEF Emitted
  <2> QED BY <2>3 DEF Ascend
<1>3. CASE start # None
  <2>1. /\ start \in Nat /\ start' \in Nat
        /\ start' = start \/ start + WindowLen <= start'
        /\ Crosses(ts) => start + WindowLen <= start'
    BY <1>3, StartAdvances
  <2>2. \A i \in Emitted : /\ handed[i].start \in Nat
                           /\ handed[i].start + WindowLen <= start
                           /\ handed[i].start + WindowLen <= start'
    <3> SUFFICES ASSUME NEW i \in Emitted
                 PROVE  /\ handed[i].start \in Nat
                        /\ handed[i].start + WindowLen <= start
                        /\ handed[i].start + WindowLen <= start'
      OBVIOUS
    <3>1. handed[i].start \in Nat /\ handed[i].start + WindowLen <= start
      BY <1>3 DEF Ascend
    <3> QED BY <1>1, <2>1, <3>1, SMT
  <2>3. CASE /\ Crosses(ts) /\ bucket # {}
             /\ Len(handed') = Len(handed) + 1
             /\ \A i \in Emitted : handed'[i] = handed[i]
             /\ handed'[Len(handed) + 1] = Closed(Opened(ts))
    <3> DEFINE last == Len(handed) + 1
    <3>1. /\ handed'[last].start = start
          /\ handed'[last].content = bucket
      BY <1>3, <2>3 DEF Closed, Opened
    <3>2. Emitted' = Emitted \union {last} /\ \A i \in Emitted : i < last /\ i \in Nat
      BY <1>1, <2>3, SMT DEF Emitted
    <3>3. last \in Nat
      BY <1>1, SMT
    <3> HIDE DEF last
    <3>4. \A i \in Emitted' : handed'[i].content # {} /\ handed'[i].start \in Nat
      BY <2>1, <2>2, <2>3, <3>1, <3>2 DEF Ascend
    <3>5. \A i \in Emitted' : handed'[i].start + WindowLen <= start'
      BY <2>1, <2>2, <2>3, <3>1, <3>2
    <3>6. \A i, j \in Emitted' : i < j => handed'[i].start + WindowLen <= handed'[j].start
      <4> SUFFICES ASSUME NEW i \in Emitted', NEW j \in Emitted', i < j
                   PROVE  handed'[i].start + WindowLen <= handed'[j].start
        OBVIOUS
      <4>1. i \in Emitted
        BY <3>2, <3>3, SMT
      <4>2. CASE j \in Emitted
        BY <2>3, <4>1, <4>2 DEF Ascend
      <4>3. CASE j = last
        BY <2>2, <2>3, <3>1, <4>1, <4>3
      <4> QED BY <3>2, <4>2, <4>3
    <3> QED BY <3>4, <3>5, <3>6 DEF Ascend
  <2>4. CASE handed' = handed
    BY <2>2, <2>4 DEF Ascend, Emitted
  <2> QED BY <2>3, <2>4, AddCases
<1> QED BY <1>2, <1>3

LEMMA AscendFlush ==
    ASSUME TypeOK, Open, Ascend, Flush
    PROVE  Ascend'
<1>1. CASE /\ bucket # {}
           /\ Len(handed') = Len(handed) + 1
           /\ \A i \in Emitted : handed'[i] = handed[i]
           /\ handed'[Len(handed) + 1] = Closed(start)
  <2> DEFINE last == Len(handed) + 1
  <2>1. start \in Nat /\ start # None
    BY <1>1 DEF Open, TypeOK
  <2>2. handed'[last].start = start /\ handed'[last].content = bucket
    BY <1>1 DEF Closed
  <2>3. last \in Nat
    BY SMT DEF TypeOK
  <2>4. Emitted' = Emitted \union {last} /\ \A i \in Emitted : i < last /\ i \in Nat
    BY <1>1, <2>3, SMT DEF Emitted
  <2>5. start' = None
    BY <1>1 DEF Flush
  <2> HIDE DEF last
  <2>6. \A i \in Emitted' : handed'[i].content # {} /\ handed'[i].start \in Nat
    BY <1>1, <2>1, <2>2, <2>4 DEF Ascend
  <2>7. \A i, j \in Emitted' : i < j => handed'[i].start + WindowLen <= handed'[j].start
    <3> SUFFICES ASSUME NEW i \in Emitted', NEW j \in Emitted', i < j
                 PROVE  handed'[i].start + WindowLen <= handed'[j].start
      OBVIOUS
    <3>1. i \in Emitted
      BY <2>3, <2>4, SMT
    <3>2. CASE j \in Emitted
      BY <1>1, <3>1, <3>2 DEF Ascend
    <3>3. CASE j = last
      BY <1>1, <2>1, <2>2, <3>1, <3>3 DEF Ascend
    <3> QED BY <2>4, <3>2, <3>3
  <2> QED BY <2>5, <2>6, <2>7 DEF Ascend
<1>2. CASE bucket = {} /\ handed' = handed
  BY <1>2 DEF Flush, Ascend, Emitted
<1> QED BY <1>1, <1>2, FlushCases

LEMMA AscendStep ==
    TypeOK /\ Open /\ Clock /\ Ascend /\ [Next]_vars => Ascend'
<1> SUFFICES ASSUME TypeOK, Open, Clock, Ascend, [Next]_vars PROVE Ascend'
  OBVIOUS
<1>1. CASE UNCHANGED vars
  BY <1>1 DEF vars, Ascend, Emitted
<1>2. CASE Next
  <2>1. ASSUME UNCHANGED <<start, bucket, handed, source, packets, driver>>
        PROVE  Ascend'
    BY <2>1 DEF Ascend, Emitted
  <2> QED BY <1>2, NextAdds, AscendAdd, AscendFlush, <2>1
<1> QED BY <1>1, <1>2

\* The detectors never get an empty window, two windows of one time, or a
\* window earlier than one they had (features.py:149-152).
THEOREM WindowsAreAscending == Spec => []WindowsAscend
<1>1. Open /\ Ascend => WindowsAscend
  BY DEF Open, Ascend, WindowsAscend
<1> QED BY <1>1, TypeInit, TypeStep, ClockInit, ClockStep, AscendInit, AscendStep,
           PTL DEF Spec

-----------------------------------------------------------------------------
(* Files on one clock.                                                     *)

\* The last packet is of the current file, files follow each other, and where
\* a new one begins the clock is one window ahead of the packet before.
FilesFollow ==
    /\ Len(packets) >= 1 => packets[Len(packets)].file = source
    /\ \A p \in Ids : packets[p].file \in Nat /\ packets[p].file <= source
    /\ \A p, q \in Ids : packets[p].file < packets[q].file =>
           \E m \in p + 1 .. q : packets[m].ts = packets[m - 1].ts + WindowLen

LEMMA FilesInit == Init => FilesFollow
BY SMT DEF Init, FilesFollow, Ids

LEMMA FilesAdd ==
    ASSUME TypeOK, FilesFollow, NEW ts \in Nat, NEW file \in Files, Add(ts, file),
           source' = file,
           \/ file = source
           \/ file = source + 1 /\ Len(packets) >= 1 /\ ts = Base
    PROVE  FilesFollow'
<1> DEFINE n == Len(packets) + 1
<1>1. /\ Len(packets) \in Nat /\ file \in Nat /\ source \in Nat
      /\ n \in Nat /\ Len(packets) = n - 1
  BY SMT DEF TypeOK, Files
<1>2. Len(packets') = n /\ \A p \in Ids : packets'[p] = packets[p]
  BY AddTypes DEF Ids
<1>3. packets'[n] = [ts |-> ts, file |-> file]
  BY AddTypes
<1>4. packets'[n].ts = ts /\ packets'[n].file = file
  BY <1>3
<1>5. Ids = 1 .. n - 1 /\ Ids' = 1 .. n
  BY <1>1, <1>2 DEF Ids
<1> HIDE DEF n
<1>6. source <= file
  BY <1>1, SMT
<1>7. \A p \in Ids : packets[p].file \in Nat /\ packets[p].file <= source
  BY DEF FilesFollow
<1>8. \A p \in Ids' : packets'[p].file \in Nat /\ packets'[p].file <= file
  <2> SUFFICES ASSUME NEW p \in Ids'
               PROVE  packets'[p].file \in Nat /\ packets'[p].file <= file
    OBVIOUS
  <2>1. CASE p = n
    BY <1>1, <1>4, <2>1
  <2>2. CASE p \in Ids
    BY <1>1, <1>2, <1>6, <1>7, <2>2, SMT
  <2> QED BY <1>1, <1>5, <2>1, <2>2, SMT
<1>9. ASSUME NEW p \in Ids', NEW q \in Ids', packets'[p].file < packets'[q].file
      PROVE  \E m \in p + 1 .. q : packets'[m].ts = packets'[m - 1].ts + WindowLen
  <2>1. p # n
    <3> SUFFICES ASSUME p = n PROVE FALSE
      OBVIOUS
    <3> QED BY <1>1, <1>4, <1>8, <1>9, SMT
  <2>2. p \in Ids
    BY <1>1, <1>5, <2>1, SMT
  <2>3. ASSUME NEW r \in Ids, packets[p].file < packets[r].file
        PROVE  \E m \in p + 1 .. r : packets'[m].ts = packets'[m - 1].ts + WindowLen
    <3>1. PICK m \in p + 1 .. r : packets[m].ts = packets[m - 1].ts + WindowLen
      BY <2>2, <2>3 DEF FilesFollow
    <3>2. m \in Ids /\ m - 1 \in Ids
      BY <1>1, <1>5, <2>2, SMT
    <3> QED BY <1>2, <3>1, <3>2
  <2>4. CASE q \in Ids
    BY <1>2, <1>9, <2>2, <2>3, <2>4
  <2>5. CASE q = n /\ file = source
    <3>1. n - 1 \in Ids /\ packets[n - 1].file = source
      BY <1>1, <1>5, <2>2, SMT DEF FilesFollow
    <3>2. packets[p].file < packets[n - 1].file
      BY <1>2, <1>4, <1>9, <2>2, <2>5, <3>1
    <3>3. PICK m \in p + 1 .. n - 1 : packets'[m].ts = packets'[m - 1].ts + WindowLen
      BY <2>3, <3>1, <3>2
    <3>4. m \in p + 1 .. q
      BY <1>1, <1>5, <2>2, <2>5, SMT
    <3> QED BY <3>3, <3>4
  <2>6. CASE q = n /\ ts = Base /\ Len(packets) >= 1
    <3>1. n - 1 \in Ids /\ n \in p + 1 .. q
      BY <1>1, <1>5, <2>2, <2>6, SMT
    <3>2. Base = packets[n - 1].ts + WindowLen
      BY <1>1 DEF Base, Cursor
    <3>3. packets'[n].ts = packets'[n - 1].ts + WindowLen
      BY <1>2, <1>4, <2>6, <3>1, <3>2
    <3> QED BY <3>1, <3>3
  <2>7. q \in Ids \/ q = n
    BY <1>1, <1>5, SMT
  <2> QED BY <2>4, <2>5, <2>6, <2>7
<1>10. packets'[Len(packets')].file = source'
  BY <1>2, <1>4
<1> QED BY <1>8, <1>9, <1>10 DEF FilesFollow

LEMMA FilesStep == TypeOK /\ FilesFollow /\ [Next]_vars => FilesFollow'
<1> SUFFICES ASSUME TypeOK, FilesFollow, [Next]_vars PROVE FilesFollow'
  OBVIOUS
<1>1. ASSUME UNCHANGED <<source, packets>> PROVE FilesFollow'
  BY <1>1 DEF FilesFollow, Ids
<1>2. CASE Next
  BY <1>1, <1>2, NextAdds, FilesAdd
<1> QED BY <1>1, <1>2 DEF vars

\* Two packets of one window that lie in two files: the step of the clock
\* between the files leaves no room for both unless it had gone back.
LEMMA MixNeedsStepBack ==
    ASSUME TypeOK, FilesFollow, NEW p \in Ids, NEW q \in Ids, NEW at \in Nat,
           Fits(packets, p, at), Fits(packets, q, at),
           packets[p].file < packets[q].file
    PROVE  WentBackBefore(q - 1)
<1>1. PICK m \in p + 1 .. q : packets[m].ts = packets[m - 1].ts + WindowLen
  BY DEF FilesFollow
<1>2. PICK r \in 1 .. p : packets[r].ts >= at
  BY DEF Fits
<1>3. /\ Len(packets) \in Nat /\ WindowLen \in Nat \ {0}
      /\ \A k \in Ids : packets[k] \in Packet
  BY WindowsAssumption, SMT DEF TypeOK, Ids
<1>4. /\ m \in 1 .. q /\ m \in Ids /\ m - 1 \in Ids /\ r \in Ids
      /\ r \in 1 .. q - 1 /\ m - 1 \in 1 .. q - 1 /\ r <= m - 1
  BY <1>1, <1>2, <1>3, SMT DEF Ids
<1>5. packets[m].ts < at + WindowLen
  BY <1>4 DEF Fits
<1>6. /\ packets[m].ts \in Nat /\ packets[m - 1].ts \in Nat /\ packets[r].ts \in Nat
  BY <1>3, <1>4 DEF Packet
<1>7. packets[m - 1].ts < packets[r].ts
  BY <1>1, <1>2, <1>3, <1>5, <1>6, SMT
<1>8. r # m - 1
  BY <1>6, <1>7, SMT
<1>9. r < m - 1
  BY <1>4, <1>8, SMT DEF Ids
<1> QED BY <1>4, <1>7, <1>9, SMT DEF WentBackBefore

\* The replay keeps its files apart: a window holds packets of two files only
\* if the clock of one of them went back (replay_pcap.py:77).
THEOREM FilesStayApart == Spec => []FilesMixOnlyAfterStepBack
<1>1. TypeOK /\ Counted /\ Follow /\ FilesFollow => FilesMixOnlyAfterStepBack
  <2> SUFFICES ASSUME TypeOK, Counted, Follow, FilesFollow,
                      NEW i \in Emitted, NEW p \in handed[i].content,
                      NEW q \in handed[i].content,
                      packets[p].file < packets[q].file
               PROVE  WentBackBefore(q - 1)
    BY DEF FilesMixOnlyAfterStepBack
  <2>1. p \in Ids /\ q \in Ids
    BY DEF Counted
  <2>2. /\ handed[i].start \in Nat
        /\ Fits(packets, p, handed[i].start)
        /\ Fits(packets, q, handed[i].start)
    BY DEF Follow
  <2> QED BY <2>1, <2>2, MixNeedsStepBack
<1> QED BY <1>1, TypeInit, TypeStep, CountedInit, CountedStep, ClockInit, ClockStep,
           FollowInit, FollowStep, FilesInit, FilesStep, PTL DEF Spec
=============================================================================
