------------------------------- MODULE Windows -------------------------------
(***************************************************************************)
(* features.py: WindowAggregator, which cuts a stream of packets into      *)
(* windows by the packets' own clock, under its two drivers: the capture   *)
(* thread (service.py: _run over the Npcap iterator), which never flushes  *)
(* it, and scripts/replay_pcap.py, which reads several files on one clock. *)
(*                                                                         *)
(* The counters of a window are functions of the packets in it, so a       *)
(* window is the set of their positions in the stream.  A packet is its    *)
(* time and its file.  Times are free: nothing orders those of a capture.  *)
(***************************************************************************)
EXTENDS Integers, Sequences, FiniteSets

CONSTANTS
    WindowLen,   \* window_ns
    MaxTime,     \* bound: latest time of a packet that is not placed by cursor
    MaxPackets,  \* bound: packets read
    MaxFiles     \* bound: pcap files replayed

ASSUME WindowsAssumption ==
    /\ WindowLen \in Nat \ {0}
    /\ MaxTime \in Nat
    /\ MaxPackets \in Nat
    /\ MaxFiles \in Nat \ {0}

VARIABLES
    driver,    \* "live" or "replay"
    running,   \* the driver's loop goes on
    stopping,  \* _stop_evt of a live service
    start,     \* _window_start_ns, or None
    bucket,    \* the packets the counters hold
    handed,    \* windows given to the detectors, oldest first
    source,    \* cur_src, the file a replay reads
    packets    \* history: packets given to add()

vars == <<driver, running, stopping, start, bucket, handed, source, packets>>

None == -1
Files == 1 .. MaxFiles
Packet == [ts : Nat, file : Files]
Window == [start : Nat, content : SUBSET Nat]

TypeOK ==
    /\ driver \in {"live", "replay"}
    /\ running \in BOOLEAN
    /\ stopping \in BOOLEAN
    /\ start \in Nat \union {None}
    /\ bucket \subseteq 1 .. Len(packets)
    /\ handed \in Seq(Window)
    /\ source \in Files
    /\ packets \in Seq(Packet)

Init ==
    /\ driver \in {"live", "replay"}
    /\ running = TRUE
    /\ stopping = FALSE
    /\ start = None
    /\ bucket = {}
    /\ handed = <<>>
    /\ source = 1
    /\ packets = <<>>

-----------------------------------------------------------------------------
(* The aggregator.                                                         *)

\* The boundary at or before ts.
Aligned(ts) == ts - (ts % WindowLen)

Opened(ts) == IF start = None THEN Aligned(ts) ELSE start

\* Slip: a window for every change of boundary, backwards too.
CrossesEitherWay(ts) == Aligned(ts) # Opened(ts)

Crosses(ts) == ts >= Opened(ts) + WindowLen

\* Slip: the next window starts where the last one ended.
NextStartAdjoins(ts) ==
    IF Crosses(ts) THEN Opened(ts) + WindowLen ELSE Opened(ts)

NextStart(ts) == IF Crosses(ts) THEN Aligned(ts) ELSE Opened(ts)

\* Slip: the counters are reset after the packet was counted.
RefilledEarly(ts, id) == IF Crosses(ts) THEN {} ELSE bucket \union {id}

\* The counters hold the packet that closed the window, not the window's.
Refilled(ts, id) == (IF Crosses(ts) THEN {} ELSE bucket) \union {id}

Closed(at) == [start |-> at, content |-> bucket]

Add(ts, file) ==
    /\ packets' = Append(packets, [ts |-> ts, file |-> file])
    /\ start' = NextStart(ts)
    /\ bucket' = Refilled(ts, Len(packets) + 1)
    /\ handed' = IF Crosses(ts) /\ bucket # {}
                   THEN Append(handed, Closed(Opened(ts)))
                   ELSE handed

\* Slip: reset before the window is built.
FlushResetFirst ==
    IF bucket = {}
      THEN UNCHANGED <<start, bucket, handed>>
      ELSE /\ start' = None
           /\ bucket' = {}
           /\ handed' = Append(handed, Closed(start'))

Flush ==
    IF bucket = {}
      THEN UNCHANGED <<start, bucket, handed>>
      ELSE /\ handed' = Append(handed, Closed(start))
           /\ bucket' = {}
           /\ start' = None

-----------------------------------------------------------------------------
(* The live driver.                                                        *)

Capturing == driver = "live" /\ running

ReadPacket ==
    /\ Capturing
    /\ ~stopping
    /\ Len(packets) < MaxPackets
    /\ \E ts \in 0 .. MaxTime : Add(ts, source)
    /\ UNCHANGED <<driver, running, stopping, source>>

AskStop ==
    /\ Capturing
    /\ ~stopping
    /\ stopping' = TRUE
    /\ UNCHANGED <<driver, running, start, bucket, handed, source, packets>>

\* The first packet after the stop ends the loop and is not added; an
\* iterator that raises ends it at any time.
EndCapture ==
    /\ Capturing
    /\ running' = FALSE
    /\ UNCHANGED <<driver, stopping, start, bucket, handed, source, packets>>

-----------------------------------------------------------------------------
(* The replay driver, whose windows last one second.                       *)

Replaying == driver = "replay" /\ running

Cursor == packets[Len(packets)].ts

\* One second after the last packet of the files before.
Base == Cursor + WindowLen

Replay(ts, file) ==
    /\ source' = file
    /\ Add(ts, file)
    /\ UNCHANGED <<driver, running, stopping>>

ReplayPacket ==
    /\ Replaying
    /\ Len(packets) < MaxPackets
    /\ \E ts \in 0 .. MaxTime : Replay(ts, source)

ReplayNextFile ==
    /\ Replaying
    /\ Len(packets) \in 1 .. (MaxPackets - 1)
    /\ source < MaxFiles
    /\ Replay(Base, source + 1)

EndReplay ==
    /\ Replaying
    /\ Flush
    /\ running' = FALSE
    /\ UNCHANGED <<driver, stopping, source, packets>>

-----------------------------------------------------------------------------

Ended ==
    /\ ~running
    /\ UNCHANGED vars

Next ==
    \/ ReadPacket \/ AskStop \/ EndCapture
    \/ ReplayPacket \/ ReplayNextFile \/ EndReplay
    \/ Ended

Spec == Init /\ [][Next]_vars

-----------------------------------------------------------------------------
(* Properties.                                                             *)

Ids == 1 .. Len(packets)
Emitted == 1 .. Len(handed)

\* Every packet given to add() is counted in exactly one window, a handed one
\* or the one in progress, whichever way the clock moves (features.py:149-154);
\* a replay that has ended has handed all of them (replay_pcap.py:113).
EveryPacketOnce ==
    /\ Ids = bucket \union UNION {handed[i].content : i \in Emitted}
    /\ \A i \in Emitted : handed[i].content \intersect bucket = {}
    /\ \A i, j \in Emitted :
           i # j => handed[i].content \intersect handed[j].content = {}
    /\ driver = "replay" /\ ~running => bucket = {}

\* A multiple of the window's length.
Boundary(at) == \E k \in 0 .. at : at = k * WindowLen

\* A packet is of the window that starts at `at`: at is a boundary, the clock
\* had reached it by that packet, and had never reached the window's end.
InWindowOfLatest(p, at) ==
    /\ Boundary(at)
    /\ \E q \in 1 .. p : packets[q].ts >= at
    /\ \A q \in 1 .. p : packets[q].ts < at + WindowLen

\* A packet is counted in the window of the latest time seen so far: a packet
\* whose clock went back joins the window in progress, and no window is
\* reopened (features.py:149-154).
PacketsFollowTheLatestClock ==
    /\ \A i \in Emitted : \A p \in handed[i].content :
           InWindowOfLatest(p, handed[i].start)
    /\ \A p \in bucket : InWindowOfLatest(p, start)

\* The detectors get non-empty windows, each later than the one before and
\* earlier than the one in progress, so that no two share a window_end_ns
\* (what behavioral.py:263 takes for granted).
WindowsAscend ==
    /\ \A i \in Emitted : handed[i].content # {}
    /\ \A i, j \in Emitted : i < j => handed[i].start + WindowLen <= handed[j].start
    /\ bucket # {} =>
         \A i \in Emitted : handed[i].start + WindowLen <= start

WentBackBefore(p) == \E q, r \in 1 .. p : q < r /\ packets[q].ts > packets[r].ts

\* Packets of two files share a window only if the clock of an earlier file
\* went back: the second between the files keeps a baseline trained on one
\* apart from the other (replay_pcap.py:64-65, 77).
FilesMixOnlyAfterStepBack ==
    \A i \in Emitted : \A p, q \in handed[i].content :
        packets[p].file < packets[q].file => WentBackBefore(q - 1)
=============================================================================
