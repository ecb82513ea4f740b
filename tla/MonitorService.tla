--------------------------- MODULE MonitorService ---------------------------
(***************************************************************************)
(* service.py: MonitorService, and the locking of storage.py: AlertStore.  *)
(*                                                                         *)
(* Threads: the capture thread (_run), the main thread (stop(), called by  *)
(* the shutdown hook of web/app.py) and one thread per HTTP request in     *)
(* flight.  Shared: the detector, which has no lock, the service lock, the *)
(* alert store behind a lock of its own, the stop event.                   *)
(*                                                                         *)
(* A critical section that takes no second lock is one step, enabled when  *)
(* the lock is free; the writes of the store, which may fail or take long, *)
(* and status(), which takes the store's lock inside the service's, hold   *)
(* their locks between steps.  A pass over the detector's dictionaries is  *)
(* two steps, its first and its last next().                               *)
(*                                                                         *)
(* The detector is one with serialize(), that is AdaptiveDetector; it is   *)
(* the number of windows it has learned and of the keys of its             *)
(* dictionaries.  What the windows and the alerts are is left out.         *)
(***************************************************************************)
EXTENDS Integers, FiniteSets

CONSTANTS
    Readers,       \* request threads
    Capture, Main, \* the other two
    Free,          \* nobody: a lock that is not held
    SaveInterval,  \* max(1, baseline_save_interval)
    MaxAlerts,     \* bound: alerts of one window
    MaxKeys,       \* bound: keys of the detector's dictionaries
    MaxWindows,    \* bound: windows closed
    MaxFailures    \* bound: failed writes

ASSUME ServiceAssumption ==
    /\ Capture \notin Readers /\ Main \notin Readers /\ Capture # Main
    /\ Free \notin Readers \union {Capture, Main}
    /\ SaveInterval \in Nat \ {0}
    /\ {MaxAlerts, MaxKeys, MaxWindows, MaxFailures} \subseteq Nat

VARIABLES
    cap,         \* where the capture thread is
    main,        \* where the main thread is
    req,         \* where each request thread is
    svcLock,     \* MonitorService._lock
    dbLock,      \* AlertStore._lock
    stopEvt,     \* _stop_evt
    closed,      \* the stores that are closed
    learned,     \* windows the detector has learned
    keys,        \* keys of the detector's dictionaries
    snapKeys,    \* of each thread inside a pass over them: keys when it began
    pending,     \* alerts of the window not written yet
    sinceSave,   \* _windows_since_save
    copy,        \* the snapshot main serialized: windows learned in it
    saved        \* the snapshot in detector_state: windows learned in it

\* History.
VARIABLES
    rows,      \* alerts written
    raised,    \* alerts the detectors returned
    failures,  \* writes of the store that failed while it was open
    lostSaves, \* snapshots not written, since the last one written
    joined,    \* how join() in stop() returned: "no", "yes", "timeout"
    answer     \* of each request thread: how its last request ended

threads == <<cap, main, req, svcLock, dbLock, stopEvt, closed>>
state == <<learned, keys, snapKeys, pending, sinceSave, copy, saved>>
history == <<rows, raised, failures, lostSaves, joined, answer>>
vars == <<threads, state, history>>

Requests == {"status", "windows", "baseline", "alerts"}

CaptureAlive == cap \notin {"done", "crashed"}

Init ==
    /\ cap = "read"
    /\ main = "serving"
    /\ req = [r \in Readers |-> "idle"]
    /\ svcLock = Free /\ dbLock = Free
    /\ stopEvt = FALSE
    /\ closed = {}
    /\ learned = 0 /\ keys = 0
    /\ snapKeys = [t \in Readers \union {Main} |-> 0]
    /\ pending = 0 /\ sinceSave = 0 /\ copy = 0 /\ saved = 0
    /\ rows = 0 /\ raised = 0 /\ failures = 0 /\ lostSaves = 0
    /\ joined = "no"
    /\ answer = [r \in Readers |-> "ok"]

-----------------------------------------------------------------------------
(* The capture thread.                                                     *)

\* Stays in pcap_next_ex() until the wire carries a packet, or fails there.
Packet ==
    /\ cap = "read"
    /\ cap' = "check"
    /\ UNCHANGED <<main, req, svcLock, dbLock, stopEvt, closed, state, history>>

ReadFails ==
    /\ cap = "read"
    /\ cap' = "crashed"
    /\ UNCHANGED <<main, req, svcLock, dbLock, stopEvt, closed, state, history>>

\* The stop event is looked at once per packet; the packet may close a window.
Check ==
    /\ cap = "check"
    /\ IF stopEvt
       THEN cap' = "done"
       ELSE \/ cap' = "read"
            \/ learned < MaxWindows /\ cap' = "append"
    /\ UNCHANGED <<main, req, svcLock, dbLock, stopEvt, closed, state, history>>

AppendWindow ==
    /\ cap = "append"
    /\ svcLock = Free
    /\ cap' = "update"
    /\ UNCHANGED <<main, req, svcLock, dbLock, stopEvt, closed, state, history>>

\* detector.update(), without a lock: a new bucket or feature adds a key.
UpdateBegins ==
    /\ cap = "update"
    /\ cap' = "updating"
    /\ keys' \in {keys, keys + 1} \intersect 0..MaxKeys
    /\ UNCHANGED <<main, req, svcLock, dbLock, stopEvt, closed, history,
                   learned, snapKeys, pending, sinceSave, copy, saved>>

UpdateEnds ==
    /\ cap = "updating"
    /\ cap' = "behavioral"
    /\ learned' = learned + 1
    /\ \E n \in 0..MaxAlerts : pending' = n /\ raised' = raised + n
    /\ UNCHANGED <<main, req, svcLock, dbLock, stopEvt, closed, keys, snapKeys,
                   sinceSave, copy, saved, rows, failures, lostSaves, joined, answer>>

\* An exception ends _run(): the alerts of the window not yet written are lost.
Dies ==
    /\ cap' = "crashed"
    /\ pending' = 0

\* The behavioural detectors write what they learn, if anything, through their
\* own store, which may fail or be closed.
Behavioral ==
    /\ cap = "behavioral"
    /\ \/ /\ cap' = "alerts"
          /\ UNCHANGED <<pending, failures>>
       \/ /\ "dest" \in closed
          /\ Dies
          /\ UNCHANGED failures
       \/ /\ failures < MaxFailures
          /\ failures' = failures + 1
          /\ Dies
    /\ UNCHANGED <<main, req, svcLock, dbLock, stopEvt, closed, learned, keys, snapKeys,
                   sinceSave, copy, saved, rows, raised, lostSaves, joined, answer>>

\* save_alert(), alert by alert, each followed by its copy in _recent_alerts.
SaveAlert ==
    /\ cap = "alerts"
    /\ pending > 0
    /\ dbLock = Free
    /\ dbLock' = Capture
    /\ cap' = "saving"
    /\ UNCHANGED <<main, req, svcLock, stopEvt, closed, state, history>>

AlertSaved ==
    /\ cap = "saving"
    /\ dbLock' = Free
    /\ \/ /\ "alerts" \notin closed
          /\ cap' = "recent"
          /\ rows' = rows + 1
          /\ pending' = pending - 1
          /\ UNCHANGED failures
       \/ /\ "alerts" \in closed
          /\ Dies
          /\ UNCHANGED <<rows, failures>>
       \/ /\ failures < MaxFailures
          /\ failures' = failures + 1
          /\ Dies
          /\ UNCHANGED rows
    /\ UNCHANGED <<main, req, svcLock, stopEvt, closed, learned, keys, snapKeys,
                   sinceSave, copy, saved, raised, lostSaves, joined, answer>>

Recent ==
    /\ cap = "recent"
    /\ svcLock = Free
    /\ cap' = "alerts"
    /\ UNCHANGED <<main, req, svcLock, dbLock, stopEvt, closed, state, history>>

\* Slip: the counter is compared before it counts the window.
CountLate ==
    /\ cap = "alerts"
    /\ pending = 0
    /\ IF sinceSave >= SaveInterval
       THEN cap' = "store" /\ sinceSave' = 0
       ELSE cap' = "read" /\ sinceSave' = sinceSave + 1
    /\ UNCHANGED <<main, req, svcLock, dbLock, stopEvt, closed, history,
                   learned, keys, snapKeys, pending, copy, saved>>

\* The end of _handle_window(): every SaveInterval windows the state is saved,
\* and the count starts again before it is known whether it was.
Count ==
    /\ cap = "alerts"
    /\ pending = 0
    /\ IF sinceSave + 1 >= SaveInterval
       THEN cap' = "store" /\ sinceSave' = 0
       ELSE cap' = "read" /\ sinceSave' = sinceSave + 1
    /\ UNCHANGED <<main, req, svcLock, dbLock, stopEvt, closed, history,
                   learned, keys, snapKeys, pending, copy, saved>>

\* _save_detector_state() in this thread: nothing learns meanwhile.
Store ==
    /\ cap = "store"
    /\ dbLock = Free
    /\ dbLock' = Capture
    /\ cap' = "storing"
    /\ UNCHANGED <<main, req, svcLock, stopEvt, closed, state, history>>

\* What save_detector_state() leaves in the table when asked to write snapshot.
\* An exception is logged and swallowed.
Written(snapshot) ==
    \/ /\ "alerts" \notin closed
       /\ saved' = snapshot
       /\ lostSaves' = 0
       /\ UNCHANGED failures
    \/ /\ "alerts" \in closed
       /\ lostSaves' = lostSaves + 1
       /\ UNCHANGED <<saved, failures>>
    \/ /\ failures < MaxFailures
       /\ failures' = failures + 1
       /\ lostSaves' = lostSaves + 1
       /\ UNCHANGED saved

Stored ==
    /\ cap = "storing"
    /\ dbLock' = Free
    /\ cap' = "read"
    /\ Written(learned)
    /\ UNCHANGED <<main, req, svcLock, stopEvt, closed, learned, keys, snapKeys,
                   pending, sinceSave, copy, rows, raised, joined, answer>>

-----------------------------------------------------------------------------
(* The main thread: stop().                                                *)

\* The server calls the shutdown hook once the requests in flight are served.
Stop ==
    /\ main = "serving"
    /\ \A r \in Readers : req[r] = "idle"
    /\ stopEvt' = TRUE
    /\ main' = "joining"
    /\ UNCHANGED <<cap, req, svcLock, dbLock, closed, state, history>>

\* Slips: join() without a timeout, and no join() at all.
JoinForever ==
    /\ main = "joining"
    /\ ~ CaptureAlive
    /\ joined' = "yes"
    /\ main' = "serialize"
    /\ UNCHANGED <<cap, req, svcLock, dbLock, stopEvt, closed, state,
                   rows, raised, failures, lostSaves, answer>>

JoinAtOnce ==
    /\ main = "joining"
    /\ joined' = "yes"
    /\ main' = "serialize"
    /\ UNCHANGED <<cap, req, svcLock, dbLock, stopEvt, closed, state,
                   rows, raised, failures, lostSaves, answer>>

\* join(timeout=3.0): the thread ended, or the time is over.
Join ==
    /\ main = "joining"
    /\ joined' = IF CaptureAlive THEN "timeout" ELSE "yes"
    /\ main' = "serialize"
    /\ UNCHANGED <<cap, req, svcLock, dbLock, stopEvt, closed, state,
                   rows, raised, failures, lostSaves, answer>>

SerializeBegins ==
    /\ main = "serialize"
    /\ main' = "serializing"
    /\ snapKeys' = [snapKeys EXCEPT ![Main] = keys]
    /\ copy' = learned
    /\ UNCHANGED <<cap, req, svcLock, dbLock, stopEvt, closed, history,
                   learned, keys, pending, sinceSave, saved>>

\* A key added during the pass ends it with a RuntimeError, which
\* _save_detector_state() swallows.
SerializeEnds ==
    /\ main = "serializing"
    /\ IF keys = snapKeys[Main]
       THEN main' = "store" /\ UNCHANGED lostSaves
       ELSE main' = "close" /\ lostSaves' = lostSaves + 1
    /\ UNCHANGED <<cap, req, svcLock, dbLock, stopEvt, closed, state,
                   rows, raised, failures, joined, answer>>

FinalStore ==
    /\ main = "store"
    /\ dbLock = Free
    /\ dbLock' = Main
    /\ main' = "storing"
    /\ UNCHANGED <<cap, req, svcLock, stopEvt, closed, state, history>>

FinalStored ==
    /\ main = "storing"
    /\ dbLock' = Free
    /\ main' = "close"
    /\ Written(copy)
    /\ UNCHANGED <<cap, req, svcLock, stopEvt, closed, learned, keys, snapKeys,
                   pending, sinceSave, copy, rows, raised, joined, answer>>

Close ==
    /\ \/ main = "close" /\ dbLock = Free /\ closed' = {"alerts"} /\ main' = "closeDest"
       \/ main = "closeDest" /\ closed' = {"alerts", "dest"} /\ main' = "stopped"
    /\ UNCHANGED <<cap, req, svcLock, dbLock, stopEvt, state, history>>

Exited ==
    /\ main = "stopped"
    /\ UNCHANGED vars

-----------------------------------------------------------------------------
(* The requests.                                                           *)

At(r, place) == req' = [req EXCEPT ![r] = place]

Answers(r, how) == At(r, "idle") /\ answer' = [answer EXCEPT ![r] = how]

Ask(r) ==
    /\ main = "serving"
    /\ req[r] = "idle"
    /\ \E q \in Requests : At(r, q)
    /\ UNCHANGED <<cap, main, svcLock, dbLock, stopEvt, closed, state, history>>

\* windows() and alerts(): one critical section each.
Windows(r) ==
    /\ req[r] = "windows"
    /\ svcLock = Free
    /\ Answers(r, "ok")
    /\ UNCHANGED <<cap, main, svcLock, dbLock, stopEvt, closed, state,
                   rows, raised, failures, lostSaves, joined>>

Alerts(r) ==
    /\ req[r] = "alerts"
    /\ dbLock = Free
    /\ Answers(r, "ok")
    /\ UNCHANGED <<cap, main, svcLock, dbLock, stopEvt, closed, state,
                   rows, raised, failures, lostSaves, joined>>

\* status(): total_alerts() is called with the service lock held.
Status(r) ==
    /\ req[r] = "status"
    /\ svcLock = Free
    /\ svcLock' = r
    /\ At(r, "total")
    /\ UNCHANGED <<cap, main, dbLock, stopEvt, closed, state, history>>

\* Slip: the lock is not released.
TotalKeepsLock(r) ==
    /\ req[r] = "total"
    /\ dbLock = Free
    /\ Answers(r, "ok")
    /\ UNCHANGED <<cap, main, svcLock, dbLock, stopEvt, closed, state,
                   rows, raised, failures, lostSaves, joined>>

Total(r) ==
    /\ req[r] = "total"
    /\ dbLock = Free
    /\ svcLock' = Free
    /\ Answers(r, "ok")
    /\ UNCHANGED <<cap, main, dbLock, stopEvt, closed, state,
                   rows, raised, failures, lostSaves, joined>>

\* baseline(): a pass over the detector's dictionaries, with no lock.
BaselineBegins(r) ==
    /\ req[r] = "baseline"
    /\ At(r, "iterating")
    /\ snapKeys' = [snapKeys EXCEPT ![r] = keys]
    /\ UNCHANGED <<cap, main, svcLock, dbLock, stopEvt, closed, history,
                   learned, keys, pending, sinceSave, copy, saved>>

BaselineEnds(r) ==
    /\ req[r] = "iterating"
    /\ Answers(r, IF keys = snapKeys[r] THEN "ok" ELSE "error")
    /\ UNCHANGED <<cap, main, svcLock, dbLock, stopEvt, closed, state,
                   rows, raised, failures, lostSaves, joined>>

-----------------------------------------------------------------------------

CaptureStep ==
    \/ Check \/ AppendWindow \/ UpdateBegins \/ UpdateEnds \/ Behavioral
    \/ SaveAlert \/ AlertSaved \/ Recent \/ Count \/ Store \/ Stored

MainStep ==
    \/ Join \/ SerializeBegins \/ SerializeEnds
    \/ FinalStore \/ FinalStored \/ Close

Serve(r) ==
    \/ Windows(r) \/ Alerts(r) \/ Status(r) \/ Total(r)
    \/ BaselineBegins(r) \/ BaselineEnds(r)

Next ==
    \/ Packet \/ ReadFails \/ CaptureStep
    \/ Stop \/ MainStep \/ Exited
    \/ \E r \in Readers : Ask(r) \/ Serve(r)

Spec == Init /\ [][Next]_vars

\* A thread that can run goes on, and one that waits for a lock gets it if the
\* lock is free again and again; join() times out.  Neither packets nor
\* requests nor the shutdown have to come.
FairSpec ==
    /\ Spec
    /\ SF_vars(CaptureStep)
    /\ SF_vars(MainStep)
    /\ \A r \in Readers : SF_vars(Serve(r))

-----------------------------------------------------------------------------

CapturePlaces ==
    {"read", "check", "append", "update", "updating", "behavioral", "alerts",
     "saving", "recent", "store", "storing", "done", "crashed"}

MainPlaces ==
    {"serving", "joining", "serialize", "serializing", "store", "storing",
     "close", "closeDest", "stopped"}

TypeOK ==
    /\ cap \in CapturePlaces
    /\ main \in MainPlaces
    /\ req \in [Readers -> Requests \union {"idle", "total", "iterating"}]
    /\ svcLock \in Readers \union {Free}
    /\ dbLock \in {Capture, Main, Free}
    /\ stopEvt \in BOOLEAN
    /\ closed \in {{}, {"alerts"}, {"alerts", "dest"}}
    /\ {learned, copy, saved} \subseteq 0..MaxWindows
    /\ keys \in 0..MaxKeys
    /\ snapKeys \in [Readers \union {Main} -> 0..MaxKeys]
    /\ pending \in 0..MaxAlerts
    /\ sinceSave \in 0..(SaveInterval - 1)
    /\ {rows, raised, lostSaves} \subseteq Nat
    /\ failures \in 0..MaxFailures
    /\ joined \in {"no", "yes", "timeout"}
    /\ answer \in [Readers -> {"ok", "error"}]

\* A crash at any moment loses at most SaveInterval windows of learning, and
\* SaveInterval more for every save that failed since (service.py:165-177).
LossIsBounded ==
    joined # "timeout" => learned - saved <= SaveInterval * (lostSaves + 1)

\* stop() that waited for the capture thread leaves the last state saved
\* unless writing it failed, whatever the thread was doing and however it
\* ended (service.py:125-133).
JoinedStopSavesAll ==
    main = "stopped" /\ joined = "yes" /\ lostSaves = 0 => saved = learned

\* Every alert the detectors returned is in the table before the next packet
\* is read, for as long as the capture thread lives (service.py:154-163).
AlertsPrecedeNextPacket == cap \in {"read", "check", "append"} => rows = raised

\* A saved state is never replaced by an older one, but for a stop() that did
\* not wait for the capture thread to end (service.py:128-130, 165-177).
SavedNeverRegresses == [][joined' # "timeout" => saved' >= saved]_vars

\* Every request is answered although status() waits for the store's lock
\* with the service lock in its hands (service.py:181-215).
RequestsAreAnswered == \A r \in Readers : req[r] # "idle" ~> req[r] = "idle"

\* stop() returns whatever the capture thread and the requests hold
\* (service.py:125-133).
StopReturns == stopEvt ~> main = "stopped"

\* "Read paths ... are thread-safe" (service.py:3-5): no request fails because
\* of what the capture thread does meanwhile.  baseline() does not ensure it.
ReadersNeverFail == \A r \in Readers : answer[r] = "ok"
=============================================================================
