------------------------------ MODULE FirstSeen ------------------------------
(***************************************************************************)
(* behavioral.py: FirstSeenDetector over storage.py: DestinationStore, and *)
(* the part of MonitorService._handle_window (service.py:151-163) that     *)
(* writes the alerts it returns, one at a time.                            *)
(*                                                                         *)
(* The detector keeps its memory of destinations in a dictionary and       *)
(* writes it through to a table.  The capture thread that calls it ends    *)
(* when it is stopped, when the process dies, and when anything it calls   *)
(* raises (service.py:140-149): between any two commits of one window and  *)
(* between the saves of its alerts.  Only a new process starts another.  A *)
(* window is the set of the external, not allow-listed destinations that   *)
(* carried min_packets, with the time it ended; which destinations those   *)
(* are is free.                                                            *)
(***************************************************************************)
EXTENDS Counters, FiniteSets

CONSTANTS
    Ips,              \* destinations that pass the filters of update()
    LearningWindows,
    MinConsecutive,   \* max(1, min_consecutive)
    CooldownWindows,  \* max(0, cooldown_windows): less than 1 is no mute
    Ttl,              \* ttl_ns, in the units of the window's end time
    MaxKnown,         \* max(1, max_known)
    PruneInterval,    \* max(1, prune_interval)
    MaxGap,           \* bound: longest idle gap between two windows
    Horizon,          \* bound: last time modelled
    MaxRestarts       \* bound: starts after the first

ASSUME FirstSeenAssumption ==
    /\ IsFiniteSet(Ips)
    /\ LearningWindows \in Nat
    /\ MinConsecutive \in Nat \ {0}
    /\ CooldownWindows \in Nat
    /\ Ttl \in Nat
    /\ MaxKnown \in Nat \ {0}
    /\ PruneInterval \in Nat \ {0}
    /\ MaxGap \in Nat \ {0}
    /\ Horizon \in Nat
    /\ MaxRestarts \in Nat

VARIABLES
    known,        \* _known: last time of each destination, or Absent
    watch,        \* _watch, saturating at MinConsecutive
    cooldown,     \* _cooldown, 0 for a destination not in it
    seen,         \* _seen_since_prune
    windowsSeen,  \* _windows_seen
    capturing,    \* the capture thread runs
    pending,      \* alerts of the window at hand that are not saved yet
    db,           \* known_destinations: last_seen_ns of each row, or Absent
    rows          \* the alerts table: the destination and window of each row

\* History and environment, read by no guard but the bounds.
VARIABLES
    now,          \* end of the last window
    startedAt,    \* now when the process last started
    restarts,
    lastContact,  \* last window each destination was in, or Absent
    run,          \* windows in a row it was in, saturating at MinConsecutive
    sinceRaise,   \* windows of this process since it was raised, up to CooldownWindows
    confirmed,    \* alerts raised whose destination was committed as known
    ends          \* last window of each capture thread that ended

memory == <<known, watch, cooldown, seen, windowsSeen>>
thread == <<capturing, pending>>
disk == <<db, rows>>
clock == <<now, startedAt, restarts>>
history == <<lastContact, run, sinceRaise, confirmed, ends>>
vars == <<memory, thread, disk, clock, history>>

Absent == 0
Times == 1..Horizon
Alerts == Ips \X Times
Memories == [Ips -> {Absent} \union Times]

-----------------------------------------------------------------------------
(* Tables of last-seen times.                                              *)

Present(f) == {ip \in Ips : f[ip] # Absent}

Stamp(f, ips, ts) == [ip \in Ips |-> IF ip \in ips THEN ts ELSE f[ip]]

Only(f, keep) == [ip \in Ips |-> IF ip \in keep THEN f[ip] ELSE Absent]

Unexpired(f, cutoff) == {ip \in Present(f) : f[ip] >= cutoff}

\* The sets that may be the MaxKnown most recent destinations of f: ties are
\* broken by the order of the dictionary or of the table.
Newest(f) ==
    {keep \in SUBSET Present(f) :
        \/ Cardinality(Present(f)) <= MaxKnown /\ keep = Present(f)
        \/ /\ Cardinality(Present(f)) > MaxKnown
           /\ Cardinality(keep) = MaxKnown
           /\ \A a \in keep, b \in Present(f) \ keep : f[a] >= f[b]}

-----------------------------------------------------------------------------
(* One window, with destinations cur, before its time is known.            *)

Learning == windowsSeen + 1 <= LearningWindows

\* Slip: the counter is not removed when it runs out.
CooledPastZero == [ip \in Ips |-> cooldown[ip] - 1]

Cooled == [ip \in Ips |-> Decremented(cooldown[ip])]

Fresh(cur) == cur \ Present(known)

Watched(cur) ==
    [ip \in Ips |-> IF ip \in Fresh(cur) /\ ~ Learning
                    THEN Capped(watch[ip], MinConsecutive)
                    ELSE watch[ip]]

\* Slips: a destination just reported is not mute; one window too many is
\* asked for; seeing a known destination does not refresh it.
RaisedUnmuted(cur) ==
    {ip \in Fresh(cur) : ~ Learning /\ Watched(cur)[ip] >= MinConsecutive}
RaisedLate(cur) ==
    {ip \in Fresh(cur) : ~ Learning /\ Watched(cur)[ip] > MinConsecutive /\ Cooled[ip] = 0}
RefreshedNever(cur) == {}

\* New destinations that lasted: one alert each, then known.
Raised(cur) ==
    {ip \in Fresh(cur) : /\ ~ Learning
                         /\ Watched(cur)[ip] >= MinConsecutive
                         /\ Cooled[ip] = 0}

\* Watched destinations that are gone: learned without an alert.
Gone(cur) == {ip \in Ips \ cur : watch[ip] > 0}

Silent(cur) == IF Learning THEN Fresh(cur) ELSE {}

Learned(cur) == Raised(cur) \union Gone(cur) \union Silent(cur)

Refreshed(cur) == cur \intersect Present(known)

Remembered(cur, ts) == Stamp(known, Refreshed(cur) \union Learned(cur), ts)

\* Slip: destinations that disappeared are only learned in memory.
UpsertedWithoutGone(cur, ts) == Stamp(db, Raised(cur) \union Silent(cur), ts)

\* The commits of the sweep that every PruneInterval-th window ends with.
PruneDue == (windowsSeen + 1) % PruneInterval = 0

Upserted(cur, ts) == Stamp(db, Learned(cur), ts)

Touched(cur, ts) ==
    LET d == Upserted(cur, ts)
    IN  Stamp(d, (seen \union Refreshed(cur)) \intersect Present(d), ts)

Pruned(cur, ts) ==
    LET d == Touched(cur, ts) IN Only(d, Unexpired(d, ts - Ttl))

Surviving(cur, ts) ==
    LET k == Remembered(cur, ts) IN Only(k, Unexpired(k, ts - Ttl))

\* keep is what the cap leaves of the memory; what it drops is deleted.
Dropped(cur, ts, keep) ==
    Only(Pruned(cur, ts), Ips \ (Present(Surviving(cur, ts)) \ keep))

-----------------------------------------------------------------------------

Init ==
    /\ known = [ip \in Ips |-> Absent]
    /\ watch = [ip \in Ips |-> 0]
    /\ cooldown = [ip \in Ips |-> 0]
    /\ seen = {}
    /\ windowsSeen = 0
    /\ capturing = TRUE /\ pending = {}
    /\ db = [ip \in Ips |-> Absent]
    /\ rows = {}
    /\ now = 0 /\ startedAt = 0 /\ restarts = 0
    /\ lastContact = [ip \in Ips |-> Absent]
    /\ run = [ip \in Ips |-> 0]
    /\ sinceRaise = [ip \in Ips |-> CooldownWindows]
    /\ confirmed = {} /\ ends = {}

\* The thread is given a window: the alerts of the one before are saved.
Happens(cur, ts) ==
    /\ capturing
    /\ pending = {}
    /\ ts \in Times
    /\ ts \in (now + 1)..(now + MaxGap)
    /\ now' = ts
    /\ lastContact' = Stamp(lastContact, cur, ts)
    /\ run' = [ip \in Ips |-> IF ip \in cur THEN Capped(run[ip], MinConsecutive) ELSE 0]

\* update() from its first line to its return: what it raised is learned and
\* committed, and the caller has the alerts.
Window(cur, ts) ==
    /\ Happens(cur, ts)
    /\ windowsSeen' = windowsSeen + 1
    /\ watch' = [ip \in Ips |->
                    IF ip \in Raised(cur) \union Gone(cur) THEN 0 ELSE Watched(cur)[ip]]
    /\ cooldown' = [ip \in Ips |->
                       IF ip \in Raised(cur) THEN CooldownWindows ELSE Cooled[ip]]
    /\ \/ /\ ~ PruneDue
          /\ known' = Remembered(cur, ts)
          /\ db' = Upserted(cur, ts)
          /\ seen' = seen \union Refreshed(cur)
       \/ /\ PruneDue
          /\ \E keep \in Newest(Surviving(cur, ts)) :
                /\ known' = Only(Surviving(cur, ts), keep)
                /\ db' = Dropped(cur, ts, keep)
          /\ seen' = {}
    /\ pending' = Raised(cur) \X {ts}
    /\ confirmed' = confirmed \union (Raised(cur) \X {ts})
    /\ sinceRaise' = [ip \in Ips |-> IF ip \in Raised(cur) THEN 0
                                     ELSE Capped(sinceRaise[ip], CooldownWindows)]
    /\ UNCHANGED <<capturing, rows, startedAt, restarts, ends>>

\* One turn of the loop over the alerts: the row is committed.
SaveAlert(a) ==
    /\ a \in pending
    /\ rows' = rows \union {a}
    /\ pending' = pending \ {a}
    /\ UNCHANGED <<memory, capturing, db, clock, history>>

\* What no process takes over from the one before.
Forgets ==
    /\ watch' = [ip \in Ips |-> 0]
    /\ cooldown' = [ip \in Ips |-> 0]
    /\ seen' = {}
    /\ windowsSeen' = 0
    /\ pending' = {}
    /\ sinceRaise' = [ip \in Ips |-> CooldownWindows]

\* The thread ends with the window it was given last.  Nothing reads the memory
\* of its detector again, so it is taken as empty.
Halts ==
    /\ capturing' = FALSE
    /\ known' = [ip \in Ips |-> Absent]
    /\ Forgets
    /\ ends' = ends \union {now'}

\* Slip: a failure between two steps is logged, and capture goes on.
EndsSwallowed ==
    /\ capturing
    /\ pending' = {}
    /\ UNCHANGED <<memory, capturing, disk, clock, history>>

\* The thread ends outside update(): stopped at a packet, dead with its process,
\* or because another detector or save_alert raised, in a stop that closed the
\* store under it too.  The alerts not saved are gone.  (A row that was inserted
\* and failed to commit may be committed with the state that stop() saves: that
\* is SaveAlert before Ends.)  stop() writes nothing of this detector.
Ends ==
    /\ capturing
    /\ now' = now
    /\ Halts
    /\ UNCHANGED <<disk, startedAt, restarts, lastContact, run, confirmed>>

\* What the table may hold when update() ends after the upsert and before its
\* return.
Midway(cur, ts) ==
    IF PruneDue THEN {Upserted(cur, ts), Touched(cur, ts), Pruned(cur, ts)} ELSE {}

\* update() does not return: the process dies in it, or one of its writes
\* raises.  Nobody has the alerts.
Broken(cur, ts) ==
    /\ Happens(cur, ts)
    /\ \/ db' = db /\ confirmed' = confirmed
       \/ db' \in Midway(cur, ts) /\ confirmed' = confirmed \union (Raised(cur) \X {ts})
    /\ Halts
    /\ UNCHANGED <<rows, startedAt, restarts>>

\* __init__ of the next process: the memory is the MaxKnown most recent rows;
\* nothing else is kept.
Start ==
    /\ ~ capturing
    /\ restarts < MaxRestarts
    /\ restarts' = restarts + 1
    /\ capturing' = TRUE
    /\ \E keep \in Newest(db) : known' = Only(db, keep)
    /\ Forgets
    /\ startedAt' = now
    /\ UNCHANGED <<disk, now, lastContact, run, confirmed, ends>>

Next ==
    \/ \E cur \in SUBSET Ips, ts \in Times : Window(cur, ts) \/ Broken(cur, ts)
    \/ \E a \in Alerts : SaveAlert(a)
    \/ Ends
    \/ Start

Spec == Init /\ [][Next]_vars

-----------------------------------------------------------------------------

TypeOK ==
    /\ known \in Memories
    /\ watch \in [Ips -> 0..MinConsecutive]
    /\ cooldown \in [Ips -> 0..CooldownWindows]
    /\ seen \subseteq Ips
    /\ windowsSeen \in Nat
    /\ db \in Memories
    /\ capturing \in BOOLEAN
    /\ rows \subseteq Alerts /\ pending \subseteq Alerts /\ confirmed \subseteq Alerts
    /\ {now, startedAt} \subseteq 0..Horizon
    /\ restarts \in 0..MaxRestarts
    /\ lastContact \in Memories
    /\ run \in [Ips -> 0..MinConsecutive]
    /\ sinceRaise \in [Ips -> 0..CooldownWindows]
    /\ ends \subseteq 0..Horizon

\* Whatever the process remembers survives its death: between windows every
\* destination in memory has a row in the table, through upserts, sweeps that
\* expire memory and table by different recencies, the cap, and ends of the
\* thread between the commits (behavioral.py:134-161).
KnownIsPersisted == Present(known) \subseteq Present(db)

\* The table never holds an older time than the memory for a destination the
\* next sweep will not touch; otherwise the sweep would delete the row of a
\* destination that is remembered (behavioral.py:111-114, 143-152).
RecencyIsCovered ==
    \A ip \in Present(known) : ip \in seen \/ db[ip] >= known[ip]

\* A watched destination is unknown and was in each of the last watch windows,
\* whatever restarts and forgetting came between (behavioral.py:119-132).
WatchIsConsecutive ==
    \A ip \in Ips : watch[ip] > 0 => known[ip] = Absent /\ watch[ip] <= run[ip]

\* A destination is only confirmed when it was in MinConsecutive consecutive
\* windows, and is not confirmed again within CooldownWindows windows even if
\* it was forgotten in between (behavioral.py:96-99, 120-125).
AlertIsEarned ==
    [][\A a \in confirmed' \ confirmed :
           /\ run'[a[1]] >= MinConsecutive
           /\ sinceRaise[a[1]] + 1 >= CooldownWindows]_vars

\* A destination that lasted is reported unless it was reported, and then
\* forgotten, less than CooldownWindows windows ago (behavioral.py:119-125).
SustainedIsRaised ==
    \A ip \in Ips : watch[ip] >= MinConsecutive => sinceRaise[ip] < CooldownWindows

\* What decides what is forgotten is never behind the contacts a process saw:
\* the memory has the last of each destination it remembers, and the table has
\* it too, but for the destinations refreshed since the last sweep; a sweep and
\* a start leave none of those.  It is what a restart can lose of a destination
\* in use (behavioral.py:72-80, 111-114, 143-146).
RecencyIsFresh ==
    /\ \A ip \in Present(known) :
           lastContact[ip] > startedAt =>
               /\ known[ip] >= lastContact[ip]
               /\ ip \in seen \/ db[ip] >= lastContact[ip]
    /\ windowsSeen % PruneInterval = 0 => seen = {}

\* Every sweep brings the memory back under its cap, however many destinations
\* one window brings (behavioral.py:136-161).
SweepBoundsMemory ==
    windowsSeen % PruneInterval = 0 => Cardinality(Present(known)) <= MaxKnown

\* Alerts of destinations learned for good that are nowhere: neither saved nor
\* about to be.
Lost == confirmed \ (rows \union pending)

\* Whatever ends it - a stop, a crash, a write that fails inside update() or a
\* save_alert that raises - a capture thread loses alerts of one window at
\* most, its last: no later window is handled after a failed save
\* (behavioral.py:134-135, service.py:147-149, 159-160).
LossIsOfLastWindow ==
    /\ \A a \in Lost : a[2] \in ends
    /\ Cardinality(ends) <= restarts + (IF capturing THEN 0 ELSE 1)

\* "if it persists ... it raises one alert, then joins the known set"
\* (behavioral.py:50-51): a destination joins by confirmation only if its
\* alert is saved or about to be.
ConfirmedIsAlerted == confirmed \subseteq rows \union pending
=============================================================================
