------------------------------- MODULE Beacon -------------------------------
(***************************************************************************)
(* behavioral.py: BeaconDetector.  It keeps the times of the last contacts *)
(* of each external destination, reports one whose contacts are evenly     *)
(* spaced, mutes it, and forgets the least recently active destinations    *)
(* above a cap.                                                            *)
(*                                                                         *)
(* A window is the set of external, not allow-listed destinations in it,   *)
(* at its end time; both are free, except that the windows of one          *)
(* aggregator ascend (Windows!WindowsAscend), so that no contact repeats   *)
(* the last time of its history.  The order of _seen_count, the number of  *)
(* the window of the last contact, is then the order of the last times.    *)
(* The test of the intervals is exact where the code computes in floats.   *)
(***************************************************************************)
EXTENDS Counters, FiniteSetsExt, Sequences

CONSTANTS
    Ips,              \* destinations that pass the filters of update()
    MinEvents,        \* max(3, min_events)
    History,          \* max(min_events, history), the deques' maxlen
    MinPeriod,
    MaxPeriod,
    CvNum, CvDen,     \* max_cv, squared, is CvNum / CvDen
    CooldownWindows,  \* max(0, cooldown_windows): less than 1 is no mute
    MaxTracked,       \* max(1, max_tracked)
    MaxGap,           \* bound: longest time from one window to the next
    Horizon           \* bound: last time modelled

ASSUME BeaconAssumption ==
    /\ IsFiniteSet(Ips)
    /\ MinEvents \in Nat /\ MinEvents >= 3
    /\ History \in Nat /\ History >= MinEvents
    /\ MinPeriod \in Nat /\ MaxPeriod \in Nat
    /\ CvNum \in Nat /\ CvDen \in Nat \ {0}
    /\ CooldownWindows \in Nat
    /\ MaxTracked \in Nat \ {0}
    /\ MaxGap \in Nat \ {0}
    /\ Horizon \in Nat

VARIABLES
    hist,      \* _hist, empty for a destination not in it
    cooldown   \* _cooldown, 0 for a destination not in it

\* Environment and history, read by no guard but the bounds.
VARIABLES
    now,       \* end of the last window
    contacts,  \* all times each destination was contacted
    since,     \* first contact since it was last forgotten
    quiet,     \* windows since it was reported, up to CooldownWindows
    fired      \* destinations the last window reported

vars == <<hist, cooldown, now, contacts, since, quiet, fired>>

Times == 1 .. Horizon

TypeOK ==
    /\ hist \in [Ips -> Seq(Times)]
    /\ \A ip \in Ips : Len(hist[ip]) <= History
    /\ cooldown \in [Ips -> 0 .. CooldownWindows]
    /\ now \in 0 .. Horizon
    /\ contacts \in [Ips -> SUBSET Times]
    /\ since \in [Ips -> 0 .. Horizon]
    /\ quiet \in [Ips -> 0 .. CooldownWindows]
    /\ fired \subseteq Ips

Init ==
    /\ hist = [ip \in Ips |-> <<>>]
    /\ cooldown = [ip \in Ips |-> 0]
    /\ now = 0
    /\ contacts = [ip \in Ips |-> {}]
    /\ since = [ip \in Ips |-> 0]
    /\ quiet = [ip \in Ips |-> CooldownWindows]
    /\ fired = {}

-----------------------------------------------------------------------------
(* Histories.                                                              *)

\* Slip: the deque is allowed one more.
PushedUnbounded(h, ts) ==
    IF Len(h) <= History THEN Append(h, ts) ELSE Append(Tail(h), ts)

\* A deque with a maxlen drops its oldest element.
Pushed(h, ts) ==
    IF Len(h) < History THEN Append(h, ts) ELSE Append(Tail(h), ts)

\* Slip: a muted destination is skipped altogether.
GrownUnlessMute(ips, ts) ==
    [ip \in Ips |-> IF ip \in ips /\ cooldown[ip] = 0
                      THEN Pushed(hist[ip], ts) ELSE hist[ip]]

Grown(ips, ts) ==
    [ip \in Ips |-> IF ip \in ips THEN Pushed(hist[ip], ts) ELSE hist[ip]]

Last(h) == h[Len(h)]

Interval(h, i) == h[i + 1] - h[i]

\* _evaluate: with n intervals of sum S and sum of squares Q, the mean S/n is
\* in range and the variance Q/n - (S/n)^2 is at most max_cv^2 (S/n)^2.
Periodic(h) ==
    LET n == Len(h) - 1
        S == Last(h) - h[1]
        Q == MapThenSumSet(LAMBDA i : Interval(h, i) * Interval(h, i), 1 .. n)
    IN  /\ MinPeriod * n <= S
        /\ S <= MaxPeriod * n
        /\ (n * Q - S * S) * CvDen <= CvNum * S * S

\* Mutes run down at the head of every window, before any contact is judged.
CountedDown == [ip \in Ips |-> Decremented(cooldown[ip])]

\* Slip: more than min_events.
DueLate(h) == Len(h) > MinEvents /\ Periodic(h)

Due(h) == Len(h) >= MinEvents /\ Periodic(h)

Reported(ips, grown) == {ip \in ips : CountedDown[ip] = 0 /\ Due(grown[ip])}

Tracked(h) == {ip \in Ips : h[ip] # <<>>}

\* Slip: sorted the other way round.
KeptLeastRecent(h) ==
    {K \in SUBSET Tracked(h) :
        /\ Cardinality(K) <= MaxTracked
        /\ K # Tracked(h) => Cardinality(K) = MaxTracked
        /\ \A k \in K, d \in Tracked(h) \ K : Last(h[k]) <= Last(h[d])}

\* _evict: what may be left, the most recently active up to the cap.  Which of
\* several with the same last contact go depends on their order in a dict.
Kept(h) ==
    {K \in SUBSET Tracked(h) :
        /\ Cardinality(K) <= MaxTracked
        /\ K # Tracked(h) => Cardinality(K) = MaxTracked
        /\ \A k \in K, d \in Tracked(h) \ K : Last(h[d]) <= Last(h[k])}

-----------------------------------------------------------------------------

\* update(): mutes, contacts and reports, then the eviction.
Window(ips, ts) ==
    LET grown == Grown(ips, ts)
        hits == Reported(ips, grown)
    IN  /\ \E K \in Kept(grown) :
               hist' = [ip \in Ips |-> IF ip \in K THEN grown[ip] ELSE <<>>]
        /\ cooldown' = [ip \in Ips |-> IF ip \in hits THEN CooldownWindows
                                                      ELSE CountedDown[ip]]
        /\ now' = ts
        /\ contacts' = [ip \in Ips |-> IF ip \in ips THEN contacts[ip] \union {ts}
                                                     ELSE contacts[ip]]
        /\ since' = [ip \in Ips |-> IF ip \in ips /\ hist[ip] = <<>> THEN ts
                                                                     ELSE since[ip]]
        /\ quiet' = [ip \in Ips |-> IF ip \in hits THEN 0
                                    ELSE Capped(quiet[ip], CooldownWindows)]
        /\ fired' = hits

Next ==
    \E ips \in SUBSET Ips, ts \in now + 1 .. now + MaxGap :
        ts <= Horizon /\ Window(ips, ts)

Spec == Init /\ [][Next]_vars

-----------------------------------------------------------------------------
(* Properties.                                                             *)

\* The last contacts of a destination since it was last forgotten, as many as
\* a deque holds.
Recent(ip) ==
    LET all == {t \in contacts[ip] : t >= since[ip]}
    IN  {t \in all : Cardinality({u \in all : u > t}) < History}

\* A history is the latest contacts of its destination, in order and without
\* a gap, muted or not: the intervals judged are intervals between contacts
\* that follow each other (behavioral.py:260-264).
HistoryIsRecentContacts ==
    \A ip \in Tracked(hist) :
        /\ {hist[ip][i] : i \in 1 .. Len(hist[ip])} = Recent(ip)
        /\ \A i \in 1 .. Len(hist[ip]) - 1 : Interval(hist[ip], i) > 0

\* At most MaxTracked destinations are remembered after a window, and one that
\* was contacted and is not remembered was contacted no later than MaxTracked
\* others that are (behavioral.py:311-316).
ForgottenAreLeastRecent ==
    /\ Cardinality(Tracked(hist)) <= MaxTracked
    /\ \A ip \in Ips \ Tracked(hist) :
           contacts[ip] # {} =>
             Cardinality({o \in Tracked(hist) : \A t \in contacts[ip] : Last(hist[o]) >= t})
                 >= MaxTracked

\* The last contacts are exactly d apart.
SteadyBy(ip, d) ==
    LET recent == Recent(ip)
    IN  recent = {now - d * i : i \in 0 .. Cardinality(recent) - 1}

\* No matter what came before, a destination whose remembered contacts are
\* min_events or more and at one period in range is reported now, or was within
\* its mute (behavioral.py:213-216).
SteadyIsReported ==
    \A ip \in Ips :
        /\ now \in contacts[ip]
        /\ Cardinality(Recent(ip)) >= MinEvents
        /\ \E d \in MinPeriod .. MaxPeriod : SteadyBy(ip, d)
        => ip \in fired \/ quiet[ip] < CooldownWindows

\* From one report of a destination to the next are at least CooldownWindows
\* windows, forgotten in between or not (behavioral.py:251-254, 271).
ReportsAreSpaced ==
    [][\A ip \in fired' : quiet[ip] + 1 >= CooldownWindows]_vars
=============================================================================
