-------------------------- MODULE AdaptiveDetector --------------------------
(***************************************************************************)
(* adaptive.py: AdaptiveDetector, for one feature.  Features are handled   *)
(* by independent iterations of one loop; they share only the time bucket. *)
(*                                                                         *)
(* Abstracted: the value of the feature and the thresholds.  Whether |z|   *)
(* reaches the threshold is a free bit, and the standardized residual a    *)
(* CUSUM chart is fed is a free member of Residuals, so the model covers   *)
(* every traffic and every tuning of robust_k and target_rate.             *)
(* Kept: which baseline scores, which baselines learn, the streak, the     *)
(* mute, and the life of the CUSUM anchor of each bucket.                  *)
(*                                                                         *)
(* One action is one call of update() for the feature in bucket b.         *)
(***************************************************************************)
EXTENDS Counters, FiniteSets

CONSTANTS
    Buckets,         \* keys _bucketize() returns
    NoBucket,        \* _prev_bucket_key before the first window
    Global,          \* the fallback baseline, as an element beside Buckets
    BucketWarmup,    \* warmup_windows
    GlobalWarmup,    \* global_warmup
    ConfirmWindows,  \* max(1, confirm_windows)
    CooldownWindows,
    CusumOn,         \* cusum
    SeedWindows,     \* max(1, cusum_seed_windows)
    Residuals,       \* the standardized residuals, in units of the slack
    CusumK,          \* cusum_k
    CusumH           \* cusum_h

ASSUME AdaptiveAssumption ==
    /\ NoBucket \notin Buckets
    /\ Global \notin Buckets
    /\ BucketWarmup \in Nat
    /\ GlobalWarmup \in Nat
    /\ ConfirmWindows \in Nat \ {0}
    /\ CooldownWindows \in Nat
    /\ CusumOn \in BOOLEAN
    /\ SeedWindows \in Nat \ {0}
    /\ Residuals \subseteq Int
    /\ CusumK \in Nat
    /\ CusumH \in Nat

VARIABLES
    prevBucket,  \* _prev_bucket_key
    bucketN,     \* _buckets[(b, name)].n, saturating at BucketWarmup
    globalN,     \* _global[name].n, saturating at GlobalWarmup
    streak,      \* _streak[name]
    cooldown,    \* _cooldown[name]
    chart,       \* per bucket: _cusum_ref present?, _cusum_seed_n, _cusum_stats
    alert        \* what this update() returned for the feature

\* History, read by no action.
VARIABLES
    breaches, quiet,  \* the policy's view
    visits,           \* windows each bucket was given, saturating at BucketWarmup
    stale,            \* buckets whose anchor dates from an earlier visit
    calm,             \* windows of this visit its chart was fed, up to SeedWindows + 1
    scorers,          \* baselines that scored the windows of the current streak
    absorbed          \* baselines that learned a window of the current streak

detector == <<prevBucket, bucketN, globalN, streak, cooldown, chart, alert>>
history == <<breaches, quiet, visits, stale, calm, scorers, absorbed>>
vars == <<detector, history>>

Policy == INSTANCE AlertPolicy

NoChart == [anchored |-> FALSE, seeds |-> 0, hi |-> 0, lo |-> 0]

Charts == [anchored : BOOLEAN, seeds : 0..SeedWindows, hi : 0..CusumH, lo : 0..CusumH]

Init ==
    /\ prevBucket = NoBucket
    /\ bucketN = [b \in Buckets |-> 0]
    /\ globalN = 0
    /\ streak = 0
    /\ cooldown = 0
    /\ chart = [b \in Buckets |-> NoChart]
    /\ visits = [b \in Buckets |-> 0]
    /\ stale = {}
    /\ calm = 0
    /\ scorers = {}
    /\ absorbed = {}
    /\ Policy!Init

-----------------------------------------------------------------------------
(* Which baseline scores a window in b, and which baselines learn it.      *)

Fallback(b) == bucketN[b] < BucketWarmup

Scorer(b) == IF Fallback(b) THEN Global ELSE b

Ready(b) == Fallback(b) => globalN >= GlobalWarmup

Tracked(b) == CusumOn /\ ~ Fallback(b)

\* Slips: freezing both baselines mid-streak, or none.
AllFrozen(b, frozen) == IF frozen THEN {} ELSE {b, Global}
NoneFrozen(b, frozen) == {b, Global}

\* Mid-streak only the baseline being scored is frozen.
Learners(b, frozen) == {b, Global} \ (IF frozen THEN {Scorer(b)} ELSE {})

Learn(b, frozen) ==
    /\ bucketN' = IF b \in Learners(b, frozen)
                  THEN [bucketN EXCEPT ![b] = Capped(@, BucketWarmup)]
                  ELSE bucketN
    /\ globalN' = IF Global \in Learners(b, frozen)
                  THEN Capped(globalN, GlobalWarmup)
                  ELSE globalN

Enters(b) == b # prevBucket

\* Every window moves prevBucket, whatever else it does.
Visit(b) ==
    /\ prevBucket' = b
    /\ visits' = [visits EXCEPT ![b] = Capped(@, BucketWarmup)]

\* Slip: a calm window, or an alert, leaves the streak counting.
StreakGoesOn == streak' = streak /\ scorers' = {} /\ absorbed' = {}

StreakEnds == streak' = 0 /\ scorers' = {} /\ absorbed' = {}

-----------------------------------------------------------------------------
(* The CUSUM chart of a bucket.                                            *)

\* Slip: the entry resets the sums and keeps the anchor of the last visit.
OpenedAnchored(b) ==
    IF Enters(b) THEN [chart[b] EXCEPT !.hi = 0, !.lo = 0] ELSE chart[b]

\* What the chart is when the score of a window is acted on: entering the
\* bucket drops the anchor of the last visit and resets the chart.
Opened(b) == IF Enters(b) THEN NoChart ELSE chart[b]

ResetChart(c) == [anchored |-> c.anchored, seeds |-> c.seeds, hi |-> 0, lo |-> 0]

\* The first calm window of a visit becomes the anchor.
Anchored == [anchored |-> TRUE, seeds |-> 1, hi |-> 0, lo |-> 0]

Seed(c) == [c EXCEPT !.seeds = @ + 1]

Accumulate(c, r) ==
    [anchored |-> c.anchored, seeds |-> c.seeds,
     hi |-> Rectified(c.hi + r - CusumK), lo |-> Rectified(c.lo - r - CusumK)]

\* Slip: the decision interval is off by one.
DriftedLate(c) == c.hi > CusumH + 1 \/ c.lo > CusumH + 1

Drifted(c) == c.hi > CusumH \/ c.lo > CusumH

\* A calm window of a tracked bucket, of residual r.
Track(c, r) ==
    IF ~ c.anchored THEN Anchored
    ELSE IF c.seeds < SeedWindows THEN Seed(c)
    ELSE Accumulate(c, r)

\* A window acted on leaves chart c in its bucket, and the anchor of another
\* visit does not survive the entry.
ChartBecomes(b, c) ==
    /\ chart' = [chart EXCEPT ![b] = c]
    /\ stale' = IF Enters(b) THEN stale \ {b} ELSE stale

\* A window not acted on leaves the chart as it is: an anchor met on entry is
\* then of an earlier visit.
ChartStays(b) ==
    /\ chart' = chart
    /\ stale' = IF Enters(b) /\ chart[b].anchored THEN stale \union {b} ELSE stale
    /\ calm' = IF Enters(b) THEN 0 ELSE calm

\* Slip: only a calm window drops the anchor of the last visit.
ChartIgnoresBreach(b) == ChartStays(b)

\* A breach resets the chart of a tracked bucket and leaves its anchor.
ChartOnBreach(b) ==
    IF Tracked(b)
    THEN /\ ChartBecomes(b, ResetChart(Opened(b)))
         /\ calm' = IF Enters(b) THEN 0 ELSE calm
    ELSE ChartStays(b)

-----------------------------------------------------------------------------

\* Neither the bucket's baseline nor the fallback is warm: only learn.
Unscored(b) ==
    /\ ~ Ready(b)
    /\ Visit(b)
    /\ Learn(b, FALSE)
    /\ ChartStays(b)
    /\ cooldown' = Decremented(cooldown)
    /\ Policy!Record(FALSE, "none")
    /\ UNCHANGED <<streak, scorers, absorbed>>

\* The feature is mute: the score is learned and not acted on.
Muted(b, breach) ==
    /\ Ready(b)
    /\ cooldown > 0
    /\ Visit(b)
    /\ Learn(b, FALSE)
    /\ ChartStays(b)
    /\ cooldown' = cooldown - 1
    /\ Policy!Record(breach, "none")
    /\ UNCHANGED <<streak, scorers, absorbed>>

\* A breach that completes the streak.
Confirm(b) ==
    /\ Ready(b)
    /\ cooldown = 0
    /\ streak + 1 >= ConfirmWindows
    /\ Visit(b)
    /\ Learn(b, FALSE)
    /\ ChartOnBreach(b)
    /\ StreakEnds
    /\ cooldown' = CooldownWindows
    /\ Policy!Record(TRUE, "spike")

\* A breach that does not: the scoring baseline is frozen.
Hold(b) ==
    /\ Ready(b)
    /\ cooldown = 0
    /\ streak + 1 < ConfirmWindows
    /\ Visit(b)
    /\ Learn(b, TRUE)
    /\ ChartOnBreach(b)
    /\ streak' = streak + 1
    /\ scorers' = scorers \union {Scorer(b)}
    /\ absorbed' = absorbed \union Learners(b, TRUE)
    /\ Policy!Record(TRUE, "none")
    /\ UNCHANGED cooldown

\* No breach, and no chart to feed.
Calm(b) ==
    /\ Ready(b)
    /\ cooldown = 0
    /\ ~ Tracked(b)
    /\ Visit(b)
    /\ Learn(b, FALSE)
    /\ ChartStays(b)
    /\ StreakEnds
    /\ Policy!Record(FALSE, "none")
    /\ UNCHANGED cooldown

\* No breach in a tracked bucket: feed its chart, and report a drift.
CalmTracked(b, r) ==
    /\ Ready(b)
    /\ cooldown = 0
    /\ Tracked(b)
    /\ Visit(b)
    /\ Learn(b, FALSE)
    /\ StreakEnds
    /\ calm' = Capped(IF Enters(b) THEN 0 ELSE calm, SeedWindows + 1)
    /\ LET c == Track(Opened(b), r) IN
       \/ /\ Drifted(c)
          /\ ChartBecomes(b, ResetChart(c))
          /\ cooldown' = CooldownWindows
          /\ Policy!Record(FALSE, "drift")
       \/ /\ ~ Drifted(c)
          /\ ChartBecomes(b, c)
          /\ Policy!Record(FALSE, "none")
          /\ UNCHANGED cooldown

Next == \E b \in Buckets :
    \/ Unscored(b)
    \/ \E breach \in BOOLEAN : Muted(b, breach)
    \/ Confirm(b)
    \/ Hold(b)
    \/ Calm(b)
    \/ \E r \in Residuals : CalmTracked(b, r)

Spec == Init /\ [][Next]_vars

-----------------------------------------------------------------------------

TypeOK ==
    /\ prevBucket \in Buckets \union {NoBucket}
    /\ bucketN \in [Buckets -> 0..BucketWarmup]
    /\ globalN \in 0..GlobalWarmup
    /\ streak \in 0..(ConfirmWindows - 1)
    /\ cooldown \in 0..CooldownWindows
    /\ chart \in [Buckets -> Charts]
    /\ visits \in [Buckets -> 0..BucketWarmup]
    /\ stale \subseteq Buckets
    /\ calm \in 0..(SeedWindows + 1)
    /\ scorers \subseteq Buckets \union {Global}
    /\ absorbed \subseteq Buckets \union {Global}
    /\ Policy!PolicyTypeOK

\* A streak that runs across buckets and baselines, with the mute a spike or a
\* drift starts, raises an alert exactly where the policy does
\* (adaptive.py:200-274).
ImplementsPolicy == Policy!Spec

\* A bucket that is not warm yet has learned every window it was given, those
\* of a streak included, so that it takes over from the fallback after
\* BucketWarmup windows whatever the traffic (adaptive.py:276-283).
ColdBucketNeverStarves ==
    \A b \in Buckets : Fallback(b) => bucketN[b] = visits[b]

\* While the scoring of a streak stays with the buckets' own baselines, or
\* stays with the fallback, no baseline scores a window of the streak after
\* having learned another (adaptive.py:276-287).
StableUnlessHandover ==
    (scorers \subseteq Buckets \/ scorers \subseteq {Global}) =>
        scorers \intersect absorbed = {}

\* Whatever the order of the buckets, a drift measured from an anchor of this
\* visit follows more than SeedWindows calm windows of this visit
\* (adaptive.py:191-271).
DriftIsSeeded ==
    alert = "drift" /\ prevBucket \notin stale => calm > SeedWindows

\* An anchor outlives its visit only if the bucket was entered while the
\* feature was mute (adaptive.py:179-199).
AnchorsAgeOnlyInMute == [][stale' \subseteq stale \/ cooldown > 0]_vars
=============================================================================
