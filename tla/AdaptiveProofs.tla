--------------------------- MODULE AdaptiveProofs ---------------------------
(***************************************************************************)
(* The invariants of AdaptiveDetector, that it implements AlertPolicy, and *)
(* how soon a breach that does not end is reported, for every set of       *)
(* buckets, every residual and every tuning.                               *)
(***************************************************************************)
EXTENDS AdaptiveDetector, TLAPS

-----------------------------------------------------------------------------
(* The inductive invariant.                                                *)

\* The mute the code counts down is what is left of it since the last alert.
MuteIsPolicy == cooldown = Rectified(CooldownWindows - quiet)

\* The streak is what the breaches make of the windows since the mute.
StreakIsPolicy ==
    streak = IF quiet <= CooldownWindows THEN 0
             ELSE IF breaches < quiet - CooldownWindows THEN breaches
             ELSE quiet - CooldownWindows

\* While the fallback is cold, nothing was scored and no bucket is ahead of it.
ColdFallback ==
    globalN < GlobalWarmup =>
        /\ breaches = 0
        /\ cooldown = 0
        /\ \A b \in Buckets : bucketN[b] <= globalN

\* Buckets score what only the fallback learned, and the reverse.
SplitLearning ==
    /\ scorers \subseteq Buckets => absorbed \subseteq {Global}
    /\ scorers \subseteq {Global} => absorbed \subseteq Buckets

AnchoredIsTracked == \A b \in Buckets : chart[b].anchored => Tracked(b)

\* The seeds of the current anchor are calm windows of this visit.
SeedsAreCalm ==
    prevBucket \in Buckets \ stale /\ chart[prevBucket].anchored =>
        chart[prevBucket].seeds <= calm

PolicyInv == TypeOK /\ MuteIsPolicy /\ StreakIsPolicy /\ ColdFallback

ChartInv == TypeOK /\ AnchoredIsTracked /\ SeedsAreCalm /\ DriftIsSeeded

-----------------------------------------------------------------------------
(* Type correctness.                                                       *)

\* A count stays a count below its cap.
LEMMA CappedType ==
    ASSUME NEW cap \in Nat, NEW x \in 0..cap
    PROVE  Capped(x, cap) \in 0..cap /\ Capped(x, cap) >= x
BY DEF Capped

LEMMA DecrementedType ==
    ASSUME NEW cap \in Nat, NEW x \in 0..cap
    PROVE  Decremented(x) \in 0..cap
BY DEF Decremented

\* Resetting, seeding and feeding a chart makes a chart, but for the sums of
\* one that is to be reported.
LEMMA ResetType ==
    ASSUME NEW c \in Charts
    PROVE  ResetChart(c) \in Charts
BY AdaptiveAssumption DEF Charts, ResetChart

LEMMA TrackType ==
    ASSUME NEW c \in Charts, NEW r \in Residuals
    PROVE  /\ ResetChart(Track(c, r)) \in Charts
           /\ ~ Drifted(Track(c, r)) => Track(c, r) \in Charts
<1>1. Anchored \in Charts
  BY AdaptiveAssumption DEF Anchored, Charts
<1>2. ASSUME c.seeds < SeedWindows
      PROVE  Seed(c) \in Charts
  BY <1>2, AdaptiveAssumption DEF Seed, Charts
<1>3. /\ ResetChart(Accumulate(c, r)) \in Charts
      /\ ~ Drifted(Accumulate(c, r)) => Accumulate(c, r) \in Charts
  <2> DEFINE hi == Rectified(c.hi + r - CusumK)
             lo == Rectified(c.lo - r - CusumK)
  <2>1. hi \in Nat /\ lo \in Nat /\ c.anchored \in BOOLEAN /\ c.seeds \in 0..SeedWindows
    BY AdaptiveAssumption DEF Charts, Rectified
  <2>2. Accumulate(c, r) = [anchored |-> c.anchored, seeds |-> c.seeds, hi |-> hi, lo |-> lo]
    BY DEF Accumulate
  <2> HIDE DEF hi, lo
  <2>3. QED
    BY <2>1, <2>2, AdaptiveAssumption DEF ResetChart, Drifted, Charts
<1>4. QED
  BY <1>1, <1>2, <1>3, ResetType DEF Track

LEMMA OpenedType ==
    ASSUME TypeOK, NEW b \in Buckets
    PROVE  Opened(b) \in Charts
<1>1. chart[b] \in Charts
  BY DEF TypeOK
<1>2. NoChart \in Charts
  BY AdaptiveAssumption DEF NoChart, Charts
<1>3. QED
  BY <1>1, <1>2 DEF Opened

\* The parts of a step that every action shares.
LEMMA LearnType ==
    ASSUME TypeOK, NEW b \in Buckets, NEW frozen \in BOOLEAN,
           Learn(b, frozen)
    PROVE  /\ bucketN' \in [Buckets -> 0..BucketWarmup]
           /\ globalN' \in 0..GlobalWarmup
BY AdaptiveAssumption DEF TypeOK, Learn, Capped

LEMMA VisitType ==
    ASSUME TypeOK, NEW b \in Buckets, Visit(b)
    PROVE  /\ prevBucket' \in Buckets \union {NoBucket}
           /\ visits' \in [Buckets -> 0..BucketWarmup]
BY AdaptiveAssumption DEF TypeOK, Visit, Capped

LEMMA RecordType ==
    ASSUME TypeOK, NEW breach \in BOOLEAN, NEW kind \in {"none", "spike", "drift"},
           Policy!Record(breach, kind)
    PROVE  Policy!PolicyTypeOK'
BY AdaptiveAssumption
   DEF TypeOK, Policy!PolicyTypeOK, Policy!Record, Policy!Settled, Policy!AlertKinds,
       Policy!Capped

LEMMA ChartStaysType ==
    ASSUME TypeOK, NEW b \in Buckets, ChartStays(b)
    PROVE  /\ chart' \in [Buckets -> Charts]
           /\ stale' \subseteq Buckets
           /\ calm' \in 0..(SeedWindows + 1)
BY AdaptiveAssumption DEF TypeOK, ChartStays

LEMMA ChartBecomesType ==
    ASSUME TypeOK, NEW b \in Buckets, NEW c \in Charts, ChartBecomes(b, c)
    PROVE  /\ chart' \in [Buckets -> Charts]
           /\ stale' \subseteq Buckets
BY DEF TypeOK, ChartBecomes

LEMMA ChartOnBreachType ==
    ASSUME TypeOK, NEW b \in Buckets, ChartOnBreach(b)
    PROVE  /\ chart' \in [Buckets -> Charts]
           /\ stale' \subseteq Buckets
           /\ calm' \in 0..(SeedWindows + 1)
<1>1. CASE Tracked(b)
  <2>1. ChartBecomes(b, ResetChart(Opened(b)))
    BY <1>1 DEF ChartOnBreach
  <2>2. calm' \in 0..(SeedWindows + 1)
    BY <1>1, AdaptiveAssumption DEF TypeOK, ChartOnBreach
  <2>3. QED
    BY <2>1, <2>2, OpenedType, ResetType, ChartBecomesType
<1>2. CASE ~ Tracked(b)
  BY <1>2, ChartStaysType DEF ChartOnBreach
<1>3. QED
  BY <1>1, <1>2

LEMMA TypeStep ==
    ASSUME TypeOK, [Next]_vars
    PROVE  TypeOK'
<1>1. CASE UNCHANGED vars
  BY <1>1 DEF TypeOK, vars, detector, history, Policy!PolicyTypeOK
<1>2. ASSUME NEW b \in Buckets, Unscored(b)
      PROVE  TypeOK'
  <2>1. cooldown' \in 0..CooldownWindows
    BY <1>2, DecrementedType, AdaptiveAssumption DEF TypeOK, Unscored
  <2>2. QED
    BY <1>2, <2>1, LearnType, VisitType, RecordType, ChartStaysType DEF TypeOK, Unscored
<1>3. ASSUME NEW b \in Buckets, NEW breach \in BOOLEAN, Muted(b, breach)
      PROVE  TypeOK'
  <2>1. cooldown' \in 0..CooldownWindows
    BY <1>3, AdaptiveAssumption DEF TypeOK, Muted
  <2>2. QED
    BY <1>3, <2>1, LearnType, VisitType, RecordType, ChartStaysType DEF TypeOK, Muted
<1>4. ASSUME NEW b \in Buckets, Confirm(b)
      PROVE  TypeOK'
  <2>1. /\ cooldown' \in 0..CooldownWindows
        /\ streak' \in 0..(ConfirmWindows - 1)
    BY <1>4, AdaptiveAssumption DEF TypeOK, Confirm, StreakEnds
  <2>2. QED
    BY <1>4, <2>1, LearnType, VisitType, RecordType, ChartOnBreachType
    DEF TypeOK, Confirm, StreakEnds
<1>5. ASSUME NEW b \in Buckets, Hold(b)
      PROVE  TypeOK'
  <2>1. streak' \in 0..(ConfirmWindows - 1)
    BY <1>5, AdaptiveAssumption DEF TypeOK, Hold
  <2>2. /\ scorers' \subseteq Buckets \union {Global}
        /\ absorbed' \subseteq Buckets \union {Global}
    BY <1>5 DEF TypeOK, Hold, Scorer, Learners
  <2>3. QED
    BY <1>5, <2>1, <2>2, LearnType, VisitType, RecordType, ChartOnBreachType DEF TypeOK, Hold
<1>6. ASSUME NEW b \in Buckets, Calm(b)
      PROVE  TypeOK'
  <2>1. streak' \in 0..(ConfirmWindows - 1)
    BY <1>6, AdaptiveAssumption DEF TypeOK, Calm, StreakEnds
  <2>2. QED
    BY <1>6, <2>1, LearnType, VisitType, RecordType, ChartStaysType
    DEF TypeOK, Calm, StreakEnds
<1>7. ASSUME NEW b \in Buckets, NEW r \in Residuals, CalmTracked(b, r)
      PROVE  TypeOK'
  <2> DEFINE c == Track(Opened(b), r)
  <2>0. \/ Drifted(c) /\ cooldown' = CooldownWindows
        \/ ~ Drifted(c) /\ cooldown' = cooldown
    BY <1>7 DEF CalmTracked
  <2>1. /\ cooldown' \in 0..CooldownWindows
        /\ streak' \in 0..(ConfirmWindows - 1)
    <3>1. streak' = 0
      BY <1>7 DEF CalmTracked, StreakEnds
    <3>2. QED
      BY <2>0, <3>1, AdaptiveAssumption DEF TypeOK
  <2>2. calm' \in 0..(SeedWindows + 1)
    BY <1>7, AdaptiveAssumption DEF TypeOK, CalmTracked, Capped
  <2>3. ResetChart(c) \in Charts /\ (~ Drifted(c) => c \in Charts)
    BY OpenedType, TrackType
  <2>4. chart' \in [Buckets -> Charts] /\ stale' \subseteq Buckets
    BY <1>7, <2>3, ChartBecomesType DEF CalmTracked
  <2>5. Policy!PolicyTypeOK'
    BY <1>7, RecordType DEF CalmTracked
  <2>6. QED
    BY <1>7, <2>1, <2>2, <2>4, <2>5, LearnType, VisitType DEF TypeOK, CalmTracked, StreakEnds
<1>8. QED
  BY <1>1, <1>2, <1>3, <1>4, <1>5, <1>6, <1>7 DEF Next

LEMMA TypeInit == Init => TypeOK
BY AdaptiveAssumption
   DEF Init, TypeOK, Charts, NoChart, Policy!Init, Policy!PolicyTypeOK, Policy!Settled,
       Policy!AlertKinds

\* Every variable keeps its type; in particular the sums of a chart never stand
\* above the decision interval between two windows (adaptive.py:153-289).
THEOREM TypeCorrect == Spec => []TypeOK
BY TypeInit, TypeStep, PTL DEF Spec

-----------------------------------------------------------------------------
(* The counters of the code are functions of the policy's history, and so  *)
(* every step is a step of the policy.  The fallback has to be no slower   *)
(* to warm than a bucket, as every configuration of cli.py's defaults is.  *)

\* Learning a window keeps the fallback ahead of every cold bucket.
LEMMA ColdFallbackStep ==
    ASSUME PolicyInv, GlobalWarmup <= BucketWarmup,
           NEW b \in Buckets, NEW frozen \in BOOLEAN,
           Learn(b, frozen), frozen => Ready(b)
    PROVE  globalN' < GlobalWarmup =>
               /\ globalN < GlobalWarmup
               /\ ~ Ready(b)
               /\ \A a \in Buckets : bucketN'[a] <= globalN'
<1> SUFFICES ASSUME globalN' < GlobalWarmup
             PROVE  /\ globalN < GlobalWarmup
                    /\ ~ Ready(b)
                    /\ \A a \in Buckets : bucketN'[a] <= globalN'
  OBVIOUS
<1>1. /\ bucketN \in [Buckets -> 0..BucketWarmup]
      /\ globalN \in 0..GlobalWarmup
      /\ BucketWarmup \in Nat /\ GlobalWarmup \in Nat /\ Global \notin Buckets
  BY AdaptiveAssumption DEF PolicyInv, TypeOK
<1>2. globalN < GlobalWarmup
  BY <1>1 DEF Learn, Capped
<1>3. \A a \in Buckets : bucketN[a] <= globalN
  BY <1>2 DEF PolicyInv, ColdFallback
<1>4. Fallback(b) /\ ~ Ready(b)
  BY <1>1, <1>2, <1>3 DEF Fallback, Ready
<1>5. ~ frozen
  BY <1>4
<1>6. /\ globalN' = globalN + 1
      /\ bucketN' = [bucketN EXCEPT ![b] = Capped(@, BucketWarmup)]
  BY <1>1, <1>2, <1>5 DEF Learn, Learners, Capped
<1>7. \A a \in Buckets : bucketN'[a] <= globalN'
  BY <1>1, <1>3, <1>6 DEF Capped
<1>8. QED
  BY <1>2, <1>4, <1>7

\* What the policy's history says of the counters, with the facts about the
\* constants that its arithmetic needs.
LEMMA PolicyFacts ==
    ASSUME PolicyInv
    PROVE  /\ ConfirmWindows \in Nat \ {0} /\ CooldownWindows \in Nat
           /\ breaches \in 0..ConfirmWindows
           /\ quiet \in 0..Policy!Settled
           /\ streak \in 0..(ConfirmWindows - 1)
           /\ cooldown = Rectified(CooldownWindows - quiet)
           /\ StreakIsPolicy
BY AdaptiveAssumption DEF PolicyInv, TypeOK, Policy!PolicyTypeOK, MuteIsPolicy

LEMMA PolicyStep ==
    ASSUME PolicyInv, GlobalWarmup <= BucketWarmup, [Next]_vars
    PROVE  PolicyInv' /\ [Policy!Next]_(Policy!policyVars)
<1>f. /\ ConfirmWindows \in Nat \ {0} /\ CooldownWindows \in Nat
      /\ breaches \in 0..ConfirmWindows
      /\ quiet \in 0..(CooldownWindows + ConfirmWindows - 1)
      /\ streak \in 0..(ConfirmWindows - 1)
      /\ cooldown = Rectified(CooldownWindows - quiet)
      /\ StreakIsPolicy
  BY PolicyFacts DEF Policy!Settled
<1> USE <1>f
<1>t. TypeOK'
  BY TypeStep DEF PolicyInv
<1>1. CASE UNCHANGED vars
  <2>1. MuteIsPolicy' /\ StreakIsPolicy' /\ ColdFallback'
    BY <1>1 DEF PolicyInv, MuteIsPolicy, StreakIsPolicy, ColdFallback, vars, detector, history
  <2>2. UNCHANGED Policy!policyVars
    BY <1>1 DEF Policy!policyVars, vars, detector, history
  <2>3. QED
    BY <1>t, <2>1, <2>2 DEF PolicyInv
<1>2. ASSUME NEW b \in Buckets, Unscored(b)
      PROVE  PolicyInv' /\ Policy!Next
  <2>1. globalN < GlobalWarmup
    BY <1>2, AdaptiveAssumption DEF PolicyInv, TypeOK, Unscored, Ready
  <2>2. breaches = 0 /\ cooldown = 0 /\ streak = 0
    BY <2>1 DEF PolicyInv, ColdFallback, StreakIsPolicy, Policy!Settled
  <2>3. Policy!Record(FALSE, "none") /\ cooldown' = 0 /\ streak' = 0
    <3>1. Policy!Record(FALSE, "none")
      BY <1>2 DEF Unscored
    <3>2. cooldown' = Decremented(cooldown) /\ streak' = streak
      BY <1>2 DEF Unscored
    <3>3. cooldown' = 0 /\ streak' = 0
      BY <2>2, <3>2 DEF Decremented
    <3>4. QED
      BY <3>1, <3>3
  <2>4. breaches' = 0 /\ quiet' = Policy!Capped(quiet, Policy!Settled)
    BY <2>3 DEF Policy!Record
  <2>5. MuteIsPolicy' /\ StreakIsPolicy'
    BY <2>2, <2>3, <2>4
    DEF MuteIsPolicy, StreakIsPolicy, Rectified, Policy!Capped, Policy!Settled
  <2>6. ColdFallback'
    BY <1>2, <2>3, <2>4, ColdFallbackStep DEF Unscored, ColdFallback
  <2>7. Policy!Next
    BY <2>3 DEF Policy!Next, Policy!Silence, Policy!Confirms
  <2>8. QED
    BY <1>t, <2>5, <2>6, <2>7 DEF PolicyInv
<1>3. ASSUME NEW b \in Buckets, NEW breach \in BOOLEAN, Muted(b, breach)
      PROVE  PolicyInv' /\ Policy!Next
  <2>1. /\ quiet < CooldownWindows /\ streak = 0
        /\ cooldown' = cooldown - 1 /\ streak' = 0
    BY <1>3 DEF Muted, Rectified, StreakIsPolicy
  <2>2. Policy!Record(breach, "none")
    BY <1>3 DEF Muted
  <2>3. quiet' = quiet + 1
    BY <2>1, <2>2 DEF Policy!Record, Policy!Capped, Policy!Settled
  <2>4. MuteIsPolicy' /\ StreakIsPolicy'
    BY <2>1, <2>3 DEF MuteIsPolicy, StreakIsPolicy, Rectified
  <2>5. ColdFallback'
    BY <1>3, ColdFallbackStep DEF Muted, ColdFallback
  <2>6. Policy!Next
    BY <2>1, <2>2 DEF Policy!Next, Policy!Silence, Policy!Confirms, Policy!Settled
  <2>7. QED
    BY <1>t, <2>4, <2>5, <2>6 DEF PolicyInv
<1>4. ASSUME NEW b \in Buckets, Confirm(b)
      PROVE  PolicyInv' /\ Policy!Next
  <2>1. /\ streak = ConfirmWindows - 1 /\ quiet >= CooldownWindows
        /\ cooldown' = CooldownWindows /\ streak' = 0
    <3>1. /\ cooldown = 0 /\ streak + 1 >= ConfirmWindows
          /\ cooldown' = CooldownWindows /\ streak' = 0
      BY <1>4 DEF Confirm, StreakEnds
    <3>2. QED
      BY <3>1 DEF Rectified, Policy!Settled
  <2>2. breaches + 1 >= ConfirmWindows /\ quiet = Policy!Settled
    BY <2>1 DEF StreakIsPolicy, Policy!Settled
  <2>3. Policy!Record(TRUE, "spike")
    BY <1>4 DEF Confirm
  <2>4. quiet' = 0
    BY <2>3 DEF Policy!Record
  <2>5. MuteIsPolicy' /\ StreakIsPolicy'
    BY <2>1, <2>4 DEF MuteIsPolicy, StreakIsPolicy, Rectified
  <2>6. ColdFallback'
    BY <1>4, ColdFallbackStep DEF Confirm, ColdFallback
  <2>7. Policy!Next
    BY <2>2, <2>3 DEF Policy!Next, Policy!Spike, Policy!Confirms
  <2>8. QED
    BY <1>t, <2>5, <2>6, <2>7 DEF PolicyInv
<1>5. ASSUME NEW b \in Buckets, Hold(b)
      PROVE  PolicyInv' /\ Policy!Next
  <2>1. /\ cooldown = 0 /\ cooldown' = 0 /\ quiet >= CooldownWindows
        /\ streak + 1 < ConfirmWindows /\ streak' = streak + 1
    BY <1>5 DEF Hold, Rectified
  <2>2. Policy!Record(TRUE, "none")
    BY <1>5 DEF Hold
  <2>3. ~ Policy!Confirms(TRUE)
    BY <2>1 DEF Policy!Confirms, StreakIsPolicy, Policy!Settled
  <2>4. /\ breaches' = IF breaches < ConfirmWindows THEN breaches + 1 ELSE ConfirmWindows
        /\ quiet' = IF quiet < Policy!Settled THEN quiet + 1 ELSE Policy!Settled
    BY <2>2 DEF Policy!Record, Policy!Capped
  <2>5. MuteIsPolicy' /\ StreakIsPolicy'
    BY <2>1, <2>4 DEF MuteIsPolicy, StreakIsPolicy, Rectified, Policy!Settled
  <2>6. ColdFallback'
    BY <1>5, ColdFallbackStep DEF Hold, ColdFallback
  <2>7. Policy!Next
    BY <2>2, <2>3 DEF Policy!Next, Policy!Silence
  <2>8. QED
    BY <1>t, <2>5, <2>6, <2>7 DEF PolicyInv
<1>6. ASSUME NEW b \in Buckets, Calm(b)
      PROVE  PolicyInv' /\ Policy!Next
  <2>1. cooldown = 0 /\ cooldown' = 0 /\ streak' = 0 /\ Policy!Record(FALSE, "none")
    BY <1>6 DEF Calm, StreakEnds
  <2>2. breaches' = 0 /\ quiet' = Policy!Capped(quiet, Policy!Settled)
    BY <2>1 DEF Policy!Record
  <2>3. MuteIsPolicy' /\ StreakIsPolicy'
    BY <2>1, <2>2
    DEF MuteIsPolicy, StreakIsPolicy, Rectified, Policy!Capped, Policy!Settled
  <2>4. ColdFallback'
    BY <1>6, ColdFallbackStep DEF Calm, ColdFallback
  <2>5. Policy!Next
    BY <2>1 DEF Policy!Next, Policy!Silence, Policy!Confirms
  <2>6. QED
    BY <1>t, <2>3, <2>4, <2>5 DEF PolicyInv
<1>7. ASSUME NEW b \in Buckets, NEW r \in Residuals, CalmTracked(b, r)
      PROVE  PolicyInv' /\ Policy!Next
  <2>1. cooldown = 0 /\ streak' = 0
    BY <1>7 DEF CalmTracked, StreakEnds
  <2>2. \/ Policy!Record(FALSE, "drift") /\ cooldown' = CooldownWindows
        \/ Policy!Record(FALSE, "none") /\ cooldown' = cooldown
    BY <1>7 DEF CalmTracked
  <2>3. ColdFallback'
    BY <1>7, ColdFallbackStep DEF CalmTracked, ColdFallback
  <2>4. CASE Policy!Record(FALSE, "drift") /\ cooldown' = CooldownWindows
    <3>1. quiet' = 0 /\ quiet >= CooldownWindows
      BY <2>1, <2>4 DEF Policy!Record, Rectified, Policy!Settled
    <3>2. MuteIsPolicy' /\ StreakIsPolicy'
      BY <2>1, <2>4, <3>1 DEF MuteIsPolicy, StreakIsPolicy, Rectified
    <3>3. Policy!Next
      BY <2>4, <3>1 DEF Policy!Next, Policy!Drift
    <3>4. QED
      BY <1>t, <2>3, <3>2, <3>3 DEF PolicyInv
  <2>5. CASE Policy!Record(FALSE, "none") /\ cooldown' = cooldown
    <3>1. breaches' = 0 /\ quiet' = Policy!Capped(quiet, Policy!Settled)
      BY <2>5 DEF Policy!Record
    <3>2. MuteIsPolicy' /\ StreakIsPolicy'
      BY <2>1, <2>5, <3>1
      DEF MuteIsPolicy, StreakIsPolicy, Rectified, Policy!Capped, Policy!Settled
    <3>3. Policy!Next
      BY <2>5 DEF Policy!Next, Policy!Silence, Policy!Confirms
    <3>4. QED
      BY <1>t, <2>3, <3>2, <3>3 DEF PolicyInv
  <2>6. QED
    BY <2>2, <2>4, <2>5
<1>8. QED
  BY <1>1, <1>2, <1>3, <1>4, <1>5, <1>6, <1>7 DEF Next

LEMMA PolicyInit == Init => PolicyInv /\ Policy!Init
BY TypeInit, AdaptiveAssumption
   DEF Init, PolicyInv, MuteIsPolicy, StreakIsPolicy, ColdFallback, Rectified,
       Policy!Init, Policy!Settled

\* The streak and the mute of the code raise a spike exactly at the windows
\* the policy names, and a drift only where it allows one, whichever baseline
\* scores and wherever the bucket boundaries fall (adaptive.py:200-274).
THEOREM AdaptiveImplementsPolicy ==
    ASSUME GlobalWarmup <= BucketWarmup
    PROVE  Spec => ImplementsPolicy
<1>1. PolicyInv /\ [Next]_vars => PolicyInv' /\ [Policy!Next]_(Policy!policyVars)
  BY PolicyStep
<1>2. QED
  BY <1>1, PolicyInit, PTL DEF Spec, ImplementsPolicy, Policy!Spec

-----------------------------------------------------------------------------
(* What is learned.                                                        *)

LEMMA ColdBucketWindow ==
    ASSUME TypeOK, ColdBucketNeverStarves, NEW b \in Buckets, NEW frozen \in BOOLEAN,
           Visit(b), Learn(b, frozen)
    PROVE  ColdBucketNeverStarves'
<1>1. /\ bucketN \in [Buckets -> 0..BucketWarmup]
      /\ visits \in [Buckets -> 0..BucketWarmup]
      /\ BucketWarmup \in Nat /\ Global \notin Buckets
  BY AdaptiveAssumption DEF TypeOK
<1>2. SUFFICES ASSUME NEW a \in Buckets, bucketN'[a] < BucketWarmup
               PROVE  bucketN'[a] = visits'[a]
  BY DEF ColdBucketNeverStarves, Fallback
<1>3. CASE a # b
  <2>1. bucketN'[a] = bucketN[a] /\ visits'[a] = visits[a]
    BY <1>1, <1>3 DEF Learn, Visit
  <2>2. QED
    BY <1>2, <2>1 DEF ColdBucketNeverStarves, Fallback
<1>4. CASE a = b
  <2>1. bucketN[b] < BucketWarmup
    BY <1>1, <1>2, <1>4 DEF Learn, Capped
  <2>2. b \in Learners(b, frozen)
    BY <1>1, <2>1 DEF Learners, Scorer, Fallback
  <2>3. /\ bucketN'[b] = Capped(bucketN[b], BucketWarmup)
        /\ visits'[b] = Capped(visits[b], BucketWarmup)
    BY <1>1, <2>2 DEF Learn, Visit
  <2>4. bucketN[b] = visits[b]
    BY <2>1 DEF ColdBucketNeverStarves, Fallback
  <2>5. QED
    BY <1>4, <2>3, <2>4
<1>5. QED
  BY <1>3, <1>4

LEMMA ColdBucketStep ==
    ASSUME TypeOK, ColdBucketNeverStarves, [Next]_vars
    PROVE  ColdBucketNeverStarves'
<1>1. CASE UNCHANGED vars
  BY <1>1 DEF ColdBucketNeverStarves, Fallback, vars, detector, history
<1>2. CASE Next
  <2>1. \E b \in Buckets, frozen \in BOOLEAN : Visit(b) /\ Learn(b, frozen)
    BY <1>2 DEF Next, Unscored, Muted, Confirm, Hold, Calm, CalmTracked
  <2>2. QED
    BY <2>1, ColdBucketWindow
<1>3. QED
  BY <1>1, <1>2

\* A cold bucket learns every window it is given, those the fallback is frozen
\* for included, so it warms in BucketWarmup windows (adaptive.py:276-283).
THEOREM ColdBucketsWarm == Spec => []ColdBucketNeverStarves
<1>1. Init => ColdBucketNeverStarves
  BY DEF Init, ColdBucketNeverStarves
<1>2. QED
  BY <1>1, TypeInit, TypeStep, ColdBucketStep, PTL DEF Spec

LEMMA SplitLearningStep ==
    ASSUME SplitLearning, [Next]_vars
    PROVE  SplitLearning'
<1>1. CASE scorers' = {} /\ absorbed' = {}
  BY <1>1 DEF SplitLearning
<1>2. CASE UNCHANGED <<scorers, absorbed>>
  BY <1>2 DEF SplitLearning
<1>3. ASSUME NEW b \in Buckets, Hold(b)
      PROVE  SplitLearning'
  <2>1. /\ scorers' = scorers \union {Scorer(b)}
        /\ absorbed' = absorbed \union ({b, Global} \ {Scorer(b)})
    BY <1>3 DEF Hold, Learners
  <2>2. Scorer(b) \in {b, Global} /\ Global \notin Buckets
    BY AdaptiveAssumption DEF Scorer
  <2>3. QED
    BY <2>1, <2>2 DEF SplitLearning
<1>4. QED
  BY <1>1, <1>2, <1>3
  DEF Next, vars, history, Unscored, Muted, Confirm, Calm, CalmTracked, StreakEnds

\* As long as the scoring does not pass between a bucket and the fallback, a
\* streak is scored by baselines that learned none of it (adaptive.py:276-287).
THEOREM StreaksAreStable == Spec => []StableUnlessHandover
<1>1. Init => SplitLearning
  BY DEF Init, SplitLearning
<1>2. SplitLearning => StableUnlessHandover
  BY AdaptiveAssumption DEF SplitLearning, StableUnlessHandover
<1>3. QED
  BY <1>1, <1>2, SplitLearningStep, PTL DEF Spec

-----------------------------------------------------------------------------
(* The anchors of the CUSUM charts.                                        *)

\* A bucket that is tracked stays tracked.
LEMMA TrackedStays ==
    ASSUME TypeOK, NEW b \in Buckets, NEW frozen \in BOOLEAN, Learn(b, frozen),
           NEW a \in Buckets, Tracked(a)
    PROVE  Tracked(a)'
BY AdaptiveAssumption DEF TypeOK, Learn, Capped, Tracked, Fallback

\* The windows that leave the charts alone: the anchor of a bucket entered now
\* becomes one of an earlier visit.
LEMMA ChartStaysStep ==
    ASSUME ChartInv, NEW b \in Buckets, NEW frozen \in BOOLEAN,
           Visit(b), Learn(b, frozen), ChartStays(b), alert' # "drift"
    PROVE  AnchoredIsTracked' /\ SeedsAreCalm' /\ DriftIsSeeded'
<1>1. AnchoredIsTracked'
  BY TrackedStays DEF ChartInv, AnchoredIsTracked, ChartStays
<1>2. SeedsAreCalm'
  BY DEF ChartInv, TypeOK, SeedsAreCalm, Visit, ChartStays, Enters
<1>3. DriftIsSeeded'
  BY DEF DriftIsSeeded
<1>4. QED
  BY <1>1, <1>2, <1>3

\* The windows that set the chart of a tracked bucket.
LEMMA ChartBecomesStep ==
    ASSUME ChartInv, NEW b \in Buckets, NEW frozen \in BOOLEAN, NEW c \in Charts,
           Visit(b), Learn(b, frozen), ChartBecomes(b, c), Tracked(b),
           b \notin stale' /\ c.anchored => c.seeds <= calm'
    PROVE  AnchoredIsTracked' /\ SeedsAreCalm'
<1>1. chart' = [chart EXCEPT ![b] = c] /\ chart \in [Buckets -> Charts] /\ prevBucket' = b
  BY DEF ChartInv, TypeOK, ChartBecomes, Visit
<1>2. AnchoredIsTracked'
  <2>1. SUFFICES ASSUME NEW a \in Buckets, chart'[a].anchored
                 PROVE  Tracked(a)'
    BY DEF AnchoredIsTracked
  <2>2. Tracked(a)
    BY <1>1, <2>1 DEF ChartInv, AnchoredIsTracked
  <2>3. QED
    BY <2>2, TrackedStays DEF ChartInv
<1>3. SeedsAreCalm'
  BY <1>1 DEF SeedsAreCalm
<1>4. QED
  BY <1>2, <1>3

\* What the bucket's chart was opened with: seeds that are calm windows of this
\* visit, if the anchor is of this visit.
LEMMA OpenedSeeds ==
    ASSUME ChartInv, NEW b \in Buckets, Opened(b).anchored,
           ~ (~ Enters(b) /\ b \in stale)
    PROVE  ~ Enters(b) /\ Opened(b) = chart[b] /\ Opened(b).seeds <= calm
BY DEF ChartInv, Opened, NoChart, Enters, SeedsAreCalm

LEMMA ChartOnBreachStep ==
    ASSUME ChartInv, NEW b \in Buckets, NEW frozen \in BOOLEAN,
           Visit(b), Learn(b, frozen), ChartOnBreach(b), alert' # "drift"
    PROVE  AnchoredIsTracked' /\ SeedsAreCalm' /\ DriftIsSeeded'
<1>1. CASE ~ Tracked(b)
  BY <1>1, ChartStaysStep DEF ChartOnBreach
<1>2. CASE Tracked(b)
  <2> DEFINE c == ResetChart(Opened(b))
  <2>1. /\ ChartBecomes(b, c)
        /\ calm' = IF Enters(b) THEN 0 ELSE calm
    BY <1>2 DEF ChartOnBreach
  <2>2. c \in Charts /\ c.anchored = Opened(b).anchored /\ c.seeds = Opened(b).seeds
    BY OpenedType, ResetType DEF ChartInv, ResetChart
  <2>3. b \notin stale' /\ c.anchored => c.seeds <= calm'
    BY <2>1, <2>2, OpenedSeeds DEF ChartBecomes
  <2>4. AnchoredIsTracked' /\ SeedsAreCalm'
    <3> HIDE DEF c
    <3> QED
      BY <1>2, <2>1, <2>2, <2>3, ChartBecomesStep
  <2>5. QED
    BY <2>4 DEF DriftIsSeeded
<1>3. QED
  BY <1>1, <1>2

LEMMA CalmTrackedStep ==
    ASSUME ChartInv, NEW b \in Buckets, NEW r \in Residuals, CalmTracked(b, r)
    PROVE  AnchoredIsTracked' /\ SeedsAreCalm' /\ DriftIsSeeded'
<1> DEFINE o == Opened(b)
           c == Track(o, r)
           before == IF Enters(b) THEN 0 ELSE calm
<1>1. /\ TypeOK /\ Tracked(b) /\ Visit(b) /\ Learn(b, FALSE)
      /\ calm' = Capped(before, SeedWindows + 1)
  BY DEF ChartInv, CalmTracked
<1>2. /\ calm \in 0..(SeedWindows + 1) /\ before \in 0..(SeedWindows + 1)
      /\ SeedWindows \in Nat \ {0} /\ CusumH \in Nat
  BY <1>1, AdaptiveAssumption DEF TypeOK
<1>3. o \in Charts
  BY <1>1, OpenedType
<1>4. stale' = IF Enters(b) THEN stale \ {b} ELSE stale
  BY DEF CalmTracked, ChartBecomes
<1>5. b \notin stale' /\ o.anchored => o.seeds <= before
  BY <1>4, OpenedSeeds
<1>6. ASSUME b \notin stale', c.anchored
      PROVE  c.seeds <= calm'
  <2>0. o.seeds \in 0..SeedWindows /\ o.anchored \in BOOLEAN
    BY <1>3 DEF Charts
  <2>1. CASE ~ o.anchored
    BY <1>1, <1>2, <2>1 DEF Track, Anchored, Capped
  <2>2. CASE o.anchored /\ o.seeds < SeedWindows
    <3>1. c.seeds = o.seeds + 1
      BY <1>3, <2>2 DEF Track, Seed, Charts
    <3> HIDE DEF c, o, before
    <3>2. QED
      BY <1>1, <1>2, <1>5, <1>6, <2>0, <2>2, <3>1 DEF Capped
  <2>3. CASE o.anchored /\ ~ o.seeds < SeedWindows
    <3>1. c.seeds = o.seeds
      BY <2>3 DEF Track, Accumulate
    <3> HIDE DEF c, o, before
    <3>2. QED
      BY <1>1, <1>2, <1>5, <1>6, <2>0, <2>3, <3>1 DEF Capped
  <2>4. QED
    BY <2>0, <2>1, <2>2, <2>3
<1>7. ASSUME b \notin stale', Drifted(c)
      PROVE  calm' > SeedWindows
  <2>0. /\ o.seeds \in 0..SeedWindows /\ o.anchored \in BOOLEAN
        /\ o.hi \in 0..CusumH /\ o.lo \in 0..CusumH
    BY <1>3 DEF Charts
  <2>1. o.anchored
    BY <1>2, <1>7, <2>0 DEF Track, Anchored, Drifted
  <2>2. ~ o.seeds < SeedWindows
    <3>1. ASSUME o.seeds < SeedWindows
          PROVE  FALSE
      <4>1. c = Seed(o)
        BY <2>1, <3>1 DEF Track
      <4>2. c.hi = o.hi /\ c.lo = o.lo
        BY <1>3, <4>1 DEF Seed, Charts
      <4> HIDE DEF c, o
      <4>3. QED
        BY <1>2, <1>7, <2>0, <4>2 DEF Drifted
    <3>2. QED
      BY <3>1
  <2> HIDE DEF c, o, before
  <2>3. QED
    BY <1>1, <1>2, <1>5, <1>7, <2>0, <2>1, <2>2 DEF Capped
<1>8. CASE Drifted(c)
  <2>1. ChartBecomes(b, ResetChart(c)) /\ alert' = "drift"
    BY <1>8 DEF CalmTracked, Policy!Record
  <2>2. ResetChart(c) \in Charts
    BY <1>3, TrackType
  <2>3. ResetChart(c).anchored = c.anchored /\ ResetChart(c).seeds = c.seeds
    BY DEF ResetChart
  <2>4. AnchoredIsTracked' /\ SeedsAreCalm'
    <3> HIDE DEF c
    <3> QED
      BY <1>1, <1>6, <2>1, <2>2, <2>3, ChartBecomesStep
  <2>5. DriftIsSeeded'
    BY <1>1, <1>7, <1>8 DEF DriftIsSeeded, Visit
  <2>6. QED
    BY <2>4, <2>5
<1>9. CASE ~ Drifted(c)
  <2>1. ChartBecomes(b, c) /\ alert' = "none"
    BY <1>9 DEF CalmTracked, Policy!Record
  <2>2. c \in Charts
    BY <1>3, <1>9, TrackType
  <2>3. AnchoredIsTracked' /\ SeedsAreCalm'
    <3> HIDE DEF c
    <3> QED
      BY <1>1, <1>6, <2>1, <2>2, ChartBecomesStep
  <2>4. QED
    BY <2>1, <2>3 DEF DriftIsSeeded
<1>10. QED
  BY <1>8, <1>9

LEMMA ChartStep ==
    ASSUME ChartInv, [Next]_vars
    PROVE  ChartInv'
<1>t. TypeOK /\ TypeOK'
  BY TypeStep DEF ChartInv
<1>1. CASE UNCHANGED vars
  BY <1>1, <1>t
  DEF ChartInv, AnchoredIsTracked, SeedsAreCalm, DriftIsSeeded, Tracked, Fallback,
      vars, detector, history
<1>2. ASSUME NEW b \in Buckets, Unscored(b)
      PROVE  ChartInv'
  BY <1>2, <1>t, ChartStaysStep DEF ChartInv, Unscored, Policy!Record
<1>3. ASSUME NEW b \in Buckets, NEW breach \in BOOLEAN, Muted(b, breach)
      PROVE  ChartInv'
  BY <1>3, <1>t, ChartStaysStep DEF ChartInv, Muted, Policy!Record
<1>4. ASSUME NEW b \in Buckets, Confirm(b)
      PROVE  ChartInv'
  BY <1>4, <1>t, ChartOnBreachStep DEF ChartInv, Confirm, Policy!Record
<1>5. ASSUME NEW b \in Buckets, Hold(b)
      PROVE  ChartInv'
  BY <1>5, <1>t, ChartOnBreachStep DEF ChartInv, Hold, Policy!Record
<1>6. ASSUME NEW b \in Buckets, Calm(b)
      PROVE  ChartInv'
  BY <1>6, <1>t, ChartStaysStep DEF ChartInv, Calm, Policy!Record
<1>7. ASSUME NEW b \in Buckets, NEW r \in Residuals, CalmTracked(b, r)
      PROVE  ChartInv'
  BY <1>7, <1>t, CalmTrackedStep DEF ChartInv
<1>8. QED
  BY <1>1, <1>2, <1>3, <1>4, <1>5, <1>6, <1>7 DEF Next

LEMMA ChartInit == Init => ChartInv
BY TypeInit, AdaptiveAssumption
   DEF Init, ChartInv, AnchoredIsTracked, SeedsAreCalm, DriftIsSeeded, NoChart, Policy!Init

\* A drift measured from an anchor of this visit comes after SeedWindows calm
\* windows of it, in every order of the buckets (adaptive.py:191-271).
THEOREM DriftsAreSeeded == Spec => []DriftIsSeeded
<1>1. ChartInv => DriftIsSeeded
  BY DEF ChartInv
<1>2. QED
  BY <1>1, ChartInit, ChartStep, PTL DEF Spec

\* The mute is the only way an anchor outlives its visit: a bucket whose
\* windows are not scored, or not tracked, has none (adaptive.py:179-199).
THEOREM OnlyMuteKeepsAnchors == Spec => AnchorsAgeOnlyInMute
<1>1. ChartInv /\ [Next]_vars => [stale' \subseteq stale \/ cooldown > 0]_vars
  <2> SUFFICES ASSUME ChartInv, Next
               PROVE  stale' \subseteq stale \/ cooldown > 0
    OBVIOUS
  <2>1. ASSUME NEW b \in Buckets, ChartStays(b), ~ Tracked(b)
        PROVE  stale' \subseteq stale
    BY <2>1 DEF ChartInv, AnchoredIsTracked, ChartStays
  <2>2. ASSUME NEW b \in Buckets, Unscored(b)
        PROVE  stale' \subseteq stale
    BY <2>1, <2>2 DEF Unscored, Ready, Tracked
  <2>3. ASSUME NEW b \in Buckets, NEW breach \in BOOLEAN, Muted(b, breach)
        PROVE  cooldown > 0
    BY <2>3 DEF Muted
  <2>4. ASSUME NEW b \in Buckets, Confirm(b) \/ Hold(b)
        PROVE  stale' \subseteq stale
    BY <2>1, <2>4 DEF Confirm, Hold, ChartOnBreach, ChartBecomes
  <2>5. ASSUME NEW b \in Buckets, Calm(b)
        PROVE  stale' \subseteq stale
    BY <2>1, <2>5 DEF Calm
  <2>6. ASSUME NEW b \in Buckets, NEW r \in Residuals, CalmTracked(b, r)
        PROVE  stale' \subseteq stale
    BY <2>6 DEF CalmTracked, ChartBecomes
  <2>7. QED
    BY <2>2, <2>3, <2>4, <2>5, <2>6 DEF Next
<1>2. QED
  BY <1>1, ChartInit, ChartStep, PTL DEF Spec, AnchorsAgeOnlyInMute

-----------------------------------------------------------------------------
(* What holds of the alerts whatever the two warm-up lengths.              *)

\* No alert of either kind within the mute of the one before.
AlertIsSpaced == [][alert' # "none" => quiet >= CooldownWindows]_vars

LEMMA MuteStep ==
    ASSUME TypeOK, MuteIsPolicy, [Next]_vars
    PROVE  MuteIsPolicy' /\ (alert' = "none" \/ quiet >= CooldownWindows \/ UNCHANGED vars)
<1>f. /\ CooldownWindows \in Nat /\ ConfirmWindows \in Nat \ {0}
      /\ quiet \in 0..(CooldownWindows + ConfirmWindows - 1)
      /\ cooldown = Rectified(CooldownWindows - quiet)
  BY AdaptiveAssumption DEF TypeOK, Policy!PolicyTypeOK, Policy!Settled, MuteIsPolicy
<1> USE <1>f
<1>1. CASE UNCHANGED vars
  BY <1>1 DEF MuteIsPolicy, vars, detector, history
<1>2. ASSUME NEW breach \in BOOLEAN, Policy!Record(breach, "none"),
             cooldown' = Decremented(cooldown)
      PROVE  MuteIsPolicy' /\ alert' = "none"
  BY <1>2 DEF MuteIsPolicy, Rectified, Decremented, Policy!Record, Policy!Capped, Policy!Settled
<1>3. ASSUME NEW breach \in BOOLEAN, NEW kind \in {"spike", "drift"},
             Policy!Record(breach, kind), cooldown = 0, cooldown' = CooldownWindows
      PROVE  MuteIsPolicy' /\ quiet >= CooldownWindows
  <2>1. quiet' = 0
    BY <1>3 DEF Policy!Record
  <2>2. QED
    BY <1>3, <2>1 DEF MuteIsPolicy, Rectified
<1>4. ASSUME NEW b \in Buckets, Unscored(b) \/ \E breach \in BOOLEAN : Muted(b, breach)
      PROVE  MuteIsPolicy' /\ alert' = "none"
  BY <1>2, <1>4 DEF Unscored, Muted, Decremented
<1>5. ASSUME NEW b \in Buckets, Confirm(b)
      PROVE  MuteIsPolicy' /\ quiet >= CooldownWindows
  BY <1>3, <1>5 DEF Confirm
<1>6. ASSUME NEW b \in Buckets, Hold(b) \/ Calm(b)
      PROVE  MuteIsPolicy' /\ alert' = "none"
  <2>1. cooldown = 0 /\ cooldown' = 0
    BY <1>6 DEF Hold, Calm
  <2>2. \E breach \in BOOLEAN : Policy!Record(breach, "none")
    BY <1>6 DEF Hold, Calm
  <2>3. cooldown' = Decremented(cooldown)
    BY <2>1 DEF Decremented
  <2>4. QED
    BY <1>2, <2>2, <2>3
<1>7. ASSUME NEW b \in Buckets, NEW r \in Residuals, CalmTracked(b, r)
      PROVE  MuteIsPolicy' /\ (alert' = "none" \/ quiet >= CooldownWindows)
  <2>1. cooldown = 0
    BY <1>7 DEF CalmTracked
  <2>2. CASE Policy!Record(FALSE, "drift") /\ cooldown' = CooldownWindows
    BY <1>3, <2>1, <2>2
  <2>3. CASE Policy!Record(FALSE, "none") /\ cooldown' = cooldown
    <3>1. cooldown' = Decremented(cooldown)
      BY <2>1, <2>3 DEF Decremented
    <3>2. QED
      BY <1>2, <2>3, <3>1
  <2>4. QED
    BY <1>7, <2>2, <2>3 DEF CalmTracked
<1>8. QED
  BY <1>1, <1>4, <1>5, <1>6, <1>7 DEF Next

\* Whichever baseline scores, and even where the fallback warms after a bucket
\* and the policy is not implemented, an alert is followed by CooldownWindows
\* windows without one (adaptive.py:178-186, 229, 271-274).
THEOREM AlertsAreSpaced == Spec => AlertIsSpaced
<1>1. TypeOK /\ MuteIsPolicy /\ [Next]_vars
          => [alert' # "none" => quiet >= CooldownWindows]_vars
  BY MuteStep
<1>2. Init => MuteIsPolicy
  BY AdaptiveAssumption DEF Init, MuteIsPolicy, Rectified, Policy!Init, Policy!Settled
<1>3. QED
  BY <1>1, <1>2, TypeInit, TypeStep, MuteStep, PTL DEF Spec, AlertIsSpaced

\* What is left of the mute and of the streak: at most this many breaches.
BreachesLeft == cooldown + ConfirmWindows - streak

\* Each scored breach brings the report nearer, across buckets and baselines,
\* or is it.
BreachesLeadToReport ==
    [][breaches' > 0 => alert' = "spike" \/ BreachesLeft' < BreachesLeft]_vars

\* A breach that never ends, in whatever buckets it is scored, is reported
\* within CooldownWindows + ConfirmWindows scored windows: the mute and the
\* streak only run down, and no change of bucket winds them up again
\* (adaptive.py:178-186, 203-234, 273-274).
THEOREM BreachesAreReported ==
    Spec => /\ [](BreachesLeft \in 1..(CooldownWindows + ConfirmWindows))
            /\ BreachesLeadToReport
<1>1. TypeOK => BreachesLeft \in 1..(CooldownWindows + ConfirmWindows)
  BY AdaptiveAssumption DEF TypeOK, BreachesLeft
<1>2. TypeOK /\ [Next]_vars =>
          [breaches' > 0 => alert' = "spike" \/ BreachesLeft' < BreachesLeft]_vars
  <2>1. SUFFICES ASSUME TypeOK, NEW b \in Buckets,
                        \/ Unscored(b)
                        \/ \E breach \in BOOLEAN : Muted(b, breach)
                        \/ Confirm(b)
                        \/ Hold(b)
                        \/ Calm(b)
                        \/ \E r \in Residuals : CalmTracked(b, r),
                        breaches' > 0
                 PROVE  alert' = "spike" \/ BreachesLeft' < BreachesLeft
    BY DEF Next
  <2>2. /\ cooldown \in Nat /\ streak \in Nat /\ ConfirmWindows \in Nat
    BY <2>1, AdaptiveAssumption DEF TypeOK
  <2>3. ASSUME NEW breach \in BOOLEAN, Muted(b, breach)
        PROVE  BreachesLeft' < BreachesLeft
    <3>1. cooldown' = cooldown - 1 /\ streak' = streak
      BY <2>3 DEF Muted
    <3>2. QED
      BY <2>2, <3>1 DEF BreachesLeft
  <2>4. ASSUME Confirm(b)
        PROVE  alert' = "spike"
    BY <2>4 DEF Confirm, Policy!Record
  <2>5. ASSUME Hold(b)
        PROVE  BreachesLeft' < BreachesLeft
    <3>1. cooldown' = cooldown /\ streak' = streak + 1
      BY <2>5 DEF Hold
    <3>2. QED
      BY <2>2, <3>1 DEF BreachesLeft
  <2>6. ASSUME Unscored(b) \/ Calm(b) \/ \E r \in Residuals : CalmTracked(b, r)
        PROVE  breaches' = 0
    <3>1. \E kind \in {"none", "drift"} : Policy!Record(FALSE, kind)
      BY <2>6 DEF Unscored, Calm, CalmTracked
    <3>2. QED
      BY <3>1 DEF Policy!Record
  <2>7. QED
    BY <2>1, <2>3, <2>4, <2>5, <2>6
<1>3. QED
  BY <1>1, <1>2, TypeInit, TypeStep, PTL DEF Spec, BreachesLeadToReport
=============================================================================
