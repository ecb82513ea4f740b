--------------------------- MODULE BaselineProofs ---------------------------
(***************************************************************************)
(* The invariants of BaselineDetector, that it implements AlertPolicy, and *)
(* how soon a breach that does not end is reported, for every warm-up,     *)
(* confirmation and cooldown.                                              *)
(***************************************************************************)
EXTENDS BaselineDetector, TLAPS

\* The mute the code counts down is what is left of it since the last alert.
MuteIsPolicy == cooldown = Rectified(CooldownWindows - quiet)

\* The streak is what the breaches make of the windows since the mute.
StreakIsPolicy ==
    streak = IF quiet <= CooldownWindows THEN 0
             ELSE IF breaches < quiet - CooldownWindows THEN breaches
             ELSE quiet - CooldownWindows

\* A baseline that does not score has raised nothing.
ColdIsSilent == ~ Warm => breaches = 0 /\ cooldown = 0

\* The baseline is frozen only by the breaches of the streak that goes on.
FrozenByStreak == unlearned <= streak

Inv == TypeOK /\ MuteIsPolicy /\ StreakIsPolicy /\ ColdIsSilent /\ FrozenByStreak

-----------------------------------------------------------------------------

LEMMA InvInit == Init => Inv /\ Policy!Init
BY BaselineAssumption
   DEF Init, Inv, TypeOK, MuteIsPolicy, StreakIsPolicy, ColdIsSilent, FrozenByStreak,
       Rectified, Policy!Init, Policy!PolicyTypeOK, Policy!Settled, Policy!AlertKinds

\* The invariant with the facts about the constants its arithmetic needs.
LEMMA Facts ==
    ASSUME Inv
    PROVE  /\ ConfirmWindows \in Nat \ {0} /\ CooldownWindows \in Nat /\ WarmupWindows \in Nat
           /\ n \in 0..WarmupWindows
           /\ breaches \in 0..ConfirmWindows
           /\ quiet \in 0..(CooldownWindows + ConfirmWindows - 1)
           /\ streak \in 0..(ConfirmWindows - 1)
           /\ cooldown = Rectified(CooldownWindows - quiet)
           /\ cooldown \in 0..CooldownWindows
           /\ unlearned \in 0..ConfirmWindows /\ unlearned <= streak
           /\ alert \in {"none", "spike", "drift"}
           /\ StreakIsPolicy
BY BaselineAssumption
   DEF Inv, TypeOK, Policy!PolicyTypeOK, Policy!Settled, Policy!AlertKinds, MuteIsPolicy,
       FrozenByStreak

\* What learning and freezing leave of the counts, and what a window records.
LEMMA LearnStep ==
    ASSUME Inv, Learn
    PROVE  n' \in 0..WarmupWindows /\ n' >= n /\ unlearned' = 0
BY Facts DEF Learn, Capped

LEMMA RecordType ==
    ASSUME Inv, NEW breach \in BOOLEAN, NEW kind \in {"none", "spike", "drift"},
           Policy!Record(breach, kind)
    PROVE  Policy!PolicyTypeOK'
BY Facts
   DEF Policy!PolicyTypeOK, Policy!Record, Policy!Settled, Policy!AlertKinds, Policy!Capped

\* One window that is learned.
LEMMA LearnedWindow ==
    ASSUME Inv, Learn, NEW breach \in BOOLEAN, NEW kind \in {"none", "spike", "drift"},
           Policy!Record(breach, kind),
           parity' = 1 - parity,
           MuteIsPolicy', StreakIsPolicy', Warm \/ (breaches' = 0 /\ cooldown' = 0),
           streak' \in 0..(ConfirmWindows - 1), cooldown' \in 0..CooldownWindows
    PROVE  Inv'
<1>1. TypeOK'
  <2>1. Policy!PolicyTypeOK'
    BY RecordType
  <2>2. parity' \in {0, 1}
    BY DEF Inv, TypeOK
  <2>3. unlearned' \in 0..ConfirmWindows
    BY LearnStep, Facts
  <2>4. QED
    BY <2>1, <2>2, <2>3, LearnStep DEF TypeOK
<1>2. ColdIsSilent'
  <2>1. Warm => Warm'
    BY LearnStep, Facts DEF Warm
  <2>2. QED
    BY <2>1 DEF ColdIsSilent
<1>3. FrozenByStreak'
  BY LearnStep, Facts DEF FrozenByStreak
<1>4. QED
  BY <1>1, <1>2, <1>3 DEF Inv

LEMMA InvStep ==
    ASSUME Inv, [Next]_vars
    PROVE  Inv' /\ [Policy!Next]_(Policy!policyVars)
<1>f. /\ ConfirmWindows \in Nat \ {0} /\ CooldownWindows \in Nat
      /\ breaches \in 0..ConfirmWindows
      /\ quiet \in 0..(CooldownWindows + ConfirmWindows - 1)
      /\ streak \in 0..(ConfirmWindows - 1)
      /\ cooldown = Rectified(CooldownWindows - quiet)
      /\ cooldown \in 0..CooldownWindows
      /\ StreakIsPolicy
  BY Facts
<1>1. CASE UNCHANGED vars
  <2>1. Inv'
    BY <1>1
    DEF Inv, TypeOK, Policy!PolicyTypeOK, MuteIsPolicy, StreakIsPolicy, ColdIsSilent, Warm,
        FrozenByStreak, vars, detector, history
  <2>2. UNCHANGED Policy!policyVars
    BY <1>1 DEF Policy!policyVars, vars, detector, history
  <2>3. QED
    BY <2>1, <2>2
<1>2. ASSUME Unscored, parity' = 1 - parity
      PROVE  Inv' /\ Policy!Next
  <2>1. breaches = 0 /\ cooldown = 0 /\ streak = 0
    BY <1>2, <1>f DEF Inv, Unscored, ColdIsSilent, StreakIsPolicy
  <2>2. Policy!Record(FALSE, "none")
    BY <1>2 DEF Unscored
  <2>3. cooldown' = 0 /\ streak' = 0
    BY <1>2, <2>1 DEF Unscored, Decremented
  <2>4. breaches' = 0 /\ quiet' = Policy!Capped(quiet, Policy!Settled)
    BY <2>2 DEF Policy!Record
  <2>5. MuteIsPolicy' /\ StreakIsPolicy'
    BY <1>f, <2>1, <2>3, <2>4
    DEF MuteIsPolicy, StreakIsPolicy, Rectified, Policy!Capped, Policy!Settled
  <2>6. Learn
    BY <1>2 DEF Unscored
  <2>6a. streak' \in 0..(ConfirmWindows - 1) /\ cooldown' \in 0..CooldownWindows
    BY <1>f, <2>3
  <2>7. Inv'
    BY <1>2, <2>2, <2>3, <2>4, <2>5, <2>6, <2>6a, LearnedWindow
  <2>8. Policy!Next
    BY <2>2 DEF Policy!Next, Policy!Silence, Policy!Confirms
  <2>9. QED
    BY <2>7, <2>8
<1>3. ASSUME NEW breach \in BOOLEAN, Muted(breach), parity' = 1 - parity
      PROVE  Inv' /\ Policy!Next
  <2>1. /\ quiet < CooldownWindows /\ streak = 0
        /\ cooldown' = cooldown - 1 /\ streak' = 0
    BY <1>3, <1>f DEF Muted, Rectified, StreakIsPolicy
  <2>2. Policy!Record(breach, "none") /\ Learn /\ Warm
    BY <1>3 DEF Muted
  <2>3. quiet' = quiet + 1
    BY <1>f, <2>1, <2>2 DEF Policy!Record, Policy!Capped, Policy!Settled
  <2>4. MuteIsPolicy' /\ StreakIsPolicy' /\ cooldown' \in 0..CooldownWindows
    BY <1>f, <2>1, <2>3 DEF MuteIsPolicy, StreakIsPolicy, Rectified
  <2>5. Inv'
    BY <1>3, <1>f, <2>1, <2>2, <2>4, LearnedWindow
  <2>6. Policy!Next
    BY <1>f, <2>1, <2>2 DEF Policy!Next, Policy!Silence, Policy!Confirms, Policy!Settled
  <2>7. QED
    BY <2>5, <2>6
<1>4. ASSUME Confirm, parity' = 1 - parity
      PROVE  Inv' /\ Policy!Next
  <2>1. /\ streak = ConfirmWindows - 1 /\ quiet >= CooldownWindows
        /\ cooldown' = CooldownWindows /\ streak' = 0
    BY <1>4, <1>f DEF Confirm, Rectified
  <2>2. Policy!Record(TRUE, "spike") /\ Learn /\ Warm
    BY <1>4 DEF Confirm
  <2>3. breaches + 1 >= ConfirmWindows /\ quiet = Policy!Settled
    BY <1>f, <2>1 DEF StreakIsPolicy, Policy!Settled
  <2>4. quiet' = 0
    BY <2>2 DEF Policy!Record
  <2>5. MuteIsPolicy' /\ StreakIsPolicy'
    BY <1>f, <2>1, <2>4 DEF MuteIsPolicy, StreakIsPolicy, Rectified
  <2>5a. streak' \in 0..(ConfirmWindows - 1) /\ cooldown' \in 0..CooldownWindows
    BY <1>f, <2>1
  <2>6. Inv'
    BY <1>4, <2>2, <2>5, <2>5a, LearnedWindow
  <2>7. Policy!Next
    BY <2>2, <2>3 DEF Policy!Next, Policy!Spike, Policy!Confirms
  <2>8. QED
    BY <2>6, <2>7
<1>5. ASSUME Hold, parity' = 1 - parity
      PROVE  Inv' /\ Policy!Next
  <2>1. /\ cooldown = 0 /\ cooldown' = 0 /\ quiet >= CooldownWindows
        /\ streak + 1 < ConfirmWindows /\ streak' = streak + 1
        /\ n' = n /\ unlearned' = Capped(unlearned, ConfirmWindows)
    BY <1>5, <1>f DEF Hold, Rectified, Freeze
  <2>2. Policy!Record(TRUE, "none") /\ Warm
    BY <1>5 DEF Hold
  <2>3. ~ Policy!Confirms(TRUE)
    BY <1>f, <2>1 DEF Policy!Confirms, StreakIsPolicy, Policy!Settled
  <2>4. /\ breaches' = IF breaches < ConfirmWindows THEN breaches + 1 ELSE ConfirmWindows
        /\ quiet' = IF quiet < Policy!Settled THEN quiet + 1 ELSE Policy!Settled
    BY <2>2 DEF Policy!Record, Policy!Capped
  <2>5. MuteIsPolicy' /\ StreakIsPolicy'
    BY <1>f, <2>1, <2>4 DEF MuteIsPolicy, StreakIsPolicy, Rectified, Policy!Settled
  <2>6. FrozenByStreak' /\ unlearned' \in 0..ConfirmWindows
    BY <2>1, Facts DEF FrozenByStreak, Capped
  <2>7. TypeOK'
    <3>1. Policy!PolicyTypeOK'
      BY <2>2, RecordType
    <3>2. n' \in 0..WarmupWindows /\ parity' \in {0, 1}
      BY <1>5, <2>1 DEF Inv, TypeOK
    <3>3. streak' \in 0..(ConfirmWindows - 1) /\ cooldown' \in 0..CooldownWindows
      BY <1>f, <2>1
    <3>4. QED
      BY <2>6, <3>1, <3>2, <3>3 DEF TypeOK
  <2>8. ColdIsSilent'
    BY <2>1, <2>2 DEF ColdIsSilent, Warm
  <2>9. Policy!Next
    BY <2>2, <2>3 DEF Policy!Next, Policy!Silence
  <2>10. QED
    BY <2>5, <2>6, <2>7, <2>8, <2>9 DEF Inv
<1>6. ASSUME Calm, parity' = 1 - parity
      PROVE  Inv' /\ Policy!Next
  <2>1. /\ cooldown = 0 /\ cooldown' = 0 /\ streak' = 0
        /\ Policy!Record(FALSE, "none") /\ Learn /\ Warm
    BY <1>6 DEF Calm
  <2>2. breaches' = 0 /\ quiet' = Policy!Capped(quiet, Policy!Settled)
    BY <2>1 DEF Policy!Record
  <2>3. MuteIsPolicy' /\ StreakIsPolicy'
    BY <1>f, <2>1, <2>2
    DEF MuteIsPolicy, StreakIsPolicy, Rectified, Policy!Capped, Policy!Settled
  <2>3a. streak' \in 0..(ConfirmWindows - 1) /\ cooldown' \in 0..CooldownWindows
    BY <1>f, <2>1
  <2>4. Inv'
    BY <1>6, <2>1, <2>3, <2>3a, LearnedWindow
  <2>5. Policy!Next
    BY <2>1 DEF Policy!Next, Policy!Silence, Policy!Confirms
  <2>6. QED
    BY <2>4, <2>5
<1>7. QED
  BY <1>1, <1>2, <1>3, <1>4, <1>5, <1>6 DEF Next

-----------------------------------------------------------------------------

\* Every counter stays in its range (detect.py:148-210).
THEOREM TypeCorrect == Spec => []TypeOK
<1>1. Inv => TypeOK
  BY DEF Inv
<1>2. QED
  BY <1>1, InvInit, InvStep, PTL DEF Spec

\* A streak freezes the baseline for fewer than ConfirmWindows windows in a
\* row, and nothing else freezes it (detect.py:186-207).
THEOREM BaselineNeverStarves == Spec => []NeverStarves
<1>1. Inv => NeverStarves
  BY Facts DEF NeverStarves
<1>2. QED
  BY <1>1, InvInit, InvStep, PTL DEF Spec

\* The streak and the mute of the code raise an alert exactly at the windows
\* the policy names (detect.py:169-205).
THEOREM BaselineImplementsPolicy == Spec => ImplementsPolicy
<1>1. Inv /\ [Next]_vars => Inv' /\ [Policy!Next]_(Policy!policyVars)
  BY InvStep
<1>2. QED
  BY <1>1, InvInit, PTL DEF Spec, ImplementsPolicy, Policy!Spec

-----------------------------------------------------------------------------
(* How long an anomaly goes unreported.                                    *)

\* What is left of the mute and of the streak: at most this many breaches.
BreachesLeft == cooldown + ConfirmWindows - streak

\* Each scored breach brings the report nearer, or is it.
BreachesLeadToReport ==
    [][breaches' > 0 => alert' = "spike" \/ BreachesLeft' < BreachesLeft]_vars

\* An anomaly that never stops is reported within CooldownWindows +
\* ConfirmWindows scored windows: SustainedIsReported, without the fairness
\* that lets the windows come (detect.py:169-205).
THEOREM BreachesAreReported ==
    Spec => /\ [](BreachesLeft \in 1..(CooldownWindows + ConfirmWindows))
            /\ BreachesLeadToReport
<1>1. TypeOK => BreachesLeft \in 1..(CooldownWindows + ConfirmWindows)
  BY BaselineAssumption DEF TypeOK, BreachesLeft
<1>2. TypeOK /\ [Next]_vars =>
          [breaches' > 0 => alert' = "spike" \/ BreachesLeft' < BreachesLeft]_vars
  <2>1. SUFFICES ASSUME TypeOK,
                        \/ Unscored
                        \/ \E breach \in BOOLEAN : Muted(breach)
                        \/ Confirm
                        \/ Hold
                        \/ Calm,
                        breaches' > 0
                 PROVE  alert' = "spike" \/ BreachesLeft' < BreachesLeft
    BY DEF Next
  <2>2. /\ cooldown \in Nat /\ streak \in Nat /\ ConfirmWindows \in Nat
    BY <2>1, BaselineAssumption DEF TypeOK
  <2>3. ASSUME NEW breach \in BOOLEAN, Muted(breach)
        PROVE  BreachesLeft' < BreachesLeft
    <3>1. cooldown' = cooldown - 1 /\ streak' = streak
      BY <2>3 DEF Muted
    <3>2. QED
      BY <2>2, <3>1 DEF BreachesLeft
  <2>4. ASSUME Confirm
        PROVE  alert' = "spike"
    BY <2>4 DEF Confirm, Policy!Record
  <2>5. ASSUME Hold
        PROVE  BreachesLeft' < BreachesLeft
    <3>1. cooldown' = cooldown /\ streak' = streak + 1
      BY <2>5 DEF Hold
    <3>2. QED
      BY <2>2, <3>1 DEF BreachesLeft
  <2>6. ASSUME Unscored \/ Calm
        PROVE  breaches' = 0
    BY <2>6 DEF Unscored, Calm, Policy!Record
  <2>7. QED
    BY <2>1, <2>3, <2>4, <2>5, <2>6
<1>3. QED
  BY <1>1, <1>2, TypeCorrect, PTL DEF Spec, BreachesLeadToReport
=============================================================================
