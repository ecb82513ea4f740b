-------------------------- MODULE BaselineDetector --------------------------
(***************************************************************************)
(* detect.py: BaselineDetector, for one feature (the features of a window  *)
(* are handled by independent iterations of the same loop).                *)
(*                                                                         *)
(* The value of the feature is abstracted to the one bit the control flow  *)
(* reads, whether |z| reaches the threshold, and that bit is free: it may  *)
(* depend in any way on what was learned.  One action is one call of       *)
(* update() for the feature, split by the branch it takes.                 *)
(***************************************************************************)
EXTENDS Counters

CONSTANTS
    WarmupWindows,   \* samples before the baseline scores
    ConfirmWindows,  \* max(1, confirm_windows)
    CooldownWindows

ASSUME BaselineAssumption ==
    /\ WarmupWindows \in Nat
    /\ ConfirmWindows \in Nat \ {0}
    /\ CooldownWindows \in Nat

VARIABLES
    n,         \* _stats[name].n, saturating at WarmupWindows
    streak,    \* _streak[name]
    cooldown,  \* _cooldown[name]
    alert      \* what this update() returned for the feature

\* History, read by no action.
VARIABLES
    breaches, quiet,  \* the policy's view
    unlearned,        \* windows since the baseline last learned one, up to ConfirmWindows
    parity            \* of the windows handled: every window is a step

detector == <<n, streak, cooldown, alert>>
history == <<breaches, quiet, unlearned, parity>>
vars == <<detector, history>>

Policy == INSTANCE AlertPolicy

Init ==
    /\ n = 0
    /\ streak = 0
    /\ cooldown = 0
    /\ unlearned = 0
    /\ parity = 0
    /\ Policy!Init

Warm == n >= WarmupWindows

Learn ==
    /\ n' = Capped(n, WarmupWindows)
    /\ unlearned' = 0

Freeze ==
    /\ n' = n
    /\ unlearned' = Capped(unlearned, ConfirmWindows)

(* Slips, each a defect the properties below must tell from the code.      *)

MutedKeepsFrozen(breach) ==
    Warm /\ cooldown > 0 /\ cooldown' = cooldown - 1 /\ Freeze
        /\ Policy!Record(breach, "none") /\ UNCHANGED streak

MutedForever(breach) ==
    Warm /\ cooldown > 0 /\ Learn
        /\ Policy!Record(breach, "none") /\ UNCHANGED <<streak, cooldown>>

HoldOneMore ==
    Warm /\ cooldown = 0 /\ streak + 1 <= ConfirmWindows /\ streak' = streak + 1
        /\ Freeze /\ Policy!Record(TRUE, "none") /\ UNCHANGED cooldown

CalmKeepsStreak ==
    Warm /\ cooldown = 0 /\ Learn
        /\ Policy!Record(FALSE, "none") /\ UNCHANGED <<streak, cooldown>>

-----------------------------------------------------------------------------

\* Too few samples: the window is only learned.
Unscored ==
    /\ ~ Warm
    /\ cooldown' = Decremented(cooldown)
    /\ Learn
    /\ Policy!Record(FALSE, "none")
    /\ UNCHANGED streak

\* Mute: the window is only learned, breach or not.
Muted(breach) ==
    /\ Warm
    /\ cooldown > 0
    /\ cooldown' = cooldown - 1
    /\ Learn
    /\ Policy!Record(breach, "none")
    /\ UNCHANGED streak

\* The breach that completes a streak raises the alert and is learned.
Confirm ==
    /\ Warm
    /\ cooldown = 0
    /\ streak + 1 >= ConfirmWindows
    /\ streak' = 0
    /\ cooldown' = CooldownWindows
    /\ Learn
    /\ Policy!Record(TRUE, "spike")

\* Mid-streak the baseline is frozen, so that the streak can confirm.
Hold ==
    /\ Warm
    /\ cooldown = 0
    /\ streak + 1 < ConfirmWindows
    /\ streak' = streak + 1
    /\ Freeze
    /\ Policy!Record(TRUE, "none")
    /\ UNCHANGED cooldown

Calm ==
    /\ Warm
    /\ cooldown = 0
    /\ streak' = 0
    /\ Learn
    /\ Policy!Record(FALSE, "none")
    /\ UNCHANGED cooldown

Next ==
    /\ parity' = 1 - parity
    /\ \/ Unscored
       \/ \E breach \in BOOLEAN : Muted(breach)
       \/ Confirm
       \/ Hold
       \/ Calm

Spec == Init /\ [][Next]_vars

\* Traffic keeps coming, so windows keep being closed.
FairSpec == Spec /\ WF_vars(Next)

TypeOK ==
    /\ n \in 0..WarmupWindows
    /\ streak \in 0..(ConfirmWindows - 1)
    /\ cooldown \in 0..CooldownWindows
    /\ unlearned \in 0..ConfirmWindows
    /\ parity \in {0, 1}
    /\ Policy!PolicyTypeOK

\* streak and cooldown together raise an alert exactly where the policy does:
\* no confirmation is cut short or completed by breaches seen while mute, and
\* the mute is neither a window too long nor too short (detect.py:169-205).
ImplementsPolicy == Policy!Spec

\* Freezing the baseline mid-streak never keeps it from learning for
\* ConfirmWindows windows in a row, whatever the traffic does: a persistent
\* new level is always absorbed in the end (detect.py:196-207).
NeverStarves == unlearned < ConfirmWindows

\* An anomaly that never stops is reported again and again: the mute and the
\* streak that follows it always run out (detect.py:193-205).
SustainedIsReported == <>[](breaches > 0) => []<>(alert = "spike")
=============================================================================
