----------------------------- MODULE AlertPolicy -----------------------------
(***************************************************************************)
(* What both statistical detectors promise about one feature, stated over  *)
(* the history of that feature and with none of the detectors' counters:   *)
(*                                                                         *)
(*   - a spike is raised at the first window that ends ConfirmWindows      *)
(*     consecutive breaches, all of them later than the mute that follows  *)
(*     the previous alert, and at no other window;                         *)
(*   - a drift may be raised only at a window that is not a breach and     *)
(*     lies outside the mute;                                              *)
(*   - the mute is exactly the CooldownWindows windows after an alert.     *)
(*                                                                         *)
(* It is the contract of the docstrings of BaselineDetector                *)
(* (detect.py:126-135) and AdaptiveDetector (adaptive.py:49-58), and the   *)
(* specification the two modules of those names are shown to implement.    *)
(***************************************************************************)
EXTENDS Counters

CONSTANTS
    ConfirmWindows,  \* consecutive breaches that make an alert, at least 1
    CooldownWindows  \* windows the feature stays mute after an alert

VARIABLES
    breaches,  \* windows breached in a row up to now (saturates at ConfirmWindows)
    quiet,     \* windows since the last alert (saturates at Settled)
    alert      \* what the last window raised

policyVars == <<breaches, quiet, alert>>

AlertKinds == {"none", "spike", "drift"}

\* From this many quiet windows on, the previous alert no longer matters.
Settled == CooldownWindows + ConfirmWindows - 1

PolicyTypeOK ==
    /\ breaches \in 0..ConfirmWindows
    /\ quiet \in 0..Settled
    /\ alert \in AlertKinds

Init ==
    /\ breaches = 0
    /\ quiet = Settled
    /\ alert = "none"

\* The history one window adds.
Record(breach, kind) ==
    /\ breaches' = IF breach THEN Capped(breaches, ConfirmWindows) ELSE 0
    /\ quiet' = IF kind = "none" THEN Capped(quiet, Settled) ELSE 0
    /\ alert' = kind

\* The breach that completes a confirmation outside every mute.
Confirms(breach) ==
    /\ breach
    /\ breaches + 1 >= ConfirmWindows
    /\ quiet = Settled

Spike ==
    /\ Confirms(TRUE)
    /\ Record(TRUE, "spike")

Drift ==
    /\ quiet >= CooldownWindows
    /\ Record(FALSE, "drift")

Silence(breach) ==
    /\ ~ Confirms(breach)
    /\ Record(breach, "none")

Next ==
    \/ Spike
    \/ Drift
    \/ \E breach \in BOOLEAN : Silence(breach)

Spec == Init /\ [][Next]_policyVars
=============================================================================
