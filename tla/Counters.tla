------------------------------ MODULE Counters ------------------------------
(***************************************************************************)
(* The arithmetic of the small counters the detectors keep: windows seen,  *)
(* windows of cooldown left, consecutive breaches.                         *)
(***************************************************************************)
EXTENDS Integers

\* One more, saturating at cap: where the code only compares a count with a
\* threshold, every value from the threshold on is the same state.
Capped(x, cap) == IF x < cap THEN x + 1 ELSE cap

\* One less, never below zero.
Decremented(x) == IF x > 0 THEN x - 1 ELSE 0

\* max(0, x), the rectifier of the CUSUM chart.
Rectified(x) == IF x > 0 THEN x ELSE 0
=============================================================================
