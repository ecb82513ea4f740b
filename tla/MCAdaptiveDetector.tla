------------------------- MODULE MCAdaptiveDetector -------------------------
(* Constants of the TLC runs of AdaptiveDetector. *)
EXTENDS AdaptiveDetector, TLC

CONSTANTS b1, b2, b3

MCBuckets == {b1, b2, b3}
MCResiduals == -3..3

BucketSymmetry == Permutations(MCBuckets)
=============================================================================
