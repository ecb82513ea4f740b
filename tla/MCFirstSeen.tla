---------------------------- MODULE MCFirstSeen ----------------------------
(* Constants of the TLC runs of FirstSeen. *)
EXTENDS FirstSeen, TLC

CONSTANTS p, q

MCIps == {p, q}

IpSymmetry == Permutations(MCIps)
=============================================================================
