------------------------------ MODULE MCBeacon ------------------------------
(* Constants of the TLC run of Beacon. *)
EXTENDS Beacon, TLC

CONSTANTS p, q, r

MCIps == {p, q, r}

IpSymmetry == Permutations(MCIps)
=============================================================================
