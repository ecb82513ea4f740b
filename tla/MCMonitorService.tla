-------------------------- MODULE MCMonitorService --------------------------
(* Constants of the TLC runs of MonitorService. *)
EXTENDS MonitorService

CONSTANTS r1, r2

MCReaders == {r1, r2}
=============================================================================
