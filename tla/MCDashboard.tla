----------------------------- MODULE MCDashboard -----------------------------
(* Instance of Dashboard for TLC: two alerts of two severities.            *)
EXTENDS Dashboard

CONSTANTS low, high

MCSevClass == <<low, high>>
=============================================================================
