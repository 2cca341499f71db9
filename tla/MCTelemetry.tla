----------------------------- MODULE MCTelemetry -----------------------------
(* An instance of Telemetry for TLC.                                       *)
EXTENDS Telemetry

CONSTANTS trexec, leader, main

AllHolders == Procs \cup {Parent}
=============================================================================
