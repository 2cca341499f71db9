---------------------------- MODULE MCSupervisor ----------------------------
(* Model values and definitions for the run of Supervisor: one worker that *)
(* is restarted once when it fails, one that is never restarted.           *)
EXTENDS Supervisor

CONSTANTS web, job, main, other

OnceOrNever == [w \in Workers |-> IF w = web THEN "onfailure" ELSE "never"]
OneBudget   == [w \in Workers |-> IF w = web THEN 1 ELSE 0]
=============================================================================
