---------------------------- MODULE MCWindowsJob ----------------------------
(* An instance of WindowsJob for TLC.                                      *)
EXTENDS WindowsJob, TLC

CONSTANTS leader, worker, helper, late

Descendants == Permutations({worker, helper, late})
=============================================================================
