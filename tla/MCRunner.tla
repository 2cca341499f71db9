------------------------------ MODULE MCRunner ------------------------------
(* Instances of Runner for TLC.                                            *)
EXTENDS RunnerClaims, TLC

CONSTANTS trexec, leader, worker, orphan, setuid, out, err, main, other

AllHolders == Procs \cup {Parent}

Bystanders == Permutations({worker, orphan})
=============================================================================
