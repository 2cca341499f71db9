----------------------------- MODULE MCBackoff ------------------------------
(* Values for the runs of Backoff: units of 50ms, small enough to see the  *)
(* cap, a Min above Max, the defaults, every rounding of the jitter, and a *)
(* Max that is no Duration any more once the jitter is added.              *)
EXTENDS Backoff

SomeMins    == {-1, 0, 1, 3, 10}
SomeMaxs    == {-1, 0, 4, 9, 60}
SomeFactors == {0, 1, 2, 3}
SomeJitters == {0, 10, 50, 150}
=============================================================================
