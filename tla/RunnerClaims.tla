---------------------------- MODULE RunnerClaims ----------------------------
(***************************************************************************)
(* What the documentation says of a Runner and the code does not keep.     *)
(* Each formula is checked by a run of its own that finds it violated; the *)
(* README gives the counterexamples.                                       *)
(***************************************************************************)
EXTENDS Runner

(* doc.go: "If processes remain, force-kill the entire tree."  A cancelled *)
(* Wait that has returned left nobody in the group unkilled.               *)
RemainingAreKilled ==
  (Returned /\ result.how # "natural") =>
    \A p \in member : Alive(p) => sig[p] = "kill"

(* result.go, of ExitCode: "0 means success".                              *)
ZeroMeansSuccess ==
  (result.how # "none" /\ result.code = "zero") => status = "ok"

=============================================================================
