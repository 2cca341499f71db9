----------------------------- MODULE MCReloader -----------------------------
(* Model values for the runs of Reloader.                                  *)
EXTENDS Reloader, TLC

CONSTANTS first, second, page, style

AnyRun == Permutations(Sessions)
=============================================================================
