--------------------------- MODULE RunnerContract ---------------------------
(***************************************************************************)
(* What a Runner promises its caller: the lifecycle drawn in the comment   *)
(* of type State (state.go) together with the outcome that the Result      *)
(* reports at the end of each path (result.go).                            *)
(*                                                                         *)
(*   Running -> Done                        the command ended by itself    *)
(*   Running -> Stopping -> Done            graceful shutdown              *)
(*   Running -> Stopping -> Killing -> Done forced kill                    *)
(*   Starting -> Done                       the command never started      *)
(*                                                                         *)
(* The outcome is visible only in Done, and Done is final.                 *)
(***************************************************************************)
EXTENDS Lifecycle

VARIABLES
  state,     \* the lifecycle state
  outcome    \* what the Result says; "none" until Done

contractVars == <<state, outcome>>

Outcomes == {"none", "natural", "graceful", "forced"}

Init == state = "Created" /\ outcome = "none"

Advance(from, to) ==
  /\ state = from
  /\ state' = to
  /\ outcome' = outcome

Finish(from, o) ==
  /\ state = from
  /\ state' = "Done"
  /\ outcome' = o

Launch      == Advance("Created", "Starting") \/ Advance("Starting", "Running")
LaunchFails == Finish("Starting", "none")
ExitAlone   == Finish("Running", "natural")
AskToStop   == Advance("Running", "Stopping")
ExitInGrace == Finish("Stopping", "graceful")
Escalate    == Advance("Stopping", "Killing")
Killed      == Finish("Killing", "forced")

Next == \/ Launch \/ LaunchFails \/ ExitAlone
        \/ AskToStop \/ ExitInGrace \/ Escalate \/ Killed

Spec == Init /\ [][Next]_contractVars

=============================================================================
