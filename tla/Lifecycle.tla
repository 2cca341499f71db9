------------------------------ MODULE Lifecycle ------------------------------
(***************************************************************************)
(* The states of a Runner and the table of legal transitions (state.go).   *)
(* The table is kept as a set of pairs: "to" may follow "from" when the    *)
(* pair is in it.  Done has no successor.                                  *)
(***************************************************************************)

States == {"Created", "Starting", "Running", "Stopping", "Killing", "Done"}

validTransitions ==
  { <<"Created",  "Starting">>,
    <<"Starting", "Running">>,  <<"Starting", "Done">>,
    <<"Running",  "Stopping">>, <<"Running",  "Done">>,
    <<"Stopping", "Killing">>,  <<"Stopping", "Done">>,
    <<"Killing",  "Done">> }

canTransition(from, to) == <<from, to>> \in validTransitions

=============================================================================
