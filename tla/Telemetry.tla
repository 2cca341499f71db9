------------------------------ MODULE Telemetry ------------------------------
(***************************************************************************)
(* What a program is told of a Runner while it runs: the callback of       *)
(* WithOnStateChange (runner.go), pollMetrics behind                       *)
(* WithMetricsPollInterval, and the sink both feed (telemetry).            *)
(*                                                                         *)
(* transition and forceTransition start a goroutine per callback.  Nothing *)
(* orders these goroutines, so their deliveries are counted, not queued.   *)
(* pollMetrics is one goroutine, and its snapshots come in order: the last *)
(* one is kept.  Neither is waited for by Wait.                            *)
(***************************************************************************)
EXTENDS Runner

VARIABLES
  pending,         \* callback goroutines started and not yet run, per state
  reported,        \* deliveries to the sink, per state
  poller,          \* where pollMetrics is
  seen,            \* the state it read, until it has told it
  snapshot         \* the last TreeMetrics it handed to the callback

sinkVars  == <<pending, reported>>
pollVars  == <<poller, seen, snapshot>>
toldVars  == <<sinkVars, pollVars>>
allVars   == <<vars, toldVars>>

NoSnapshot == [state |-> "Created", active |-> 0]

TelemetryTypeOK ==
  /\ pending \in [States -> Nat]
  /\ reported \in [States -> Nat]
  /\ poller \in {"none", "select", "emit", "last", "returned"}
  /\ seen \in States
  /\ snapshot \in [state : States, active : Nat]

ToldInit ==
  /\ pending = [s \in States |-> 0]
  /\ reported = [s \in States |-> 0]
  /\ poller = "none" /\ seen = "Created" /\ snapshot = NoSnapshot

TInit == Init /\ ToldInit

-----------------------------------------------------------------------------
(* forceTransition calls back even when the state was Done already.        *)
Forced ==
  \E c \in Callers :
    \/ pc[c] \in StartPcs /\ pc'[c] = "failed"
    \/ pc[c] = "close" /\ pc'[c] = "returned"

(* Mutant of Notify: the old state is passed to the goroutine.             *)
NotifyOld ==
  pending' = IF state' # state \/ Forced THEN [pending EXCEPT ![state] = @ + 1]
             ELSE pending

Notify ==
  pending' = IF state' # state \/ Forced THEN [pending EXCEPT ![state'] = @ + 1]
             ELSE pending

(* Start launches pollMetrics after waitForProcess.                        *)
LaunchPoller ==
  poller' = IF waitGo = "none" /\ waitGo' = "waiting" THEN "select" ELSE poller

RunnerStep ==
  /\ Next
  /\ Notify /\ LaunchPoller
  /\ UNCHANGED <<reported, seen, snapshot>>

(* Mutant of RunCallback: the sink is full and drops the event.            *)
RunCallbackDrops(s) ==
  /\ pending[s] > 0
  /\ pending' = [pending EXCEPT ![s] = @ - 1]
  /\ UNCHANGED <<vars, reported, pollVars>>

(* EmitEvent of the sink, under its lock.                                  *)
RunCallback(s) ==
  /\ pending[s] > 0
  /\ pending' = [pending EXCEPT ![s] = @ - 1]
  /\ reported' = [reported EXCEPT ![s] = @ + 1]
  /\ UNCHANGED <<vars, pollVars>>

-----------------------------------------------------------------------------
(* The select of pollMetrics.  A tick that finds Done ends it without a    *)
(* last snapshot.                                                          *)
PollTick ==
  /\ poller = "select"
  /\ IF state = "Done" THEN poller' = "returned" /\ UNCHANGED seen
     ELSE poller' = "emit" /\ seen' = state
  /\ UNCHANGED <<vars, sinkVars, snapshot>>

(* Mutant of PollExit: the last snapshot does not look at the state.       *)
PollExitBlind ==
  /\ poller = "select" /\ procDone
  /\ poller' = "last"
  /\ seen' = "Running"
  /\ UNCHANGED <<vars, sinkVars, snapshot>>

PollExit ==
  /\ poller = "select" /\ procDone
  /\ poller' = "last"
  /\ seen' = state
  /\ UNCHANGED <<vars, sinkVars, snapshot>>

(* Nobody counted although the state says Running counts as one.           *)
Active(st) ==
  IF pids = {} /\ st = "Running" THEN 1 ELSE Cardinality(pids)

(* Mutant of PollEmit: the goroutine goes on after its last snapshot.      *)
PollEmitOn ==
  /\ poller \in {"emit", "last"}
  /\ snapshot' = [state |-> seen, active |-> Active(seen)]
  /\ poller' = "select" /\ seen' = "Created"
  /\ UNCHANGED <<vars, sinkVars>>

(* emitMetricsSnapshot, whose state may be old by now.                     *)
PollEmit ==
  /\ poller \in {"emit", "last"}
  /\ snapshot' = [state |-> seen, active |-> Active(seen)]
  /\ poller' = IF poller = "last" THEN "returned" ELSE "select"
  /\ seen' = "Created"
  /\ UNCHANGED <<vars, sinkVars>>

pollMetrics == PollTick \/ PollExit \/ PollEmit

TNext == RunnerStep \/ (\E s \in States : RunCallback(s)) \/ pollMetrics

(* Goroutines run and the callbacks "must not block".  The select of the   *)
(* poller chooses at random, so it does not pass over procDone for ever.   *)
TFairness ==
  /\ \A s \in States : WF_allVars(RunCallback(s))
  /\ WF_allVars(PollTick) /\ SF_allVars(PollExit) /\ WF_allVars(PollEmit)

TSafeSpec == TInit /\ [][TNext]_allVars
TSpec     == TSafeSpec /\ TFairness

-----------------------------------------------------------------------------
Told(s) == pending[s] + reported[s]

(* The callbacks may come in any order and after Wait, but none is lost or *)
(* doubled: whoever sorts them gets a lifecycle that ends in the Runner's  *)
(* state (runner.go:77-83, 95-99).  Excepted is a Wait before Start.       *)
EventsAreALifecycle ==
  ~EarlyWait =>
    /\ \A s \in States : Told(s) <= 1
    /\ \A s \in States \ {"Starting"} :
         Told(s) = 1 => \E r \in States : Told(r) = 1 /\ canTransition(r, s)
    /\ state # "Created" => Told(state) = 1

(* A snapshot that says Done counts no process and is the last one: the    *)
(* group is closed before the state is Done, and the goroutine returns     *)
(* (runner.go:232-242, 298-299).                                           *)
DoneSnapshotIsLast ==
  ~EarlyWait /\ snapshot.state = "Done"
    => poller = "returned" /\ snapshot.active = 0

Rank == [s \in States |->
          CASE s = "Created" -> 0 [] s = "Starting" -> 1 [] s = "Running" -> 2
            [] s = "Stopping" -> 3 [] s = "Killing" -> 4 [] s = "Done" -> 5]

(* The states of the snapshots never go back, although each was read       *)
(* before the processes were counted (runner.go:233-241).                  *)
SnapshotsInOrder ==
  [][Rank[snapshot.state] <= Rank[snapshot'.state]]_allVars

(* A program that waits for the Done event gets it, although Wait returns  *)
(* without waiting for the callback (runner.go:95-99).                     *)
DoneIsReported ==
  (\E c \in Callers : pc[c] = "returned") ~> (reported["Done"] > 0)

(* The poller does not outlive the command for ever, whether Wait is       *)
(* called or not, and whether it sees procDone or Done first               *)
(* (runner.go:231-243).                                                    *)
PollerEnds == procDone ~> (poller = "returned")

=============================================================================
