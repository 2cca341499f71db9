----------------------------- MODULE Supervisor -----------------------------
(***************************************************************************)
(* supervisor.go and worker.go: a pool of workers, each a goroutine that   *)
(* runs its command again and again as its restart policy says, and the    *)
(* calls Add, Start, Wait and Stop of any number of goroutines.            *)
(*                                                                         *)
(* Run of the Runner is one step here: it returns at any time, and after a *)
(* cancellation it does return (CancelledWaitReturns of Runner; a worker's *)
(* command has no stdin).  A Result is "ok", "fail" or "cancelled"; a Run  *)
(* that could not start returns the Result "nil".                          *)
(***************************************************************************)
EXTENDS Naturals, FiniteSets

CONSTANTS
  Workers,         \* the names a Spec may have
  Callers,         \* goroutines of the program that use the Supervisor
  Policy,          \* RestartPolicy of each worker: "never", "always", "onfailure"
  MaxRestarts,     \* of each worker; 0 means unlimited
  RestartCap       \* bound: the counters stop counting here

ASSUME SupervisorAssumption ==
  /\ IsFiniteSet(Workers)
  /\ Policy \in [Workers -> {"never", "always", "onfailure"}]
  /\ MaxRestarts \in [Workers -> Nat]
  /\ RestartCap \in Nat
  /\ \A w \in Workers : MaxRestarts[w] + 1 < RestartCap

VARIABLES
  registered,      \* keys of s.workers
  started, stopped,
  cancelled,       \* has s.cancel been called?
  parentDone,      \* is the context given to Start cancelled?
  toLaunch,        \* workers the loop of Start has not come to
  wg,              \* s.wg
  results,         \* s.results; "none" where there is no entry
  cpc,             \* where each caller is
  wpc,             \* where each worker is
  restarts,        \* w.restarts
  launches,        \* how often the command was run (not in the code)
  running,         \* w.running
  lastResult,      \* w.lastResult
  res              \* the local result of worker.run

poolVars == <<registered, started, stopped, cancelled, parentDone, toLaunch>>
loopVars == <<restarts, launches, running, lastResult, res>>
vars == <<poolVars, cpc, loopVars, wg, results, wpc>>

Outcomes == {"nil", "ok", "fail", "cancelled"}
Maps     == [Workers -> Outcomes \cup {"none"}]

TypeOK ==
  /\ registered \subseteq Workers /\ toLaunch \subseteq registered
  /\ started \in BOOLEAN /\ stopped \in BOOLEAN
  /\ cancelled \in BOOLEAN /\ parentDone \in BOOLEAN
  /\ wg \in Nat
  /\ results \in Maps
  /\ cpc \in [Callers -> {"idle", "launching", "waiting", "reading",
                            "cancelling", "draining"}]
  /\ wpc \in [Workers -> {"new", "top", "launch", "run", "ran", "backoff",
                          "returning", "recorded", "done"}]
  /\ restarts \in [Workers -> 0..RestartCap]
  /\ launches \in [Workers -> 0..RestartCap]
  /\ running \in [Workers -> BOOLEAN]
  /\ lastResult \in [Workers -> Outcomes]
  /\ res \in [Workers -> Outcomes]

Init ==
  /\ registered = {} /\ toLaunch = {}
  /\ started = FALSE /\ stopped = FALSE
  /\ cancelled = FALSE /\ parentDone = FALSE
  /\ wg = 0
  /\ results = [w \in Workers |-> "none"]
  /\ cpc = [c \in Callers |-> "idle"]
  /\ wpc = [w \in Workers |-> "new"]
  /\ restarts = [w \in Workers |-> 0]
  /\ launches = [w \in Workers |-> 0]
  /\ running = [w \in Workers |-> FALSE]
  /\ lastResult = [w \in Workers |-> "nil"]
  /\ res = [w \in Workers |-> "nil"]

supCtxDone == cancelled \/ parentDone

CountUp(n) == IF n < RestartCap THEN n + 1 ELSE n

-----------------------------------------------------------------------------
(***************************************************************************)
(* The calls.  A refused Add, Start or Stop changes nothing, and neither   *)
(* does a second Stop, which returns nil at once.                          *)
(***************************************************************************)
Add(c, w) ==
  /\ cpc[c] = "idle" /\ ~started /\ w \notin registered
  /\ registered' = registered \cup {w}
  /\ UNCHANGED <<started, stopped, cancelled, parentDone, toLaunch, cpc,
                 loopVars, wg, results, wpc>>

Start(c) ==
  /\ cpc[c] = "idle" /\ ~started
  /\ started' = TRUE
  /\ toLaunch' = registered
  /\ cpc' = [cpc EXCEPT ![c] = "launching"]
  /\ UNCHANGED <<registered, stopped, cancelled, parentDone, loopVars,
                 wg, results, wpc>>

(* Mutant of Launch: the worker is not added to the group.                 *)
LaunchUncounted(c, w) ==
  /\ cpc[c] = "launching" /\ w \in toLaunch
  /\ toLaunch' = toLaunch \ {w}
  /\ wpc' = [wpc EXCEPT ![w] = "top"]
  /\ UNCHANGED <<registered, started, stopped, cancelled, parentDone, cpc,
                 loopVars, wg, results>>

(* The loop of Start runs without the lock.                                *)
Launch(c, w) ==
  /\ cpc[c] = "launching" /\ w \in toLaunch
  /\ toLaunch' = toLaunch \ {w}
  /\ wg' = wg + 1
  /\ wpc' = [wpc EXCEPT ![w] = "top"]
  /\ UNCHANGED <<registered, started, stopped, cancelled, parentDone, cpc,
                 loopVars, results>>

StartReturns(c) ==
  /\ cpc[c] = "launching" /\ toLaunch = {}
  /\ cpc' = [cpc EXCEPT ![c] = "idle"]
  /\ UNCHANGED <<poolVars, loopVars, wg, results, wpc>>

Wait(c) ==
  /\ cpc[c] = "idle"
  /\ cpc' = [cpc EXCEPT ![c] = "waiting"]
  /\ UNCHANGED <<poolVars, loopVars, wg, results, wpc>>

GroupEmpty(c) ==
  /\ cpc[c] = "waiting" /\ wg = 0
  /\ cpc' = [cpc EXCEPT ![c] = "reading"]
  /\ UNCHANGED <<poolVars, loopVars, wg, results, wpc>>

WaitReturns(c) ==
  /\ cpc[c] = "reading"
  /\ cpc' = [cpc EXCEPT ![c] = "idle"]
  /\ UNCHANGED <<poolVars, loopVars, wg, results, wpc>>

Stop(c) ==
  /\ cpc[c] = "idle" /\ started /\ ~stopped
  /\ stopped' = TRUE
  /\ cpc' = [cpc EXCEPT ![c] = "cancelling"]
  /\ UNCHANGED <<registered, started, cancelled, parentDone, toLaunch,
                 loopVars, wg, results, wpc>>

(* Mutant of StopCancels: the context is not cancelled.                    *)
StopCancelsNothing(c) ==
  /\ cpc[c] = "cancelling"
  /\ cpc' = [cpc EXCEPT ![c] = "draining"]
  /\ UNCHANGED <<poolVars, loopVars, wg, results, wpc>>

StopCancels(c) ==
  /\ cpc[c] = "cancelling"
  /\ cancelled' = TRUE
  /\ cpc' = [cpc EXCEPT ![c] = "draining"]
  /\ UNCHANGED <<registered, started, stopped, parentDone, toLaunch, loopVars,
                 wg, results, wpc>>

(* Mutant of StopReturns: Stop does not wait for the group.                *)
StopReturnsAtOnce(c) ==
  /\ cpc[c] = "draining"
  /\ cpc' = [cpc EXCEPT ![c] = "idle"]
  /\ UNCHANGED <<poolVars, loopVars, wg, results, wpc>>

StopReturns(c) ==
  /\ cpc[c] = "draining" /\ wg = 0
  /\ cpc' = [cpc EXCEPT ![c] = "idle"]
  /\ UNCHANGED <<poolVars, loopVars, wg, results, wpc>>

(* The program cancels the context it gave to Start.                       *)
CancelParent ==
  /\ ~parentDone /\ parentDone' = TRUE
  /\ UNCHANGED <<registered, started, stopped, cancelled, toLaunch, cpc,
                 loopVars, wg, results, wpc>>

Call(c) ==
  \/ \E w \in Workers : Add(c, w) \/ Launch(c, w)
  \/ Start(c) \/ StartReturns(c)
  \/ Wait(c) \/ GroupEmpty(c) \/ WaitReturns(c)
  \/ Stop(c) \/ StopCancels(c) \/ StopReturns(c)

-----------------------------------------------------------------------------
(***************************************************************************)
(* worker.run.  The context is looked at three times: before a run, after  *)
(* it and in the backoff; a cancellation in between is seen at the next    *)
(* look, or ends the run.                                                  *)
(***************************************************************************)
GoTo(w, place) == wpc' = [wpc EXCEPT ![w] = place]

workerFrame == <<poolVars, cpc, wg>>

(* Mutant of CancelledBeforeRun: the last Result is forgotten.             *)
CancelledForgets(w) ==
  /\ wpc[w] = "top" /\ supCtxDone
  /\ GoTo(w, "returning")
  /\ running' = [running EXCEPT ![w] = FALSE]
  /\ res' = [res EXCEPT ![w] = "nil"]
  /\ UNCHANGED <<workerFrame, restarts, launches, lastResult, results>>

CancelledBeforeRun(w) ==
  /\ wpc[w] = "top" /\ supCtxDone
  /\ GoTo(w, "returning")
  /\ running' = [running EXCEPT ![w] = FALSE]
  /\ res' = [res EXCEPT ![w] = lastResult[w]]
  /\ UNCHANGED <<workerFrame, restarts, launches, lastResult, results>>

NotCancelled(w) ==
  /\ wpc[w] = "top" /\ ~supCtxDone
  /\ GoTo(w, "launch")
  /\ UNCHANGED <<workerFrame, loopVars, results>>

LaunchCommand(w) ==
  /\ wpc[w] = "launch"
  /\ GoTo(w, "run")
  /\ running' = [running EXCEPT ![w] = TRUE]
  /\ launches' = [launches EXCEPT ![w] = CountUp(@)]
  /\ UNCHANGED <<workerFrame, restarts, lastResult, res, results>>

(* Mutant of RunReturns: running is cleared only with a Result.            *)
RunReturnsRunning(w) ==
  /\ wpc[w] = "run"
  /\ \E o \in Outcomes :
       /\ o = "cancelled" => supCtxDone
       /\ res' = [res EXCEPT ![w] = o]
       /\ lastResult' = [lastResult EXCEPT ![w] = IF o = "nil" THEN @ ELSE o]
       /\ running' = [running EXCEPT ![w] = o = "nil"]
  /\ GoTo(w, "ran")
  /\ UNCHANGED <<workerFrame, restarts, launches, results>>

RunReturns(w) ==
  /\ wpc[w] = "run"
  /\ \E o \in Outcomes :
       /\ o = "cancelled" => supCtxDone
       /\ res' = [res EXCEPT ![w] = o]
       /\ lastResult' = [lastResult EXCEPT ![w] = IF o = "nil" THEN @ ELSE o]
  /\ running' = [running EXCEPT ![w] = FALSE]
  /\ GoTo(w, "ran")
  /\ UNCHANGED <<workerFrame, restarts, launches, results>>

(* Mutant of shouldRestart: a command that could not start is not a        *)
(* failure.                                                                *)
shouldRestartResult(w) ==
  \/ Policy[w] = "always"
  \/ Policy[w] = "onfailure" /\ res[w] \in {"fail", "cancelled"}

shouldRestart(w) ==
  \/ Policy[w] = "always"
  \/ Policy[w] = "onfailure" /\ res[w] # "ok"

(* Mutant of budgetSpent: an off-by-one.                                   *)
budgetOverspent(w) == MaxRestarts[w] > 0 /\ restarts[w] > MaxRestarts[w]

(* Mutant of budgetSpent: launches are counted, not restarts.              *)
budgetOfLaunches(w) == MaxRestarts[w] > 0 /\ restarts[w] + 1 >= MaxRestarts[w]

budgetSpent(w) == MaxRestarts[w] > 0 /\ restarts[w] >= MaxRestarts[w]

GiveUp(w) ==
  /\ wpc[w] = "ran"
  /\ supCtxDone \/ ~shouldRestart(w) \/ budgetSpent(w)
  /\ GoTo(w, "returning")
  /\ UNCHANGED <<workerFrame, loopVars, results>>

(* restarts is counted before the backoff, so a cancellation there leaves  *)
(* a restart that never happened.  The context may be cancelled between    *)
(* ctx.Err and here, which is as if it were cancelled right after.         *)
Restart(w) ==
  /\ wpc[w] = "ran"
  /\ ~supCtxDone /\ shouldRestart(w) /\ ~budgetSpent(w)
  /\ restarts' = [restarts EXCEPT ![w] = CountUp(@)]
  /\ GoTo(w, "backoff")
  /\ UNCHANGED <<workerFrame, launches, running, lastResult, res, results>>

(* The select may take either case when both are ready.                    *)
BackoffEnds(w) ==
  /\ wpc[w] = "backoff"
  /\ GoTo(w, "top")
  /\ UNCHANGED <<workerFrame, loopVars, results>>

BackoffCancelled(w) ==
  /\ wpc[w] = "backoff" /\ supCtxDone
  /\ GoTo(w, "returning")
  /\ UNCHANGED <<workerFrame, loopVars, results>>

(* The goroutine of Start around worker.run.                               *)
Record(w) ==
  /\ wpc[w] = "returning"
  /\ results' = [results EXCEPT ![w] = res[w]]
  /\ GoTo(w, "recorded")
  /\ UNCHANGED <<workerFrame, loopVars>>

(* Mutant of WgDone: Done is not deferred to after the result is stored.   *)
WgDoneFirst(w) ==
  /\ wpc[w] \in {"returning", "recorded"}
  /\ wg' = wg - 1
  /\ GoTo(w, "done")
  /\ UNCHANGED <<poolVars, cpc, loopVars, results>>

WgDone(w) ==
  /\ wpc[w] = "recorded"
  /\ wg' = wg - 1
  /\ GoTo(w, "done")
  /\ UNCHANGED <<poolVars, cpc, loopVars, results>>

WorkerStep(w) ==
  \/ CancelledBeforeRun(w) \/ NotCancelled(w) \/ LaunchCommand(w)
  \/ GiveUp(w) \/ Restart(w)
  \/ BackoffEnds(w) \/ BackoffCancelled(w)
  \/ Record(w) \/ WgDone(w)

Next ==
  \/ \E c \in Callers : Call(c)
  \/ \E w \in Workers : WorkerStep(w) \/ RunReturns(w)
  \/ CancelParent

SafeSpec == Init /\ [][Next]_vars

(***************************************************************************)
(* The scheduler runs every goroutine that can go on, and timers fire.  A  *)
(* command need not end by itself; once the context is cancelled Run       *)
(* returns.  The program need not call anything.                           *)
(***************************************************************************)
Fairness ==
  /\ \A w \in Workers : WF_vars(WorkerStep(w)) /\ WF_vars(supCtxDone /\ RunReturns(w))
  /\ \A c \in Callers :
       /\ \A w \in Workers : WF_vars(Launch(c, w))
       /\ WF_vars(StartReturns(c)) /\ WF_vars(GroupEmpty(c) \/ WaitReturns(c))
       /\ WF_vars(StopCancels(c)) /\ WF_vars(StopReturns(c))

Spec == SafeSpec /\ Fairness

-----------------------------------------------------------------------------
launched == {w \in Workers : wpc[w] \notin {"new", "done"}}

(* A command is run at most MaxRestarts times more than once, and once if  *)
(* the policy is never (worker.go:86-119).                                 *)
RestartBudget ==
  \A w \in Workers :
    /\ MaxRestarts[w] > 0 => launches[w] <= MaxRestarts[w] + 1
    /\ Policy[w] = "never" => launches[w] <= 1

(* What Status says of a worker agrees with its loop: Running exactly      *)
(* while a command runs, Restarts the number of launches or one less       *)
(* (worker.go:38-121).                                                     *)
StatusAgrees ==
  \A w \in Workers :
    /\ running[w] <=> wpc[w] = "run"
    /\ restarts[w] <= launches[w] /\ launches[w] <= restarts[w] + 1

(* Once the Stop that set stopped has returned, no command runs and none   *)
(* will, even if Start is still launching workers in another goroutine     *)
(* (supervisor.go:68-77, 107-115).                                         *)
StopDrains ==
  stopped /\ (\A c \in Callers : cpc[c] \notin {"cancelling", "draining"})
    => /\ supCtxDone
       /\ \A w \in Workers : wpc[w] \notin {"launch", "run", "ran", "backoff"}

(* When the group of a Wait empties after Start has launched all its       *)
(* workers, all of them are finished and the map Wait then copies has the  *)
(* entry of every registered worker (supervisor.go:68-77, 85-93).          *)
WaitIsComplete ==
  [][\A c \in Callers :
       cpc[c] = "waiting" /\ cpc'[c] = "reading" /\ started /\ toLaunch = {}
         => \A w \in registered : wpc[w] = "done" /\ results[w] # "none"]_vars

(* A worker gives up without a cancellation only when its last command     *)
(* succeeded, its policy is never, or its restarts are used up             *)
(* (worker.go:86-112).                                                     *)
FailuresAreRestarted ==
  \A w \in Workers :
    wpc[w] \in {"returning", "recorded", "done"} /\ ~supCtxDone
      => \/ Policy[w] = "never"
         \/ Policy[w] = "onfailure" /\ lastResult[w] = "ok" /\ res[w] = "ok"
         \/ MaxRestarts[w] > 0 /\ launches[w] = MaxRestarts[w] + 1

(* What Wait reads of a worker is final, and is the Result of its last     *)
(* run.  Only when that run could not start and the worker is cancelled    *)
(* before the next is it the Result of an earlier run, maybe a success     *)
(* (worker.go:39-44, supervisor.go:71-75).                                 *)
ResultIsOfLastRun ==
  [][\A w \in Workers :
       /\ results'[w] # results[w] => results[w] = "none" /\ results'[w] = res[w]
       /\ wpc[w] # "run" /\ res'[w] # res[w]
            => supCtxDone /\ res[w] = "nil" /\ res'[w] = lastResult[w]]_vars

(* The Stop that cancels returns, although commands need not end by        *)
(* themselves and workers may be in a backoff (supervisor.go:111-115).     *)
StopReturnsAtLast ==
  \A c \in Callers : cpc[c] = "cancelling" ~> cpc[c] = "idle"

restartDue(w) ==
  /\ wpc[w] = "ran" /\ res[w] = "fail" /\ Policy[w] # "never"
  /\ MaxRestarts[w] = 0 \/ launches[w] <= MaxRestarts[w]

(* A command that failed is run again as long as restarts are left, unless *)
(* the supervisor is told to stop (worker.go:92-121).                      *)
FailureRunsAgain ==
  \A w \in Workers : restartDue(w) ~> wpc[w] = "run" \/ supCtxDone
=============================================================================
