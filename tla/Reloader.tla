------------------------------ MODULE Reloader ------------------------------
(***************************************************************************)
(* reloader.go: Run keeps a workload running and starts it again whenever  *)
(* its Watcher reports changes.  A session is one call of Run of the same  *)
(* Reloader, with its own context; a Run may follow another that returned. *)
(*                                                                         *)
(* The Runner of the workload is what Runner.tla shows of it: Wait returns *)
(* some time after the command exits or the context is cancelled.  The     *)
(* descendants it may leave behind (RemainingAreKilled) are not modelled.  *)
(***************************************************************************)
EXTENDS Watcher

VARIABLES
  running,         \* r.running
  run,             \* where each session is
  attempt,         \* attempt of each session
  loaded,          \* the files when the session last launched the workload
  workload,        \* sessions whose workload is alive
  workloadDone,    \* sessions whose workloadCtx is cancelled
  procFinished     \* sessions whose procFinished is closed

runVars == <<running, run, attempt, loaded, workload, workloadDone, procFinished>>
vars    == <<watchVars, runVars>>

TypeOK ==
  /\ WatcherTypes
  /\ running \in BOOLEAN
  /\ run \in [Sessions -> {"off", "refused", "begun", "top", "retry", "running",
                           "replacing", "draining", "exited", "returned"}]
  /\ attempt \in [Sessions -> Nat]
  /\ loaded \in [Sessions -> Trees]
  /\ workload \subseteq Sessions
  /\ workloadDone \subseteq Sessions /\ procFinished \subseteq Sessions

Init ==
  /\ WatcherInit
  /\ running = FALSE
  /\ run = [s \in Sessions |-> "off"]
  /\ attempt = [s \in Sessions |-> 1]
  /\ loaded = [s \in Sessions |-> NoFiles]
  /\ workload = {}
  /\ workloadDone = {} /\ procFinished = {}

GoTo(s, place) == run' = [run EXCEPT ![s] = place]

(* The deferred function of Run.                                           *)
Return(s) == GoTo(s, "returned") /\ running' = FALSE

frame == <<attempt, loaded, workload, procFinished>>

-----------------------------------------------------------------------------
RunRefused(s) ==
  /\ run[s] = "off" /\ running
  /\ GoTo(s, "refused")
  /\ UNCHANGED <<watchVars, running, frame, workloadDone>>

RunBegin(s) ==
  /\ run[s] = "off" /\ ~running
  /\ running' = TRUE
  /\ GoTo(s, "begun")
  /\ UNCHANGED <<watchVars, frame, workloadDone>>

RunWatches(s) ==
  /\ run[s] = "begun"
  /\ StartWatch(s)
  /\ GoTo(s, "top")
  /\ UNCHANGED <<running, frame, workloadDone>>

(* runner.Start; a cancelled context does not stop it.                     *)
Launch(s) ==
  /\ run[s] = "top"
  /\ loaded' = [loaded EXCEPT ![s] = disk]
  /\ workload' = workload \cup {s}
  /\ workloadDone' = workloadDone \ {s}
  /\ procFinished' = procFinished \ {s}
  /\ GoTo(s, "running")
  /\ UNCHANGED <<watchVars, running, attempt>>

LaunchFails(s) ==
  /\ run[s] = "top"
  /\ loaded' = [loaded EXCEPT ![s] = disk]
  /\ workloadDone' = workloadDone \cup {s}
  /\ IF s \in ctxDone THEN Return(s) ELSE GoTo(s, "retry") /\ UNCHANGED running
  /\ UNCHANGED <<watchVars, attempt, workload, procFinished>>

(* The goroutine that waits for the workload.                              *)
WorkloadEnds(s) ==
  /\ s \in workload
  /\ workload' = workload \ {s}
  /\ procFinished' = procFinished \cup {s}
  /\ UNCHANGED <<watchVars, running, run, attempt, loaded, workloadDone>>

(* workloadCtx is a child of ctx, so the workload may be told before.      *)
StopsWorkload(s) ==
  /\ run[s] = "running" /\ (s \in ctxDone \/ Closed(s))
  /\ workloadDone' = workloadDone \cup {s}
  /\ GoTo(s, "draining")
  /\ UNCHANGED <<watchVars, running, frame>>

Drained(s) ==
  /\ run[s] = "draining" /\ s \in procFinished
  /\ Return(s)
  /\ UNCHANGED <<watchVars, frame, workloadDone>>

SeesChange(s) ==
  /\ run[s] = "running"
  /\ Receive(s)
  /\ workloadDone' = workloadDone \cup {s}
  /\ GoTo(s, "replacing")
  /\ UNCHANGED <<running, frame>>

(* Mutant of Replaces: the old workload is not waited for.                 *)
ReplacesAtOnce(s) ==
  /\ run[s] = "replacing"
  /\ attempt' = [attempt EXCEPT ![s] = @ + 1]
  /\ GoTo(s, "top")
  /\ UNCHANGED <<watchVars, running, loaded, workload, workloadDone, procFinished>>

Replaces(s) ==
  /\ run[s] = "replacing" /\ s \in procFinished
  /\ attempt' = [attempt EXCEPT ![s] = @ + 1]
  /\ GoTo(s, "top")
  /\ UNCHANGED <<watchVars, running, loaded, workload, workloadDone, procFinished>>

SeesExit(s) ==
  /\ run[s] = "running" /\ s \in procFinished
  /\ workloadDone' = workloadDone \cup {s}
  /\ GoTo(s, "exited")
  /\ UNCHANGED <<watchVars, running, frame>>

(* The selects of a Run that has no workload.                              *)
RunsAgain(s) ==
  /\ run[s] \in {"retry", "exited"}
  /\ Receive(s)
  /\ attempt' = [attempt EXCEPT ![s] = @ + 1]
  /\ GoTo(s, "top")
  /\ UNCHANGED <<running, loaded, workload, workloadDone, procFinished>>

(* Mutant of ReturnsIdle: a Run whose launch failed does not look at ctx.  *)
ReturnsClosed(s) ==
  /\ run[s] = "exited" /\ Closed(s)
  /\ Return(s)
  /\ UNCHANGED <<watchVars, frame, workloadDone>>

ReturnsIdle(s) ==
  /\ run[s] \in {"retry", "exited"} /\ (s \in ctxDone \/ Closed(s))
  /\ Return(s)
  /\ UNCHANGED <<watchVars, frame, workloadDone>>

Run(s) ==
  \/ RunWatches(s) \/ Launch(s) \/ LaunchFails(s)
  \/ StopsWorkload(s) \/ Drained(s)
  \/ SeesChange(s) \/ Replaces(s)
  \/ SeesExit(s) \/ RunsAgain(s) \/ ReturnsIdle(s)

WatchStep ==
  /\ \/ \E f \in Files : Write(f) \/ Remove(f)
     \/ \E s \in Sessions : pollLoop(s) \/ CancelSession(s)
  /\ UNCHANGED runVars

Next ==
  \/ WatchStep
  \/ \E s \in Sessions : RunRefused(s) \/ RunBegin(s) \/ Run(s) \/ WorkloadEnds(s)

SafeSpec == Init /\ [][Next]_vars

(***************************************************************************)
(* The tickers tick, the debounce fires, and a select with several cases   *)
(* ready takes one at random, so it passes none over for ever.  A workload *)
(* that is told to stop ends (CancelledWaitReturns of Runner); any other   *)
(* may go on.  The edits are finite: without a pause in them the debounce  *)
(* would be reset again and again.                                         *)
(***************************************************************************)
Fairness ==
  \A s \in Sessions :
    /\ WF_vars((scan(s) \/ Compare(s)) /\ UNCHANGED runVars)
    /\ SF_vars(DebounceFires(s) /\ UNCHANGED runVars)
    /\ WF_vars(Send(s) /\ UNCHANGED runVars)
    /\ SF_vars(PollStops(s) /\ UNCHANGED runVars)
    /\ WF_vars(Run(s))
    /\ SF_vars(StopsWorkload(s) \/ ReturnsIdle(s))
    /\ WF_vars((s \in workloadDone \/ s \in ctxDone) /\ WorkloadEnds(s))

Spec == SafeSpec /\ Fairness

-----------------------------------------------------------------------------
(* However Run is called, no two workloads are alive, a Run that has       *)
(* returned has none, and none is launched beside an older one             *)
(* (reloader.go:69-79, 145-159).                                           *)
OneWorkload ==
  /\ \A s, t \in workload : s = t
  /\ \A s \in Sessions : run[s] \in {"top", "returned", "exited", "retry"} => s \notin workload

(* Whenever the workload was launched with files that have changed since,  *)
(* the change is on its way to Run: the next scan will see it, or it is    *)
(* pending, in the channel or received.  Only a file that came and went    *)
(* between two scans is missed (watcher.go:110-154, 214-231).              *)
changesAreDue(s) ==
  run[s] \in {"running", "exited", "retry"} /\ s \notin ctxDone
    => \A f \in Files :
         disk[f] # loaded[s][f]
           => disk[f] # knownFiles[f] \/ f \in underway(s) \/ f \in fleeting

(* No other pollLoop was ever started.                                     *)
alone(s) == \A t \in Sessions \ {s} : poll[t] = "off"

(* So it is for the first Run of a Reloader, until a second one starts a   *)
(* pollLoop beside its own (watcher.go:110-154).                           *)
ChangesAreDue == \A s \in Sessions : alone(s) => changesAreDue(s)

(* The workload of a first Run is not launched again more often than the   *)
(* files changed: a burst may be coalesced, no change is reported twice    *)
(* (watcher.go:118).                                                       *)
RestartsAreChanges == \A s \in Sessions : alone(s) => attempt[s] - 1 <= edits

(* Once the files are left alone, the last launch is of the newest files,  *)
(* unless the Run was cancelled (reloader.go:89-182).                      *)
NewestFilesRun ==
  \A s \in Sessions :
    <>[](run[s] \in {"off", "refused", "returned"} \/ s \in ctxDone
           \/ \A f \in Files : loaded[s][f] = disk[f] \/ f \in fleeting)

(* A cancelled Run returns (reloader.go:145-148, 167-182).                 *)
RunReturns ==
  \A s \in Sessions : s \in ctxDone ~> run[s] = "returned"
=============================================================================
