------------------------------- MODULE Runner -------------------------------
(***************************************************************************)
(* The Runner (runner.go) on Unix: goroutines of the caller in Start and   *)
(* Wait, the goroutine waitForProcess, the copiers of the pipe manager,    *)
(* the caller's context, and the processes of the command, all             *)
(* interleaved.  A step is what runs between two points where another      *)
(* goroutine or process may act; timers may fire at any moment.            *)
(*                                                                         *)
(* The callbacks and pollMetrics are added by Telemetry.tla.  Left out:    *)
(* Duration, and setLimits, which does nothing on Unix.                    *)
(***************************************************************************)
EXTENDS ProcessGroup, PipeManager, Lifecycle

CONSTANTS
  Callers,         \* goroutines of the program that use the Runner
  Parent,          \* the process of the program, as a holder of write ends
  ZeroGrace,       \* is gracePeriod <= 0?
  GracefulSignal,  \* opts.gracefulSignal: "polite", "kill" or "unsupported"
  StdinOption,     \* WithStdin: "none", "file" (an *os.File) or "reader"
  EarlyWait,       \* may Wait be called before a successful Start?
  PidReuse         \* may the kernel give the dead group's number away?

ASSUME RunnerAssumption ==
  /\ IsFiniteSet(Callers)
  /\ Parent \notin Procs
  /\ Holders = Procs \cup {Parent}
  /\ ZeroGrace \in BOOLEAN /\ EarlyWait \in BOOLEAN /\ PidReuse \in BOOLEAN
  /\ GracefulSignal \in {"polite", "kill", "unsupported"}
  /\ StdinOption \in {"none", "file", "reader"}

VARIABLES
  pc,              \* where each caller is
  state,           \* r.state
  started,         \* r.started
  waited,          \* r.waited
  startOk,         \* has a Start returned nil?
  groupSet,        \* are r.group, r.cmd and r.pipes set?
  ctxDone,         \* is r.ctxDone closed?
  waitGo,          \* waitForProcess; r.procDone is closed in "closed"
  procErr,         \* r.procErr, by what buildResult makes of it
  tracked,         \* r.trackedPIDs
  path,            \* the arguments runLifecycle passes to buildResult
  result,          \* the Result of Wait
  stdin,           \* opts.stdin, "pipe" after StdinPipe
  piping,          \* callers in StdinPipe, past its two tests
  stdinCopier      \* os/exec's goroutine that feeds stdin from a reader

lifeVars  == <<state, started, waited, startOk, groupSet>>
exitVars  == <<waitGo, procErr>>
outVars   == <<tracked, path, result>>
stdinVars == <<stdin, piping, stdinCopier>>
vars == <<pc, ctxDone, lifeVars, exitVars, outVars, stdinVars, groupVars, pipeVars>>

StartPcs == {"pipes", "fork", "activate", "launch", "return"}
WaitPcs  == {"select", "snapshot", "signal", "kill", "killed", "grace",
             "escalate", "drain", "build", "iowait", "close"}
RestPcs  == {"idle", "ready", "already", "failed", "returned", "rejected", "panicked"}

Paths  == {"none", "natural", "graceful", "forced"}
Errors == {"nil", "fail", "signaled", "ioerr"}
Codes  == {"zero", "nonzero", "minus1"}

NoResult == [how |-> "none", code |-> "zero", err |-> FALSE, pids |-> {}]
Results  == [how : Paths, code : Codes, err : BOOLEAN,
             pids : SUBSET (Procs \cup {Foreign})]

RunnerTypeOK ==
  /\ pc \in [Callers -> StartPcs \cup WaitPcs \cup RestPcs]
  /\ state \in States
  /\ started \in BOOLEAN /\ waited \in BOOLEAN /\ startOk \in BOOLEAN
  /\ groupSet \in BOOLEAN /\ ctxDone \in BOOLEAN
  /\ waitGo \in {"none", "waiting", "reaped", "recorded", "closed"}
  /\ procErr \in Errors
  /\ tracked \subseteq Procs \cup {Foreign}
  /\ path \in Paths
  /\ result \in Results
  /\ stdin \in {"none", "file", "reader", "pipe"}
  /\ piping \subseteq Callers
  /\ stdinCopier \in {"none", "copying", "done", "failed"}

TypeOK == RunnerTypeOK /\ GroupTypeOK /\ PipesTypeOK

Init ==
  /\ pc = [c \in Callers |-> "idle"]
  /\ state = "Created"
  /\ started = FALSE /\ waited = FALSE /\ startOk = FALSE
  /\ groupSet = FALSE /\ ctxDone = FALSE
  /\ waitGo = "none" /\ procErr = "nil"
  /\ tracked = {} /\ path = "none" /\ result = NoResult
  /\ stdin = StdinOption /\ piping = {} /\ stdinCopier = "none"
  /\ GroupInit /\ PipesInit

-----------------------------------------------------------------------------
Goto(c, from, to) == pc[c] = from /\ pc' = [pc EXCEPT ![c] = to]

(* transition: a refused one is silent, its callers ignore the result.     *)
transition(from, to) ==
  state' = IF state = from /\ canTransition(from, to) THEN to ELSE state

forceTransition(to) == state' = to

(* Mutant of procDone: closed as soon as the child is reaped.              *)
procDoneAtReap == waitGo \in {"reaped", "recorded", "closed"}

procDone == waitGo = "closed"

-----------------------------------------------------------------------------
(***************************************************************************)
(* StdinPipe.  Nothing holds a Start, or another StdinPipe, off between    *)
(* its tests and the assignment; the pipe may then come too late for the   *)
(* command or take the place of another.                                   *)
(***************************************************************************)
StdinTested(c) ==
  /\ pc[c] = "idle" /\ c \notin piping
  /\ ~started /\ stdin = "none"
  /\ piping' = piping \cup {c}
  /\ UNCHANGED <<pc, ctxDone, lifeVars, exitVars, outVars, stdin, stdinCopier,
                 groupVars, pipeVars>>

(* os.Pipe succeeds or fails.                                              *)
StdinPiped(c) ==
  /\ c \in piping /\ piping' = piping \ {c}
  /\ stdin' \in {"pipe", stdin}
  /\ UNCHANGED <<pc, ctxDone, lifeVars, exitVars, outVars, stdinCopier,
                 groupVars, pipeVars>>

StdinPipe(c) == StdinTested(c) \/ StdinPiped(c)

(***************************************************************************)
(* Start.                                                                  *)
(***************************************************************************)
StartRejected(c) ==
  /\ started /\ c \notin piping
  /\ Goto(c, "idle", "already")
  /\ UNCHANGED <<ctxDone, lifeVars, exitVars, outVars, stdinVars, groupVars, pipeVars>>

(* The compare-and-swap, the group, the exec.Cmd and the pipe manager.     *)
(* Before the first Start the state is Created: "invalid state for         *)
(* Start()" is not reached.                                                *)
StartBegin(c) ==
  /\ ~started /\ c \notin piping
  /\ Goto(c, "idle", "pipes")
  /\ started' = TRUE
  /\ transition("Created", "Starting")
  /\ groupSet' = TRUE
  /\ UNCHANGED <<waited, startOk, ctxDone, exitVars, outVars, stdinVars,
                 groupVars, pipeVars>>

(* os.Pipe and startCopy for one stream.                                   *)
StartPipe(c, s) ==
  /\ pc[c] = "pipes"
  /\ startCopy(s, Parent)
  /\ UNCHANGED <<pc, ctxDone, lifeVars, exitVars, outVars, stdinVars, groupVars>>

AllOpened == \A s \in Streams : copier[s] # "none"

StartPiped(c) ==
  /\ AllOpened
  /\ Goto(c, "pipes", "fork")
  /\ UNCHANGED <<ctxDone, lifeVars, exitVars, outVars, stdinVars, groupVars, pipeVars>>

(* Mutant of StartFails: the write ends stay open.                         *)
StartFailsHolding(c, from) ==
  /\ Goto(c, from, "failed")
  /\ close
  /\ forceTransition("Done")
  /\ UNCHANGED <<started, waited, startOk, groupSet, ctxDone, exitVars, outVars,
                 stdinVars, kernelVars, pipeVars>>

(* The error returns: the group is closed, the state forced to Done, and   *)
(* the deferred calls close the write ends of the pipes made so far.       *)
StartFails(c, from) ==
  /\ Goto(c, from, "failed")
  /\ close
  /\ forceTransition("Done")
  /\ holders' = Released(Parent)
  /\ UNCHANGED <<started, waited, startOk, groupSet, ctxDone, exitVars, outVars,
                 stdinVars, kernelVars,
                 copier, rdOpen, inPipe, sent, got, copyErr, pmwait>>

StartPipeFails(c) == ~AllOpened /\ StartFails(c, "pipes")
StartForkFails(c) == StartFails(c, "fork")

(* cmd.Start: the child runs with the write ends it inherited, and with a  *)
(* goroutine of os/exec behind its stdin unless that is a file.            *)
StartFork(c) ==
  /\ Goto(c, "fork", "activate")
  /\ SpawnLeader
  /\ holders' = Inherited(Parent, Leader)
  /\ stdinCopier' = IF stdin = "reader" THEN "copying" ELSE "none"
  /\ UNCHANGED <<ctxDone, lifeVars, exitVars, outVars, stdin, piping,
                 copier, rdOpen, inPipe, sent, got, copyErr, pmwait>>

(* On Unix activate cannot fail.                                           *)
StartActivate(c) ==
  /\ Goto(c, "activate", "launch")
  /\ activate
  /\ UNCHANGED <<ctxDone, lifeVars, exitVars, outVars, stdinVars, kernelVars, pipeVars>>

StartLaunch(c) ==
  /\ Goto(c, "launch", "return")
  /\ transition("Starting", "Running")
  /\ waitGo' = "waiting"
  /\ UNCHANGED <<started, waited, startOk, groupSet, ctxDone, procErr, outVars,
                 stdinVars, groupVars, pipeVars>>

(* Mutant of StartReturn: the parent keeps its copies of the write ends.   *)
StartReturnHolding(c) ==
  /\ Goto(c, "return", "ready")
  /\ startOk' = TRUE
  /\ UNCHANGED <<state, started, waited, groupSet, ctxDone, exitVars, outVars,
                 stdinVars, groupVars, pipeVars>>

StartReturn(c) ==
  /\ Goto(c, "return", "ready")
  /\ holders' = Released(Parent)
  /\ startOk' = TRUE
  /\ UNCHANGED <<state, started, waited, groupSet, ctxDone, exitVars, outVars,
                 stdinVars, groupVars,
                 copier, rdOpen, inPipe, sent, got, copyErr, pmwait>>

Start(c) ==
  \/ StartRejected(c) \/ StartBegin(c) \/ (\E s \in Streams : StartPipe(c, s))
  \/ StartPiped(c) \/ StartPipeFails(c) \/ StartFork(c) \/ StartForkFails(c)
  \/ StartActivate(c) \/ StartLaunch(c) \/ StartReturn(c)

-----------------------------------------------------------------------------
(***************************************************************************)
(* waitForProcess: cmd.Wait reaps the child and then waits, without bound, *)
(* for the goroutine that feeds its stdin; procErr is written and procDone *)
(* closed in two steps.                                                    *)
(***************************************************************************)
ReapLeader ==
  /\ waitGo = "waiting" /\ waitGo' = "reaped"
  /\ ReapLeaderProc
  /\ UNCHANGED <<pc, ctxDone, lifeVars, procErr, outVars, stdinVars, pipeVars>>

(* Mutant of ErrorOf: the status as it is.                                 *)
ErrorOfStatus(st, feeder) == st

ErrorOf(st, feeder) ==
  IF st = "ok" THEN (IF feeder = "failed" THEN "ioerr" ELSE "nil") ELSE st

RecordExit ==
  /\ waitGo = "reaped" /\ stdinCopier # "copying"
  /\ waitGo' = "recorded"
  /\ procErr' = ErrorOf(status, stdinCopier)
  /\ UNCHANGED <<pc, ctxDone, lifeVars, outVars, stdinVars, groupVars, pipeVars>>

CloseProcDone ==
  /\ waitGo = "recorded" /\ waitGo' = "closed"
  /\ UNCHANGED <<pc, ctxDone, lifeVars, procErr, outVars, stdinVars, groupVars, pipeVars>>

waitForProcess == ReapLeader \/ RecordExit \/ CloseProcDone

(* The caller's reader ends or fails; nothing says when.                   *)
StdinEnds ==
  /\ stdinCopier = "copying" /\ stdinCopier' \in {"done", "failed"}
  /\ UNCHANGED <<pc, ctxDone, lifeVars, exitVars, outVars, stdin, piping,
                 groupVars, pipeVars>>

-----------------------------------------------------------------------------
(***************************************************************************)
(* Wait: the compare-and-swap, then runLifecycle and shutdownSequence.     *)
(***************************************************************************)
WaitCall(c) ==
  /\ c \notin piping
  /\ \/ startOk /\ pc[c] \in {"idle", "ready", "already"}
     \/ EarlyWait /\ pc[c] \in {"idle", "already", "failed"}

WaitRejected(c) ==
  /\ WaitCall(c) /\ waited
  /\ pc' = [pc EXCEPT ![c] = "rejected"]
  /\ UNCHANGED <<ctxDone, lifeVars, exitVars, outVars, stdinVars, groupVars, pipeVars>>

(* Mutant of WaitBegin: the flag is set and not tested.                    *)
WaitBeginAgain(c) ==
  /\ WaitCall(c)
  /\ waited' = TRUE
  /\ pc' = [pc EXCEPT ![c] = "select"]
  /\ UNCHANGED <<state, started, startOk, groupSet, ctxDone, exitVars, outVars,
                 stdinVars, groupVars, pipeVars>>

WaitBegin(c) ==
  /\ WaitCall(c) /\ ~waited
  /\ waited' = TRUE
  /\ pc' = [pc EXCEPT ![c] = "select"]
  /\ UNCHANGED <<state, started, startOk, groupSet, ctxDone, exitVars, outVars,
                 stdinVars, groupVars, pipeVars>>

(* A case of a select that leads to buildResult(...).                      *)
TakePath(c, from, how) ==
  /\ Goto(c, from, "build")
  /\ path' = how
  /\ UNCHANGED <<ctxDone, lifeVars, exitVars, tracked, result, stdinVars, groupVars>>

SelectExit(c) == procDone /\ TakePath(c, "select", "natural") /\ UNCHANGED pipeVars

(* Mutant of SelectCancel: shutdown begins without a cancellation.         *)
SelectAnyway(c) ==
  /\ Goto(c, "select", "snapshot")
  /\ UNCHANGED <<ctxDone, lifeVars, exitVars, outVars, stdinVars, groupVars, pipeVars>>

SelectCancel(c) ==
  /\ ctxDone
  /\ Goto(c, "select", "snapshot")
  /\ UNCHANGED <<ctxDone, lifeVars, exitVars, outVars, stdinVars, groupVars, pipeVars>>

(* Mutant of Snapshot: the test of the grace period is inverted.           *)
SnapshotInverted(c) ==
  /\ Goto(c, "snapshot", IF ZeroGrace THEN "signal" ELSE "kill")
  /\ tracked' = IF groupSet THEN pids ELSE tracked
  /\ UNCHANGED <<ctxDone, lifeVars, exitVars, path, result, stdinVars,
                 groupVars, pipeVars>>

Snapshot(c) ==
  /\ Goto(c, "snapshot", IF ZeroGrace THEN "kill" ELSE "signal")
  /\ tracked' = IF groupSet THEN pids ELSE tracked
  /\ UNCHANGED <<ctxDone, lifeVars, exitVars, path, result, stdinVars,
                 groupVars, pipeVars>>

(* Phase 1.  ErrProcessDone is taken for a process that ended on its own.  *)
SignalGracefully(c) ==
  /\ groupSet
  /\ Goto(c, "signal", IF SignalFindsNobody(GracefulSignal) THEN "drain" ELSE "grace")
  /\ transition("Running", "Stopping")
  /\ signal(GracefulSignal)
  /\ UNCHANGED <<started, waited, startOk, groupSet, ctxDone, exitVars, outVars,
                 stdinVars, pipeVars>>

Drained(c) == procDone /\ TakePath(c, "drain", "graceful") /\ UNCHANGED pipeVars

GraceExit(c) == procDone /\ TakePath(c, "grace", "graceful") /\ UNCHANGED pipeVars

GraceExpires(c) ==
  /\ Goto(c, "grace", "escalate")
  /\ tracked' = IF pids # {} THEN pids ELSE tracked
  /\ UNCHANGED <<ctxDone, lifeVars, exitVars, path, result, stdinVars,
                 groupVars, pipeVars>>

(* The force kill, with and without a phase 1.                             *)
Kill(c, from, before) ==
  /\ groupSet
  /\ Goto(c, from, "killed")
  /\ transition(before, "Killing")
  /\ terminate
  /\ UNCHANGED <<started, waited, startOk, groupSet, ctxDone, exitVars, outVars,
                 stdinVars, pipeVars>>

(* Mutant of Escalate: the transition of the path without a grace period.  *)
EscalateFromRunning(c) == Kill(c, "escalate", "Running")

Escalate(c) == Kill(c, "escalate", "Stopping")
KillNow(c)  == Kill(c, "kill", "Running")

(* r.group is nil: a Wait before Start.                                    *)
Panic(c) ==
  /\ ~groupSet /\ pc[c] \in {"signal", "kill"}
  /\ pc' = [pc EXCEPT ![c] = "panicked"]
  /\ UNCHANGED <<ctxDone, lifeVars, exitVars, outVars, stdinVars, groupVars, pipeVars>>

KilledExit(c) == procDone /\ TakePath(c, "killed", "forced") /\ UNCHANGED pipeVars

(* Mutant of KillDeadline: there is none.                                  *)
KillDeadlineNever(c) == pc[c] = "killed" /\ FALSE /\ UNCHANGED vars

KillDeadline(c) ==
  /\ TakePath(c, "killed", "forced")
  /\ forceClose
  /\ UNCHANGED <<copier, holders, inPipe, sent, got, copyErr, pmwait>>

-----------------------------------------------------------------------------
(***************************************************************************)
(* buildResult, and the rest of Wait.                                      *)
(***************************************************************************)
ExitCode(err) == CASE err = "nil"  -> "zero"
                   [] err = "fail" -> "nonzero"
                   [] OTHER        -> "minus1"

buildResult(how) ==
  [how |-> how, code |-> ExitCode(procErr), err |-> procErr # "nil",
   pids |-> IF tracked # {} THEN tracked ELSE pids]

Build(c) ==
  /\ Goto(c, "build", "iowait")
  /\ result' = buildResult(path)
  /\ WaitPipes
  /\ UNCHANGED <<ctxDone, lifeVars, exitVars, tracked, path, stdinVars, groupVars>>

PipesWaited == pmwait \in {"completed", "timedout"}

IOWaited(c) ==
  /\ PipesWaited
  /\ Goto(c, "iowait", "close")
  /\ UNCHANGED <<ctxDone, lifeVars, exitVars, outVars, stdinVars, groupVars, pipeVars>>

CloseGroup(c) ==
  /\ Goto(c, "close", "returned")
  /\ close
  /\ forceTransition("Done")
  /\ UNCHANGED <<started, waited, startOk, groupSet, ctxDone, exitVars, outVars,
                 stdinVars, kernelVars, pipeVars>>

(* What the goroutine in Wait does once it is past the compare-and-swap.   *)
WaitStep(c) ==
  \/ SelectExit(c) \/ SelectCancel(c) \/ Snapshot(c)
  \/ SignalGracefully(c) \/ Drained(c) \/ GraceExit(c) \/ GraceExpires(c)
  \/ Escalate(c) \/ KillNow(c) \/ Panic(c) \/ KilledExit(c) \/ KillDeadline(c)
  \/ Build(c) \/ IOWaited(c) \/ CloseGroup(c)

Wait(c) == WaitRejected(c) \/ WaitBegin(c) \/ WaitStep(c)

-----------------------------------------------------------------------------
(***************************************************************************)
(* The environment: the context, and the processes of the command.         *)
(***************************************************************************)
Cancel ==
  /\ ~ctxDone /\ ctxDone' = TRUE
  /\ UNCHANGED <<pc, lifeVars, exitVars, outVars, stdinVars, groupVars, pipeVars>>

runnerOnly == <<pc, ctxDone, lifeVars, exitVars, outVars, stdinVars>>
pipesButHolders == <<copier, rdOpen, inPipe, sent, got, copyErr, pmwait>>

Fork(p, q) ==
  /\ ForkProc(p, q)
  /\ holders' = Inherited(p, q)
  /\ UNCHANGED <<runnerOnly, pipesButHolders>>

Leave(p) == Escape(p) /\ UNCHANGED <<runnerOnly, pipeVars>>

Die(p) ==
  /\ ExitProc(p) \/ DieOfKill(p)
  /\ holders' = Released(p)
  /\ UNCHANGED <<runnerOnly, pipesButHolders>>

(* A process closes or redirects its own output.                           *)
CloseOutput(p, s) ==
  /\ Acting(p) /\ p \in holders[s]
  /\ holders' = [holders EXCEPT ![s] = @ \ {p}]
  /\ UNCHANGED <<runnerOnly, pipesButHolders, groupVars>>

WriteOutput(p, s) ==
  /\ Acting(p)
  /\ WriteChunk(p, s)
  /\ UNCHANGED <<runnerOnly, groupVars>>

Recycle == PidReuse /\ RecyclePid /\ UNCHANGED <<runnerOnly, pipeVars>>

Processes ==
  \/ \E p, q \in Procs : Fork(p, q)
  \/ \E p \in Procs : Leave(p) \/ Die(p)
  \/ \E p \in Procs, s \in Streams : CloseOutput(p, s) \/ WriteOutput(p, s)
  \/ Recycle

Copier(s) == CopyStep(s) /\ UNCHANGED <<runnerOnly, groupVars>>

PipesTimer == WaitPipesStep /\ UNCHANGED <<runnerOnly, groupVars>>

(* Nobody is inside a call any more.                                       *)
Terminated ==
  piping = {} /\ (\A c \in Callers : pc[c] \in RestPcs) /\ UNCHANGED vars

Next ==
  \/ \E c \in Callers : StdinPipe(c) \/ Start(c) \/ Wait(c)
  \/ waitForProcess \/ StdinEnds \/ Cancel
  \/ \E s \in Streams : Copier(s)
  \/ PipesTimer
  \/ Processes
  \/ Terminated

(* The Go scheduler runs what is runnable, timers fire, the kernel lets    *)
(* cmd.Wait reap a zombie, and the caller's writers return.  No fairness   *)
(* of the processes (they may run for ever, sleep uninterruptibly, keep    *)
(* the pipes open), of the context, or of the reader behind stdin.         *)
Fairness ==
  /\ \A c \in Callers : WF_vars(WaitStep(c))
  /\ WF_vars(ReapLeader) /\ WF_vars(RecordExit) /\ WF_vars(CloseProcDone)
  /\ \A s \in Streams : WF_vars(Copier(s))
  /\ WF_vars(PipesTimer)

SafeSpec == Init /\ [][Next]_vars
Spec     == SafeSpec /\ Fairness

-----------------------------------------------------------------------------
(***************************************************************************)
(* Safety.                                                                 *)
(***************************************************************************)
Returned == \E c \in Callers : pc[c] = "returned"

(* A force kill leaves nobody out: once terminate has run, every member of *)
(* the group that is still alive has SIGKILL pending, whatever was forked, *)
(* signalled or reaped between the snapshot, the grace period and the      *)
(* kill.  Excepted are the members the caller may not signal.              *)
KillIssued == path = "forced" \/ \E c \in Callers : pc[c] = "killed"

ForcedKillReachesAll ==
  KillIssued => \A p \in member \ Privileged : Alive(p) => sig[p] = "kill"

(* At most one goroutine performs the launch and at most one the           *)
(* lifecycle, however Start and Wait are called.                           *)
OneLifecycleOwner ==
  \A c, d \in Callers :
    \/ c = d
    \/ /\ ~(pc[c] \in StartPcs /\ pc[d] \in StartPcs)
       /\ ~(pc[c] \in WaitPcs /\ pc[d] \in WaitPcs)

(* Without a force kill Wait reports the command's own end: it has been    *)
(* reaped, and the exit code and the error are those of its status, or of  *)
(* the failed feeding of its stdin when it succeeded.                      *)
ResultMatchesExit ==
  result.how \in {"natural", "graceful"} =>
    /\ proc[Leader] = "gone"
    /\ result.code = IF status = "fail" THEN "nonzero"
                     ELSE IF status = "signaled" \/ stdinCopier = "failed"
                          THEN "minus1" ELSE "zero"
    /\ result.err = (result.code # "zero")

(* Cancelled is told only of a cancelled context; a command that nobody    *)
(* cancelled is never signalled, and neither is the group that may have    *)
(* been given its number after its end.                                    *)
OnlyCancelSignals ==
  /\ (\/ result.how \in {"graceful", "forced"} \/ recycled = "hit"
      \/ \E p \in Procs : sig[p] # "none")
        => ctxDone
  /\ result.how = "natural" => recycled # "hit" /\ \A p \in Procs : sig[p] = "none"

(* Once Wait has returned no copier runs, as the buffer of Output is read  *)
(* without a lock; and if the read ends were not closed by force and the   *)
(* caller's writers did not fail, the caller holds all the output that was *)
(* written, and no descendant is left that could add to it.                *)
CompleteOutput ==
  Returned =>
    \A s \in Streams :
      /\ copier[s] = "done"
      /\ \/ ~rdOpen[s] \/ copyErr[s] = "write"
         \/ holders[s] = {} /\ got[s] = sent[s]

(* SIGKILL is sent only to escalate: the context was cancelled and the     *)
(* graceful signal has been tried.                                         *)
KillOnlyAfterGrace ==
  [][(\E p \in Procs : sig[p] # "kill" /\ sig'[p] = "kill")
       => (ctxDone /\ state = "Stopping" /\ state' = "Killing")]_vars

(* The lifecycle and the outcome the Result reports are those promised.    *)
Contract == INSTANCE RunnerContract
  WITH outcome <- IF state = "Done" THEN result.how ELSE "none"

ImplementsContract == Contract!Spec

(* The Runner is an environment the pipe manager is correct in: it opens   *)
(* all streams before the command runs, has closed its own copies of the   *)
(* write ends before it waits, waits once, and closes the read ends only   *)
(* before that (runner.go:161-186, 297, 339, 381).                         *)
PipeEnvironment == INSTANCE PipeSystem WITH Opener <- Parent

ImplementsPipeSystem == PipeEnvironment!SafeSpec

-----------------------------------------------------------------------------
(***************************************************************************)
(* Liveness.                                                               *)
(***************************************************************************)
(* A cancelled Wait returns, even when nothing dies of the signals, when   *)
(* SIGKILL is not honoured or when the pipes stay open.  The one wait in   *)
(* it without a bound is for os/exec's feeding of a reader to stdin, and   *)
(* only when the graceful signal found the command ended                   *)
(* (runner.go:345-351, 376-384).                                           *)
CancelledWaitReturns ==
  \A c \in Callers :
    (ctxDone /\ pc[c] \in WaitPcs)
      ~> (pc[c] = "returned" \/ (pc[c] = "drain" /\ stdinCopier = "copying"))

(* A Start that fails leaves no goroutine of the library behind: nobody    *)
(* waits for the pipes or closes their read ends, but the copiers started  *)
(* so far come to the end of their streams (runner.go:171-192).            *)
FailedStartEndsCopiers ==
  (\E c \in Callers : pc[c] = "failed")
    ~> (\A s \in Streams : copier[s] \in {"none", "done"})

(* A command that ended on its own and whose stdin has been fed is         *)
(* noticed, its output is waited for within a bound, and Wait returns,     *)
(* cancelled or not (runner.go:271-303).                                   *)
ExitedWaitReturns ==
  \A c \in Callers :
    (proc[Leader] \in {"zombie", "gone"} /\ stdinCopier # "copying" /\ pc[c] \in WaitPcs)
      ~> (pc[c] = "returned")

=============================================================================
