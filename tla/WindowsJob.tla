----------------------------- MODULE WindowsJob -----------------------------
(***************************************************************************)
(* The process group behind a Runner on Windows (group_windows.go), in the *)
(* hands of Start and Wait.  The job object, suspended processes, taskkill *)
(* and the processes of the command are external and modelled from how     *)
(* that file uses them; no process leaves a job, and none is a zombie.     *)
(*                                                                         *)
(* Left out: the console event of a graceful signal (a process that gets   *)
(* it ends or does not, as it may at any time), and reuse of PIDs.         *)
(***************************************************************************)
EXTENDS Naturals, FiniteSets

CONSTANTS
  Procs,           \* every process the workload may ever consist of
  Leader,          \* the direct child
  Limits,          \* flags WithResourceLimits asks for
  MaxProcesses,    \* the value that goes with the flag "active"
  GracefulSignal   \* opts.gracefulSignal: "polite", "kill" or "unsupported"

LimitFlags == {"memory", "active"}
JobFlags   == {"killOnClose", "breakaway"} \cup LimitFlags

ASSUME JobAssumption ==
  /\ IsFiniteSet(Procs)
  /\ Leader \in Procs
  /\ Limits \subseteq LimitFlags
  /\ MaxProcesses \in Nat \ {0}
  /\ GracefulSignal \in {"polite", "kill", "unsupported"}

VARIABLES
  pc,              \* where the goroutine in Start and then Wait is
  term,            \* progress of terminate
  job,             \* field job: "none" is 0
  flags,           \* LimitFlags of the job object
  proc,            \* each process
  inJob,           \* processes associated with the job; dead ones stay
  loose,           \* outside because a member broke away, or its children
  listed           \* r.trackedPIDs

vars    == <<pc, term, job, flags, proc, inJob, loose, listed>>
jobVars == <<flags, inJob, loose>>

StartPcs == {"new", "grouped", "spawned", "assigned", "resumed", "undo", "undone"}
WaitPcs  == {"running", "signal", "grace", "kill", "close"}
Final    == {"closed", "failed", "crashed"}

TypeOK ==
  /\ pc \in StartPcs \cup WaitPcs \cup Final
  /\ term \in {"idle", "job", "child", "tree", "done"}
  /\ job \in {"none", "open"}
  /\ flags \subseteq JobFlags
  /\ proc \in [Procs -> {"unborn", "suspended", "live", "gone"}]
  /\ inJob \subseteq Procs /\ loose \subseteq Procs \ inJob
  /\ listed \subseteq Procs

Init ==
  /\ pc = "new" /\ term = "idle" /\ job = "none" /\ flags = {}
  /\ proc = [p \in Procs |-> "unborn"]
  /\ inJob = {} /\ loose = {} /\ listed = {}

-----------------------------------------------------------------------------
Exists(p) == proc[p] \in {"suspended", "live"}

Goto(from, to) == pc = from /\ pc' = to

Killed(S) == [p \in Procs |-> IF p \in S /\ Exists(p) THEN "gone" ELSE proc[p]]

(* newProcessGroup: without a job object, or when its flags cannot be set, *)
(* the group works without one.                                            *)
(* Mutant of newProcessGroup: the kill on close is not asked for.          *)
newProcessGroupMild ==
  /\ Goto("new", "grouped")
  /\ \/ job' = "open" /\ flags' = {"breakaway"}
     \/ UNCHANGED <<job, flags>>
  /\ UNCHANGED <<term, proc, inJob, loose, listed>>

newProcessGroup ==
  /\ Goto("new", "grouped")
  /\ \/ job' = "open" /\ flags' = {"killOnClose", "breakaway"}
     \/ UNCHANGED <<job, flags>>
  /\ UNCHANGED <<term, proc, inJob, loose, listed>>

(* Mutant of Spawn: without CREATE_SUSPENDED.                              *)
SpawnRunning ==
  /\ Goto("grouped", "spawned")
  /\ proc' = [proc EXCEPT ![Leader] = "live"]
  /\ UNCHANGED <<term, job, jobVars, listed>>

(* setup and cmd.Start: the child exists and does not run.                 *)
Spawn ==
  /\ Goto("grouped", "spawned")
  /\ proc' = [proc EXCEPT ![Leader] = "suspended"]
  /\ UNCHANGED <<term, job, jobVars, listed>>

(* The handle is closed, and the kernel kills the members if told so.      *)
close(to) ==
  /\ pc' = to
  /\ job' = "none"
  /\ proc' = IF job = "open" /\ "killOnClose" \in flags
             THEN Killed(inJob) ELSE proc
  /\ UNCHANGED <<term, jobVars, listed>>

SpawnFails == pc = "grouped" /\ close("failed")

(* activate: the error of OpenProcess or of the assignment is dropped.     *)
Assign ==
  /\ Goto("spawned", "assigned")
  /\ \/ job = "open" /\ Exists(Leader) /\ inJob' = {Leader}
     \/ UNCHANGED inJob
  /\ UNCHANGED <<term, job, flags, proc, loose, listed>>

(* resumeProcessThreads counts a thread it could open as resumed, so the   *)
(* child may stay suspended.                                               *)
Resume ==
  /\ Goto("assigned", "resumed")
  /\ \/ proc' = IF proc[Leader] = "suspended"
                THEN [proc EXCEPT ![Leader] = "live"] ELSE proc
     \/ UNCHANGED proc
  /\ UNCHANGED <<term, job, jobVars, listed>>

ResumeFails ==
  /\ Goto("assigned", "undo")
  /\ UNCHANGED <<term, job, jobVars, proc, listed>>

(* Mutant of UndoStart: the child is left to itself.                       *)
UndoNothing ==
  /\ Goto("undo", "undone")
  /\ UNCHANGED <<term, job, jobVars, proc, listed>>

(* Process.Kill in activate and again in Start, then cmd.Wait.             *)
UndoStart ==
  /\ Goto("undo", "undone")
  /\ proc' = Killed({Leader})
  /\ UNCHANGED <<term, job, jobVars, listed>>

StartGivesUp == pc = "undone" /\ close("failed")

(* setLimits: the record it writes has only the limits, so the flags of    *)
(* newProcessGroup are gone.  Its error is dropped by Start.               *)
setLimits ==
  /\ Goto("resumed", "running")
  /\ \/ job = "open" /\ Limits # {} /\ flags' = Limits
     \/ UNCHANGED flags
  /\ UNCHANGED <<term, job, proc, inJob, loose, listed>>

Start ==
  \/ newProcessGroup \/ Spawn \/ SpawnFails \/ Assign \/ Resume
  \/ ResumeFails \/ UndoStart \/ StartGivesUp \/ setLimits

-----------------------------------------------------------------------------
Members == {p \in inJob : Exists(p)}

(* The members, or the direct child when there is no job or nobody in it.  *)
pids == IF job = "open" /\ Members # {} THEN Members ELSE {Leader}

(* signal: SIGKILL terminates; a console event, or the error of any other  *)
(* signal, kills nobody.  It never says that the process is done.          *)
signal == term' = IF GracefulSignal = "kill" THEN "job" ELSE "done"

(* Cancelled: the snapshot, and the graceful signal unless there is no     *)
(* grace period.                                                           *)
Cancel ==
  /\ pc = "running"
  /\ listed' = pids
  /\ \/ pc' = "kill" /\ term' = "job"
     \/ pc' = "signal" /\ signal
  /\ UNCHANGED <<job, jobVars, proc>>

Signalled ==
  /\ term = "done"
  /\ Goto("signal", "grace")
  /\ term' = "idle"
  /\ UNCHANGED <<job, jobVars, proc, listed>>

GraceExpires ==
  /\ Goto("grace", "kill")
  /\ listed' = pids
  /\ term' = "job"
  /\ UNCHANGED <<job, jobVars, proc>>

terminating == pc \in {"signal", "kill"}

(* Mutant of TerminateJob: only the direct child is terminated.            *)
TerminateNoJob ==
  /\ terminating
  /\ term = "job" /\ term' = "child"
  /\ UNCHANGED <<pc, job, jobVars, proc, listed>>

(* terminate: the job, the direct child, and taskkill when there is no job.*)
TerminateJob ==
  /\ terminating
  /\ term = "job" /\ term' = "child"
  /\ proc' = IF job = "open" THEN Killed(inJob) ELSE proc
  /\ UNCHANGED <<pc, job, jobVars, listed>>

TerminateChild ==
  /\ terminating
  /\ term = "child" /\ term' = IF job = "none" THEN "tree" ELSE "done"
  /\ proc' = Killed({Leader})
  /\ UNCHANGED <<pc, job, jobVars, listed>>

(* The child is dead by now: taskkill finds what it finds of its tree.     *)
fallbackTreeKill ==
  /\ terminating
  /\ term = "tree" /\ term' = "done"
  /\ \E found \in SUBSET Procs : proc' = Killed(found)
  /\ UNCHANGED <<pc, job, jobVars, listed>>

(* Wait is over: the command ended, in time or not, or was terminated.     *)
Ended ==
  \/ pc \in {"running", "grace"} /\ proc[Leader] = "gone"
  \/ pc = "kill" /\ term = "done"

WaitEnds ==
  /\ Ended /\ pc' = "close"
  /\ UNCHANGED <<term, job, jobVars, proc, listed>>

WaitCloses == pc = "close" /\ close("closed")

Wait ==
  \/ Cancel \/ Signalled \/ GraceExpires \/ TerminateJob \/ TerminateChild
  \/ fallbackTreeKill \/ WaitEnds \/ WaitCloses

-----------------------------------------------------------------------------
(* CreateProcess by a member: the child joins the job unless members may   *)
(* break away silently, and is refused above the limit.                    *)
Joins(p) == p \in inJob /\ "breakaway" \notin flags

Fork(p, q) ==
  /\ proc[p] = "live" /\ proc[q] = "unborn" /\ q # Leader
  /\ Joins(p) /\ "active" \in flags => Cardinality(Members) < MaxProcesses
  /\ proc' = [proc EXCEPT ![q] = "live"]
  /\ inJob' = IF Joins(p) THEN inJob \cup {q} ELSE inJob
  /\ loose' = IF ~Joins(p) /\ p \in inJob \cup loose THEN loose \cup {q} ELSE loose
  /\ UNCHANGED <<pc, term, job, flags, listed>>

Exit(p) ==
  /\ proc[p] = "live"
  /\ proc' = [proc EXCEPT ![p] = "gone"]
  /\ UNCHANGED <<pc, term, job, jobVars, listed>>

(* The program dies, and the kernel closes its handles.                    *)
Crash == pc \notin Final /\ close("crashed")

Terminated == pc \in Final /\ UNCHANGED vars

Next ==
  \/ Start \/ Wait \/ Crash
  \/ \E p, q \in Procs : Fork(p, q)
  \/ \E p \in Procs : Exit(p)
  \/ Terminated

Spec == Init /\ [][Next]_vars

-----------------------------------------------------------------------------
(* The child runs nothing before it was put into the job: when it is in,   *)
(* whoever else is outside broke away, or descends from one that did       *)
(* (group_windows.go:70-72, 99-100).                                       *)
OutsidersBrokeAway ==
  Leader \in inJob =>
    \A p \in Procs : proc[p] # "unborn" => p \in inJob \cup loose

(* After a force kill the members of the job, the direct child and the     *)
(* processes that the Result will list as cleaned are dead, and the job    *)
(* stays empty (group_windows.go:132-151, result.go:36-42).                *)
ListedAreKilled ==
  (pc = "kill" /\ term = "done") =>
    \A p \in Members \cup listed \cup {Leader} : ~Exists(p)

(* Whichever way the handle was closed, also by the death of the program,  *)
(* no member lives on, unless setLimits took the flag away                 *)
(* (group_windows.go:39-46, 153-162).                                      *)
CloseEmptiesJob ==
  pc \in Final => Members = {} \/ (flags # {} /\ flags \subseteq Limits)

(* A Start that failed has left no process, not even a suspended one       *)
(* (runner.go:195-201).                                                    *)
FailedStartLeavesNobody ==
  pc = "failed" => \A p \in Procs : ~Exists(p)

=============================================================================
