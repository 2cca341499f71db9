---------------------------- MODULE ProcessGroup ----------------------------
(***************************************************************************)
(* The process group behind a Runner on Unix: group_unix.go, and the part  *)
(* of the kernel it relies on (processes, group membership, kill(-pgid),   *)
(* reaping), which is external and is modelled from how that file uses it. *)
(*                                                                         *)
(* A process is "unborn", "live", "zombie" (the leader only: it is the     *)
(* direct child and stays until cmd.Wait reaps it) or "gone".  The other   *)
(* members are reaped by their own parent or by init, which is not trexec's*)
(* business: they go from "live" to "gone" in one step.                    *)
(***************************************************************************)
EXTENDS Naturals, FiniteSets

CONSTANTS
  Procs,           \* every process the workload may ever consist of
  Leader,          \* the direct child; its PID is the PGID
  Privileged,      \* members the caller may not signal (EPERM)
  NoPid,           \* the Go zero value of the field pgid
  Foreign          \* a process of somebody else that got the recycled PID

ASSUME ProcsAssumption ==
  /\ IsFiniteSet(Procs)
  /\ Leader \in Procs
  /\ Privileged \subseteq Procs
  /\ NoPid \notin Procs
  /\ Foreign \notin Procs

VARIABLES
  proc,            \* the kernel's view of each process
  member,          \* processes put in the group; dead ones are not removed
  sig,             \* the strongest signal each process has been sent
  status,          \* how the leader ended: "none", "ok", "fail", "signaled"
  recycled,        \* "yes": the PID of the dead group names a foreign group;
                   \* "hit": and that group has been sent a signal
  pgid             \* field unixProcessGroup.pgid

kernelVars == <<proc, member, sig, status, recycled>>
groupVars  == <<proc, member, sig, status, recycled, pgid>>

ProcStates == {"unborn", "live", "zombie", "gone"}
Signals    == {"none", "polite", "kill"}
Statuses   == {"none", "ok", "fail", "signaled"}

GroupTypeOK ==
  /\ proc \in [Procs -> ProcStates]
  /\ member \subseteq Procs
  /\ sig \in [Procs -> Signals]
  /\ status \in Statuses
  /\ recycled \in {"no", "yes", "hit"}
  /\ pgid \in {NoPid, Leader}

GroupInit ==
  /\ proc = [p \in Procs |-> "unborn"]
  /\ member = {}
  /\ sig = [p \in Procs |-> "none"]
  /\ status = "none"
  /\ recycled = "no"
  /\ pgid = NoPid

-----------------------------------------------------------------------------
(***************************************************************************)
(* The kernel and the processes.  A process with SIGKILL pending executes  *)
(* no further instruction of its own: it cannot fork, escape or exit.      *)
(***************************************************************************)
Alive(p)  == proc[p] = "live"
Acting(p) == Alive(p) /\ sig[p] # "kill"

(* setpgid(0, 0) runs between fork and exec, so the child is the leader of *)
(* its own group before it executes anything.                              *)
SpawnLeader ==
  /\ proc[Leader] = "unborn"
  /\ proc' = [proc EXCEPT ![Leader] = "live"]
  /\ member' = {Leader}
  /\ UNCHANGED <<sig, status, recycled, pgid>>

(* A child is born in its parent's group with no signal pending.  What the *)
(* caller may not signal has only children the caller may not signal.      *)
ForkProc(p, q) ==
  /\ Acting(p) /\ q # Leader /\ proc[q] = "unborn"
  /\ p \in Privileged => q \in Privileged
  /\ proc' = [proc EXCEPT ![q] = "live"]
  /\ member' = IF p \in member THEN member \cup {q} ELSE member
  /\ UNCHANGED <<sig, status, recycled, pgid>>

(* setsid or setpgid by a descendant: it leaves the group for good.  The   *)
(* leader of a group cannot start a session of its own.                    *)
Escape(p) ==
  /\ Acting(p) /\ p # Leader /\ p \in member
  /\ member' = member \ {p}
  /\ UNCHANGED <<proc, sig, status, recycled, pgid>>

DeathOf(p) == [proc EXCEPT ![p] = IF p = Leader THEN "zombie" ELSE "gone"]

(* A process ends: code 0, another code, or killed by a signal it did not  *)
(* catch, be it trexec's, somebody else's or that of its own fault.        *)
ExitProc(p) ==
  /\ Acting(p)
  /\ proc' = DeathOf(p)
  /\ \E st \in {"ok", "fail", "signaled"} :
       status' = IF p = Leader THEN st ELSE status
  /\ UNCHANGED <<member, sig, recycled, pgid>>

(* SIGKILL takes effect; not necessarily soon (uninterruptible sleep).     *)
DieOfKill(p) ==
  /\ Alive(p) /\ sig[p] = "kill"
  /\ proc' = DeathOf(p)
  /\ status' = IF p = Leader THEN "signaled" ELSE status
  /\ UNCHANGED <<member, sig, recycled, pgid>>

ReapLeaderProc ==
  /\ proc[Leader] = "zombie"
  /\ proc' = [proc EXCEPT ![Leader] = "gone"]
  /\ UNCHANGED <<member, sig, status, recycled, pgid>>

(* What kill(-pgid) and /proc find: the members not yet reaped.            *)
Reachable == {p \in member : proc[p] \in {"live", "zombie"}}

(* A PID is free for reuse once the leader is reaped and its group empty.  *)
RecyclePid ==
  /\ proc[Leader] = "gone" /\ Reachable = {} /\ recycled = "no"
  /\ recycled' = "yes"
  /\ UNCHANGED <<proc, member, sig, status, pgid>>

-----------------------------------------------------------------------------
(***************************************************************************)
(* group_unix.go.  s is "polite" (SIGTERM, SIGINT, SIGHUP), "kill" or      *)
(* "unsupported" (any other Signal value).                                 *)
(***************************************************************************)
activate == pgid' = Leader

close == pgid' = NoPid

(* signal returns os.ErrProcessDone.                                       *)
SignalFindsNobody(s) ==
  \/ pgid = NoPid
  \/ s # "unsupported" /\ Reachable = {} /\ recycled = "no"

(* Mutant of Targets: kill(pid) for kill(-pgid).                           *)
TargetsChildOnly(s) ==
  IF pgid = NoPid \/ s = "unsupported" THEN {} ELSE {p \in {Leader} : Alive(p)}

(* Who the signal reaches: live members the caller may signal.             *)
Targets(s) ==
  IF pgid = NoPid \/ s = "unsupported" THEN {}
  ELSE {p \in member \ Privileged : Alive(p)}

signal(s) ==
  /\ sig' = [p \in Procs |->
              IF p \in Targets(s) /\ sig[p] # "kill" THEN s ELSE sig[p]]
  /\ recycled' = IF pgid # NoPid /\ s # "unsupported" /\ recycled = "yes"
                 THEN "hit" ELSE recycled
  /\ UNCHANGED <<proc, member, status, pgid>>

terminate == signal("kill")

(* pids: the members in /proc, and the bare pgid when there is none.       *)
pids ==
  IF pgid = NoPid THEN {}
  ELSE IF Reachable # {} THEN Reachable
  ELSE IF recycled = "no" THEN {Leader} ELSE {Foreign}

=============================================================================
