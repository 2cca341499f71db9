-------------------------- MODULE WindowsJobProofs --------------------------
(***************************************************************************)
(* Proofs about WindowsJob, for any processes, limits and graceful signal. *)
(***************************************************************************)
EXTENDS WindowsJob, TLAPS

(* Before the child runs there is nobody else.                             *)
Alone == \A p \in Procs \ {Leader} : proc[p] = "unborn"

StartInv ==
  /\ pc \in StartPcs => term = "idle"
  /\ pc \in {"new", "grouped"} =>
       /\ \A p \in Procs : proc[p] = "unborn"
       /\ inJob = {} /\ loose = {}
  /\ pc \in {"spawned", "assigned", "undo"} =>
       /\ Alone /\ proc[Leader] = "suspended"
       /\ inJob \subseteq {Leader} /\ loose = {}
  /\ pc = "spawned" => inJob = {}
  /\ pc = "undone" => Alone /\ proc[Leader] = "gone"

(* Without a handle nobody was ever put into a job; with one, the flags    *)
(* are those of newProcessGroup or those of setLimits.                     *)
HandleInv ==
  /\ pc = "new" => job = "none"
  /\ pc \notin Final /\ job = "none" => inJob = {}
  /\ job = "open" => \/ "killOnClose" \in flags
                     \/ flags # {} /\ flags \subseteq Limits

MemberInv ==
  /\ \A p \in inJob \cup loose : proc[p] # "unborn"
  /\ listed \subseteq inJob \cup {Leader}

KillInv ==
  /\ pc = "kill" => term # "idle"
  /\ pc = "kill" /\ term \in {"child", "tree", "done"} => Members = {}
  /\ pc = "kill" /\ term \in {"tree", "done"} => ~Exists(Leader)

IInv == /\ TypeOK /\ StartInv /\ HandleInv /\ MemberInv /\ KillInv
        /\ OutsidersBrokeAway /\ CloseEmptiesJob /\ FailedStartLeavesNobody

-----------------------------------------------------------------------------
LEMMA InitInv == Init => IInv
  BY JobAssumption
  DEF Init, IInv, TypeOK, StartInv, HandleInv, MemberInv, KillInv, Alone, Exists, Members,
      OutsidersBrokeAway, CloseEmptiesJob, FailedStartLeavesNobody,
      StartPcs, WaitPcs, Final, JobFlags

(* What the kernel's kill of a set does to a process.                      *)
LEMMA KilledType ==
  ASSUME TypeOK, NEW S
  PROVE  Killed(S) \in [Procs -> {"unborn", "suspended", "live", "gone"}]
  BY DEF Killed, TypeOK

LEMMA KilledIs ==
  ASSUME TypeOK, NEW S, NEW p \in Procs
  PROVE  /\ Killed(S)[p] = "unborn" <=> proc[p] = "unborn"
         /\ p \in S => Killed(S)[p] \notin {"suspended", "live"}
         /\ Killed(S)[p] \in {"suspended", "live"} =>
              p \notin S /\ Killed(S)[p] = proc[p]
         /\ p \notin S => Killed(S)[p] = proc[p]
  BY DEF Killed, TypeOK, Exists

LEMMA CloseInv ==
  ASSUME IInv, NEW to \in Final, close(to), pc \notin Final,
         to = "failed" => pc \in {"grouped", "undone"}
  PROVE  IInv'
<1>1. /\ pc' \in Final /\ job' = "none" /\ inJob' = inJob /\ loose' = loose
      /\ flags' = flags /\ listed' = listed /\ term' = term
  BY DEF close, jobVars
<1>2. TypeOK'
  BY <1>1, KilledType DEF IInv, TypeOK, close, Final
<1>3. \A p \in Procs : proc'[p] = "unborn" <=> proc[p] = "unborn"
  BY KilledIs DEF IInv, close
<1>4. \A p \in Procs : Exists(p)' => Exists(p)
  BY KilledIs DEF IInv, close, Exists
<1>5. StartInv' /\ HandleInv' /\ KillInv'
  BY <1>1 DEF StartInv, HandleInv, KillInv, Final, StartPcs
<1>6. MemberInv' /\ OutsidersBrokeAway'
  BY <1>1, <1>3 DEF IInv, MemberInv, OutsidersBrokeAway, TypeOK
<1>7. CloseEmptiesJob'
  <2>1. CASE job = "none"
    BY <2>1, <1>1 DEF IInv, HandleInv, CloseEmptiesJob, Members
  <2>2. CASE job = "open" /\ "killOnClose" \in flags
    <3>1. \A p \in inJob : ~Exists(p)'
      BY <2>2, KilledIs DEF IInv, TypeOK, close, Exists
    <3> QED BY <3>1, <1>1 DEF CloseEmptiesJob, Members
  <2>3. CASE job = "open" /\ "killOnClose" \notin flags
    BY <2>3, <1>1 DEF IInv, HandleInv, CloseEmptiesJob
  <2> QED BY <2>1, <2>2, <2>3 DEF IInv, TypeOK
<1>8. FailedStartLeavesNobody'
  <2> SUFFICES ASSUME to = "failed", NEW p \in Procs
               PROVE  ~Exists(p)'
    BY DEF FailedStartLeavesNobody, close
  <2>1. ~Exists(p)
    BY DEF IInv, StartInv, Alone, Exists
  <2> QED BY <2>1, <1>4
<1> QED BY <1>2, <1>5, <1>6, <1>7, <1>8 DEF IInv

(* Actions of Start that change neither handle nor members' fate.          *)
LEMMA StartInvStep == IInv /\ Start => IInv'
<1> SUFFICES ASSUME IInv, Start PROVE IInv'
  OBVIOUS
<1> USE JobAssumption DEF Goto, Final, StartPcs, WaitPcs
<1>1. CASE newProcessGroup
  BY <1>1 DEF newProcessGroup, IInv, TypeOK, StartInv, HandleInv, MemberInv, KillInv, Alone,
      Exists, Members, OutsidersBrokeAway, CloseEmptiesJob, FailedStartLeavesNobody, JobFlags
<1>2. CASE Spawn
  BY <1>2 DEF Spawn, jobVars, IInv, TypeOK, StartInv, HandleInv, MemberInv, KillInv, Alone,
      Exists, Members, OutsidersBrokeAway, CloseEmptiesJob, FailedStartLeavesNobody
<1>3. CASE SpawnFails
  BY <1>3, CloseInv DEF SpawnFails
<1>4. CASE Assign
  BY <1>4 DEF Assign, IInv, TypeOK, StartInv, HandleInv, MemberInv, KillInv, Alone,
      Exists, Members, OutsidersBrokeAway, CloseEmptiesJob, FailedStartLeavesNobody
<1>5. CASE Resume
  BY <1>5 DEF Resume, jobVars, IInv, TypeOK, StartInv, HandleInv, MemberInv, KillInv, Alone,
      Exists, Members, OutsidersBrokeAway, CloseEmptiesJob, FailedStartLeavesNobody
<1>6. CASE ResumeFails
  BY <1>6 DEF ResumeFails, jobVars, IInv, TypeOK, StartInv, HandleInv, MemberInv, KillInv, Alone,
      Exists, Members, OutsidersBrokeAway, CloseEmptiesJob, FailedStartLeavesNobody
<1>7. CASE UndoStart
  BY <1>7 DEF UndoStart, Killed, jobVars, IInv, TypeOK, StartInv, HandleInv, MemberInv, KillInv,
      Alone, Exists, Members, OutsidersBrokeAway, CloseEmptiesJob, FailedStartLeavesNobody
<1>8. CASE StartGivesUp
  BY <1>8, CloseInv DEF StartGivesUp
<1>9. CASE setLimits
  BY <1>9 DEF setLimits, IInv, TypeOK, StartInv, HandleInv, MemberInv, KillInv, Alone,
      Exists, Members, OutsidersBrokeAway, CloseEmptiesJob, FailedStartLeavesNobody,
      JobFlags, LimitFlags
<1> QED BY <1>1, <1>2, <1>3, <1>4, <1>5, <1>6, <1>7, <1>8, <1>9 DEF Start

(* A step of terminate, whatever it kills.                                 *)
LEMMA KillStep ==
  ASSUME IInv, NEW S, proc' = Killed(S), UNCHANGED <<pc, job, jobVars, listed>>,
         term \in {"job", "child", "tree"},
         term' \in {"child", "tree", "done"}
  PROVE  /\ TypeOK' /\ StartInv' /\ HandleInv' /\ MemberInv'
         /\ OutsidersBrokeAway' /\ CloseEmptiesJob' /\ FailedStartLeavesNobody'
         /\ \A p \in Procs : Exists(p)' => Exists(p) /\ p \notin S
         /\ Members' \subseteq Members \ S
<1>1. \A p \in Procs : proc'[p] = "unborn" <=> proc[p] = "unborn"
  BY KilledIs DEF IInv
<1>2. \A p \in Procs : Exists(p)' => Exists(p) /\ p \notin S
  BY KilledIs DEF IInv, Exists
<1>3. TypeOK'
  BY KilledType DEF IInv, TypeOK, jobVars
<1>4. Members' \subseteq Members \ S
  BY <1>2 DEF Members, IInv, TypeOK, jobVars
<1>6. StartInv'
  BY DEF IInv, StartInv, StartPcs
<1>7. HandleInv' /\ MemberInv' /\ OutsidersBrokeAway'
  BY <1>1, JobAssumption DEF IInv, HandleInv, MemberInv, OutsidersBrokeAway, TypeOK, jobVars
<1>8. CloseEmptiesJob' /\ FailedStartLeavesNobody'
  BY <1>2, <1>4 DEF IInv, CloseEmptiesJob, FailedStartLeavesNobody, jobVars
<1> QED BY <1>2, <1>3, <1>4, <1>6, <1>7, <1>8

LEMMA WaitInvStep == IInv /\ Wait => IInv'
<1> SUFFICES ASSUME IInv, Wait PROVE IInv'
  OBVIOUS
<1> USE JobAssumption DEF Goto, Final, StartPcs, WaitPcs
<1>1. CASE Cancel
  BY <1>1 DEF Cancel, signal, pids, jobVars, IInv, TypeOK, StartInv, HandleInv, MemberInv, KillInv, Alone,
      Exists, Members, OutsidersBrokeAway, CloseEmptiesJob, FailedStartLeavesNobody
<1>2. CASE Signalled
  BY <1>2 DEF Signalled, jobVars, IInv, TypeOK, StartInv, HandleInv, MemberInv, KillInv, Alone,
      Exists, Members, OutsidersBrokeAway, CloseEmptiesJob, FailedStartLeavesNobody
<1>3. CASE GraceExpires
  BY <1>3 DEF GraceExpires, pids, jobVars, IInv, TypeOK, StartInv, HandleInv, MemberInv, KillInv,
      Alone, Exists, Members, OutsidersBrokeAway, CloseEmptiesJob, FailedStartLeavesNobody
<1>4. CASE TerminateJob
  <2>1. CASE job = "open"
    <3>1. proc' = Killed(inJob)
      BY <1>4, <2>1 DEF TerminateJob
    <3>2. Members' = {}
      BY <1>4, <3>1, KillStep DEF TerminateJob, Members
    <3> QED BY <1>4, <3>1, <3>2, KillStep DEF TerminateJob, IInv, KillInv
  <2>2. CASE job = "none"
    <3>1. pc \in {"kill", "signal"} => Members = {}
      BY <2>2 DEF IInv, HandleInv, Members
    <3> QED
      BY <1>4, <2>2, <3>1 DEF TerminateJob, jobVars, IInv, TypeOK, StartInv, HandleInv, MemberInv,
          KillInv, Alone, Exists, Members, OutsidersBrokeAway, CloseEmptiesJob,
          FailedStartLeavesNobody
  <2> QED BY <2>1, <2>2 DEF IInv, TypeOK
<1>5. CASE TerminateChild
  <2>1. ~Exists(Leader)' /\ Members' \subseteq Members
    BY <1>5, KillStep DEF TerminateChild
  <2> QED BY <1>5, <2>1, KillStep DEF TerminateChild, IInv, KillInv, TypeOK
<1>6. CASE fallbackTreeKill
  <2>1. PICK found \in SUBSET Procs : proc' = Killed(found)
    BY <1>6 DEF fallbackTreeKill
  <2>2. (~Exists(Leader) => ~Exists(Leader)') /\ Members' \subseteq Members
    BY <1>6, <2>1, KillStep DEF fallbackTreeKill
  <2> QED BY <1>6, <2>1, <2>2, KillStep DEF fallbackTreeKill, IInv, KillInv
<1>7. CASE WaitEnds
  BY <1>7 DEF WaitEnds, Ended, jobVars, IInv, TypeOK, StartInv, HandleInv, MemberInv, KillInv,
      Alone, Exists, Members, OutsidersBrokeAway, CloseEmptiesJob, FailedStartLeavesNobody
<1>8. CASE WaitCloses
  BY <1>8, CloseInv DEF WaitCloses
<1> QED BY <1>1, <1>2, <1>3, <1>4, <1>5, <1>6, <1>7, <1>8 DEF Wait

(* A new process has a living parent; only a member has a member child.    *)
LEMMA ForkInvStep ==
  ASSUME IInv, NEW p \in Procs, NEW q \in Procs, Fork(p, q) PROVE IInv'
BY JobAssumption DEF Fork, Joins, IInv, TypeOK, StartInv, HandleInv, MemberInv, KillInv, Alone,
    Exists, Members, OutsidersBrokeAway, CloseEmptiesJob, FailedStartLeavesNobody,
    Final, StartPcs, WaitPcs

LEMMA ExitInvStep ==
  ASSUME IInv, NEW p \in Procs, Exit(p) PROVE IInv'
BY JobAssumption DEF Exit, jobVars, IInv, TypeOK, StartInv, HandleInv, MemberInv, KillInv, Alone,
    Exists, Members, OutsidersBrokeAway, CloseEmptiesJob, FailedStartLeavesNobody,
    Final, StartPcs, WaitPcs

LEMMA StutterInv == IInv /\ UNCHANGED vars => IInv'
BY DEF StartPcs, vars, jobVars, IInv, TypeOK, StartInv, HandleInv, MemberInv, KillInv, Alone,
    Exists, Members, OutsidersBrokeAway, CloseEmptiesJob, FailedStartLeavesNobody

(* The inductive invariant: types, and what each phase of Start and Wait   *)
(* has made of the job, the child and the processes below it.              *)
THEOREM JobInvariant == Spec => []IInv
<1>1. IInv /\ [Next]_vars => IInv'
  <2> SUFFICES ASSUME IInv, [Next]_vars PROVE IInv'
    OBVIOUS
  <2>1. CASE Crash
    BY <2>1, CloseInv DEF Crash, Final
  <2>2. CASE Terminated
    BY <2>2, StutterInv DEF Terminated
  <2> QED BY <2>1, <2>2, StartInvStep, WaitInvStep, ForkInvStep, ExitInvStep, StutterInv
          DEF Next
<1> QED BY <1>1, InitInv, PTL DEF Spec

(* Whoever of the tree is outside a job that took the child in broke away. *)
THEOREM OutsidersExplained == Spec => []OutsidersBrokeAway
BY JobInvariant, PTL DEF IInv

(* No member of the job outlives the handle, except under resource limits. *)
THEOREM HandleIsLifeline == Spec => []CloseEmptiesJob
BY JobInvariant, PTL DEF IInv

(* A failed Start leaves no process behind.                                *)
THEOREM FailedStartIsClean == Spec => []FailedStartLeavesNobody
BY JobInvariant, PTL DEF IInv

(* After terminate the members and all that Wait has listed are dead.      *)
THEOREM TerminateKillsListed == Spec => []ListedAreKilled
<1>1. IInv => ListedAreKilled
  BY DEF IInv, KillInv, MemberInv, ListedAreKilled, Members
<1> QED BY <1>1, JobInvariant, PTL

=============================================================================
