---------------------------- MODULE RunnerProofs ----------------------------
(***************************************************************************)
(* Theorems about Runner.                                                  *)
(***************************************************************************)
EXTENDS Runner, TLAPS

(* TypeOK alone is not inductive: waitForProcess turns the leader's status *)
(* into procErr, so the status has to be known once the leader is dead.    *)
ExitKnown ==
  /\ proc[Leader] \in {"zombie", "gone"} => status # "none"
  /\ waitGo \in {"reaped", "recorded", "closed"} => status # "none"

TypeInv == TypeOK /\ ExitKnown

LEMMA TypeInit == Init => TypeInv
<1> SUFFICES ASSUME Init PROVE TypeInv
  OBVIOUS
<1>1. pc \in [Callers -> StartPcs \cup WaitPcs \cup RestPcs]
  BY DEF Init, RestPcs
<1>2. result \in Results
  BY DEF Init, Results, NoResult, Paths, Codes
<1>3. RunnerTypeOK
  BY <1>1, <1>2, RunnerAssumption DEF Init, RunnerTypeOK, States, Errors, Paths
<1>4. GroupTypeOK
  BY DEF Init, GroupInit, GroupTypeOK, ProcStates, Signals, Statuses
<1>5. PipesTypeOK
  BY DEF Init, PipesInit, PipesTypeOK, CopierStates, WaitStates
<1>6. ExitKnown
  BY ProcsAssumption DEF Init, GroupInit, ExitKnown
<1> QED
  BY <1>3, <1>4, <1>5, <1>6 DEF TypeInv, TypeOK

(* What kill(-pgid) does to the pending signals.                           *)
LEMMA SignalType ==
  ASSUME GroupTypeOK, NEW s \in {"polite", "kill", "unsupported"}, signal(s)
  PROVE  GroupTypeOK'
<1>1. ASSUME NEW p \in Procs, p \in Targets(s) PROVE s \in Signals
  BY <1>1 DEF Targets, Signals
<1>2. sig' \in [Procs -> Signals]
  BY <1>1 DEF signal, GroupTypeOK, Signals
<1> QED
  BY <1>2 DEF signal, GroupTypeOK

LEMMA TypeStep == TypeInv /\ [Next]_vars => TypeInv'
<1> SUFFICES ASSUME TypeInv, [Next]_vars PROVE TypeInv'
  OBVIOUS
<1> USE ProcsAssumption, RunnerAssumption
    DEF TypeInv, ExitKnown, TypeOK, RunnerTypeOK, GroupTypeOK, PipesTypeOK,
        States, ProcStates, Signals, Statuses, CopierStates, WaitStates,
        StartPcs, WaitPcs, RestPcs, Paths, Errors, Codes, Results,
        lifeVars, exitVars, outVars, stdinVars, groupVars, kernelVars, pipeVars
<1>1. ASSUME NEW c \in Callers, StdinPipe(c) PROVE TypeInv'
  BY <1>1 DEF StdinPipe, StdinTested, StdinPiped
<1>2. ASSUME NEW c \in Callers, StartRejected(c) PROVE TypeInv'
  BY <1>2 DEF StartRejected, Goto
<1>3. ASSUME NEW c \in Callers, StartBegin(c) PROVE TypeInv'
  BY <1>3 DEF StartBegin, Goto, transition
<1>4. ASSUME NEW c \in Callers, StartPiped(c) PROVE TypeInv'
  BY <1>4 DEF StartPiped, Goto
<1>5. ASSUME NEW c \in Callers, StartPipeFails(c) PROVE TypeInv'
  BY <1>5 DEF StartPipeFails, StartFails, Goto, close, forceTransition, Released
<1>6. ASSUME NEW c \in Callers, StartForkFails(c) PROVE TypeInv'
  BY <1>6 DEF StartForkFails, StartFails, Goto, close, forceTransition, Released
<1>7. ASSUME NEW c \in Callers, StartFork(c) PROVE TypeInv'
  BY <1>7 DEF StartFork, Goto, SpawnLeader, Inherited
<1>8. ASSUME NEW c \in Callers, StartActivate(c) PROVE TypeInv'
  BY <1>8 DEF StartActivate, Goto, activate
<1>9. ASSUME NEW c \in Callers, StartLaunch(c) PROVE TypeInv'
  BY <1>9 DEF StartLaunch, Goto, transition
<1>10. ASSUME NEW c \in Callers, StartReturn(c) PROVE TypeInv'
  BY <1>10 DEF StartReturn, Goto, Released
<1>11. ASSUME NEW c \in Callers, WaitRejected(c) PROVE TypeInv'
  BY <1>11 DEF WaitRejected
<1>12. ASSUME NEW c \in Callers, WaitBegin(c) PROVE TypeInv'
  BY <1>12 DEF WaitBegin
<1>13. ASSUME NEW c \in Callers, SelectExit(c) PROVE TypeInv'
  BY <1>13 DEF SelectExit, TakePath, Goto
<1>14. ASSUME NEW c \in Callers, SelectCancel(c) PROVE TypeInv'
  BY <1>14 DEF SelectCancel, Goto
<1>15. ASSUME NEW c \in Callers, Snapshot(c) PROVE TypeInv'
  BY <1>15 DEF Snapshot, Goto, pids, Reachable
<1>16. ASSUME NEW c \in Callers, SignalGracefully(c) PROVE TypeInv'
  <2>1. GroupTypeOK'
    BY <1>16, SignalType DEF SignalGracefully
  <2>2. pc' \in [Callers -> StartPcs \cup WaitPcs \cup RestPcs]
    BY <1>16 DEF SignalGracefully, Goto
  <2> QED
    BY <1>16, <2>1, <2>2 DEF SignalGracefully, transition, signal
<1>17. ASSUME NEW c \in Callers, Drained(c) PROVE TypeInv'
  BY <1>17 DEF Drained, TakePath, Goto
<1>18. ASSUME NEW c \in Callers, GraceExit(c) PROVE TypeInv'
  BY <1>18 DEF GraceExit, TakePath, Goto
<1>19. ASSUME NEW c \in Callers, GraceExpires(c) PROVE TypeInv'
  BY <1>19 DEF GraceExpires, Goto, pids, Reachable
<1>20. ASSUME NEW c \in Callers, Escalate(c) PROVE TypeInv'
  BY <1>20 DEF Escalate, Kill, Goto, transition, terminate, signal
<1>21. ASSUME NEW c \in Callers, KillNow(c) PROVE TypeInv'
  BY <1>21 DEF KillNow, Kill, Goto, transition, terminate, signal
<1>22. ASSUME NEW c \in Callers, Panic(c) PROVE TypeInv'
  BY <1>22 DEF Panic
<1>23. ASSUME NEW c \in Callers, KilledExit(c) PROVE TypeInv'
  BY <1>23 DEF KilledExit, TakePath, Goto
<1>24. ASSUME NEW c \in Callers, KillDeadline(c) PROVE TypeInv'
  BY <1>24 DEF KillDeadline, TakePath, Goto, forceClose
<1>25. ASSUME NEW c \in Callers, Build(c) PROVE TypeInv'
  BY <1>25 DEF Build, Goto, buildResult, ExitCode, WaitPipes, pids, Reachable
<1>26. ASSUME NEW c \in Callers, IOWaited(c) PROVE TypeInv'
  BY <1>26 DEF IOWaited, Goto
<1>27. ASSUME NEW c \in Callers, CloseGroup(c) PROVE TypeInv'
  BY <1>27 DEF CloseGroup, Goto, close, forceTransition
<1>28. ASSUME NEW c \in Callers, NEW s \in Streams, StartPipe(c, s) PROVE TypeInv'
  BY <1>28 DEF StartPipe, startCopy
<1>29. ASSUME ReapLeader PROVE TypeInv'
  BY <1>29 DEF ReapLeader, ReapLeaderProc
<1>30. ASSUME RecordExit PROVE TypeInv'
  BY <1>30 DEF RecordExit, ErrorOf
<1>31. ASSUME CloseProcDone PROVE TypeInv'
  BY <1>31 DEF CloseProcDone
<1>32. ASSUME StdinEnds PROVE TypeInv'
  BY <1>32 DEF StdinEnds
<1>34. ASSUME Cancel PROVE TypeInv'
  BY <1>34 DEF Cancel
<1>35. ASSUME NEW p \in Procs, NEW q \in Procs, Fork(p, q) PROVE TypeInv'
  BY <1>35 DEF Fork, ForkProc, Inherited, runnerOnly, pipesButHolders
<1>36. ASSUME NEW p \in Procs, Leave(p) PROVE TypeInv'
  BY <1>36 DEF Leave, Escape, runnerOnly
<1>37. ASSUME NEW p \in Procs, Die(p) PROVE TypeInv'
  BY <1>37 DEF Die, ExitProc, DieOfKill, DeathOf, Released, runnerOnly, pipesButHolders
<1>38. ASSUME NEW p \in Procs, NEW s \in Streams, CloseOutput(p, s) PROVE TypeInv'
  BY <1>38 DEF CloseOutput, runnerOnly, pipesButHolders
<1>39. ASSUME NEW p \in Procs, NEW s \in Streams, WriteOutput(p, s) PROVE TypeInv'
  BY <1>39 DEF WriteOutput, WriteChunk, runnerOnly
<1>40. ASSUME Recycle PROVE TypeInv'
  BY <1>40 DEF Recycle, RecyclePid, runnerOnly
<1>41. ASSUME NEW s \in Streams, Copier(s) PROVE TypeInv'
  BY <1>41 DEF Copier, CopyStep, CopyRead, CopyWrote, CopyWriteFails, CopyEOF,
         CopyReadFails, CopyEnds, runnerOnly
<1>42. ASSUME PipesTimer PROVE TypeInv'
  <2>1. rdOpen' \in [Streams -> BOOLEAN] /\ pmwait' \in WaitStates
    <3>1. CASE WaitCompletes
      BY <3>1 DEF WaitCompletes
    <3>2. CASE WaitTimesOut
      BY <3>2 DEF WaitTimesOut, forceClose
    <3>3. CASE WaitAfterClose
      BY <3>3 DEF WaitAfterClose
    <3> QED
      BY <1>42, <3>1, <3>2, <3>3 DEF PipesTimer, WaitPipesStep
  <2>2. UNCHANGED <<copier, holders, inPipe, sent, got, copyErr>>
    BY <1>42 DEF PipesTimer, WaitPipesStep, WaitCompletes, WaitTimesOut, WaitAfterClose
  <2>3. UNCHANGED <<runnerOnly, groupVars>>
    BY <1>42 DEF PipesTimer
  <2> QED
    BY <2>1, <2>2, <2>3 DEF runnerOnly
<1>43. ASSUME UNCHANGED vars PROVE TypeInv'
  BY <1>43 DEF vars
<1> QED
  BY <1>1, <1>2, <1>3, <1>4, <1>5, <1>6, <1>7, <1>8, <1>9, <1>10, <1>11,
     <1>12, <1>13, <1>14, <1>15, <1>16, <1>17, <1>18, <1>19, <1>20, <1>21,
     <1>22, <1>23, <1>24, <1>25, <1>26, <1>27, <1>28, <1>29, <1>30, <1>31,
     <1>32, <1>34, <1>35, <1>36, <1>37, <1>38, <1>39, <1>40, <1>41,
     <1>42, <1>43
  DEF Next, Start, Wait, WaitStep, waitForProcess, Processes, Terminated

(* The type invariant of the whole Runner, for any number of callers,      *)
(* processes and streams and every combination of the options.             *)
THEOREM TypeCorrect == SafeSpec => []TypeOK
<1>1. TypeInv => TypeOK
  BY DEF TypeInv
<1> QED
  BY TypeInit, TypeStep, <1>1, PTL DEF SafeSpec

-----------------------------------------------------------------------------
(***************************************************************************)
(* How the program counters move.                                          *)
(***************************************************************************)
(* Steps that are no part of a call: they leave the Runner's own fields    *)
(* alone.                                                                  *)
Background ==
  \/ \E c \in Callers : StdinPipe(c)
  \/ waitForProcess \/ StdinEnds \/ Cancel
  \/ \E s \in Streams : Copier(s)
  \/ PipesTimer \/ Processes \/ Terminated \/ UNCHANGED vars

LEMMA BackgroundFrame ==
  ASSUME Background
  PROVE  UNCHANGED <<pc, lifeVars, outVars, pgid>>
<1> USE DEF lifeVars, outVars, exitVars, stdinVars, groupVars, kernelVars, pipeVars,
            runnerOnly
<1>1. CASE \E c \in Callers : StdinPipe(c)
  BY <1>1 DEF StdinPipe, StdinTested, StdinPiped
<1>2. CASE waitForProcess
  BY <1>2 DEF waitForProcess, ReapLeader, ReapLeaderProc, RecordExit, CloseProcDone
<1>3. CASE StdinEnds \/ Cancel
  BY <1>3 DEF StdinEnds, Cancel
<1>4. CASE \E s \in Streams : Copier(s)
  BY <1>4 DEF Copier
<1>5. CASE PipesTimer
  BY <1>5 DEF PipesTimer
<1>6. CASE \E p, q \in Procs : Fork(p, q)
  BY <1>6 DEF Fork, ForkProc
<1>7. CASE \E p \in Procs : Leave(p) \/ Die(p)
  BY <1>7 DEF Leave, Escape, Die, ExitProc, DieOfKill
<1>8. CASE \E p \in Procs, s \in Streams : CloseOutput(p, s) \/ WriteOutput(p, s)
  BY <1>8 DEF CloseOutput, WriteOutput
<1>9. CASE Recycle
  BY <1>9 DEF Recycle, RecyclePid
<1>10. CASE Terminated \/ UNCHANGED vars
  BY <1>10 DEF Terminated, vars
<1> QED
  BY <1>1, <1>2, <1>3, <1>4, <1>5, <1>6, <1>7, <1>8, <1>9, <1>10
  DEF Background, Processes

(* The steps of Start past the compare-and-swap.                           *)
StartStep(c) ==
  \/ \E s \in Streams : StartPipe(c, s)
  \/ StartPiped(c) \/ StartPipeFails(c) \/ StartFork(c) \/ StartForkFails(c)
  \/ StartActivate(c) \/ StartLaunch(c) \/ StartReturn(c)

LEMMA NextCases ==
  [Next]_vars =>
    \/ \E c \in Callers : \/ StartRejected(c) \/ StartBegin(c) \/ StartStep(c)
                          \/ WaitRejected(c) \/ WaitBegin(c) \/ WaitStep(c)
    \/ Background
  BY DEF Next, Start, Wait, StartStep, Background

LEMMA StartMoves ==
  ASSUME NEW c \in Callers, StartStep(c)
  PROVE  /\ pc[c] \in StartPcs
         /\ \E x \in StartPcs \cup {"ready", "failed"} :
              pc' = pc \/ pc' = [pc EXCEPT ![c] = x]
         /\ UNCHANGED <<started, waited>>
  BY DEF StartStep, StartPipe, StartPiped, StartPipeFails, StartFork, StartForkFails,
      StartFails, StartActivate, StartLaunch, StartReturn, Goto, StartPcs, lifeVars

LEMMA WaitMoves ==
  ASSUME NEW c \in Callers, WaitStep(c)
  PROVE  /\ pc[c] \in WaitPcs
         /\ \E x \in WaitPcs \cup {"returned", "panicked"} :
              pc' = [pc EXCEPT ![c] = x]
         /\ UNCHANGED <<started, waited>>
<1> USE DEF Goto, TakePath, Kill, WaitPcs, lifeVars
<1>1. CASE SelectExit(c) \/ SelectCancel(c) \/ Snapshot(c)
  BY <1>1 DEF SelectExit, SelectCancel, Snapshot
<1>2. CASE SignalGracefully(c) \/ Drained(c) \/ GraceExit(c) \/ GraceExpires(c)
  BY <1>2 DEF SignalGracefully, Drained, GraceExit, GraceExpires
<1>3. CASE Escalate(c) \/ KillNow(c) \/ Panic(c) \/ KilledExit(c) \/ KillDeadline(c)
  BY <1>3 DEF Escalate, KillNow, Panic, KilledExit, KillDeadline
<1>4. CASE Build(c) \/ IOWaited(c) \/ CloseGroup(c)
  BY <1>4 DEF Build, IOWaited, CloseGroup
<1> QED
  BY <1>1, <1>2, <1>3, <1>4 DEF WaitStep

-----------------------------------------------------------------------------
(***************************************************************************)
(* One owner.                                                              *)
(***************************************************************************)
(* Whoever is inside Start set r.started, whoever is inside Wait set       *)
(* r.waited, so a second one is turned away.                               *)
Owner ==
  /\ \A c \in Callers : pc[c] \in StartPcs => started
  /\ \A c \in Callers : pc[c] \in WaitPcs => waited
  /\ OneLifecycleOwner

LEMMA OwnerInit == Init => Owner
  BY DEF Init, Owner, OneLifecycleOwner, StartPcs, WaitPcs

LEMMA OwnerStep == TypeOK /\ Owner /\ [Next]_vars => Owner'
<1> SUFFICES ASSUME TypeOK, Owner, [Next]_vars PROVE Owner'
  OBVIOUS
<1> USE DEF Owner, OneLifecycleOwner, TypeOK, RunnerTypeOK
<1>1. ASSUME NEW c \in Callers, StartRejected(c) \/ WaitRejected(c) PROVE Owner'
  BY <1>1 DEF StartRejected, WaitRejected, Goto, StartPcs, WaitPcs, lifeVars
<1>2. ASSUME NEW c \in Callers, StartBegin(c) PROVE Owner'
  BY <1>2 DEF StartBegin, Goto, StartPcs, WaitPcs
<1>3. ASSUME NEW c \in Callers, StartStep(c) PROVE Owner'
  BY <1>3, StartMoves DEF StartPcs, WaitPcs
<1>4. ASSUME NEW c \in Callers, WaitBegin(c) PROVE Owner'
  BY <1>4 DEF WaitBegin, StartPcs, WaitPcs
<1>5. ASSUME NEW c \in Callers, WaitStep(c) PROVE Owner'
  BY <1>5, WaitMoves DEF StartPcs, WaitPcs
<1>6. ASSUME Background PROVE Owner'
  BY <1>6, BackgroundFrame DEF lifeVars
<1> QED
  BY <1>1, <1>2, <1>3, <1>4, <1>5, <1>6, NextCases

(* However many goroutines call Start and Wait, and in whatever order, at  *)
(* most one launches the command and at most one runs its lifecycle.       *)
THEOREM OneOwner == SafeSpec => []OneLifecycleOwner
<1>1. TypeInv => TypeOK
  BY DEF TypeInv
<1>2. Owner => OneLifecycleOwner
  BY DEF Owner
<1> QED
  BY TypeInit, TypeStep, OwnerInit, OwnerStep, <1>1, <1>2, PTL DEF SafeSpec

-----------------------------------------------------------------------------
(***************************************************************************)
(* A force kill leaves nobody out, provided Wait follows a successful      *)
(* Start.                                                                  *)
(***************************************************************************)
(* From the end of Start to the end of Wait the group is there and has its *)
(* number.                                                                 *)
Launched ==
  /\ startOk => started /\ groupSet
  /\ waited => startOk
  /\ startOk /\ ~waited => pgid = Leader
  /\ \A c \in Callers : pc[c] \in StartPcs => ~startOk /\ groupSet
  /\ \A c \in Callers : pc[c] \in {"launch", "return"} => pgid = Leader
  /\ \A c \in Callers : pc[c] \in WaitPcs => pgid = Leader

LEMMA LaunchedInit == Init => Launched
  BY DEF Init, Launched, StartPcs, WaitPcs

LEMMA LaunchedStep ==
  EarlyWait = FALSE /\ TypeOK /\ Owner /\ Launched /\ [Next]_vars => Launched'
<1> SUFFICES ASSUME EarlyWait = FALSE, TypeOK, Owner, Launched, [Next]_vars
             PROVE Launched'
  OBVIOUS
<1> USE DEF Owner, OneLifecycleOwner, Launched, TypeOK, RunnerTypeOK, StartPcs, WaitPcs
<1>1. ASSUME NEW c \in Callers, StartRejected(c) \/ WaitRejected(c) PROVE Launched'
  BY <1>1 DEF StartRejected, WaitRejected, Goto, lifeVars, groupVars
<1>2. ASSUME NEW c \in Callers, StartBegin(c) PROVE Launched'
  BY <1>2 DEF StartBegin, Goto, groupVars
<1>3. ASSUME NEW c \in Callers, StartStep(c) PROVE Launched'
  <2> USE DEF Goto, lifeVars, groupVars
  <2>1. CASE (\E s \in Streams : StartPipe(c, s)) \/ StartPiped(c) \/ StartFork(c)
    BY <2>1 DEF StartPipe, StartPiped, StartFork, SpawnLeader
  <2>2. CASE StartPipeFails(c) \/ StartForkFails(c)
    BY <2>2 DEF StartPipeFails, StartForkFails, StartFails, close
  <2>3. CASE StartActivate(c)
    BY <2>3 DEF StartActivate, activate
  <2>4. CASE StartLaunch(c) \/ StartReturn(c)
    BY <2>4 DEF StartLaunch, StartReturn
  <2> QED
    BY <1>3, <2>1, <2>2, <2>3, <2>4 DEF StartStep
<1>4. ASSUME NEW c \in Callers, WaitBegin(c) PROVE Launched'
  BY <1>4 DEF WaitBegin, WaitCall, groupVars
<1>5. ASSUME NEW c \in Callers, WaitStep(c) PROVE Launched'
  <2>1. CASE CloseGroup(c)
    BY <2>1 DEF CloseGroup, Goto, close
  <2>2. CASE ~CloseGroup(c)
    <3>1. UNCHANGED <<startOk, groupSet, pgid>>
      BY <1>5, <2>2
      DEF WaitStep, SelectExit, SelectCancel, Snapshot, SignalGracefully, Drained,
          GraceExit, GraceExpires, Escalate, KillNow, Panic, KilledExit, KillDeadline,
          Build, IOWaited, TakePath, Kill, terminate, signal, lifeVars, groupVars
    <3> QED
      BY <1>5, <3>1, WaitMoves
  <2> QED
    BY <2>1, <2>2
<1>6. ASSUME Background PROVE Launched'
  BY <1>6, BackgroundFrame DEF lifeVars
<1> QED
  BY <1>1, <1>2, <1>3, <1>4, <1>5, <1>6, NextCases

(* ForcedKillReachesAll is inductive together with: nobody is a member     *)
(* before it is born, so that a fork outside the group does not put a      *)
(* process in it; and there is a path only after Start has returned, so    *)
(* that the leader is not born after the kill.                             *)
KillInv ==
  /\ \A p \in member : proc[p] # "unborn"
  /\ path # "none" => startOk
  /\ ForcedKillReachesAll

LEMMA KillInit == Init => KillInv
  BY DEF Init, GroupInit, KillInv, ForcedKillReachesAll, KillIssued

(* The kill itself.                                                        *)
LEMMA TerminateReachesAll ==
  ASSUME GroupTypeOK, pgid = Leader, terminate
  PROVE  \A p \in member' \ Privileged : Alive(p)' => sig'[p] = "kill"
  BY ProcsAssumption DEF terminate, signal, Targets, Alive, GroupTypeOK

(* No signal takes a pending SIGKILL back.                                 *)
LEMMA SignalKeepsKill ==
  ASSUME GroupTypeOK, NEW s \in {"polite", "kill", "unsupported"}, signal(s),
         NEW p \in Procs, sig[p] = "kill"
  PROVE  sig'[p] = "kill"
  BY DEF signal, GroupTypeOK

LEMMA KillStep ==
  /\ EarlyWait = FALSE /\ TypeOK /\ Owner /\ Launched /\ KillInv /\ [Next]_vars
  => KillInv'
<1> SUFFICES ASSUME EarlyWait = FALSE, TypeOK, Owner, Launched, KillInv, [Next]_vars
             PROVE KillInv'
  OBVIOUS
<1> USE ProcsAssumption, RunnerAssumption
    DEF Owner, OneLifecycleOwner, Launched, KillInv, ForcedKillReachesAll, KillIssued,
        Alive, TypeOK, RunnerTypeOK, GroupTypeOK, StartPcs, WaitPcs
<1>1. ASSUME NEW c \in Callers, StartRejected(c) \/ WaitRejected(c) PROVE KillInv'
  BY <1>1 DEF StartRejected, WaitRejected, Goto, lifeVars, groupVars, outVars
<1>2. ASSUME NEW c \in Callers, StartBegin(c) PROVE KillInv'
  BY <1>2 DEF StartBegin, Goto, groupVars, outVars
<1>3. ASSUME NEW c \in Callers, StartStep(c) PROVE KillInv'
  <2>1. ~startOk /\ ~KillIssued /\ path = "none"
    BY <1>3, StartMoves DEF Paths
  <2>2. path' = path /\ ~KillIssued'
    BY <1>3, <2>1, StartMoves
    DEF StartStep, StartPipe, StartPiped, StartPipeFails, StartFork, StartForkFails,
        StartFails, StartActivate, StartLaunch, StartReturn, outVars
  <2>3. \A p \in member' : proc'[p] # "unborn"
    BY <1>3
    DEF StartStep, StartPipe, StartPiped, StartPipeFails, StartFork, StartForkFails,
        StartFails, StartActivate, StartLaunch, StartReturn, SpawnLeader,
        kernelVars, groupVars
  <2> QED
    BY <2>1, <2>2, <2>3
<1>4. ASSUME NEW c \in Callers, WaitBegin(c) PROVE KillInv'
  BY <1>4 DEF WaitBegin, groupVars, outVars
<1>5. ASSUME NEW c \in Callers, WaitStep(c) PROVE KillInv'
  <2> USE DEF Goto, lifeVars, outVars, groupVars, kernelVars
  <2>0. startOk /\ pgid = Leader
    BY <1>5, WaitMoves
  <2>1. CASE SelectExit(c) \/ SelectCancel(c) \/ Drained(c) \/ GraceExit(c)
    BY <2>0, <2>1 DEF SelectExit, SelectCancel, Drained, GraceExit, TakePath
  <2>2. CASE Snapshot(c) \/ GraceExpires(c) \/ Panic(c)
    BY <2>2 DEF Snapshot, GraceExpires, Panic
  <2>3. CASE SignalGracefully(c)
    <3>1. UNCHANGED <<proc, member, startOk, path>> /\ (KillIssued' => KillIssued)
      BY <2>3 DEF SignalGracefully, signal
    <3>2. \A p \in Procs : sig[p] = "kill" => sig'[p] = "kill"
      BY <2>3, SignalKeepsKill DEF SignalGracefully
    <3> QED
      BY <3>1, <3>2
  <2>4. CASE Escalate(c) \/ KillNow(c)
    <3>1. terminate /\ UNCHANGED <<startOk, path>>
      BY <2>4 DEF Escalate, KillNow, Kill
    <3>2. UNCHANGED <<proc, member>>
      BY <3>1 DEF terminate, signal
    <3> QED
      BY <2>0, <3>1, <3>2, TerminateReachesAll
  <2>5. CASE KilledExit(c) \/ KillDeadline(c)
    BY <2>0, <2>5 DEF KilledExit, KillDeadline, TakePath
  <2>6. CASE Build(c) \/ IOWaited(c) \/ CloseGroup(c)
    BY <2>6 DEF Build, IOWaited, CloseGroup
  <2> QED
    BY <1>5, <2>1, <2>2, <2>3, <2>4, <2>5, <2>6 DEF WaitStep
<1>6. ASSUME Background PROVE KillInv'
  <2>0. UNCHANGED <<pc, startOk, path>>
    BY <1>6, BackgroundFrame DEF lifeVars, outVars
  <2>1. CASE UNCHANGED <<proc, member, sig>>
    BY <2>0, <2>1
  <2>2. CASE ReapLeader
    BY <2>0, <2>2 DEF ReapLeader, ReapLeaderProc
  <2>3. ASSUME NEW p \in Procs, NEW q \in Procs, Fork(p, q) PROVE KillInv'
    BY <2>0, <2>3 DEF Fork, ForkProc, Acting
  <2>4. ASSUME NEW p \in Procs, Leave(p) PROVE KillInv'
    BY <2>0, <2>4 DEF Leave, Escape
  <2>5. ASSUME NEW p \in Procs, Die(p) PROVE KillInv'
    BY <2>0, <2>5 DEF Die, ExitProc, DieOfKill, DeathOf
  <2> QED
    BY <1>6, <2>1, <2>2, <2>3, <2>4, <2>5
    DEF Background, Processes, StdinPipe, StdinTested, StdinPiped, waitForProcess, RecordExit, CloseProcDone,
        StdinEnds, Cancel, Copier, PipesTimer, CloseOutput, WriteOutput,
        Recycle, RecyclePid, Terminated, vars, groupVars
<1> QED
  BY <1>1, <1>2, <1>3, <1>4, <1>5, <1>6, NextCases

(* After a force kill every live member of the group that the caller may   *)
(* signal has SIGKILL pending, for any tree of processes, any option and   *)
(* any timing of forks, escapes and exits around the kill.                 *)
THEOREM KillReachesAll ==
  ASSUME EarlyWait = FALSE
  PROVE  SafeSpec => []ForcedKillReachesAll
<1>1. TypeInv => TypeOK
  BY DEF TypeInv
<1>2. KillInv => ForcedKillReachesAll
  BY DEF KillInv
<1> QED
  BY TypeInit, TypeStep, OwnerInit, OwnerStep, LaunchedInit, LaunchedStep,
     KillInit, KillStep, <1>1, <1>2, PTL DEF SafeSpec

-----------------------------------------------------------------------------
(***************************************************************************)
(* The Result of a command that was not force-killed.                      *)
(***************************************************************************)
(* What has been written about the end of the leader, by the progress of   *)
(* waitForProcess: it starts once, reaps before it records, and procDone   *)
(* is closed when procErr is final.                                        *)
ExitInv ==
  /\ ~started => waitGo = "none"
  /\ \A c \in Callers : pc[c] \in {"pipes", "fork", "activate", "launch"} => waitGo = "none"
  /\ waitGo \in {"reaped", "recorded", "closed"} => proc[Leader] = "gone"
  /\ waitGo \in {"recorded", "closed"} =>
       stdinCopier # "copying" /\ procErr = ErrorOf(status, stdinCopier)
  /\ path \in {"natural", "graceful"} => waitGo = "closed"
  /\ result.how \in {"natural", "graceful"} =>
       /\ waitGo = "closed"
       /\ result.code = ExitCode(procErr)
       /\ result.err = (procErr # "nil")

LEMMA ExitInit == Init => ExitInv
  BY DEF Init, NoResult, ExitInv

LEMMA ExitStep == TypeInv /\ Owner /\ ExitInv /\ [Next]_vars => ExitInv'
<1> SUFFICES ASSUME TypeInv, Owner, ExitInv, [Next]_vars PROVE ExitInv'
  OBVIOUS
<1> USE ProcsAssumption
    DEF Owner, OneLifecycleOwner, ExitInv, TypeInv, TypeOK, RunnerTypeOK, GroupTypeOK,
        StartPcs, WaitPcs, lifeVars, exitVars, outVars, stdinVars, groupVars, kernelVars
<1>1. ASSUME NEW c \in Callers, StartRejected(c) \/ WaitRejected(c) PROVE ExitInv'
  BY <1>1 DEF StartRejected, WaitRejected, Goto
<1>2. ASSUME NEW c \in Callers, StartBegin(c) PROVE ExitInv'
  BY <1>2 DEF StartBegin, Goto
<1>3. ASSUME NEW c \in Callers, StartStep(c) PROVE ExitInv'
  <2> USE DEF Goto
  <2>1. CASE (\E s \in Streams : StartPipe(c, s)) \/ StartPiped(c)
    BY <2>1 DEF StartPipe, StartPiped
  <2>2. CASE StartPipeFails(c) \/ StartForkFails(c)
    BY <2>2 DEF StartPipeFails, StartForkFails, StartFails
  <2>3. CASE StartFork(c)
    BY <2>3 DEF StartFork, SpawnLeader
  <2>4. CASE StartActivate(c) \/ StartReturn(c)
    BY <2>4 DEF StartActivate, StartReturn
  <2>5. CASE StartLaunch(c)
    BY <2>5 DEF StartLaunch
  <2> QED
    BY <1>3, <2>1, <2>2, <2>3, <2>4, <2>5 DEF StartStep
<1>4. ASSUME NEW c \in Callers, WaitBegin(c) PROVE ExitInv'
  BY <1>4 DEF WaitBegin
<1>5. ASSUME NEW c \in Callers, WaitStep(c) PROVE ExitInv'
  <2> USE DEF Goto
  <2>1. CASE SelectExit(c) \/ Drained(c) \/ GraceExit(c) \/ KilledExit(c)
    BY <2>1 DEF SelectExit, Drained, GraceExit, KilledExit, TakePath, procDone
  <2>2. CASE SelectCancel(c) \/ Snapshot(c) \/ GraceExpires(c) \/ Panic(c)
    BY <2>2 DEF SelectCancel, Snapshot, GraceExpires, Panic
  <2>3. CASE SignalGracefully(c) \/ Escalate(c) \/ KillNow(c)
    BY <2>3 DEF SignalGracefully, Escalate, KillNow, Kill, terminate, signal
  <2>4. CASE KillDeadline(c)
    BY <2>4 DEF KillDeadline, TakePath
  <2>5. CASE Build(c)
    BY <2>5 DEF Build, buildResult
  <2>6. CASE IOWaited(c) \/ CloseGroup(c)
    BY <2>6 DEF IOWaited, CloseGroup
  <2> QED
    BY <1>5, <2>1, <2>2, <2>3, <2>4, <2>5, <2>6 DEF WaitStep
<1>6. ASSUME Background PROVE ExitInv'
  <2>0. UNCHANGED <<pc, started, path, result>>
    BY <1>6, BackgroundFrame
  <2>1. CASE waitForProcess
    BY <2>0, <2>1 DEF waitForProcess, ReapLeader, ReapLeaderProc, RecordExit, CloseProcDone
  <2>2. CASE StdinEnds
    BY <2>0, <2>2 DEF StdinEnds
  <2>3. CASE UNCHANGED <<waitGo, procErr, stdinCopier, proc, status>>
    BY <2>0, <2>3
  <2>4. ASSUME NEW p \in Procs, NEW q \in Procs, Fork(p, q) PROVE ExitInv'
    BY <2>0, <2>4 DEF Fork, ForkProc, runnerOnly
  <2>5. ASSUME NEW p \in Procs, Die(p) PROVE ExitInv'
    BY <2>0, <2>5 DEF Die, ExitProc, DieOfKill, DeathOf, Acting, Alive, runnerOnly
  <2> QED
    BY <1>6, <2>1, <2>2, <2>3, <2>4, <2>5
    DEF Background, Processes, StdinPipe, StdinTested, StdinPiped, Cancel, Copier, PipesTimer,
        Leave, Escape, CloseOutput, WriteOutput, Recycle, RecyclePid, Terminated,
        vars, runnerOnly
<1> QED
  BY <1>1, <1>2, <1>3, <1>4, <1>5, <1>6, NextCases

(* A Result without a force kill tells the end of the reaped command, and  *)
(* not a value read before waitForProcess wrote it.                        *)
THEOREM ResultIsExit == SafeSpec => []ResultMatchesExit
<1>1. TypeInv => TypeOK
  BY DEF TypeInv
<1>2. TypeInv /\ ExitInv => ResultMatchesExit
  <2> SUFFICES ASSUME TypeInv, ExitInv, result.how \in {"natural", "graceful"}
               PROVE  ResultMatchesExit
    BY DEF ResultMatchesExit
  <2>1. /\ proc[Leader] = "gone" /\ status \in {"ok", "fail", "signaled"}
        /\ procErr = ErrorOf(status, stdinCopier)
        /\ result.code = ExitCode(procErr) /\ result.err = (procErr # "nil")
    BY DEF TypeInv, TypeOK, GroupTypeOK, Statuses, ExitKnown, ExitInv
  <2>2. CASE status = "ok" /\ stdinCopier # "failed"
    BY <2>1, <2>2 DEF ResultMatchesExit, ErrorOf, ExitCode
  <2>3. CASE status = "ok" /\ stdinCopier = "failed"
    BY <2>1, <2>3 DEF ResultMatchesExit, ErrorOf, ExitCode
  <2>4. CASE status = "fail"
    BY <2>1, <2>4 DEF ResultMatchesExit, ErrorOf, ExitCode
  <2>5. CASE status = "signaled"
    BY <2>1, <2>5 DEF ResultMatchesExit, ErrorOf, ExitCode
  <2> QED
    BY <2>1, <2>2, <2>3, <2>4, <2>5
<1> QED
  BY TypeInit, TypeStep, OwnerInit, OwnerStep, ExitInit, ExitStep, <1>1, <1>2, PTL
  DEF SafeSpec

-----------------------------------------------------------------------------
(***************************************************************************)
(* With a grace period, and Wait after a successful Start, a Runner        *)
(* implements RunnerContract.                                              *)
(***************************************************************************)
(* The state that goes with each way Wait may end.                         *)
PhaseOf(how) ==
  \/ how = "natural"  /\ state = "Running"
  \/ how = "graceful" /\ state = "Stopping"
  \/ how = "forced"   /\ state = "Killing"

Phase ==
  /\ ~started => state = "Created"
  /\ startOk /\ ~waited => state = "Running"
  /\ result.how # "none" => startOk
  /\ \A c \in Callers :
       /\ pc[c] \in {"pipes", "fork", "activate", "launch"} => state = "Starting"
       /\ pc[c] \in {"return", "select", "snapshot", "signal"} => state = "Running"
       /\ pc[c] \in {"grace", "escalate", "drain"} => state = "Stopping"
       /\ pc[c] # "kill"
       /\ pc[c] = "killed" => state = "Killing"
       /\ pc[c] = "build" => PhaseOf(path)
       /\ pc[c] \in {"iowait", "close"} => PhaseOf(result.how)

LEMMA PhaseInit == Init => Phase
  BY DEF Init, NoResult, Phase

(* Each step keeps Phase and maps to a step of the contract or to a        *)
(* stutter.                                                                *)
LEMMA PhaseStep ==
  /\ EarlyWait = FALSE /\ ZeroGrace = FALSE
  /\ TypeOK /\ Owner /\ Launched /\ Phase /\ [Next]_vars
  => Phase' /\ [Contract!Next]_(Contract!contractVars)
<1> SUFFICES ASSUME EarlyWait = FALSE, ZeroGrace = FALSE, TypeOK, Owner, Launched, Phase,
                    [Next]_vars
             PROVE  Phase' /\ [Contract!Next]_(Contract!contractVars)
  OBVIOUS
<1> USE DEF Owner, OneLifecycleOwner, Launched, Phase, PhaseOf, TypeOK, RunnerTypeOK,
            StartPcs, WaitPcs, lifeVars, outVars, Contract!contractVars
<1>1. ASSUME NEW c \in Callers, StartRejected(c) \/ WaitRejected(c)
      PROVE  Phase' /\ UNCHANGED Contract!contractVars
  BY <1>1 DEF StartRejected, WaitRejected, Goto
<1>2. ASSUME NEW c \in Callers, StartBegin(c)
      PROVE  Phase' /\ Contract!Launch
  <2>1. state = "Created" /\ state' = "Starting"
    BY <1>2 DEF StartBegin, transition, canTransition, validTransitions
  <2>2. Phase'
    BY <1>2, <2>1 DEF StartBegin, Goto
  <2>3. Contract!Launch
    BY <2>1 DEF Contract!Launch, Contract!Advance
  <2> QED
    BY <2>2, <2>3
<1>3. ASSUME NEW c \in Callers, StartStep(c)
      PROVE  Phase' /\ [Contract!Next]_(Contract!contractVars)
  <2> USE DEF Goto
  <2>1. CASE (\E s \in Streams : StartPipe(c, s)) \/ StartPiped(c) \/ StartFork(c)
             \/ StartActivate(c) \/ StartReturn(c)
    BY <2>1 DEF StartPipe, StartPiped, StartFork, StartActivate, StartReturn
  <2>2. CASE StartPipeFails(c) \/ StartForkFails(c)
    <3>1. state = "Starting" /\ state' = "Done" /\ result.how = "none"
          /\ UNCHANGED <<started, waited, startOk, result>>
      BY <2>2 DEF StartPipeFails, StartForkFails, StartFails, forceTransition, Results, Paths
    <3>2. Phase'
      BY <2>2, <3>1 DEF StartPipeFails, StartForkFails, StartFails
    <3>3. Contract!LaunchFails
      BY <3>1 DEF Contract!LaunchFails, Contract!Finish
    <3> QED
      BY <3>2, <3>3 DEF Contract!Next
  <2>3. CASE StartLaunch(c)
    <3>1. state = "Starting" /\ state' = "Running"
          /\ UNCHANGED <<started, waited, startOk, result>>
      BY <2>3 DEF StartLaunch, transition, canTransition, validTransitions
    <3>2. Phase'
      BY <2>3, <3>1 DEF StartLaunch
    <3>3. Contract!Launch
      BY <3>1 DEF Contract!Launch, Contract!Advance
    <3> QED
      BY <3>2, <3>3 DEF Contract!Next
  <2> QED
    BY <1>3, <2>1, <2>2, <2>3 DEF StartStep
<1>4. ASSUME NEW c \in Callers, WaitBegin(c)
      PROVE  Phase' /\ UNCHANGED Contract!contractVars
  BY <1>4 DEF WaitBegin, WaitCall
<1>5. ASSUME NEW c \in Callers, WaitStep(c)
      PROVE  Phase' /\ [Contract!Next]_(Contract!contractVars)
  <2> USE DEF Goto
  <2>0. waited /\ startOk /\ groupSet
    BY <1>5, WaitMoves
  <2>1. CASE SelectExit(c) \/ Drained(c) \/ GraceExit(c) \/ KilledExit(c) \/ KillDeadline(c)
    BY <2>0, <2>1 DEF SelectExit, Drained, GraceExit, KilledExit, KillDeadline, TakePath
  <2>2. CASE SelectCancel(c) \/ Snapshot(c) \/ GraceExpires(c)
    <3>1. UNCHANGED <<state, started, waited, startOk, result, path>>
      BY <2>2 DEF SelectCancel, Snapshot, GraceExpires
    <3>2. \/ pc[c] = "select" /\ pc' = [pc EXCEPT ![c] = "snapshot"]
          \/ pc[c] = "snapshot" /\ pc' = [pc EXCEPT ![c] = "signal"]
          \/ pc[c] = "grace" /\ pc' = [pc EXCEPT ![c] = "escalate"]
      BY <2>2 DEF SelectCancel, Snapshot, GraceExpires
    <3> QED
      BY <2>0, <3>1, <3>2
  <2>3. CASE Panic(c)
    BY <2>0, <2>3 DEF Panic
  <2>4. CASE SignalGracefully(c)
    <3>1. state = "Running" /\ state' = "Stopping"
          /\ UNCHANGED <<started, waited, startOk, result, path>>
      BY <2>4 DEF SignalGracefully, transition, canTransition, validTransitions
    <3>2. Phase'
      BY <2>0, <2>4, <3>1 DEF SignalGracefully
    <3>3. Contract!AskToStop
      BY <3>1 DEF Contract!AskToStop, Contract!Advance
    <3> QED
      BY <3>2, <3>3 DEF Contract!Next
  <2>5. CASE Escalate(c)
    <3>1. state = "Stopping" /\ state' = "Killing"
          /\ UNCHANGED <<started, waited, startOk, result, path>>
      BY <2>5 DEF Escalate, Kill, transition, canTransition, validTransitions
    <3>2. Phase'
      BY <2>0, <2>5, <3>1 DEF Escalate, Kill
    <3>3. Contract!Escalate
      BY <3>1 DEF Contract!Escalate, Contract!Advance
    <3> QED
      BY <3>2, <3>3 DEF Contract!Next
  <2>6. CASE KillNow(c)
    BY <2>6 DEF KillNow, Kill
  <2>7. CASE Build(c)
    <3>1. state # "Done" /\ result'.how = path
          /\ UNCHANGED <<state, started, waited, startOk, path>>
      BY <2>7 DEF Build, buildResult
    <3> QED
      BY <2>0, <2>7, <3>1 DEF Build
  <2>8. CASE IOWaited(c)
    BY <2>0, <2>8 DEF IOWaited
  <2>9. CASE CloseGroup(c)
    <3>1. PhaseOf(result.how) /\ state' = "Done"
          /\ UNCHANGED <<started, waited, startOk, result>>
      BY <2>9 DEF CloseGroup, forceTransition
    <3>2. Phase'
      BY <2>0, <2>9, <3>1 DEF CloseGroup
    <3>3. Contract!ExitAlone \/ Contract!ExitInGrace \/ Contract!Killed
      BY <3>1 DEF Contract!ExitAlone, Contract!ExitInGrace, Contract!Killed, Contract!Finish
    <3> QED
      BY <3>2, <3>3 DEF Contract!Next
  <2> QED
    BY <1>5, <2>1, <2>2, <2>3, <2>4, <2>5, <2>6, <2>7, <2>8, <2>9 DEF WaitStep
<1>6. ASSUME Background
      PROVE  Phase' /\ UNCHANGED Contract!contractVars
  BY <1>6, BackgroundFrame
<1> QED
  BY <1>1, <1>2, <1>3, <1>4, <1>5, <1>6, NextCases DEF Contract!Next

(* The Runner keeps the lifecycle of state.go and reports the outcome that *)
(* belongs to the path it took, for any workload and any timing.           *)
THEOREM RunnerImplementsContract ==
  ASSUME EarlyWait = FALSE, ZeroGrace = FALSE
  PROVE  SafeSpec => ImplementsContract
<1>1. TypeInv => TypeOK
  BY DEF TypeInv
<1>2. Init => Contract!Init
  BY DEF Init, Contract!Init
<1> QED
  BY TypeInit, TypeStep, OwnerInit, OwnerStep, LaunchedInit, LaunchedStep,
     PhaseInit, PhaseStep, <1>1, <1>2, PTL
  DEF SafeSpec, ImplementsContract, Contract!Spec

=============================================================================
