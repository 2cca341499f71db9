-------------------------- MODULE RunnerWaitProofs --------------------------
(***************************************************************************)
(* What a Wait does to the command and what it leaves: only a cancelled    *)
(* command is signalled, SIGKILL follows the graceful signal, and when     *)
(* Wait has returned the output is complete and nobody writes it any more. *)
(* The last two come from PipeProofs: the Runner is shown to be an         *)
(* environment of the pipe manager, and its theorems are carried over.     *)
(***************************************************************************)
EXTENDS RunnerProofs

(* Nothing of the command, nor a stranger under its number, was signalled. *)
Quiet == recycled # "hit" /\ \A p \in Procs : sig[p] = "none"

ShutdownPcs == {"snapshot", "signal", "kill", "killed", "grace", "escalate", "drain"}

(* A path is chosen once, by the one caller in Wait; shutdownSequence is   *)
(* entered after a cancellation, and the natural path is chosen before it. *)
CancelInv ==
  /\ ~waited => path = "none" /\ Quiet
  /\ \A c \in Callers : pc[c] = "select" => path = "none" /\ Quiet
  /\ \A c \in Callers : pc[c] \in ShutdownPcs => path = "none" /\ ctxDone
  /\ path \in {"graceful", "forced"} \/ ~Quiet => ctxDone
  /\ path = "natural" => Quiet
  /\ result.how # "none" => result.how = path

LEMMA CancelInit == Init => CancelInv
  BY DEF Init, GroupInit, NoResult, CancelInv, Quiet, ShutdownPcs

LEMMA CancelStep == TypeOK /\ Owner /\ CancelInv /\ [Next]_vars => CancelInv'
<1> SUFFICES ASSUME TypeOK, Owner, CancelInv, [Next]_vars PROVE CancelInv'
  OBVIOUS
<1> USE DEF Owner, OneLifecycleOwner, CancelInv, ShutdownPcs, TypeOK, RunnerTypeOK,
            StartPcs, WaitPcs, lifeVars, outVars
<1>1. ASSUME NEW c \in Callers, StartRejected(c) \/ WaitRejected(c) PROVE CancelInv'
  BY <1>1 DEF StartRejected, WaitRejected, Goto, Quiet, groupVars
<1>2. ASSUME NEW c \in Callers, StartBegin(c) PROVE CancelInv'
  BY <1>2 DEF StartBegin, Goto, Quiet, groupVars
<1>3. ASSUME NEW c \in Callers, StartStep(c) PROVE CancelInv'
  <2>1. UNCHANGED <<waited, ctxDone, path, result, sig, recycled>>
    BY <1>3
    DEF StartStep, StartPipe, StartPiped, StartPipeFails, StartFork, StartForkFails,
        StartFails, StartActivate, StartLaunch, StartReturn, SpawnLeader, activate,
        close, groupVars, kernelVars
  <2> QED
    BY <1>3, <2>1, StartMoves DEF Quiet
<1>4. ASSUME NEW c \in Callers, WaitBegin(c) PROVE CancelInv'
  BY <1>4 DEF WaitBegin, Quiet, groupVars
<1>5. ASSUME NEW c \in Callers, WaitStep(c) PROVE CancelInv'
  <2> USE DEF Goto
  <2>0. waited /\ pc[c] \in WaitPcs
    BY <1>5, WaitMoves
  <2>1. CASE SelectExit(c)
    BY <2>0, <2>1 DEF SelectExit, TakePath, Quiet, groupVars
  <2>2. CASE Drained(c) \/ GraceExit(c) \/ KilledExit(c) \/ KillDeadline(c)
    <3>1. /\ path = "none" /\ ctxDone /\ result.how = "none"
          /\ pc' = [pc EXCEPT ![c] = "build"] /\ path' \in {"graceful", "forced"}
          /\ UNCHANGED <<waited, ctxDone, result, sig, recycled>>
      BY <2>2 DEF Drained, GraceExit, KilledExit, KillDeadline, TakePath, groupVars
    <3> QED
      BY <2>0, <3>1 DEF Quiet
  <2>3. CASE SelectCancel(c) \/ Snapshot(c) \/ GraceExpires(c) \/ Panic(c)
    BY <2>0, <2>3 DEF SelectCancel, Snapshot, GraceExpires, Panic, Quiet, groupVars
  <2>4. CASE SignalGracefully(c) \/ Escalate(c) \/ KillNow(c)
    <3>1. ctxDone /\ path = "none" /\ result.how = "none"
      BY <2>4 DEF SignalGracefully, Escalate, KillNow, Kill
    <3>2. UNCHANGED <<waited, ctxDone, path, result>>
      BY <2>4 DEF SignalGracefully, Escalate, KillNow, Kill
    <3>3. \E x \in ShutdownPcs : pc[c] \in ShutdownPcs /\ pc' = [pc EXCEPT ![c] = x]
      BY <2>4 DEF SignalGracefully, Escalate, KillNow, Kill
    <3> QED
      BY <2>0, <3>1, <3>2, <3>3
  <2>5. CASE Build(c)
    BY <2>0, <2>5 DEF Build, buildResult, Quiet, groupVars
  <2>6. CASE IOWaited(c) \/ CloseGroup(c)
    BY <2>0, <2>6 DEF IOWaited, CloseGroup, close, Quiet, groupVars, kernelVars
  <2> QED
    BY <1>5, <2>1, <2>2, <2>3, <2>4, <2>5, <2>6 DEF WaitStep
<1>6. ASSUME Background PROVE CancelInv'
  <2>0. UNCHANGED <<pc, waited, path, result>>
    BY <1>6, BackgroundFrame
  <2>1. UNCHANGED sig /\ (recycled' = "hit" => recycled = "hit") /\ (ctxDone => ctxDone')
    BY <1>6
    DEF Background, Processes, StdinPipe, StdinTested, StdinPiped, waitForProcess, ReapLeader, ReapLeaderProc,
        RecordExit, CloseProcDone, StdinEnds, Cancel, Copier, PipesTimer,
        Fork, ForkProc, Leave, Escape, Die, ExitProc, DieOfKill, CloseOutput,
        WriteOutput, Recycle, RecyclePid, Terminated, vars, runnerOnly, groupVars,
        kernelVars
  <2> QED
    BY <2>0, <2>1 DEF Quiet
<1> QED
  BY <1>1, <1>2, <1>3, <1>4, <1>5, <1>6, NextCases

(* Without a cancellation no process of the command is ever signalled, and *)
(* neither is a group that got the command's number, for any callers, any  *)
(* options and any order of calls, a Wait before Start included.           *)
THEOREM NoSignalWithoutCancel == SafeSpec => []OnlyCancelSignals
<1>1. TypeInv => TypeOK
  BY DEF TypeInv
<1>2. CancelInv => OnlyCancelSignals
  BY DEF CancelInv, OnlyCancelSignals, Quiet
<1> QED
  BY TypeInit, TypeStep, OwnerInit, OwnerStep, CancelInit, CancelStep, <1>1, <1>2, PTL
  DEF SafeSpec

-----------------------------------------------------------------------------
(* The step that sends SIGKILL.                                            *)
LEMMA KillIsEscalation ==
  ASSUME ZeroGrace = FALSE, GracefulSignal # "kill", TypeOK, Phase, CancelInv, [Next]_vars,
         NEW p \in Procs, sig[p] # "kill", sig'[p] = "kill"
  PROVE  ctxDone /\ state = "Stopping" /\ state' = "Killing"
<1>1. ASSUME NEW c \in Callers,
             \/ StartRejected(c) \/ StartBegin(c) \/ StartStep(c)
             \/ WaitRejected(c) \/ WaitBegin(c)
      PROVE  FALSE
  BY <1>1
  DEF StartRejected, StartBegin, StartStep, StartPipe, StartPiped, StartPipeFails, StartFork,
      StartForkFails, StartFails, StartActivate, StartLaunch, StartReturn, SpawnLeader,
      activate, close, WaitRejected, WaitBegin, groupVars, kernelVars
<1>2. ASSUME NEW c \in Callers, WaitStep(c)
      PROVE  ctxDone /\ state = "Stopping" /\ state' = "Killing"
  <2>1. CASE Escalate(c)
    BY <2>1
    DEF Escalate, Kill, Goto, transition, canTransition, validTransitions, Phase, CancelInv,
        ShutdownPcs
  <2>2. CASE KillNow(c)
    BY <2>2 DEF KillNow, Kill, Goto, Phase
  <2>3. CASE SignalGracefully(c)
    BY <2>3 DEF SignalGracefully, signal
  <2>4. CASE ~(Escalate(c) \/ KillNow(c) \/ SignalGracefully(c))
    BY <1>2, <2>4
    DEF WaitStep, SelectExit, SelectCancel, Snapshot, Drained, GraceExit, GraceExpires, Panic,
        KilledExit, KillDeadline, Build, IOWaited, CloseGroup, TakePath, close, groupVars,
        kernelVars
  <2> QED
    BY <2>1, <2>2, <2>3, <2>4
<1>3. ASSUME Background PROVE FALSE
  BY <1>3
  DEF Background, Processes, StdinPipe, StdinTested, StdinPiped, waitForProcess, ReapLeader, ReapLeaderProc,
      RecordExit, CloseProcDone, StdinEnds, Cancel, Copier, PipesTimer,
      Fork, ForkProc, Leave, Escape, Die, ExitProc, DieOfKill, CloseOutput,
      WriteOutput, Recycle, RecyclePid, Terminated, vars, runnerOnly, groupVars, kernelVars
<1> QED
  BY <1>1, <1>2, <1>3, NextCases

(* With a grace period and a graceful signal other than SIGKILL, SIGKILL   *)
(* is sent only in the step from Stopping to Killing of a cancelled Wait.  *)
THEOREM KillEscalates ==
  ASSUME EarlyWait = FALSE, ZeroGrace = FALSE, GracefulSignal # "kill"
  PROVE  SafeSpec => KillOnlyAfterGrace
<1>1. TypeInv => TypeOK
  BY DEF TypeInv
<1>2. TypeOK /\ Phase /\ CancelInv /\ [Next]_vars =>
        [(\E p \in Procs : sig[p] # "kill" /\ sig'[p] = "kill")
           => (ctxDone /\ state = "Stopping" /\ state' = "Killing")]_vars
  BY KillIsEscalation
<1> QED
  BY TypeInit, TypeStep, OwnerInit, OwnerStep, LaunchedInit, LaunchedStep, PhaseInit,
     PhaseStep, CancelInit, CancelStep, <1>1, <1>2, PTL
  DEF SafeSpec, KillOnlyAfterGrace

-----------------------------------------------------------------------------
(***************************************************************************)
(* The Runner is an environment of the pipe manager.                       *)
(***************************************************************************)
(* Where the write ends are: with the library while Start opens the        *)
(* streams, with the command from the fork on, and with the command alone  *)
(* once Start has returned.  The one caller in Wait comes to the pipe      *)
(* manager once, and past iowait only when its wait has ended.             *)
PipeUse ==
  /\ ~started => \A s \in Streams : copier[s] = "none"
  /\ startOk => AllOpened /\ \A s \in Streams : Parent \notin holders[s]
  /\ pmwait # "idle" => waited
  /\ \A c \in Callers :
       /\ pc[c] \in {"pipes", "fork"} =>
            \A s \in Streams : copier[s] # "none" => holders[s] = {Parent}
       /\ pc[c] \in {"fork", "activate", "launch", "return"} => AllOpened
       /\ pc[c] \in WaitPcs \ {"iowait", "close"} => pmwait = "idle"
       /\ pc[c] \in {"close", "returned"} => PipesWaited

LEMMA PipeUseInit == Init => PipeUse
  BY DEF Init, PipesInit, PipeUse, WaitPcs

PipeStep == PipeEnvironment!Next \/ UNCHANGED pipeVars

LEMMA StartUse ==
  ASSUME TypeOK, Owner, Launched, PipeUse, NEW c \in Callers, StartStep(c)
  PROVE  PipeUse' /\ PipeStep
<1> USE RunnerAssumption, ProcsAssumption
    DEF TypeOK, RunnerTypeOK, PipesTypeOK, StartPcs, WaitPcs, Goto, PipeUse, PipesWaited,
        AllOpened, lifeVars, Owner, OneLifecycleOwner, Launched
<1>0. ~startOk /\ ~waited /\ started /\ pmwait = "idle"
  BY StartMoves
<1>1. ASSUME NEW s \in Streams, StartPipe(c, s) PROVE PipeUse' /\ PipeStep
  <2>1. PipeUse'
    BY <1>0, <1>1 DEF StartPipe, startCopy, CopierStates
  <2>2. PipeEnvironment!OpenStream(s)
    BY <1>0, <1>1
    DEF StartPipe, startCopy, PipeEnvironment!OpenStream, PipeEnvironment!Opened,
        PipeEnvironment!startCopy
  <2> QED
    BY <2>1, <2>2 DEF PipeStep, PipeEnvironment!Next
<1>2. CASE StartPiped(c) \/ StartActivate(c) \/ StartLaunch(c)
  <2>1. UNCHANGED <<pipeVars, started, startOk, waited>>
    BY <1>2 DEF StartPiped, StartActivate, StartLaunch
  <2>2. /\ AllOpened /\ pc[c] \in StartPcs
        /\ \E x \in {"fork", "launch", "return"} : pc' = [pc EXCEPT ![c] = x]
        /\ pc'[c] = "fork" => pc[c] = "pipes"
    BY <1>2 DEF StartPiped, StartActivate, StartLaunch
  <2> QED
    BY <1>0, <2>1, <2>2 DEF PipeStep, pipeVars
<1>3. CASE StartPipeFails(c) \/ StartForkFails(c) \/ StartReturn(c)
  <2>1. /\ holders' = Released(Parent)
        /\ UNCHANGED <<copier, rdOpen, inPipe, sent, got, copyErr, pmwait>>
    BY <1>3 DEF StartPipeFails, StartForkFails, StartFails, StartReturn
  <2>2. \E x \in {"failed", "ready"} : pc' = [pc EXCEPT ![c] = x]
    BY <1>3 DEF StartPipeFails, StartForkFails, StartFails, StartReturn
  <2>3. UNCHANGED <<started, waited>> /\ (pc[c] # "return" => UNCHANGED startOk)
    BY <1>3 DEF StartPipeFails, StartForkFails, StartFails, StartReturn
  <2>4. \A d \in Callers : pc'[d] \notin StartPcs
    <3>1. pc[c] \in StartPcs
      BY StartMoves
    <3>2. ASSUME NEW d \in Callers, d # c PROVE pc'[d] = pc[d] /\ pc[d] \notin StartPcs
      BY <2>2, <3>1, <3>2
    <3> QED
      BY <2>2, <3>2
  <2>5. \A s \in Streams : Parent \notin holders'[s]
    BY <2>1 DEF Released
  <2>6. PipeUse'
    BY <1>0, <2>1, <2>2, <2>3, <2>4, <2>5
  <2>7. CASE \E s \in Streams : Parent \in holders[s]
    BY <2>1, <2>6, <2>7
    DEF PipeStep, PipeEnvironment!Next, PipeEnvironment!Release, PipeEnvironment!Released,
        Released
  <2>8. CASE \A s \in Streams : Parent \notin holders[s]
    <3>1. holders' = holders
      BY <2>1, <2>8 DEF Released
    <3> QED
      BY <2>1, <2>6, <3>1 DEF PipeStep, pipeVars
  <2> QED
    BY <2>7, <2>8
<1>4. CASE StartFork(c)
  <2>1. PipeUse'
    BY <1>0, <1>4 DEF StartFork, Inherited
  <2>2. PipeEnvironment!Spawn(Leader)
    BY <1>0, <1>4
    DEF StartFork, Inherited, PipeEnvironment!Spawn, PipeEnvironment!Inherited
  <2> QED
    BY <2>1, <2>2 DEF PipeStep, PipeEnvironment!Next
<1> QED
  BY <1>1, <1>2, <1>3, <1>4 DEF StartStep

LEMMA WaitUse ==
  ASSUME TypeOK, Owner, Launched, PipeUse, NEW c \in Callers, WaitStep(c)
  PROVE  PipeUse' /\ PipeStep
<1> USE DEF TypeOK, RunnerTypeOK, PipesTypeOK, StartPcs, WaitPcs, Goto, PipeUse, PipesWaited,
            AllOpened, lifeVars, Owner, OneLifecycleOwner, Launched
<1>0. startOk /\ waited
  BY WaitMoves
<1>1. CASE KillDeadline(c)
  <2>1. PipeUse'
    BY <1>0, <1>1 DEF KillDeadline, TakePath, forceClose
  <2>2. PipeEnvironment!ForceClose
    BY <1>0, <1>1
    DEF KillDeadline, TakePath, forceClose, PipeEnvironment!ForceClose,
        PipeEnvironment!Handed, PipeEnvironment!forceClose
  <2> QED
    BY <2>1, <2>2 DEF PipeStep, PipeEnvironment!Next
<1>2. CASE Build(c)
  <2>1. PipeUse'
    BY <1>0, <1>2 DEF Build, WaitPipes
  <2>2. PipeEnvironment!Wait
    BY <1>0, <1>2
    DEF Build, WaitPipes, PipeEnvironment!Wait, PipeEnvironment!Handed,
        PipeEnvironment!WaitPipes
  <2> QED
    BY <2>1, <2>2 DEF PipeStep, PipeEnvironment!Next
<1>3. CASE ~(KillDeadline(c) \/ Build(c))
  <2>1. UNCHANGED <<pipeVars, startOk, waited, started>>
    BY <1>3, WaitMoves
    DEF WaitStep, SelectExit, SelectCancel, Snapshot, SignalGracefully, Drained, GraceExit,
        GraceExpires, Escalate, KillNow, Kill, Panic, KilledExit, TakePath, IOWaited, CloseGroup
  <2>2. \/ \E x \in {"returned", "close"} :
             PipesWaited /\ pc[c] \in WaitPcs /\ pc' = [pc EXCEPT ![c] = x]
        \/ \E x \in (WaitPcs \ {"iowait", "close"}) \cup {"panicked"} :
             /\ pc[c] \in WaitPcs \ {"iowait", "close"}
             /\ pc' = [pc EXCEPT ![c] = x]
    <3>1. CASE IOWaited(c) \/ CloseGroup(c)
      BY <3>1 DEF IOWaited, CloseGroup
    <3>2. CASE ~(IOWaited(c) \/ CloseGroup(c))
      BY <1>3, <3>2
      DEF WaitStep, SelectExit, SelectCancel, Snapshot, SignalGracefully, Drained,
          GraceExit, GraceExpires, Escalate, KillNow, Kill, Panic, KilledExit, TakePath
    <3> QED
      BY <3>1, <3>2
  <2> QED
    BY <1>0, <2>1, <2>2 DEF PipeStep, pipeVars
<1> QED
  BY <1>1, <1>2, <1>3

(* A step of nobody who is in a call keeps PipeUse as long as it neither   *)
(* undoes a copier or the wait, nor gives a write end to the library or    *)
(* takes one from it.                                                      *)
LEMMA BackgroundUse ==
  ASSUME PipeUse, UNCHANGED <<pc, started, startOk, waited>>,
         \A s \in Streams : copier[s] = "none" <=> copier'[s] = "none",
         pmwait = "idle" <=> pmwait' = "idle", PipesWaited => PipesWaited',
         \A s \in Streams : holders[s] = {Parent} => holders'[s] = {Parent},
         \A s \in Streams : Parent \in holders'[s] => Parent \in holders[s]
  PROVE  PipeUse'
  BY DEF PipeUse, AllOpened

LEMMA ProcessUse ==
  ASSUME TypeOK, PipeUse, Processes
  PROVE  PipeUse' /\ PipeStep
<1> USE RunnerAssumption DEF TypeOK, PipesTypeOK
<1>0. UNCHANGED <<pc, started, startOk, waited>>
  BY BackgroundFrame DEF Background, lifeVars
<1>1. ASSUME NEW p \in Procs, NEW q \in Procs, Fork(p, q)
      PROVE  PipeUse' /\ PipeStep
  <2>1. holders' = Inherited(p, q) /\ UNCHANGED pipesButHolders
    BY <1>1 DEF Fork
  <2>2. PipeUse'
    BY <1>0, <2>1, BackgroundUse DEF Inherited, pipesButHolders, PipesWaited
  <2>3. CASE \E s \in Streams : p \in holders[s] /\ q \notin holders[s]
    BY <2>1, <2>2, <2>3
    DEF PipeStep, PipeEnvironment!Next, PipeEnvironment!Fork, PipeEnvironment!Inherited,
        Inherited, pipesButHolders
  <2>4. CASE ~ \E s \in Streams : p \in holders[s] /\ q \notin holders[s]
    <3>1. holders' = holders
      BY <2>1, <2>4 DEF Inherited
    <3> QED
      BY <2>1, <2>2, <3>1 DEF PipeStep, pipesButHolders, pipeVars
  <2> QED
    BY <2>3, <2>4
<1>2. ASSUME NEW p \in Procs, Die(p) PROVE PipeUse' /\ PipeStep
  <2>1. holders' = Released(p) /\ UNCHANGED pipesButHolders
    BY <1>2 DEF Die
  <2>2. PipeUse'
    BY <1>0, <2>1, BackgroundUse DEF Released, pipesButHolders, PipesWaited
  <2>3. CASE \E s \in Streams : p \in holders[s]
    BY <2>1, <2>2, <2>3
    DEF PipeStep, PipeEnvironment!Next, PipeEnvironment!Release, PipeEnvironment!Released,
        Released, pipesButHolders
  <2>4. CASE ~ \E s \in Streams : p \in holders[s]
    <3>1. holders' = holders
      BY <2>1, <2>4 DEF Released
    <3> QED
      BY <2>1, <2>2, <3>1 DEF PipeStep, pipesButHolders, pipeVars
  <2> QED
    BY <2>3, <2>4
<1>3. ASSUME NEW p \in Procs, NEW s \in Streams, CloseOutput(p, s)
      PROVE  PipeUse' /\ PipeStep
  <2>1. /\ p \in holders[s] /\ holders' = [holders EXCEPT ![s] = @ \ {p}]
        /\ UNCHANGED pipesButHolders
    BY <1>3 DEF CloseOutput
  <2>2. PipeUse'
    BY <1>0, <2>1, BackgroundUse DEF pipesButHolders, PipesWaited
  <2>3. PipeEnvironment!Drop(p, s)
    BY <2>1 DEF PipeEnvironment!Drop, pipesButHolders
  <2> QED
    BY <2>2, <2>3 DEF PipeStep, PipeEnvironment!Next
<1>4. ASSUME NEW p \in Procs, NEW s \in Streams, WriteOutput(p, s)
      PROVE  PipeUse' /\ PipeStep
  <2>1. PipeUse'
    BY <1>0, <1>4, BackgroundUse DEF WriteOutput, WriteChunk, PipesWaited
  <2>2. PipeEnvironment!Write(p, s)
    BY <1>4 DEF WriteOutput, WriteChunk, PipeEnvironment!Write, PipeEnvironment!WriteChunk
  <2> QED
    BY <2>1, <2>2 DEF PipeStep, PipeEnvironment!Next
<1>5. CASE (\E p \in Procs : Leave(p)) \/ Recycle
  BY <1>0, <1>5, BackgroundUse DEF Leave, Recycle, pipeVars, PipeStep, PipesWaited
<1> QED
  BY <1>1, <1>2, <1>3, <1>4, <1>5 DEF Processes

LEMMA CopierUse ==
  ASSUME TypeOK, PipeUse, NEW s \in Streams, Copier(s)
  PROVE  PipeUse' /\ PipeStep
<1>0. UNCHANGED <<pc, started, startOk, waited>>
  BY DEF Copier, runnerOnly, lifeVars
<1>1. /\ \A t \in Streams : copier[t] = "none" <=> copier'[t] = "none"
      /\ UNCHANGED <<holders, pmwait>>
  BY DEF TypeOK, PipesTypeOK, CopierStates, Copier, CopyStep, CopyRead, CopyWrote,
         CopyWriteFails, CopyEOF, CopyReadFails, CopyEnds
<1>2. PipeUse'
  BY <1>0, <1>1, BackgroundUse DEF PipesWaited
<1>3. PipeEnvironment!CopyStep(s)
  BY DEF Copier, CopyStep, CopyRead, CopyWrote, CopyWriteFails, CopyEOF, CopyReadFails,
         CopyEnds, PipeEnvironment!CopyStep, PipeEnvironment!CopyRead,
         PipeEnvironment!CopyWrote, PipeEnvironment!CopyWriteFails, PipeEnvironment!CopyEOF,
         PipeEnvironment!CopyReadFails, PipeEnvironment!CopyEnds
<1> QED
  BY <1>2, <1>3 DEF PipeStep, PipeEnvironment!Next

LEMMA TimerUse ==
  ASSUME PipeUse, PipesTimer
  PROVE  PipeUse' /\ PipeStep
<1>0. UNCHANGED <<pc, started, startOk, waited>>
  BY DEF PipesTimer, runnerOnly, lifeVars
<1>1. /\ pmwait \in {"waiting", "forced"} /\ pmwait' # "idle"
      /\ UNCHANGED <<copier, holders>>
  BY DEF PipesTimer, WaitPipesStep, WaitCompletes, WaitTimesOut, WaitAfterClose
<1>2. PipeUse'
  BY <1>0, <1>1, BackgroundUse DEF PipesWaited
<1>3. PipeEnvironment!WaitPipesStep
  BY DEF PipesTimer, WaitPipesStep, WaitCompletes, WaitTimesOut, WaitAfterClose, AllCopied,
         forceClose, PipeEnvironment!WaitPipesStep, PipeEnvironment!WaitCompletes,
         PipeEnvironment!WaitTimesOut, PipeEnvironment!WaitAfterClose,
         PipeEnvironment!AllCopied, PipeEnvironment!forceClose
<1> QED
  BY <1>2, <1>3 DEF PipeStep, PipeEnvironment!Next

LEMMA PipeUseStep ==
  /\ EarlyWait = FALSE
  /\ TypeOK /\ Owner /\ Launched /\ PipeUse /\ [Next]_vars
  => PipeUse' /\ PipeStep
<1> SUFFICES ASSUME EarlyWait = FALSE, TypeOK, Owner, Launched, PipeUse, [Next]_vars
             PROVE  PipeUse' /\ PipeStep
  OBVIOUS
<1> USE DEF TypeOK, RunnerTypeOK, PipeUse, PipesWaited, AllOpened, StartPcs, WaitPcs, Goto,
            Launched, lifeVars, pipeVars, PipeStep
<1>1. ASSUME NEW c \in Callers, StartRejected(c) \/ WaitRejected(c)
      PROVE  PipeUse' /\ PipeStep
  BY <1>1 DEF StartRejected, WaitRejected
<1>2. ASSUME NEW c \in Callers, StartBegin(c) PROVE PipeUse' /\ PipeStep
  BY <1>2 DEF StartBegin
<1>3. ASSUME NEW c \in Callers, WaitBegin(c) PROVE PipeUse' /\ PipeStep
  BY <1>3 DEF WaitBegin
<1>4. ASSUME Background PROVE PipeUse' /\ PipeStep
  <2>1. CASE UNCHANGED pipeVars
    BY <1>4, <2>1, BackgroundFrame
  <2> QED
    BY <1>4, <2>1, CopierUse, TimerUse, ProcessUse
    DEF Background, StdinPipe, StdinTested, StdinPiped, waitForProcess, ReapLeader, RecordExit, CloseProcDone, StdinEnds,
        Cancel, Terminated, vars
<1> QED
  BY <1>1, <1>2, <1>3, <1>4, StartUse, WaitUse, NextCases

(* However Start fails or succeeds, whatever the descendants do with the   *)
(* write ends and whichever way Wait takes, the Runner uses its pipe       *)
(* manager as PipeSystem says, so that what is shown of the pipe manager   *)
(* there is true inside every Runner.                                      *)
THEOREM RunnerImplementsPipeSystem ==
  ASSUME EarlyWait = FALSE
  PROVE  SafeSpec => ImplementsPipeSystem
<1>1. TypeInv => TypeOK
  BY DEF TypeInv
<1>2. Init => PipeEnvironment!Init
  BY DEF Init, PipesInit, PipeEnvironment!Init, PipeEnvironment!PipesInit
<1>3. PipeStep => [PipeEnvironment!Next]_(PipeEnvironment!pipeVars)
  BY DEF PipeStep, pipeVars, PipeEnvironment!pipeVars
<1> QED
  BY TypeInit, TypeStep, OwnerInit, OwnerStep, LaunchedInit, LaunchedStep, PipeUseInit,
     PipeUseStep, <1>1, <1>2, <1>3, PTL
  DEF SafeSpec, ImplementsPipeSystem, PipeEnvironment!SafeSpec

-----------------------------------------------------------------------------
(***************************************************************************)
(* The theorems of PipeProofs, in every Runner.                            *)
(***************************************************************************)
Pipes == INSTANCE PipeProofs WITH Opener <- Parent

LEMMA SameFinite == \A S : Pipes!IsFiniteSet(S) <=> IsFiniteSet(S)
  BY DEF Pipes!IsFiniteSet, IsFiniteSet

(* PipeProofs is about the same system.                                    *)
LEMMA SamePipes ==
  /\ PipeEnvironment!Init => Pipes!Init
  /\ [PipeEnvironment!Next]_(PipeEnvironment!pipeVars) => [Pipes!Next]_(Pipes!pipeVars)
<1>1. PipeEnvironment!Init => Pipes!Init
  BY DEF PipeEnvironment!Init, PipeEnvironment!PipesInit, Pipes!Init, Pipes!PipesInit
<1>2. (PipeEnvironment!pipeVars)' = PipeEnvironment!pipeVars <=> (Pipes!pipeVars)' = Pipes!pipeVars
  BY DEF PipeEnvironment!pipeVars, Pipes!pipeVars
<1>3. ASSUME NEW s \in Streams
      PROVE  /\ PipeEnvironment!OpenStream(s) => Pipes!OpenStream(s)
             /\ PipeEnvironment!CopyStep(s) => Pipes!CopyStep(s)
  BY DEF PipeEnvironment!OpenStream, PipeEnvironment!Opened, PipeEnvironment!startCopy,
         PipeEnvironment!CopyStep, PipeEnvironment!CopyRead, PipeEnvironment!CopyWrote,
         PipeEnvironment!CopyWriteFails, PipeEnvironment!CopyEOF,
         PipeEnvironment!CopyReadFails, PipeEnvironment!CopyEnds,
         Pipes!OpenStream, Pipes!Opened, Pipes!startCopy,
         Pipes!CopyStep, Pipes!CopyRead, Pipes!CopyWrote, Pipes!CopyWriteFails,
         Pipes!CopyEOF, Pipes!CopyReadFails, Pipes!CopyEnds
<1>4. ASSUME NEW p \in Holders, NEW q \in Holders
      PROVE  /\ PipeEnvironment!Spawn(p) => Pipes!Spawn(p)
             /\ PipeEnvironment!Release(p) => Pipes!Release(p)
             /\ PipeEnvironment!Fork(p, q) => Pipes!Fork(p, q)
  BY DEF PipeEnvironment!Spawn, PipeEnvironment!Release, PipeEnvironment!Fork,
         PipeEnvironment!Inherited, PipeEnvironment!Released,
         Pipes!Spawn, Pipes!Release, Pipes!Fork, Pipes!Inherited, Pipes!Released
<1>5. ASSUME NEW h \in Holders, NEW s \in Streams
      PROVE  /\ PipeEnvironment!Drop(h, s) => Pipes!Drop(h, s)
             /\ PipeEnvironment!Write(h, s) => Pipes!Write(h, s)
  BY DEF PipeEnvironment!Drop, PipeEnvironment!Write, PipeEnvironment!WriteChunk,
         Pipes!Drop, Pipes!Write, Pipes!WriteChunk
<1>6. /\ PipeEnvironment!ForceClose => Pipes!ForceClose
      /\ PipeEnvironment!Wait => Pipes!Wait
      /\ PipeEnvironment!WaitPipesStep => Pipes!WaitPipesStep
      /\ PipeEnvironment!AllFinal => Pipes!AllFinal
  BY DEF PipeEnvironment!ForceClose, PipeEnvironment!Handed, PipeEnvironment!forceClose,
         PipeEnvironment!Wait, PipeEnvironment!WaitPipes, PipeEnvironment!WaitPipesStep,
         PipeEnvironment!WaitCompletes, PipeEnvironment!WaitTimesOut,
         PipeEnvironment!WaitAfterClose, PipeEnvironment!AllCopied, PipeEnvironment!AllFinal,
         PipeEnvironment!Opened, PipeEnvironment!pipeVars,
         Pipes!ForceClose, Pipes!Handed, Pipes!forceClose, Pipes!Wait, Pipes!WaitPipes,
         Pipes!WaitPipesStep, Pipes!WaitCompletes, Pipes!WaitTimesOut,
         Pipes!WaitAfterClose, Pipes!AllCopied, Pipes!AllFinal, Pipes!Opened, Pipes!pipeVars
<1>7. PipeEnvironment!Next => Pipes!Next
  BY <1>3, <1>4, <1>5, <1>6 DEF PipeEnvironment!Next, Pipes!Next
<1> QED
  BY <1>1, <1>2, <1>7

(* The invariant of the pipe manager holds in every Runner.                *)
THEOREM PipesInRunner ==
  ASSUME EarlyWait = FALSE
  PROVE  SafeSpec => [](Pipes!PipeInv /\ PipeUse)
<1>1. TypeInv => TypeOK
  BY DEF TypeInv
<1>2. Pipes!SafeSpec => []Pipes!PipeInv
  BY Pipes!PipeInvariant, SameFinite, PipeAssumption, RunnerAssumption
<1>3. ImplementsPipeSystem => Pipes!SafeSpec
  BY SamePipes, PTL DEF ImplementsPipeSystem, PipeEnvironment!SafeSpec, Pipes!SafeSpec
<1>4. SafeSpec => []PipeUse
  BY TypeInit, TypeStep, OwnerInit, OwnerStep, LaunchedInit, LaunchedStep, PipeUseInit,
     PipeUseStep, <1>1, PTL DEF SafeSpec
<1> QED
  BY <1>2, <1>3, <1>4, RunnerImplementsPipeSystem, PTL

(* After Wait no goroutine of the library writes to the caller's writers,  *)
(* and the caller holds all that was written, with nobody left to write    *)
(* more, except where a read end was closed by force or the caller's own   *)
(* writer failed.                                                          *)
THEOREM OutputIsComplete ==
  ASSUME EarlyWait = FALSE
  PROVE  SafeSpec => []CompleteOutput
<1>1. Pipes!PipeInv /\ PipeUse => CompleteOutput
  BY DEF Pipes!PipeInv, Pipes!WaitInv, Pipes!StreamInv, Pipes!TypeOK, Pipes!PipesTypeOK,
         Pipes!ChunksConserved, PipeUse, PipesWaited, CompleteOutput, Returned
<1> QED
  BY PipesInRunner, <1>1, PTL

-----------------------------------------------------------------------------
(***************************************************************************)
(* What a cancelled Wait may be held up by, the safety behind              *)
(* CancelledWaitReturns.                                                   *)
(***************************************************************************)
Reaped == {"reaped", "recorded", "closed"}

WaitRank == [x \in WaitPcs \cup RestPcs |->
  CASE x = "select" -> 10 [] x = "snapshot" -> 9 [] x \in {"signal", "kill"} -> 8
    [] x = "grace" -> 7   [] x = "escalate" -> 6 [] x \in {"killed", "drain"} -> 5
    [] x = "build" -> 3   [] x = "iowait" -> 2   [] x = "close" -> 1
    [] OTHER -> 0]

(* Wait never goes back: whichever way the selects choose, a call comes to *)
(* its end in at most ten steps, for any number of callers and any options.*)
THEOREM WaitGoesForward ==
  SafeSpec => [][\A c \in Callers :
                   pc[c] \in WaitPcs /\ pc'[c] # pc[c]
                     => WaitRank[pc'[c]] < WaitRank[pc[c]]]_vars
<1>1. ASSUME TypeOK, Owner, [Next]_vars, NEW c \in Callers, pc[c] \in WaitPcs, pc'[c] # pc[c]
      PROVE  WaitRank[pc'[c]] < WaitRank[pc[c]]
  <2> USE DEF TypeOK, RunnerTypeOK, Goto
  <2>1. WaitStep(c)
    <3>1. ASSUME NEW d \in Callers,
                 \/ StartRejected(d) \/ StartBegin(d) \/ WaitRejected(d) \/ WaitBegin(d)
          PROVE  FALSE
      BY <1>1, <3>1
      DEF StartRejected, StartBegin, WaitRejected, WaitBegin, WaitCall, WaitPcs
    <3>2. ASSUME NEW d \in Callers, StartStep(d) PROVE FALSE
      BY <1>1, <3>2, StartMoves DEF StartPcs, WaitPcs
    <3>3. ASSUME NEW d \in Callers, WaitStep(d) PROVE c = d
      BY <1>1, <3>3, WaitMoves
    <3>4. ASSUME Background PROVE FALSE
      BY <1>1, <3>4, BackgroundFrame
    <3> QED
      BY <1>1, <3>1, <3>2, <3>3, <3>4, NextCases
  <2> USE DEF WaitRank, WaitPcs, RestPcs
  <2>2. CASE SelectExit(c) \/ SelectCancel(c) \/ Snapshot(c) \/ SignalGracefully(c)
    BY <1>1, <2>2 DEF SelectExit, SelectCancel, Snapshot, SignalGracefully, TakePath
  <2>3. CASE Drained(c) \/ GraceExit(c) \/ GraceExpires(c) \/ Escalate(c) \/ KillNow(c)
    BY <1>1, <2>3 DEF Drained, GraceExit, GraceExpires, Escalate, KillNow, Kill, TakePath
  <2>4. CASE Panic(c) \/ KilledExit(c) \/ KillDeadline(c)
    BY <1>1, <2>4 DEF Panic, KilledExit, KillDeadline, TakePath
  <2>5. CASE Build(c) \/ IOWaited(c) \/ CloseGroup(c)
    BY <1>1, <2>5 DEF Build, IOWaited, CloseGroup
  <2> QED
    BY <2>1, <2>2, <2>3, <2>4, <2>5 DEF WaitStep
<1>2. TypeOK /\ Owner /\ [Next]_vars
        => [\A c \in Callers :
              pc[c] \in WaitPcs /\ pc'[c] # pc[c]
                => WaitRank[pc'[c]] < WaitRank[pc[c]]]_vars
  BY <1>1
<1>3. TypeInv => TypeOK
  BY DEF TypeInv
<1> QED
  BY TypeInit, TypeStep, OwnerInit, OwnerStep, <1>2, <1>3, PTL DEF SafeSpec

(* Once Start has forked, the leader is a member until somebody reaps it,  *)
(* which only waitForProcess does; once the copies are cut off, they stay  *)
(* cut off.                                                                *)
HeldUpBy ==
  /\ proc[Leader] = "gone" => waitGo \in Reaped
  /\ startOk => waitGo # "none" /\ proc[Leader] # "unborn" /\ Leader \in member
  /\ pmwait \in {"forced", "timedout"} => \A s \in Streams : ~rdOpen[s]
  /\ \A c \in Callers :
       /\ pc[c] \in {"activate", "launch", "return"} =>
            proc[Leader] # "unborn" /\ Leader \in member
       /\ pc[c] = "return" => waitGo # "none"
       /\ pc[c] = "drain" => waitGo \in Reaped
       /\ pc[c] = "iowait" => pmwait # "idle"

LEMMA HeldUpInit == Init => HeldUpBy
  BY ProcsAssumption DEF Init, GroupInit, PipesInit, HeldUpBy

LEMMA StartHeldUp ==
  ASSUME TypeOK, Owner, Launched, ExitInv, PipeUse, HeldUpBy, NEW c \in Callers, StartStep(c)
  PROVE  HeldUpBy'
<1> USE ProcsAssumption
    DEF TypeOK, RunnerTypeOK, GroupTypeOK, PipesTypeOK, StartPcs, WaitPcs, Goto, lifeVars,
        exitVars, groupVars, kernelVars, pipeVars, Owner, OneLifecycleOwner, Launched, HeldUpBy,
        Reaped
<1>0. ~startOk /\ ~waited /\ pmwait = "idle"
  BY StartMoves DEF PipeUse
<1>1. CASE \E s \in Streams : StartPipe(c, s)
  BY <1>0, <1>1 DEF StartPipe, startCopy
<1>2. CASE StartPiped(c) \/ StartActivate(c)
  BY <1>0, <1>2 DEF StartPiped, StartActivate, activate
<1>3. CASE StartPipeFails(c) \/ StartForkFails(c)
  BY <1>0, <1>3 DEF StartPipeFails, StartForkFails, StartFails
<1>4. CASE StartFork(c)
  BY <1>0, <1>4 DEF StartFork, SpawnLeader
<1>5. CASE StartLaunch(c)
  BY <1>0, <1>5 DEF StartLaunch, ExitInv
<1>6. CASE StartReturn(c)
  BY <1>0, <1>6 DEF StartReturn
<1> QED
  BY <1>1, <1>2, <1>3, <1>4, <1>5, <1>6 DEF StartStep

(* ErrProcessDone tells of a leader that has been reaped.                  *)
LEMMA NobodyFound ==
  ASSUME TypeOK, Owner, Launched, HeldUpBy, NEW c \in Callers, pc[c] \in WaitPcs,
         SignalFindsNobody(GracefulSignal)
  PROVE  waitGo \in Reaped
<1>1. pgid # NoPid /\ startOk
  BY ProcsAssumption DEF Owner, Launched
<1>2. Leader \notin Reachable
  BY <1>1 DEF SignalFindsNobody
<1> QED
  BY <1>1, <1>2, ProcsAssumption
  DEF HeldUpBy, Reachable, TypeOK, GroupTypeOK, ProcStates

LEMMA WaitHeldUp ==
  ASSUME TypeOK, Owner, Launched, HeldUpBy, NEW c \in Callers, WaitStep(c)
  PROVE  HeldUpBy'
<1> USE ProcsAssumption
    DEF TypeOK, RunnerTypeOK, GroupTypeOK, PipesTypeOK, StartPcs, WaitPcs, Goto, lifeVars,
        exitVars, groupVars, kernelVars, pipeVars, HeldUpBy
<1>0. startOk
  BY WaitMoves DEF Owner, Launched
<1>1. CASE SignalGracefully(c)
  <2>1. pc'[c] = "drain" => waitGo \in Reaped
    BY <1>1, NobodyFound DEF SignalGracefully
  <2> QED
    BY <1>0, <1>1, <2>1 DEF SignalGracefully, signal
<1>2. CASE Escalate(c) \/ KillNow(c)
  BY <1>0, <1>2 DEF Escalate, KillNow, Kill, terminate, signal
<1>3. CASE KillDeadline(c)
  BY <1>0, <1>3 DEF KillDeadline, TakePath, forceClose
<1>4. CASE Build(c)
  BY <1>0, <1>4 DEF Build, WaitPipes
<1>5. CASE SelectExit(c) \/ SelectCancel(c) \/ Snapshot(c) \/ Drained(c) \/ GraceExit(c)
           \/ GraceExpires(c) \/ Panic(c) \/ KilledExit(c) \/ IOWaited(c) \/ CloseGroup(c)
  <2>1. UNCHANGED <<startOk, waitGo, proc, member, pipeVars>>
    BY <1>5
    DEF SelectExit, SelectCancel, Snapshot, Drained, GraceExit, GraceExpires, Panic,
        KilledExit, IOWaited, CloseGroup, close, TakePath
  <2>2. \E x \in {"snapshot", "signal", "kill", "build", "escalate", "panicked", "close",
                   "returned"} : pc' = [pc EXCEPT ![c] = x]
    BY <1>5
    DEF SelectExit, SelectCancel, Snapshot, Drained, GraceExit, GraceExpires, Panic,
        KilledExit, IOWaited, CloseGroup, TakePath
  <2> QED
    BY <2>1, <2>2
<1> QED
  BY <1>1, <1>2, <1>3, <1>4, <1>5 DEF WaitStep

LEMMA BackgroundHeldUp ==
  ASSUME TypeOK, HeldUpBy, Background
  PROVE  HeldUpBy'
<1> USE ProcsAssumption DEF TypeOK, RunnerTypeOK, GroupTypeOK, PipesTypeOK, HeldUpBy, Reaped
<1>0. UNCHANGED <<pc, startOk>>
  BY BackgroundFrame DEF lifeVars
<1>1. CASE waitForProcess
  BY <1>0, <1>1
  DEF waitForProcess, ReapLeader, ReapLeaderProc, RecordExit, CloseProcDone, groupVars, kernelVars,
      pipeVars
<1>2. ASSUME NEW p \in Procs, NEW q \in Procs, Fork(p, q) PROVE HeldUpBy'
  BY <1>0, <1>2 DEF Fork, ForkProc, Acting, Alive, runnerOnly, exitVars, pipesButHolders
<1>3. ASSUME NEW p \in Procs, Leave(p) PROVE HeldUpBy'
  BY <1>0, <1>3 DEF Leave, Escape, runnerOnly, exitVars, pipeVars
<1>4. ASSUME NEW p \in Procs, Die(p) PROVE HeldUpBy'
  BY <1>0, <1>4 DEF Die, ExitProc, DieOfKill, DeathOf, runnerOnly, exitVars, pipesButHolders
<1>5. CASE PipesTimer
  BY <1>0, <1>5
  DEF PipesTimer, WaitPipesStep, WaitCompletes, WaitTimesOut, WaitAfterClose, forceClose,
      runnerOnly, exitVars, groupVars, kernelVars
<1>6. CASE UNCHANGED <<waitGo, proc, member, rdOpen, pmwait>>
  BY <1>0, <1>6
<1> QED
  BY <1>1, <1>2, <1>3, <1>4, <1>5, <1>6
  DEF Background, Processes, StdinPipe, StdinTested, StdinPiped, StdinEnds, Cancel, Copier, CopyStep, CopyRead,
      CopyWrote, CopyWriteFails, CopyEOF, CopyReadFails, CopyEnds, CloseOutput, WriteOutput,
      WriteChunk, Recycle, RecyclePid, Terminated, vars, runnerOnly, exitVars, groupVars,
      kernelVars, pipeVars, pipesButHolders

LEMMA HeldUpStep ==
  /\ EarlyWait = FALSE
  /\ TypeOK /\ Owner /\ Launched /\ ExitInv /\ PipeUse /\ HeldUpBy /\ [Next]_vars
  => HeldUpBy'
<1> SUFFICES ASSUME EarlyWait = FALSE, TypeOK, Owner, Launched, ExitInv, PipeUse, HeldUpBy,
                    [Next]_vars
             PROVE  HeldUpBy'
  OBVIOUS
<1>1. ASSUME NEW c \in Callers,
             StartRejected(c) \/ StartBegin(c) \/ WaitRejected(c) \/ WaitBegin(c)
      PROVE  HeldUpBy'
  <2>1. UNCHANGED <<startOk, waitGo, proc, member, pmwait, rdOpen>>
        /\ \E x \in {"already", "pipes", "rejected", "select"} : pc' = [pc EXCEPT ![c] = x]
    BY <1>1
    DEF StartRejected, StartBegin, WaitRejected, WaitBegin, Goto, lifeVars, exitVars, groupVars,
        kernelVars, pipeVars
  <2> QED
    BY <2>1 DEF HeldUpBy, TypeOK, RunnerTypeOK
<1> QED
  BY <1>1, StartHeldUp, WaitHeldUp, BackgroundHeldUp, NextCases

(* No place of Wait depends on the processes for ever: procDone has        *)
(* somebody who will close it; the receive without a deadline, after       *)
(* ErrProcessDone, is for a command that has been reaped, so that it lacks *)
(* no more than the feeding of stdin; and the wait for the pipes has       *)
(* begun, and cuts the copiers off before it waits without a timer.        *)
THEOREM WaitNeedsNoProcess ==
  ASSUME EarlyWait = FALSE
  PROVE  SafeSpec =>
           [](\A c \in Callers :
                /\ pc[c] \in {"select", "grace", "killed", "drain"} => waitGo # "none"
                /\ pc[c] = "drain" => waitGo \in Reaped
                /\ pc[c] = "iowait" =>
                     /\ pmwait # "idle"
                     /\ pmwait = "forced" => \A s \in Streams : ~rdOpen[s])
<1>1. TypeInv => TypeOK
  BY DEF TypeInv
<1>2. Owner /\ Launched /\ HeldUpBy =>
        \A c \in Callers :
          /\ pc[c] \in {"select", "grace", "killed", "drain"} => waitGo # "none"
          /\ pc[c] = "drain" => waitGo \in Reaped
          /\ pc[c] = "iowait" =>
               /\ pmwait # "idle"
               /\ pmwait = "forced" => \A s \in Streams : ~rdOpen[s]
  BY DEF Owner, Launched, HeldUpBy, WaitPcs
<1> QED
  BY TypeInit, TypeStep, OwnerInit, OwnerStep, LaunchedInit, LaunchedStep, ExitInit, ExitStep,
     PipeUseInit, PipeUseStep, HeldUpInit, HeldUpStep, <1>1, <1>2, PTL DEF SafeSpec

=============================================================================
