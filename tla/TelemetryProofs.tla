-------------------------- MODULE TelemetryProofs --------------------------
(***************************************************************************)
(* Proofs about what a program is told of a Runner: the events are those   *)
(* of one lifecycle, whatever order their goroutines run in, and the       *)
(* snapshots follow the states.                                            *)
(***************************************************************************)
EXTENDS Telemetry, RunnerProofs, FiniteSetTheorems

(* Every step of Telemetry is a step of the Runner or leaves it alone.     *)
LEMMA StepOfRunner == [TNext]_allVars => [Next]_vars
  BY DEF TNext, RunnerStep, RunCallback, pollMetrics, PollTick, PollExit, PollEmit, allVars

(* Callbacks and metrics only watch: what the Runner does with them it may *)
(* do without them, so that every theorem about SafeSpec holds here too.   *)
THEOREM TelemetryIsRunner == TSafeSpec => SafeSpec
<1>1. TInit => Init
  BY DEF TInit
<1> QED
  BY <1>1, StepOfRunner, PTL DEF TSafeSpec, SafeSpec

-----------------------------------------------------------------------------
(***************************************************************************)
(* Types.                                                                  *)
(***************************************************************************)
LEMMA ActiveIsNat ==
  ASSUME TypeOK, NEW st \in States
  PROVE  Active(st) \in Nat
<1>1. pids \subseteq Procs \cup {Foreign}
  BY ProcsAssumption DEF pids, Reachable, TypeOK, GroupTypeOK
<1>2. IsFiniteSet(Procs \cup {Foreign})
  BY ProcsAssumption, FS_AddElement
<1>3. Cardinality(pids) \in Nat
  BY <1>1, <1>2, FS_Subset, FS_CardinalityType
<1> QED
  BY <1>3 DEF Active

LEMMA TelemetryTypeInit == TInit => TelemetryTypeOK
  BY DEF TInit, ToldInit, TelemetryTypeOK, NoSnapshot, States

LEMMA TelemetryTypeStep ==
  TypeOK /\ TypeOK' /\ TelemetryTypeOK /\ [TNext]_allVars => TelemetryTypeOK'
<1> SUFFICES ASSUME TypeOK, TypeOK', TelemetryTypeOK, [TNext]_allVars
             PROVE  TelemetryTypeOK'
  OBVIOUS
<1> USE DEF TelemetryTypeOK, sinkVars, pollVars
<1>0. state \in States /\ state' \in States
  BY DEF TypeOK, RunnerTypeOK
<1>1. CASE RunnerStep
  BY <1>0, <1>1 DEF RunnerStep, Notify, LaunchPoller
<1>2. ASSUME NEW s \in States, RunCallback(s) PROVE TelemetryTypeOK'
  BY <1>2 DEF RunCallback
<1>3. CASE PollTick \/ PollExit
  BY <1>0, <1>3 DEF PollTick, PollExit
<1>4. CASE PollEmit
  BY <1>4, ActiveIsNat DEF PollEmit, States
<1>5. CASE UNCHANGED allVars
  BY <1>5 DEF allVars, toldVars
<1> QED
  BY <1>1, <1>2, <1>3, <1>4, <1>5 DEF TNext, pollMetrics

(* The variables of Telemetry keep their types; in particular no callback  *)
(* runs that was not started.                                              *)
THEOREM TelemetryTypes == TSafeSpec => []TelemetryTypeOK
<1>1. TypeInv => TypeOK
  BY DEF TypeInv
<1>2. TInit => Init
  BY DEF TInit
<1> QED
  BY TypeInit, TypeStep, StepOfRunner, TelemetryTypeInit, TelemetryTypeStep, <1>1, <1>2, PTL
  DEF TSafeSpec

-----------------------------------------------------------------------------
(***************************************************************************)
(* How the state moves: only along the table, and never out of Done.       *)
(***************************************************************************)
Moves ==
  /\ ~started => state = "Created"
  /\ startOk /\ ~waited => state = "Running"
  /\ \A c \in Callers :
       /\ pc[c] \in {"pipes", "fork", "activate", "launch"} => state = "Starting"
       /\ pc[c] = "return" => state = "Running"
       /\ pc[c] \in WaitPcs => state \in {"Running", "Stopping", "Killing"}
  /\ state = "Done" => pgid = NoPid

LEMMA MovesInit == Init => Moves
  BY DEF Init, Moves, WaitPcs

(* What a step of the Runner tells.                                        *)
Advances == canTransition(state, state')
Silent   == state' = state /\ ~Forced

LEMMA MovesStep ==
  /\ EarlyWait = FALSE /\ TypeOK /\ Owner /\ Launched /\ Moves /\ [Next]_vars
  => Moves' /\ (Advances \/ Silent)
<1> SUFFICES ASSUME EarlyWait = FALSE, TypeOK, Owner, Launched, Moves, [Next]_vars
             PROVE  Moves' /\ (Advances \/ Silent)
  OBVIOUS
<1> USE DEF Owner, OneLifecycleOwner, Launched, Moves, TypeOK, RunnerTypeOK, StartPcs, WaitPcs,
            Advances, Silent, Forced
<1>1. ASSUME NEW c \in Callers, StartRejected(c) \/ WaitRejected(c)
      PROVE  Moves' /\ Silent
  BY <1>1 DEF StartRejected, WaitRejected, Goto, lifeVars, groupVars
<1>2. ASSUME NEW c \in Callers, StartBegin(c)
      PROVE  Moves' /\ Advances
  BY <1>2 DEF StartBegin, Goto, transition, canTransition, validTransitions, groupVars
<1>3. ASSUME NEW c \in Callers, StartStep(c)
      PROVE  Moves' /\ (Advances \/ Silent)
  <2> USE DEF Goto, lifeVars, groupVars
  <2>1. CASE (\E s \in Streams : StartPipe(c, s)) \/ StartPiped(c) \/ StartReturn(c)
    BY <2>1 DEF StartPipe, StartPiped, StartReturn
  <2>2. CASE StartFork(c) \/ StartActivate(c)
    BY <2>2 DEF StartFork, SpawnLeader, StartActivate, activate
  <2>3. CASE StartPipeFails(c) \/ StartForkFails(c)
    <3>1. pc[c] \in {"pipes", "fork"} /\ started /\ ~startOk /\ ~waited
      BY <2>3 DEF StartPipeFails, StartForkFails, StartFails
    <3>2. state' = "Done" /\ pgid' = NoPid /\ UNCHANGED <<started, waited, startOk>>
          /\ pc' = [pc EXCEPT ![c] = "failed"]
      BY <2>3 DEF StartPipeFails, StartForkFails, StartFails, forceTransition, close
    <3>3. Advances
      BY <3>1, <3>2 DEF canTransition, validTransitions
    <3>4. \A d \in Callers \ {c} : pc'[d] \notin StartPcs \cup WaitPcs
      BY <3>1, <3>2
    <3> QED
      BY <3>1, <3>2, <3>3, <3>4
  <2>4. CASE StartLaunch(c)
    BY <2>4 DEF StartLaunch, transition, canTransition, validTransitions
  <2> QED
    BY <1>3, <2>1, <2>2, <2>3, <2>4 DEF StartStep
<1>4. ASSUME NEW c \in Callers, WaitBegin(c)
      PROVE  Moves' /\ Silent
  BY <1>4 DEF WaitBegin, WaitCall, groupVars
<1>5. ASSUME NEW c \in Callers, WaitStep(c)
      PROVE  Moves' /\ (Advances \/ Silent)
  <2>0. waited /\ startOk /\ started /\ pc[c] \in WaitPcs
        /\ state \in {"Running", "Stopping", "Killing"}
    BY <1>5, WaitMoves
  <2>1. CASE CloseGroup(c)
    <3>1. state' = "Done" /\ pgid' = NoPid /\ pc' = [pc EXCEPT ![c] = "returned"]
          /\ UNCHANGED <<started, waited, startOk>>
      BY <2>1 DEF CloseGroup, Goto, forceTransition, close
    <3> QED
      BY <2>0, <3>1 DEF canTransition, validTransitions
  <2>2. CASE ~CloseGroup(c)
    <3>1. /\ UNCHANGED <<started, waited, startOk>>
          /\ \E x \in WaitPcs \cup {"panicked"} : pc' = [pc EXCEPT ![c] = x]
      BY <1>5, <2>2
      DEF WaitStep, SelectExit, SelectCancel, Snapshot, SignalGracefully, Drained, GraceExit,
          GraceExpires, Escalate, KillNow, Panic, KilledExit, KillDeadline, Build, IOWaited,
          TakePath, Kill, Goto, lifeVars
    <3>2. \/ state' = state
          \/ state' \in {"Stopping", "Killing"} /\ canTransition(state, state')
      BY <1>5, <2>2
      DEF WaitStep, SelectExit, SelectCancel, Snapshot, SignalGracefully, Drained, GraceExit,
          GraceExpires, Escalate, KillNow, Panic, KilledExit, KillDeadline, Build, IOWaited,
          TakePath, Kill, lifeVars, transition
    <3> QED
      BY <2>0, <3>1, <3>2
  <2> QED
    BY <2>1, <2>2
<1>6. ASSUME Background PROVE Moves' /\ Silent
  BY <1>6, BackgroundFrame DEF lifeVars
<1> QED
  BY <1>1, <1>2, <1>3, <1>4, <1>5, <1>6, NextCases

LEMMA TableOrder ==
  ASSUME NEW r \in States, NEW s \in States
  PROVE  /\ Rank[s] \in Nat /\ Rank["Created"] <= Rank[s] /\ Rank[s] <= Rank["Done"]
         /\ canTransition(r, s) => Rank[r] < Rank[s] /\ s # "Created"
         /\ canTransition(r, s) /\ r = "Created" => s = "Starting"
  BY DEF Rank, States, canTransition, validTransitions

-----------------------------------------------------------------------------
(***************************************************************************)
(* The events.                                                             *)
(***************************************************************************)
(* Every state up to the present one is told at most once, the present one *)
(* exactly once, and each after one that may precede it.                   *)
TellInv ==
  /\ Told("Created") = 0
  /\ \A s \in States : Told(s) <= 1 /\ (Told(s) = 1 => Rank[s] <= Rank[state])
  /\ state # "Created" => Told(state) = 1
  /\ \A s \in States \ {"Starting"} :
       Told(s) = 1 => \E r \in States : Told(r) = 1 /\ canTransition(r, s)

LEMMA TellInit == TInit => TellInv
  BY DEF TInit, Init, ToldInit, TellInv, Told, States

LEMMA TellStep ==
  /\ TypeOK /\ TypeOK' /\ TelemetryTypeOK /\ TellInv
  /\ [Next]_vars => Advances \/ Silent
  /\ [TNext]_allVars
  => TellInv'
<1> SUFFICES ASSUME TypeOK, TypeOK', TelemetryTypeOK, TellInv,
                    [Next]_vars => Advances \/ Silent, [TNext]_allVars
             PROVE  TellInv'
  OBVIOUS
<1>0. /\ state \in States /\ state' \in States
      /\ pending \in [States -> Nat] /\ reported \in [States -> Nat]
  BY DEF TypeOK, RunnerTypeOK, TelemetryTypeOK
<1>1. CASE state' = state /\ \A s \in States : Told(s)' = Told(s)
  BY <1>0, <1>1 DEF TellInv, States
<1>2. CASE RunnerStep
  <2>1. CASE Silent
    BY <1>0, <1>1, <1>2, <2>1 DEF RunnerStep, Notify, Silent, Told
  <2>2. CASE Advances
    <3>1. state # state'
      BY <1>0, <2>2, TableOrder DEF Advances
    <3>2. \A s \in States : Told(s)' = IF s = state' THEN Told(s) + 1 ELSE Told(s)
      BY <1>0, <1>2, <3>1 DEF RunnerStep, Notify, Told
    <3>3. \A s \in States : Told(s) \in Nat
      BY <1>0 DEF Told
    <3>4. Told(state') = 0 /\ state' # "Created" /\ Rank[state] < Rank[state']
      BY <1>0, <2>2, <3>3, TableOrder DEF Advances, TellInv
    <3>5. Told("Created")' = 0 /\ Told(state)' = 1
      BY <1>0, <3>2, <3>4 DEF TellInv, States, Told
    <3>6. \A s \in States : Told(s)' <= 1 /\ (Told(s)' = 1 => Rank[s] <= Rank[state'])
      BY <1>0, <3>2, <3>4, TableOrder DEF TellInv
    <3>7. ASSUME NEW s \in States \ {"Starting"}, Told(s)' = 1
          PROVE  \E r \in States : Told(r)' = 1 /\ canTransition(r, s)
      <4>1. CASE s = state'
        <5>1. state # "Created" /\ Told(state) = 1
          BY <1>0, <2>2, <3>7, <4>1, TableOrder DEF Advances, TellInv
        <5> QED
          BY <1>0, <2>2, <3>1, <3>2, <4>1, <5>1 DEF Advances
      <4>2. CASE s # state'
        <5>1. PICK r \in States : Told(r) = 1 /\ canTransition(r, s)
          BY <3>2, <3>7, <4>2 DEF TellInv
        <5>2. r # state'
          BY <3>4, <5>1
        <5> QED
          BY <3>2, <5>1, <5>2
      <4> QED
        BY <4>1, <4>2
    <3> QED
      BY <3>5, <3>6, <3>7 DEF TellInv
  <2> QED
    BY <1>2, <2>1, <2>2 DEF RunnerStep
<1>3. ASSUME NEW s \in States, RunCallback(s) PROVE TellInv'
  BY <1>0, <1>1, <1>3 DEF RunCallback, Told, vars, lifeVars
<1>4. CASE pollMetrics
  BY <1>0, <1>1, <1>4 DEF pollMetrics, PollTick, PollExit, PollEmit, sinkVars, Told, vars, lifeVars
<1>5. CASE UNCHANGED allVars
  BY <1>0, <1>1, <1>5 DEF allVars, toldVars, sinkVars, Told, vars, lifeVars
<1> QED
  BY <1>2, <1>3, <1>4, <1>5 DEF TNext

(* The invariants of the Runner, as far as they are needed here.           *)
RunnerInv == TypeInv /\ Owner /\ Launched /\ Moves

LEMMA RunnerInvariant ==
  ASSUME EarlyWait = FALSE
  PROVE  TSafeSpec => [](RunnerInv /\ TelemetryTypeOK)
<1>1. TypeInv => TypeOK
  BY DEF TypeInv
<1>2. TInit => Init
  BY DEF TInit
<1> QED
  BY TypeInit, TypeStep, OwnerInit, OwnerStep, LaunchedInit, LaunchedStep, MovesInit, MovesStep,
     StepOfRunner, TelemetryTypes, <1>1, <1>2, PTL
  DEF TSafeSpec, RunnerInv

(* For any workload and options, the events that were or will be delivered *)
(* are one path through the table of state.go, each state once, and it     *)
(* ends in the state the Runner is in.                                     *)
THEOREM EventsTellALifecycle == TSafeSpec => []EventsAreALifecycle
<1>1. CASE EarlyWait = FALSE
  <2>1. TypeInv => TypeOK
    BY DEF TypeInv
  <2>2. TellInv => EventsAreALifecycle
    BY DEF TellInv, EventsAreALifecycle
  <2>3. RunnerInv /\ [Next]_vars => Advances \/ Silent
    BY <1>1, <2>1, MovesStep DEF RunnerInv
  <2>4. /\ RunnerInv /\ RunnerInv' /\ TelemetryTypeOK /\ TellInv /\ [TNext]_allVars
        => TellInv'
    BY <2>1, <2>3, TellStep DEF RunnerInv, TypeInv
  <2> QED
    BY <1>1, RunnerInvariant, TellInit, <2>2, <2>4, PTL DEF TSafeSpec
<1>2. CASE EarlyWait = TRUE
  <2>1. EventsAreALifecycle
    BY <1>2 DEF EventsAreALifecycle
  <2> QED
    BY <2>1, PTL
<1> QED
  BY <1>1, <1>2, RunnerAssumption

-----------------------------------------------------------------------------
(***************************************************************************)
(* The snapshots.                                                          *)
(***************************************************************************)
(* pollMetrics is launched with waitForProcess, once; what it has read is  *)
(* not ahead of the Runner and not behind what it has told; and it reads   *)
(* Done at most once.                                                      *)
PollInv ==
  /\ waitGo = "none" => poller = "none"
  /\ poller = "none" => snapshot = NoSnapshot
  /\ poller \notin {"emit", "last"} => seen = "Created"
  /\ Rank[seen] <= Rank[state] /\ Rank[snapshot.state] <= Rank[state]
  /\ poller \in {"emit", "last"} => Rank[snapshot.state] <= Rank[seen]
  /\ seen = "Done" => poller = "last" /\ state = "Done"
  /\ snapshot.state = "Done" => poller = "returned" /\ snapshot.active = 0

LEMMA PollInit == TInit => PollInv
<1>1. Rank["Created"] \in Nat
  BY TableOrder DEF States
<1> QED
  BY <1>1 DEF TInit, Init, ToldInit, PollInv, NoSnapshot

LEMMA WaitGoStays == [Next]_vars /\ waitGo # "none" => waitGo' # "none"
<1> SUFFICES ASSUME [Next]_vars, waitGo # "none" PROVE waitGo' # "none"
  OBVIOUS
<1>1. ASSUME NEW c \in Callers, StartRejected(c) \/ StartBegin(c) \/ StartStep(c) PROVE waitGo' # "none"
  BY <1>1
  DEF StartRejected, StartBegin, StartStep, StartPipe, StartPiped, StartPipeFails, StartFork,
      StartForkFails, StartFails, StartActivate, StartLaunch, StartReturn, exitVars
<1>2. ASSUME NEW c \in Callers, WaitRejected(c) \/ WaitBegin(c) \/ WaitStep(c) PROVE waitGo' # "none"
  BY <1>2
  DEF WaitRejected, WaitBegin, WaitStep, SelectExit, SelectCancel, Snapshot, SignalGracefully,
      Drained, GraceExit, GraceExpires, Escalate, KillNow, Panic, KilledExit, KillDeadline,
      Build, IOWaited, CloseGroup, TakePath, Kill, exitVars
<1>3. ASSUME Background PROVE waitGo' # "none"
  BY <1>3
  DEF Background, Processes, StdinPipe, StdinTested, StdinPiped, waitForProcess, ReapLeader, RecordExit, CloseProcDone,
      StdinEnds, Cancel, Copier, PipesTimer, Fork, Leave, Die, CloseOutput,
      WriteOutput, Recycle, Terminated, vars, runnerOnly, exitVars
<1> QED
  BY <1>1, <1>2, <1>3, NextCases

(* A closed group has no process to count.                                 *)
LEMMA DoneCountsNobody ==
  ASSUME Moves, state = "Done"
  PROVE  Active("Done") = 0
<1>1. pids = {}
  BY DEF Moves, pids
<1> QED
  BY <1>1, FS_EmptySet DEF Active

LEMMA PollStep ==
  /\ TypeOK /\ TypeOK' /\ Moves /\ TelemetryTypeOK /\ PollInv
  /\ [Next]_vars => Advances \/ Silent
  /\ [TNext]_allVars
  => PollInv' /\ Rank[snapshot.state] <= Rank[snapshot'.state]
<1> SUFFICES ASSUME TypeOK, TypeOK', Moves, TelemetryTypeOK, PollInv,
                    [Next]_vars => Advances \/ Silent, [TNext]_allVars
             PROVE  PollInv' /\ Rank[snapshot.state] <= Rank[snapshot'.state]
  OBVIOUS
<1>0. /\ state \in States /\ state' \in States /\ seen \in States
      /\ snapshot \in [state : States, active : Nat]
      /\ \A s \in States : Rank[s] \in Nat /\ Rank["Created"] <= Rank[s]
  BY TableOrder DEF TypeOK, RunnerTypeOK, TelemetryTypeOK
<1>1. CASE RunnerStep
  <2>1. Rank[state] <= Rank[state'] /\ (state = "Done" => state' = "Done")
    BY <1>0, <1>1, TableOrder DEF RunnerStep, Advances, Silent, canTransition, validTransitions
  <2>2. UNCHANGED <<seen, snapshot>> /\ LaunchPoller /\ (waitGo # "none" => waitGo' # "none")
    BY <1>1, WaitGoStays DEF RunnerStep
  <2> QED
    BY <1>0, <2>1, <2>2 DEF LaunchPoller, PollInv, NoSnapshot
<1>2. CASE (\E s \in States : RunCallback(s)) \/ UNCHANGED allVars
  BY <1>0, <1>2
  DEF RunCallback, allVars, toldVars, pollVars, vars, lifeVars, exitVars, PollInv
<1>3. CASE PollTick \/ PollExit
  <2>1. UNCHANGED <<state, waitGo, snapshot>>
    BY <1>3 DEF PollTick, PollExit, vars, lifeVars, exitVars
  <2>2. poller = "select" /\ waitGo # "none"
    BY <1>3 DEF PollTick, PollExit, PollInv
  <2> QED
    BY <1>0, <1>3, <2>1, <2>2 DEF PollTick, PollExit, PollInv
<1>4. CASE PollEmit
  <2>1. UNCHANGED <<state, waitGo>> /\ waitGo # "none" /\ poller \in {"emit", "last"}
        /\ seen' = "Created" /\ poller' = IF poller = "last" THEN "returned" ELSE "select"
    BY <1>4 DEF PollEmit, vars, lifeVars, exitVars, PollInv
  <2>2. snapshot'.state = seen /\ (seen = "Done" => snapshot'.active = 0)
    BY <1>4, DoneCountsNobody DEF PollEmit, PollInv
  <2> QED
    BY <1>0, <2>1, <2>2 DEF PollInv
<1> QED
  BY <1>1, <1>2, <1>3, <1>4 DEF TNext, pollMetrics

LEMMA PollInvariant ==
  ASSUME EarlyWait = FALSE
  PROVE  TSafeSpec => [](PollInv /\ RunnerInv /\ TelemetryTypeOK)
<1>1. RunnerInv /\ [Next]_vars => Advances \/ Silent
  BY MovesStep DEF RunnerInv, TypeInv
<1>2. /\ RunnerInv /\ RunnerInv' /\ TelemetryTypeOK /\ PollInv /\ [TNext]_allVars
      => PollInv'
  BY <1>1, PollStep DEF RunnerInv, TypeInv
<1> QED
  BY RunnerInvariant, PollInit, <1>2, PTL DEF TSafeSpec

(* The snapshot that says Done is the poller's last act and counts nobody, *)
(* however the poller, Wait and the exit of the command interleave.        *)
THEOREM LastSnapshotIsDone == TSafeSpec => []DoneSnapshotIsLast
<1>1. CASE EarlyWait = FALSE
  <2>1. PollInv => DoneSnapshotIsLast
    BY DEF PollInv, DoneSnapshotIsLast
  <2> QED
    BY <1>1, PollInvariant, <2>1, PTL
<1>2. CASE EarlyWait = TRUE
  <2>1. DoneSnapshotIsLast
    BY <1>2 DEF DoneSnapshotIsLast
  <2> QED
    BY <2>1, PTL
<1> QED
  BY <1>1, <1>2, RunnerAssumption

(* The states of the snapshots never go back.                              *)
THEOREM SnapshotsAscend ==
  ASSUME EarlyWait = FALSE
  PROVE  TSafeSpec => SnapshotsInOrder
<1>1. RunnerInv /\ [Next]_vars => Advances \/ Silent
  BY MovesStep DEF RunnerInv, TypeInv
<1>2. /\ RunnerInv /\ RunnerInv' /\ TelemetryTypeOK /\ PollInv /\ [TNext]_allVars
      => [Rank[snapshot.state] <= Rank[snapshot'.state]]_allVars
  BY <1>1, PollStep DEF RunnerInv, TypeInv
<1> QED
  BY PollInvariant, <1>2, PTL DEF TSafeSpec, SnapshotsInOrder

=============================================================================
