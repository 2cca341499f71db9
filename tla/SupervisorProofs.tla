-------------------------- MODULE SupervisorProofs --------------------------
(***************************************************************************)
(* Proofs about Supervisor for any workers, callers, policies and bounds.  *)
(* Two inductive invariants: LoopInv ties the counters of a worker to the  *)
(* place its loop is at, PoolInv ties s.wg to the goroutines that run.     *)
(***************************************************************************)
EXTENDS Supervisor, FiniteSetTheorems, TLAPS

WorkerLoop(w) ==
  /\ running[w] <=> wpc[w] = "run"
  /\ wpc[w] \in {"new", "top", "launch", "backoff"} => launches[w] = restarts[w]
  /\ wpc[w] \in {"run", "ran"} => launches[w] = CountUp(restarts[w])
  /\ restarts[w] <= launches[w] /\ launches[w] <= restarts[w] + 1
  /\ MaxRestarts[w] > 0 => restarts[w] <= MaxRestarts[w]
  /\ Policy[w] = "never" => restarts[w] = 0

LoopInv == \A w \in Workers : WorkerLoop(w)

PoolInv ==
  /\ wg = Cardinality(launched)
  /\ ~started => toLaunch = {} /\ launched = {} /\ (\A w \in Workers : wpc[w] = "new")
  /\ \A w \in toLaunch : wpc[w] = "new"
  /\ started => \A w \in registered : wpc[w] = "new" => w \in toLaunch
  /\ \A w \in Workers : wpc[w] \in {"recorded", "done"} => results[w] # "none"
  /\ \A c \in Callers : cpc[c] = "draining" => cancelled
  /\ stopped => cancelled \/ \E c \in Callers : cpc[c] = "cancelling"

-----------------------------------------------------------------------------
LEMMA TypeInit == Init => TypeOK
<1> SUFFICES ASSUME Init PROVE TypeOK
  OBVIOUS
<1>1. 0 \in 0..RestartCap
  BY SupervisorAssumption DEF SupervisorAssumption
<1>2. results \in Maps
  BY DEF Init, Maps
<1>3. /\ cpc \in [Callers -> {"idle", "launching", "waiting", "reading",
                             "cancelling", "draining"}]
      /\ wpc \in [Workers -> {"new", "top", "launch", "run", "ran", "backoff",
                              "returning", "recorded", "done"}]
      /\ running \in [Workers -> BOOLEAN]
      /\ lastResult \in [Workers -> Outcomes] /\ res \in [Workers -> Outcomes]
  BY DEF Init, Outcomes
<1>4. restarts \in [Workers -> 0..RestartCap] /\ launches \in [Workers -> 0..RestartCap]
  BY <1>1 DEF Init
<1>5. registered \subseteq Workers /\ toLaunch \subseteq registered
  BY DEF Init
<1>6. started \in BOOLEAN /\ stopped \in BOOLEAN /\ cancelled \in BOOLEAN /\ parentDone \in BOOLEAN
  BY DEF Init
<1>7. wg \in Nat
  BY DEF Init
<1> QED
  BY <1>2, <1>3, <1>4, <1>5, <1>6, <1>7 DEF TypeOK

(* The steps of the callers and of the workers keep the types, as long as  *)
(* the group is counted right.                                             *)
LEMMA CallType ==
  ASSUME TypeOK, NEW c \in Callers, Call(c)
  PROVE  TypeOK'
<1> USE DEF TypeOK, Maps
<1>1. CASE \E w \in Workers : Add(c, w)
  BY <1>1 DEF Add, loopVars
<1>2. CASE \E w \in Workers : Launch(c, w)
  BY <1>2 DEF Launch, loopVars
<1>3. CASE Start(c)
  BY <1>3 DEF Start, loopVars
<1>4. CASE StartReturns(c)
  BY <1>4 DEF StartReturns, poolVars, loopVars
<1>5. CASE Wait(c)
  BY <1>5 DEF Wait, poolVars, loopVars
<1>6. CASE GroupEmpty(c)
  BY <1>6 DEF GroupEmpty, poolVars, loopVars
<1>7. CASE WaitReturns(c)
  BY <1>7 DEF WaitReturns, poolVars, loopVars
<1>8. CASE Stop(c)
  BY <1>8 DEF Stop, loopVars
<1>9. CASE StopCancels(c)
  BY <1>9 DEF StopCancels, loopVars
<1>10. CASE StopReturns(c)
  BY <1>10 DEF StopReturns, poolVars, loopVars
<1> QED
  BY <1>1, <1>2, <1>3, <1>4, <1>5, <1>6, <1>7, <1>8, <1>9, <1>10
  DEF Call

LEMMA CountUpType ==
  ASSUME NEW n \in 0..RestartCap
  PROVE  CountUp(n) \in 0..RestartCap /\ CountUp(n) <= n + 1 /\ n <= CountUp(n)
  BY SupervisorAssumption DEF CountUp, SupervisorAssumption

LEMMA WorkerType ==
  ASSUME TypeOK, NEW w \in Workers, WorkerStep(w) \/ RunReturns(w),
         wpc[w] = "recorded" => wg > 0
  PROVE  TypeOK'
<1> USE DEF TypeOK, Maps, GoTo, workerFrame, poolVars
<1>1. CASE CancelledBeforeRun(w)
  BY <1>1 DEF CancelledBeforeRun
<1>2. CASE NotCancelled(w)
  BY <1>2 DEF NotCancelled, loopVars
<1>3. CASE LaunchCommand(w)
  BY <1>3, CountUpType DEF LaunchCommand
<1>4. CASE GiveUp(w)
  BY <1>4 DEF GiveUp, loopVars
<1>5. CASE Restart(w)
  BY <1>5, CountUpType DEF Restart
<1>6. CASE BackoffEnds(w)
  BY <1>6 DEF BackoffEnds, loopVars
<1>7. CASE BackoffCancelled(w)
  BY <1>7 DEF BackoffCancelled, loopVars
<1>8. CASE Record(w)
  BY <1>8 DEF Record, loopVars
<1>9. CASE WgDone(w)
  BY <1>9 DEF WgDone, loopVars
<1>10. CASE RunReturns(w)
  BY <1>10 DEF RunReturns
<1> QED
  BY <1>1, <1>2, <1>3, <1>4, <1>5, <1>6, <1>7, <1>8, <1>9, <1>10 DEF WorkerStep

-----------------------------------------------------------------------------
(* The goroutines in the group.                                            *)
LEMMA LaunchedFinite == IsFiniteSet(launched) /\ Cardinality(launched) \in Nat
<1>1. launched \subseteq Workers
  BY DEF launched
<1> QED
  BY <1>1, SupervisorAssumption, FS_Subset, FS_CardinalityType DEF SupervisorAssumption

LEMMA EmptyGroup ==
  ASSUME wg = Cardinality(launched), wg = 0
  PROVE  launched = {}
  BY LaunchedFinite, FS_EmptySet

LEMMA NonEmptyGroup ==
  ASSUME wg = Cardinality(launched), NEW w \in launched
  PROVE  wg > 0
<1>1. Cardinality(launched) # 0
  BY LaunchedFinite, FS_EmptySet
<1> QED
  BY <1>1, LaunchedFinite

(* A step between two places inside the loop leaves the group as it is.    *)
LEMMA SameGroup ==
  ASSUME TypeOK, NEW w \in Workers, w \in launched,
         NEW place, place \notin {"new", "done"}, GoTo(w, place)
  PROVE  launched' = launched
  BY DEF TypeOK, launched, GoTo

LEMMA InitLoop == Init => LoopInv
  BY SupervisorAssumption DEF SupervisorAssumption, Init, LoopInv, WorkerLoop

LEMMA InitPool == Init => PoolInv
<1> SUFFICES ASSUME Init PROVE PoolInv
  OBVIOUS
<1>1. launched = {}
  BY DEF Init, launched
<1> QED
  BY <1>1, FS_EmptySet DEF Init, PoolInv

(* LoopInv.  A call does not touch a worker's loop, Launch excepted.       *)
LEMMA CallLoop ==
  ASSUME TypeOK, LoopInv, PoolInv, NEW c \in Callers, Call(c)
  PROVE  LoopInv'
<1>1. CASE \E w \in Workers : Launch(c, w)
  <2> PICK w \in Workers : Launch(c, w)
    BY <1>1
  <2> SUFFICES ASSUME NEW v \in Workers PROVE WorkerLoop(v)'
    BY DEF LoopInv
  <2>1. WorkerLoop(v)
    BY DEF LoopInv
  <2>2. wpc[w] = "new"
    BY DEF Launch, PoolInv
  <2>3. UNCHANGED <<restarts, launches, running>> /\ wpc'[v] = IF v = w THEN "top" ELSE wpc[v]
    BY DEF Launch, loopVars, TypeOK
  <2> QED
    BY <2>1, <2>2, <2>3 DEF WorkerLoop, CountUp
<1>2. CASE UNCHANGED <<restarts, launches, running, wpc>>
  BY <1>2 DEF LoopInv, WorkerLoop, CountUp
<1> QED
  BY <1>1, <1>2 DEF Call, Add, Start, StartReturns, Wait, GroupEmpty, WaitReturns,
                    Stop, StopCancels, StopReturns, loopVars

LEMMA WorkerStepLoop ==
  ASSUME TypeOK, LoopInv, NEW w \in Workers, WorkerStep(w) \/ RunReturns(w)
  PROVE  LoopInv'
<1> SUFFICES ASSUME NEW v \in Workers PROVE WorkerLoop(v)'
  BY DEF LoopInv
<1>1. WorkerLoop(v) /\ WorkerLoop(w)
  BY DEF LoopInv
<1>2. CASE v # w
  <2>1. /\ restarts'[v] = restarts[v] /\ launches'[v] = launches[v]
        /\ running'[v] = running[v] /\ wpc'[v] = wpc[v]
    BY <1>2 DEF WorkerStep, CancelledBeforeRun, NotCancelled, LaunchCommand, GiveUp,
         Restart, BackoffEnds, BackoffCancelled, Record, WgDone, RunReturns, GoTo,
         loopVars, TypeOK
  <2> QED
    BY <2>1, <1>1 DEF WorkerLoop, CountUp
<1>3. CASE v = w
  <2> USE <1>1, <1>3 DEF TypeOK, GoTo
  <2>a. restarts[w] \in 0..RestartCap /\ launches[w] \in 0..RestartCap
    OBVIOUS
  <2>b. /\ CountUp(restarts[w]) \in 0..RestartCap /\ CountUp(restarts[w]) <= restarts[w] + 1
        /\ restarts[w] <= CountUp(restarts[w])
    BY <2>a, CountUpType
  <2>1. CASE CancelledBeforeRun(w)
    BY <2>1 DEF CancelledBeforeRun, WorkerLoop, CountUp
  <2>2. CASE NotCancelled(w)
    BY <2>2 DEF NotCancelled, loopVars, WorkerLoop, CountUp
  <2>3. CASE LaunchCommand(w)
    <3>1. launches'[w] = CountUp(restarts[w]) /\ restarts' = restarts /\ wpc'[w] = "run" /\ running'[w]
      BY <2>3 DEF LaunchCommand, WorkerLoop
    <3> QED
      BY <3>1, <2>a, <2>b, <2>3 DEF WorkerLoop, CountUp
  <2>4. CASE GiveUp(w)
    BY <2>4, <2>a, <2>b DEF GiveUp, loopVars, WorkerLoop
  <2>5. CASE Restart(w)
    <3>1. restarts'[w] = CountUp(restarts[w]) /\ launches' = launches /\ wpc'[w] = "backoff" /\ running' = running
      BY <2>5 DEF Restart
    <3>2. launches[w] = CountUp(restarts[w]) /\ wpc[w] = "ran"
      BY <2>5 DEF Restart, WorkerLoop
    <3>3. MaxRestarts[w] \in Nat
      BY SupervisorAssumption DEF SupervisorAssumption
    <3>4. MaxRestarts[w] > 0 => restarts[w] < MaxRestarts[w]
      BY <2>5, <2>a, <3>3 DEF Restart, budgetSpent
    <3>5. Policy[w] # "never"
      BY <2>5 DEF Restart, shouldRestart
    <3> QED
      BY <3>1, <3>2, <3>4, <3>5, <3>3, <2>a, <2>b DEF WorkerLoop
  <2>6. CASE BackoffEnds(w)
    BY <2>6 DEF BackoffEnds, loopVars, WorkerLoop, CountUp
  <2>7. CASE BackoffCancelled(w)
    BY <2>7 DEF BackoffCancelled, loopVars, WorkerLoop, CountUp
  <2>8. CASE Record(w)
    BY <2>8 DEF Record, loopVars, WorkerLoop, CountUp
  <2>9. CASE WgDone(w)
    BY <2>9 DEF WgDone, loopVars, WorkerLoop, CountUp
  <2>10. CASE RunReturns(w)
    BY <2>10 DEF RunReturns, WorkerLoop, CountUp
  <2> QED
    BY <2>1, <2>2, <2>3, <2>4, <2>5, <2>6, <2>7, <2>8, <2>9, <2>10 DEF WorkerStep
<1> QED
  BY <1>2, <1>3

-----------------------------------------------------------------------------
(* PoolInv.                                                                *)
LEMMA CallPool ==
  ASSUME TypeOK, PoolInv, NEW c \in Callers, Call(c)
  PROVE  PoolInv'
<1> USE DEF TypeOK
<1>1. CASE \E w \in Workers : Add(c, w)
  <2>1. PICK w \in Workers : Add(c, w)
    BY <1>1
  <2>2. launched' = launched
    BY <2>1 DEF Add, launched
  <2> QED
    BY <2>1, <2>2 DEF Add, PoolInv
<1>2. CASE Start(c)
  <2>1. launched' = launched
    BY <1>2 DEF Start, launched
  <2> QED
    BY <1>2, <2>1 DEF Start, PoolInv
<1>3. CASE \E w \in Workers : Launch(c, w)
  <2>1. PICK w \in Workers : Launch(c, w)
    BY <1>3
  <2>2. wpc[w] = "new" /\ started
    BY <2>1 DEF Launch, PoolInv
  <2>3. launched' = launched \cup {w} /\ w \notin launched
    BY <2>1, <2>2 DEF Launch, launched
  <2>4. Cardinality(launched') = Cardinality(launched) + 1
    BY <2>3, LaunchedFinite, FS_AddElement
  <2> QED
    BY <2>1, <2>2, <2>4 DEF Launch, PoolInv
<1>4. CASE StopCancels(c)
  <2>1. launched' = launched
    BY <1>4 DEF StopCancels, launched
  <2> QED
    BY <1>4, <2>1 DEF StopCancels, PoolInv
<1>5. CASE Stop(c)
  <2>1. launched' = launched
    BY <1>5 DEF Stop, launched
  <2> QED
    BY <1>5, <2>1 DEF Stop, PoolInv
<1>6. CASE StartReturns(c) \/ Wait(c) \/ GroupEmpty(c) \/ WaitReturns(c)
             \/ StopReturns(c)
  <2>1. /\ UNCHANGED <<poolVars, wg, results, wpc>>
        /\ \A d \in Callers : cpc'[d] = "draining" => cpc[d] = "draining"
        /\ \A d \in Callers : cpc[d] = "cancelling" => cpc'[d] = "cancelling"
    BY <1>6 DEF StartReturns, Wait, GroupEmpty, WaitReturns, StopReturns, poolVars
  <2>2. launched' = launched
    BY <2>1 DEF launched
  <2> QED
    BY <2>1, <2>2 DEF PoolInv, poolVars
<1> QED
  BY <1>1, <1>2, <1>3, <1>4, <1>5, <1>6 DEF Call

LEMMA WorkerStepPool ==
  ASSUME TypeOK, PoolInv, NEW w \in Workers, WorkerStep(w) \/ RunReturns(w)
  PROVE  PoolInv'
<1> USE DEF TypeOK
<1>0. /\ UNCHANGED <<poolVars, cpc>>
      /\ wpc[w] \notin {"new", "done"} /\ w \in launched
      /\ started
  BY DEF WorkerStep, CancelledBeforeRun, NotCancelled, LaunchCommand, GiveUp, Restart,
         BackoffEnds, BackoffCancelled, Record, WgDone, RunReturns, workerFrame,
         launched, PoolInv
<1>1. CASE WgDone(w)
  <2>1. launched' = launched \ {w} /\ w \in launched
    BY <1>1, <1>0 DEF WgDone, GoTo, launched
  <2>2. Cardinality(launched') = Cardinality(launched) - 1
    BY <2>1, LaunchedFinite, FS_RemoveElement
  <2> QED
    BY <1>0, <1>1, <2>2 DEF WgDone, GoTo, PoolInv, poolVars
<1>2. CASE Record(w)
  <2>1. launched' = launched
    BY <1>2, <1>0, SameGroup DEF Record
  <2>2. res[w] # "none"
    BY DEF Outcomes
  <2>3. /\ wg' = wg /\ wpc' = [wpc EXCEPT ![w] = "recorded"]
        /\ results' = [results EXCEPT ![w] = res[w]]
    BY <1>2 DEF Record, workerFrame, GoTo
  <2>4. results \in Maps
    OBVIOUS
  <2>5. \A v \in Workers : wpc'[v] \in {"recorded", "done"} => results'[v] # "none"
    BY <2>2, <2>3, <2>4 DEF PoolInv, Maps
  <2>6. \A v \in Workers : wpc'[v] = "new" <=> wpc[v] = "new"
    BY <1>0, <2>3
  <2> QED
    BY <1>0, <2>1, <2>3, <2>5, <2>6 DEF PoolInv, poolVars
<1>3. CASE \E place \in {"top", "launch", "run", "ran", "backoff", "returning"} :
             GoTo(w, place) /\ UNCHANGED <<wg, results>>
  <2>1. PICK place \in {"top", "launch", "run", "ran", "backoff", "returning"} :
          GoTo(w, place) /\ UNCHANGED <<wg, results>>
    BY <1>3
  <2>2. launched' = launched
    BY <2>1, <1>0, SameGroup
  <2> QED
    BY <1>0, <2>1, <2>2 DEF GoTo, PoolInv, poolVars
<1> QED
  BY <1>1, <1>2, <1>3 DEF WorkerStep, CancelledBeforeRun, NotCancelled, LaunchCommand,
         GiveUp, Restart, BackoffEnds, BackoffCancelled, RunReturns, workerFrame

LEMMA CancelParentKeeps ==
  ASSUME TypeOK, LoopInv, PoolInv, CancelParent
  PROVE  TypeOK' /\ LoopInv' /\ PoolInv'
<1>1. TypeOK'
  BY DEF CancelParent, TypeOK, Maps, loopVars
<1>2. LoopInv'
  BY DEF CancelParent, LoopInv, WorkerLoop, CountUp, loopVars
<1>3. launched' = launched
  BY DEF CancelParent, launched
<1>4. PoolInv'
  BY <1>3 DEF CancelParent, PoolInv
<1> QED
  BY <1>1, <1>2, <1>4

LEMMA StutterKeeps ==
  ASSUME TypeOK, LoopInv, PoolInv, UNCHANGED vars
  PROVE  TypeOK' /\ LoopInv' /\ PoolInv'
<1> USE DEF vars, poolVars, loopVars
<1>1. TypeOK'
  BY DEF TypeOK, Maps
<1>2. LoopInv'
  BY DEF LoopInv, WorkerLoop, CountUp
<1>3. launched' = launched
  BY DEF launched
<1>4. PoolInv'
  BY <1>3 DEF PoolInv
<1> QED
  BY <1>1, <1>2, <1>4

LEMMA InvStep ==
  ASSUME TypeOK, LoopInv, PoolInv, [Next]_vars
  PROVE  TypeOK' /\ LoopInv' /\ PoolInv'
<1>1. CASE \E c \in Callers : Call(c)
  BY <1>1, CallType, CallLoop, CallPool
<1>2. CASE \E w \in Workers : WorkerStep(w) \/ RunReturns(w)
  <2>1. PICK w \in Workers : WorkerStep(w) \/ RunReturns(w)
    BY <1>2
  <2>2. wpc[w] = "recorded" => wg > 0
    <3> SUFFICES ASSUME wpc[w] = "recorded" PROVE wg > 0
      OBVIOUS
    <3>1. w \in launched
      BY DEF launched
    <3> QED
      BY <3>1, NonEmptyGroup DEF PoolInv
  <2> QED
    BY <2>1, <2>2, WorkerType, WorkerStepLoop, WorkerStepPool
<1>3. CASE CancelParent
  BY <1>3, CancelParentKeeps
<1>4. CASE UNCHANGED vars
  BY <1>4, StutterKeeps
<1> QED
  BY <1>1, <1>2, <1>3, <1>4 DEF Next

(* The variables of the supervisor keep their types; in particular the     *)
(* counter of the WaitGroup never goes below zero, which would be a panic. *)
THEOREM SupervisorTypes == SafeSpec => []TypeOK
<1>1. Init => TypeOK /\ LoopInv /\ PoolInv
  BY TypeInit, InitLoop, InitPool
<1>2. TypeOK /\ LoopInv /\ PoolInv /\ [Next]_vars => (TypeOK /\ LoopInv /\ PoolInv)'
  BY InvStep
<1> QED
  BY <1>1, <1>2, PTL DEF SafeSpec

(* Both inductive invariants hold.                                         *)
LEMMA Inductive == SafeSpec => [](TypeOK /\ LoopInv /\ PoolInv)
<1>1. Init => TypeOK /\ LoopInv /\ PoolInv
  BY TypeInit, InitLoop, InitPool
<1>2. TypeOK /\ LoopInv /\ PoolInv /\ [Next]_vars => (TypeOK /\ LoopInv /\ PoolInv)'
  BY InvStep
<1> QED
  BY <1>1, <1>2, PTL DEF SafeSpec

(* A command is launched at most MaxRestarts times more than once, and     *)
(* once under RestartNever, for any policies and limits.                   *)
THEOREM BudgetKept == SafeSpec => []RestartBudget
<1>1. TypeOK /\ LoopInv => RestartBudget
  <2> SUFFICES ASSUME TypeOK, LoopInv, NEW w \in Workers
               PROVE  /\ MaxRestarts[w] > 0 => launches[w] <= MaxRestarts[w] + 1
                      /\ Policy[w] = "never" => launches[w] <= 1
    BY DEF RestartBudget
  <2>1. /\ restarts[w] \in Nat /\ launches[w] \in Nat /\ MaxRestarts[w] \in Nat
        /\ WorkerLoop(w)
    BY SupervisorAssumption DEF TypeOK, LoopInv, SupervisorAssumption
  <2> QED
    BY <2>1 DEF WorkerLoop
<1> QED
  BY <1>1, Inductive, PTL

(* What Status reports of a worker agrees with its loop.                   *)
THEOREM StatusIsTrue == SafeSpec => []StatusAgrees
<1>1. LoopInv => StatusAgrees
  BY DEF LoopInv, WorkerLoop, StatusAgrees
<1> QED
  BY <1>1, Inductive, PTL

(* When the group of a Wait is empty after all launches, every registered  *)
(* worker has finished and left its result.                                *)
THEOREM WaitComplete == SafeSpec => WaitIsComplete
<1>1. TypeOK /\ PoolInv /\ [Next]_vars
        => [\A c \in Callers :
              cpc[c] = "waiting" /\ cpc'[c] = "reading" /\ started /\ toLaunch = {}
                => \A w \in registered : wpc[w] = "done" /\ results[w] # "none"]_vars
  <2> SUFFICES ASSUME TypeOK, PoolInv, [Next]_vars, NEW c \in Callers,
                      cpc[c] = "waiting", cpc'[c] = "reading", started, toLaunch = {},
                      NEW w \in registered
               PROVE  wpc[w] = "done" /\ results[w] # "none"
    OBVIOUS
  <2>1. wg = 0
    BY DEF Next, vars, poolVars, loopVars, Call, Add, Start, Launch, StartReturns,
       Wait, GroupEmpty, WaitReturns, Stop, StopCancels, StopReturns,
       CancelParent, WorkerStep, CancelledBeforeRun, NotCancelled, LaunchCommand, GiveUp,
       Restart, BackoffEnds, BackoffCancelled, Record, WgDone, RunReturns, workerFrame, TypeOK
  <2>2. launched = {}
    BY <2>1, EmptyGroup DEF PoolInv
  <2>3. w \in Workers /\ wpc[w] \in {"new", "done"}
    BY <2>2 DEF launched, TypeOK
  <2>4. wpc[w] # "new"
    BY DEF PoolInv
  <2> QED
    BY <2>3, <2>4 DEF PoolInv
<1> QED
  BY <1>1, Inductive, PTL DEF SafeSpec, WaitIsComplete

-----------------------------------------------------------------------------
Busy == {"launch", "run", "ran", "backoff"}
InStop == \E c \in Callers : cpc[c] \in {"cancelling", "draining"}

(* Stop returns with an empty group, and no worker gets past the top of    *)
(* its loop once the context is cancelled.                                 *)
LEMMA StopStep ==
  ASSUME TypeOK, PoolInv, StopDrains, [Next]_vars
  PROVE  StopDrains'
<1> USE DEF TypeOK
<1> SUFFICES ASSUME stopped', ~InStop'
             PROVE  supCtxDone' /\ \A w \in Workers : wpc'[w] \notin Busy
  BY DEF StopDrains, InStop, Busy
<1>1. CASE \E c \in Callers : Call(c)
  <2>1. PICK c \in Callers : Call(c)
    BY <1>1
  <2>2. CASE Stop(c) \/ StopCancels(c)
    <3>1. cpc'[c] \in {"cancelling", "draining"}
      BY <2>2 DEF Stop, StopCancels
    <3> QED
      BY <3>1 DEF InStop
  <2>3. CASE StopReturns(c)
    <3>1. launched = {} /\ cancelled
      BY <2>3, EmptyGroup DEF StopReturns, PoolInv
    <3> QED
      BY <2>3, <3>1 DEF StopReturns, launched, poolVars, supCtxDone, Busy
  <2>4. CASE \E w \in Workers : Launch(c, w)
    <3>1. PICK w \in Workers : Launch(c, w)
      BY <2>4
    <3>2. stopped /\ ~InStop /\ UNCHANGED <<cancelled, parentDone>>
      BY <3>1 DEF Launch, InStop
    <3>3. supCtxDone /\ \A v \in Workers : wpc[v] \notin Busy
      BY <3>2 DEF StopDrains, InStop, Busy
    <3> QED
      BY <3>1, <3>2, <3>3 DEF Launch, supCtxDone, Busy
  <2>5. CASE (\E w \in Workers : Add(c, w)) \/ Start(c) \/ StartReturns(c) \/ Wait(c)
               \/ GroupEmpty(c) \/ WaitReturns(c)
    <3>1. UNCHANGED <<stopped, cancelled, parentDone, wpc>>
      BY <2>5 DEF Add, Start, StartReturns, Wait, GroupEmpty, WaitReturns, poolVars
    <3>2. InStop => InStop'
      BY <2>5 DEF Add, Start, StartReturns, Wait, GroupEmpty, WaitReturns,
                  InStop
    <3> QED
      BY <3>1, <3>2 DEF StopDrains, InStop, supCtxDone, Busy
  <2> QED
    BY <2>1, <2>2, <2>3, <2>4, <2>5 DEF Call
<1>2. CASE \E w \in Workers : WorkerStep(w) \/ RunReturns(w)
  <2>1. PICK w \in Workers : WorkerStep(w) \/ RunReturns(w)
    BY <1>2
  <2>2. UNCHANGED <<stopped, cancelled, parentDone, cpc>>
    BY <2>1 DEF WorkerStep, CancelledBeforeRun, NotCancelled, LaunchCommand, GiveUp, Restart,
         BackoffEnds, BackoffCancelled, Record, WgDone, RunReturns, workerFrame, poolVars
  <2>3. supCtxDone /\ \A v \in Workers : wpc[v] \notin Busy
    BY <2>2 DEF StopDrains, InStop, Busy
  <2>4. wpc'[w] \notin Busy /\ \A v \in Workers \ {w} : wpc'[v] = wpc[v]
    BY <2>1, <2>3 DEF WorkerStep, CancelledBeforeRun, NotCancelled, LaunchCommand, GiveUp,
         Restart, BackoffEnds, BackoffCancelled, Record, WgDone, RunReturns, GoTo, Busy
  <2> QED
    BY <2>2, <2>3, <2>4 DEF supCtxDone
<1>3. CASE CancelParent
  BY <1>3 DEF CancelParent, StopDrains, InStop, supCtxDone, Busy
<1>4. CASE UNCHANGED vars
  BY <1>4 DEF vars, poolVars, StopDrains, InStop, supCtxDone, Busy
<1> QED
  BY <1>1, <1>2, <1>3, <1>4 DEF Next

(* When the Stop that set stopped has returned, no command runs and none   *)
(* will be launched, whatever Start and the other calls are doing.         *)
THEOREM StopMeansDrained == SafeSpec => []StopDrains
<1>1. Init => StopDrains
  BY DEF Init, StopDrains
<1>2. TypeOK /\ PoolInv /\ StopDrains /\ [Next]_vars => StopDrains'
  BY StopStep
<1> QED
  BY <1>1, <1>2, Inductive, PTL DEF SafeSpec

-----------------------------------------------------------------------------
(* Why a worker gave up; a Result that it holds is the last one it had.    *)
LastIsRes == \A w \in Workers : res[w] # "nil" => lastResult[w] = res[w]

GaveUp(w) ==
  \/ Policy[w] = "never"
  \/ Policy[w] = "onfailure" /\ lastResult[w] = "ok" /\ res[w] = "ok"
  \/ MaxRestarts[w] > 0 /\ launches[w] = MaxRestarts[w] + 1

Ended == {"returning", "recorded", "done"}

LEMMA GiveUpReason ==
  ASSUME TypeOK, LoopInv, LastIsRes, NEW w \in Workers, GiveUp(w), ~supCtxDone
  PROVE  GaveUp(w)
<1>1. wpc[w] = "ran" /\ (~shouldRestart(w) \/ budgetSpent(w))
  BY DEF GiveUp
<1>2. CASE ~shouldRestart(w)
  BY <1>1, <1>2, SupervisorAssumption
  DEF shouldRestart, GaveUp, LastIsRes, SupervisorAssumption
<1>3. CASE budgetSpent(w)
  <2>1. /\ MaxRestarts[w] \in Nat /\ RestartCap \in Nat /\ MaxRestarts[w] + 1 < RestartCap
        /\ restarts[w] \in Nat
    BY SupervisorAssumption DEF SupervisorAssumption, TypeOK
  <2>2. restarts[w] = MaxRestarts[w] /\ MaxRestarts[w] > 0
    BY <1>3, <2>1 DEF budgetSpent, LoopInv, WorkerLoop
  <2>3. launches[w] = CountUp(restarts[w])
    BY <1>1 DEF LoopInv, WorkerLoop
  <2> QED
    BY <2>1, <2>2, <2>3 DEF CountUp, GaveUp
<1> QED
  BY <1>1, <1>2, <1>3

LEMMA GiveUpStep ==
  ASSUME TypeOK, LoopInv, PoolInv, LastIsRes, FailuresAreRestarted, [Next]_vars
  PROVE  LastIsRes' /\ FailuresAreRestarted'
<1> USE DEF TypeOK
<1>1. CASE UNCHANGED <<res, lastResult, launches>>
  <2>1. CASE UNCHANGED wpc
    <3>1. supCtxDone => supCtxDone'
      BY DEF Next, vars, poolVars, Call, Add, Start, Launch, StartReturns, Wait, GroupEmpty,
         WaitReturns, Stop, StopCancels, StopReturns, CancelParent, WorkerStep,
         CancelledBeforeRun, NotCancelled, LaunchCommand, GiveUp, Restart, BackoffEnds,
         BackoffCancelled, Record, WgDone, RunReturns, workerFrame, supCtxDone
    <3> QED
      BY <1>1, <2>1, <3>1 DEF LastIsRes, FailuresAreRestarted
  <2>2. CASE \E c \in Callers, w \in Workers : Launch(c, w)
    BY <1>1, <2>2 DEF Launch, LastIsRes, FailuresAreRestarted, supCtxDone
  <2>3. ASSUME NEW w \in Workers, WorkerStep(w)
        PROVE  LastIsRes' /\ FailuresAreRestarted'
    <3>1. UNCHANGED supCtxDone
      BY <2>3 DEF WorkerStep, CancelledBeforeRun, NotCancelled, LaunchCommand, GiveUp,
         Restart, BackoffEnds, BackoffCancelled, Record, WgDone, workerFrame, poolVars,
         supCtxDone
    <3>2. /\ \A v \in Workers \ {w} : wpc'[v] = wpc[v]
          /\ wpc'[w] # "ran"
      BY <2>3 DEF WorkerStep, CancelledBeforeRun, NotCancelled, LaunchCommand, GiveUp,
         Restart, BackoffEnds, BackoffCancelled, Record, WgDone, GoTo
    <3>3. wpc'[w] \in Ended /\ ~supCtxDone => wpc[w] \in Ended \/ GiveUp(w)
      BY <2>3 DEF WorkerStep, CancelledBeforeRun, NotCancelled, LaunchCommand,
         Restart, BackoffEnds, BackoffCancelled, Record, WgDone, GoTo, Ended
    <3>4. wpc[w] \in Ended /\ ~supCtxDone => GaveUp(w)
      BY DEF FailuresAreRestarted, GaveUp, Ended
    <3>5. wpc'[w] \in Ended /\ ~supCtxDone => GaveUp(w)
      BY <3>3, <3>4, GiveUpReason
    <3> QED
      BY <1>1, <3>1, <3>2, <3>5 DEF LastIsRes, FailuresAreRestarted, GaveUp, Ended
  <2>4. CASE \E w \in Workers : RunReturns(w)
    BY <1>1, <2>4 DEF RunReturns, GoTo, workerFrame, poolVars, supCtxDone, LastIsRes,
         FailuresAreRestarted
  <2> QED
    BY <2>1, <2>2, <2>3, <2>4
    DEF Next, vars, Call, Add, Start, StartReturns, Wait, GroupEmpty, WaitReturns, Stop,
        StopCancels, StopReturns, CancelParent
<1>2. ASSUME NEW w \in Workers, RunReturns(w) \/ LaunchCommand(w) \/ CancelledBeforeRun(w)
      PROVE  LastIsRes' /\ FailuresAreRestarted'
  <2>1. UNCHANGED supCtxDone
    BY <1>2 DEF RunReturns, LaunchCommand, CancelledBeforeRun, workerFrame, poolVars,
         supCtxDone
  <2>2. \A v \in Workers \ {w} :
          /\ wpc'[v] = wpc[v] /\ res'[v] = res[v]
          /\ lastResult'[v] = lastResult[v] /\ launches'[v] = launches[v]
    BY <1>2 DEF RunReturns, LaunchCommand, CancelledBeforeRun, GoTo
  <2>3. wpc'[w] \in Ended => supCtxDone
    BY <1>2 DEF RunReturns, LaunchCommand, CancelledBeforeRun, GoTo, Ended
  <2>4. res'[w] # "nil" => lastResult'[w] = res'[w]
    BY <1>2 DEF RunReturns, LaunchCommand, CancelledBeforeRun, LastIsRes
  <2> QED
    BY <2>1, <2>2, <2>3, <2>4 DEF LastIsRes, FailuresAreRestarted, Ended
<1> QED
  BY <1>1, <1>2
  DEF Next, vars, loopVars, Call, Add, Start, Launch, StartReturns, Wait, GroupEmpty,
      WaitReturns, Stop, StopCancels, StopReturns, CancelParent, WorkerStep, NotCancelled,
      GiveUp, Restart, BackoffEnds, BackoffCancelled, Record, WgDone

(* No failure is left alone: a worker that was not cancelled gives up only *)
(* after a success, under RestartNever or with its restarts used up, for   *)
(* any policies and limits.                                                *)
THEOREM NoFailureIsDropped == SafeSpec => []FailuresAreRestarted
<1>1. Init => LastIsRes /\ FailuresAreRestarted
  BY DEF Init, LastIsRes, FailuresAreRestarted
<1>2. TypeOK /\ LoopInv /\ PoolInv /\ LastIsRes /\ FailuresAreRestarted /\ [Next]_vars
        => (LastIsRes /\ FailuresAreRestarted)'
  BY GiveUpStep
<1> QED
  BY <1>1, <1>2, Inductive, PTL DEF SafeSpec

-----------------------------------------------------------------------------
(* An entry is made once, by a worker on its way out of the loop.          *)
Entered == \A w \in Workers :
             results[w] # "none" => wpc[w] \in {"recorded", "done"}

LEMMA EnteredStep == TypeOK /\ PoolInv /\ Entered /\ [Next]_vars => Entered'
<1> SUFFICES ASSUME TypeOK, PoolInv, Entered, [Next]_vars PROVE Entered'
  OBVIOUS
<1> USE DEF TypeOK, Maps, Entered
<1>1. ASSUME NEW c \in Callers, Call(c) PROVE Entered'
  <2>1. CASE \E w \in Workers : Launch(c, w)
    BY <2>1 DEF Launch, PoolInv
  <2>2. CASE ~ \E w \in Workers : Launch(c, w)
    BY <1>1, <2>2 DEF Call, Add, Start, StartReturns, Wait, GroupEmpty, WaitReturns, Stop,
       StopCancels, StopReturns
  <2> QED
    BY <2>1, <2>2
<1>2. ASSUME NEW w \in Workers, WorkerStep(w) \/ RunReturns(w) PROVE Entered'
  <2>1. \A v \in Workers \ {w} : wpc'[v] = wpc[v] /\ results'[v] = results[v]
    BY <1>2 DEF WorkerStep, CancelledBeforeRun, NotCancelled, LaunchCommand, GiveUp, Restart,
       BackoffEnds, BackoffCancelled, Record, WgDone, RunReturns, GoTo
  <2>2. CASE Record(w) \/ WgDone(w)
    BY <2>1, <2>2 DEF Record, WgDone, GoTo
  <2>3. CASE ~(Record(w) \/ WgDone(w))
    <3>1. wpc[w] \notin {"recorded", "done"} /\ results' = results
      BY <1>2, <2>3 DEF WorkerStep, CancelledBeforeRun, NotCancelled, LaunchCommand, GiveUp,
         Restart, BackoffEnds, BackoffCancelled, RunReturns
    <3> QED
      BY <2>1, <3>1
  <2> QED
    BY <2>2, <2>3
<1>3. CASE CancelParent \/ UNCHANGED vars
  BY <1>3 DEF CancelParent, vars
<1> QED
  BY <1>1, <1>2, <1>3 DEF Next

(* Each worker leaves one Result for Wait, that of its last run; an older  *)
(* one only after a cancellation that found the last run not started.      *)
THEOREM ResultsAreTrue == SafeSpec => ResultIsOfLastRun
<1>1. Init => LastIsRes /\ FailuresAreRestarted /\ Entered
  BY DEF Init, LastIsRes, FailuresAreRestarted, Entered
<1>2. TypeOK /\ LoopInv /\ PoolInv /\ LastIsRes /\ FailuresAreRestarted /\ [Next]_vars
        => (LastIsRes /\ FailuresAreRestarted)'
  BY GiveUpStep
<1>3. TypeOK /\ LastIsRes /\ Entered /\ [Next]_vars
        => [\A w \in Workers :
              /\ results'[w] # results[w] => results[w] = "none" /\ results'[w] = res[w]
              /\ wpc[w] # "run" /\ res'[w] # res[w]
                   => supCtxDone /\ res[w] = "nil" /\ res'[w] = lastResult[w]]_vars
  <2> SUFFICES ASSUME TypeOK, LastIsRes, Entered, [Next]_vars, NEW w \in Workers
               PROVE  /\ results'[w] # results[w] => results[w] = "none" /\ results'[w] = res[w]
                      /\ wpc[w] # "run" /\ res'[w] # res[w]
                           => supCtxDone /\ res[w] = "nil" /\ res'[w] = lastResult[w]
    OBVIOUS
  <2> USE DEF TypeOK
  <2>1. CASE \E v \in Workers : Record(v)
    BY <2>1 DEF Record, Entered, loopVars
  <2>2. CASE \E v \in Workers : RunReturns(v) \/ CancelledBeforeRun(v)
    BY <2>2 DEF RunReturns, CancelledBeforeRun, LastIsRes
  <2>3. CASE UNCHANGED <<res, results>>
    BY <2>3
  <2> QED
    BY <2>1, <2>2, <2>3
    DEF Next, vars, loopVars, Call, Add, Start, Launch, StartReturns, Wait, GroupEmpty,
        WaitReturns, Stop, StopCancels, StopReturns, CancelParent, WorkerStep, NotCancelled,
        LaunchCommand, GiveUp, Restart, BackoffEnds, BackoffCancelled, WgDone
<1> QED
  BY <1>1, <1>2, <1>3, Inductive, EnteredStep, PTL DEF SafeSpec, ResultIsOfLastRun
=============================================================================
