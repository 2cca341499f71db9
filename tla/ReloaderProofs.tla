--------------------------- MODULE ReloaderProofs ---------------------------
(***************************************************************************)
(* Proofs about the Reloader and its Watcher, for any calls of Run, any    *)
(* files and any capacity of the channel.                                  *)
(***************************************************************************)
EXTENDS Reloader, TLAPS

-----------------------------------------------------------------------------
(***************************************************************************)
(* Types.                                                                  *)
(***************************************************************************)
LEMMA TypeInit == Init => TypeOK
<1> SUFFICES ASSUME Init PROVE TypeOK
  OBVIOUS
<1>1. NoFiles \in Trees
  BY WatcherAssumption DEF NoFiles, Trees
<1>2. <<>> \in Seq(SUBSET Files) /\ Len(<<>>) = 0
  OBVIOUS
<1>3. outCh = [s \in Sessions |-> <<>>]
  BY DEF Init, WatcherInit
<1>4. outCh \in [Sessions -> Seq(SUBSET Files)]
  BY <1>2, <1>3, Zenon
<1>5. ASSUME NEW s \in Sessions PROVE Len(outCh[s]) <= ChanCap
  <2>1. outCh[s] = <<>>
    BY <1>3
  <2>2. Len(outCh[s]) = 0
    BY <1>2, <2>1
  <2> QED
    BY <2>2, WatcherAssumption
<1>6. poll = [s \in Sessions |-> "off"] /\ run = [s \in Sessions |-> "off"]
  BY DEF Init, WatcherInit
<1>7. WatcherTypes
  <2>1. disk \in Trees /\ knownFiles \in Trees /\ edits \in 0..MaxEdits
    BY <1>1, WatcherAssumption DEF Init, WatcherInit
  <2>2. /\ fleeting \subseteq Files /\ ctxDone \subseteq Sessions /\ armed \subseteq Sessions
        /\ pending \in [Sessions -> SUBSET Files]
        /\ changesToSend \in [Sessions -> SUBSET Files]
    BY DEF Init, WatcherInit
  <2>3. currentMap \in [Sessions -> Trees]
    BY <1>1 DEF Init, WatcherInit
  <2> QED
    BY <1>4, <1>5, <1>6, <2>1, <2>2, <2>3 DEF WatcherTypes
<1>8. loaded \in [Sessions -> Trees] /\ attempt \in [Sessions -> Nat]
  BY <1>1 DEF Init
<1> QED
  BY <1>6, <1>7, <1>8 DEF Init, TypeOK

LEMMA WatchTypes == TypeOK /\ WatchStep => TypeOK'
<1> SUFFICES ASSUME TypeOK, WatchStep PROVE TypeOK'
  OBVIOUS
<1> USE WatcherAssumption DEF TypeOK, WatcherTypes, Trees, runVars, pollVars
<1>0. UNCHANGED runVars
  BY DEF WatchStep
<1>1. ASSUME NEW f \in Files, Write(f) PROVE TypeOK'
  BY <1>0, <1>1 DEF Write
<1>2. ASSUME NEW f \in Files, Remove(f) PROVE TypeOK'
  BY <1>0, <1>2 DEF Remove
<1>3. ASSUME NEW s \in Sessions, scan(s) PROVE TypeOK'
  BY <1>0, <1>3 DEF scan
<1>4. ASSUME NEW s \in Sessions, Compare(s) PROVE TypeOK'
  BY <1>0, <1>4 DEF Compare, detectDiff
<1>5. ASSUME NEW s \in Sessions, DebounceFires(s) PROVE TypeOK'
  BY <1>0, <1>5 DEF DebounceFires
<1>6. ASSUME NEW s \in Sessions, Send(s) PROVE TypeOK'
  <2>1. Append(outCh[s], changesToSend[s]) \in Seq(SUBSET Files)
        /\ Len(Append(outCh[s], changesToSend[s])) = Len(outCh[s]) + 1
    OBVIOUS
  <2> QED
    BY <1>0, <1>6, <2>1 DEF Send
<1>7. ASSUME NEW s \in Sessions, PollStops(s) PROVE TypeOK'
  BY <1>0, <1>7 DEF PollStops
<1>8. ASSUME NEW s \in Sessions, CancelSession(s) PROVE TypeOK'
  BY <1>0, <1>8 DEF CancelSession
<1> QED
  BY <1>1, <1>2, <1>3, <1>4, <1>5, <1>6, <1>7, <1>8 DEF WatchStep, pollLoop

LEMMA ReceiveTypes ==
  ASSUME WatcherTypes, NEW s \in Sessions, Receive(s)
  PROVE  WatcherTypes'
<1>1. Tail(outCh[s]) \in Seq(SUBSET Files) /\ Len(Tail(outCh[s])) <= Len(outCh[s])
  BY DEF Receive, WatcherTypes
<1> QED
  BY <1>1, WatcherAssumption DEF Receive, WatcherTypes, Trees, pollVars

RunStep(s) == RunRefused(s) \/ RunBegin(s) \/ Run(s) \/ WorkloadEnds(s)

LEMMA RunTypes ==
  ASSUME TypeOK, NEW s \in Sessions, RunStep(s)
  PROVE  TypeOK'
<1> USE DEF TypeOK, GoTo, Return, frame
<1>1. WatcherTypes'
  <2>1. CASE SeesChange(s) \/ RunsAgain(s)
    BY <2>1, ReceiveTypes DEF SeesChange, RunsAgain
  <2>2. CASE RunWatches(s)
    BY <2>2 DEF RunWatches, StartWatch, WatcherTypes, Trees
  <2>3. CASE UNCHANGED watchVars
    BY <2>3 DEF watchVars, pollVars, WatcherTypes, Trees
  <2> QED
    BY <2>1, <2>2, <2>3
    DEF RunStep, RunRefused, RunBegin, Run, Launch, LaunchFails, StopsWorkload, Drained,
        Replaces, SeesExit, ReturnsIdle, WorkloadEnds
<1>2. disk \in Trees
  BY DEF WatcherTypes
<1>3. CASE RunRefused(s) \/ RunBegin(s) \/ RunWatches(s)
  BY <1>1, <1>3 DEF RunRefused, RunBegin, RunWatches
<1>4. CASE Launch(s) \/ LaunchFails(s)
  BY <1>1, <1>2, <1>4 DEF Launch, LaunchFails
<1>5. CASE StopsWorkload(s) \/ Drained(s) \/ SeesExit(s) \/ ReturnsIdle(s)
  BY <1>1, <1>5 DEF StopsWorkload, Drained, SeesExit, ReturnsIdle
<1>6. CASE SeesChange(s) \/ Replaces(s) \/ RunsAgain(s) \/ WorkloadEnds(s)
  BY <1>1, <1>6 DEF SeesChange, Replaces, RunsAgain, WorkloadEnds
<1> QED
  BY <1>3, <1>4, <1>5, <1>6 DEF RunStep, Run

LEMMA TypeStep == TypeOK /\ [Next]_vars => TypeOK'
<1>1. TypeOK /\ UNCHANGED vars => TypeOK'
  BY DEF vars, watchVars, runVars, pollVars, TypeOK, WatcherTypes, Trees
<1> QED
  BY <1>1, WatchTypes, RunTypes DEF Next, RunStep

(* The variables keep their types, and the channel its capacity.           *)
THEOREM ReloaderTypes == SafeSpec => []TypeOK
  BY TypeInit, TypeStep, PTL DEF SafeSpec

-----------------------------------------------------------------------------
(***************************************************************************)
(* One workload.                                                           *)
(***************************************************************************)
ActiveAt == {"begun", "top", "retry", "running", "replacing", "draining", "exited"}

(* r.running belongs to the one Run that is under way; a workload is alive *)
(* only while its Run supervises it, and procFinished says that it is not. *)
RunInv ==
  /\ \A s \in Sessions : run[s] \in ActiveAt => running
  /\ \A s, t \in Sessions : run[s] \in ActiveAt /\ run[t] \in ActiveAt => s = t
  /\ \A s \in workload : run[s] \in {"running", "replacing", "draining"}
  /\ \A s \in procFinished : s \notin workload

LEMMA RunInit == Init => RunInv
  BY DEF Init, RunInv, ActiveAt

LEMMA RunKeeps ==
  ASSUME TypeOK, RunInv, NEW s \in Sessions, RunStep(s)
  PROVE  RunInv'
<1> USE DEF TypeOK, RunInv, ActiveAt, GoTo, Return, frame
<1>1. CASE RunRefused(s) \/ RunBegin(s) \/ RunWatches(s)
  BY <1>1 DEF RunRefused, RunBegin, RunWatches
<1>2. CASE Launch(s)
  BY <1>2 DEF Launch
<1>3. CASE LaunchFails(s)
  BY <1>3 DEF LaunchFails
<1>4. CASE StopsWorkload(s) \/ SeesChange(s) \/ SeesExit(s)
  BY <1>4 DEF StopsWorkload, SeesChange, SeesExit
<1>5. CASE Drained(s) \/ ReturnsIdle(s)
  BY <1>5 DEF Drained, ReturnsIdle
<1>6. CASE Replaces(s) \/ RunsAgain(s)
  BY <1>6 DEF Replaces, RunsAgain
<1>7. CASE WorkloadEnds(s)
  BY <1>7 DEF WorkloadEnds
<1> QED
  BY <1>1, <1>2, <1>3, <1>4, <1>5, <1>6, <1>7 DEF RunStep, Run

LEMMA RunInvStep == TypeOK /\ RunInv /\ [Next]_vars => RunInv'
<1>1. RunInv /\ UNCHANGED runVars => RunInv'
  BY DEF runVars, RunInv
<1> QED
  BY <1>1, RunKeeps DEF Next, RunStep, WatchStep, vars

(* Two workloads are never alive at once, a Run without a workload has     *)
(* none, however many goroutines call Run and whenever the files change.   *)
THEOREM OneAtATime == SafeSpec => []OneWorkload
<1>1. TypeOK /\ RunInv => OneWorkload
  BY DEF TypeOK, RunInv, ActiveAt, OneWorkload
<1> QED
  BY TypeInit, TypeStep, RunInit, RunInvStep, <1>1, PTL DEF SafeSpec

-----------------------------------------------------------------------------
(***************************************************************************)
(* Changes on their way.                                                   *)
(***************************************************************************)

(* Stamps are not ahead of the edits, so a write makes a file differ from  *)
(* every copy of it; what a pollLoop is not sending, it does not keep.     *)
ScanInv ==
  /\ \A f \in Files : disk[f] <= edits /\ knownFiles[f] <= edits
  /\ \A s \in Sessions, f \in Files : currentMap[s][f] <= edits
  /\ \A s \in Sessions : poll[s] \in {"off", "select", "scanned"} => changesToSend[s] = {}

LEMMA ScanInit == Init => ScanInv
  BY WatcherAssumption DEF Init, WatcherInit, ScanInv, NoFiles

LEMMA ScanKeeps == TypeOK /\ ScanInv /\ WatchStep => ScanInv'
<1> SUFFICES ASSUME TypeOK, ScanInv, WatchStep PROVE ScanInv'
  OBVIOUS
<1> USE WatcherAssumption DEF TypeOK, WatcherTypes, Trees, pollVars, ScanInv
<1>1. ASSUME NEW f \in Files, Write(f) \/ Remove(f) PROVE ScanInv'
  <2>1. edits' = edits + 1 /\ UNCHANGED <<knownFiles, currentMap, poll, changesToSend>>
    BY <1>1 DEF Write, Remove
  <2>2. disk' = [disk EXCEPT ![f] = edits + 1] \/ disk' = [disk EXCEPT ![f] = 0]
    BY <1>1 DEF Write, Remove
  <2>3. \A g \in Files : disk'[g] <= edits'
    <3> TAKE g \in Files
    <3>1. disk'[g] = disk[g] \/ disk'[g] = edits + 1 \/ disk'[g] = 0
      BY <2>2
    <3>2. disk[g] \in Nat /\ disk[g] <= edits /\ edits \in Nat
      OBVIOUS
    <3> QED
      BY <2>1, <3>1, <3>2
  <2>4. \A g \in Files : knownFiles'[g] <= edits'
    BY <2>1
  <2>5. \A s \in Sessions, g \in Files : currentMap'[s][g] <= edits'
    <3> TAKE s \in Sessions, g \in Files
    <3>1. currentMap[s][g] \in Nat /\ currentMap[s][g] <= edits
      OBVIOUS
    <3> QED
      BY <2>1, <3>1
  <2> QED
    BY <2>1, <2>3, <2>4, <2>5
<1>2. ASSUME NEW s \in Sessions, scan(s) PROVE ScanInv'
  BY <1>2 DEF scan
<1>3. ASSUME NEW s \in Sessions, Compare(s) PROVE ScanInv'
  BY <1>3 DEF Compare
<1>4. ASSUME NEW s \in Sessions, DebounceFires(s) PROVE ScanInv'
  BY <1>4 DEF DebounceFires
<1>5. ASSUME NEW s \in Sessions, Send(s) PROVE ScanInv'
  BY <1>5 DEF Send
<1>6. ASSUME NEW s \in Sessions, PollStops(s) \/ CancelSession(s) PROVE ScanInv'
  BY <1>6 DEF PollStops, CancelSession
<1> QED
  BY <1>1, <1>2, <1>3, <1>4, <1>5, <1>6 DEF WatchStep, pollLoop

(* What a step of Run does to the variables of the Watcher.                *)
LEMMA RunWatchFrame ==
  ASSUME NEW s \in Sessions, RunStep(s)
  PROVE  \/ UNCHANGED watchVars
         \/ RunWatches(s)
         \/ SeesChange(s)
         \/ RunsAgain(s)
  BY DEF RunStep, RunRefused, RunBegin, Run, Launch, LaunchFails, StopsWorkload, Drained,
         Replaces, SeesExit, ReturnsIdle, WorkloadEnds

LEMMA ScanStep == TypeOK /\ ScanInv /\ [Next]_vars => ScanInv'
<1> SUFFICES ASSUME TypeOK, ScanInv, [Next]_vars PROVE ScanInv'
  OBVIOUS
<1>1. CASE UNCHANGED watchVars
  BY <1>1 DEF watchVars, pollVars, ScanInv
<1>2. ASSUME NEW s \in Sessions, RunWatches(s) PROVE ScanInv'
  BY <1>2 DEF RunWatches, StartWatch, ScanInv, TypeOK, WatcherTypes
<1>3. ASSUME NEW s \in Sessions, SeesChange(s) \/ RunsAgain(s) PROVE ScanInv'
  BY <1>3 DEF SeesChange, RunsAgain, Receive, pollVars, ScanInv
<1> QED
  BY <1>1, <1>2, <1>3, ScanKeeps, RunWatchFrame DEF Next, RunStep, vars

(* A pollLoop that was started stays known: alone(s) is never regained.    *)
LEMMA AloneBefore ==
  ASSUME TypeOK, [Next]_vars, NEW s \in Sessions, alone(s)'
  PROVE  alone(s)
<1> SUFFICES ASSUME NEW t \in Sessions \ {s}, poll[t] # "off" PROVE poll'[t] # "off"
  BY DEF alone
<1> USE DEF TypeOK, WatcherTypes, pollVars
<1>1. CASE UNCHANGED watchVars
  BY <1>1 DEF watchVars
<1>2. ASSUME NEW r \in Sessions, RunWatches(r) PROVE poll'[t] # "off"
  BY <1>2 DEF RunWatches, StartWatch
<1>3. ASSUME NEW r \in Sessions, SeesChange(r) \/ RunsAgain(r) PROVE poll'[t] # "off"
  BY <1>3 DEF SeesChange, RunsAgain, Receive
<1>4. CASE WatchStep
  BY <1>4 DEF WatchStep, Write, Remove, pollLoop, CancelSession, scan, Compare,
              DebounceFires, Send, PollStops
<1> QED
  BY <1>1, <1>2, <1>3, <1>4, RunWatchFrame DEF Next, RunStep, vars

Awaiting(s) == run[s] \in {"running", "exited", "retry"} /\ s \notin ctxDone

Due(s, f) == disk[f] # knownFiles[f] \/ f \in underway(s) \/ f \in fleeting

(* A file that is due stays due, whatever the files and the pollLoop do.   *)
LEMMA DueStays ==
  ASSUME TypeOK, ScanInv, NEW s \in Sessions, alone(s), s \notin ctxDone',
         NEW f \in Files, WatchStep,
         disk[f] # loaded[s][f] => Due(s, f), disk'[f] # loaded[s][f]
  PROVE  Due(s, f)'
<1> USE DEF TypeOK, WatcherTypes, pollVars, Due, underway
<1>1. ASSUME NEW g \in Files, Write(g) PROVE Due(s, f)'
  <2>1. CASE g = f
    BY <1>1, <2>1 DEF Write, ScanInv, Trees
  <2>2. CASE g # f
    BY <1>1, <2>2 DEF Write, Trees
  <2> QED
    BY <2>1, <2>2
<1>2. ASSUME NEW g \in Files, Remove(g) PROVE Due(s, f)'
  <2>1. CASE g = f
    BY <1>2, <2>1 DEF Remove, scanned, alone, Trees
  <2>2. CASE g # f
    BY <1>2, <2>2 DEF Remove, Trees
  <2> QED
    BY <2>1, <2>2
<1>3. ASSUME NEW t \in Sessions, pollLoop(t) PROVE Due(s, f)'
  <2>1. t = s
    BY <1>3 DEF pollLoop, scan, Compare, DebounceFires, Send, PollStops, alone
  <2>2. CASE scan(s)
    BY <2>2 DEF scan
  <2>3. CASE Compare(s)
    BY <2>3 DEF Compare, detectDiff
  <2>4. CASE DebounceFires(s)
    BY <2>4 DEF DebounceFires, ScanInv
  <2>5. CASE Send(s)
    <3> DEFINE old == outCh[s]
    <3>1. outCh'[s] = Append(old, changesToSend[s])
      BY <2>5 DEF Send
    <3>2. old \in Seq(SUBSET Files) /\ changesToSend[s] \in SUBSET Files
      OBVIOUS
    <3>3. \A i \in DOMAIN old : i \in DOMAIN outCh'[s] /\ outCh'[s][i] = old[i]
      BY <3>1, <3>2
    <3>4. /\ Len(old) + 1 \in DOMAIN outCh'[s]
          /\ outCh'[s][Len(old) + 1] = changesToSend[s]
      BY <3>1, <3>2
    <3>5. f \in UNION {old[i] : i \in DOMAIN old}
            => f \in UNION {outCh'[s][i] : i \in DOMAIN outCh'[s]}
      BY <3>3
    <3>6. f \in changesToSend[s] => f \in UNION {outCh'[s][i] : i \in DOMAIN outCh'[s]}
      BY <3>4
    <3>7. poll[s] = "sending" /\ UNCHANGED <<disk, knownFiles, fleeting, pending>>
      BY <2>5 DEF Send
    <3> QED
      BY <3>5, <3>6, <3>7
  <2>6. CASE PollStops(s)
    BY <2>6 DEF PollStops
  <2> QED
    BY <1>3, <2>1, <2>2, <2>3, <2>4, <2>5, <2>6 DEF pollLoop
<1>4. ASSUME NEW t \in Sessions, CancelSession(t) PROVE Due(s, f)'
  BY <1>4 DEF CancelSession
<1> QED
  BY <1>1, <1>2, <1>3, <1>4 DEF WatchStep

DueInv == TypeOK /\ ScanInv /\ ChangesAreDue

(* A step of a Run: only Launch changes what is loaded, and it loads the   *)
(* files as they are.                                                      *)
LEMMA RunKeepsDue ==
  ASSUME DueInv, NEW s \in Sessions, alone(s), alone(s)', NEW t \in Sessions, RunStep(t)
  PROVE  changesAreDue(s)'
<1> USE DEF DueInv, TypeOK, WatcherTypes, pollVars, Awaiting, GoTo, Return, frame
<1> SUFFICES ASSUME Awaiting(s)', NEW f \in Files, disk'[f] # loaded'[s][f]
             PROVE  Due(s, f)'
  BY DEF changesAreDue, Due
<1>1. Awaiting(s) => (disk[f] # loaded[s][f] => Due(s, f))
  BY DEF ChangesAreDue, changesAreDue, Due
<1>2. CASE Launch(t) \/ LaunchFails(t)
  <2>1. t # s
    BY <1>2 DEF Launch, LaunchFails, watchVars
  <2> QED
    BY <1>1, <1>2, <2>1 DEF Launch, LaunchFails, watchVars, Due, underway
<1>3. CASE UNCHANGED watchVars /\ UNCHANGED loaded /\ ~Launch(t) /\ ~LaunchFails(t)
  <2>1. Awaiting(s)
    BY <1>3 DEF RunStep, RunRefused, RunBegin, Run, RunWatches, StopsWorkload, Drained,
                SeesChange, Replaces, SeesExit, RunsAgain, ReturnsIdle, WorkloadEnds,
                watchVars
  <2> QED
    BY <1>1, <1>3, <2>1 DEF watchVars, Due, underway
<1>4. CASE RunWatches(t)
  <2>1. t # s
    BY <1>4 DEF RunWatches
  <2> QED
    BY <1>4, <2>1 DEF RunWatches, StartWatch, alone
<1>5. CASE SeesChange(t) \/ RunsAgain(t)
  <2>1. t # s
    BY <1>5 DEF SeesChange, RunsAgain
  <2>2. outCh'[s] = outCh[s]
    BY <1>5, <2>1 DEF SeesChange, RunsAgain, Receive
  <2> QED
    BY <1>1, <1>5, <2>1, <2>2 DEF SeesChange, RunsAgain, Receive, Due, underway
<1> QED
  BY <1>2, <1>3, <1>4, <1>5
  DEF RunStep, RunRefused, RunBegin, Run, StopsWorkload, Drained, Replaces, SeesExit,
      ReturnsIdle, WorkloadEnds

LEMMA DueStep == DueInv /\ [Next]_vars => DueInv'
<1> SUFFICES ASSUME DueInv, [Next]_vars PROVE DueInv'
  OBVIOUS
<1>1. TypeOK' /\ ScanInv'
  BY TypeStep, ScanStep DEF DueInv
<1> SUFFICES ASSUME NEW s \in Sessions, alone(s)' PROVE changesAreDue(s)'
  BY <1>1 DEF DueInv, ChangesAreDue
<1>2. alone(s) /\ changesAreDue(s)
  BY AloneBefore DEF DueInv, ChangesAreDue
<1>3. CASE UNCHANGED vars
  BY <1>2, <1>3 DEF vars, watchVars, pollVars, runVars, changesAreDue, underway
<1>4. CASE WatchStep
  <2>1. s \notin ctxDone' => s \notin ctxDone
    BY <1>4 DEF WatchStep, Write, Remove, pollLoop, CancelSession, scan, Compare,
                DebounceFires, Send, PollStops
  <2>2. UNCHANGED <<run, loaded>>
    BY <1>4 DEF WatchStep, runVars
  <2> SUFFICES ASSUME run'[s] \in {"running", "exited", "retry"}, s \notin ctxDone',
                      NEW f \in Files, disk'[f] # loaded'[s][f]
               PROVE  Due(s, f)'
    BY DEF changesAreDue, Due
  <2>3. disk[f] # loaded[s][f] => Due(s, f)
    BY <1>2, <2>1, <2>2 DEF changesAreDue, Due
  <2> QED
    BY <1>2, <1>4, <2>2, <2>3, DueStays DEF DueInv
<1>5. ASSUME NEW t \in Sessions, RunStep(t) PROVE changesAreDue(s)'
  BY <1>2, <1>5, RunKeepsDue
<1> QED
  BY <1>3, <1>4, <1>5 DEF Next, RunStep

(* Whenever a first Run supervises a workload of older files, the change   *)
(* is on its way to it: no order of scans, debounces, sends and receives   *)
(* loses it.                                                               *)
THEOREM NoChangeIsLost == SafeSpec => []ChangesAreDue
<1>1. Init => ChangesAreDue
  BY DEF Init, ChangesAreDue, changesAreDue
<1>2. Init => DueInv
  BY <1>1, TypeInit, ScanInit DEF DueInv
<1>3. DueInv => ChangesAreDue
  BY DEF DueInv
<1> QED
  BY <1>2, <1>3, DueStep, PTL DEF SafeSpec

-----------------------------------------------------------------------------
(***************************************************************************)
(* Restarts are changes: an edit is used once, on its way from the disk to *)
(* the restart.                                                            *)
(***************************************************************************)
one(b) == IF b THEN 1 ELSE 0

(* The newest scan of s.                                                   *)
newest(s) == IF poll[s] = "scanned" THEN currentMap[s] ELSE knownFiles

inFiles(s) == one(newest(s) # knownFiles) + one(disk # newest(s))
inPoll(s)  == one(pending[s] # {}) + one(poll[s] = "sending")
inRun(s)   == Len(outCh[s]) + one(run[s] = "replacing") + attempt[s]

Uses(s)  == inFiles(s) + inPoll(s) + inRun(s) - 1 <= edits
UsesOnce == \A s \in Sessions : alone(s) => Uses(s)

LEMMA CountsAreNat ==
  ASSUME TypeOK, NEW s \in Sessions
  PROVE  /\ inFiles(s) \in Nat /\ inPoll(s) \in Nat /\ edits \in Nat
         /\ inRun(s) \in Nat /\ attempt[s] <= inRun(s) /\ attempt[s] \in Nat
<1>1. Len(outCh[s]) \in Nat /\ attempt[s] \in Nat /\ edits \in Nat
  BY WatcherAssumption DEF TypeOK, WatcherTypes
<1>2. inFiles(s) \in Nat
  BY DEF inFiles, one
<1>3. inPoll(s) \in Nat
  BY DEF inPoll, one
<1>4. inRun(s) \in Nat /\ attempt[s] <= inRun(s)
  <2> DEFINE n == Len(outCh[s])
             a == attempt[s]
             r == one(run[s] = "replacing")
  <2>1. r \in {0, 1} /\ n \in Nat /\ a \in Nat /\ a = attempt[s]
    BY <1>1 DEF one
  <2>2. inRun(s) = n + r + a
    BY DEF inRun
  <2> HIDE DEF n, a, r
  <2> QED
    BY <2>1, <2>2
<1> QED
  BY <1>1, <1>2, <1>3, <1>4

LEMMA UsesInit == Init => UsesOnce
<1> SUFFICES ASSUME Init, NEW s \in Sessions PROVE Uses(s)
  BY DEF UsesOnce
<1>1. poll[s] = "off" /\ run[s] = "off" /\ pending[s] = {} /\ outCh[s] = <<>>
  BY DEF Init, WatcherInit
<1>2. disk = knownFiles /\ attempt[s] = 1 /\ edits = 0
  BY DEF Init, WatcherInit
<1>3. Len(outCh[s]) = 0
  <2>1. <<>> \in Seq(SUBSET Files) /\ Len(<<>>) = 0
    OBVIOUS
  <2> QED
    BY <1>1, <2>1
<1> QED
  BY <1>1, <1>2, <1>3 DEF Uses, inFiles, inPoll, inRun, newest, one

LEMMA WatchUses ==
  ASSUME TypeOK, NEW s \in Sessions, alone(s), Uses(s), WatchStep
  PROVE  Uses(s)'
<1> USE DEF TypeOK, WatcherTypes, pollVars
<1>1. edits \in Nat /\ Len(outCh[s]) \in Nat /\ attempt[s] \in Nat
  BY WatcherAssumption
<1>2. run' = run /\ attempt' = attempt
  BY DEF WatchStep, runVars
<1>3. ASSUME NEW f \in Files, Write(f) \/ Remove(f) PROVE Uses(s)'
  <2>1. edits' = edits + 1
    BY <1>3 DEF Write, Remove
  <2>2. UNCHANGED <<knownFiles, poll, currentMap, pending, outCh>>
    BY <1>3 DEF Write, Remove
  <2> QED
    BY <1>1, <1>2, <2>1, <2>2 DEF Uses, inFiles, inPoll, inRun, newest, one
<1>4. ASSUME NEW t \in Sessions, CancelSession(t) PROVE Uses(s)'
  BY <1>1, <1>2, <1>4 DEF CancelSession, Uses, inFiles, inPoll, inRun, newest, one
<1>5. ASSUME NEW t \in Sessions, pollLoop(t) PROVE Uses(s)'
  <2>1. t = s
    BY <1>5 DEF pollLoop, scan, Compare, DebounceFires, Send, PollStops, alone
  <2>2. CASE scan(s)
    BY <1>1, <1>2, <2>2 DEF scan, Uses, inFiles, inPoll, inRun, newest, one
  <2>3. CASE Compare(s)
    <3>1. detectDiff(knownFiles, currentMap[s]) # {} => currentMap[s] # knownFiles
      BY DEF detectDiff
    <3>2. /\ newest(s) = currentMap[s] /\ newest(s)' = currentMap[s]
          /\ knownFiles' = currentMap[s] /\ disk' = disk /\ edits' = edits
      BY <2>3 DEF Compare, newest
    <3>3. pending'[s] # {} => pending[s] # {} \/ currentMap[s] # knownFiles
      BY <2>3, <3>1 DEF Compare
    <3>4. poll'[s] # "sending" /\ outCh' = outCh
      BY <2>3 DEF Compare
    <3> QED
      BY <1>1, <1>2, <3>2, <3>3, <3>4 DEF Uses, inFiles, inPoll, inRun, one
  <2>4. CASE DebounceFires(s)
    BY <1>1, <1>2, <2>4 DEF DebounceFires, Uses, inFiles, inPoll, inRun, newest, one
  <2>5. CASE Send(s)
    <3>1. Len(outCh'[s]) = Len(outCh[s]) + 1
      <4>1. outCh[s] \in Seq(SUBSET Files) /\ changesToSend[s] \in SUBSET Files
        OBVIOUS
      <4> QED
        BY <2>5, <4>1 DEF Send
    <3>2. inFiles(s)' = inFiles(s) /\ edits' = edits
      BY <2>5 DEF Send, inFiles, newest
    <3>3. inPoll(s)' = inPoll(s) - 1
      BY <2>5 DEF Send, inPoll, one
    <3>4. inRun(s)' = inRun(s) + 1
      <4> DEFINE n == Len(outCh[s])
                 a == attempt[s]
                 r == one(run[s] = "replacing")
      <4>1. inRun(s) = n + r + a /\ inRun(s)' = (n + 1) + r + a
        BY <1>2, <3>1 DEF inRun
      <4>2. n \in Nat /\ a \in Nat /\ r \in Nat
        BY <1>1 DEF one
      <4> HIDE DEF n, a, r
      <4> QED
        BY <4>1, <4>2
    <3> QED
      BY <3>2, <3>3, <3>4, CountsAreNat DEF Uses
  <2>6. CASE PollStops(s)
    <3>1. inFiles(s)' = inFiles(s) /\ edits' = edits
      BY <2>6 DEF PollStops, inFiles, newest
    <3>2. inPoll(s)' \in Nat /\ inPoll(s)' <= inPoll(s)
      BY <2>6 DEF PollStops, inPoll, one
    <3>3. inRun(s)' = inRun(s)
      BY <1>2, <2>6 DEF PollStops, inRun
    <3>4. inFiles(s) \in Nat /\ inPoll(s) \in Nat /\ inRun(s) \in Nat /\ edits \in Nat
      BY CountsAreNat
    <3> QED
      BY <3>1, <3>2, <3>3, <3>4 DEF Uses
  <2> QED
    BY <1>5, <2>1, <2>2, <2>3, <2>4, <2>5, <2>6 DEF pollLoop
<1> QED
  BY <1>3, <1>4, <1>5 DEF WatchStep

LEMMA RunUses ==
  ASSUME TypeOK, NEW s \in Sessions, alone(s)', Uses(s), NEW t \in Sessions, RunStep(t)
  PROVE  Uses(s)'
<1> USE DEF TypeOK, WatcherTypes, pollVars, GoTo, Return, frame
<1>1. edits \in Nat /\ Len(outCh[s]) \in Nat /\ attempt[s] \in Nat
  BY WatcherAssumption
<1>2. CASE t # s
  <2>1. run'[s] = run[s] /\ attempt'[s] = attempt[s]
    BY <1>2 DEF RunStep, RunRefused, RunBegin, Run, RunWatches, Launch, LaunchFails,
                StopsWorkload, Drained, SeesChange, Replaces, SeesExit, RunsAgain,
                ReturnsIdle, WorkloadEnds
  <2>2. ~RunWatches(t)
    BY <1>2 DEF RunWatches, StartWatch, alone
  <2>3. outCh'[s] = outCh[s] /\ UNCHANGED <<disk, edits, knownFiles, poll, currentMap, pending>>
    BY <1>2, <2>2, RunWatchFrame DEF SeesChange, RunsAgain, Receive, watchVars
  <2> QED
    BY <2>1, <2>3 DEF Uses, inFiles, inPoll, inRun, newest
<1>3. CASE t = s
  <2>1. CASE RunWatches(s)
    BY <1>1, <2>1 DEF RunWatches, StartWatch, Uses, inFiles, inPoll, inRun, newest, one
  <2>2. CASE SeesChange(s) \/ RunsAgain(s)
    <3>1. Len(outCh'[s]) = Len(outCh[s]) - 1
      <4>1. outCh[s] \in Seq(SUBSET Files)
        OBVIOUS
      <4> QED
        BY <2>2, <4>1 DEF SeesChange, RunsAgain, Receive
    <3>2. UNCHANGED <<disk, edits, knownFiles, poll, currentMap, pending>>
      BY <2>2 DEF SeesChange, RunsAgain, Receive
    <3>3. \/ run'[s] = "replacing" /\ attempt'[s] = attempt[s]
          \/ run'[s] = "top" /\ attempt'[s] = attempt[s] + 1
      BY <2>2 DEF SeesChange, RunsAgain
    <3>4. run[s] # "replacing"
      BY <2>2 DEF SeesChange, RunsAgain
    <3>5. inRun(s)' = inRun(s)
      <4> DEFINE n == Len(outCh[s])
                 a == attempt[s]
      <4>1. inRun(s) = n + 0 + a
        BY <3>4 DEF inRun, one
      <4>2. \/ inRun(s)' = (n - 1) + 1 + a
            \/ inRun(s)' = (n - 1) + 0 + (a + 1)
        BY <3>1, <3>3 DEF inRun, one
      <4>3. n \in Nat /\ a \in Nat
        BY <1>1
      <4> HIDE DEF n, a
      <4> QED
        BY <4>1, <4>2, <4>3
    <3>6. inFiles(s)' = inFiles(s) /\ inPoll(s)' = inPoll(s)
      BY <3>2 DEF inFiles, inPoll, newest
    <3> QED
      BY <3>2, <3>5, <3>6 DEF Uses
  <2>3. CASE Replaces(s)
    BY <1>1, <2>3 DEF Replaces, watchVars, Uses, inFiles, inPoll, inRun, newest, one
  <2>4. CASE UNCHANGED watchVars /\ ~Replaces(s)
    <3>1. attempt'[s] = attempt[s] /\ (run'[s] = "replacing" => run[s] = "replacing")
      BY <1>3, <2>4 DEF RunStep, RunRefused, RunBegin, Run, RunWatches, Launch, LaunchFails,
                StopsWorkload, Drained, SeesChange, SeesExit, RunsAgain,
                ReturnsIdle, WorkloadEnds, Receive, watchVars
    <3> QED
      BY <1>1, <2>4, <3>1 DEF watchVars, Uses, inFiles, inPoll, inRun, newest, one
  <2> QED
    BY <1>3, <2>1, <2>2, <2>3, <2>4, RunWatchFrame DEF Replaces
<1> QED
  BY <1>2, <1>3

LEMMA UsesStep == TypeOK /\ UsesOnce /\ [Next]_vars => UsesOnce'
<1> SUFFICES ASSUME TypeOK, UsesOnce, [Next]_vars, NEW s \in Sessions, alone(s)'
             PROVE  Uses(s)'
  BY DEF UsesOnce
<1>1. alone(s) /\ Uses(s)
  BY AloneBefore DEF UsesOnce
<1>2. CASE UNCHANGED vars
  BY <1>1, <1>2
  DEF vars, watchVars, pollVars, runVars, Uses, inFiles, inPoll, inRun, newest
<1> QED
  BY <1>1, <1>2, WatchUses, RunUses DEF Next, RunStep

(* A first Run launches its workload again at most once for every change   *)
(* of the files, however the scans and the debounce fall between them.     *)
THEOREM RestartsNeedChanges == SafeSpec => []RestartsAreChanges
<1>1. TypeOK /\ UsesOnce => RestartsAreChanges
  <2> SUFFICES ASSUME TypeOK, UsesOnce, NEW s \in Sessions, alone(s)
               PROVE  attempt[s] - 1 <= edits
    BY DEF RestartsAreChanges
  <2>1. inFiles(s) + inPoll(s) + inRun(s) - 1 <= edits
    BY DEF UsesOnce, Uses
  <2> QED
    BY <2>1, CountsAreNat
<1> QED
  BY TypeInit, TypeStep, UsesInit, UsesStep, <1>1, PTL DEF SafeSpec

=============================================================================
