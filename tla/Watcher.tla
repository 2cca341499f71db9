------------------------------ MODULE Watcher -------------------------------
(***************************************************************************)
(* watcher.go: the pollLoop goroutines that Start leaves behind, one for   *)
(* each session (a call of Start with its context).  All of them share     *)
(* knownFiles.  A file is its modification stamp, 0 when it is absent; a   *)
(* batch of changed paths is a set, the order and the doubles are dropped. *)
(*                                                                         *)
(* A scan reads the files at one moment: the code compares them one by one *)
(* and never with each other.  The filters of scan choose Files.  Every    *)
(* write gives a stamp of its own: the file system's clock is fine enough  *)
(* to tell two versions of a file apart.  Timers have no length: a         *)
(* debounce may fire at any time after it is armed.                        *)
(***************************************************************************)
EXTENDS Naturals, Sequences

CONSTANTS
  Sessions,        \* calls of Start
  Files,           \* the paths scan looks at
  MaxEdits,        \* bound: changes made to the files
  ChanCap          \* capacity of the channel (16)

ASSUME WatcherAssumption == MaxEdits \in Nat /\ ChanCap \in Nat \ {0}

VARIABLES
  disk,            \* the files
  edits,           \* changes made so far
  fleeting,        \* absent files that came and went between two scans
  knownFiles,      \* w.knownFiles
  ctxDone,         \* sessions whose context is cancelled
  poll,            \* where each pollLoop is
  currentMap,      \* its last scan
  pending,         \* pendingChanges
  armed,           \* sessions whose debounceTimer is set
  changesToSend,
  outCh            \* the channel of each session

pollVars  == <<poll, currentMap, pending, armed, changesToSend>>
watchVars == <<disk, edits, fleeting, knownFiles, ctxDone, pollVars, outCh>>

Trees   == [Files -> 0..MaxEdits]
NoFiles == [f \in Files |-> 0]

WatcherTypes ==
  /\ disk \in Trees /\ knownFiles \in Trees
  /\ edits \in 0..MaxEdits /\ fleeting \subseteq Files
  /\ ctxDone \subseteq Sessions /\ armed \subseteq Sessions
  /\ poll \in [Sessions -> {"off", "select", "scanned", "sending", "closed"}]
  /\ currentMap \in [Sessions -> Trees]
  /\ pending \in [Sessions -> SUBSET Files]
  /\ changesToSend \in [Sessions -> SUBSET Files]
  /\ outCh \in [Sessions -> Seq(SUBSET Files)]
  /\ \A s \in Sessions : Len(outCh[s]) <= ChanCap

WatcherInit ==
  /\ disk = NoFiles /\ edits = 0 /\ fleeting = {} /\ knownFiles = NoFiles
  /\ ctxDone = {} /\ armed = {}
  /\ poll = [s \in Sessions |-> "off"]
  /\ currentMap = [s \in Sessions |-> NoFiles]
  /\ pending = [s \in Sessions |-> {}]
  /\ changesToSend = [s \in Sessions |-> {}]
  /\ outCh = [s \in Sessions |-> <<>>]

-----------------------------------------------------------------------------
(* Somebody creates or writes a file, or removes it.                       *)
Write(f) ==
  /\ edits < MaxEdits
  /\ edits' = edits + 1
  /\ disk' = [disk EXCEPT ![f] = edits + 1]
  /\ fleeting' = fleeting \ {f}
  /\ UNCHANGED <<knownFiles, ctxDone, pollVars, outCh>>

(* The last scan found f, in whatever version.                             *)
scanned(f) ==
  \/ knownFiles[f] # 0
  \/ \E s \in Sessions : poll[s] = "scanned" /\ currentMap[s][f] # 0

Remove(f) ==
  /\ edits < MaxEdits /\ disk[f] # 0
  /\ edits' = edits + 1
  /\ disk' = [disk EXCEPT ![f] = 0]
  /\ fleeting' = IF scanned(f) THEN fleeting ELSE fleeting \cup {f}
  /\ UNCHANGED <<knownFiles, ctxDone, pollVars, outCh>>

CancelSession(s) ==
  /\ s \notin ctxDone /\ poll[s] # "off"
  /\ ctxDone' = ctxDone \cup {s}
  /\ UNCHANGED <<disk, edits, fleeting, knownFiles, pollVars, outCh>>

(* Start: the baseline is taken under the lock.                            *)
StartWatch(s) ==
  /\ poll[s] = "off"
  /\ knownFiles' = disk
  /\ poll' = [poll EXCEPT ![s] = "select"]
  /\ UNCHANGED <<disk, edits, fleeting, ctxDone, currentMap, pending, armed,
                 changesToSend, outCh>>

(* The ticker: the files are scanned without the lock.                     *)
scan(s) ==
  /\ poll[s] = "select"
  /\ currentMap' = [currentMap EXCEPT ![s] = disk]
  /\ poll' = [poll EXCEPT ![s] = "scanned"]
  /\ UNCHANGED <<disk, edits, fleeting, knownFiles, ctxDone, pending, armed,
                 changesToSend, outCh>>

(* Mutant of detectDiff: files that are gone are not looked for.           *)
detectPresent(old, new) == {f \in Files : new[f] # 0 /\ old[f] # new[f]}

detectDiff(old, new) == {f \in Files : old[f] # new[f]}

(* The comparison with knownFiles, under the lock.                         *)
Compare(s) ==
  LET changed == detectDiff(knownFiles, currentMap[s]) IN
  /\ poll[s] = "scanned"
  /\ knownFiles' = currentMap[s]
  /\ pending' = [pending EXCEPT ![s] = @ \cup changed]
  /\ armed' = IF changed = {} THEN armed ELSE armed \cup {s}
  /\ poll' = [poll EXCEPT ![s] = "select"]
  /\ UNCHANGED <<disk, edits, fleeting, ctxDone, currentMap, changesToSend, outCh>>

(* Mutant of DebounceFires: the pending changes are not cleared.           *)
DebounceKeeps(s) ==
  /\ poll[s] = "select" /\ s \in armed
  /\ changesToSend' = [changesToSend EXCEPT ![s] = pending[s]]
  /\ poll' = [poll EXCEPT ![s] = IF pending[s] = {} THEN "select" ELSE "sending"]
  /\ UNCHANGED <<disk, edits, fleeting, knownFiles, ctxDone, currentMap, pending, armed,
                 outCh>>

DebounceFires(s) ==
  /\ poll[s] = "select" /\ s \in armed
  /\ changesToSend' = [changesToSend EXCEPT ![s] = pending[s]]
  /\ pending' = [pending EXCEPT ![s] = {}]
  /\ armed' = armed \ {s}
  /\ poll' = [poll EXCEPT ![s] = IF pending[s] = {} THEN "select" ELSE "sending"]
  /\ UNCHANGED <<disk, edits, fleeting, knownFiles, ctxDone, currentMap, outCh>>

(* Mutant of Send: the channel takes any number of batches.                *)
SendUnbounded(s) ==
  /\ poll[s] = "sending"
  /\ outCh' = [outCh EXCEPT ![s] = Append(@, changesToSend[s])]
  /\ changesToSend' = [changesToSend EXCEPT ![s] = {}]
  /\ poll' = [poll EXCEPT ![s] = "select"]
  /\ UNCHANGED <<disk, edits, fleeting, knownFiles, ctxDone, currentMap, pending,
                 armed>>

Send(s) ==
  /\ poll[s] = "sending" /\ Len(outCh[s]) < ChanCap
  /\ outCh' = [outCh EXCEPT ![s] = Append(@, changesToSend[s])]
  /\ changesToSend' = [changesToSend EXCEPT ![s] = {}]
  /\ poll' = [poll EXCEPT ![s] = "select"]
  /\ UNCHANGED <<disk, edits, fleeting, knownFiles, ctxDone, currentMap, pending, armed>>

(* ctx.Done in either select; the deferred close ends the channel.         *)
PollStops(s) ==
  /\ poll[s] \in {"select", "sending"} /\ s \in ctxDone
  /\ poll' = [poll EXCEPT ![s] = "closed"]
  /\ UNCHANGED <<disk, edits, fleeting, knownFiles, ctxDone, currentMap, pending, armed,
                 changesToSend, outCh>>

pollLoop(s) ==
  scan(s) \/ Compare(s) \/ DebounceFires(s) \/ Send(s) \/ PollStops(s)

(* The receiver's side of the channel.                                     *)
Closed(s) == poll[s] = "closed" /\ outCh[s] = <<>>

Receive(s) ==
  /\ outCh[s] # <<>>
  /\ outCh' = [outCh EXCEPT ![s] = Tail(@)]
  /\ UNCHANGED <<disk, edits, fleeting, knownFiles, ctxDone, pollVars>>

(* Changes seen by a scan of s and not yet received.                       *)
underway(s) ==
  {f \in Files : poll[s] = "scanned" /\ currentMap[s][f] # knownFiles[f]}
  \cup pending[s] \cup changesToSend[s] \cup UNION {outCh[s][i] : i \in DOMAIN outCh[s]}
=============================================================================
