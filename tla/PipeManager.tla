---------------------------- MODULE PipeManager ----------------------------
(***************************************************************************)
(* pipe.go: the goroutines that copy the command's output into the         *)
(* caller's writers, and the bounded wait for them.                        *)
(*                                                                         *)
(* Data is counted in chunks: a chunk is what one Read of io.Copy returns. *)
(* The write end of a stream's pipe is held open by a set of holders: the  *)
(* process of the library until Start returns, then the command and every  *)
(* descendant that inherited it.  End of file comes when nobody holds it.  *)
(***************************************************************************)
EXTENDS Naturals, FiniteSets

CONSTANTS
  Streams,         \* the streams with a writer: stdout, stderr
  Holders,         \* who may hold a write end
  MaxChunks,       \* bound: chunks written to one stream
  PipeCap          \* chunks the kernel buffers in one pipe

ASSUME PipeAssumption ==
  /\ IsFiniteSet(Streams)
  /\ IsFiniteSet(Holders)
  /\ MaxChunks \in Nat
  /\ PipeCap \in Nat \ {0}

VARIABLES
  copier,          \* the io.Copy goroutine of each stream
  rdOpen,          \* is the read end, pm.pipes[s], open?
  holders,         \* who holds the write end open
  inPipe,          \* chunks in the kernel's buffer
  sent,            \* chunks written to the pipe so far
  got,             \* chunks the caller's writer accepted
  copyErr,         \* the error of the copy that pm.errors collects
  pmwait           \* progress of pm.wait

pipeVars  == <<copier, rdOpen, holders, inPipe, sent, got, copyErr, pmwait>>

CopierStates == {"none", "reading", "writing", "done"}
WaitStates   == {"idle", "waiting", "forced", "completed", "timedout"}

PipesTypeOK ==
  /\ copier \in [Streams -> CopierStates]
  /\ rdOpen \in [Streams -> BOOLEAN]
  /\ holders \in [Streams -> SUBSET Holders]
  /\ inPipe \in [Streams -> Nat]
  /\ sent \in [Streams -> Nat]
  /\ got \in [Streams -> Nat]
  /\ copyErr \in [Streams -> {"none", "write", "closed"}]
  /\ pmwait \in WaitStates

PipesInit ==
  /\ copier = [s \in Streams |-> "none"]
  /\ rdOpen = [s \in Streams |-> FALSE]
  /\ holders = [s \in Streams |-> {}]
  /\ inPipe = [s \in Streams |-> 0]
  /\ sent = [s \in Streams |-> 0]
  /\ got = [s \in Streams |-> 0]
  /\ copyErr = [s \in Streams |-> "none"]
  /\ pmwait = "idle"

-----------------------------------------------------------------------------
(***************************************************************************)
(* startCopy, with the os.Pipe that Start makes for it: h, the caller of   *)
(* Start, holds the write end.                                             *)
(***************************************************************************)
startCopy(s, h) ==
  /\ copier[s] = "none"
  /\ copier' = [copier EXCEPT ![s] = "reading"]
  /\ rdOpen' = [rdOpen EXCEPT ![s] = TRUE]
  /\ holders' = [holders EXCEPT ![s] = {h}]
  /\ UNCHANGED <<inPipe, sent, got, copyErr, pmwait>>

(* A holder writes a chunk.  It blocks while the pipe is full; without a   *)
(* reader the write fails and nothing is sent.                             *)
WriteChunk(h, s) ==
  /\ h \in holders[s] /\ rdOpen[s]
  /\ inPipe[s] < PipeCap /\ sent[s] < MaxChunks
  /\ inPipe' = [inPipe EXCEPT ![s] = @ + 1]
  /\ sent' = [sent EXCEPT ![s] = @ + 1]
  /\ UNCHANGED <<copier, rdOpen, holders, got, copyErr, pmwait>>

(* What fork and exit do to the write ends.                                *)
Inherited(p, q) ==
  [s \in Streams |-> IF p \in holders[s] THEN holders[s] \cup {q} ELSE holders[s]]

Released(p) == [s \in Streams |-> holders[s] \ {p}]

-----------------------------------------------------------------------------
(***************************************************************************)
(* io.Copy(dst, src): read a chunk, hand it to dst.Write, and again, until *)
(* end of file (no error) or an error of either side.  A copy that fails   *)
(* does not close the read end.                                            *)
(***************************************************************************)
CopyRead(s) ==
  /\ copier[s] = "reading" /\ rdOpen[s] /\ inPipe[s] > 0
  /\ inPipe' = [inPipe EXCEPT ![s] = @ - 1]
  /\ copier' = [copier EXCEPT ![s] = "writing"]
  /\ UNCHANGED <<rdOpen, holders, sent, got, copyErr, pmwait>>

(* Mutant of CopyWrote: one chunk is copied, not all.                      *)
CopyWroteOnce(s) ==
  /\ copier[s] = "writing"
  /\ got' = [got EXCEPT ![s] = @ + 1]
  /\ copier' = [copier EXCEPT ![s] = "done"]
  /\ UNCHANGED <<rdOpen, holders, inPipe, sent, copyErr, pmwait>>

CopyWrote(s) ==
  /\ copier[s] = "writing"
  /\ got' = [got EXCEPT ![s] = @ + 1]
  /\ copier' = [copier EXCEPT ![s] = "reading"]
  /\ UNCHANGED <<rdOpen, holders, inPipe, sent, copyErr, pmwait>>

CopyEnds(s, err) ==
  /\ copier' = [copier EXCEPT ![s] = "done"]
  /\ copyErr' = [copyErr EXCEPT ![s] = err]
  /\ UNCHANGED <<rdOpen, holders, inPipe, sent, got, pmwait>>

CopyWriteFails(s) == copier[s] = "writing" /\ CopyEnds(s, "write")

CopyEOF(s) ==
  /\ copier[s] = "reading" /\ rdOpen[s] /\ inPipe[s] = 0 /\ holders[s] = {}
  /\ CopyEnds(s, "none")

CopyReadFails(s) ==
  /\ copier[s] = "reading" /\ ~rdOpen[s]
  /\ CopyEnds(s, "closed")

(* Every step of the goroutine, whose writer returns or does not.          *)
CopyStep(s) ==
  CopyRead(s) \/ CopyWrote(s) \/ CopyWriteFails(s) \/ CopyEOF(s) \/ CopyReadFails(s)

(* The steps that do not depend on the caller's writer.                    *)
CopyReadStep(s) == CopyRead(s) \/ CopyEOF(s) \/ CopyReadFails(s)

-----------------------------------------------------------------------------
(* Mutant of AllCopied: pm.wg counts one copier for all streams.           *)
AnyCopied == \E s \in Streams : copier[s] \in {"none", "done"}

AllCopied == \A s \in Streams : copier[s] \in {"none", "done"}   \* pm.wg is zero

(* The kernel drops what is in the pipes; inPipe keeps its last value.     *)
forceClose == rdOpen' = [s \in Streams |-> FALSE]

(***************************************************************************)
(* wait(timeout): both cases of the select may be ready, and the timer may *)
(* fire at any moment.  After a forced close the wait has no bound.        *)
(***************************************************************************)
WaitPipes ==
  /\ pmwait = "idle"
  /\ pmwait' = "waiting"
  /\ UNCHANGED <<copier, rdOpen, holders, inPipe, sent, got, copyErr>>

WaitCompletes ==
  /\ pmwait = "waiting" /\ AllCopied
  /\ pmwait' = "completed"
  /\ UNCHANGED <<copier, rdOpen, holders, inPipe, sent, got, copyErr>>

(* Mutant of WaitTimesOut: the pipes are not closed.                       *)
WaitTimesOutOpen ==
  /\ pmwait = "waiting"
  /\ pmwait' = "forced"
  /\ UNCHANGED <<copier, rdOpen, holders, inPipe, sent, got, copyErr>>

WaitTimesOut ==
  /\ pmwait = "waiting"
  /\ forceClose
  /\ pmwait' = "forced"
  /\ UNCHANGED <<copier, holders, inPipe, sent, got, copyErr>>

(* Mutant of WaitAfterClose: it returns right after the close.             *)
WaitAfterCloseAtOnce ==
  /\ pmwait = "forced"
  /\ pmwait' = "timedout"
  /\ UNCHANGED <<copier, rdOpen, holders, inPipe, sent, got, copyErr>>

WaitAfterClose ==
  /\ pmwait = "forced" /\ AllCopied
  /\ pmwait' = "timedout"
  /\ UNCHANGED <<copier, rdOpen, holders, inPipe, sent, got, copyErr>>

WaitPipesStep == WaitCompletes \/ WaitTimesOut \/ WaitAfterClose

=============================================================================
