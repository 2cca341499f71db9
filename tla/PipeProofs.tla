----------------------------- MODULE PipeProofs -----------------------------
(***************************************************************************)
(* Proofs about the pipe manager in PipeSystem, for any streams, holders,  *)
(* bounds and writers: a true result of wait means complete output.        *)
(***************************************************************************)
EXTENDS PipeSystem, TLAPS

(* The life of one copier: it fails at most once, it ends without an error *)
(* only at end of file, and with "closed" only after a forced close.       *)
StreamInv(s) ==
  /\ copier[s] # "done" => copyErr[s] = "none"
  /\ copier[s] = "done" /\ copyErr[s] = "none" => holders[s] = {} /\ inPipe[s] = 0
  /\ copyErr[s] = "closed" => ~rdOpen[s]

(* Where the counters of the model put each chunk.  An account only: what  *)
(* a forced close leaves in a pipe is still counted there, though the      *)
(* kernel drops it.                                                        *)
ChunksConserved ==
  \A s \in Streams :
    sent[s] = got[s] + inPipe[s]
                + (IF copier[s] = "writing" THEN 1 ELSE 0)
                + (IF copyErr[s] = "write" THEN 1 ELSE 0)

(* wait starts after all the copiers and ends after them.                  *)
WaitInv ==
  /\ pmwait # "idle" => \A s \in Streams : copier[s] # "none"
  /\ pmwait \in {"completed", "timedout"} => \A s \in Streams : copier[s] = "done"

PipeInv == /\ TypeOK
           /\ ChunksConserved
           /\ \A s \in Streams : StreamInv(s)
           /\ WaitInv

-----------------------------------------------------------------------------
LEMMA PipeInit == Init => PipeInv
  BY DEF Init, PipesInit, PipeInv, TypeOK, PipesTypeOK, ChunksConserved, StreamInv, WaitInv,
         CopierStates, WaitStates

LEMMA OpenKeeps ==
  ASSUME PipeInv, NEW s \in Streams, OpenStream(s) PROVE PipeInv'
  BY OpenerAssumption
  DEF OpenStream, Opened, startCopy, PipeInv, TypeOK, PipesTypeOK, ChunksConserved, StreamInv, WaitInv,
      CopierStates, WaitStates

LEMMA CopyKeeps ==
  ASSUME PipeInv, NEW s \in Streams, CopyStep(s) PROVE PipeInv'
<1> USE DEF PipeInv, TypeOK, PipesTypeOK, ChunksConserved, StreamInv, WaitInv, CopierStates
<1>1. CASE CopyRead(s)
  BY <1>1 DEF CopyRead
<1>2. CASE CopyWrote(s)
  BY <1>2 DEF CopyWrote
<1>3. CASE CopyWriteFails(s)
  BY <1>3 DEF CopyWriteFails, CopyEnds
<1>4. CASE CopyEOF(s)
  BY <1>4 DEF CopyEOF, CopyEnds
<1>5. CASE CopyReadFails(s)
  BY <1>5 DEF CopyReadFails, CopyEnds
<1> QED BY <1>1, <1>2, <1>3, <1>4, <1>5 DEF CopyStep

(* What the environment does to the write ends.                            *)
LEMMA HoldersKeep ==
  ASSUME PipeInv, NEW p \in Holders, NEW q \in Holders,
         Spawn(q) \/ Fork(p, q) \/ Release(p)
  PROVE  PipeInv'
<1> USE DEF PipeInv, TypeOK, PipesTypeOK, ChunksConserved, StreamInv, WaitInv
<1>1. CASE Spawn(q)
  BY <1>1 DEF Spawn, Inherited
<1>2. CASE Fork(p, q)
  BY <1>2 DEF Fork, Inherited
<1>3. CASE Release(p)
  BY <1>3 DEF Release, Released
<1> QED BY <1>1, <1>2, <1>3

LEMMA WriteKeeps ==
  ASSUME PipeInv, NEW h \in Holders, NEW s \in Streams, Drop(h, s) \/ Write(h, s)
  PROVE  PipeInv'
  BY DEF Drop, Write, WriteChunk, PipeInv, TypeOK, PipesTypeOK, ChunksConserved, StreamInv, WaitInv

LEMMA WaitKeeps == PipeInv /\ (ForceClose \/ Wait \/ WaitPipesStep) => PipeInv'
<1> SUFFICES ASSUME PipeInv, ForceClose \/ Wait \/ WaitPipesStep PROVE PipeInv'
  OBVIOUS
<1> USE DEF PipeInv, TypeOK, PipesTypeOK, ChunksConserved, StreamInv, WaitInv, WaitStates, AllCopied
<1>1. CASE Wait
  BY <1>1 DEF Wait, WaitPipes, Handed
<1>2. CASE WaitCompletes
  BY <1>2 DEF WaitCompletes
<1>3. CASE WaitTimesOut
  BY <1>3 DEF WaitTimesOut, forceClose
<1>4. CASE WaitAfterClose
  BY <1>4 DEF WaitAfterClose
<1>5. CASE ForceClose
  BY <1>5 DEF ForceClose, forceClose
<1> QED BY <1>1, <1>2, <1>3, <1>4, <1>5 DEF WaitPipesStep

LEMMA PipeStutters == PipeInv /\ UNCHANGED pipeVars => PipeInv'
  BY DEF pipeVars, PipeInv, TypeOK, PipesTypeOK, ChunksConserved, StreamInv, WaitInv

(* The types, the account of the chunks, the life of each copier and the   *)
(* order of wait hold together, for any streams, holders and bounds.       *)
THEOREM PipeInvariant == SafeSpec => []PipeInv
<1>1. PipeInv /\ [Next]_pipeVars => PipeInv'
  BY OpenKeeps, CopyKeeps, HoldersKeep, WriteKeeps, WaitKeeps, PipeStutters DEF Next, AllFinal
<1> QED BY <1>1, PipeInit, PTL DEF SafeSpec

-----------------------------------------------------------------------------
(* wait returns true only when the output is complete: a copier that was   *)
(* not cut off ended at end of file or with an error of the writer.        *)
THEOREM TrueIsComplete == SafeSpec => []TrueMeansComplete
<1>1. PipeInv => TrueMeansComplete
  BY DEF PipeInv, TypeOK, PipesTypeOK, StreamInv, WaitInv, ChunksConserved, TrueMeansComplete
<1> QED BY <1>1, PipeInvariant, PTL

=============================================================================
