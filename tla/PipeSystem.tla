----------------------------- MODULE PipeSystem -----------------------------
(***************************************************************************)
(* The pipe manager and what it needs of its environment: Start opens the  *)
(* streams, the write ends spread over descendants and are released in any *)
(* order or never, the caller's writers may fail, the force kill may close *)
(* the read ends, and Wait waits for the copies once.  Runner.tla is one   *)
(* such environment (its ImplementsPipeSystem).                            *)
(***************************************************************************)
EXTENDS PipeManager

CONSTANT
  Opener           \* the process of the library

ASSUME OpenerAssumption == Opener \in Holders

Handed == \A s \in Streams : copier[s] # "none" /\ Opener \notin holders[s]

Opened == {s \in Streams : copier[s] # "none"}

OpenStream(s) ==
  /\ pmwait = "idle" /\ \A t \in Opened : holders[t] = {Opener}
  /\ startCopy(s, Opener)

(* The command is started and inherits every write end.                    *)
Spawn(h) ==
  /\ h # Opener
  /\ \A s \in Streams : copier[s] # "none" /\ holders[s] = {Opener}
  /\ holders' = Inherited(Opener, h)
  /\ UNCHANGED <<copier, rdOpen, inPipe, sent, got, copyErr, pmwait>>

Fork(p, q) ==
  /\ Opener \notin {p, q}
  /\ \E s \in Streams : p \in holders[s] /\ q \notin holders[s]
  /\ holders' = Inherited(p, q)
  /\ UNCHANGED <<copier, rdOpen, inPipe, sent, got, copyErr, pmwait>>

(* A descendant exits, or Start returns or fails.                          *)
Release(p) ==
  /\ \E s \in Streams : p \in holders[s]
  /\ holders' = Released(p)
  /\ UNCHANGED <<copier, rdOpen, inPipe, sent, got, copyErr, pmwait>>

(* A descendant closes or redirects one output of its own.                 *)
Drop(h, s) ==
  /\ h # Opener /\ h \in holders[s]
  /\ holders' = [holders EXCEPT ![s] = @ \ {h}]
  /\ UNCHANGED <<copier, rdOpen, inPipe, sent, got, copyErr, pmwait>>

Write(h, s) == h # Opener /\ WriteChunk(h, s)

(* The deadline of the force kill, which runs before Wait comes here.      *)
ForceClose ==
  /\ Handed /\ pmwait = "idle"
  /\ forceClose
  /\ UNCHANGED <<copier, holders, inPipe, sent, got, copyErr, pmwait>>

Wait == Handed /\ WaitPipes

(* wait has returned, or Start failed before all streams were open.        *)
AllFinal ==
  /\ \/ pmwait \in {"completed", "timedout"}
     \/ Opened # Streams /\ \E s \in Opened : Opener \notin holders[s]
  /\ UNCHANGED pipeVars

Next ==
  \/ \E s \in Streams : OpenStream(s) \/ CopyStep(s)
  \/ \E h \in Holders : Spawn(h) \/ Release(h)
  \/ \E p, q \in Holders : Fork(p, q)
  \/ \E h \in Holders, s \in Streams : Drop(h, s) \/ Write(h, s)
  \/ ForceClose
  \/ Wait
  \/ WaitPipesStep
  \/ AllFinal

Init == PipesInit

(* The Go scheduler runs every runnable goroutine and every timer fires.   *)
(* Nothing is assumed of the descendants.                                  *)
GoFair == /\ \A s \in Streams : WF_pipeVars(CopyReadStep(s))
          /\ WF_pipeVars(WaitPipesStep)

(* The caller's writers return, as those of the tests and examples do.     *)
WriterFair == \A s \in Streams : WF_pipeVars(CopyWrote(s) \/ CopyWriteFails(s))

SafeSpec == Init /\ [][Next]_pipeVars

Spec == SafeSpec /\ GoFair /\ WriterFair

-----------------------------------------------------------------------------
TypeOK == PipesTypeOK

(* wait returns true only when the output is complete: no holder can write *)
(* any more, and the caller has everything.  Excepted are a writer of the  *)
(* caller that failed and read ends that were closed before the wait       *)
(* (pipe.go:56-77, runner.go:339, 381).                                    *)
TrueMeansComplete ==
  pmwait = "completed" =>
    \A s \in Streams :
      \/ copyErr[s] = "write" \/ ~rdOpen[s]
      \/ holders[s] = {} /\ got[s] = sent[s]

(* A descendant blocked on a full pipe is let go: the copier drains the    *)
(* pipe while its read end is open, until the caller's writer fails        *)
(* (pipe.go:43-51).                                                        *)
FullPipeDrains ==
  \A s \in Streams :
    (inPipe[s] = PipeCap /\ holders[s] # {})
      ~> (inPipe[s] < PipeCap \/ ~rdOpen[s] \/ copyErr[s] = "write")

=============================================================================
