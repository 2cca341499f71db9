SPECIFICATION Spec
CONSTANTS
  trexec = trexec
  leader = leader
  worker = worker
  orphan = orphan
  setuid = setuid
  out = out
  err = err
  main = main
  other = other
  NoPid = NoPid
  Foreign = Foreign
  Procs = {leader, orphan}
  Leader = leader
  Privileged = {}
  Streams = {out}
  Holders <- AllHolders
  MaxChunks = 1
  PipeCap = 1
  Callers = {main}
  Parent = trexec
  ZeroGrace = FALSE
  GracefulSignal = "polite"
  StdinOption = "reader"
  EarlyWait = FALSE
  PidReuse = FALSE
PROPERTIES CancelledWaitReturns ExitedWaitReturns FailedStartEndsCopiers
