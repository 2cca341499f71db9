SPECIFICATION SafeSpec
CONSTANTS
  trexec = trexec
  leader = leader
  worker = worker
  orphan = orphan
  setuid = setuid
  out = out
  err = err
  main = main
  other = other
  NoPid = NoPid
  Foreign = Foreign
  Procs = {leader, worker}
  Leader = leader
  Privileged = {}
  Streams = {}
  Holders <- AllHolders
  MaxChunks = 1
  PipeCap = 1
  Callers = {main}
  Parent = trexec
  ZeroGrace = FALSE
  GracefulSignal = "polite"
  StdinOption = "file"
  EarlyWait = FALSE
  PidReuse = FALSE
INVARIANT RemainingAreKilled
