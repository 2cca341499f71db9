SPECIFICATION SafeSpec
CONSTANTS
  trexec = trexec
  leader = leader
  worker = worker
  orphan = orphan
  setuid = setuid
  out = out
  err = err
  main = main
  other = other
  NoPid = NoPid
  Foreign = Foreign
  Procs = {leader, setuid}
  Leader = leader
  Privileged = {setuid}
  Streams = {}
  Holders <- AllHolders
  MaxChunks = 1
  PipeCap = 1
  Callers = {main, other}
  Parent = trexec
  ZeroGrace = TRUE
  GracefulSignal = "polite"
  StdinOption = "none"
  EarlyWait = TRUE
  PidReuse = TRUE
INVARIANTS OneLifecycleOwner OnlyCancelSignals
CHECK_DEADLOCK FALSE
