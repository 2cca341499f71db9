SPECIFICATION SafeSpec
CONSTANTS
  trexec = trexec
  leader = leader
  worker = worker
  orphan = orphan
  setuid = setuid
  out = out
  err = err
  main = main
  other = other
  NoPid = NoPid
  Foreign = Foreign
  Procs = {leader, worker, orphan}
  Leader = leader
  Privileged = {}
  Streams = {out}
  Holders <- AllHolders
  MaxChunks = 1
  PipeCap = 1
  Callers = {main}
  Parent = trexec
  ZeroGrace = FALSE
  GracefulSignal = "polite"
  StdinOption = "file"
  EarlyWait = FALSE
  PidReuse = FALSE
SYMMETRY Bystanders
INVARIANTS TypeOK ForcedKillReachesAll ResultMatchesExit CompleteOutput
PROPERTIES KillOnlyAfterGrace ImplementsContract ImplementsPipeSystem
