SPECIFICATION TSpec
CONSTANTS
  trexec = trexec
  leader = leader
  main = main
  NoPid = NoPid
  Foreign = Foreign
  Procs = {leader}
  Leader = leader
  Privileged = {}
  Streams = {}
  Holders <- AllHolders
  MaxChunks = 1
  PipeCap = 1
  Callers = {main}
  Parent = trexec
  ZeroGrace = FALSE
  GracefulSignal = "polite"
  StdinOption = "file"
  EarlyWait = FALSE
  PidReuse = FALSE
INVARIANTS EventsAreALifecycle DoneSnapshotIsLast
PROPERTIES SnapshotsInOrder DoneIsReported PollerEnds
