SPECIFICATION Spec
CONSTANTS
  leader = leader
  worker = worker
  helper = helper
  late = late
  Procs = {leader, worker, helper, late}
  Leader = leader
  Limits = {"active"}
  MaxProcesses = 2
  GracefulSignal = "kill"
SYMMETRY Descendants
INVARIANTS OutsidersBrokeAway ListedAreKilled CloseEmptiesJob FailedStartLeavesNobody
