CONSTANTS
  NumCpu = 2
  Procs = {1, 2, 3}
  Program <- MixedPrograms
  Priority <- MixedPriority
  TickDelay = 0
  Policy = "RR"
  PolicyChoices = {}
  QuantumCycles = 1
  MaxCount = 4
  SnapshotCooldown = 1
  MaxTick = 5
  MaxSubmitTick = 1
  NoProc = NoProc
SPECIFICATION Spec
INVARIANT SnapshotIsSafe
