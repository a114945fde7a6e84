CONSTANTS
  NumCpu = 1
  Procs = {1, 2, 3}
  Program <- MixedPrograms
  Priority <- MixedPriority
  TickDelay = 1
  Policy = "RR"
  PolicyChoices = {}
  QuantumCycles = 0
  MaxCount = 2
  SnapshotCooldown = 100
  MaxTick = 16
  MaxSubmitTick = 3
  NoProc = NoProc
SPECIFICATION FairSpec
PROPERTY EventuallyFinished
