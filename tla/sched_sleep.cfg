CONSTANTS
  NumCpu = 1
  Procs = {1, 2, 3}
  Program <- MixedPrograms
  Priority <- MixedPriority
  TickDelay = 0
  Policy = "FCFS"
  PolicyChoices = {}
  QuantumCycles = 1
  MaxCount = 4
  SnapshotCooldown = 100
  MaxTick = 8
  MaxSubmitTick = 1
  NoProc = NoProc
SPECIFICATION Spec
INVARIANT SleptInFull
