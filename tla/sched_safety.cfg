CONSTANTS
  NumCpu = 2
  Procs = {1, 2, 3}
  Program <- MixedPrograms
  Priority <- MixedPriority
  TickDelay = 0
  Policy = "RR"
  PolicyChoices = {"PRIORITY"}
  QuantumCycles = 1
  MaxCount = 4
  SnapshotCooldown = 4
  MaxTick = 6
  MaxSubmitTick = 1
  NoProc = NoProc
SPECIFICATION Spec
INVARIANTS TypeOK Lockstep WorkerOwnsProcess Conservation StateMatchesPlace NoLateWakeup WorkConserving
PROPERTY ImplementsLifecycle
