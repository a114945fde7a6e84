CONSTANTS
  NumCpu = 2
  Procs = {1, 2}
  Program <- ReportedPrograms
  Priority <- NoPriority
  TickDelay = 0
  Policy = "FCFS"
  PolicyChoices = {}
  QuantumCycles = 1
  MaxCount = 4
  SnapshotCooldown = 2
  MaxTick = 3
  MaxSubmitTick = 1
  NoProc = NoProc
  MaxReports = 2
SPECIFICATION ReportSpec
INVARIANTS ReportTypeOK OverlookedInHand LogIsComplete
PROPERTY UtilizationNeverRises
