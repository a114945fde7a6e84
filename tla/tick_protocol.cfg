CONSTANTS
  NumCpu = 2
  Commands = {"pause", "resume", "stop"}
  MaxStarts = 2
  TickMod = 2
SPECIFICATION FairSpec
INVARIANTS TypeOK Lockstep PauseStopsTicks StopStopsTicks NoLostWakeup StopLeavesNobodyWaiting
PROPERTY TicksForever
CHECK_DEADLOCK FALSE
