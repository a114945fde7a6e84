CONSTANTS
  NumCpu = 2
  Commands = {"stop"}
  MaxStarts = 1
  TickMod = 2
SPECIFICATION Spec
INVARIANT StopIsSafe
CHECK_DEADLOCK FALSE
