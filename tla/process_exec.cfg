CONSTANTS
  Programs <- ShortPrograms
  DelayChoices = {0, 2}
  LongLongMax = 99999
  UlongMax = 63
  SleepWidth = 8
SPECIFICATION Spec
INVARIANTS TypeOK ComputesItsProgram CallsAreAccountedFor ReportedAsRun
