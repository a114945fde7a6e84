CONSTANTS
  NumCpu = 1
  Commands = {"pause", "resume"}
  MaxStarts = 1
  TickMod = 2
SPECIFICATION FairSpec
PROPERTY ResumeResumes
CHECK_DEADLOCK FALSE
