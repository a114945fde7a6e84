CONSTANTS
  FirstUserPid = 2
  MaxInits = 2
  StopFirst = TRUE
  MaxGenerated = 2
  MaxUser = 2
  MaxTick = 2
  UserNames <- PlainNames
SPECIFICATION FairSpec
INVARIANTS TypeOK LifetimesAreRespected GeneratedInOrder IdsDiffer ScreenShowsFirst FoundByName NumberedInOrder ListedOnce
PROPERTIES StopMeansStopped ImplementsFinishedMap ExitEnds
