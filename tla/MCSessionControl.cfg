SPECIFICATION FairSpec
CONSTANTS
  Commands = {c1, c2}
  Restorer = Restorer
  NoOne = NoOne
  MaxGen = 3
  MaxLaunches = 2
INVARIANTS
  CleanMeansReleased
  StopIsFinal
  RunningIsIntended
  NothingAfterCleanup
  TunHasNoProxy
PROPERTIES
  RestoreHonoursIntent
  ManualReturns
CHECK_DEADLOCK FALSE
