SPECIFICATION Spec
CONSTANTS
  MaxRuns = 2
INVARIANTS
  FailuresAreCurrent
PROPERTIES
  HeldRunIsSpared
  OrphansEnd
  LossIsNoticed
