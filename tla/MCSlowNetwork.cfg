SPECIFICATION Spec
CONSTANTS
  Commands = {c1}
  Restorer = Restorer
  NoOne = NoOne
  MaxGen = 3
  MaxLaunches = 2
INVARIANTS
  SlowNetworkIsRetried
CHECK_DEADLOCK FALSE
