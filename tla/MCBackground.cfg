SPECIFICATION BackgroundSpec
CONSTANTS
  Focuses = {"files", "nodes", "update", "helper", "subscription", "feedback", "routing"}
  Default = Default
  Missing = Missing
  NoOne = NoOne
  Commands = {c1, c2}
  Queries = {q1}
  Contents = {Default, v1}
  Nodes = {"n1", "n2", "DIRECT", "missing"}
  Groups = {"GLOBAL", "group", "ai-group"}
  Listings <- NodeListings
  Worlds <- NodeWorlds
  Outcomes = {"Passed"}
  Concurrency = 1
  MaxTests = 2
  Limits <- NodeLimits
  Readers = {r1}
  Admin = Admin
  MaxEpoch = 2
  MaxFlights = 2
  MaxResets = 2
  Urls = {"u1", "u2"}
  Bodies = {"b1", "b2"}
  MaxClock = 3
  Together <- Teams
  MaxOps = 3
  MaxConf = 1
  MaxRun = 2
  MaxChanges = 3
  MaxRoutes = 1
INVARIANTS
  BackgroundTypeOK
  LatestIsThere
  TestsAreHonest
  UpdateIsSafe
  CommitsAreClean
  RoutesAreTrue
PROPERTIES
  StaleTestEnds
  LateAnswersAreDropped
  CheckingEnds
CHECK_DEADLOCK FALSE
