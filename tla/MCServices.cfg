SPECIFICATION ServicesSpec
CONSTANTS
  Parts = {"profiles", "login", "fetch", "route", "policy", "stability", "ranking",
           "tunstart", "staging", "unixproxy", "corerun", "coreprobe",
           "effective", "programs"}
  Profiles = {p1, p2, p3}
  NoProfile = NoProfile
  TotalTime = 4
  RequestTime = 2
  IdleTime = 1
  MaxHops = 1
  Delays = {0, 1, 5}
  Headers <- UserInfos
  Requests = {t1, t2}
  MaxActive = 1
  MaxRequests = 2
  MaxEdits = 2
  MaxRevision = 2
  MaxConf = 3
  Nodes = {t1, t2}
  Recovery = 1
  MaxChanges = 1
  MaxRounds = 3
  MaxCandidates = 5
  BandwidthCandidates = 4
  SelectedNodes = 3
  LocalTime = 1
  NetTime = 3
  MaxAttempts = 3
  MaxAdapters = 2
  Users = {"u1", "u2"}
  MaxCores = 2
  Protocols = {"http", "https"}
  MaxFaults = 1
  MaxOutside = 1
  MaxRuns = 2
  MaxChecks = 1
  Callers = {t1, t2}
  FlightTime = 1
  ErrorTime = 1
  MaxNow = 1
  MaxUpdates = 1
  Commands = {t1, t2}
  MaxSaves = 1
  MaxProcs = 2
  MaxTries = 2
SYMMETRY
  Interchangeable
INVARIANTS
  SelectionIsHere
  YamlFollowsSelection
  AnswersAreTrue
  ServicesTypeOK
  TakenIsReversible
  RunsAreSound
  ResultsAreSound
PROPERTIES
  ImplementsProfileSet
  StepsAreCareful
CHECK_DEADLOCK FALSE
