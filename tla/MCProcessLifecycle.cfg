SPECIFICATION FairSpec
CONSTANTS
  Workers = {w1, w2}
  Updaters = {u1}
  Enders = {ui}
  NoOne = NoOne
  MaxWaits = 1
  MaxEpoch = 4
INVARIANTS
  ReasonsMatchOwners
PROPERTIES
  NoRevivedWork
  ImplementsGate
  AdmissionReturns
