SPECIFICATION Spec
CONSTANTS
  c1 = c1
  c2 = c2
  q1 = q1
  v1 = v1
  v2 = v2
  Default = Default
  Missing = Missing
  NoOne = NoOne
  Commands <- MCCommands
  Queries <- MCQueries
  Contents <- MCContents
INVARIANTS
  SettingsAreKept
