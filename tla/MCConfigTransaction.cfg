SPECIFICATION Spec
CONSTANTS
  p1 = p1
  p2 = p2
  Profiles <- MCProfiles
  NoProfile = NoProfile
  MaxVersion = 2
SYMMETRY
  Interchangeable
INVARIANTS
  SelectionIsWhole
  CoreRunsSelection
  AnswersAreTrue
