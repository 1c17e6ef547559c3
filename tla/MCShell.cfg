\* Two terminals of one user.
SPECIFICATION Spec
CONSTANTS
  s1 = s1
  s2 = s2
  NoOne = NoOne
  Shells <- MCShells
  Options <- MCOptions
INVARIANTS TypeOK EndReleases
PROPERTIES ClientsLeaveTheLock LocksOnce EveryRunStarts EndsWhenAsked LossNoticed
