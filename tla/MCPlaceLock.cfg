CONSTANTS
  Hosts = {h1, h2}
  Nobody = Nobody
  Elsewhere = Elsewhere
  MaxThreads = 2
  Wishes = {"None", h1}
  MaxNotes = 1
  Notes = {"EXTENDED"}
SPECIFICATION Spec
INVARIANTS OneProcess ReleaseStops OwnOutcome
PROPERTIES RightPlace EveryPlaceCallEnds
CHECK_DEADLOCK FALSE
