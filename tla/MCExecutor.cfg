SPECIFICATION Spec
CONSTANTS
  Clients = {c1, c2}
  MaxCalls = 2
  MaxExecutors = 2
  Separator = Separator
  Banner = Banner
  None = None
INVARIANTS OwnResponse PendingOnce
PROPERTIES ResponseFinal WokenOrStranded
CHECK_DEADLOCK FALSE
