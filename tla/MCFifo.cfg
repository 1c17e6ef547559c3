CONSTANTS
  Size = 4
  Data = {0, 1}
  Zero = 0
SPECIFICATION FwftSpec
INVARIANTS FlagsSafe
PROPERTIES IsFifo IsShowAheadFifo NothingLeavesUnacked FallsThrough
