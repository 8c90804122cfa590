SPECIFICATION FairSpec
CONSTANTS
  Backends = {"claude", "opencode"}
  MaxRecords = 2
  MaxCalls = 2
  MaxStops = 2
  MaxSeq = 2
  MaxTurns = 2
  MaxModes = 2
  Budgets <- MCBudgets
  None = None
INVARIANTS RepliesAreMeant CardIsTrue BriefsFollowEvents
PROPERTIES KeysStayTogether StopHitsItsTurn NothingHangs
CHECK_DEADLOCK FALSE
