SPECIFICATION Spec
CONSTANTS
  Agents = {a1}
  Main = Main
  Mcp = Mcp
  GiveUpChecks = 1
  MissingPolls = 1
  MaxTurns = 2
  MaxPosts = 2
INVARIANT DialogStaysReported
CHECK_DEADLOCK FALSE
