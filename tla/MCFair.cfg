SPECIFICATION PartsSpec
CONSTANTS
  Agents = {a1, a2}
  a1 = a1
  Main = Main
  Mcp = Mcp
  GiveUpChecks = 1
  MissingPolls = 1
  MaxTurns = 2
  MaxPosts = 2
  c1 = c1
  c2 = c2
  s1 = s1
  s2 = s2
  None = None
  Pending = Pending
  MaxLaunches = 2
  Listeners = {l1, l2}
  l1 = l1
  Pumps = {p1, p2}
  MaxServices = 2
  MaxOpens = 2
  MaxBreaks = 1
INVARIANTS StreamIsTrue HoldMatchesKnown OneFinishPerTurn
PROPERTIES FinishIsTrue TurnEndReported FollowsProcess ReachesService
