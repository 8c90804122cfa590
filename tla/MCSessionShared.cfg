SPECIFICATION SpecUnpicked
CONSTANTS
  Contacts = {c1, c2}
  Sessions = {s1, s2}
  None = None
  Pending = Pending
  BackendOf <- MCClaude
  BackendOfSession <- MCClaudeSessions
  MaxLaunches = 2
INVARIANT NoSharedConversation
