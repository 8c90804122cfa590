SPECIFICATION SpecOfEither
CONSTANTS
  Contacts = {c1, c2}
  Sessions = {s1, s2, s3}
  None = None
  Pending = Pending
  BackendOf <- MCClaude
  BackendOfSession <- MCClaudeSessions
  MaxLaunches = 3
INVARIANTS ExclusiveClaims PersistedMatches ClaimsInv
PROPERTY ImplementsContactBook
SYMMETRY Symmetric
