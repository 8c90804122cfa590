SPECIFICATION Spec
CONSTANTS
  own = own
  sub = sub
  alien = alien
  Sessions = {own, sub, alien}
  Dialogs = {1, 2}
  Own = own
  ParentOf <- MCParentOf
  Root = Root
  Unknown = Unknown
  Home = Home
  None = None
  Cleared = Cleared
  Waiting = Waiting
  MaxDepth = 1
  Budgets <- MCOutage
INVARIANT WorkingTrue
CHECK_DEADLOCK FALSE
