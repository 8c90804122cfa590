SPECIFICATION Spec
CONSTANTS
  own = own
  sub = sub
  alien = alien
  Root = Root
  Unknown = Unknown
  Home = Home
  Nil = Nil
  Gone = Gone
  Pends = Pends
  Phones = {"p1"}
  MaxCodes = 2
  MaxSockets = 2
  PairBudgets <- PairingBudgets
  Dialogs = {d1, d2}
  MaxEvents = 3
  MaxTurns = 2
  MaxModes = 1
  MaxBuilds = 3
  OpenBudgets <- AppBudgets
  Paths = {p1, p2}
  Requests = {r1, r2}
  MaxOthers = 2
  Names <- FileNames
  Drops = {d1, d2}
  MAX_DROP_FILES = 2
  MAX_NUMBER = 2
  MaxChanges = 1
  Addresses <- SpeechAddresses
  Nowhere = "nowhere"
  ServerBudgets <- SpeechBudgets
  Roster = {1, 2}
  ShownFirst = 1
  Folders = {"f"}
  MAX_NOTICES = 1
  MaxDrops = 2
INVARIANTS AttentionCatchesUp SubscriptionsAgree BarIsTrue ScreenIsTrue
  PairingsHold AnswersHold PushesFollowEvents FilesKept
  AskedAsShown BadgesAreOwed DropsEndWell KeyStaysHome HeardAsTapped JumpsAreWelcome
  TailnetHolds ReportsHold AppOpens StartedAsMeant
CHECK_DEADLOCK FALSE
