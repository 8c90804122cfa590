SPECIFICATION FairSpec
CONSTANTS
  Prompts = {1, 2}
  Answers = {a1}
  Subs = {s1}
  None = None
  TextOf <- MCSameText
  MaxFrames = 2
  MaxSockets = 2
  MaxUpsets = 1
  MaxItems = 1
  AcksKept = 2
INVARIANTS OncePerRun InOrder AcksAreTrue
PROPERTY PromptSettled
CHECK_DEADLOCK FALSE
