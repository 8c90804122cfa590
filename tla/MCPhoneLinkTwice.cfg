SPECIFICATION Spec
CONSTANTS
  Prompts = {1}
  Answers = {}
  Subs = {}
  None = None
  TextOf <- MCSameText
  MaxFrames = 1
  MaxSockets = 2
  MaxUpsets = 1
  MaxItems = 1
  AcksKept = 2
INVARIANT NeverTwice
CHECK_DEADLOCK FALSE
