CONSTANTS
  MaxDenials = 2
  MaxChanges = 2
  Nothing = Nothing
SPECIFICATION Spec
INVARIANTS ResultTellsAll OneStory SyncBackIsTrue
CHECK_DEADLOCK FALSE
