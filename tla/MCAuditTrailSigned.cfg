SPECIFICATION Spec
CONSTANTS
  Started = Started
  Blocked = Blocked
  Exited = Exited
  NoHash = NoHash
  NoSig = NoSig
  Events <- MCEvents
  Terminal <- MCTerminal
  Final <- MCFinal
  Modes <- MCSignOnly
  BlockSize = 2
  MaxEvents = 6
INVARIANT UntouchedTrailVerifies
CHECK_DEADLOCK FALSE
