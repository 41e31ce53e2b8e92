SPECIFICATION Spec
CONSTANTS
  Started = Started
  Blocked = Blocked
  Exited = Exited
  NoHash = NoHash
  NoSig = NoSig
  Events <- MCEvents
  Terminal <- MCTerminal
  Final <- MCFinal
  Modes <- MCAllModes
  BlockSize = 3
  MaxEvents = 6
INVARIANTS ChainedTrailVerifies AlterationDetected SignedBlocks
CHECK_DEADLOCK FALSE
