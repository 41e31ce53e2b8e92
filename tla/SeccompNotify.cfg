CONSTANTS
  child = child
  other = other
  Procs = {child, other}
  Child = child
  Syscalls = {mount, ptrace}
  MaxRecorded = 1
  MaxAttempts = 3
  NoCall = NoCall
SPECIFICATION FairSpec
INVARIANTS RefusedAreRecorded OwnDenialsDrained Supervised
PROPERTIES NobodyLeftWaiting LaunchEndsIfSupervised
CHECK_DEADLOCK FALSE
