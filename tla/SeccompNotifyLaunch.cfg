CONSTANTS
  child = child
  other = other
  Procs = {child, other}
  Child = child
  Syscalls = {mount, ptrace}
  MaxRecorded = 1
  MaxAttempts = 1
  NoCall = NoCall
SPECIFICATION FairSpec
PROPERTY LaunchEnds
CHECK_DEADLOCK FALSE
