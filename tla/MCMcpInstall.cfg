SPECIFICATION Spec
CONSTANTS
  r1 = r1
  r2 = r2
  Runs <- MCRuns
  Profiles = {"readonly"}
  Requests <- MCRequests
  Configs <- MCConfigs
  ClawcratePaths = {"clawcrate", "/bin/clawcrate"}
  Mine <- MCMine
  MaxSecond = 1
  MaxEdits = 1
INVARIANTS
  InnerIsOwners
  ReplacedIsKept
PROPERTIES
  SiblingsKept
SYMMETRY MCSymmetry
CHECK_DEADLOCK FALSE
