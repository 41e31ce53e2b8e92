SPECIFICATION Spec
CONSTANTS
  Workspaces <- MCWorkspaces
  Host <- MCHost
  Targets <- MCTargets
  Paths <- MCPaths
  Rank <- MCRank
  SecretNames = {".env"}
  Ignored <- MCIgnored
  Roots <- MCRoots
  SnapshotModes = {"metadata_first", "full_hash"}
  MaxFollowed = 3
  MaxCommand = 3
  MaxUser = 1
INVARIANTS
  CopyIsFiltered
  OnlyChangesApplied
  SyncedIsCopied
  LinksAreNotFollowed
CHECK_DEADLOCK FALSE
