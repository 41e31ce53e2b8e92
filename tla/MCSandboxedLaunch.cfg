SPECIFICATION MCSpec
CONSTANTS
  Disks <- MCDisks
  Asks <- MCAsks
  WorkDir <- MCWorkDir
  ProfilesDir <- MCProfilesDir
  CopyDir <- MCCopyDir
  Builtins <- MCBuiltins
  Extension <- MCExtension
  Dotted <- MCDotted
  Normal <- MCNormal
  PathMax = 9
  Environments <- MCEnvironments
  HomeName <- MCHomeName
  HomeDir <- MCHomeDir
  Internal <- MCInternal
  ProxyVars <- MCProxyVars
  Trees <- MCTrees
  Appearing <- MCAppearing
  SystemPaths <- MCSystemPaths
  BaseFiles = 4
  AbiVersions <- MCAbiVersions
  MaxSteps = 9
  MaxChanges = 2
  Flags = {"none", "replica"}
INVARIANTS
  NearestWins
  NoEntryTwice
  ChainDecides
  RunsConfined
  GrantsAreNamed
  ScrubIsGlob
PROPERTIES
  LaunchDecides
CHECK_DEADLOCK FALSE
