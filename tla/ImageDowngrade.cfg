SPECIFICATION MCSpec
CONSTANTS
  None = None
  Image = {"main", "side"}
  Configs <- DowngradeConfigs
  Digest = {"d1", "d2"}
  VersionLimit = 3
  MaxMoves = 1
  MaxChecks = 1
  InitialManifests <- MCManifests
INVARIANT DowngradeBlockedBeforeCopy
CHECK_DEADLOCK FALSE
