SPECIFICATION MCSpec
CONSTANTS
  None = None
  Image = {"main", "side"}
  Configs <- MCConfigs
  Digest = {"d1", "d2"}
  VersionLimit = 3
  MaxMoves = 1
  MaxChecks = 2
  InitialManifests <- MCManifests
INVARIANTS
  TypeOK
  ReviewGateBeforeDelivery
  ManifestNamesDeliveredContent
  SettledSourcesChangeNothing
PROPERTIES
  VersionIdentifiesImage
CHECK_DEADLOCK FALSE
