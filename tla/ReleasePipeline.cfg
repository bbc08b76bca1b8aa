SPECIFICATION FairSpec
CONSTANTS
  Jobs = {a, b}
  Settings <- MCSettings
  MaxVersion = 2
  Builds = {1, 2}
  MaxEdits = 1
  MaxTags = 1
  MaxFaults = 1
  None = None
INVARIANTS
  TypeOK
  AssetsComeFromTheBranch
PROPERTIES
  EditsSurvive
  ReleasesOnce
  TipReachesTheStores
