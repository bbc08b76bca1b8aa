SPECIFICATION Spec
CONSTANTS
  Tags = 3
  Meanings <- MCMeanings
  RawImages <- MCRawImages
  DefaultLimit = 3
  PageSize = 1
  MaxTime = 2
  Times <- MCTimes
  MaxPushes = 1
INVARIANTS
  TypeOK
  SelectedIsBest
  ConfiguredRulesAreUsable
  ErrorsAreJustified
CHECK_DEADLOCK FALSE
