SPECIFICATION FairSpec
CONSTANTS
  Jobs = {a, b}
  Settings <- OneGroup
  MaxVersion = 2
  Builds = {1, 2}
  MaxEdits = 1
  MaxTags = 1
  MaxFaults = 1
  None = None
PROPERTIES
  TagAtAnotherCommitFails
