SPECIFICATION Spec
CONSTANTS
  Publishers = {p1, p2}
  AppId = {1, 2, 3}
  Exclusive = TRUE
  MaxCalls = 3
  MaxRenames = 1
  OnDuplicate = {"reject", "return", "add"}
  NoId = NoId
  NoApp = NoApp
  NoPackage = NoPackage
  Label <- MCLabel
  Version <- MCVersion
  Content <- MCContent
  Requests <- OneName
  InitialApps <- Tidy
INVARIANTS
  OneRecordPerVersion
PROPERTIES
  OneApplicationPerPackage
  RerunNeverConflicts
\* The calls are bounded by MaxCalls.
CHECK_DEADLOCK FALSE
