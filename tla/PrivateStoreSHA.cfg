SPECIFICATION Spec
CONSTANTS
  Publishers = {p1}
  AppId = {1, 2, 3}
  Exclusive = TRUE
  MaxCalls = 3
  MaxRenames = 0
  OnDuplicate = {"reject", "return"}
  NoId = NoId
  NoApp = NoApp
  NoPackage = NoPackage
  Label <- MCLabel
  Version <- MCVersion
  Content <- MCContent
  Requests <- OneName
  InitialApps <- Tidy
PROPERTIES
  SameSHAIsExisting
\* The calls are bounded by MaxCalls.
CHECK_DEADLOCK FALSE
