SPECIFICATION Spec
CONSTANTS
  Publishers = {p1, p2}
  AppId = {1, 2, 3}
  Exclusive = FALSE
  MaxCalls = 3
  MaxRenames = 1
  OnDuplicate = {"reject", "return"}
  NoId = NoId
  NoApp = NoApp
  NoPackage = NoPackage
  Label <- MCLabel
  Version <- MCVersion
  Content <- MCContent
  Requests <- Overlapping
  InitialApps <- AnyStore
INVARIANTS
  TypeOK
PROPERTIES
  IsWriteOnce
  NeverShadowsPackage
\* The calls are bounded by MaxCalls.
CHECK_DEADLOCK FALSE
