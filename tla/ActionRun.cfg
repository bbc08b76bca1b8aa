SPECIFICATION MCSpec
CONSTANTS
  None = None
  NoFile = NoFile
  Version <- MCVersion
  PackageVersion <- MCPackageVersion
  Status <- MCStatus
  Digest = {"d1", "d2"}
  MaxAttempts = 2
  License = {"MIT", "other"}
  Images = {"old", "new"}
  Inputs <- MCInputs
INVARIANTS
  TypeOK
  OutputIsVerified
  SubmitsNewVerifiedFiles
  FailedRunKeepsVersion
  SuccessIsOfTheWorkspace
  PausesAndDryRunsAreClean
PROPERTIES
  RunEnds
CHECK_DEADLOCK FALSE
