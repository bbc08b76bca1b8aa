SPECIFICATION FairSpec
CONSTANTS
  AttemptLimit = 3
  RequestTimeout = 2
  RetryCap = 7
  Candidate = 2
  None = None
  NotSemVer = NotSemVer
  Requests <- LegacyAndPAT
  Version <- MCVersion
  Status <- MCStatus
INVARIANTS
  TypeOK
  CreatedIsRemembered
  InformationAccompaniesReview
  UploadTimeoutDoubles
PROPERTIES
  FilesOneGenuineReview
  GuardStopsPublication
  LegacyPendingReviewFailsClosed
  Returns
\* Publish returns: the call ends in pc = "done".
CHECK_DEADLOCK FALSE
