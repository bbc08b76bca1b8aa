SPECIFICATION Spec
CONSTANTS
  AttemptLimit = 3
  RequestTimeout = 2
  RetryCap = 7
  Candidate = 2
  None = None
  NotSemVer = NotSemVer
  Requests <- PATWithInformation
  Version <- MCVersion
  Status <- MCStatus
PROPERTIES
  PendingReviewFailsClosed
\* Publish returns: the call ends in pc = "done".
CHECK_DEADLOCK FALSE
