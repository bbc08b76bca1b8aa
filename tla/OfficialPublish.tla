-------------------------- MODULE OfficialPublish --------------------------
(***************************************************************************)
(* One call of official.Publisher.Publish                                  *)
(* (internal/store/official/publish.go): the retry loop, the attempt it    *)
(* repeats (application check, creation, waiting-review guard, upload,     *)
(* review), the classification of errors, and the developer platform the   *)
(* attempt talks to.  Every HTTP call is one step; between two steps the   *)
(* platform may change: a reviewer decides, another run files a review,    *)
(* the caller's context ends.  A call may be served and its reply lost.    *)
(*                                                                         *)
(* Versions are numbers ordered as SemVer orders them.                     *)
(***************************************************************************)
EXTENDS Integers, FiniteSets

CONSTANTS
  Requests,       \* the requests a caller may make (records, see Request)
  AttemptLimit,   \* bound on Retry.MaxAttempts (config.validate allows 10)
  RequestTimeout, \* the 30 s request timeout, in units of time
  Version,        \* release versions, numbered in SemVer order
  Candidate,      \* the version of the verified LPK
  Status,         \* HTTP status codes the platform may answer with
  None,           \* no review is waiting
  NotSemVer       \* the waiting review has a version that is not SemVer

(***************************************************************************)
(* What the loop reads of official.Request and official.Publisher:         *)
(*   maxAttempts, retry, maxUpload   Retry.MaxAttempts, .Enabled and       *)
(*                                   .MaxUploadTimeout                     *)
(*   create      CreateIfMissing                                           *)
(*   hasInfo     Application.HasSubmissionInfo()                           *)
(*   sdk         the PAT protocol (Publisher.SDK)                          *)
(*   guard       GuardPendingReview                                        *)
(*   continue    ContinueIfNewerVersion                                    *)
(***************************************************************************)
Request ==
  [ maxAttempts : 0..AttemptLimit, retry : BOOLEAN, maxUpload : Nat \ {0},
    create : BOOLEAN, hasInfo : BOOLEAN, sdk : BOOLEAN,
    guard : BOOLEAN, continue : BOOLEAN ]

ASSUME RequestsAssumption ==
  /\ AttemptLimit \in Nat \ {0}
  /\ RequestTimeout \in Nat \ {0}
  /\ Requests \subseteq Request

ASSUME VersionAssumption ==
  /\ Version \subseteq Nat
  /\ Candidate \in Version
  /\ None \notin Version /\ NotSemVer \notin Version /\ None # NotSemVer

ASSUME StatusAssumption == Status \subseteq 300..999

VARIABLES
  request,        \* the request served; never changes
  \* --- locals of Publish and publishAttempt -----------------------------
  pc,             \* the call the publisher makes next
  attempt,        \* loop counter, 1 .. MaxAttempts
  uploadTimeout,  \* uploadClient.Timeout
  created,        \* created, accumulated over the attempts
  createdNow,     \* publishAttempt's own created
  infos,          \* applicationInfos were prepared
  infoReady,      \* informationReady as this attempt read it
  upload,         \* the artifact the upload metadata describes, or "none"
  result,         \* what Publish returned
  ctxDone,        \* the caller's context was cancelled or expired
  \* --- the platform -----------------------------------------------------
  exists,         \* the application exists
  ready,          \* its information has been approved
  waiting,        \* version whose review is waiting, None, or NotSemVer
  ledger,         \* reviews this call filed
  lpks,           \* LPK uploads received from this call
  shots,          \* did the platform receive a screenshot of this call?
  \* --- history ----------------------------------------------------------
  acked,          \* a creation was acknowledged to this call
  readyAtCheck,   \* ready when this attempt checked the application
  blocked,        \* a blocking review waits since this attempt's check
  pending         \* some review waits since this attempt (or call) began

loopVars == <<attempt, uploadTimeout, created, result>>
attemptVars == <<createdNow, infos, infoReady, upload>>
platformVars == <<exists, ready, waiting, ledger, lpks, shots>>
historyVars == <<acked, readyAtCheck, blocked, pending>>
vars == <<request, pc, loopVars, attemptVars, ctxDone, platformVars,
          historyVars>>

-----------------------------------------------------------------------------
(* Errors: the fields of lpkgo.Error the loop reads, and markNonRetryable   *)

Code == {"InvalidArgument", "InvalidConfig", "InvalidManifest", "Conflict",
         "NotFound", "CommandFailed", "Unauthenticated", "PermissionDenied",
         "Cancelled", "RemoteUnavailable", "PendingReview"}

Op == {"publish", "upload", "review"}   \* "store.official.<op>"

Error == [code : Code, op : Op, status : Status \cup {0, 200},
          retryable : BOOLEAN, marked : BOOLEAN]

\* publishError: no status, not retryable.
PublishError(code) ==
  [code |-> code, op |-> "publish", status |-> 0,
   retryable |-> FALSE, marked |-> FALSE]

MarkNonRetryable(err) == [err EXCEPT !.marked = TRUE]

IsRetryableHTTPStatus(s) == s = 429 \/ s \in 500..599

StatusErrorCode(s) ==
  CASE s = 401 -> "Unauthenticated"
    [] s = 403 -> "PermissionDenied"
    [] OTHER   -> "RemoteUnavailable"

RemoteError(op, s, retryable) ==
  [code |-> StatusErrorCode(s), op |-> op, status |-> s,
   retryable |-> retryable, marked |-> FALSE]

(***************************************************************************)
(* How one HTTP call can fail (doRequest; calls of the toolkit client pass *)
(* through sanitizePublishError, which keeps these fields): transport      *)
(* error, unreadable or oversized 2xx body, a status that is not 2xx, and, *)
(* once the context has ended, a context error whatever came back.         *)
(***************************************************************************)
CallErrors(op) ==
  IF ctxDone
  THEN {[PublishError("Cancelled") EXCEPT !.op = op]}
  ELSE {RemoteError(op, 0, TRUE)}
       \cup {RemoteError(op, 200, unreadable) : unreadable \in BOOLEAN}
       \cup {RemoteError(op, s, IsRetryableHTTPStatus(s)) : s \in Status}

\* Whether the platform had served a call that failed so: yes when a 2xx came
\* back, no when it answered 3xx or 4xx, otherwise either.
Served(err) ==
  IF err.status = 200 THEN {TRUE}
  ELSE IF err.status \in 300..499 THEN {FALSE} ELSE BOOLEAN

\* Codes retryablePublishError refuses; a PendingReviewError is no lpkgo.Error.
NeverRetried == Code \ {"RemoteUnavailable", "Conflict"}

RetryablePublishError_ReplaysReview(err) ==
  /\ ~err.marked
  /\ err.code \notin NeverRetried
  /\ ~(err.status \in 400..499 /\ err.status # 429)
  /\ err.status < 600
  /\ \/ err.retryable
     \/ err.code = "RemoteUnavailable" /\ err.status = 0
     \/ IsRetryableHTTPStatus(err.status)

RetryablePublishError(err) ==
  /\ ~err.marked
  /\ err.code \notin NeverRetried
  /\ ~(err.status \in 400..499 /\ err.status # 429)
  /\ err.status < 600
  /\ IF err.op = "review"
     THEN err.status = 429
     ELSE \/ err.retryable
          \/ err.code = "RemoteUnavailable" /\ err.status = 0
          \/ IsRetryableHTTPStatus(err.status)

-----------------------------------------------------------------------------
(* The loop                                                                 *)

MaxAttempts_CountsRetries ==
  IF request.retry /\ request.maxAttempts > 1 THEN request.maxAttempts + 1 ELSE 1

MaxAttempts ==
  IF request.retry /\ request.maxAttempts > 1 THEN request.maxAttempts ELSE 1

Smaller(a, b) == IF a <= b THEN a ELSE b

Result == [kind : {"open"}]
          \cup [kind : {"failed"}, error : Error]
          \cup [kind : {"published"}, created : BOOLEAN]

Goto(label) == pc' = label /\ UNCHANGED loopVars

\* Publish returns err before or between attempts.
Fail(err) ==
  /\ pc' = "done"
  /\ result' = [kind |-> "failed", error |-> err]
  /\ UNCHANGED <<attempt, uploadTimeout, created>>

AccumulateCreated_LastAttemptOnly(now) == now
AccumulateCreated(now) == created \/ now

\* publishAttempt returned err with Result{Created: now}.
AttemptFails(err, now) ==
  /\ created' = AccumulateCreated(now)
  /\ IF attempt = MaxAttempts \/ ~RetryablePublishError(err)
     THEN pc' = "done" /\ result' = [kind |-> "failed", error |-> err]
     ELSE pc' = "wait" /\ UNCHANGED result
  /\ UNCHANGED <<attempt, uploadTimeout>>

AttemptPublishes(now) ==
  /\ created' = AccumulateCreated(now)
  /\ pc' = "done"
  /\ result' = [kind |-> "published", created |-> AccumulateCreated(now)]
  /\ UNCHANGED <<attempt, uploadTimeout>>

StateAware == request.hasInfo

\* checkPendingReview refuses to publish while w waits.
Blocking(w) ==
  \/ w = NotSemVer
  \/ w \in Version /\ ~(request.continue /\ w < Candidate)

\* Validation, PrecheckFile, Token, and the timeout of the upload client.
Start ==
  /\ pc = "start"
  /\ \/ /\ uploadTimeout' = IF request.retry
                            THEN Smaller(RequestTimeout, request.maxUpload)
                            ELSE RequestTimeout
        /\ pc' = IF ~StateAware THEN "check"
                 ELSE IF request.sdk THEN "infos" ELSE "state"
        /\ UNCHANGED <<attempt, created, result>>
     \/ \E code \in {"InvalidArgument", "InvalidManifest", "CommandFailed",
                     "Unauthenticated", "Cancelled"} : Fail(PublishError(code))
  /\ UNCHANGED <<request, attemptVars, ctxDone, platformVars, historyVars>>

\* The legacy protocol's ApplicationState before the first attempt.
ReadState ==
  /\ pc = "state"
  /\ \/ \E err \in CallErrors("publish") : Fail(err)
     \/ /\ ~ctxDone
        /\ \/ waiting # None /\ Fail(PublishError("Conflict"))
           \/ /\ waiting = None /\ ~exists /\ ~request.create
              /\ Fail(PublishError("NotFound"))
           \/ /\ waiting = None /\ (exists \/ request.create)
              /\ Goto(IF ready THEN "check" ELSE "infos")
  /\ UNCHANGED <<request, attemptVars, ctxDone, platformVars, historyVars>>

\* prepareApplicationInfos: normalize and upload the screenshots.
PrepareInfos ==
  /\ pc = "infos"
  /\ \/ /\ request.create /\ ~ctxDone
        /\ infos' = TRUE /\ shots' = TRUE
        /\ Goto("check")
     \/ /\ request.create
        /\ \E err \in CallErrors("publish") :
             /\ Fail(err)
             /\ shots' \in {shots, TRUE}
        /\ UNCHANGED infos
     \/ /\ Fail(PublishError("InvalidConfig"))
        /\ shots' \in {shots, shots \/ request.create}
        /\ UNCHANGED infos
  /\ UNCHANGED <<request, createdNow, infoReady, upload, ctxDone, exists,
                 ready, waiting, ledger, lpks, historyVars>>

GuardDue_FirstAttemptOnly == request.guard /\ attempt = 1
GuardDue == request.guard

AfterApplication == IF GuardDue THEN "guard" ELSE "upload"

AcceptsPending_Ignored == TRUE
\* ReviewPending is examined by the legacy state-aware protocol only.
AcceptsPending == ~StateAware \/ request.sdk \/ waiting = None

\* The attempt begins: ApplicationState or CheckApplication.
CheckApplication ==
  /\ pc = "check"
  /\ createdNow' = FALSE
  /\ \/ \E err \in CallErrors("publish") : AttemptFails(err, FALSE)
     \/ /\ ~ctxDone
        /\ \/ /\ ~AcceptsPending
              /\ AttemptFails(PublishError("Conflict"), FALSE)
           \/ /\ AcceptsPending /\ ~exists /\ ~request.create
              /\ AttemptFails(PublishError("NotFound"), FALSE)
           \/ /\ AcceptsPending /\ (exists \/ request.create)
              /\ Goto(IF exists THEN AfterApplication ELSE "create")
  /\ infoReady' = (StateAware /\ ~request.sdk => ready)
  /\ readyAtCheck' = ready
  /\ blocked' = Blocking(waiting)
  /\ pending' = (waiting # None)
  /\ UNCHANGED <<request, infos, upload, ctxDone, platformVars, acked>>

CreateApplication ==
  /\ pc = "create"
  /\ \/ /\ ~ctxDone /\ ~exists
        /\ exists' = TRUE /\ createdNow' = TRUE /\ acked' = TRUE
        /\ Goto(AfterApplication)
     \/ /\ \E err \in CallErrors("publish") :
             /\ AttemptFails(err, FALSE)
             /\ \E served \in Served(err) : exists' = (exists \/ served)
        /\ UNCHANGED <<createdNow, acked>>
  /\ UNCHANGED <<request, infos, infoReady, upload, ctxDone, ready, waiting,
                 ledger, lpks, shots, readyAtCheck, blocked, pending>>

\* checkPendingReview: WaitingReviewVersion, compared with the candidate.
CheckPendingReview ==
  /\ pc = "guard"
  /\ \/ \E err \in CallErrors("publish") : AttemptFails(err, createdNow)
     \/ /\ ~ctxDone
        /\ \/ waiting = NotSemVer
              /\ AttemptFails(PublishError("InvalidArgument"), createdNow)
           \/ waiting \in Version /\ Blocking(waiting)
              /\ AttemptFails(PublishError("PendingReview"), createdNow)
           \/ ~Blocking(waiting) /\ Goto("upload")
  /\ UNCHANGED <<request, attemptVars, ctxDone, platformVars, historyVars>>

Artifact == {"verified", "other"}

MetadataMatches_Unchecked(artifact) == TRUE
\* Package, version and SHA-256 of the answer are those of the verified LPK.
MetadataMatches(artifact) == artifact = "verified"

\* uploadLPK, and the comparison of its answer with the verified LPK; an answer
\* that is not complete metadata fails the same way.
UploadLPK ==
  /\ pc = "upload"
  /\ \/ /\ AttemptFails(PublishError("CommandFailed"), createdNow)
        /\ UNCHANGED <<lpks, upload>>
     \/ /\ \E err \in CallErrors("upload") :
             /\ AttemptFails(err, createdNow)
             /\ \E served \in Served(err) :
                  lpks' = IF served THEN lpks + 1 ELSE lpks
        /\ UNCHANGED upload
     \/ /\ ~ctxDone
        /\ lpks' = lpks + 1
        /\ \E artifact \in Artifact :
             /\ upload' = artifact
             /\ IF MetadataMatches(artifact)
                THEN Goto("submit")
                ELSE AttemptFails(
                       MarkNonRetryable(PublishError("RemoteUnavailable")),
                       createdNow)
  /\ UNCHANGED <<request, createdNow, infos, infoReady, ctxDone, exists, ready,
                 waiting, ledger, shots, historyVars>>

SendsInfos_WhenPrepared == StateAware /\ infos
SendsInfos == StateAware /\ (request.sdk \/ ~infoReady) /\ infos

Review == [attempt : 1..AttemptLimit, artifact : Artifact,
           infos : BOOLEAN, readyAtCheck : BOOLEAN]

Filing == [attempt |-> attempt, artifact |-> upload, infos |-> SendsInfos,
           readyAtCheck |-> readyAtCheck]

FileReview ==
  /\ ledger' = ledger \cup {Filing}
  /\ waiting' = Candidate

\* submitReview: the one call that must not be repeated.
SubmitReview ==
  /\ pc = "submit"
  /\ \/ /\ ~ctxDone
        /\ AttemptPublishes(createdNow)
        /\ FileReview
     \/ \E err \in CallErrors("review") :
          /\ AttemptFails(err, createdNow)
          /\ \/ TRUE \in Served(err) /\ FileReview
             \/ FALSE \in Served(err) /\ UNCHANGED <<ledger, waiting>>
  /\ UNCHANGED <<request, attemptVars, ctxDone, exists, ready, lpks, shots,
                 historyVars>>

NextTimeout_Doubled(t, cap) == t + t
NextTimeout(t, cap) == t + Smaller(t, cap - t)

NextAttempt_NotCounted == attempt
NextAttempt == attempt + 1

\* waitForRetry, and the loop header of the next attempt.
Wait ==
  /\ pc = "wait"
  /\ \/ /\ pc' = "check"
        /\ attempt' = NextAttempt
        /\ uploadTimeout' = NextTimeout(uploadTimeout, request.maxUpload)
        /\ UNCHANGED <<created, result>>
     \/ ctxDone /\ Fail(PublishError("Cancelled"))
  /\ UNCHANGED <<request, attemptVars, ctxDone, platformVars, historyVars>>

Publisher ==
  \/ Start \/ ReadState \/ PrepareInfos \/ CheckApplication
  \/ CreateApplication \/ CheckPendingReview \/ UploadLPK \/ SubmitReview
  \/ Wait

-----------------------------------------------------------------------------
(* The others, while the call runs                                          *)

\* What stays blocked or pending when the waiting review becomes w.
Witness(w) ==
  /\ blocked' = (blocked /\ Blocking(w))
  /\ pending' = (pending /\ w # None)

\* A reviewer decides; the application's information may become approved.
ReviewDecided ==
  /\ pc # "done" /\ waiting # None
  /\ waiting' = None
  /\ ready' \in {ready, TRUE}
  /\ Witness(None)
  /\ UNCHANGED <<request, pc, loopVars, attemptVars, ctxDone, exists, ledger,
                 lpks, shots, acked, readyAtCheck>>

\* Another run, or a person, creates the application and files a review.
OtherFilesReview ==
  /\ pc # "done"
  /\ exists' = TRUE
  /\ \E w \in Version \cup {NotSemVer} : waiting' = w /\ Witness(w)
  /\ UNCHANGED <<request, pc, loopVars, attemptVars, ctxDone, ready, ledger,
                 lpks, shots, acked, readyAtCheck>>

\* The caller cancels, or its deadline passes.
ContextEnds ==
  /\ pc # "done" /\ ~ctxDone
  /\ ctxDone' = TRUE
  /\ UNCHANGED <<request, pc, loopVars, attemptVars, platformVars, historyVars>>

Others == ReviewDecided \/ OtherFilesReview \/ ContextEnds

Init ==
  /\ request \in Requests
  /\ pc = "start" /\ attempt = 1 /\ uploadTimeout = RequestTimeout
  /\ created = FALSE /\ createdNow = FALSE
  /\ infos = FALSE /\ infoReady = TRUE /\ upload = "none"
  /\ result = [kind |-> "open"]
  /\ ctxDone = FALSE
  /\ exists \in BOOLEAN /\ ready \in BOOLEAN
  /\ waiting \in Version \cup {None, NotSemVer}
  /\ ~exists => ~ready /\ waiting = None
  /\ ledger = {} /\ lpks = 0 /\ shots = FALSE
  /\ acked = FALSE /\ readyAtCheck = FALSE /\ blocked = FALSE
  /\ pending = (waiting # None)

Next == Publisher \/ Others

Spec == Init /\ [][Next]_vars

\* Every request carries a client timeout and every wait a timer, so the
\* publisher always takes its next step; nobody else has to.
FairSpec == Spec /\ WF_vars(Publisher)

-----------------------------------------------------------------------------
(* Properties                                                               *)

TypeOK ==
  /\ request \in Requests
  /\ pc \in {"start", "state", "infos", "check", "create", "guard", "upload",
             "submit", "wait", "done"}
  /\ attempt \in 1..AttemptLimit
  /\ uploadTimeout \in Nat \ {0}
  /\ created \in BOOLEAN /\ createdNow \in BOOLEAN
  /\ infos \in BOOLEAN /\ infoReady \in BOOLEAN
  /\ upload \in Artifact \cup {"none"}
  /\ result \in Result
  /\ ctxDone \in BOOLEAN
  /\ exists \in BOOLEAN /\ ready \in BOOLEAN
  /\ waiting \in Version \cup {None, NotSemVer}
  /\ ledger \subseteq Review
  /\ lpks \in Nat /\ shots \in BOOLEAN
  /\ acked \in BOOLEAN /\ readyAtCheck \in BOOLEAN
  /\ blocked \in BOOLEAN /\ pending \in BOOLEAN

\* The call as its caller and the store see it: at most one review, of the
\* verified artifact, and no report of a publication without one, whatever
\* reply is lost and however often the attempt is repeated
\* (retryablePublishError's exception for store.official.review, and the
\* comparison of the upload metadata).
Once ==
  INSTANCE ReviewOnce
    WITH Genuine <- { r \in Review : r.artifact = "verified" },
         filed   <- ledger,
         report  <- result.kind

FilesOneGenuineReview == Once!Spec

\* The waiting-review guard is asked again in every attempt: an LPK is never
\* uploaded, and a review never filed, by an attempt during all of which a
\* review that covers the candidate was waiting.
GuardStopsPublication ==
  [][lpks' # lpks \/ ledger' # ledger => ~(request.guard /\ blocked)]_vars

\* A publication reports created exactly when a creation was acknowledged, in
\* whichever attempt: a later attempt finds the application and creates nothing.
CreatedIsRemembered == result.kind = "published" => result.created = acked

\* With the legacy state-aware protocol the review carries the application
\* information if and only if it was still missing when the attempt read the
\* state, although the information is prepared before the first attempt and
\* may be approved, and the application created, by others in between.
InformationAccompaniesReview ==
  \A r \in ledger :
    request.hasInfo /\ ~request.sdk => (r.infos <=> ~r.readyAtCheck)

\* "A pending review fails closed before any LPK or screenshot upload"
\* (README.md, application information): no upload reaches the platform
\* when a review was waiting from the beginning of the attempt (for the
\* screenshots: of the call) on.
PendingReviewFailsClosed ==
  [][lpks' # lpks \/ shots' # shots => ~(request.hasInfo /\ pending)]_vars

\* The same for the legacy session protocol, which reads ReviewPending.
LegacyPendingReviewFailsClosed ==
  [][lpks' # lpks \/ shots' # shots
       => ~(request.hasInfo /\ ~request.sdk /\ pending)]_vars

\* Every LPK upload gets twice the time of the one before, up to the ceiling;
\* without retries it gets the request timeout.
UploadTimeoutDoubles ==
  pc = "upload" =>
    uploadTimeout =
      IF request.retry
      THEN Smaller(RequestTimeout * 2^(attempt - 1), request.maxUpload)
      ELSE RequestTimeout

\* Publish returns, whatever the platform answers and others do.
Returns == <>(pc = "done")
=============================================================================
