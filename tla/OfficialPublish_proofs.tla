----------------------- MODULE OfficialPublish_proofs -----------------------
(***************************************************************************)
(* Theorems about OfficialPublish, for every set of requests, every bound  *)
(* on the attempts, every set of versions and of HTTP statuses.            *)
(*                                                                         *)
(* The inductive invariant IInv joins to the typing of the variables what  *)
(* the loop relies on from one HTTP call to the next.                      *)
(***************************************************************************)
EXTENDS OfficialPublish, FiniteSetTheorems, TLAPS

-----------------------------------------------------------------------------
(* The strengthening                                                        *)

\* The attempt counter stays within the configured limit, another attempt is
\* prepared only while one is left, and the upload timeout keeps its ceiling.
LoopInv ==
  /\ attempt <= MaxAttempts
  /\ pc = "wait" => attempt < MaxAttempts
  /\ pc \notin {"start", "done"} /\ request.retry
       => uploadTimeout <= request.maxUpload

\* No review exists while the call runs, and only the verified artifact
\* reaches the review call.
LedgerInv ==
  /\ result.kind = "open" <=> pc # "done"
  /\ pc # "done" => ledger = {}
  /\ pc = "submit" => upload = "verified"
  /\ result.kind = "published" => ledger # {}

\* A guarded attempt that reached the upload saw no blocking review.
GuardInv ==
  /\ blocked => Blocking(waiting)
  /\ pc \in {"upload", "submit"} /\ request.guard => ~blocked

\* What created has not accumulated yet is in createdNow.
CreatedInv ==
  /\ acked <=> created \/ createdNow
  /\ pc \in {"start", "state", "infos", "check", "wait", "done"}
       => (createdNow => created)
  /\ pc = "create" => ~createdNow
  /\ CreatedIsRemembered

\* In the legacy state-aware protocol, information that is still missing was
\* prepared: approval is never withdrawn.
InfoInv ==
  /\ request.hasInfo /\ ~request.sdk =>
       /\ pc \in {"check", "create", "guard", "upload", "submit", "wait"}
            => infos \/ ready
       /\ pc \in {"create", "guard", "upload", "submit"}
            => (infoReady <=> readyAtCheck) /\ (infos \/ readyAtCheck)
  /\ InformationAccompaniesReview

IInv == TypeOK /\ LoopInv /\ LedgerInv /\ GuardInv /\ CreatedInv /\ InfoInv

\* What the attempt reads of a pending review stands for what was pending when
\* it began: past the reading, and while the first information is prepared, no
\* review has been pending all along.
PendingInv ==
  /\ pending => waiting # None
  /\ /\ request.hasInfo /\ ~request.sdk
     /\ pc \in {"infos", "create", "guard", "upload", "submit"}
     => ~pending

\* The upload timeout is the request timeout doubled with every attempt, cut at
\* the ceiling, also between two uploads.
TimeoutInv ==
  /\ pc = "start" => attempt = 1
  /\ pc \notin {"start", "done"} =>
       uploadTimeout =
         IF request.retry
         THEN Smaller(RequestTimeout * 2^(attempt - 1), request.maxUpload)
         ELSE RequestTimeout

\* How many more steps the publisher can take: what is left of its attempt and
\* all steps of the attempts after it.
StepsOfAttempt ==
  [start |-> 9, state |-> 8, infos |-> 7, check |-> 6, create |-> 5,
   guard |-> 4, upload |-> 3, submit |-> 2, wait |-> 1]
StepsLeft ==
  IF pc = "done" THEN 0 ELSE 6 * (MaxAttempts - attempt) + StepsOfAttempt[pc]

\* Every step of the publisher uses one up, and nobody else's gives one back.
StepsAreBounded ==
  /\ [](StepsLeft \in 0..(6 * AttemptLimit + 3))
  /\ [][/\ Publisher => StepsLeft' < StepsLeft
        /\ Others => StepsLeft' = StepsLeft]_vars

-----------------------------------------------------------------------------
(* Errors and the loop's bookkeeping                                        *)

\* Errors made by publishError, marked or not, have the type of errors.
LEMMA PublishErrorType ==
  ASSUME NEW code \in Code
  PROVE  /\ PublishError(code) \in Error
         /\ MarkNonRetryable(PublishError(code)) \in Error
<1>1. "publish" \in Op /\ 0 \in Status \cup {0, 200}
  BY DEF Op
<1>2. PublishError(code) \in Error
  BY <1>1 DEF PublishError, Error
<1>3. \A err \in Error : MarkNonRetryable(err) \in Error
  BY DEF MarkNonRetryable, Error
<1> QED BY <1>2, <1>3

\* Whatever a call fails with is an error that names the call.
LEMMA CallErrorsType ==
  ASSUME NEW op \in Op, NEW err \in CallErrors(op)
  PROVE  err \in Error /\ err.op = op
<1>1. CASE ctxDone
  <2>1. err = [PublishError("Cancelled") EXCEPT !.op = op] /\ "Cancelled" \in Code
    BY <1>1 DEF CallErrors, Code
  <2> QED BY <2>1, PublishErrorType DEF Error
<1>2. CASE ~ctxDone
  <2>1. \A s \in Status \cup {0, 200}, b \in BOOLEAN :
          RemoteError(op, s, b) \in Error /\ RemoteError(op, s, b).op = op
    <3>1. \A s : StatusErrorCode(s) \in Code
      BY Zenon DEF StatusErrorCode, Code
    <3> QED BY <3>1 DEF RemoteError, Error
  <2>2. \A s \in Status : IsRetryableHTTPStatus(s) \in BOOLEAN
    BY DEF IsRetryableHTTPStatus
  <2>3. \/ err = RemoteError(op, 0, TRUE)
        \/ \E b \in BOOLEAN : err = RemoteError(op, 200, b)
        \/ \E s \in Status : err = RemoteError(op, s, IsRetryableHTTPStatus(s))
    BY <1>2 DEF CallErrors
  <2>4. CASE err = RemoteError(op, 0, TRUE)
    BY <2>1, <2>4
  <2>5. CASE \E b \in BOOLEAN : err = RemoteError(op, 200, b)
    BY <2>1, <2>5
  <2>6. CASE \E s \in Status : err = RemoteError(op, s, IsRetryableHTTPStatus(s))
    BY <2>1, <2>2, <2>6
  <2> QED BY <2>3, <2>4, <2>5, <2>6
<1> QED BY <1>1, <1>2

\* A review call that may have been served is never answered by a retry.
LEMMA ServedReviewIsFinal ==
  ASSUME NEW err \in CallErrors("review"), TRUE \in Served(err)
  PROVE  ~RetryablePublishError(err)
<1>1. err.op = "review" /\ err \in Error
  BY CallErrorsType DEF Op
<1>2. err.status # 429
  <2>1. SUFFICES ASSUME err.status = 429 PROVE FALSE
    OBVIOUS
  <2>2. err.status # 200 /\ err.status \in 300..499
    BY <2>1
  <2>3. TRUE \in {FALSE}
    BY <2>2, Zenon DEF Served
  <2> QED BY <2>3
<1> QED BY <1>1, <1>2 DEF RetryablePublishError

\* Publish makes between one and the configured number of attempts.
LEMMA MaxAttemptsType ==
  ASSUME request \in Requests
  PROVE  MaxAttempts \in 1..AttemptLimit
BY RequestsAssumption DEF MaxAttempts, Request

\* What a failed attempt leaves behind.
LEMMA AttemptFailsEffect ==
  ASSUME TypeOK, LoopInv, LedgerInv, pc # "done",
         NEW err \in Error, NEW now \in BOOLEAN, AttemptFails(err, now)
  PROVE  /\ pc' \in {"wait", "done"}
         /\ pc' = "wait" => attempt < MaxAttempts /\ RetryablePublishError(err)
         /\ created' = (created \/ now)
         /\ attempt' = attempt /\ uploadTimeout' = uploadTimeout
         /\ result' \in Result
         /\ result'.kind # "published"
         /\ result'.kind = "open" <=> pc' # "done"
<1>1. MaxAttempts \in 1..AttemptLimit /\ attempt \in Nat /\ attempt <= MaxAttempts
  BY MaxAttemptsType, RequestsAssumption DEF TypeOK, LoopInv
<1>2. CASE attempt = MaxAttempts \/ ~RetryablePublishError(err)
  BY <1>2 DEF AttemptFails, AccumulateCreated, Result
<1>3. CASE ~(attempt = MaxAttempts \/ ~RetryablePublishError(err))
  BY <1>1, <1>3 DEF AttemptFails, AccumulateCreated, Result, TypeOK, LedgerInv
<1> QED BY <1>2, <1>3

\* What returning an error outside an attempt leaves behind.
LEMMA FailEffect ==
  ASSUME TypeOK, NEW err \in Error, Fail(err)
  PROVE  /\ pc' = "done" /\ result' \in Result /\ result'.kind = "failed"
         /\ created' = created /\ attempt' = attempt
         /\ uploadTimeout' = uploadTimeout
BY DEF Fail, Result
-----------------------------------------------------------------------------
(* Every step preserves the invariant                                       *)

\* Validation, or the error it ends in, establishes the loop's invariant.
LEMMA StartStep ==
  ASSUME IInv, Start
  PROVE  IInv'
<1> USE DEF IInv
<1>0. /\ pc = "start"
      /\ UNCHANGED <<request, attemptVars, ctxDone, platformVars, historyVars>>
      /\ MaxAttempts' = MaxAttempts
  BY DEF Start, MaxAttempts
<1>1. request \in Request
  BY RequestsAssumption DEF TypeOK
<1>2. CASE \E code \in {"InvalidArgument", "InvalidManifest", "CommandFailed",
                        "Unauthenticated", "Cancelled"} : Fail(PublishError(code))
  <2>1. PICK err \in Error : Fail(err)
    BY <1>2, PublishErrorType DEF Code
  <2>2. /\ pc' = "done" /\ result' \in Result /\ result'.kind = "failed"
        /\ created' = created /\ attempt' = attempt
        /\ uploadTimeout' = uploadTimeout
    BY <2>1, FailEffect
  <2> QED
    BY <1>0, <1>1, <2>2
    DEF TypeOK, LoopInv, LedgerInv, GuardInv, CreatedInv, InfoInv, Blocking,
        CreatedIsRemembered, InformationAccompaniesReview,
        attemptVars, platformVars, historyVars
<1>3. CASE ~\E code \in {"InvalidArgument", "InvalidManifest", "CommandFailed",
                        "Unauthenticated", "Cancelled"} : Fail(PublishError(code))
  <2> QED
    BY <1>0, <1>1, <1>3, RequestsAssumption
    DEF TypeOK, LoopInv, LedgerInv, GuardInv, CreatedInv, InfoInv, Blocking,
        CreatedIsRemembered, InformationAccompaniesReview,
        attemptVars, platformVars, historyVars, Start, Smaller, StateAware, Request
<1> QED BY <1>2, <1>3

\* An attempt that fails where nothing of the platform or of the attempt's
\* readings changed preserves the invariant.
LEMMA PlainFailureStep ==
  ASSUME IInv, pc \in {"guard", "upload"},
         NEW err \in Error, AttemptFails(err, createdNow),
         UNCHANGED <<request, createdNow, infos, infoReady, ctxDone, exists,
                     ready, waiting, ledger, shots, historyVars>>,
         upload' \in Artifact \cup {"none"}, lpks' \in Nat
  PROVE  IInv'
<1> USE DEF IInv
<1>1. MaxAttempts' = MaxAttempts
  BY DEF MaxAttempts
<1>2. /\ pc' \in {"wait", "done"}
      /\ pc' = "wait" => attempt < MaxAttempts
      /\ created' = (created \/ createdNow)
      /\ attempt' = attempt /\ uploadTimeout' = uploadTimeout
      /\ result' \in Result
      /\ result'.kind # "published"
      /\ result'.kind = "open" <=> pc' # "done"
  BY AttemptFailsEffect DEF TypeOK
<1> QED
  BY <1>1, <1>2
  DEF TypeOK, LoopInv, LedgerInv, GuardInv, CreatedInv, InfoInv, Blocking,
      CreatedIsRemembered, InformationAccompaniesReview, historyVars

\* The waiting-review guard lets an attempt on to the upload only while no
\* review blocks it.
LEMMA CheckPendingReviewStep ==
  ASSUME IInv, CheckPendingReview
  PROVE  IInv'
<1> USE DEF IInv
<1>0. /\ pc = "guard"
      /\ UNCHANGED <<request, attemptVars, ctxDone, platformVars, historyVars>>
      /\ MaxAttempts' = MaxAttempts
  BY DEF CheckPendingReview, MaxAttempts
<1>1. CASE \E err \in Error : AttemptFails(err, createdNow)
  BY <1>0, <1>1, PlainFailureStep DEF TypeOK, attemptVars, platformVars
<1>2. CASE ~Blocking(waiting) /\ Goto("upload")
  BY <1>0, <1>2
  DEF TypeOK, LoopInv, LedgerInv, GuardInv, CreatedInv, InfoInv, Blocking,
      CreatedIsRemembered, InformationAccompaniesReview, Goto, loopVars,
      attemptVars, platformVars, historyVars
<1> QED
  BY <1>1, <1>2, CallErrorsType, PublishErrorType
  DEF CheckPendingReview, Code, Op

\* The review call is reached only with metadata of the verified artifact.
LEMMA UploadLPKStep ==
  ASSUME IInv, UploadLPK
  PROVE  IInv'
<1> USE DEF IInv
<1>0. /\ pc = "upload"
      /\ UNCHANGED <<request, createdNow, infos, infoReady, ctxDone, exists,
                     ready, waiting, ledger, shots, historyVars>>
      /\ MaxAttempts' = MaxAttempts
  BY DEF UploadLPK, MaxAttempts
<1>1. lpks' \in Nat /\ upload' \in Artifact \cup {"none"}
  <2>1. lpks \in Nat
    BY DEF TypeOK
  <2>2. CASE UNCHANGED <<lpks, upload>>
    BY <2>1, <2>2 DEF TypeOK
  <2>3. CASE lpks' \in {lpks, lpks + 1} /\ upload' = upload
    BY <2>1, <2>3 DEF TypeOK
  <2>4. CASE lpks' = lpks + 1 /\ upload' \in Artifact
    BY <2>1, <2>4
  <2> QED BY <2>2, <2>3, <2>4 DEF UploadLPK
<1>2. CASE \E err \in Error : AttemptFails(err, createdNow)
  BY <1>0, <1>1, <1>2, PlainFailureStep DEF TypeOK
<1>3. CASE upload' = "verified" /\ Goto("submit")
  BY <1>0, <1>1, <1>3
  DEF TypeOK, LoopInv, LedgerInv, GuardInv, CreatedInv, InfoInv, Blocking,
      CreatedIsRemembered, InformationAccompaniesReview, Goto, loopVars,
      historyVars
<1> QED
  BY <1>2, <1>3, CallErrorsType, PublishErrorType
  DEF UploadLPK, MetadataMatches, Code, Op

\* The legacy state read before the loop preserves the invariant.
LEMMA ReadStateStep ==
  ASSUME IInv, ReadState
  PROVE  IInv'
<1> USE DEF IInv
<1>0. /\ pc = "state"
      /\ UNCHANGED <<request, attemptVars, ctxDone, platformVars, historyVars>>
      /\ MaxAttempts' = MaxAttempts
  BY DEF ReadState, MaxAttempts
<1>1. CASE \E err \in Error : Fail(err)
  BY <1>0, <1>1, FailEffect
  DEF TypeOK, LoopInv, LedgerInv, GuardInv, CreatedInv, InfoInv, Blocking,
      CreatedIsRemembered, InformationAccompaniesReview,
      attemptVars, platformVars, historyVars
<1>2. CASE Goto(IF ready THEN "check" ELSE "infos")
  BY <1>0, <1>2
  DEF TypeOK, LoopInv, LedgerInv, GuardInv, CreatedInv, InfoInv, Blocking,
      CreatedIsRemembered, InformationAccompaniesReview, Goto, loopVars,
      attemptVars, platformVars, historyVars
<1> QED
  BY <1>1, <1>2, CallErrorsType, PublishErrorType DEF ReadState, Code, Op

\* Preparing the application information preserves the invariant.
LEMMA PrepareInfosStep ==
  ASSUME IInv, PrepareInfos
  PROVE  IInv'
<1> USE DEF IInv
<1>0. /\ pc = "infos"
      /\ UNCHANGED <<request, createdNow, infoReady, upload, ctxDone, exists,
                     ready, waiting, ledger, lpks, historyVars>>
      /\ MaxAttempts' = MaxAttempts
  BY DEF PrepareInfos, MaxAttempts
<1>1. shots' \in BOOLEAN
  BY RequestsAssumption DEF PrepareInfos, TypeOK, Request
<1>2. CASE infos' = infos /\ \E err \in Error : Fail(err)
  BY <1>0, <1>1, <1>2, FailEffect
  DEF TypeOK, LoopInv, LedgerInv, GuardInv, CreatedInv, InfoInv, Blocking,
      CreatedIsRemembered, InformationAccompaniesReview, historyVars
<1>3. CASE infos' = TRUE /\ Goto("check")
  BY <1>0, <1>1, <1>3
  DEF TypeOK, LoopInv, LedgerInv, GuardInv, CreatedInv, InfoInv, Blocking,
      CreatedIsRemembered, InformationAccompaniesReview, Goto, loopVars,
      historyVars
<1> QED
  BY <1>2, <1>3, CallErrorsType, PublishErrorType DEF PrepareInfos, Code, Op

\* An attempt starts from fresh readings of the application.
LEMMA CheckApplicationStep ==
  ASSUME IInv, CheckApplication
  PROVE  IInv'
<1> USE DEF IInv
<1>0. /\ pc = "check"
      /\ UNCHANGED <<request, infos, upload, ctxDone, platformVars, acked>>
      /\ createdNow' = FALSE
      /\ readyAtCheck' = ready
      /\ MaxAttempts' = MaxAttempts
  BY DEF CheckApplication, MaxAttempts
<1>1. /\ infoReady' \in BOOLEAN /\ blocked' \in BOOLEAN /\ pending' \in BOOLEAN
      /\ blocked' => Blocking(waiting)
      /\ request.hasInfo /\ ~request.sdk => (infoReady' <=> ready)
  BY Zenon DEF CheckApplication, Blocking, StateAware
<1>2. Blocking(waiting)' <=> Blocking(waiting)
  BY <1>0 DEF Blocking, platformVars
<1>3. ASSUME attempt' = attempt, uploadTimeout' = uploadTimeout,
             created' = created, result' \in Result,
             pc' \in {"wait", "done", "create", "guard", "upload"},
             pc' = "wait" => attempt < MaxAttempts,
             result'.kind # "published",
             result'.kind = "open" <=> pc' # "done",
             pc' = "upload" => ~request.guard
      PROVE  IInv'
  <2>1. TypeOK'
    <3>1. /\ createdNow' \in BOOLEAN /\ infoReady' \in BOOLEAN
          /\ readyAtCheck' \in BOOLEAN /\ blocked' \in BOOLEAN
          /\ pending' \in BOOLEAN
      BY <1>0, <1>1 DEF TypeOK
    <3> QED BY <1>0, <1>3, <3>1 DEF TypeOK, platformVars
  <2>2. LoopInv' /\ LedgerInv'
    BY <1>0, <1>3 DEF LoopInv, LedgerInv, platformVars
  <2>3. GuardInv'
    BY <1>0, <1>1, <1>2, <1>3 DEF GuardInv
  <2>4. CreatedInv'
    BY <1>0, <1>3 DEF CreatedInv, CreatedIsRemembered
  <2>5. InfoInv'
    BY <1>0, <1>1, <1>3 DEF InfoInv, InformationAccompaniesReview, platformVars
  <2> QED BY <2>1, <2>2, <2>3, <2>4, <2>5
<1>4. CASE \E err \in Error : AttemptFails(err, FALSE)
  <2>1. PICK err \in Error : AttemptFails(err, FALSE)
    BY <1>4
  <2>2. /\ pc' \in {"wait", "done"}
        /\ pc' = "wait" => attempt < MaxAttempts
        /\ created' = (created \/ FALSE)
        /\ attempt' = attempt /\ uploadTimeout' = uploadTimeout
        /\ result' \in Result
        /\ result'.kind # "published"
        /\ result'.kind = "open" <=> pc' # "done"
    BY <1>0, <2>1, AttemptFailsEffect
  <2>3. created' = created
    BY <2>2 DEF TypeOK
  <2> QED BY <2>2, <2>3, <1>3
<1>5. CASE Goto(IF exists THEN AfterApplication ELSE "create")
  <2>1. UNCHANGED loopVars /\ pc' \in {"create", "guard", "upload"}
        /\ (pc' = "upload" => ~request.guard)
    BY <1>5 DEF Goto, AfterApplication, GuardDue
  <2>2. result \in Result /\ result.kind = "open"
    BY <1>0 DEF TypeOK, LedgerInv
  <2> QED BY <2>1, <2>2, <1>3 DEF loopVars
<1> QED
  BY <1>4, <1>5, CallErrorsType, PublishErrorType
  DEF CheckApplication, Code, Op

\* A creation is acknowledged and noted in the same step, or neither.
LEMMA CreateApplicationStep ==
  ASSUME IInv, CreateApplication
  PROVE  IInv'
<1> USE DEF IInv
<1>0. /\ pc = "create"
      /\ UNCHANGED <<request, infos, infoReady, upload, ctxDone, ready, waiting,
                     ledger, lpks, shots, readyAtCheck, blocked, pending>>
      /\ MaxAttempts' = MaxAttempts
  BY DEF CreateApplication, MaxAttempts
<1>1. CASE /\ exists' = TRUE /\ createdNow' = TRUE /\ acked' = TRUE
           /\ Goto(AfterApplication)
  <2>1. /\ UNCHANGED loopVars /\ pc' \in {"guard", "upload"}
        /\ pc' = "upload" => ~request.guard
    BY <1>1 DEF Goto, AfterApplication, GuardDue
  <2>2. TypeOK'
    BY <1>0, <1>1, <2>1 DEF TypeOK, loopVars
  <2>3. LoopInv' /\ LedgerInv'
    BY <1>0, <2>1 DEF LoopInv, LedgerInv, loopVars
  <2>4. GuardInv'
    BY <1>0, <2>1 DEF GuardInv, Blocking
  <2>5. CreatedInv'
    BY <1>0, <1>1, <2>1
    DEF CreatedInv, CreatedIsRemembered, LedgerInv, loopVars
  <2>6. InfoInv'
    BY <1>0, <2>1 DEF InfoInv, InformationAccompaniesReview
  <2> QED BY <2>2, <2>3, <2>4, <2>5, <2>6
<1>2. CASE /\ \E err \in CallErrors("publish") :
                /\ AttemptFails(err, FALSE)
                /\ \E served \in Served(err) : exists' = (exists \/ served)
           /\ UNCHANGED <<createdNow, acked>>
  <2>1. PICK err \in CallErrors("publish") :
          /\ AttemptFails(err, FALSE)
          /\ \E served \in Served(err) : exists' = (exists \/ served)
    BY <1>2
  <2>2. exists' \in BOOLEAN
    BY <2>1, Zenon
  <2>3. /\ pc' \in {"wait", "done"}
        /\ pc' = "wait" => attempt < MaxAttempts
        /\ created' = (created \/ FALSE)
        /\ attempt' = attempt /\ uploadTimeout' = uploadTimeout
        /\ result' \in Result
        /\ result'.kind # "published"
        /\ result'.kind = "open" <=> pc' # "done"
    BY <1>0, <2>1, AttemptFailsEffect, CallErrorsType DEF Op
  <2> QED
    BY <1>0, <1>2, <2>2, <2>3
    DEF TypeOK, LoopInv, LedgerInv, GuardInv, CreatedInv, InfoInv, Blocking,
        CreatedIsRemembered, InformationAccompaniesReview
<1> QED BY <1>1, <1>2 DEF CreateApplication

\* The review call ends the publication whenever it may have been served.
LEMMA SubmitReviewStep ==
  ASSUME IInv, SubmitReview
  PROVE  IInv'
<1> USE DEF IInv
<1>0. /\ pc = "submit"
      /\ UNCHANGED <<request, attemptVars, ctxDone, exists, ready, lpks, shots,
                     historyVars>>
      /\ MaxAttempts' = MaxAttempts
      /\ ledger = {} /\ upload = "verified"
  BY DEF SubmitReview, MaxAttempts, LedgerInv
<1>1. SendsInfos \in BOOLEAN
  BY DEF SendsInfos, StateAware, TypeOK
<1>2. /\ Filing \in Review
      /\ request.hasInfo /\ ~request.sdk =>
           (Filing.infos <=> ~Filing.readyAtCheck)
  <2>1. /\ Filing.attempt = attempt /\ Filing.artifact = "verified"
        /\ Filing \in Review
    BY <1>0, <1>1 DEF Filing, Review, Artifact, TypeOK
  <2>2. request.hasInfo /\ ~request.sdk => (SendsInfos <=> ~readyAtCheck)
    BY <1>0 DEF SendsInfos, StateAware, InfoInv, TypeOK
  <2>3. Filing.infos = SendsInfos /\ Filing.readyAtCheck = readyAtCheck
    BY DEF Filing
  <2> QED BY <2>1, <2>2, <2>3
<1>3. ~(blocked /\ request.guard)
  BY <1>0 DEF GuardInv
<1>4. Candidate \in Version
  BY VersionAssumption
\* What the three outcomes below have in common.
<1>5. ASSUME attempt' = attempt, uploadTimeout' = uploadTimeout,
             result' \in Result, created' = (created \/ createdNow),
             pc' \in {"wait", "done"},
             pc' = "wait" => attempt < MaxAttempts,
             result'.kind = "open" <=> pc' # "done",
             result'.kind = "published" => result'.created = created',
             \/ UNCHANGED <<ledger, waiting>> /\ result'.kind # "published"
             \/ FileReview /\ pc' = "done"
      PROVE  IInv'
  <2>1. TypeOK'
    <3>1. created' \in BOOLEAN
      BY <1>5 DEF TypeOK
    <3>2. ledger' \subseteq Review /\ waiting' \in Version \cup {None, NotSemVer}
      BY <1>0, <1>2, <1>4, <1>5 DEF FileReview, TypeOK
    <3> QED BY <1>0, <1>5, <3>1, <3>2 DEF TypeOK, attemptVars, historyVars
  <2>2. LoopInv'
    BY <1>0, <1>5 DEF LoopInv
  <2>3. LedgerInv'
    BY <1>0, <1>5 DEF LedgerInv, FileReview
  <2>4. GuardInv'
    BY <1>0, <1>3, <1>5, VersionAssumption
    DEF GuardInv, Blocking, FileReview, historyVars
  <2>5. CreatedInv'
    BY <1>0, <1>5
    DEF CreatedInv, CreatedIsRemembered, attemptVars, historyVars, TypeOK
  <2>6. InfoInv'
    BY <1>0, <1>2, <1>5
    DEF InfoInv, InformationAccompaniesReview, FileReview, attemptVars,
        historyVars
  <2> QED BY <2>1, <2>2, <2>3, <2>4, <2>5, <2>6
<1>6. CASE AttemptPublishes(createdNow) /\ FileReview
  <2>1. /\ result' = [kind |-> "published", created |-> created \/ createdNow]
        /\ created' = (created \/ createdNow) /\ pc' = "done"
        /\ attempt' = attempt /\ uploadTimeout' = uploadTimeout
    BY <1>6 DEF AttemptPublishes, AccumulateCreated
  <2>2. created \/ createdNow \in BOOLEAN
    BY DEF TypeOK
  <2>3. /\ result' \in Result /\ result'.kind = "published"
        /\ result'.created = created'
    BY <2>1, <2>2 DEF Result
  <2> QED BY <1>5, <1>6, <2>1, <2>3
<1>7. CASE \E err \in CallErrors("review") :
             /\ AttemptFails(err, createdNow)
             /\ \/ TRUE \in Served(err) /\ FileReview
                \/ FALSE \in Served(err) /\ UNCHANGED <<ledger, waiting>>
  <2>1. PICK err \in CallErrors("review") :
          /\ AttemptFails(err, createdNow)
          /\ \/ TRUE \in Served(err) /\ FileReview
             \/ FALSE \in Served(err) /\ UNCHANGED <<ledger, waiting>>
    BY <1>7
  <2>2. /\ pc' \in {"wait", "done"}
        /\ pc' = "wait" => attempt < MaxAttempts /\ RetryablePublishError(err)
        /\ created' = (created \/ createdNow)
        /\ attempt' = attempt /\ uploadTimeout' = uploadTimeout
        /\ result' \in Result
        /\ result'.kind # "published"
        /\ result'.kind = "open" <=> pc' # "done"
    BY <1>0, <2>1, AttemptFailsEffect, CallErrorsType DEF Op, TypeOK
  <2>3. TRUE \in Served(err) => pc' = "done"
    BY <2>2, ServedReviewIsFinal
  <2> QED BY <1>5, <2>1, <2>2, <2>3
<1> QED BY <1>6, <1>7 DEF SubmitReview

\* Growing a doubled timeout that the ceiling cut gives the next doubling, cut.
LEMMA NextTimeoutDoubles ==
  ASSUME NEW t \in Nat, NEW cap \in Nat
  PROVE  NextTimeout(Smaller(t, cap), cap) = Smaller(t + t, cap)
<1>1. CASE t <= cap
  <2>1. Smaller(t, cap) = t
    BY <1>1 DEF Smaller
  <2> QED BY <2>1 DEF NextTimeout, Smaller
<1>2. CASE ~(t <= cap)
  <2>1. Smaller(t, cap) = cap /\ Smaller(t + t, cap) = cap
    BY <1>2 DEF Smaller
  <2> QED BY <2>1 DEF NextTimeout, Smaller
<1> QED BY <1>1, <1>2

\* Doubling stays within the ceiling.
LEMMA NextTimeoutBounds ==
  ASSUME NEW t \in Nat \ {0}, NEW cap \in Nat, t <= cap
  PROVE  NextTimeout(t, cap) \in Nat \ {0} /\ NextTimeout(t, cap) <= cap
BY DEF NextTimeout, Smaller

\* Another attempt begins only while one is left, within the timeout ceiling.
LEMMA WaitStep ==
  ASSUME IInv, Wait
  PROVE  IInv'
<1> USE DEF IInv
<1>0. /\ pc = "wait"
      /\ UNCHANGED <<request, attemptVars, ctxDone, platformVars, historyVars>>
      /\ MaxAttempts' = MaxAttempts
  BY DEF Wait, MaxAttempts
<1>1. CASE Fail(PublishError("Cancelled"))
  BY <1>0, <1>1, FailEffect, PublishErrorType
  DEF TypeOK, LoopInv, LedgerInv, GuardInv, CreatedInv, InfoInv, Blocking,
      CreatedIsRemembered, InformationAccompaniesReview, Code,
      attemptVars, platformVars, historyVars
<1>2. CASE /\ pc' = "check"
           /\ attempt' = NextAttempt
           /\ uploadTimeout' = NextTimeout(uploadTimeout, request.maxUpload)
           /\ UNCHANGED <<created, result>>
  <2>1. request \in Request
    BY RequestsAssumption DEF TypeOK
  <2>2. MaxAttempts \in 1..AttemptLimit /\ attempt < MaxAttempts
        /\ attempt \in 1..AttemptLimit
    BY <1>0, MaxAttemptsType DEF TypeOK, LoopInv
  <2>3. request.retry
    BY <2>2, RequestsAssumption DEF MaxAttempts
  <2>4. uploadTimeout' \in Nat \ {0} /\ uploadTimeout' <= request.maxUpload
    BY <1>0, <1>2, <2>1, <2>3, NextTimeoutBounds DEF TypeOK, LoopInv, Request
  <2>5. attempt' \in 1..AttemptLimit /\ attempt' <= MaxAttempts
    BY <1>2, <2>2, RequestsAssumption DEF NextAttempt
  <2>6. TypeOK'
    BY <1>0, <1>2, <2>4, <2>5 DEF TypeOK, attemptVars, platformVars, historyVars
  <2>7. LoopInv' /\ LedgerInv'
    BY <1>0, <1>2, <2>4, <2>5
    DEF LoopInv, LedgerInv, platformVars, attemptVars
  <2>8. GuardInv' /\ CreatedInv' /\ InfoInv'
    BY <1>0, <1>2
    DEF GuardInv, CreatedInv, InfoInv, Blocking, CreatedIsRemembered,
        InformationAccompaniesReview, attemptVars, platformVars, historyVars
  <2> QED BY <2>6, <2>7, <2>8
<1> QED BY <1>1, <1>2 DEF Wait

\* What reviewers, other runs and the caller's context do preserves the
\* invariant: approval is not withdrawn, and blocked follows the reviews.
LEMMA OthersStep ==
  ASSUME IInv, Others
  PROVE  IInv'
<1> USE DEF IInv
<1>0. /\ pc # "done"
      /\ UNCHANGED <<request, pc, loopVars, attemptVars, ledger, lpks, shots,
                     acked, readyAtCheck>>
      /\ MaxAttempts' = MaxAttempts
  BY DEF Others, ReviewDecided, OtherFilesReview, ContextEnds, MaxAttempts,
         platformVars, historyVars
<1>1. /\ ctxDone' \in BOOLEAN /\ exists' \in BOOLEAN /\ ready' \in BOOLEAN
      /\ waiting' \in Version \cup {None, NotSemVer}
  BY DEF Others, ReviewDecided, OtherFilesReview, ContextEnds, TypeOK,
         platformVars
<1>2. ready => ready'
  BY DEF Others, ReviewDecided, OtherFilesReview, ContextEnds, TypeOK,
         platformVars
<1>3. /\ blocked' \in BOOLEAN /\ pending' \in BOOLEAN
      /\ blocked' => blocked /\ Blocking(waiting)'
  <2>1. CASE ReviewDecided
    BY <2>1, Zenon DEF ReviewDecided, Witness, Blocking
  <2>2. CASE OtherFilesReview
    BY <2>2, Zenon DEF OtherFilesReview, Witness, Blocking
  <2>3. CASE ContextEnds
    BY <2>3 DEF ContextEnds, platformVars, historyVars, TypeOK, GuardInv,
                Blocking
  <2> QED BY <2>1, <2>2, <2>3 DEF Others
<1>4. TypeOK'
  BY <1>0, <1>1, <1>3 DEF TypeOK, loopVars, attemptVars
<1>5. LoopInv' /\ LedgerInv'
  BY <1>0 DEF LoopInv, LedgerInv, loopVars, attemptVars
<1>6. GuardInv'
  BY <1>0, <1>3 DEF GuardInv
<1>7. CreatedInv'
  BY <1>0 DEF CreatedInv, CreatedIsRemembered, loopVars, attemptVars
<1>8. InfoInv'
  BY <1>0, <1>2
  DEF InfoInv, InformationAccompaniesReview, loopVars, attemptVars
<1> QED BY <1>4, <1>5, <1>6, <1>7, <1>8

\* Every call of Publish starts in the invariant.
LEMMA InitInv ==
  ASSUME Init
  PROVE  IInv
<1>1. request \in Requests /\ MaxAttempts \in 1..AttemptLimit
  BY MaxAttemptsType DEF Init
<1>2. TypeOK
  <2>1. pending \in BOOLEAN
    BY Zenon DEF Init
  <2>2. result \in Result
    BY DEF Init, Result
  <2>3. attempt \in 1..AttemptLimit /\ uploadTimeout \in Nat \ {0}
    BY RequestsAssumption DEF Init
  <2>4. /\ created \in BOOLEAN /\ createdNow \in BOOLEAN
        /\ infos \in BOOLEAN /\ infoReady \in BOOLEAN
        /\ ctxDone \in BOOLEAN /\ exists \in BOOLEAN /\ ready \in BOOLEAN
        /\ shots \in BOOLEAN /\ acked \in BOOLEAN
        /\ readyAtCheck \in BOOLEAN /\ blocked \in BOOLEAN
    BY Zenon DEF Init
  <2>5. /\ request \in Requests /\ pc = "start" /\ upload = "none"
        /\ waiting \in Version \cup {None, NotSemVer}
        /\ ledger = {} /\ lpks = 0
    BY DEF Init
  <2> QED BY <2>1, <2>2, <2>3, <2>4, <2>5 DEF TypeOK
<1>3. LoopInv
  BY <1>1 DEF Init, LoopInv
<1>4. LedgerInv /\ GuardInv /\ CreatedInv /\ InfoInv
  BY DEF Init, LedgerInv, GuardInv, CreatedInv, InfoInv, CreatedIsRemembered,
         InformationAccompaniesReview
<1> QED BY <1>2, <1>3, <1>4 DEF IInv

\* Every step, and stuttering, preserves the invariant.
LEMMA NextInv ==
  ASSUME IInv, [Next]_vars
  PROVE  IInv'
<1>1. CASE UNCHANGED vars
  <2> USE <1>1 DEF IInv, vars, loopVars, attemptVars, platformVars, historyVars
  <2>1. TypeOK' /\ MaxAttempts' = MaxAttempts
    BY DEF TypeOK, MaxAttempts
  <2>2. LoopInv' /\ LedgerInv' /\ GuardInv'
    BY <2>1 DEF LoopInv, LedgerInv, GuardInv, Blocking
  <2>3. CreatedInv' /\ InfoInv'
    BY DEF CreatedInv, InfoInv, CreatedIsRemembered,
           InformationAccompaniesReview
  <2> QED BY <2>1, <2>2, <2>3
<1> QED
  BY <1>1, StartStep, ReadStateStep, PrepareInfosStep, CheckApplicationStep,
     CreateApplicationStep, CheckPendingReviewStep, UploadLPKStep,
     SubmitReviewStep, WaitStep, OthersStep
  DEF Next, Publisher

\* No step of the legacy protocol goes on while a review is pending.
LEMMA PendingStep ==
  ASSUME IInv, PendingInv, [Next]_vars
  PROVE  PendingInv'
<1>1. CASE CheckApplication
  <2>1. /\ UNCHANGED <<request, waiting>>
        /\ pending' = (waiting # None)
        /\ pc' \in {"create", "guard", "upload"} => AcceptsPending
        /\ pc' \in {"wait", "done", "create", "guard", "upload"}
    BY <1>1 DEF CheckApplication, AttemptFails, Goto, AfterApplication, platformVars
  <2> QED BY <2>1 DEF PendingInv, AcceptsPending, StateAware
<1>2. CASE ReadState
  <2>1. /\ UNCHANGED <<request, waiting, pending>>
        /\ pc' # "done" => waiting = None
    BY <1>2 DEF ReadState, Fail, Goto, platformVars, historyVars
  <2> QED BY <2>1 DEF PendingInv
<1>3. CASE Start
  <2>1. /\ UNCHANGED <<request, waiting, pending>>
        /\ pc' \in {"check", "infos", "state", "done"}
        /\ pc' = "infos" => request.sdk
    BY <1>3 DEF Start, Fail, StateAware, platformVars, historyVars
  <2> QED BY <2>1 DEF PendingInv
<1>4. CASE SubmitReview
  <2>1. /\ UNCHANGED <<request, pending>> /\ pc' \in {"wait", "done"}
        /\ waiting' \in {waiting, Candidate}
    BY <1>4 DEF SubmitReview, AttemptFails, AttemptPublishes, FileReview, historyVars
  <2> QED BY <2>1, VersionAssumption DEF PendingInv
<1>5. CASE PrepareInfos \/ Wait
  <2>1. /\ UNCHANGED <<request, waiting, pending>> /\ pc' \in {"check", "done"}
    BY <1>5 DEF PrepareInfos, Wait, Goto, Fail, platformVars, historyVars
  <2> QED BY <2>1 DEF PendingInv
<1>6. CASE CreateApplication \/ CheckPendingReview \/ UploadLPK
  <2>1. /\ UNCHANGED <<request, waiting, pending>>
        /\ pc \in {"create", "guard", "upload"}
        /\ pc' \in {"guard", "upload", "submit", "wait", "done"}
    BY <1>6 DEF CreateApplication, CheckPendingReview, UploadLPK, AttemptFails, Goto,
       AfterApplication, platformVars, historyVars
  <2> QED BY <2>1 DEF PendingInv
<1>7. CASE Others
  <2>1. /\ UNCHANGED <<request, pc>>
        /\ pending' => pending
        /\ pending' => waiting' # None \/ waiting' = waiting
    <3>1. CASE ReviewDecided
      BY <3>1, Zenon DEF ReviewDecided, Witness
    <3>2. CASE OtherFilesReview
      BY <3>2, Zenon DEF OtherFilesReview, Witness
    <3>3. CASE ContextEnds
      BY <3>3 DEF ContextEnds, platformVars, historyVars
    <3> QED BY <1>7, <3>1, <3>2, <3>3 DEF Others
  <2> QED BY <2>1 DEF PendingInv
<1>8. CASE UNCHANGED vars
  BY <1>8 DEF PendingInv, vars, platformVars, historyVars
<1> QED BY <1>1, <1>2, <1>3, <1>4, <1>5, <1>6, <1>7, <1>8 DEF Next, Publisher

\* A power of two is the number of subsets of as many elements: the next power
\* counts each of them with and without one element more.
LEMMA NextPowerOfTwo ==
  ASSUME NEW n \in Nat
  PROVE  2^n \in Nat /\ 2^(n + 1) = 2^n + 2^n
<1> DEFINE Without == SUBSET (1..n)
           With == {s \cup {n + 1} : s \in Without}
           more == [s \in Without |-> s \cup {n + 1}]
<1>1. /\ IsFiniteSet(Without) /\ Cardinality(Without) = 2^n
      /\ Cardinality(Without) \in Nat
  <2>1. IsFiniteSet(1..n) /\ Cardinality(1..n) = n
    BY FS_Interval
  <2> QED BY <2>1, FS_SUBSET, FS_CardinalityType
<1>2. Cardinality(SUBSET (1..(n + 1))) = 2^(n + 1)
  <2>1. IsFiniteSet(1..(n + 1)) /\ Cardinality(1..(n + 1)) = n + 1
    BY FS_Interval
  <2> QED BY <2>1, FS_SUBSET
<1>3. \A s \in Without : n + 1 \notin s
  OBVIOUS
<1>4. IsFiniteSet(With) /\ Cardinality(With) = Cardinality(Without)
  <2>1. more \in [Without -> With]
    OBVIOUS
  <2>2. \A s, t \in Without : more[s] = more[t] => s = t
    <3>1. SUFFICES ASSUME NEW s \in Without, NEW t \in Without,
                          s \cup {n + 1} = t \cup {n + 1}
                   PROVE  s = t
      OBVIOUS
    <3>2. s = (s \cup {n + 1}) \ {n + 1} /\ t = (t \cup {n + 1}) \ {n + 1}
      BY <1>3
    <3> QED BY <3>1, <3>2
  <2>3. \A u \in With : \E s \in Without : more[s] = u
    OBVIOUS
  <2>4. ExistsBijection(Without, With)
    BY <2>1, <2>2, <2>3
    DEF ExistsBijection, Bijection, Injection, IsInjective, Surjection
  <2> QED BY <1>1, <2>4, FS_Bijection
<1>5. SUBSET (1..(n + 1)) = Without \cup With
  <2>1. ASSUME NEW u \in SUBSET (1..(n + 1)), n + 1 \in u
        PROVE  u \in With
    <3>1. u \ {n + 1} \in Without
      OBVIOUS
    <3>2. u = (u \ {n + 1}) \cup {n + 1}
      BY <2>1
    <3> QED BY <3>1, <3>2
  <2>2. ASSUME NEW u \in SUBSET (1..(n + 1)), n + 1 \notin u
        PROVE  u \in Without
    BY <2>2
  <2>3. ASSUME NEW u \in Without \cup With
        PROVE  u \in SUBSET (1..(n + 1))
    OBVIOUS
  <2> HIDE DEF Without, With
  <2> QED BY <2>1, <2>2, <2>3
<1>6. Without \cap With = {}
  BY <1>3
<1> HIDE DEF Without, With
<1>7. Cardinality(Without \cup With) = Cardinality(Without) + Cardinality(With) - 0
  BY <1>1, <1>4, <1>6, FS_Union, FS_EmptySet
<1> QED BY <1>1, <1>2, <1>4, <1>5, <1>7

\* The timeout of the next attempt is the doubled one.
LEMMA TimeoutStep ==
  ASSUME IInv, TimeoutInv, [Next]_vars
  PROVE  TimeoutInv'
<1>1. request \in Request /\ attempt \in 1..AttemptLimit /\ AttemptLimit \in Nat
  BY RequestsAssumption DEF IInv, TypeOK
<1>2. request.maxUpload \in Nat \ {0} /\ request.retry \in BOOLEAN
      /\ RequestTimeout \in Nat \ {0}
  BY <1>1, RequestsAssumption DEF Request
<1>3. CASE /\ pc \notin {"start", "done"} /\ pc' # "start"
           /\ UNCHANGED <<request, attempt, uploadTimeout>>
  BY <1>3 DEF TimeoutInv
<1>4. CASE Start /\ pc' # "done"
  <2>1. /\ request' = request /\ attempt' = attempt /\ attempt = 1 /\ pc' # "start"
        /\ uploadTimeout' = IF request.retry
                            THEN Smaller(RequestTimeout, request.maxUpload)
                            ELSE RequestTimeout
    BY <1>4 DEF Start, Fail, TimeoutInv, StateAware
  <2>2. attempt' - 1 = 0 /\ 2^0 = 1
    BY <2>1
  <2>3. RequestTimeout * 2^(attempt' - 1) = RequestTimeout
    BY <1>2, <2>2
  <2> QED BY <2>1, <2>3 DEF TimeoutInv
<1>5. CASE Wait /\ pc' # "done"
  <2>1. /\ pc = "wait" /\ pc' = "check" /\ request' = request
        /\ attempt' = attempt + 1
        /\ uploadTimeout' = NextTimeout(uploadTimeout, request.maxUpload)
    BY <1>5 DEF Wait, Fail, NextAttempt
  <2>2. request.retry
    BY <1>1, <2>1 DEF IInv, LoopInv, MaxAttempts
  <2>3. PICK k \in Nat : attempt = k + 1
    BY <1>1
  <2>4. PICK t \in Nat : t = RequestTimeout * 2^k
    BY <1>2, NextPowerOfTwo
  <2>5. uploadTimeout = Smaller(t, request.maxUpload)
    BY <2>1, <2>2, <2>3, <2>4 DEF TimeoutInv
  <2>6. uploadTimeout' = Smaller(t + t, request.maxUpload)
    BY <1>2, <2>1, <2>5, NextTimeoutDoubles
  <2>7. RequestTimeout * 2^(k + 1) = t + t
    <3>1. PICK power \in Nat : power = 2^k /\ 2^(k + 1) = power + power
      BY NextPowerOfTwo
    <3> QED BY <1>2, <2>4, <3>1
  <2>8. attempt' - 1 = k + 1
    BY <2>1, <2>3
  <2> QED BY <2>1, <2>2, <2>6, <2>7, <2>8 DEF TimeoutInv
<1>6. CASE pc' = "done"
  BY <1>6 DEF TimeoutInv
<1>7. CASE UNCHANGED <<request, pc, attempt, uploadTimeout>>
  BY <1>7 DEF TimeoutInv
<1>8. \/ Start \/ Wait \/ pc' = "done"
      \/ UNCHANGED <<request, pc, attempt, uploadTimeout>>
      \/ /\ pc \notin {"start", "done"} /\ pc' # "start"
         /\ UNCHANGED <<request, attempt, uploadTimeout>>
  BY DEF Next, Publisher, Others, ReadState, PrepareInfos, CheckApplication,
     CreateApplication, CheckPendingReview, UploadLPK, SubmitReview, ReviewDecided,
     OtherFilesReview, ContextEnds, AttemptFails, AttemptPublishes, Fail, Goto,
     AfterApplication, vars, loopVars
<1> QED BY <1>3, <1>4, <1>5, <1>6, <1>7, <1>8

\* IInv is an inductive invariant of every call of Publish.
THEOREM InductiveInvariant == Spec => []IInv
<1>1. Init => IInv
  BY InitInv
<1>2. IInv /\ [Next]_vars => IInv'
  BY NextInv
<1> QED BY <1>1, <1>2, PTL DEF Spec

-----------------------------------------------------------------------------
(* What the invariant gives                                                 *)

\* The model is well-typed: in particular the attempt counter never passes its
\* bound and every result of Publish is one of its three kinds.
THEOREM TypeCorrect == Spec => []TypeOK
BY InductiveInvariant, PTL DEF IInv

\* A publication reports created exactly when a creation was acknowledged to
\* this call, in whichever attempt (the accumulation in Publish's loop).
THEOREM CreatedIsAlwaysRemembered == Spec => []CreatedIsRemembered
<1>1. IInv => CreatedIsRemembered
  BY DEF IInv, CreatedInv
<1> QED BY <1>1, InductiveInvariant, PTL

\* A review filed with the legacy state-aware protocol carries the prepared
\* information exactly when the attempt found it missing.
THEOREM InformationAlwaysAccompanies == Spec => []InformationAccompaniesReview
<1>1. IInv => InformationAccompaniesReview
  BY DEF IInv, InfoInv
<1> QED BY <1>1, InductiveInvariant, PTL

\* No attempt uploads an LPK or files a review while a review that covers the
\* candidate has been waiting since the attempt checked the application.
THEOREM GuardAlwaysStops == Spec => GuardStopsPublication
<1> DEFINE Stops ==
      lpks' # lpks \/ ledger' # ledger => ~(request.guard /\ blocked)
<1>1. IInv /\ [Next]_vars => [Stops]_vars
  <2> SUFFICES ASSUME IInv, Next, lpks' # lpks \/ ledger' # ledger
               PROVE  ~(request.guard /\ blocked)
    OBVIOUS
  <2>1. CASE UploadLPK \/ SubmitReview
    BY <2>1 DEF UploadLPK, SubmitReview, IInv, GuardInv
  <2>2. CASE ~(UploadLPK \/ SubmitReview)
    BY <2>2
    DEF Next, Publisher, Others, Start, ReadState, PrepareInfos,
        CheckApplication, CreateApplication, CheckPendingReview, Wait,
        ReviewDecided, OtherFilesReview, ContextEnds, platformVars
  <2> QED BY <2>1, <2>2
<1> QED BY <1>1, InductiveInvariant, PTL DEF Spec, GuardStopsPublication

\* With the legacy session protocol and application information, an attempt
\* uploads nothing when a review has been pending since it began, and the call
\* uploads no screenshot when one has been pending since the call began.
THEOREM LegacyPendingReviewsFailClosed == Spec => LegacyPendingReviewFailsClosed
<1> DEFINE Closed ==
      lpks' # lpks \/ shots' # shots => ~(request.hasInfo /\ ~request.sdk /\ pending)
<1>1. Init => PendingInv
  BY VersionAssumption DEF Init, PendingInv
<1>2. IInv /\ PendingInv /\ [Next]_vars => PendingInv'
  BY PendingStep
<1>3. PendingInv /\ [Next]_vars => [Closed]_vars
  <2> SUFFICES ASSUME PendingInv, Next, lpks' # lpks \/ shots' # shots
               PROVE  ~(request.hasInfo /\ ~request.sdk /\ pending)
    OBVIOUS
  <2>1. pc \in {"infos", "upload"}
    BY DEF Next, Publisher, Others, Start, ReadState, PrepareInfos, CheckApplication,
       CreateApplication, CheckPendingReview, UploadLPK, SubmitReview, Wait,
       ReviewDecided, OtherFilesReview, ContextEnds, platformVars
  <2> QED BY <2>1 DEF PendingInv
<1> QED BY <1>1, <1>2, <1>3, InductiveInvariant, PTL
        DEF Spec, LegacyPendingReviewFailsClosed

\* Every LPK upload of a call has twice the time of the one before, up to the
\* ceiling, for any number of attempts.
THEOREM TimeoutsDouble == Spec => []UploadTimeoutDoubles
<1>1. Init => TimeoutInv
  BY DEF Init, TimeoutInv
<1>2. IInv /\ TimeoutInv /\ [Next]_vars => TimeoutInv'
  BY TimeoutStep
<1>3. TimeoutInv => UploadTimeoutDoubles
  BY DEF TimeoutInv, UploadTimeoutDoubles
<1> QED BY <1>1, <1>2, <1>3, InductiveInvariant, PTL DEF Spec

\* Publish implements ReviewOnce: it files at most one review, of the verified
\* artifact, and reports a publication only with one, for every number of
\* attempts and whatever the platform answers, loses or changes in between.
THEOREM PublishFilesOneGenuineReview == Spec => FilesOneGenuineReview
<1>1. Init => Once!Init
  BY DEF Init, Once!Init
<1>2. IInv /\ IInv' /\ [Next]_vars => [Once!Next]_(Once!vars)
  <2> SUFFICES ASSUME IInv, IInv', [Next]_vars
               PROVE  [Once!Next]_(Once!vars)
    OBVIOUS
  <2>1. CASE ledger' = ledger /\ result' = result
    BY <2>1 DEF Once!vars
  <2>2. CASE ~(ledger' = ledger /\ result' = result)
    <3>1. pc # "done"
      BY <2>2 DEF Next, Publisher, Others, Start, ReadState, PrepareInfos,
        CheckApplication, CreateApplication, CheckPendingReview, UploadLPK,
        SubmitReview, Wait, ReviewDecided, OtherFilesReview, ContextEnds,
        platformVars, loopVars, vars
    <3>2. result.kind = "open" /\ ledger = {}
      BY <3>1 DEF IInv, LedgerInv
    <3>3. CASE ledger' = ledger
      <4>1. result' \in Result /\ result'.kind # "published"
        BY <3>2, <3>3 DEF IInv, TypeOK, LedgerInv
      <4>2. result'.kind \in {"open", "failed"}
        BY <4>1 DEF Result
      <4> QED BY <3>2, <3>3, <4>2 DEF Once!Next, Once!GiveUp, Once!vars
    <3>4. CASE ledger' # ledger
      <4>1. SubmitReview /\ FileReview
        BY <3>4 DEF Next, Publisher, Others, Start, ReadState, PrepareInfos,
          CheckApplication, CreateApplication, CheckPendingReview, UploadLPK,
          SubmitReview, Wait, ReviewDecided, OtherFilesReview, ContextEnds,
          platformVars, loopVars, vars
      <4>2. ledger' = {Filing} /\ Filing.artifact = "verified"
        BY <3>2, <4>1 DEF FileReview, SubmitReview, Filing, IInv, LedgerInv
      <4>3. Filing \in Review
        BY <4>2 DEF IInv, TypeOK
      <4>4. pc' = "done"
        BY <4>2 DEF IInv, LedgerInv
      <4>5. result'.kind \in {"published", "failed"}
        BY <4>4 DEF IInv, TypeOK, LedgerInv, Result
      <4> QED BY <3>2, <4>2, <4>3, <4>5 DEF Once!Next, Once!File
    <3> QED BY <3>3, <3>4
  <2> QED BY <2>1, <2>2
<1> QED
  BY <1>1, <1>2, InductiveInvariant, PTL
  DEF Spec, Once!Spec, FilesOneGenuineReview

-----------------------------------------------------------------------------
(* Termination, but for the fairness that makes the publisher go on         *)

\* Moving on within an attempt, or out of it, uses up steps.
LEMMA StepsOfLabels ==
  /\ StepsOfAttempt["start"] = 9 /\ StepsOfAttempt["state"] = 8
  /\ StepsOfAttempt["infos"] = 7 /\ StepsOfAttempt["check"] = 6
  /\ StepsOfAttempt["create"] = 5 /\ StepsOfAttempt["guard"] = 4
  /\ StepsOfAttempt["upload"] = 3 /\ StepsOfAttempt["submit"] = 2
  /\ StepsOfAttempt["wait"] = 1
  BY DEF StepsOfAttempt

\* A call takes at most six steps per attempt and three before the first,
\* whatever the platform answers and others do.
THEOREM CallsAreBounded == Spec => StepsAreBounded
<1>1. IInv => StepsLeft \in 0..(6 * AttemptLimit + 3)
  <2>1. SUFFICES ASSUME IInv PROVE StepsLeft \in 0..(6 * AttemptLimit + 3)
    OBVIOUS
  <2>2. /\ MaxAttempts \in 1..AttemptLimit /\ attempt \in 1..MaxAttempts
    BY <2>1, MaxAttemptsType DEF IInv, TypeOK, LoopInv
  <2>3. pc # "done" => StepsOfAttempt[pc] \in 1..9
    BY <2>1, StepsOfLabels DEF IInv, TypeOK
  <2>4. AttemptLimit \in Nat
    BY RequestsAssumption
  <2>5. PICK max \in Nat, at \in Nat :
          max = MaxAttempts /\ at = attempt /\ 1 <= at /\ at <= max /\ max <= AttemptLimit
    BY <2>2, <2>4
  <2>6. CASE pc = "done"
    BY <2>4, <2>6 DEF StepsLeft
  <2>7. CASE pc # "done"
    <3>1. PICK left \in 1..9 : left = StepsOfAttempt[pc]
      BY <2>3, <2>7
    <3>2. StepsLeft = 6 * (max - at) + left
      BY <2>5, <2>7, <3>1 DEF StepsLeft
    <3> QED BY <2>4, <2>5, <3>1, <3>2
  <2> QED BY <2>6, <2>7
<1>2. IInv /\ [Next]_vars =>
        [/\ Publisher => StepsLeft' < StepsLeft
         /\ Others => StepsLeft' = StepsLeft]_vars
  <2>1. SUFFICES ASSUME IInv, Next
                 PROVE  /\ Publisher => StepsLeft' < StepsLeft
                        /\ Others => StepsLeft' = StepsLeft
    OBVIOUS
  <2>2. PICK max \in Nat, at \in Nat :
          max = MaxAttempts /\ at = attempt /\ 1 <= at /\ at <= max
    BY <2>1, MaxAttemptsType, RequestsAssumption DEF IInv, TypeOK, LoopInv
  <2>3. ASSUME Others PROVE StepsLeft' = StepsLeft
    BY <2>3 DEF Others, ReviewDecided, OtherFilesReview, ContextEnds, loopVars,
                StepsLeft, MaxAttempts
  <2>4. ASSUME Publisher PROVE StepsLeft' < StepsLeft
    <3>1. request' = request /\ MaxAttempts' = max
      BY <2>2, <2>4 DEF Publisher, Start, ReadState, PrepareInfos,
         CheckApplication, CreateApplication, CheckPendingReview, UploadLPK,
         SubmitReview, Wait, MaxAttempts
    <3>2. pc # "done" /\ StepsLeft = 6 * (max - at) + StepsOfAttempt[pc]
      BY <2>2, <2>4 DEF Publisher, Start, ReadState, PrepareInfos,
         CheckApplication, CreateApplication, CheckPendingReview, UploadLPK,
         SubmitReview, Wait, StepsLeft
    <3>3. CASE pc' = "done"
      <4>1. StepsOfAttempt[pc] \in 1..9
        BY <2>1, <3>2, StepsOfLabels DEF IInv, TypeOK
      <4> QED BY <2>2, <3>2, <3>3, <4>1 DEF StepsLeft
    <3>4. CASE pc' # "done" /\ ~Wait
      <4>1. attempt' = attempt /\
            \/ pc = "start" /\ pc' \in {"state", "infos", "check"}
            \/ pc = "state" /\ pc' \in {"infos", "check"}
            \/ pc = "infos" /\ pc' = "check"
            \/ pc = "check" /\ pc' \in {"create", "guard", "upload", "wait"}
            \/ pc = "create" /\ pc' \in {"guard", "upload", "wait"}
            \/ pc = "guard" /\ pc' \in {"upload", "wait"}
            \/ pc = "upload" /\ pc' \in {"submit", "wait"}
            \/ pc = "submit" /\ pc' = "wait"
        <5>1. CASE Start
          BY <3>4, <5>1 DEF Start, Fail
        <5>2. CASE ReadState \/ PrepareInfos
          BY <3>4, <5>2 DEF ReadState, PrepareInfos, Fail, Goto, loopVars
        <5>3. CASE CheckApplication
          BY <3>4, <5>3 DEF CheckApplication, AttemptFails, AfterApplication,
                            Goto, loopVars
        <5>4. CASE CreateApplication
          BY <3>4, <5>4 DEF CreateApplication, AttemptFails, AfterApplication,
                            Goto, loopVars
        <5>5. CASE CheckPendingReview
          BY <3>4, <5>5 DEF CheckPendingReview, AttemptFails, Goto, loopVars
        <5>6. CASE UploadLPK
          BY <3>4, <5>6 DEF UploadLPK, AttemptFails, Goto, loopVars
        <5>7. CASE SubmitReview
          BY <3>4, <5>7 DEF SubmitReview, AttemptFails, AttemptPublishes
        <5> QED BY <2>4, <3>4, <5>1, <5>2, <5>3, <5>4, <5>5, <5>6, <5>7
                DEF Publisher
      <4>2. /\ StepsOfAttempt[pc] \in 1..9 /\ StepsOfAttempt[pc'] \in 1..9
            /\ StepsOfAttempt[pc'] < StepsOfAttempt[pc]
        BY <4>1, StepsOfLabels
      <4> QED BY <2>2, <3>1, <3>2, <3>4, <4>1, <4>2 DEF StepsLeft
    <3>5. CASE pc' # "done" /\ Wait
      <4>1. pc = "wait" /\ pc' = "check" /\ attempt' = at + 1
        BY <2>2, <3>5 DEF Wait, Fail, NextAttempt
      <4> QED BY <2>2, <3>1, <3>2, <4>1, StepsOfLabels DEF StepsLeft
    <3> QED BY <3>3, <3>4, <3>5
  <2> QED BY <2>3, <2>4
<1> QED BY <1>1, <1>2, InductiveInvariant, PTL DEF Spec, StepsAreBounded
=============================================================================
