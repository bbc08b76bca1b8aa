---------------------------- MODULE PublishFlow ----------------------------
(***************************************************************************)
(* One call of publishflow.Flow.Publish (internal/publishflow/flow.go) with *)
(* the anonymous version lookup it may make first                          *)
(* (internal/storelookup/lookup.go).  Others publish to the same store     *)
(* while the call runs.  The two publishers are called as a whole; modules *)
(* OfficialPublish and PrivateStore have their insides.                    *)
(***************************************************************************)
EXTENDS Integers

CONSTANTS
  Version,     \* release versions, numbered in SemVer order
  Digest,      \* SHA256 digests of LPK files
  Status,      \* HTTP status codes a lookup may be answered with
  MaxAttempts, \* RetryPolicy.MaxAttempts of the lookup (3)
  None

ASSUME FlowAssumption ==
  /\ Version \subseteq Nat \ {0}
  /\ Status \subseteq 300..999
  /\ MaxAttempts \in Nat \ {0}
  /\ None \notin Version /\ None \notin Digest

Store == {"official", "private"}

(***************************************************************************)
(* What Publish reads of its request and configuration:                    *)
(*   store      the target, and enabled and strategy: its switches         *)
(*   url        a DownloadURL is given                                     *)
(*   version    the requested version                                      *)
(*   digest     ExpectedSHA256, or None                                    *)
(*   skip       SkipIfVersionExists; downgrade: Update.AllowDowngrade      *)
(*   guard      GuardOfficialReview; dry: DryRun                           *)
(***************************************************************************)
FlowRequest ==
  [store : Store, strategy : BOOLEAN, enabled : BOOLEAN, url : BOOLEAN,
   version : Version, digest : Digest \cup {None}, skip : BOOLEAN,
   downgrade : BOOLEAN, guard : BOOLEAN, dry : BOOLEAN]

\* The file at LPKPath: what lpkcheck.File and the precheck find in it.
File == [version : Version, digest : Digest, readable : BOOLEAN,
         acceptable : BOOLEAN]

\* What the calls of a publisher leave in the store: the LPK that was uploaded
\* or recorded; whether the application was created or got screenshots; whether
\* a review was filed.
Submission == [file : File \cup {None}, application : BOOLEAN, review : BOOLEAN]
Nothing == [file |-> None, application |-> FALSE, review |-> FALSE]

VARIABLES
  flow,      \* the call: its step, request, file, attempt and outcome
  online,    \* the version the store's catalog shows, or None
  submitted, \* what this call left in the store
  onlineAtStart \* history: online when the call began

flowVars == <<flow, online, submitted, onlineAtStart>>

FlowPC == {"idle", "verify", "lookup", "wait", "precheck", "publish", "done"}

\* Outcomes of the call; "pending" is an official.PendingReviewError.
FlowOutcome == {"none", "invalid", "assetMissing", "unverified", "lookupFailed",
                "skipped", "refused", "dry", "published", "pending", "failed"}

IdleFlow == [pc |-> "idle", request |-> None, file |-> None, attempt |-> 0,
             outcome |-> "none"]

FlowInit ==
  /\ flow = IdleFlow
  /\ online = None
  /\ submitted = Nothing
  /\ onlineAtStart = None

FlowTo(pc) == flow' = [flow EXCEPT !.pc = pc]
FlowEnds(outcome) == flow' = [flow EXCEPT !.pc = "done", !.outcome = outcome]

-----------------------------------------------------------------------------
\* Another publisher, or the end of a review, changes what the catalog shows;
\* catalogs go up.
OthersPublish == \E v \in Version :
  /\ flow.pc \notin {"idle", "done"}
  /\ online # None => online < v
  /\ online' = v
  /\ UNCHANGED <<flow, submitted, onlineAtStart>>

\* Publish is called while the catalog shows found; the switches and the
\* arguments are checked.
StartFlow(request, file, found) ==
  /\ flow.pc = "idle"
  /\ online' = found
  /\ onlineAtStart' = found
  /\ LET outcome ==
           IF ~request.strategy \/ ~request.enabled THEN "invalid"
           ELSE IF request.store = "private"
                   /\ (~request.url \/ request.digest = None) THEN "assetMissing"
           ELSE "none"
     IN flow' = [flow EXCEPT !.request = request, !.file = file,
                   !.outcome = outcome,
                   !.pc = IF outcome = "none" THEN "verify" ELSE "done"]
  /\ UNCHANGED submitted

\* lpkcheck.File finds the LPK of this version with a target that can be
\* normalized; the digest must be the one confirmed for the Release asset.
Verified(request, file) ==
  /\ file.readable /\ file.version = request.version
  /\ request.digest \in {None, file.digest}

\* checkExisting asks only outside dry runs and when the store's skip is on.
AsksCatalog(request) == ~request.dry /\ request.skip

VerifyArtifact ==
  /\ flow.pc = "verify"
  /\ IF Verified(flow.request, flow.file)
     THEN flow' = [flow EXCEPT
                    !.pc = IF AsksCatalog(flow.request) THEN "lookup"
                           ELSE "precheck",
                    !.attempt = IF AsksCatalog(flow.request) THEN 1 ELSE 0]
     ELSE FlowEnds("unverified")
  /\ UNCHANGED <<online, submitted, onlineAtStart>>

-----------------------------------------------------------------------------
(* storelookup.Default                                                      *)

\* The fields of lpkgo.Error that retryableLookupError reads; status 0 means
\* that no answer came, 200 that its body was unreadable or named no version.
LookupError == [code : {"RemoteUnavailable", "Other"},
                status : Status \cup {0, 200}, retryable : BOOLEAN]

LookupErrors ==
  {[code |-> "RemoteUnavailable", status |-> s, retryable |-> r] :
     s \in Status \cup {0, 200}, r \in BOOLEAN}
  \cup {[code |-> "Other", status |-> 0, retryable |-> FALSE]}

RetryableLookupError(err) ==
  /\ err.code = "RemoteUnavailable"
  /\ IF err.status = 0 THEN err.retryable
     ELSE err.status = 200 \/ err.status = 429 \/ err.status \in 500..599

NewerSemVer(onlineVersion, candidate) == onlineVersion > candidate

\* Versions of the catalog that make checkExisting skip the publication.
Skips(request, onlineVersion) ==
  \/ onlineVersion = request.version
  \/ ~request.downgrade /\ NewerSemVer(onlineVersion, request.version)

\* The catalog answers, with a version or with not found.
LookupAnswered ==
  /\ flow.pc = "lookup"
  /\ IF online # None /\ Skips(flow.request, online)
     THEN FlowEnds("skipped") ELSE FlowTo("precheck")
  /\ UNCHANGED <<online, submitted, onlineAtStart>>

LastAttempt_OneMore == flow.attempt > MaxAttempts
LastAttempt == flow.attempt = MaxAttempts

NextAttempt_NotCounted == flow.attempt
NextAttempt == flow.attempt + 1

\* What is done with an error that is not retried.
LookupGivesUp_Publishes == FlowTo("precheck")
LookupGivesUp == FlowEnds("lookupFailed")

LookupFails == \E err \in LookupErrors :
  /\ flow.pc = "lookup"
  /\ IF LastAttempt \/ ~RetryableLookupError(err)
     THEN LookupGivesUp
     ELSE FlowTo("wait")
  /\ UNCHANGED <<online, submitted, onlineAtStart>>

\* waitForRetry, and the loop header of the next attempt.
WaitForRetry ==
  /\ flow.pc = "wait"
  /\ flow' = [flow EXCEPT !.pc = "lookup", !.attempt = NextAttempt]
  /\ UNCHANGED <<online, submitted, onlineAtStart>>

\* The context ends during an attempt or the wait after it.
LookupCancelled ==
  /\ flow.pc \in {"lookup", "wait"}
  /\ FlowEnds("lookupFailed")
  /\ UNCHANGED <<online, submitted, onlineAtStart>>

-----------------------------------------------------------------------------
(* The precheck and the publisher                                           *)

Precheck ==
  /\ flow.pc = "precheck"
  /\ IF flow.request.store = "official" /\ ~flow.file.acceptable
     THEN FlowEnds("refused")
     ELSE IF flow.request.dry THEN FlowEnds("dry") ELSE FlowTo("publish")
  /\ UNCHANGED <<online, submitted, onlineAtStart>>

\* publishOfficial or publishPrivate returns a result.
Published ==
  /\ flow.pc = "publish"
  /\ submitted' \in [file : {flow.file}, application : BOOLEAN,
                     review : {flow.request.store = "official"}]
  /\ FlowEnds("published")
  /\ UNCHANGED <<online, onlineAtStart>>

\* What may be in the official store when its guard is asked: screenshots of a
\* PAT submission, an application that an attempt created, and the LPK uploaded
\* by an earlier attempt whose answer was lost.  An attempt whose review may
\* have been filed is not retried.
BeforeGuard ==
  [file : {None, flow.file}, application : BOOLEAN, review : {FALSE}]

\* The guard of the official publisher saw a waiting review, in one of its
\* attempts: the call ends with a PendingReviewError.
ReviewPends ==
  /\ flow.pc = "publish"
  /\ flow.request.store = "official" /\ flow.request.guard
  /\ submitted' \in BeforeGuard
  /\ FlowEnds("pending")
  /\ UNCHANGED <<online, onlineAtStart>>

\* Missing credentials or an error of the publisher, which may come after any
\* of its calls was served.
PublisherFails ==
  /\ flow.pc = "publish"
  /\ submitted' \in [file : {None, flow.file}, application : BOOLEAN,
                     review : BOOLEAN]
  /\ submitted'.review =>
       flow.request.store = "official" /\ submitted'.file = flow.file
  /\ FlowEnds("failed")
  /\ UNCHANGED <<online, onlineAtStart>>

FlowStep ==
  \/ VerifyArtifact
  \/ LookupAnswered \/ LookupFails \/ WaitForRetry \/ LookupCancelled
  \/ Precheck \/ Published \/ ReviewPends \/ PublisherFails

FlowTypeOK ==
  /\ flow \in [pc : FlowPC, request : FlowRequest \cup {None},
               file : File \cup {None}, attempt : 0..MaxAttempts,
               outcome : FlowOutcome]
  /\ online \in Version \cup {None}
  /\ onlineAtStart \in Version \cup {None}
  /\ submitted \in Submission

(***************************************************************************)
(* checkExisting: with skip_if_version_exists, a version that was online   *)
(* when the call began, or is older than the one that was, causes no call  *)
(* that changes the store, whatever the lookup went through, except that   *)
(* with AllowDowngrade a newer version may have hidden the same one        *)
(* meanwhile; and the file that is submitted is the one that was verified. *)
(* (A version that goes online between the answer and the publication is   *)
(* not seen.)                                                              *)
(***************************************************************************)
HiddenMeanwhile ==
  flow.request.downgrade /\ NewerSemVer(online, flow.request.version)

SubmitsNewVerifiedFiles ==
  submitted # Nothing =>
    /\ (flow.request.skip /\ onlineAtStart # None) =>
         ~Skips(flow.request, onlineAtStart) \/ HiddenMeanwhile
    /\ submitted.file # None =>
         /\ submitted.file.version = flow.request.version
         /\ flow.request.digest \in {None, submitted.file.digest}
         /\ flow.request.store = "official" => submitted.file.acceptable
=============================================================================
