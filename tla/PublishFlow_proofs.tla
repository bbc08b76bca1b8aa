------------------------- MODULE PublishFlow_proofs -------------------------
(***************************************************************************)
(* Proofs about the steps of module PublishFlow, for any versions, digests *)
(* and number of lookup attempts: each step of a call and of the other     *)
(* publishers keeps an invariant of the call.  Module ActionRun_proofs     *)
(* makes theorems of the process that calls it from these.                 *)
(***************************************************************************)
EXTENDS PublishFlow, TLAPS

\* What checkExisting decided still decides: the version that was online when
\* the call began is no reason to skip, or a newer one hid it.
StartWasNoReason ==
  (flow.request.skip /\ onlineAtStart # None) =>
    ~Skips(flow.request, onlineAtStart) \/ HiddenMeanwhile

\* The catalog only went up since the call began.
CatalogGoesUp ==
  (flow.pc # "idle" /\ onlineAtStart # None) =>
    online # None /\ online >= onlineAtStart

\* The request and the file are there once the call began, and from the lookup
\* on the file is the one that was verified.
CallInv ==
  /\ flow.pc # "idle" => flow.request \in FlowRequest /\ flow.file \in File
  /\ flow.pc = "wait" => flow.attempt < MaxAttempts
  /\ flow.pc \in {"lookup", "wait", "precheck", "publish"} =>
       Verified(flow.request, flow.file)

\* What was decided before the publisher is called.
DecidedInv ==
  /\ flow.pc \in {"precheck", "publish"} /\ ~flow.request.dry =>
       StartWasNoReason
  /\ flow.pc = "publish" =>
       /\ ~flow.request.dry
       /\ flow.request.store = "official" => flow.file.acceptable

\* Only a call that ended and was no dry run may have changed the store.
SubmittedInv ==
  submitted # Nothing => flow.pc = "done" /\ ~flow.request.dry

\* The guard of the official store ends the call before a review is filed.
PendingInv ==
  flow.outcome = "pending" =>
    /\ flow.pc = "done" /\ ~submitted.review
    /\ flow.request.guard /\ flow.request.store = "official"

FlowInv ==
  /\ FlowTypeOK /\ CallInv /\ CatalogGoesUp /\ DecidedInv /\ SubmittedInv
  /\ PendingInv /\ SubmitsNewVerifiedFiles

FlowRecord ==
  [pc : FlowPC, request : FlowRequest \cup {None}, file : File \cup {None},
   attempt : 0..MaxAttempts, outcome : FlowOutcome]

-----------------------------------------------------------------------------
\* Versions are numbers, and none of them says that there is none.
LEMMA VersionsAreNumbers ==
  /\ Version \subseteq Nat /\ None \notin Version
  /\ \A v \in Version \cup {None} : v # None => v \in Nat
  BY FlowAssumption

\* The parts of the call's record are typed one by one.
LEMMA CallFields ==
  ASSUME FlowInv
  PROVE  /\ flow \in FlowRecord /\ flow.pc \in FlowPC
         /\ flow.attempt \in 0..MaxAttempts
         /\ online \in Version \cup {None}
         /\ onlineAtStart \in Version \cup {None}
         /\ submitted \in Submission
  BY DEF FlowInv, FlowTypeOK, FlowRecord

\* A call that has not begun satisfies the invariant.
LEMMA IdleCall ==
  ASSUME FlowInit
  PROVE  FlowInv
<1>1. FlowTypeOK
  BY FlowAssumption DEF FlowInit, IdleFlow, FlowTypeOK, FlowPC, FlowOutcome,
                        Nothing, Submission
<1> QED BY <1>1 DEF FlowInit, IdleFlow, FlowInv, CallInv, CatalogGoesUp,
           DecidedInv, SubmittedInv, PendingInv, SubmitsNewVerifiedFiles

\* A step that changes nothing of the flow keeps its invariant.
LEMMA FlowUnchanged ==
  ASSUME FlowInv, UNCHANGED flowVars
  PROVE  FlowInv'
  BY DEF FlowInv, flowVars, FlowTypeOK, CallInv, CatalogGoesUp, DecidedInv,
         StartWasNoReason, HiddenMeanwhile, SubmittedInv, PendingInv,
         SubmitsNewVerifiedFiles

\* A step that ends the call without a submission keeps the invariant.
LEMMA EndKeeps ==
  ASSUME FlowInv, NEW outcome \in FlowOutcome \ {"pending"}, FlowEnds(outcome),
         flow.pc # "idle", flow.pc # "done",
         UNCHANGED <<online, submitted, onlineAtStart>>
  PROVE  FlowInv'
<1>1. flow' \in FlowRecord /\ flow'.pc = "done" /\ flow'.request = flow.request
      /\ flow'.file = flow.file /\ flow'.outcome # "pending"
  BY CallFields DEF FlowEnds, FlowRecord, FlowPC
<1>2. submitted' = Nothing
  BY DEF FlowInv, SubmittedInv
<1>3. FlowTypeOK' /\ CallInv' /\ CatalogGoesUp'
  BY <1>1, CallFields DEF FlowInv, FlowTypeOK, CallInv, CatalogGoesUp, FlowRecord
<1> QED BY <1>1, <1>2, <1>3
        DEF FlowInv, DecidedInv, SubmittedInv, PendingInv, SubmitsNewVerifiedFiles

\* A step to another place of the call keeps the invariant, if it establishes
\* what holds there.
LEMMA MoveKeeps ==
  ASSUME FlowInv, NEW pc \in FlowPC \ {"idle", "done"},
         NEW attempt \in 0..MaxAttempts,
         flow' = [flow EXCEPT !.pc = pc, !.attempt = attempt],
         flow.pc # "idle", flow.pc # "done",
         UNCHANGED <<online, submitted, onlineAtStart>>,
         pc = "wait" => attempt < MaxAttempts,
         pc \in {"lookup", "wait", "precheck", "publish"} =>
           Verified(flow.request, flow.file),
         pc \in {"precheck", "publish"} /\ ~flow.request.dry => StartWasNoReason,
         pc = "publish" =>
           /\ ~flow.request.dry
           /\ flow.request.store = "official" => flow.file.acceptable
  PROVE  FlowInv'
<1>1. /\ flow' \in FlowRecord /\ flow'.pc = pc /\ flow'.attempt = attempt
      /\ flow'.request = flow.request /\ flow'.file = flow.file
      /\ flow'.outcome = flow.outcome
  BY CallFields DEF FlowRecord
<1>2. submitted' = Nothing /\ flow.outcome # "pending"
  BY DEF FlowInv, SubmittedInv, PendingInv
<1>3. FlowTypeOK' /\ CallInv' /\ CatalogGoesUp'
  BY <1>1, CallFields DEF FlowInv, FlowTypeOK, CallInv, CatalogGoesUp, FlowRecord
<1>4. DecidedInv'
  BY <1>1 DEF DecidedInv, StartWasNoReason, HiddenMeanwhile
<1> QED BY <1>1, <1>2, <1>3, <1>4
        DEF FlowInv, SubmittedInv, PendingInv, SubmitsNewVerifiedFiles

\* Other publishers change the catalog only upwards, while the call runs.
LEMMA OthersKeep ==
  ASSUME FlowInv, OthersPublish
  PROVE  FlowInv'
<1>1. PICK v \in Version : online' = v /\ (online # None => online < v)
  BY DEF OthersPublish
<1>2. flow' = flow /\ submitted' = submitted /\ onlineAtStart' = onlineAtStart
      /\ submitted = Nothing /\ v # None /\ v \in Nat
  BY VersionsAreNumbers DEF OthersPublish, FlowInv, SubmittedInv
<1>3. FlowTypeOK' /\ CallInv'
  BY <1>1, <1>2 DEF FlowInv, FlowTypeOK, CallInv
<1>4. online # None => online \in Nat /\ online < v
  BY <1>1, CallFields, VersionsAreNumbers
<1>5. CatalogGoesUp'
  <2>1. SUFFICES ASSUME onlineAtStart # None
                 PROVE  v >= onlineAtStart
    BY <1>1, <1>2 DEF CatalogGoesUp
  <2>2. online # None /\ online >= onlineAtStart
    BY <2>1 DEF OthersPublish, FlowInv, CatalogGoesUp
  <2>3. onlineAtStart \in Nat
    BY <2>1, CallFields, VersionsAreNumbers
  <2> QED BY <1>2, <1>4, <2>2, <2>3
<1>6. StartWasNoReason => StartWasNoReason' \/ flow.request \notin FlowRequest
  <2>1. SUFFICES ASSUME StartWasNoReason, flow.request \in FlowRequest,
                        onlineAtStart # None, HiddenMeanwhile
                 PROVE  HiddenMeanwhile'
    BY <1>2 DEF StartWasNoReason
  <2>2. CASE flow.pc = "idle"
    BY <2>2 DEF OthersPublish
  <2>3. CASE flow.pc # "idle"
    <3>1. online # None
      BY <2>1, <2>3 DEF FlowInv, CatalogGoesUp
    <3>2. flow.request.version \in Nat
      BY <2>1, VersionsAreNumbers DEF FlowRequest
    <3> QED BY <1>1, <1>2, <1>4, <2>1, <3>1, <3>2
            DEF HiddenMeanwhile, NewerSemVer
  <2> QED BY <2>2, <2>3
<1>7. DecidedInv'
  BY <1>2, <1>6 DEF FlowInv, CallInv, DecidedInv
<1> QED BY <1>2, <1>3, <1>5, <1>7
        DEF FlowInv, SubmittedInv, PendingInv, SubmitsNewVerifiedFiles

\* Publish is called with a request and a file that are typed.
LEMMA StartKeeps ==
  ASSUME FlowInv, NEW request \in FlowRequest, NEW file \in File,
         NEW found \in Version \cup {None}, StartFlow(request, file, found)
  PROVE  FlowInv' /\ flow'.request = request
<1>1. PICK pc \in {"verify", "done"}, outcome \in {"none", "invalid", "assetMissing"} :
        flow' = [flow EXCEPT !.request = request, !.file = file,
                   !.outcome = outcome, !.pc = pc]
  BY DEF StartFlow
<1>2. /\ flow' \in FlowRecord /\ flow'.pc = pc
      /\ flow'.request = request /\ flow'.file = file
      /\ flow'.outcome # "pending"
  BY <1>1, CallFields DEF FlowRecord, FlowPC, FlowOutcome
<1>3. submitted' = Nothing /\ online' = found /\ onlineAtStart' = found
  BY DEF StartFlow, FlowInv, SubmittedInv
<1>4. found # None => found \in Nat /\ found >= found
  BY VersionsAreNumbers
<1>5. FlowTypeOK' /\ CallInv' /\ CatalogGoesUp'
  BY <1>2, <1>3, <1>4 DEF FlowTypeOK, CallInv, CatalogGoesUp, FlowRecord,
                          Nothing, Submission
<1> QED BY <1>2, <1>3, <1>5
        DEF FlowInv, DecidedInv, SubmittedInv, PendingInv, SubmitsNewVerifiedFiles

\* The answer of the catalog lets a version through only if the one that was
\* online at the start is no reason to skip it.
LEMMA AnswerDecides ==
  ASSUME FlowInv, flow.pc = "lookup",
         online = None \/ ~Skips(flow.request, online)
  PROVE  StartWasNoReason
<1>1. SUFFICES ASSUME onlineAtStart # None
               PROVE  ~Skips(flow.request, onlineAtStart) \/ HiddenMeanwhile
  BY DEF StartWasNoReason
<1>2. online # None /\ online >= onlineAtStart
  BY <1>1 DEF FlowInv, CatalogGoesUp
<1>3. online \in Nat /\ onlineAtStart \in Nat
  BY <1>1, <1>2, CallFields, VersionsAreNumbers
<1>4. flow.request.version \in Nat /\ flow.request.downgrade \in BOOLEAN
  BY VersionsAreNumbers DEF FlowInv, CallInv, FlowRequest
<1> QED BY <1>2, <1>3, <1>4 DEF Skips, HiddenMeanwhile, NewerSemVer

\* What the publisher leaves in the store is verified and new, and without a
\* review if the guard stopped it.
LEMMA SubmissionKeeps ==
  ASSUME FlowInv, flow.pc = "publish", submitted' \in Submission,
         submitted'.file \in {None, flow.file},
         NEW outcome \in {"published", "failed", "pending"}, FlowEnds(outcome),
         outcome = "pending" =>
           /\ ~submitted'.review
           /\ flow.request.guard /\ flow.request.store = "official",
         UNCHANGED <<online, onlineAtStart>>
  PROVE  FlowInv'
<1>1. /\ flow' \in FlowRecord /\ flow'.pc = "done" /\ flow'.outcome = outcome
      /\ flow'.request = flow.request /\ flow'.file = flow.file
  BY CallFields DEF FlowEnds, FlowRecord, FlowPC, FlowOutcome
<1>2. flow.file \in File /\ ~flow.request.dry
  BY DEF FlowInv, CallInv, DecidedInv
<1>3. FlowTypeOK' /\ CallInv' /\ CatalogGoesUp'
  BY <1>1, <1>2, CallFields
  DEF FlowInv, FlowTypeOK, CallInv, CatalogGoesUp, FlowRecord
<1>4. SubmitsNewVerifiedFiles'
  BY <1>1, <1>2 DEF FlowInv, CallInv, DecidedInv, StartWasNoReason,
     HiddenMeanwhile, Verified, SubmitsNewVerifiedFiles
<1> QED BY <1>1, <1>2, <1>3, <1>4 DEF FlowInv, DecidedInv, SubmittedInv, PendingInv

-----------------------------------------------------------------------------
\* Every step of the call keeps the invariant.
LEMMA FlowStepKeeps ==
  ASSUME FlowInv, FlowStep
  PROVE  FlowInv' /\ flow'.request = flow.request /\ flow.pc # "idle"
<1> USE CallFields
<1>a. flow \in FlowRecord
  OBVIOUS
<1>1. CASE VerifyArtifact
  <2>1. flow.pc = "verify"
    BY <1>1 DEF VerifyArtifact
  <2>2. CASE ~Verified(flow.request, flow.file)
    BY <1>1, <2>1, <2>2, EndKeeps DEF VerifyArtifact, FlowOutcome, FlowEnds, FlowRecord
  <2>3. CASE Verified(flow.request, flow.file) /\ AsksCatalog(flow.request)
    <3>1. flow' = [flow EXCEPT !.pc = "lookup", !.attempt = 1]
      BY <1>1, <2>3 DEF VerifyArtifact
    <3>2. 1 \in 0..MaxAttempts
      BY FlowAssumption
    <3>3. FlowInv'
      BY <1>1, <2>1, <2>3, <3>1, <3>2, MoveKeeps DEF VerifyArtifact, FlowPC
    <3> QED BY <2>1, <3>1, <3>3 DEF FlowRecord
  <2>4. CASE Verified(flow.request, flow.file) /\ ~AsksCatalog(flow.request)
    <3>1. flow' = [flow EXCEPT !.pc = "precheck", !.attempt = 0]
      BY <1>1, <2>4 DEF VerifyArtifact
    <3>2. 0 \in 0..MaxAttempts
      BY FlowAssumption
    <3>3. ~flow.request.dry => StartWasNoReason
      BY <2>4 DEF AsksCatalog, StartWasNoReason
    <3>4. FlowInv'
      BY <1>1, <2>1, <2>4, <3>1, <3>2, <3>3, MoveKeeps DEF VerifyArtifact, FlowPC
    <3> QED BY <2>1, <3>1, <3>4 DEF FlowRecord
  <2> QED BY <2>2, <2>3, <2>4
<1>2. CASE LookupAnswered
  <2>1. flow.pc = "lookup" /\ Verified(flow.request, flow.file)
    BY <1>2 DEF LookupAnswered, FlowInv, CallInv
  <2>2. CASE online # None /\ Skips(flow.request, online)
    BY <1>2, <2>1, <2>2, EndKeeps DEF LookupAnswered, FlowOutcome, FlowEnds, FlowRecord
  <2>3. CASE online = None \/ ~Skips(flow.request, online)
    <3>1. flow' = [flow EXCEPT !.pc = "precheck", !.attempt = flow.attempt]
      BY <1>2, <2>3 DEF LookupAnswered, FlowTo, FlowRecord
    <3>2. StartWasNoReason
      BY <2>1, <2>3, AnswerDecides
    <3>3. UNCHANGED <<online, submitted, onlineAtStart>>
      BY <1>2 DEF LookupAnswered
    <3>4. FlowInv'
      <4>1. "precheck" \in FlowPC \ {"idle", "done"}
        BY DEF FlowPC
      <4> QED BY <2>1, <3>1, <3>2, <3>3, <4>1, MoveKeeps
    <3> QED BY <2>1, <3>1, <3>4 DEF FlowRecord
  <2> QED BY <2>2, <2>3
<1>3. CASE LookupFails
  <2>1. flow.pc = "lookup" /\ Verified(flow.request, flow.file)
    BY <1>3 DEF LookupFails, FlowInv, CallInv
  <2>2. CASE LookupGivesUp
    BY <1>3, <2>1, <2>2, EndKeeps
    DEF LookupFails, LookupGivesUp, FlowOutcome, FlowEnds, FlowRecord
  <2>3. CASE ~LastAttempt /\ FlowTo("wait")
    <3>1. flow' = [flow EXCEPT !.pc = "wait", !.attempt = flow.attempt]
      BY <2>3 DEF FlowTo, FlowRecord
    <3>2. flow.attempt < MaxAttempts
      BY <2>3, FlowAssumption DEF LastAttempt
    <3>3. FlowInv'
      BY <1>3, <2>1, <3>1, <3>2, MoveKeeps DEF LookupFails, FlowPC
    <3> QED BY <2>1, <3>1, <3>3 DEF FlowRecord
  <2> QED BY <1>3, <2>2, <2>3 DEF LookupFails
<1>4. CASE WaitForRetry
  <2>1. flow.pc = "wait" /\ Verified(flow.request, flow.file)
        /\ flow.attempt < MaxAttempts
    BY <1>4 DEF WaitForRetry, FlowInv, CallInv
  <2>2. flow.attempt + 1 \in 0..MaxAttempts
    BY <2>1, FlowAssumption
  <2>3. flow' = [flow EXCEPT !.pc = "lookup", !.attempt = flow.attempt + 1]
    BY <1>4 DEF WaitForRetry, NextAttempt
  <2>4. UNCHANGED <<online, submitted, onlineAtStart>>
    BY <1>4 DEF WaitForRetry
  <2>5. FlowInv'
    <3>1. "lookup" \in FlowPC \ {"idle", "done"}
      BY DEF FlowPC
    <3> QED BY <2>1, <2>2, <2>3, <2>4, <3>1, MoveKeeps
  <2> QED BY <2>1, <2>3, <2>5 DEF FlowRecord
<1>5. CASE LookupCancelled
  BY <1>5, EndKeeps DEF LookupCancelled, FlowOutcome, FlowEnds, FlowRecord
<1>6. CASE Precheck
  <2>1. flow.pc = "precheck" /\ Verified(flow.request, flow.file)
        /\ (~flow.request.dry => StartWasNoReason)
    BY <1>6 DEF Precheck, FlowInv, CallInv, DecidedInv
  <2>2. CASE FlowEnds("refused") \/ FlowEnds("dry")
    BY <1>6, <2>1, <2>2, EndKeeps DEF Precheck, FlowOutcome, FlowEnds, FlowRecord
  <2>3. CASE /\ FlowTo("publish") /\ ~flow.request.dry
             /\ ~(flow.request.store = "official" /\ ~flow.file.acceptable)
    <3>1. flow' = [flow EXCEPT !.pc = "publish", !.attempt = flow.attempt]
      BY <2>3 DEF FlowTo, FlowRecord
    <3>2. UNCHANGED <<online, submitted, onlineAtStart>>
      BY <1>6 DEF Precheck
    <3>3. FlowInv'
      <4>1. "publish" \in FlowPC \ {"idle", "done"}
        BY DEF FlowPC
      <4> QED BY <2>1, <2>3, <3>1, <3>2, <4>1, MoveKeeps
    <3> QED BY <2>1, <3>1, <3>3 DEF FlowRecord
  <2> QED BY <1>6, <2>2, <2>3 DEF Precheck
<1>7. CASE Published \/ ReviewPends \/ PublisherFails
  <2>1. flow.pc = "publish" /\ flow.file \in File
    BY <1>7 DEF Published, ReviewPends, PublisherFails, FlowInv, CallInv
  <2>2. PICK outcome \in {"published", "failed", "pending"} :
          /\ FlowEnds(outcome)
          /\ outcome = "pending" => ReviewPends
    BY <1>7 DEF Published, ReviewPends, PublisherFails
  <2>3. /\ submitted' \in Submission /\ submitted'.file \in {None, flow.file}
        /\ ReviewPends => ~submitted'.review
    BY <1>7, <2>1
    DEF Published, ReviewPends, PublisherFails, BeforeGuard, Submission
  <2>4. UNCHANGED <<online, onlineAtStart>>
    BY <1>7 DEF Published, ReviewPends, PublisherFails
  <2>5. FlowInv'
    BY <2>1, <2>2, <2>3, <2>4, SubmissionKeeps DEF ReviewPends
  <2> QED BY <2>1, <2>2, <2>5 DEF FlowEnds, FlowRecord
<1> QED BY <1>1, <1>2, <1>3, <1>4, <1>5, <1>6, <1>7 DEF FlowStep
=============================================================================
