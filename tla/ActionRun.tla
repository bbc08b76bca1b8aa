----------------------------- MODULE ActionRun -----------------------------
(***************************************************************************)
(* One process of the Action: action.Run (internal/action/action.go) with  *)
(* the license and changelog steps, the build (LPKBuild) and the store     *)
(* publication (PublishFlow) it calls.  Every call of a dependency is one  *)
(* step and may fail; reviewers and other publishers act between steps.    *)
(***************************************************************************)
EXTENDS PublishFlow, LPKBuild

CONSTANTS Inputs   \* the inputs and configurations the process may have

ASSUME VersionsAgree == PackageVersion = Version \cup {0}

(***************************************************************************)
(* What Run reads of its input and configuration.                          *)
(*   requested, event, tag, imageID, version   INPUT_OPERATION, the event, *)
(*        a tag ref, an image-id that is not the version source's, and     *)
(*        INPUT_VERSION (0: none)                                          *)
(*   source, publish, official, continue       update.version_source.type, *)
(*        strategy publish, official.enabled and                           *)
(*        ShouldContinueIfNewerVersion                                     *)
(*   request     the rest of a store publication, None for other requests  *)
(***************************************************************************)
Input ==
  [requested : {"auto", "check", "build", "publish-official", "publish-private"},
   event : {"schedule", "workflow_dispatch", "push", "release", "pull_request"},
   tag : BOOLEAN, imageID : BOOLEAN, version : PackageVersion,
   source : {"image", "git"}, publish : BOOLEAN, official : BOOLEAN,
   continue : BOOLEAN, dry : BOOLEAN, request : FlowRequest \cup {None}]

\* A publication is requested, and never the meaning of another request.
ASSUME InputsAssumption ==
  /\ Inputs \subseteq Input
  /\ \A i \in Inputs : i.requested \in {"publish-official", "publish-private"} =>
       i.request # None

VARIABLES
  input,     \* never changes
  run,       \* the process: its step, operation and locals
  result,    \* what Run returned, or will
  resultFile,\* result.json, or None
  copied,    \* an image was copied to the LazyCat registry
  homepage,  \* the repository's website: "empty", "theirs" or "ours"
  original   \* history: the workspace and the homepage before the run

runVars == <<input, run, result, resultFile, copied, homepage, original>>
vars == <<ws, buildVars, flowVars, runVars>>

RunPC == {"start", "gate", "build", "check", "deliver", "notes", "apply",
          "license", "version", "inspect", "building", "rollback",
          "publish", "publishing", "write", "homepage", "done"}
Operation == {"check", "build", "publish-official", "publish-private", "invalid"}
\* unwritten: the run failed because writeResult could not replace the file.
RunStatus == {"running", "ok", "paused", "failed", "unwritten"}

\* reviewVersion is officialReviewVersion; candidate and images are the checked
\* version and images; from is the version before SetVersion changed it, 0 if
\* it did not or there was none; stuck: the rollback failed.
Run == [pc : RunPC, op : Operation, reviewVersion : PackageVersion,
        candidate : PackageVersion, images : Images, from : PackageVersion,
        stuck : BOOLEAN]
Result == [status : RunStatus, version : PackageVersion, changed : BOOLEAN,
           lpk : LPK \cup {NoFile}]

-----------------------------------------------------------------------------
\* ResolveOperation: which operation the request and the event mean.
ResolveOperation(i) ==
  IF i.requested = "check" /\ i.source = "git"
  THEN IF i.event = "release" \/ i.tag \/ i.imageID THEN "invalid" ELSE "build"
  ELSE IF i.requested # "auto" THEN i.requested
  ELSE IF /\ i.source = "image"
          /\ \/ i.event = "schedule"
             \/ i.event = "workflow_dispatch" /\ i.version = 0
  THEN "check" ELSE "build"

ShouldPauseForOfficialReview(i, op) ==
  /\ ~i.dry /\ i.requested = "auto" /\ i.publish /\ i.official
  /\ i.event \in {"schedule", "workflow_dispatch"}
  /\ op \in {"check", "build"}

EffectiveVersion == IF input.version = 0 THEN ws.version ELSE input.version

Goto(pc) == run' = [run EXCEPT !.pc = pc]
Fails == Goto("done") /\ result' = [result EXCEPT !.status = "failed"]

\* Everything a step outside build and publication leaves alone, besides what
\* it names.
OutsideCalls == UNCHANGED <<buildVars, flowVars, input, original>>
StoresNothing == UNCHANGED <<resultFile, copied, homepage>>

Init ==
  /\ BuildInit /\ FlowInit
  /\ input \in Inputs
  /\ run = [pc |-> "start", op |-> "invalid", reviewVersion |-> 0,
            candidate |-> 0, images |-> ws.images, from |-> 0, stuck |-> FALSE]
  /\ result = [status |-> "running", version |-> 0, changed |-> FALSE,
               lpk |-> NoFile]
  /\ resultFile = None
  /\ copied = FALSE
  /\ homepage \in {"empty", "theirs"}
  /\ original = [ws |-> ws, homepage |-> homepage]

-----------------------------------------------------------------------------
(* Run, up to the operation                                                 *)

OperationStep(op) ==
  IF op \in {"check", "build"} THEN op ELSE "publish"

\* Configuration, template and toolchains are validated, the project inspected.
Start ==
  /\ run.pc = "start"
  /\ LET op == ResolveOperation(input) IN
     \/ Fails
     \/ /\ op # "invalid"
        /\ run' = [run EXCEPT !.op = op,
                     !.pc = IF ShouldPauseForOfficialReview(input, op)
                            THEN "gate" ELSE OperationStep(op)]
        /\ UNCHANGED result
  /\ UNCHANGED ws /\ OutsideCalls /\ StoresNothing

\* pausedOfficialReviewResult: the pause is a result, and is written.
Pauses ==
  /\ Goto("write")
  /\ result' = [result EXCEPT !.status = "paused"]

\* Only an image check compares its candidate with the waiting review.
ComparesReview == run.op = "check" /\ input.continue

\* WaitingReviewVersion fails, or answers with the review that waits; 0: none.
QueryReview == \E review \in PackageVersion :
  /\ run.pc = "gate"
  /\ \/ Fails
     \/ /\ review # 0 /\ ~ComparesReview
        /\ Pauses
     \/ /\ review = 0 \/ ComparesReview
        /\ run' = [run EXCEPT !.reviewVersion = review,
                              !.pc = OperationStep(run.op)]
        /\ UNCHANGED result
  /\ UNCHANGED ws /\ OutsideCalls /\ StoresNothing

-----------------------------------------------------------------------------
(* runBuild and runCheck, up to the edits                                   *)

\* runBuild: a version is needed; the changelog is resolved.
PrepareBuild ==
  /\ run.pc = "build"
  /\ \/ Fails
     \/ /\ EffectiveVersion # 0
        /\ run' = [run EXCEPT !.candidate = EffectiveVersion, !.pc = "license"]
        /\ result' = [result EXCEPT !.version = EffectiveVersion,
                        !.changed = ws.version # EffectiveVersion]
  /\ UNCHANGED ws /\ OutsideCalls /\ StoresNothing

\* runCheck's own guards.
CheckAllowed ==
  /\ input.source = "image"
  /\ ~(input.publish /\ input.imageID)
  /\ input.event # "release" /\ ~input.tag

\* A waiting review that is not older than the candidate pauses the run.
ReviewCovers(candidate) ==
  run.reviewVersion # 0 /\ run.reviewVersion >= candidate

\* CheckImages selects a version and new image references (module ImageFlow);
\* the comparison with the review comes before delivery and edits.
SelectImages ==
  /\ run.pc = "check"
  /\ \/ Fails
     \/ /\ CheckAllowed
        /\ \E candidate \in Version, images \in Images :
             IF ReviewCovers(candidate) THEN Pauses
             ELSE /\ run' = [run EXCEPT !.candidate = candidate,
                               !.images = images, !.pc = "deliver"]
                  /\ UNCHANGED result
  /\ UNCHANGED ws /\ OutsideCalls /\ StoresNothing

\* Images are copied or looked up at the mirror; a dry run copies nothing.
DeliverImages ==
  /\ run.pc = "deliver"
  /\ \/ Fails /\ UNCHANGED copied
     \/ /\ copied' \in IF input.dry THEN {copied} ELSE {copied, TRUE}
        /\ Goto("notes") /\ UNCHANGED result
  /\ UNCHANGED <<ws, resultFile, homepage>> /\ OutsideCalls

\* BeforeApply resolves the changelog while nothing has been edited.
ResolveChangelog ==
  /\ run.pc = "notes"
  /\ \/ Fails
     \/ Goto("apply") /\ UNCHANGED result
  /\ UNCHANGED ws /\ OutsideCalls /\ StoresNothing

\* The manifest is replaced, outside dry runs; the directory's synchronisation
\* may fail after that.
ApplyManifest ==
  /\ run.pc = "apply"
  /\ \/ Fails /\ UNCHANGED ws
     \/ /\ ~input.dry /\ run.images # ws.images
        /\ ws' = [ws EXCEPT !.images = run.images]
        /\ Fails
     \/ /\ ws' = IF input.dry THEN ws ELSE [ws EXCEPT !.images = run.images]
        /\ Goto("license")
        /\ result' = [result EXCEPT !.version = run.candidate,
             !.changed = run.images # ws.images \/ run.candidate # ws.version]
  /\ OutsideCalls /\ StoresNothing

-----------------------------------------------------------------------------
(* The edits of package.yml                                                 *)

SyncsLicense == ~input.dry

NeedsBuild_NewImages ==
  ~input.dry /\ (run.op = "check" => run.images # original.ws.images)
\* An image check without an image or version change needs no build.
NeedsBuild ==
  /\ ~input.dry
  /\ run.op = "check" =>
       run.images # original.ws.images \/ run.candidate # ws.version

\* syncLicense: best effort; whatever fails, the license stays and the run goes
\* on.
SyncLicense ==
  /\ run.pc = "license"
  /\ \E license \in IF SyncsLicense THEN License ELSE {ws.license} :
       /\ ws' = [ws EXCEPT !.license = license]
       /\ result' = [result EXCEPT !.changed = @ \/ license # ws.license]
  /\ Goto(IF NeedsBuild THEN "version" ELSE "write")
  /\ OutsideCalls /\ StoresNothing

\* SetVersion: one replacement of package.yml.
SetVersion ==
  /\ run.pc = "version"
  /\ \/ Fails /\ UNCHANGED ws
     \/ /\ ws' = [ws EXCEPT !.version = run.candidate]
        /\ run' = [run EXCEPT !.pc = "inspect", !.from =
                     IF ws.version = run.candidate THEN 0 ELSE ws.version]
        /\ UNCHANGED result
  /\ OutsideCalls /\ StoresNothing

\* The steps whose failure calls rollbackVersion.
RollsBack_BuildOnly(step) == step = "building"
RollsBack(step) == step \in {"inspect", "building"}

FailsAfterEdit == IF RollsBack(run.pc) THEN Goto("rollback") /\ UNCHANGED result
                  ELSE Fails

InspectUpdated ==
  /\ run.pc = "inspect"
  /\ \/ FailsAfterEdit /\ UNCHANGED <<ws, buildVars>>
     \/ StartBuild(run.candidate) /\ Goto("building") /\ UNCHANGED result
  /\ UNCHANGED <<flowVars, input, original>> /\ StoresNothing

Building ==
  /\ run.pc = "building"
  /\ BuildStep
  /\ UNCHANGED <<flowVars, runVars>>

\* Build returned; the target platform is the one it was asked for.
BuildReturned ==
  /\ run.pc = "building"
  /\ \/ build.pc = "failed" /\ FailsAfterEdit
     \/ /\ build.pc = "built"
        /\ Goto("write")
        /\ result' = [result EXCEPT !.lpk = output]
  /\ UNCHANGED ws /\ OutsideCalls /\ StoresNothing

\* rollbackVersion: only a version that was there before is restored, and an
\* error of the restoration is ignored.
RollbackVersion ==
  /\ run.pc = "rollback"
  /\ \/ /\ ws' = IF run.from = 0 THEN ws ELSE [ws EXCEPT !.version = run.from]
        /\ Fails
     \/ /\ run.from # 0
        /\ UNCHANGED ws
        /\ run' = [run EXCEPT !.pc = "done", !.stuck = TRUE]
        /\ result' = [result EXCEPT !.status = "failed"]
  /\ OutsideCalls /\ StoresNothing

-----------------------------------------------------------------------------
(* runPublish                                                               *)

\* The changelog is resolved and the flow called.
StartPublish ==
  /\ run.pc = "publish"
  /\ \/ Fails /\ UNCHANGED flowVars
     \/ /\ EffectiveVersion # 0
        /\ \E file \in File, found \in Version \cup {None} :
             StartFlow([input.request EXCEPT !.version = EffectiveVersion,
                         !.strategy = input.publish, !.dry = input.dry,
                         !.store = IF run.op = "publish-private"
                                   THEN "private" ELSE "official"],
                       file, found)
        /\ Goto("publishing")
        /\ result' = [result EXCEPT !.version = EffectiveVersion]
  /\ UNCHANGED <<ws, buildVars, input, original>> /\ StoresNothing

Publishing ==
  /\ run.pc = "publishing"
  /\ FlowStep
  /\ UNCHANGED <<ws, buildVars, runVars>>

\* A publication that the guard stopped is a pause, if it was asked to guard.
IsPause_Never == FALSE
IsPause ==
  /\ run.op = "publish-official" /\ input.request.guard
  /\ flow.outcome = "pending"

\* The flow returned a result, the pending review, or another error.
PublishReturned ==
  /\ run.pc = "publishing"
  /\ flow.pc = "done"
  /\ \/ /\ flow.outcome \in {"skipped", "dry", "published"}
        /\ Goto("write") /\ UNCHANGED result
     \/ IsPause /\ Pauses
     \/ /\ flow.outcome \notin {"skipped", "dry", "published"} /\ ~IsPause
        /\ Fails
  /\ UNCHANGED ws /\ OutsideCalls /\ StoresNothing

-----------------------------------------------------------------------------
(* The end of a run                                                         *)

\* writeResult replaces result.json; if it cannot, the run fails.
WriteResult ==
  /\ run.pc = "write"
  /\ \/ /\ Goto("done")
        /\ result' = [result EXCEPT !.status = "unwritten"]
        /\ UNCHANGED resultFile
     \/ LET returned == [result EXCEPT !.status =
                          IF @ = "paused" THEN "paused" ELSE "ok"] IN
        /\ result' = returned
        /\ resultFile' = returned
        /\ Goto(IF run.op \in {"build", "check"} THEN "homepage" ELSE "done")
  /\ UNCHANGED <<ws, copied, homepage>> /\ OutsideCalls

SyncsHomepage ==
  /\ ~input.dry /\ input.event # "pull_request"
  /\ result.status # "paused"

\* EnsureHomepage fills an empty website; a failure is only logged.
EnsureHomepage ==
  /\ run.pc = "homepage"
  /\ homepage' \in IF SyncsHomepage /\ homepage = "empty"
                   THEN {"empty", "ours"} ELSE {homepage}
  /\ Goto("done")
  /\ UNCHANGED <<ws, result, resultFile, copied>> /\ OutsideCalls

-----------------------------------------------------------------------------
RunStep ==
  \/ Start \/ QueryReview \/ PrepareBuild \/ SelectImages \/ DeliverImages
  \/ ResolveChangelog \/ ApplyManifest \/ SyncLicense \/ SetVersion
  \/ InspectUpdated \/ Building \/ BuildReturned \/ RollbackVersion
  \/ StartPublish \/ Publishing \/ PublishReturned
  \/ WriteResult \/ EnsureHomepage

Next ==
  \/ RunStep
  \/ OthersPublish /\ UNCHANGED <<ws, buildVars, runVars>>

Spec == Init /\ [][Next]_vars

\* Calls of dependencies return: those to a service carry timeouts, the others
\* work on local files.  A buildscript has no timeout of its own; what bounds it
\* is the time limit of the workflow's job.
FairSpec == Spec /\ WF_vars(RunStep)

-----------------------------------------------------------------------------
(* Properties                                                               *)

Ended == run.pc = "done"

\* Variables keep their types, and a run has a status when it ended.
TypeOK ==
  /\ FlowTypeOK /\ BuildTypeOK
  /\ input \in Inputs /\ run \in Run /\ result \in Result
  /\ resultFile \in Result \cup {None}
  /\ copied \in BOOLEAN
  /\ homepage \in {"empty", "theirs", "ours"}
  /\ Ended => result.status # "running"

\* rollbackVersion: a failed run leaves the version that was there, unless the
\* rollback itself failed; only a run that cannot write its result keeps its
\* edit, and then beside the verified LPK of that version.
FailedRunKeepsVersion ==
  (Ended /\ ws.version # original.ws.version) =>
    /\ result.status = "failed" => original.ws.version = 0 \/ run.stuck
    /\ result.status = "unwritten" =>
         output # NoFile /\ output.content.version = ws.version

\* What a build or a check returns, and what it left.
ResultIsOfTheWorkspace ==
  /\ result.lpk # NoFile => output = result.lpk /\ output.content = ws
  /\ ~input.dry => result.version = ws.version
  /\ ~result.changed => ws = original.ws
  /\ result.lpk = NoFile =>
       [ws EXCEPT !.license = original.ws.license] = original.ws

\* What the workflow commits and what it releases belong together: the LPK of a
\* successful build or check is at the output and was packed from the version,
\* license and images that are in the workspace; a run that reports no change
\* made none; the reported version is the one of package.yml; and result.json
\* says what was returned.
SuccessIsOfTheWorkspace ==
  (Ended /\ result.status = "ok") =>
    /\ resultFile = result
    /\ run.op \in {"build", "check"} => ResultIsOfTheWorkspace

\* What a paused or dry run leaves as it found it.
Untouched ==
  /\ ws = original.ws /\ output = NoFile /\ ~copied
  /\ homepage = original.homepage

\* "The initial pause does not edit, commit, push, tag, create a Release, or
\* reconcile either store, while a final recheck pause prevents official
\* upload/review submission": a paused run and a dry run leave the workspace,
\* the output, the images and the website as they were.  A dry run and an
\* initial pause also leave both stores alone; a final pause files no review
\* (earlier calls of the publisher, and earlier attempts, may have left
\* screenshots, an application or an upload).  What the guard stopped always
\* ends as a pause that result.json reports, unless that cannot be written, and
\* nothing else pauses a publication; a website that the owner filled stays.
PausesAndDryRunsAreClean ==
  /\ (Ended /\ (result.status = "paused" \/ input.dry)) =>
       /\ Untouched /\ ~submitted.review
       /\ input.dry \/ run.op \in {"build", "check"} => submitted = Nothing
  /\ (Ended /\ flow.outcome = "pending") =>
       result.status \in {"paused", "unwritten"} /\ ~submitted.review
  /\ (Ended /\ result.status = "paused") =>
       /\ resultFile = result
       /\ run.op \in {"publish-official", "publish-private"} =>
            flow.outcome = "pending" /\ flow.request.guard
  /\ original.homepage = "theirs" => homepage = "theirs"

\* A run ends, whatever the dependencies answer.
RunEnds == <>Ended
=============================================================================
