-------------------------- MODULE ActionRun_proofs --------------------------
(***************************************************************************)
(* Proofs about module ActionRun, for any inputs, versions, licenses and   *)
(* images: what a run that failed, was paused, was dry or succeeded leaves *)
(* in the workspace, at the output, in the store and on the homepage.      *)
(***************************************************************************)
EXTENDS ActionRun, PublishFlow_proofs

\* The file under the temporary name was packed from the workspace, and the one
\* at the output is that file, verified; version apart, which a rollback or the
\* project's buildscript may have changed.
BuildInv ==
  /\ BuildTypeOK
  /\ IF build.pc \in {"verify", "install"}
     THEN /\ temporary \in LPK
          /\ temporary.content =
               [ws EXCEPT !.version = temporary.content.version]
     ELSE temporary = NoFile
  /\ build.pc = "install" => Acceptable(temporary)
  /\ build.pc \in {"idle", "assemble", "verify", "install"} => output = NoFile
  /\ build.pc \in {"sync", "built"} => output # NoFile
  /\ output # NoFile =>
       /\ output.sound
       /\ output.content = [ws EXCEPT !.version = build.version]

\* Steps at which package.yml has the version that is built.
VersionIsSet == run.pc \in {"inspect", "building", "rollback"}
\* Steps from the first edit of package.yml to the result.
Edits == {"license", "version"} \cup {"inspect", "building", "rollback"}
ImageCheck == {"check", "deliver", "notes", "apply"}
Returns == {"write", "homepage", "done"}

\* The operation belongs to the step; only a build calls Build and only a
\* publication calls Publish.
StepInv ==
  /\ run.pc \in ImageCheck => run.op = "check"
  /\ run.pc = "build" => run.op = "build"
  /\ run.pc \in {"gate", "homepage"} \cup Edits => run.op \in {"build", "check"}
  /\ run.pc \in {"publish", "publishing"} =>
       run.op \in {"publish-official", "publish-private"}
  /\ run.op \in {"publish-official", "publish-private"} =>
       input.request # None
  /\ run.pc \notin {"building", "rollback"} \cup Returns => build.pc = "idle"
  /\ run.pc \notin {"publishing"} \cup Returns => flow.pc = "idle"
  /\ run.pc = "building" => build.version = run.candidate
  /\ run.op \notin {"publish-official", "publish-private"} => flow.pc = "idle"
  /\ flow.pc # "idle" =>
       /\ flow.request.dry = input.dry
       /\ flow.request.guard = input.request.guard
       /\ flow.request.store = "official" => run.op = "publish-official"

\* The version that was there before is there, or gave way to a verified LPK.
KeptOrBuilt ==
  ws.version # original.ws.version =>
    output # NoFile /\ output.content.version = ws.version

\* After a failure it is there, unless there was none or it is not restored.
KeptOrStuck ==
  ws.version = original.ws.version \/ original.ws.version = 0 \/ run.stuck

VersionInv ==
  /\ run.pc \notin {"inspect", "building", "rollback"} \cup Returns =>
       ws.version = original.ws.version
  /\ run.pc \in Returns =>
       IF result.status = "failed" THEN KeptOrStuck ELSE KeptOrBuilt
  /\ VersionIsSet =>
       /\ ws.version = run.candidate
       /\ IF run.from = 0 THEN original.ws.version \in {0, ws.version}
          ELSE run.from = original.ws.version

\* Result.changed tracks the edits, and an image check edits what it selected.
EditInv ==
  /\ run.pc \notin Edits \cup Returns => ws = original.ws
  /\ run.pc \notin Returns => result.status = "running" /\ result.lpk = NoFile
  /\ run.pc \in Edits =>
       /\ result.version = run.candidate
       /\ ~result.changed =>
            /\ ws.images = original.ws.images
            /\ ws.license = original.ws.license
            /\ run.candidate = original.ws.version
  /\ run.pc = "license" =>
       /\ ws.license = original.ws.license
       /\ run.op = "check" /\ ~input.dry => ws.images = run.images

\* Workspace, output, images and website are as the run found them.
LeftAlone ==
  /\ ws = original.ws /\ build.pc = "idle" /\ ~copied
  /\ homepage = original.homepage

UntouchedInv ==
  /\ input.dry => LeftAlone /\ submitted = Nothing
  /\ run.pc \notin {"deliver", "notes", "apply"} \cup Edits \cup Returns => ~copied
  /\ run.pc # "done" => homepage = original.homepage
  /\ run.pc \in {"version", "inspect", "building", "rollback"} => ~input.dry
  /\ result.status = "paused" => run.pc \in Returns /\ LeftAlone
  /\ original.homepage = "theirs" => homepage = "theirs"

\* What is returned is of the workspace, what was written was returned, and a
\* publication pauses exactly if the guard stopped it.
ResultInv ==
  /\ run.pc = "write" => result.status \in {"running", "paused"}
  /\ run.pc = "homepage" => result.status \in {"ok", "paused"}
  /\ run.pc = "done" => result.status # "running"
  /\ result.status = "ok" => resultFile = result
  /\ /\ run.op \in {"build", "check"}
     /\ \/ result.status = "ok"
        \/ run.pc = "write" /\ result.status = "running"
     => ResultIsOfTheWorkspace
  /\ run.pc \in Returns /\ flow.outcome = "pending" =>
       \/ result.status = "paused"
       \/ run.pc = "done" /\ result.status = "unwritten"
  /\ result.status = "paused" =>
       /\ run.op \in {"build", "check"} \/ flow.outcome = "pending"
       /\ run.pc \in {"homepage", "done"} => resultFile = result

OriginalType == [ws : Workspace, homepage : {"empty", "theirs"}]

IInv ==
  /\ TypeOK /\ original \in OriginalType
  /\ FlowInv /\ BuildInv /\ StepInv /\ VersionInv /\ EditInv
  /\ UntouchedInv /\ ResultInv

\* How many more steps a run can take: its own, those of Build, and those of the
\* publication with the lookups that are left.
RunSteps ==
  [start |-> 13, gate |-> 12, check |-> 11, deliver |-> 10, notes |-> 9, apply |-> 8,
   build |-> 8, license |-> 7, version |-> 6, inspect |-> 5, building |-> 4,
   rollback |-> 3, publish |-> 4, publishing |-> 3, write |-> 2, homepage |-> 1,
   done |-> 0]
BuildSteps ==
  [idle |-> 5, assemble |-> 4, verify |-> 3, install |-> 2, sync |-> 1, built |-> 0,
   failed |-> 0]
FlowSteps ==
  [idle |-> 2 * MaxAttempts + 5, verify |-> 2 * MaxAttempts + 4, lookup |-> 4,
   wait |-> 3, precheck |-> 2, publish |-> 1, done |-> 0]
LookupsLeft ==
  IF flow.pc \in {"lookup", "wait"} THEN 2 * (MaxAttempts - flow.attempt) ELSE 0
RunLeft == RunSteps[run.pc]
BuildLeft == BuildSteps[build.pc]
FlowLeft == FlowSteps[flow.pc] + LookupsLeft
StepsLeft == RunLeft + BuildLeft + FlowLeft

\* Each step of the run uses one up, and other publishers give none back.
StepsAreBounded ==
  /\ [](StepsLeft \in 0..(2 * MaxAttempts + 23))
  /\ [][IF RunStep THEN StepsLeft' < StepsLeft ELSE StepsLeft' = StepsLeft]_vars

-----------------------------------------------------------------------------
\* The variables of the run, typed one by one.
LEMMA RunFields ==
  ASSUME IInv
  PROVE  /\ run \in Run /\ result \in Result /\ ws \in Workspace
         /\ input \in Input /\ input \in Inputs /\ original \in OriginalType
         /\ resultFile \in Result \cup {None} /\ copied \in BOOLEAN
         /\ homepage \in {"empty", "theirs", "ours"}
         /\ output \in LPK \cup {NoFile} /\ temporary \in LPK \cup {NoFile}
         /\ build \in [pc : BuildPC, version : PackageVersion]
  BY InputsAssumption DEF IInv, TypeOK, BuildTypeOK

\* Only a publication can be stopped by the guard, and only where it returns.
LEMMA NotPending ==
  ASSUME IInv, \/ run.op \notin {"publish-official", "publish-private"}
               \/ run.pc \notin {"publishing"} \cup Returns
  PROVE  flow.outcome # "pending"
  BY DEF IInv, StepInv, FlowInv, PendingInv

\* Steps that leave build and publication alone keep what is known of them;
\* package.yml and the manifest change only before the build, or in the version.
LEMMA CallsKept ==
  ASSUME IInv, UNCHANGED <<buildVars, flowVars>>, ws' \in Workspace,
         build.pc = "idle" \/ ws' = [ws EXCEPT !.version = ws'.version]
  PROVE  FlowInv' /\ BuildInv'
<1>1. FlowInv'
  BY FlowUnchanged DEF IInv
<1>2. temporary' = temporary /\ output' = output /\ build' = build
  BY DEF buildVars
<1>3. BuildInv /\ BuildTypeOK'
  BY <1>2 DEF IInv, BuildInv, BuildTypeOK
<1>4. CASE build.pc = "idle"
  BY <1>1, <1>2, <1>3, <1>4 DEF BuildInv
<1>5. CASE ws' = [ws EXCEPT !.version = ws'.version]
  <2>1. \A v \in PackageVersion :
          [ws EXCEPT !.version = v] = [ws' EXCEPT !.version = v]
    BY <1>5, RunFields DEF Workspace
  <2>2. temporary \in LPK => temporary.content.version \in PackageVersion
    BY DEF LPK, Workspace
  <2>3. build.version \in PackageVersion
    BY RunFields
  <2>4. /\ build.pc \in {"verify", "install"} =>
             temporary.content = [ws' EXCEPT !.version = temporary.content.version]
        /\ output # NoFile => output.content = [ws' EXCEPT !.version = build.version]
    BY <1>3, <2>1, <2>2, <2>3 DEF BuildInv
  <2> QED BY <1>1, <1>2, <1>3, <2>4 DEF BuildInv, Acceptable
<1> QED BY <1>4, <1>5

\* The same, for steps that do not change the workspace.
LEMMA CallsUnchanged ==
  ASSUME IInv, UNCHANGED <<ws, buildVars, flowVars>>
  PROVE  FlowInv' /\ BuildInv'
<1>1. ws \in Workspace /\ ws' = ws
  BY RunFields
<1>2. ws = [ws EXCEPT !.version = ws.version]
  BY <1>1 DEF Workspace
<1> QED BY <1>1, <1>2, CallsKept

\* A dependency that fails, outside the steps that roll back, ends a run of
\* which every promise still holds.
LEMMA FailKeeps ==
  ASSUME IInv, Fails, run.pc \notin Returns, ~VersionIsSet,
         run.pc = "publishing" => flow.outcome # "pending",
         UNCHANGED <<ws, buildVars, flowVars, input, original, resultFile,
                     copied, homepage>>
  PROVE  IInv'
<1>1. /\ run' \in Run /\ run'.pc = "done" /\ run'.op = run.op
      /\ run'.stuck = run.stuck
  BY RunFields DEF Fails, Goto, Run, RunPC
<1>2. /\ result' \in Result /\ result'.status = "failed"
      /\ result'.lpk = result.lpk /\ result'.changed = result.changed
  BY RunFields DEF Fails, Result, RunStatus
<1>3. FlowInv' /\ BuildInv'
  BY CallsUnchanged
<1>4. TypeOK' /\ original' \in OriginalType
  BY <1>1, <1>2, <1>3, RunFields
  DEF TypeOK, FlowInv, BuildInv, Ended
<1>5. flow' = flow /\ build' = build /\ output' = output /\ submitted' = submitted
  BY DEF flowVars, buildVars
<1>6. StepInv'
  BY <1>1, <1>5 DEF IInv, StepInv, Edits, ImageCheck, Returns
<1>7. VersionInv'
  BY <1>1, <1>2, <1>5 DEF IInv, VersionInv, VersionIsSet, KeptOrStuck, Returns
<1>8. EditInv'
  BY <1>1 DEF EditInv, Edits, Returns
<1>9. UntouchedInv'
  BY <1>1, <1>2, <1>5 DEF IInv, UntouchedInv, LeftAlone, Edits, Returns
<1>10. ResultInv'
  BY <1>1, <1>2, <1>5, NotPending DEF ResultInv
<1> QED BY <1>3, <1>4, <1>6, <1>7, <1>8, <1>9, <1>10 DEF IInv

\* The pause for a waiting review comes before anything was touched.
LEMMA PauseKeeps ==
  ASSUME IInv, Pauses, run.pc \notin Returns \cup Edits, LeftAlone,
         run.op \in {"build", "check"} \/ flow.outcome = "pending",
         UNCHANGED <<ws, buildVars, flowVars, input, original, resultFile,
                     copied, homepage>>
  PROVE  IInv'
<1>1. /\ run' \in Run /\ run'.pc = "write" /\ run'.op = run.op
      /\ run'.stuck = run.stuck
  BY RunFields DEF Pauses, Goto, Run, RunPC
<1>2. result' \in Result /\ result'.status = "paused"
  BY RunFields DEF Pauses, Result, RunStatus
<1>3. FlowInv' /\ BuildInv'
  BY CallsUnchanged
<1>4. TypeOK' /\ original' \in OriginalType
  BY <1>1, <1>2, <1>3, RunFields
  DEF TypeOK, FlowInv, BuildInv, Ended
<1>5. flow' = flow /\ build' = build /\ output' = output /\ submitted' = submitted
  BY DEF flowVars, buildVars
<1>6. StepInv'
  BY <1>1, <1>5 DEF IInv, StepInv, Edits, ImageCheck, Returns
<1>7. VersionInv'
  BY <1>1, <1>2, <1>5 DEF IInv, VersionInv, VersionIsSet, KeptOrBuilt, Returns, LeftAlone
<1>8. EditInv'
  BY <1>1 DEF EditInv, Edits, Returns
<1>9. UntouchedInv'
  BY <1>1, <1>2, <1>5 DEF IInv, UntouchedInv, LeftAlone, Edits, Returns
<1>10. ResultInv'
  BY <1>1, <1>2, <1>5 DEF ResultInv
<1> QED BY <1>3, <1>4, <1>6, <1>7, <1>8, <1>9, <1>10 DEF IInv

-----------------------------------------------------------------------------
\* Steps before any edit: the run goes on, and what it knows is kept.
LEMMA EarlyKeeps ==
  ASSUME IInv, run' \in Run, run'.stuck = run.stuck,
         run'.pc \in {"gate", "build", "check", "deliver", "notes", "apply",
                     "publish"},
         run.pc \notin Returns \cup Edits \cup {"publishing"},
         run'.pc \in ImageCheck => run'.op = "check",
         run'.pc = "build" => run'.op = "build",
         run'.pc = "gate" => run'.op \in {"build", "check"},
         run'.pc = "publish" => run'.op \in {"publish-official", "publish-private"},
         run'.op \in {"publish-official", "publish-private"} =>
           input.request # None,
         copied' \in IF input.dry THEN {copied} ELSE {copied, TRUE},
         copied' => run'.pc \in {"deliver", "notes", "apply"},
         UNCHANGED <<ws, buildVars, flowVars, input, result, original,
                     resultFile, homepage>>
  PROVE  IInv'
<1>1. run'.pc # "done"
  OBVIOUS
<1>2. FlowInv' /\ BuildInv'
  BY CallsUnchanged
<1>3. copied \in BOOLEAN /\ copied' \in BOOLEAN
  BY RunFields
<1>4. TypeOK' /\ original' \in OriginalType
  BY <1>1, <1>2, <1>3, RunFields
  DEF TypeOK, FlowInv, BuildInv, Ended
<1>5. flow' = flow /\ build' = build /\ output' = output /\ submitted' = submitted
  BY DEF flowVars, buildVars
<1>6. /\ build.pc = "idle" /\ flow.pc = "idle" /\ ws = original.ws
      /\ result.status = "running" /\ result.lpk = NoFile
      /\ homepage = original.homepage
  BY DEF IInv, StepInv, EditInv, UntouchedInv, Returns, Edits
<1>7. StepInv'
  BY <1>5, <1>6 DEF StepInv, Edits, ImageCheck, Returns
<1>8. VersionInv'
  BY <1>1, <1>6 DEF VersionInv, VersionIsSet, Returns
<1>9. EditInv'
  BY <1>1, <1>6 DEF EditInv, Edits, Returns
<1>10. UntouchedInv'
  <2>1. input.dry => ~copied'
    BY <1>3 DEF IInv, UntouchedInv, LeftAlone
  <2>2. input.dry => submitted = Nothing
    BY DEF IInv, UntouchedInv, LeftAlone
  <2> QED BY <1>1, <1>3, <1>5, <1>6, <2>1, <2>2
          DEF IInv, UntouchedInv, LeftAlone, Edits, Returns
<1>11. ResultInv'
  BY <1>1, <1>6 DEF ResultInv, Returns
<1> QED BY <1>2, <1>4, <1>7, <1>8, <1>9, <1>10, <1>11 DEF IInv

\* Before deliveries, edits and publications nothing is touched.
LEMMA EarlyLeftAlone ==
  ASSUME IInv, run.pc \in {"start", "gate", "build", "check", "publish"}
  PROVE  LeftAlone /\ run.pc \notin Returns \cup Edits \cup {"publishing"}
         /\ ~VersionIsSet
  BY DEF IInv, LeftAlone, EditInv, StepInv, UntouchedInv, FlowInv,
     SubmittedInv, Returns, Edits, VersionIsSet

\* ResolveOperation means a publication only when one was requested.
LEMMA OperationsAreTyped ==
  ASSUME NEW i \in Input
  PROVE  /\ ResolveOperation(i) \in Operation
         /\ ResolveOperation(i) \in {"publish-official", "publish-private"} =>
              i.requested = ResolveOperation(i)
  BY DEF ResolveOperation, Input, Operation

LEMMA StartStep ==
  ASSUME IInv, Start
  PROVE  IInv'
<1>1. run.pc = "start"
  BY DEF Start
<1>2. UNCHANGED <<ws, buildVars, flowVars, input, original, resultFile, copied,
                  homepage>>
  BY DEF Start, OutsideCalls, StoresNothing
<1>3. CASE Fails
  BY <1>1, <1>2, <1>3, FailKeeps, EarlyLeftAlone
<1>4. CASE ~Fails
  <2> DEFINE op == ResolveOperation(input)
             pc == IF ShouldPauseForOfficialReview(input, op)
                   THEN "gate" ELSE OperationStep(op)
  <2>1. op # "invalid" /\ op \in Operation /\ UNCHANGED result
        /\ run' = [run EXCEPT !.op = op, !.pc = pc]
    BY <1>4, OperationsAreTyped, RunFields DEF Start
  <2>2. op \in {"publish-official", "publish-private"} => input.request # None
    BY OperationsAreTyped, RunFields, InputsAssumption
  <2>3. /\ pc \in {"gate", "build", "check", "publish"}
        /\ pc \in ImageCheck => op = "check"
        /\ pc = "build" => op = "build"
        /\ pc = "gate" => op \in {"build", "check"}
        /\ pc = "publish" => op \in {"publish-official", "publish-private"}
    BY <2>1 DEF OperationStep, ShouldPauseForOfficialReview, Operation, ImageCheck
  <2> HIDE DEF op, pc
  <2>4. run' \in Run /\ run'.stuck = run.stuck /\ run'.pc = pc /\ run'.op = op
    BY <2>1, <2>3, RunFields DEF Run, RunPC
  <2>5. ~copied
    BY <1>1, EarlyLeftAlone DEF LeftAlone
  <2> QED BY <1>1, <1>2, <2>1, <2>2, <2>3, <2>4, <2>5, EarlyLeftAlone,
             EarlyKeeps
<1> QED BY <1>3, <1>4

LEMMA QueryReviewStep ==
  ASSUME IInv, QueryReview
  PROVE  IInv'
<1>1. run.pc = "gate" /\ run.op \in {"build", "check"}
  BY DEF QueryReview, IInv, StepInv
<1>2. UNCHANGED <<ws, buildVars, flowVars, input, original, resultFile, copied,
                  homepage>>
  BY DEF QueryReview, OutsideCalls, StoresNothing
<1>3. CASE Fails
  BY <1>1, <1>2, <1>3, FailKeeps, EarlyLeftAlone
<1>4. CASE Pauses
  BY <1>1, <1>2, <1>4, PauseKeeps, EarlyLeftAlone
<1>5. CASE ~Fails /\ ~Pauses
  <2>1. PICK review \in PackageVersion :
          run' = [run EXCEPT !.reviewVersion = review, !.pc = OperationStep(run.op)]
          /\ UNCHANGED result
    BY <1>5 DEF QueryReview
  <2>2. run.op \in {"build", "check"}
    BY <1>1 DEF IInv, StepInv
  <2>3. OperationStep(run.op) = run.op
    BY <2>2 DEF OperationStep
  <2>4. run' \in Run /\ run'.stuck = run.stuck /\ run'.pc = run.op
        /\ run'.op = run.op
    BY <2>1, <2>2, <2>3, RunFields DEF Run, RunPC
  <2>5. ~copied
    BY <1>1, EarlyLeftAlone DEF LeftAlone
  <2> QED BY <1>1, <1>2, <2>1, <2>2, <2>4, <2>5, EarlyLeftAlone,
             EarlyKeeps DEF ImageCheck
<1> QED BY <1>3, <1>4, <1>5

LEMMA SelectImagesStep ==
  ASSUME IInv, SelectImages
  PROVE  IInv'
<1>1. run.pc = "check" /\ run.op = "check"
  BY DEF SelectImages, IInv, StepInv, ImageCheck
<1>2. UNCHANGED <<ws, buildVars, flowVars, input, original, resultFile, copied,
                  homepage>>
  BY DEF SelectImages, OutsideCalls, StoresNothing
<1>3. CASE Fails
  BY <1>1, <1>2, <1>3, FailKeeps, EarlyLeftAlone
<1>4. CASE Pauses
  BY <1>1, <1>2, <1>4, PauseKeeps, EarlyLeftAlone
<1>5. CASE ~Fails /\ ~Pauses
  <2>1. PICK candidate \in Version, images \in Images :
          run' = [run EXCEPT !.candidate = candidate, !.images = images,
                             !.pc = "deliver"]
          /\ UNCHANGED result
    BY <1>5 DEF SelectImages
  <2>2. run.op = "check"
    BY <1>1 DEF IInv, StepInv, ImageCheck
  <2>3. run' \in Run /\ run'.stuck = run.stuck /\ run'.pc = "deliver"
        /\ run'.op = run.op
    BY <2>1, RunFields, VersionsAgree DEF Run, RunPC
  <2>4. ~copied
    BY <1>1, EarlyLeftAlone DEF LeftAlone
  <2> QED BY <1>1, <1>2, <2>1, <2>2, <2>3, <2>4, EarlyLeftAlone, EarlyKeeps
          DEF ImageCheck
<1> QED BY <1>3, <1>4, <1>5

LEMMA DeliverImagesStep ==
  ASSUME IInv, DeliverImages
  PROVE  IInv'
<1>1. run.pc = "deliver" /\ run.op = "check"
      /\ run.pc \notin Returns \cup Edits \cup {"publishing"} /\ ~VersionIsSet
  BY DEF DeliverImages, IInv, StepInv, ImageCheck, Returns, Edits, VersionIsSet
<1>2. UNCHANGED <<ws, buildVars, flowVars, input, original, resultFile, homepage>>
  BY DEF DeliverImages, OutsideCalls
<1>3. CASE Fails /\ UNCHANGED copied
  BY <1>1, <1>2, <1>3, FailKeeps
<1>4. CASE ~(Fails /\ UNCHANGED copied)
  <2>1. Goto("notes") /\ UNCHANGED result
        /\ copied' \in IF input.dry THEN {copied} ELSE {copied, TRUE}
    BY <1>4 DEF DeliverImages
  <2>2. run' \in Run /\ run'.stuck = run.stuck /\ run'.pc = "notes"
        /\ run'.op = run.op
    BY <2>1, RunFields DEF Run, RunPC, Goto
  <2> QED BY <1>1, <1>2, <2>1, <2>2, EarlyKeeps DEF ImageCheck, Returns, Edits
<1> QED BY <1>3, <1>4

LEMMA ResolveChangelogStep ==
  ASSUME IInv, ResolveChangelog
  PROVE  IInv'
<1>1. run.pc = "notes" /\ run.op = "check"
      /\ run.pc \notin Returns \cup Edits \cup {"publishing"} /\ ~VersionIsSet
  BY DEF ResolveChangelog, IInv, StepInv, ImageCheck, Returns, Edits, VersionIsSet
<1>2. UNCHANGED <<ws, buildVars, flowVars, input, original, resultFile, copied,
                  homepage>>
  BY DEF ResolveChangelog, OutsideCalls, StoresNothing
<1>3. CASE Fails
  BY <1>1, <1>2, <1>3, FailKeeps
<1>4. CASE ~Fails
  <2>1. Goto("apply") /\ UNCHANGED result
    BY <1>4 DEF ResolveChangelog
  <2>2. run' \in Run /\ run'.stuck = run.stuck /\ run'.pc = "apply"
        /\ run'.op = run.op
    BY <2>1, RunFields DEF Run, RunPC, Goto
  <2> QED BY <1>1, <1>2, <2>1, <2>2, EarlyKeeps DEF ImageCheck, Returns, Edits
<1> QED BY <1>3, <1>4

-----------------------------------------------------------------------------
\* The step to the license, from a build or from the edit of the manifest.
LEMMA LicenseReached ==
  ASSUME IInv, run' \in Run, run'.stuck = run.stuck, run'.pc = "license",
         run'.op = run.op, run.op \in {"build", "check"},
         run.pc \notin Returns \cup Edits \cup {"publishing"},
         result' = [result EXCEPT !.version = run'.candidate,
                                  !.changed = result'.changed],
         result'.changed \in BOOLEAN,
         ~result'.changed => /\ ws'.images = original.ws.images
                             /\ run'.candidate = original.ws.version,
         ws' = [ws EXCEPT !.images = ws'.images], ws'.images \in Images,
         input.dry => ws' = ws,
         run.op = "check" /\ ~input.dry => ws'.images = run'.images,
         UNCHANGED <<buildVars, flowVars, input, original, resultFile, copied,
                     homepage>>
  PROVE  IInv'
<1>1. /\ build.pc = "idle" /\ flow.pc = "idle" /\ ws = original.ws
      /\ result.status = "running" /\ result.lpk = NoFile
      /\ homepage = original.homepage
  BY DEF IInv, StepInv, EditInv, UntouchedInv, Returns, Edits
<1>2. /\ ws' \in Workspace /\ ws'.license = ws.license /\ ws'.version = ws.version
  BY RunFields DEF Workspace
<1>3. FlowInv' /\ BuildInv'
  BY <1>1, <1>2, CallsKept
<1>4. run'.candidate \in PackageVersion
  BY DEF Run
<1>5. /\ result' \in Result /\ result'.status = "running"
      /\ result'.lpk = NoFile /\ result'.version = run'.candidate
  BY <1>1, <1>4, RunFields DEF Result
<1>6. TypeOK' /\ original' \in OriginalType
  BY <1>3, <1>5, RunFields DEF TypeOK, FlowInv, BuildInv, Ended
<1>7. flow' = flow /\ build' = build /\ output' = output /\ submitted' = submitted
  BY DEF flowVars, buildVars
<1>8. StepInv'
  BY <1>1, <1>7 DEF IInv, StepInv, Edits, ImageCheck, Returns
<1>9. VersionInv'
  BY <1>1, <1>2 DEF VersionInv, VersionIsSet, Returns
<1>10. EditInv'
  BY <1>1, <1>2, <1>5 DEF EditInv, Edits, Returns
<1>11. UntouchedInv'
  BY <1>1, <1>5, <1>7 DEF IInv, UntouchedInv, LeftAlone, Edits, Returns
<1>12. ResultInv'
  BY <1>5 DEF ResultInv, Returns
<1> QED BY <1>3, <1>6, <1>8, <1>9, <1>10, <1>11, <1>12 DEF IInv

LEMMA PrepareBuildStep ==
  ASSUME IInv, PrepareBuild
  PROVE  IInv'
<1>1. run.pc = "build" /\ run.op = "build"
  BY DEF PrepareBuild, IInv, StepInv
<1>2. UNCHANGED <<ws, buildVars, flowVars, input, original, resultFile, copied,
                  homepage>>
  BY DEF PrepareBuild, OutsideCalls, StoresNothing
<1>3. CASE Fails
  BY <1>1, <1>2, <1>3, FailKeeps, EarlyLeftAlone
<1>4. CASE ~Fails
  <2>1. /\ run' = [run EXCEPT !.candidate = EffectiveVersion, !.pc = "license"]
        /\ result' = [result EXCEPT !.version = EffectiveVersion,
                        !.changed = ws.version # EffectiveVersion]
    BY <1>4 DEF PrepareBuild
  <2>2. EffectiveVersion \in PackageVersion
    BY RunFields DEF EffectiveVersion, Input, Workspace
  <2>3. /\ run' \in Run /\ run'.stuck = run.stuck /\ run'.pc = "license"
        /\ run'.op = run.op /\ run'.candidate = EffectiveVersion
    BY <2>1, <2>2, RunFields DEF Run, RunPC
  <2>4. result'.changed = (ws.version # EffectiveVersion)
        /\ result'.changed \in BOOLEAN
    BY <2>1, RunFields DEF Result
  <2>5. result' = [result EXCEPT !.version = run'.candidate,
                                 !.changed = result'.changed]
    BY <2>1, <2>3, <2>4
  <2>6. ws' = ws /\ ws = original.ws /\ ws \in Workspace
    BY <1>1, <1>2, EarlyLeftAlone, RunFields DEF LeftAlone
  <2>7. ws' = [ws EXCEPT !.images = ws'.images] /\ ws'.images \in Images
    BY <2>6 DEF Workspace
  <2> QED BY <1>1, <1>2, <2>3, <2>4, <2>5, <2>6, <2>7, EarlyLeftAlone,
             LicenseReached
<1> QED BY <1>3, <1>4

LEMMA ApplyManifestStep ==
  ASSUME IInv, ApplyManifest
  PROVE  IInv'
<1>1. /\ run.pc = "apply" /\ run.op = "check" /\ ws = original.ws
      /\ build.pc = "idle" /\ flow.pc = "idle"
      /\ run.pc \notin Returns \cup Edits \cup {"publishing"} /\ ~VersionIsSet
  BY DEF ApplyManifest, IInv, StepInv, EditInv, ImageCheck, Returns, Edits,
     VersionIsSet
<1>2. UNCHANGED <<buildVars, flowVars, input, original, resultFile, copied,
                  homepage>>
  BY DEF ApplyManifest, OutsideCalls, StoresNothing
<1>3. CASE Fails /\ UNCHANGED ws
  BY <1>1, <1>2, <1>3, FailKeeps
<1>4. CASE ~input.dry /\ Fails /\ ws' = [ws EXCEPT !.images = run.images]
  <2>1. /\ run' \in Run /\ run'.pc = "done" /\ run'.op = run.op
        /\ run'.stuck = run.stuck
    BY <1>4, RunFields DEF Fails, Goto, Run, RunPC
  <2>2. result' \in Result /\ result'.status = "failed"
    BY <1>4, RunFields DEF Fails, Result, RunStatus
  <2>3. ws' \in Workspace /\ ws'.version = ws.version
    BY <1>4, RunFields DEF Workspace, Run
  <2>4. FlowInv' /\ BuildInv'
    BY <1>1, <1>2, <2>3, CallsKept
  <2>5. TypeOK' /\ original' \in OriginalType
    BY <1>2, <2>1, <2>2, <2>4, RunFields DEF TypeOK, FlowInv, BuildInv, Ended
  <2>6. flow' = flow /\ build' = build /\ output' = output
    BY <1>2 DEF flowVars, buildVars
  <2>7. StepInv'
    BY <1>1, <1>2, <2>1, <2>6 DEF IInv, StepInv, Edits, ImageCheck, Returns
  <2>8. VersionInv'
    BY <1>1, <1>2, <2>1, <2>2, <2>3
    DEF VersionInv, VersionIsSet, KeptOrStuck, Returns
  <2>9. EditInv' /\ ResultInv'
    BY <1>1, <2>1, <2>2, <2>6, NotPending DEF EditInv, ResultInv, Edits, Returns
  <2>10. UntouchedInv'
    BY <1>2, <1>4, <2>1, <2>2 DEF IInv, UntouchedInv, Returns
  <2> QED BY <2>4, <2>5, <2>7, <2>8, <2>9, <2>10 DEF IInv
<1>5. CASE /\ ws' = IF input.dry THEN ws ELSE [ws EXCEPT !.images = run.images]
           /\ Goto("license")
           /\ result' = [result EXCEPT !.version = run.candidate,
                !.changed = run.images # ws.images \/ run.candidate # ws.version]
  <2>1. /\ run' \in Run /\ run'.stuck = run.stuck /\ run'.pc = "license"
        /\ run'.op = run.op /\ run'.candidate = run.candidate
        /\ run'.images = run.images /\ run.images \in Images
    BY <1>5, RunFields DEF Run, RunPC, Goto
  <2>2. /\ result'.changed = (run.images # ws.images \/ run.candidate # ws.version)
        /\ result'.changed \in BOOLEAN
    BY <1>5, RunFields DEF Result
  <2>3. result' = [result EXCEPT !.version = run'.candidate,
                                 !.changed = result'.changed]
    BY <1>5, <2>1, <2>2
  <2>4. /\ ws'.images = IF input.dry THEN ws.images ELSE run.images
        /\ ws' = [ws EXCEPT !.images = ws'.images]
        /\ ws'.images \in Images
    BY <1>5, <2>1, RunFields DEF Workspace
  <2> QED BY <1>1, <1>2, <1>5, <2>1, <2>2, <2>3, <2>4, LicenseReached
<1> QED BY <1>3, <1>4, <1>5 DEF ApplyManifest

LEMMA SyncLicenseStep ==
  ASSUME IInv, SyncLicense
  PROVE  IInv'
<1>1. /\ run.pc = "license" /\ run.op \in {"build", "check"}
      /\ build.pc = "idle" /\ flow.pc = "idle" /\ output = NoFile
      /\ ws.version = original.ws.version /\ ws.license = original.ws.license
      /\ result.status = "running" /\ result.lpk = NoFile
      /\ result.version = run.candidate /\ homepage = original.homepage
  BY DEF SyncLicense, IInv, StepInv, EditInv, VersionInv, UntouchedInv, BuildInv,
     Edits, Returns
<1>2. UNCHANGED <<buildVars, flowVars, input, original, resultFile, copied,
                  homepage>>
  BY DEF SyncLicense, OutsideCalls, StoresNothing
<1>3. PICK license \in License :
        /\ input.dry => license = ws.license
        /\ ws' = [ws EXCEPT !.license = license]
        /\ result' = [result EXCEPT !.changed =
                        result.changed \/ license # ws.license]
  BY RunFields DEF SyncLicense, SyncsLicense, Workspace
<1>4. /\ ws' \in Workspace /\ ws'.version = ws.version /\ ws'.images = ws.images
      /\ ws'.license = license /\ (license = ws.license => ws' = ws)
  BY <1>3, RunFields DEF Workspace
<1>5. result.changed \in BOOLEAN
  BY RunFields DEF Result
<1>6. /\ result' \in Result /\ result'.status = "running" /\ result'.lpk = NoFile
      /\ result'.version = run.candidate
      /\ result'.changed = (result.changed \/ license # ws.license)
  BY <1>1, <1>3, <1>5, RunFields DEF Result
<1>7. /\ run' \in Run /\ run'.pc = (IF NeedsBuild THEN "version" ELSE "write")
      /\ run'.op = run.op /\ run'.candidate = run.candidate
      /\ run'.stuck = run.stuck
  BY RunFields DEF SyncLicense, Goto, Run, RunPC
<1>8. FlowInv' /\ BuildInv'
  BY <1>1, <1>2, <1>4, CallsKept
<1>9. TypeOK' /\ original' \in OriginalType
  BY <1>2, <1>6, <1>7, <1>8, RunFields DEF TypeOK, FlowInv, BuildInv, Ended
<1>10. flow' = flow /\ build' = build /\ output' = output /\ submitted' = submitted
  BY <1>2 DEF flowVars, buildVars
<1>11. StepInv'
  BY <1>1, <1>2, <1>7, <1>10 DEF IInv, StepInv, Edits, ImageCheck, Returns
<1>12. VersionInv'
  BY <1>1, <1>2, <1>4, <1>6, <1>7 DEF VersionInv, VersionIsSet, KeptOrBuilt, Returns
<1>13. EditInv'
  BY <1>1, <1>2, <1>4, <1>6, <1>7 DEF IInv, EditInv, Edits, Returns
<1>14. UntouchedInv'
  <2>1. input.dry => LeftAlone /\ ws' = ws /\ run'.pc = "write"
    BY <1>3, <1>4, <1>7 DEF IInv, UntouchedInv, NeedsBuild
  <2> QED BY <1>1, <1>2, <1>6, <1>7, <1>10, <2>1
          DEF IInv, UntouchedInv, LeftAlone, Edits, Returns
<1>15. ResultInv'
  <2>1. SUFFICES ASSUME ~NeedsBuild
                 PROVE  ResultIsOfTheWorkspace'
    BY <1>1, <1>6, <1>7, <1>10, NotPending DEF ResultInv
  <2>2. CASE input.dry
    <3>1. ws' = original.ws /\ original.ws \in Workspace
      BY <1>3, <1>4, <2>2, RunFields DEF IInv, UntouchedInv, LeftAlone, OriginalType
    <3>2. [ws' EXCEPT !.license = original.ws.license] = original.ws
      BY <3>1 DEF Workspace
    <3> QED BY <1>2, <1>6, <2>2, <3>1, <3>2 DEF ResultIsOfTheWorkspace
  <2>3. CASE ~input.dry
    <3>1. run.images = original.ws.images /\ run.candidate = ws.version
          /\ run.op = "check"
      BY <2>1, <2>3, <1>1 DEF NeedsBuild
    <3>2. ws'.images = original.ws.images /\ ws'.version = original.ws.version
      BY <1>1, <1>4, <2>3, <3>1 DEF IInv, EditInv
    <3>3. original.ws \in Workspace
      BY RunFields DEF OriginalType
    <3>4. [ws' EXCEPT !.license = original.ws.license] = original.ws
      BY <1>4, <3>2, <3>3 DEF Workspace
    <3>5. ~result'.changed => ws'.license = original.ws.license
      BY <1>1, <1>4, <1>6
    <3>6. ~result'.changed => ws' = original.ws
      BY <1>4, <3>2, <3>3, <3>5 DEF Workspace
    <3> QED BY <1>2, <1>4, <1>6, <3>1, <3>4, <3>6 DEF ResultIsOfTheWorkspace
  <2> QED BY <2>2, <2>3
<1> QED BY <1>8, <1>9, <1>11, <1>12, <1>13, <1>14, <1>15 DEF IInv

LEMMA SetVersionStep ==
  ASSUME IInv, SetVersion
  PROVE  IInv'
<1>1. /\ run.pc = "version" /\ run.op \in {"build", "check"} /\ ~input.dry
      /\ build.pc = "idle" /\ flow.pc = "idle"
      /\ ws.version = original.ws.version
      /\ result.status = "running" /\ result.lpk = NoFile
      /\ homepage = original.homepage
  BY DEF SetVersion, IInv, StepInv, EditInv, VersionInv, UntouchedInv,
     Edits, Returns
<1>2. UNCHANGED <<buildVars, flowVars, input, original, resultFile, copied,
                  homepage>>
  BY DEF SetVersion, OutsideCalls, StoresNothing
<1>3. CASE Fails /\ UNCHANGED ws
  BY <1>1, <1>2, <1>3, FailKeeps DEF VersionIsSet, Returns
<1>4. CASE /\ ws' = [ws EXCEPT !.version = run.candidate]
           /\ run' = [run EXCEPT !.pc = "inspect", !.from =
                        IF ws.version = run.candidate THEN 0 ELSE ws.version]
           /\ UNCHANGED result
  <2>1. /\ run.candidate \in PackageVersion /\ ws.version \in PackageVersion
        /\ 0 \in PackageVersion
    BY RunFields, BuildAssumption DEF Run, Workspace
  <2>2. /\ run' \in Run /\ run'.pc = "inspect" /\ run'.op = run.op
        /\ run'.stuck = run.stuck /\ run'.candidate = run.candidate
        /\ run'.from = (IF ws.version = run.candidate THEN 0 ELSE ws.version)
    BY <1>4, <2>1, RunFields DEF Run, RunPC
  <2>3. /\ ws' \in Workspace /\ ws'.version = run.candidate
        /\ ws'.images = ws.images /\ ws'.license = ws.license
    BY <1>4, <2>1, RunFields DEF Workspace
  <2>4. FlowInv' /\ BuildInv'
    BY <1>1, <1>2, <2>3, CallsKept
  <2>5. TypeOK' /\ original' \in OriginalType
    BY <1>2, <1>4, <2>2, <2>4, RunFields DEF TypeOK, FlowInv, BuildInv, Ended
  <2>6. flow' = flow /\ build' = build /\ output' = output /\ submitted' = submitted
    BY <1>2 DEF flowVars, buildVars
  <2>7. StepInv'
    BY <1>1, <1>2, <2>2, <2>6 DEF IInv, StepInv, Edits, ImageCheck, Returns
  <2>8. VersionInv'
    BY <1>1, <1>2, <2>2, <2>3 DEF VersionInv, VersionIsSet, Returns
  <2>9. EditInv'
    BY <1>1, <1>2, <1>4, <2>2, <2>3 DEF IInv, EditInv, Edits, Returns
  <2>10. UntouchedInv'
    BY <1>1, <1>2, <1>4, <2>2 DEF IInv, UntouchedInv, Edits, Returns
  <2>11. ResultInv'
    BY <1>1, <1>4, <2>2 DEF ResultInv, Returns
  <2> QED BY <2>4, <2>5, <2>7, <2>8, <2>9, <2>10, <2>11 DEF IInv
<1> QED BY <1>3, <1>4 DEF SetVersion

\* A failure after the version was set leads to the rollback.
LEMMA ToRollback ==
  ASSUME IInv, FailsAfterEdit, run.pc \in {"inspect", "building"},
         UNCHANGED <<ws, buildVars, flowVars, input, original, resultFile,
                     copied, homepage>>
  PROVE  IInv'
<1>1. Goto("rollback") /\ UNCHANGED result
  BY DEF FailsAfterEdit, RollsBack
<1>2. /\ run' \in Run /\ run'.pc = "rollback" /\ run'.op = run.op
      /\ run'.stuck = run.stuck /\ run'.candidate = run.candidate
      /\ run'.from = run.from
  BY <1>1, RunFields DEF Run, RunPC, Goto
<1>3. FlowInv' /\ BuildInv'
  BY CallsUnchanged
<1>4. TypeOK' /\ original' \in OriginalType
  BY <1>1, <1>2, <1>3, RunFields DEF TypeOK, FlowInv, BuildInv, Ended
<1>5. flow' = flow /\ build' = build /\ submitted' = submitted
  BY DEF flowVars, buildVars
<1>6. StepInv'
  BY <1>2, <1>5 DEF IInv, StepInv, Edits, ImageCheck, Returns
<1>7. VersionInv'
  BY <1>2 DEF IInv, VersionInv, VersionIsSet, Returns
<1>8. EditInv'
  BY <1>1, <1>2 DEF IInv, EditInv, Edits, Returns
<1>9. UntouchedInv'
  BY <1>1, <1>2, <1>5 DEF IInv, UntouchedInv, LeftAlone, Edits, Returns
<1>10. ResultInv'
  BY <1>1, <1>2 DEF IInv, EditInv, ResultInv, Returns
<1> QED BY <1>3, <1>4, <1>6, <1>7, <1>8, <1>9, <1>10 DEF IInv

-----------------------------------------------------------------------------
\* The fields of an LPK and of the call of Build.
LEMMA BuildFields ==
  ASSUME BuildInv
  PROVE  /\ ws \in Workspace /\ output \in LPK \cup {NoFile}
         /\ temporary \in LPK \cup {NoFile}
         /\ build \in [pc : BuildPC, version : PackageVersion]
  BY DEF BuildInv, BuildTypeOK

\* A failed build removes the temporary file, and has not replaced the output.
LEMMA BuildFailureKeeps ==
  ASSUME BuildInv, BuildFails, UNCHANGED ws,
         build.pc \in {"assemble", "verify", "install"}
  PROVE  BuildInv' /\ build'.version = build.version /\ build'.pc = "failed"
<1>1. /\ build' \in [pc : BuildPC, version : PackageVersion]
      /\ build'.pc = "failed" /\ build'.version = build.version
  BY BuildFields DEF BuildFails, BuildTo, BuildPC
<1>2. temporary' = NoFile /\ output' = NoFile /\ ws' = ws
  BY DEF BuildFails, BuildInv
<1> QED BY <1>1, <1>2, BuildFields DEF BuildInv, BuildTypeOK

\* Every step of Build keeps what is known of its files.
LEMMA BuildStepKeeps ==
  ASSUME BuildInv, BuildStep
  PROVE  /\ BuildInv' /\ ws' = ws /\ build'.version = build.version
         /\ build'.pc # "idle"
<1>1. CASE Assemble
  <2>1. build.pc = "assemble" /\ ws' = ws
    BY <1>1 DEF Assemble
  <2>2. CASE BuildFails
    BY <2>1, <2>2, BuildFailureKeeps
  <2>3. CASE ~BuildFails
    <3>1. PICK sound \in BOOLEAN, stamped \in PackageVersion :
            /\ temporary' = [content |-> [ws EXCEPT !.version = stamped],
                             sound |-> sound]
            /\ BuildTo("verify") /\ UNCHANGED output
      BY <1>1, <2>3 DEF Assemble
    <3>2. /\ build' \in [pc : BuildPC, version : PackageVersion]
          /\ build'.pc = "verify" /\ build'.version = build.version
      BY <3>1, BuildFields DEF BuildTo, BuildPC
    <3>3. /\ temporary'.content = [ws EXCEPT !.version = stamped]
          /\ temporary'.content.version = stamped /\ temporary' \in LPK
      BY <3>1, BuildFields DEF LPK, Workspace
    <3>4. output' = NoFile
      BY <2>1, <3>1 DEF BuildInv
    <3>5. BuildTypeOK'
      BY <2>1, <3>2, <3>3, <3>4, BuildFields DEF BuildTypeOK
    <3>6. BuildInv'
      BY <2>1, <3>2, <3>3, <3>4, <3>5 DEF BuildInv
    <3> QED BY <2>1, <3>2, <3>6
  <2> QED BY <2>2, <2>3
<1>2. CASE VerifyBuilt
  <2>1. build.pc = "verify" /\ ws' = ws
    BY <1>2 DEF VerifyBuilt
  <2>2. CASE ~Acceptable(temporary)
    BY <1>2, <2>1, <2>2, BuildFailureKeeps DEF VerifyBuilt
  <2>3. CASE Acceptable(temporary)
    <3>1. BuildTo("install") /\ UNCHANGED <<temporary, output>>
      BY <1>2, <2>3 DEF VerifyBuilt
    <3>2. /\ build' \in [pc : BuildPC, version : PackageVersion]
          /\ build'.pc = "install" /\ build'.version = build.version
      BY <3>1, BuildFields DEF BuildTo, BuildPC
    <3>3. BuildTypeOK'
      BY <2>1, <3>1, <3>2, BuildFields DEF BuildTypeOK
    <3>4. BuildInv'
      BY <2>1, <2>3, <3>1, <3>2, <3>3 DEF BuildInv, Acceptable
    <3> QED BY <2>1, <3>2, <3>4
  <2> QED BY <2>2, <2>3
<1>3. CASE InstallOutput
  <2>1. build.pc = "install" /\ ws' = ws
    BY <1>3 DEF InstallOutput
  <2>2. CASE BuildFails
    BY <2>1, <2>2, BuildFailureKeeps
  <2>3. CASE output' = temporary /\ temporary' = NoFile /\ BuildTo("sync")
    <3>1. /\ build' \in [pc : BuildPC, version : PackageVersion]
          /\ build'.pc = "sync" /\ build'.version = build.version
      BY <2>3, BuildFields DEF BuildTo, BuildPC
    <3>2. /\ output' \in LPK /\ output' # NoFile /\ output'.sound
          /\ output'.content = [ws EXCEPT !.version = build.version]
      BY <2>1, <2>3, NoFileIsNone DEF BuildInv, Acceptable
    <3>3. BuildTypeOK'
      BY <2>1, <2>3, <3>1, <3>2, BuildFields DEF BuildTypeOK
    <3>4. BuildInv'
      BY <2>1, <2>3, <3>1, <3>2, <3>3 DEF BuildInv
    <3> QED BY <2>1, <3>1, <3>4
  <2> QED BY <1>3, <2>2, <2>3 DEF InstallOutput
<1>4. CASE SyncOutput
  <2>1. PICK pc \in {"built", "failed"} :
          BuildTo(pc) /\ build.pc = "sync" /\ UNCHANGED <<ws, temporary, output>>
    BY <1>4 DEF SyncOutput
  <2>2. /\ build' \in [pc : BuildPC, version : PackageVersion]
        /\ build'.pc = pc /\ build'.version = build.version
    BY <2>1, BuildFields DEF BuildTo, BuildPC
  <2>3. BuildTypeOK'
    BY <2>1, <2>2, BuildFields DEF BuildTypeOK
  <2>4. BuildInv'
    BY <2>1, <2>2, <2>3 DEF BuildInv
  <2> QED BY <2>1, <2>2, <2>4
<1> QED BY <1>1, <1>2, <1>3, <1>4 DEF BuildStep

\* Steps of the build: the run and what is outside of the call stay.
LEMMA BuildCallKeeps ==
  ASSUME IInv, run.op = "build" \/ run.op = "check", ~input.dry,
         run.pc \in {"inspect", "building"}, BuildInv', UNCHANGED ws,
         run' \in Run, run'.pc = "building", run'.op = run.op,
         run'.from = run.from, run'.candidate = run.candidate,
         run'.stuck = run.stuck, build'.version = run.candidate,
         UNCHANGED <<flowVars, input, result, resultFile, copied, homepage,
                     original>>
  PROVE  IInv'
<1>1. FlowInv'
  BY FlowUnchanged DEF IInv
<1>2. TypeOK' /\ original' \in OriginalType
  BY <1>1, RunFields DEF TypeOK, FlowInv, BuildInv, Ended
<1>3. flow' = flow /\ submitted' = submitted
  BY DEF flowVars
<1>4. StepInv'
  BY <1>3 DEF IInv, StepInv, Edits, ImageCheck, Returns
<1>5. VersionInv'
  BY DEF IInv, VersionInv, VersionIsSet, Returns
<1>6. EditInv'
  BY DEF IInv, EditInv, Edits, Returns
<1>7. UntouchedInv'
  BY <1>3 DEF IInv, EditInv, UntouchedInv, Edits, Returns
<1>8. ResultInv'
  BY DEF IInv, EditInv, ResultInv, Returns
<1> QED BY <1>1, <1>2, <1>4, <1>5, <1>6, <1>7, <1>8 DEF IInv

LEMMA InspectUpdatedStep ==
  ASSUME IInv, InspectUpdated
  PROVE  IInv'
<1>1. /\ run.pc = "inspect" /\ run.op \in {"build", "check"} /\ ~input.dry
      /\ build.pc = "idle" /\ BuildInv
  BY DEF InspectUpdated, IInv, StepInv, UntouchedInv, Edits, Returns
<1>2. UNCHANGED <<flowVars, input, original, resultFile, copied, homepage>>
  BY DEF InspectUpdated, StoresNothing
<1>3. CASE FailsAfterEdit /\ UNCHANGED <<ws, buildVars>>
  BY <1>1, <1>2, <1>3, ToRollback
<1>4. CASE StartBuild(run.candidate) /\ Goto("building") /\ UNCHANGED result
  <2>1. /\ run' \in Run /\ run'.pc = "building" /\ run'.op = run.op
        /\ run'.from = run.from /\ run'.candidate = run.candidate
        /\ run'.stuck = run.stuck /\ run.candidate \in PackageVersion
    BY <1>4, RunFields DEF Run, RunPC, Goto
  <2>2. /\ build' \in [pc : BuildPC, version : PackageVersion]
        /\ build'.version = run.candidate
        /\ build'.pc \in {"assemble", "failed"}
    BY <1>4, <2>1 DEF StartBuild, BuildPC
  <2>3. /\ temporary' = NoFile /\ output' = NoFile /\ ws' = ws
    BY <1>1, <1>4 DEF StartBuild, BuildInv
  <2>4. BuildTypeOK'
    BY <1>1, <2>2, <2>3, BuildFields DEF BuildTypeOK
  <2>5. BuildInv'
    BY <2>2, <2>3, <2>4 DEF BuildInv
  <2> QED BY <1>1, <1>2, <1>4, <2>1, <2>2, <2>3, <2>5, BuildCallKeeps
<1> QED BY <1>3, <1>4 DEF InspectUpdated

LEMMA BuildingStep ==
  ASSUME IInv, Building
  PROVE  IInv'
<1>1. /\ run.pc = "building" /\ run.op \in {"build", "check"} /\ ~input.dry
      /\ BuildInv /\ build.version = run.candidate
  BY DEF Building, IInv, StepInv, UntouchedInv, Edits
<1>2. BuildStep /\ UNCHANGED flowVars /\ UNCHANGED runVars
  BY DEF Building
<1>3. UNCHANGED <<input, run, result, resultFile, copied, homepage, original>>
  BY <1>2 DEF runVars
<1>4. BuildInv' /\ ws' = ws /\ build'.version = build.version
  BY <1>1, <1>2, BuildStepKeeps
<1> QED BY <1>1, <1>2, <1>3, <1>4, RunFields, BuildCallKeeps

LEMMA BuildReturnedStep ==
  ASSUME IInv, BuildReturned
  PROVE  IInv'
<1>1. /\ run.pc = "building" /\ run.op \in {"build", "check"} /\ ~input.dry
      /\ BuildInv /\ build.version = run.candidate /\ ws.version = run.candidate
      /\ homepage = original.homepage /\ result.status = "running"
      /\ result.version = run.candidate
  BY DEF BuildReturned, IInv, StepInv, UntouchedInv, VersionInv, EditInv,
     VersionIsSet, Edits, Returns
<1>2. UNCHANGED <<ws, buildVars, flowVars, input, original, resultFile, copied,
                  homepage>>
  BY DEF BuildReturned, OutsideCalls, StoresNothing
<1>3. CASE FailsAfterEdit
  BY <1>1, <1>2, <1>3, ToRollback
<1>4. CASE /\ build.pc = "built" /\ Goto("write")
           /\ result' = [result EXCEPT !.lpk = output]
  <2>1. /\ run' \in Run /\ run'.pc = "write" /\ run'.op = run.op
        /\ run'.stuck = run.stuck
    BY <1>4, RunFields DEF Run, RunPC, Goto
  <2>2. /\ output # NoFile /\ output \in LPK
        /\ output.content = [ws EXCEPT !.version = build.version]
    BY <1>1, <1>4, BuildFields DEF BuildInv
  <2>3. output.content = ws
    BY <1>1, <2>2, BuildFields DEF Workspace
  <2>4. /\ result' \in Result /\ result'.lpk = output
        /\ result'.status = "running" /\ result'.version = ws.version
        /\ result'.changed = result.changed
    BY <1>1, <1>4, RunFields DEF Result
  <2>5. ~result'.changed => ws = original.ws
    <3>1. ~result'.changed => /\ ws.images = original.ws.images
                              /\ ws.license = original.ws.license
                              /\ ws.version = original.ws.version
      BY <1>1, <2>4 DEF IInv, EditInv, Edits
    <3> QED BY <3>1, RunFields DEF OriginalType, Workspace
  <2>6. FlowInv' /\ BuildInv'
    BY <1>2, CallsUnchanged
  <2>7. TypeOK' /\ original' \in OriginalType
    BY <1>2, <2>1, <2>4, <2>6, RunFields DEF TypeOK, FlowInv, BuildInv, Ended
  <2>8. flow' = flow /\ build' = build /\ output' = output /\ ws' = ws
    BY <1>2 DEF flowVars, buildVars
  <2>9. StepInv'
    BY <1>2, <2>1, <2>8 DEF IInv, StepInv, Edits, ImageCheck, Returns
  <2>10. VersionInv'
    BY <1>2, <2>1, <2>2, <2>3, <2>4, <2>8 DEF VersionInv, VersionIsSet, KeptOrBuilt, Returns
  <2>11. EditInv'
    BY <2>1 DEF EditInv, Edits, Returns
  <2>12. UntouchedInv'
    BY <1>1, <1>2, <2>1, <2>4 DEF IInv, UntouchedInv, Edits, Returns
  <2>13. ResultIsOfTheWorkspace'
    BY <1>2, <2>2, <2>3, <2>4, <2>5, <2>8 DEF ResultIsOfTheWorkspace
  <2>14. ResultInv'
    BY <1>1, <2>1, <2>4, <2>8, <2>13, NotPending DEF ResultInv
  <2> QED BY <2>6, <2>7, <2>9, <2>10, <2>11, <2>12, <2>14 DEF IInv
<1> QED BY <1>3, <1>4 DEF BuildReturned

LEMMA RollbackVersionStep ==
  ASSUME IInv, RollbackVersion
  PROVE  IInv'
<1>1. /\ run.pc = "rollback" /\ ~input.dry /\ homepage = original.homepage
      /\ run.op \in {"build", "check"}
      /\ IF run.from = 0 THEN original.ws.version \in {0, ws.version}
         ELSE run.from = original.ws.version
  BY DEF RollbackVersion, IInv, StepInv, VersionInv, UntouchedInv, VersionIsSet,
     Edits, Returns
<1>2. UNCHANGED <<buildVars, flowVars, input, original, resultFile, copied,
                  homepage>>
  BY DEF RollbackVersion, OutsideCalls, StoresNothing
<1>3. /\ result' \in Result /\ result'.status = "failed"
  BY RunFields DEF RollbackVersion, Fails, Result, RunStatus
<1>4. /\ run' \in Run /\ run'.pc = "done" /\ run'.op = run.op
  BY RunFields DEF RollbackVersion, Fails, Goto, Run, RunPC
<1>5. /\ ws' \in Workspace /\ ws' = [ws EXCEPT !.version = ws'.version]
  <2>1. CASE ws' = ws
    BY <2>1, RunFields DEF Workspace
  <2>2. CASE ws' = IF run.from = 0 THEN ws ELSE [ws EXCEPT !.version = run.from]
    BY <2>2, RunFields DEF Workspace, Run
  <2> QED BY <2>1, <2>2 DEF RollbackVersion
<1>6. run'.stuck \/ ws'.version = original.ws.version \/ original.ws.version = 0
  <2>1. CASE ws' = IF run.from = 0 THEN ws ELSE [ws EXCEPT !.version = run.from]
    BY <1>1, <2>1, RunFields DEF Workspace, Run
  <2>2. CASE run' = [run EXCEPT !.pc = "done", !.stuck = TRUE]
    BY <2>2, RunFields DEF Run
  <2> QED BY <2>1, <2>2 DEF RollbackVersion
<1>7. FlowInv' /\ BuildInv'
  BY <1>2, <1>5, CallsKept
<1>8. TypeOK' /\ original' \in OriginalType
  BY <1>2, <1>3, <1>4, <1>7, RunFields DEF TypeOK, FlowInv, BuildInv, Ended
<1>9. flow' = flow
  BY <1>2 DEF flowVars
<1>10. StepInv'
  BY <1>1, <1>2, <1>4, <1>9 DEF IInv, StepInv, Edits, ImageCheck, Returns
<1>11. VersionInv'
  BY <1>2, <1>3, <1>4, <1>6 DEF VersionInv, VersionIsSet, KeptOrStuck, Returns
<1>12. EditInv' /\ ResultInv'
  BY <1>1, <1>3, <1>4, <1>9, NotPending DEF EditInv, ResultInv, Edits, Returns
<1>13. UntouchedInv'
  BY <1>1, <1>2, <1>3, <1>4 DEF IInv, UntouchedInv, Returns
<1> QED BY <1>7, <1>8, <1>10, <1>11, <1>12, <1>13 DEF IInv

-----------------------------------------------------------------------------
\* Steps of a publication touch the store only.
LEMMA PublicationKeeps ==
  ASSUME IInv, FlowInv', run.pc \in {"publish", "publishing"},
         flow'.pc # "idle" =>
           /\ flow'.request.dry = input.dry
           /\ flow'.request.guard = input.request.guard
           /\ flow'.request.store = "official" => run.op = "publish-official",
         run' \in Run, run'.pc = "publishing", run'.op = run.op,
         run'.stuck = run.stuck, result' \in Result,
         result'.status = result.status, result'.lpk = result.lpk,
         UNCHANGED <<ws, buildVars, input, original, resultFile, copied,
                     homepage>>
  PROVE  IInv'
<1>1. /\ build.pc = "idle" /\ ws = original.ws /\ result.status = "running"
      /\ result.lpk = NoFile /\ homepage = original.homepage /\ ~copied
      /\ run.op \in {"publish-official", "publish-private"} /\ BuildInv
  BY DEF IInv, StepInv, EditInv, UntouchedInv, Edits, Returns
<1>2. build' = build /\ output' = output /\ temporary' = temporary /\ ws' = ws
  BY DEF buildVars
<1>3. BuildInv'
  BY <1>1, <1>2 DEF BuildInv, BuildTypeOK, Acceptable
<1>4. TypeOK' /\ original' \in OriginalType
  BY <1>3, RunFields DEF TypeOK, FlowInv, BuildInv, Ended
<1>5. StepInv'
  BY <1>1, <1>2 DEF IInv, StepInv, Edits, ImageCheck, Returns
<1>6. VersionInv' /\ EditInv' /\ ResultInv'
  BY <1>1, <1>2 DEF VersionInv, VersionIsSet, EditInv, ResultInv, Edits, Returns
<1>7. input.dry => submitted' = Nothing
  BY DEF IInv, UntouchedInv, FlowInv, SubmittedInv
<1>8. UntouchedInv'
  BY <1>1, <1>2, <1>7 DEF IInv, UntouchedInv, LeftAlone, Edits, Returns
<1> QED BY <1>3, <1>4, <1>5, <1>6, <1>8 DEF IInv

LEMMA StartPublishStep ==
  ASSUME IInv, StartPublish
  PROVE  IInv'
<1>1. run.pc = "publish" /\ run.op \in {"publish-official", "publish-private"}
      /\ input.request # None
  BY DEF StartPublish, IInv, StepInv
<1>2. UNCHANGED <<ws, buildVars, input, original, resultFile, copied, homepage>>
  BY DEF StartPublish, StoresNothing
<1>3. CASE Fails /\ UNCHANGED flowVars
  BY <1>1, <1>2, <1>3, FailKeeps, EarlyLeftAlone
<1>4. CASE ~(Fails /\ UNCHANGED flowVars)
  <2> DEFINE store == IF run.op = "publish-private" THEN "private" ELSE "official"
             request == [input.request EXCEPT !.version = EffectiveVersion,
                           !.strategy = input.publish, !.dry = input.dry,
                           !.store = store]
  <2>1. PICK file \in File, found \in Version \cup {None} :
          StartFlow(request, file, found)
    BY <1>4 DEF StartPublish
  <2>2. /\ EffectiveVersion # 0 /\ Goto("publishing")
        /\ result' = [result EXCEPT !.version = EffectiveVersion]
    BY <1>4 DEF StartPublish
  <2>3. EffectiveVersion \in PackageVersion /\ EffectiveVersion \in Version
    BY <2>2, RunFields, VersionsAgree DEF EffectiveVersion, Input, Workspace
  <2>4. input.request \in FlowRequest /\ input.publish \in BOOLEAN
        /\ input.dry \in BOOLEAN
    BY <1>1, RunFields DEF Input
  <2>5. store \in Store /\ (store = "official" => run.op = "publish-official")
    BY <1>1 DEF Store
  <2> HIDE DEF store
  <2>6. /\ request \in FlowRequest /\ request.dry = input.dry
        /\ request.guard = input.request.guard /\ request.store = store
    BY <2>3, <2>4, <2>5 DEF FlowRequest
  <2> HIDE DEF request
  <2>7. FlowInv' /\ flow'.request = request
    BY <2>1, <2>6, StartKeeps DEF IInv
  <2>8. /\ run' \in Run /\ run'.pc = "publishing" /\ run'.op = run.op
        /\ run'.stuck = run.stuck
    BY <2>2, RunFields DEF Run, RunPC, Goto
  <2>9. /\ result' \in Result /\ result'.status = result.status
        /\ result'.lpk = result.lpk
    BY <2>2, <2>3, RunFields DEF Result
  <2> QED BY <1>1, <1>2, <2>5, <2>6, <2>7, <2>8, <2>9, PublicationKeeps
<1> QED BY <1>3, <1>4

LEMMA PublishingStep ==
  ASSUME IInv, Publishing
  PROVE  IInv'
<1>1. run.pc = "publishing" /\ FlowStep /\ UNCHANGED <<ws, buildVars>>
      /\ UNCHANGED runVars
  BY DEF Publishing
<1>2. UNCHANGED <<input, run, result, original, resultFile, copied, homepage>>
  BY <1>1 DEF runVars
<1>3. FlowInv' /\ flow'.request = flow.request /\ flow.pc # "idle"
  BY <1>1, FlowStepKeeps DEF IInv
<1>4. /\ flow.request.dry = input.dry
      /\ flow.request.guard = input.request.guard
      /\ flow.request.store = "official" => run.op = "publish-official"
  BY <1>3 DEF IInv, StepInv
<1> QED BY <1>1, <1>2, <1>3, <1>4, RunFields, PublicationKeeps

LEMMA PublishReturnedStep ==
  ASSUME IInv, PublishReturned
  PROVE  IInv'
<1>1. /\ run.pc = "publishing" /\ flow.pc = "done"
      /\ run.op \in {"publish-official", "publish-private"}
      /\ build.pc = "idle" /\ ws = original.ws /\ result.status = "running"
      /\ homepage = original.homepage /\ ~copied
      /\ run.pc \notin Returns \cup Edits /\ ~VersionIsSet
  BY DEF PublishReturned, IInv, StepInv, EditInv, UntouchedInv, Edits, Returns,
     VersionIsSet
<1>2. UNCHANGED <<ws, buildVars, flowVars, input, original, resultFile, copied,
                  homepage>>
  BY DEF PublishReturned, OutsideCalls, StoresNothing
<1>3. CASE ~IsPause /\ Fails
  <2>1. flow.outcome # "pending"
    BY <1>1, <1>3 DEF IInv, StepInv, FlowInv, PendingInv, IsPause
  <2> QED BY <1>1, <1>2, <1>3, <2>1, FailKeeps
<1>4. CASE IsPause /\ Pauses
  <2>1. flow.outcome = "pending" /\ LeftAlone
    BY <1>1, <1>4 DEF IsPause, LeftAlone
  <2> QED BY <1>1, <1>2, <1>4, <2>1, PauseKeeps
<1>5. CASE /\ flow.outcome # "pending"
           /\ Goto("write") /\ UNCHANGED result
  <2>1. /\ run' \in Run /\ run'.pc = "write" /\ run'.op = run.op
        /\ run'.stuck = run.stuck
    BY <1>5, RunFields DEF Run, RunPC, Goto
  <2>2. FlowInv' /\ BuildInv'
    BY <1>2, CallsUnchanged
  <2>3. TypeOK' /\ original' \in OriginalType
    BY <1>2, <1>5, <2>1, <2>2, RunFields DEF TypeOK, FlowInv, BuildInv, Ended
  <2>4. flow' = flow /\ build' = build /\ output' = output
        /\ submitted' = submitted /\ ws' = ws
    BY <1>2 DEF flowVars, buildVars
  <2>5. StepInv'
    BY <1>1, <1>2, <2>1, <2>4 DEF IInv, StepInv, Edits, ImageCheck, Returns
  <2>6. VersionInv' /\ EditInv'
    BY <1>1, <1>2, <1>5, <2>1, <2>4
    DEF VersionInv, VersionIsSet, KeptOrBuilt, EditInv, Edits, Returns
  <2>7. UntouchedInv'
    BY <1>1, <1>2, <1>5, <2>1, <2>4
    DEF IInv, UntouchedInv, LeftAlone, Edits, Returns
  <2>8. ResultInv'
    BY <1>1, <1>5, <2>1, <2>4 DEF ResultInv
  <2> QED BY <2>2, <2>3, <2>5, <2>6, <2>7, <2>8 DEF IInv
<1> QED BY <1>3, <1>4, <1>5 DEF PublishReturned

-----------------------------------------------------------------------------
(* The end of a run                                                         *)

LEMMA WriteResultStep ==
  ASSUME IInv, WriteResult
  PROVE  IInv'
<1>1. run.pc = "write" /\ result.status \in {"running", "paused"}
      /\ homepage = original.homepage
  BY DEF WriteResult, IInv, ResultInv, UntouchedInv
<1>2. UNCHANGED <<ws, buildVars, flowVars, input, original, copied, homepage>>
  BY DEF WriteResult, OutsideCalls
<1>3. flow' = flow /\ build' = build /\ output' = output
      /\ submitted' = submitted /\ ws' = ws
  BY <1>2 DEF flowVars, buildVars
<1>4. FlowInv' /\ BuildInv'
  BY <1>2, CallsUnchanged
<1>5. CASE /\ Goto("done") /\ UNCHANGED resultFile
           /\ result' = [result EXCEPT !.status = "unwritten"]
  <2>1. /\ run' \in Run /\ run'.op = run.op /\ run'.stuck = run.stuck
        /\ run'.pc = "done"
    BY <1>5, RunFields DEF Run, RunPC, Goto
  <2>2. /\ result' \in Result /\ result'.status = "unwritten"
        /\ result'.lpk = result.lpk
    BY <1>5, RunFields DEF Result, RunStatus
  <2>3. TypeOK' /\ original' \in OriginalType
    BY <1>2, <1>4, <1>5, <2>1, <2>2, RunFields
    DEF TypeOK, FlowInv, BuildInv, Ended
  <2>4. StepInv'
    BY <1>1, <1>2, <1>3, <2>1 DEF IInv, StepInv, Edits, ImageCheck, Returns
  <2>5. VersionInv' /\ EditInv'
    BY <1>1, <1>2, <1>3, <2>1, <2>2
    DEF IInv, VersionInv, VersionIsSet, KeptOrBuilt, EditInv, Edits, Returns
  <2>6. UntouchedInv'
    BY <1>1, <1>2, <1>3, <2>1, <2>2
    DEF IInv, UntouchedInv, LeftAlone, Edits, Returns
  <2>7. ResultInv'
    BY <1>3, <2>1, <2>2 DEF ResultInv
  <2> QED BY <1>4, <2>3, <2>4, <2>5, <2>6, <2>7 DEF IInv
<1>6. CASE ~(/\ Goto("done") /\ UNCHANGED resultFile
             /\ result' = [result EXCEPT !.status = "unwritten"])
  <2>1. /\ result' = [result EXCEPT !.status =
                        IF result.status = "paused" THEN "paused" ELSE "ok"]
        /\ resultFile' = result'
        /\ Goto(IF run.op \in {"build", "check"} THEN "homepage" ELSE "done")
    BY <1>6 DEF WriteResult
  <2>2. /\ run' \in Run /\ run'.op = run.op /\ run'.stuck = run.stuck
        /\ run'.pc = IF run.op \in {"build", "check"} THEN "homepage" ELSE "done"
    BY <2>1, RunFields DEF Run, RunPC, Goto
  <2>3. /\ result' \in Result
        /\ result'.status = IF result.status = "paused" THEN "paused" ELSE "ok"
        /\ result'.lpk = result.lpk /\ result'.version = result.version
        /\ result'.changed = result.changed
    BY <2>1, RunFields DEF Result, RunStatus
  <2>5. TypeOK' /\ original' \in OriginalType
    BY <1>2, <1>4, <2>1, <2>2, <2>3, RunFields
    DEF TypeOK, FlowInv, BuildInv, Ended
  <2>7. StepInv'
    BY <1>1, <1>2, <1>3, <2>2 DEF IInv, StepInv, Edits, ImageCheck, Returns
  <2>8. VersionInv' /\ EditInv'
    BY <1>1, <1>2, <1>3, <2>2, <2>3
    DEF IInv, VersionInv, VersionIsSet, KeptOrBuilt, EditInv, Edits, Returns
  <2>9. UntouchedInv'
    BY <1>1, <1>2, <1>3, <2>2, <2>3
    DEF IInv, UntouchedInv, LeftAlone, Edits, Returns
  <2>10. ResultIsOfTheWorkspace => ResultIsOfTheWorkspace'
    BY <1>2, <1>3, <2>3 DEF ResultIsOfTheWorkspace
  <2>11. ResultInv'
    BY <1>1, <1>3, <2>1, <2>2, <2>3, <2>10 DEF IInv, ResultInv, Returns
  <2> QED BY <1>4, <2>5, <2>7, <2>8, <2>9, <2>11 DEF IInv
<1> QED BY <1>5, <1>6

LEMMA EnsureHomepageStep ==
  ASSUME IInv, EnsureHomepage
  PROVE  IInv'
<1>1. run.pc = "homepage" /\ result.status \in {"ok", "paused"}
      /\ homepage = original.homepage
  BY DEF EnsureHomepage, IInv, ResultInv, UntouchedInv
<1>2. UNCHANGED <<ws, buildVars, flowVars, input, original, result, resultFile,
                  copied>>
  BY DEF EnsureHomepage, OutsideCalls
<1>3. /\ run' \in Run /\ run'.op = run.op /\ run'.stuck = run.stuck
      /\ run'.pc = "done"
  BY RunFields DEF EnsureHomepage, Run, RunPC, Goto
<1>4. /\ homepage' \in {"empty", "theirs", "ours"}
      /\ ~SyncsHomepage => homepage' = homepage
      /\ homepage = "theirs" => homepage' = "theirs"
  BY RunFields DEF EnsureHomepage
<1>5. FlowInv' /\ BuildInv'
  BY <1>2, CallsUnchanged
<1>6. TypeOK' /\ original' \in OriginalType
  BY <1>1, <1>2, <1>3, <1>4, <1>5, RunFields
  DEF TypeOK, FlowInv, BuildInv, Ended
<1>7. flow' = flow /\ build' = build /\ output' = output
      /\ submitted' = submitted /\ ws' = ws
  BY <1>2 DEF flowVars, buildVars
<1>8. StepInv'
  BY <1>1, <1>2, <1>3, <1>7 DEF IInv, StepInv, Edits, ImageCheck, Returns
<1>9. VersionInv' /\ EditInv'
  BY <1>1, <1>2, <1>3, <1>7
  DEF IInv, VersionInv, VersionIsSet, KeptOrBuilt, EditInv, Edits, Returns
<1>10. UntouchedInv'
  BY <1>1, <1>2, <1>3, <1>4, <1>7
  DEF IInv, UntouchedInv, LeftAlone, SyncsHomepage, Edits, Returns
<1>11. ResultInv'
  BY <1>1, <1>2, <1>3, <1>7 DEF IInv, ResultInv, ResultIsOfTheWorkspace, Returns
<1> QED BY <1>5, <1>6, <1>8, <1>9, <1>10, <1>11 DEF IInv

\* Other publishers act on the store only.
LEMMA OthersStep ==
  ASSUME IInv, OthersPublish, UNCHANGED <<ws, buildVars, runVars>>
  PROVE  IInv'
<1>1. FlowInv' /\ flow' = flow /\ submitted' = submitted
  BY OthersKeep DEF IInv, OthersPublish
<1>2. /\ UNCHANGED <<input, run, result, resultFile, copied, homepage, original>>
      /\ UNCHANGED <<ws, build, output, temporary>>
  BY DEF runVars, buildVars
<1>3. BuildInv'
  BY <1>2 DEF IInv, BuildInv, BuildTypeOK, Acceptable
<1>4. TypeOK' /\ original' \in OriginalType
  BY <1>1, <1>2, <1>3 DEF IInv, TypeOK, FlowInv, BuildInv, Ended
<1>5. StepInv' /\ VersionInv' /\ EditInv'
  BY <1>1, <1>2 DEF IInv, StepInv, VersionInv, VersionIsSet, KeptOrBuilt, KeptOrStuck,
              EditInv
<1>6. UntouchedInv' /\ ResultInv'
  BY <1>1, <1>2
  DEF IInv, UntouchedInv, LeftAlone, ResultInv, ResultIsOfTheWorkspace, Returns
<1> QED BY <1>1, <1>3, <1>4, <1>5, <1>6 DEF IInv

-----------------------------------------------------------------------------
(* The theorems                                                             *)

LEMMA InitEstablishes == Init => IInv
<1> SUFFICES ASSUME Init PROVE IInv
  OBVIOUS
<1>1. FlowInv
  BY IdleCall DEF Init
<1>2. /\ ws \in Workspace /\ temporary = NoFile /\ output = NoFile
      /\ build = [pc |-> "idle", version |-> 0] /\ 0 \in PackageVersion
  BY BuildAssumption DEF Init, BuildInit
<1>3. BuildTypeOK
  BY <1>2 DEF BuildTypeOK, BuildPC
<1>4. BuildInv
  BY <1>2, <1>3 DEF BuildInv
<1>5. /\ run = [pc |-> "start", op |-> "invalid", reviewVersion |-> 0,
                candidate |-> 0, images |-> ws.images, from |-> 0,
                stuck |-> FALSE]
      /\ result = [status |-> "running", version |-> 0, changed |-> FALSE,
                   lpk |-> NoFile]
      /\ original = [ws |-> ws, homepage |-> homepage]
      /\ input \in Inputs /\ resultFile = None /\ copied = FALSE
      /\ homepage \in {"empty", "theirs"}
  BY DEF Init
<1>6. run \in Run
  BY <1>2, <1>5 DEF Run, RunPC, Operation, Workspace
<1>7. result \in Result
  BY <1>2, <1>5 DEF Result, RunStatus
<1>8. TypeOK /\ original \in OriginalType
  BY <1>1, <1>2, <1>3, <1>5, <1>6, <1>7
  DEF TypeOK, FlowInv, Ended, OriginalType
<1>9. flow.pc = "idle" /\ submitted = Nothing
  BY DEF Init, FlowInit, IdleFlow
<1>10. StepInv
  BY <1>2, <1>5, <1>9 DEF StepInv, Edits, ImageCheck, Returns
<1>11. VersionInv /\ EditInv /\ ResultInv
  BY <1>5 DEF VersionInv, VersionIsSet, EditInv, ResultInv, Edits, Returns
<1>12. UntouchedInv
  BY <1>2, <1>5, <1>9 DEF UntouchedInv, LeftAlone, Edits, Returns
<1> QED BY <1>1, <1>4, <1>8, <1>10, <1>11, <1>12 DEF IInv

LEMMA StutterKeeps ==
  ASSUME IInv, UNCHANGED vars
  PROVE  IInv'
<1>1. /\ UNCHANGED <<ws, buildVars, flowVars>>
      /\ UNCHANGED <<input, run, result, resultFile, copied, homepage, original>>
  BY DEF vars, runVars
<1>2. FlowInv' /\ BuildInv'
  BY <1>1, CallsUnchanged
<1>3. UNCHANGED <<build, output, temporary>> /\ UNCHANGED <<flow, submitted>>
  BY <1>1 DEF buildVars, flowVars
<1>4. TypeOK' /\ original' \in OriginalType
  BY <1>1, <1>2, RunFields DEF IInv, TypeOK, FlowInv, BuildInv, Ended
<1>5. StepInv' /\ VersionInv' /\ EditInv'
  BY <1>1, <1>3 DEF IInv, StepInv, VersionInv, VersionIsSet, KeptOrBuilt, KeptOrStuck,
              EditInv
<1>6. UntouchedInv' /\ ResultInv'
  BY <1>1, <1>3
  DEF IInv, UntouchedInv, LeftAlone, ResultInv, ResultIsOfTheWorkspace
<1> QED BY <1>2, <1>4, <1>5, <1>6 DEF IInv

\* What the steps of a run know of the workspace, of the build and of the
\* publication is inductive, for any inputs, versions, licenses and images.
THEOREM InductiveInvariant == Spec => []IInv
<1>1. IInv /\ [Next]_vars => IInv'
  <2> SUFFICES ASSUME IInv, [Next]_vars PROVE IInv'
    OBVIOUS
  <2>1. CASE RunStep
    BY <2>1, StartStep, QueryReviewStep, PrepareBuildStep, SelectImagesStep,
       DeliverImagesStep, ResolveChangelogStep, ApplyManifestStep,
       SyncLicenseStep, SetVersionStep, InspectUpdatedStep, BuildingStep,
       BuildReturnedStep, RollbackVersionStep, StartPublishStep,
       PublishingStep, PublishReturnedStep, WriteResultStep, EnsureHomepageStep
    DEF RunStep
  <2>2. CASE OthersPublish /\ UNCHANGED <<ws, buildVars, runVars>>
    BY <2>2, OthersStep
  <2>3. CASE UNCHANGED vars
    BY <2>3, StutterKeeps
  <2> QED BY <2>1, <2>2, <2>3 DEF Next
<1> QED BY InitEstablishes, <1>1, PTL DEF Spec

\* Variables keep their types, and a run that ended has a status.
THEOREM TypeCorrect == Spec => []TypeOK
<1>1. IInv => TypeOK
  BY DEF IInv
<1> QED BY InductiveInvariant, <1>1, PTL

\* internal/build: the output only ever is an LPK that was verified and has the
\* version that was asked for, and a call that returned left no temporary file.
THEOREM OutputsAreVerified == Spec => []OutputIsVerified
<1>1. IInv => OutputIsVerified
  <2> SUFFICES ASSUME IInv PROVE OutputIsVerified
    OBVIOUS
  <2>1. BuildInv
    BY DEF IInv
  <2>2. output # NoFile => output.content.version = build.version
    BY <2>1, BuildFields DEF BuildInv, Workspace
  <2> QED BY <2>1, <2>2 DEF BuildInv, OutputIsVerified
<1> QED BY InductiveInvariant, <1>1, PTL

\* publishflow: whatever the lookup goes through and whatever others publish
\* meanwhile, what reaches a store is the verified file, and of a version that
\* was no reason to skip when the call began, or was hidden since.
THEOREM SubmissionsAreNew == Spec => []SubmitsNewVerifiedFiles
<1>1. IInv => SubmitsNewVerifiedFiles
  BY DEF IInv, FlowInv
<1> QED BY InductiveInvariant, <1>1, PTL

\* rollbackVersion: a failed run leaves the version that was there, unless the
\* restoration failed; a run that cannot write its result has the verified LPK
\* of the version it leaves.
THEOREM FailuresKeepVersions == Spec => []FailedRunKeepsVersion
<1>1. IInv => FailedRunKeepsVersion
  BY DEF IInv, VersionInv, KeptOrBuilt, KeptOrStuck, Ended, Returns,
         FailedRunKeepsVersion
<1> QED BY InductiveInvariant, <1>1, PTL

\* A successful build or check returns what is in the workspace and at the
\* output, and result.json says what was returned.
THEOREM SuccessesAreOfTheWorkspace == Spec => []SuccessIsOfTheWorkspace
<1>1. IInv => SuccessIsOfTheWorkspace
  BY DEF IInv, ResultInv, SuccessIsOfTheWorkspace
<1> QED BY InductiveInvariant, <1>1, PTL

\* A paused run and a dry run leave workspace, output, registry and website as
\* they were; a dry run and an initial pause leave the stores alone, and a final
\* pause files no review.  What the guard stopped is reported as a pause, and an
\* owner's website stays in every run.
THEOREM PausesAndDryRunsStayClean == Spec => []PausesAndDryRunsAreClean
<1>1. IInv => PausesAndDryRunsAreClean
  <2> SUFFICES ASSUME IInv PROVE PausesAndDryRunsAreClean
    OBVIOUS
  <2>1. LeftAlone => Untouched
    BY DEF IInv, BuildInv, LeftAlone, Untouched
  <2>2. /\ flow.outcome = "pending" => ~submitted.review /\ flow.request.guard
        /\ submitted = Nothing => ~submitted.review
        /\ run.op \in {"build", "check"} => submitted = Nothing
    BY DEF IInv, FlowInv, PendingInv, SubmittedInv, StepInv, Nothing
  <2> QED BY <2>1, <2>2
          DEF IInv, UntouchedInv, ResultInv, Ended, Returns, PausesAndDryRunsAreClean
<1> QED BY InductiveInvariant, <1>1, PTL

-----------------------------------------------------------------------------
(* What makes a run end, but for the fairness with which it goes on         *)

\* The numbers that the steps count down.
LEMMA CountsOfSteps ==
  /\ RunSteps["start"] = 13 /\ RunSteps["gate"] = 12 /\ RunSteps["check"] = 11
  /\ RunSteps["deliver"] = 10 /\ RunSteps["notes"] = 9 /\ RunSteps["apply"] = 8
  /\ RunSteps["build"] = 8 /\ RunSteps["license"] = 7 /\ RunSteps["version"] = 6
  /\ RunSteps["inspect"] = 5 /\ RunSteps["building"] = 4
  /\ RunSteps["rollback"] = 3 /\ RunSteps["publish"] = 4
  /\ RunSteps["publishing"] = 3 /\ RunSteps["write"] = 2
  /\ RunSteps["homepage"] = 1 /\ RunSteps["done"] = 0
  /\ BuildSteps["idle"] = 5 /\ BuildSteps["assemble"] = 4
  /\ BuildSteps["verify"] = 3 /\ BuildSteps["install"] = 2
  /\ BuildSteps["sync"] = 1 /\ BuildSteps["built"] = 0 /\ BuildSteps["failed"] = 0
  BY DEF RunSteps, BuildSteps

LEMMA CountsOfFlow ==
  /\ FlowSteps["idle"] = 2 * MaxAttempts + 5
  /\ FlowSteps["verify"] = 2 * MaxAttempts + 4
  /\ FlowSteps["lookup"] = 4 /\ FlowSteps["wait"] = 3
  /\ FlowSteps["precheck"] = 2 /\ FlowSteps["publish"] = 1
  /\ FlowSteps["done"] = 0
  BY DEF FlowSteps

LEMMA CountsAreBounded ==
  ASSUME IInv
  PROVE  /\ RunLeft \in 0..13 /\ BuildLeft \in 0..5
         /\ FlowLeft \in 0..(2 * MaxAttempts + 5)
         /\ MaxAttempts \in Nat \ {0}
<1>1. MaxAttempts \in Nat \ {0}
  BY FlowAssumption
<1>2. run.pc \in RunPC /\ build.pc \in BuildPC
  BY RunFields DEF Run
<1>3. RunLeft \in 0..13
  BY <1>2, CountsOfSteps DEF RunPC, RunLeft
<1>4. BuildLeft \in 0..5
  BY <1>2, CountsOfSteps DEF BuildPC, BuildLeft
<1>5. FlowLeft \in 0..(2 * MaxAttempts + 5)
  <2>1. flow.pc \in FlowPC /\ flow.attempt \in 0..MaxAttempts
    BY CallFields DEF IInv
  <2>2. CASE flow.pc \in {"lookup", "wait"}
    <3>1. LookupsLeft = 2 * (MaxAttempts - flow.attempt)
      BY <2>2 DEF LookupsLeft
    <3> QED BY <1>1, <2>1, <2>2, <3>1, CountsOfFlow DEF FlowLeft
  <2>3. CASE flow.pc \notin {"lookup", "wait"}
    <3>1. LookupsLeft = 0
      BY <2>3 DEF LookupsLeft
    <3> QED BY <1>1, <2>1, <2>3, <3>1, CountsOfFlow DEF FlowLeft, FlowPC
  <2> QED BY <2>2, <2>3
<1> QED BY <1>1, <1>3, <1>4, <1>5

\* Each step of a run has fewer steps after it than the one that leads to it.
LEMMA SuccessorsHaveFewer ==
  /\ \A pc \in {"done", "gate", "check", "build", "publish"} :
       RunSteps[pc] < RunSteps["start"]
  /\ \A pc \in {"done", "write", "check", "build", "publish"} :
       RunSteps[pc] < RunSteps["gate"]
  /\ \A pc \in {"done", "license"} : RunSteps[pc] < RunSteps["build"]
  /\ \A pc \in {"done", "write", "deliver"} : RunSteps[pc] < RunSteps["check"]
  /\ \A pc \in {"done", "notes"} : RunSteps[pc] < RunSteps["deliver"]
  /\ \A pc \in {"done", "apply"} : RunSteps[pc] < RunSteps["notes"]
  /\ \A pc \in {"done", "license"} : RunSteps[pc] < RunSteps["apply"]
  /\ \A pc \in {"version", "write"} : RunSteps[pc] < RunSteps["license"]
  /\ \A pc \in {"done", "inspect"} : RunSteps[pc] < RunSteps["version"]
  /\ \A pc \in {"rollback", "building"} : RunSteps[pc] < RunSteps["inspect"]
  /\ \A pc \in {"rollback", "write"} : RunSteps[pc] < RunSteps["building"]
  /\ RunSteps["done"] < RunSteps["rollback"]
  /\ \A pc \in {"done", "publishing"} : RunSteps[pc] < RunSteps["publish"]
  /\ \A pc \in {"done", "write"} : RunSteps[pc] < RunSteps["publishing"]
  /\ \A pc \in {"homepage", "done"} : RunSteps[pc] < RunSteps["write"]
  /\ RunSteps["done"] < RunSteps["homepage"]
  BY CountsOfSteps

\* Where a step that names its successor, or fails, goes.
LEMMA Successors ==
  ASSUME IInv
  PROVE  /\ \A pc : Goto(pc) => run'.pc = pc
         /\ Fails => run'.pc = "done"
         /\ Pauses => run'.pc = "write"
<1>1. \A pc : Goto(pc) => run'.pc = pc
  BY RunFields DEF Goto, Run
<1> QED BY <1>1 DEF Fails, Pauses

\* The steps of a run up to the edits; none of them calls Build or the flow.
LEMMA EarlyCounts ==
  ASSUME IInv,
         Start \/ QueryReview \/ PrepareBuild \/ SelectImages \/ DeliverImages
         \/ ResolveChangelog \/ ApplyManifest
  PROVE  RunLeft' < RunLeft /\ UNCHANGED <<buildVars, flowVars>>
<1>1. UNCHANGED <<buildVars, flowVars>>
  BY DEF Start, QueryReview, PrepareBuild, SelectImages, DeliverImages,
         ResolveChangelog, ApplyManifest, OutsideCalls
<1>2. DOMAIN run = {"pc", "op", "reviewVersion", "candidate", "images", "from", "stuck"}
  BY RunFields DEF Run
<1>3. \A op : OperationStep(op) \in {"check", "build", "publish"}
  BY DEF OperationStep
<1>4. CASE Start
  <2>1. run.pc = "start" /\ run'.pc \in {"done", "gate", "check", "build", "publish"}
    BY <1>2, <1>3, <1>4, Successors DEF Start
  <2> QED BY <1>1, <2>1, SuccessorsHaveFewer DEF RunLeft
<1>5. CASE QueryReview
  <2>1. run.pc = "gate" /\ run'.pc \in {"done", "write", "check", "build", "publish"}
    BY <1>2, <1>3, <1>5, Successors DEF QueryReview
  <2> QED BY <1>1, <2>1, SuccessorsHaveFewer DEF RunLeft
<1>6. CASE PrepareBuild
  <2>1. run.pc = "build" /\ run'.pc \in {"done", "license"}
    BY <1>2, <1>6, Successors DEF PrepareBuild
  <2> QED BY <1>1, <2>1, SuccessorsHaveFewer DEF RunLeft
<1>7. CASE SelectImages
  <2>1. run.pc = "check" /\ run'.pc \in {"done", "write", "deliver"}
    BY <1>2, <1>7, Successors DEF SelectImages
  <2> QED BY <1>1, <2>1, SuccessorsHaveFewer DEF RunLeft
<1>8. CASE DeliverImages \/ ResolveChangelog \/ ApplyManifest
  <2>1. \/ run.pc = "deliver" /\ run'.pc \in {"done", "notes"}
        \/ run.pc = "notes" /\ run'.pc \in {"done", "apply"}
        \/ run.pc = "apply" /\ run'.pc \in {"done", "license"}
    BY <1>8, Successors DEF DeliverImages, ResolveChangelog, ApplyManifest
  <2> QED BY <1>1, <2>1, SuccessorsHaveFewer DEF RunLeft
<1> QED BY <1>1, <1>4, <1>5, <1>6, <1>7, <1>8

\* The other steps that call neither Build nor the flow.
LEMMA LateCounts ==
  ASSUME IInv,
         SyncLicense \/ SetVersion \/ BuildReturned \/ RollbackVersion
         \/ PublishReturned \/ WriteResult \/ EnsureHomepage
  PROVE  RunLeft' < RunLeft /\ UNCHANGED <<buildVars, flowVars>>
<1>1. UNCHANGED <<buildVars, flowVars>>
  BY DEF SyncLicense, SetVersion, BuildReturned, RollbackVersion, PublishReturned,
         WriteResult, EnsureHomepage, OutsideCalls
<1>2. DOMAIN run = {"pc", "op", "reviewVersion", "candidate", "images", "from", "stuck"}
  BY RunFields DEF Run
<1>3. CASE SyncLicense
  <2>1. run.pc = "license" /\ run'.pc \in {"version", "write"}
    BY <1>3, Successors DEF SyncLicense
  <2> QED BY <1>1, <2>1, SuccessorsHaveFewer DEF RunLeft
<1>4. CASE SetVersion
  <2>1. run.pc = "version" /\ run'.pc \in {"done", "inspect"}
    BY <1>2, <1>4, Successors DEF SetVersion
  <2> QED BY <1>1, <2>1, SuccessorsHaveFewer DEF RunLeft
<1>5. CASE BuildReturned
  <2>1. run.pc = "building" /\ run'.pc \in {"rollback", "write"}
    BY <1>5, Successors DEF BuildReturned, FailsAfterEdit, RollsBack
  <2> QED BY <1>1, <2>1, SuccessorsHaveFewer DEF RunLeft
<1>6. CASE RollbackVersion
  <2>1. run.pc = "rollback" /\ run'.pc = "done"
    BY <1>2, <1>6, Successors DEF RollbackVersion
  <2> QED BY <1>1, <2>1, SuccessorsHaveFewer DEF RunLeft
<1>7. CASE PublishReturned
  <2>1. run.pc = "publishing" /\ run'.pc \in {"write", "done"}
    BY <1>7, Successors DEF PublishReturned
  <2> QED BY <1>1, <2>1, SuccessorsHaveFewer DEF RunLeft
<1>8. CASE WriteResult \/ EnsureHomepage
  <2>1. \/ run.pc = "write" /\ run'.pc \in {"homepage", "done"}
        \/ run.pc = "homepage" /\ run'.pc = "done"
    BY <1>8, Successors DEF WriteResult, EnsureHomepage
  <2> QED BY <1>1, <2>1, SuccessorsHaveFewer DEF RunLeft
<1> QED BY <1>1, <1>3, <1>4, <1>5, <1>6, <1>7, <1>8

\* The steps of Build.
LEMMA BuildCounts ==
  ASSUME IInv
  PROVE  /\ BuildStep => BuildLeft' < BuildLeft
         /\ \A version : StartBuild(version) => BuildLeft' < BuildLeft
<1>1. DOMAIN build = {"pc", "version"}
  BY RunFields
<1>2. \A pc : BuildTo(pc) => build'.pc = pc
  BY <1>1 DEF BuildTo
<1>3. BuildFails => build'.pc = "failed"
  BY <1>2 DEF BuildFails
<1>4. ASSUME BuildStep PROVE BuildLeft' < BuildLeft
  <2>1. \/ build.pc = "assemble" /\ build'.pc \in {"failed", "verify"}
        \/ build.pc = "verify" /\ build'.pc \in {"failed", "install"}
        \/ build.pc = "install" /\ build'.pc \in {"failed", "sync"}
        \/ build.pc = "sync" /\ build'.pc \in {"built", "failed"}
    BY <1>2, <1>3, <1>4 DEF BuildStep, Assemble, VerifyBuilt, InstallOutput, SyncOutput
  <2> QED BY <2>1, CountsOfSteps DEF BuildLeft
<1>5. ASSUME NEW version, StartBuild(version) PROVE BuildLeft' < BuildLeft
  <2>1. build.pc = "idle" /\ build'.pc \in {"assemble", "failed"}
    BY <1>5 DEF StartBuild
  <2> QED BY <2>1, CountsOfSteps DEF BuildLeft
<1> QED BY <1>4, <1>5

\* The steps of a publication: a wait leads to the next of the lookups that are
\* left, and the first lookup leaves all others.
LEMMA FlowMoves ==
  ASSUME IInv, FlowStep
  PROVE  \/ flow.pc = "verify" /\ flow'.pc \in {"precheck", "done"}
         \/ flow.pc = "verify" /\ flow'.pc = "lookup" /\ flow'.attempt = 1
         \/ flow.pc = "lookup" /\ flow'.pc = "wait" /\ flow'.attempt = flow.attempt
         \/ /\ flow.pc = "wait" /\ flow'.pc = "lookup"
            /\ flow'.attempt = flow.attempt + 1
         \/ flow.pc \in {"lookup", "wait"} /\ flow'.pc \in {"precheck", "done"}
         \/ flow.pc = "precheck" /\ flow'.pc \in {"publish", "done"}
         \/ flow.pc = "publish" /\ flow'.pc = "done"
<1>1. DOMAIN flow = {"pc", "request", "file", "attempt", "outcome"}
  BY CallFields DEF IInv, FlowRecord
<1>2. \A pc : FlowTo(pc) => flow'.pc = pc /\ flow'.attempt = flow.attempt
  BY <1>1 DEF FlowTo
<1>3. \A outcome : FlowEnds(outcome) => flow'.pc = "done"
  BY <1>1 DEF FlowEnds
<1>4. CASE VerifyArtifact
  BY <1>1, <1>3, <1>4 DEF VerifyArtifact
<1>5. CASE LookupAnswered \/ LookupFails \/ LookupCancelled
  BY <1>2, <1>3, <1>5 DEF LookupAnswered, LookupFails, LookupGivesUp, LookupCancelled
<1>6. CASE WaitForRetry
  BY <1>1, <1>6 DEF WaitForRetry, NextAttempt
<1>7. CASE Precheck
  BY <1>2, <1>3, <1>7 DEF Precheck
<1>8. CASE Published \/ ReviewPends \/ PublisherFails
  BY <1>3, <1>8 DEF Published, ReviewPends, PublisherFails
<1> QED BY <1>4, <1>5, <1>6, <1>7, <1>8 DEF FlowStep

LEMMA FlowCounts ==
  ASSUME IInv
  PROVE  /\ FlowStep => FlowLeft' < FlowLeft
         /\ \A request, file, found :
              StartFlow(request, file, found) => FlowLeft' < FlowLeft
<1>1. flow.attempt \in 0..MaxAttempts /\ MaxAttempts \in Nat \ {0}
  BY CallFields, FlowAssumption DEF IInv
<1>2. ASSUME FlowStep PROVE FlowLeft' < FlowLeft
  <2>1. CASE flow.pc = "verify"
    <3>1. FlowLeft = 2 * MaxAttempts + 4
      BY <1>1, <2>1, CountsOfFlow DEF FlowLeft, LookupsLeft
    <3>2. FlowLeft' \in {0, 2, 2 * MaxAttempts + 2}
      BY <1>1, <1>2, <2>1, FlowMoves, CountsOfFlow DEF FlowLeft, LookupsLeft
    <3> QED BY <1>1, <3>1, <3>2
  <2>2. CASE flow.pc = "lookup"
    <3>1. FlowLeft = 2 * (MaxAttempts - flow.attempt) + 4
      BY <1>1, <2>2, CountsOfFlow DEF FlowLeft, LookupsLeft
    <3>2. FlowLeft' \in {0, 2, 2 * (MaxAttempts - flow.attempt) + 3}
      BY <1>1, <1>2, <2>2, FlowMoves, CountsOfFlow DEF FlowLeft, LookupsLeft
    <3> QED BY <1>1, <3>1, <3>2
  <2>3. CASE flow.pc = "wait"
    <3>1. FlowLeft = 2 * (MaxAttempts - flow.attempt) + 3
      BY <1>1, <2>3, CountsOfFlow DEF FlowLeft, LookupsLeft
    <3>2. flow.attempt < MaxAttempts
      BY <2>3 DEF IInv, FlowInv, CallInv
    <3>3. FlowLeft' \in {0, 2, 2 * (MaxAttempts - flow.attempt) + 2}
      BY <1>1, <1>2, <2>3, FlowMoves, CountsOfFlow DEF FlowLeft, LookupsLeft
    <3> QED BY <1>1, <3>1, <3>2, <3>3
  <2>4. CASE flow.pc \in {"precheck", "publish"}
    BY <1>2, <2>4, FlowMoves, CountsOfFlow DEF FlowLeft, LookupsLeft
  <2> QED BY <1>2, <2>1, <2>2, <2>3, <2>4, FlowMoves
<1>3. ASSUME NEW request, NEW file, NEW found, StartFlow(request, file, found)
      PROVE  FlowLeft' < FlowLeft
  <2>1. flow.pc = "idle" /\ flow'.pc \in {"verify", "done"}
    <3>1. DOMAIN flow = {"pc", "request", "file", "attempt", "outcome"}
      BY CallFields DEF IInv, FlowRecord
    <3> QED BY <1>3, <3>1 DEF StartFlow
  <2> QED BY <1>1, <2>1, CountsOfFlow DEF FlowLeft, LookupsLeft
<1> QED BY <1>2, <1>3

\* The run, Build and the publication count down one at a time, or together.
LEMMA SumCounts ==
  ASSUME RunLeft \in Int, RunLeft' \in Int, BuildLeft \in Int, BuildLeft' \in Int,
         FlowLeft \in Int, FlowLeft' \in Int,
         RunLeft' < RunLeft \/ RunLeft' = RunLeft,
         BuildLeft' < BuildLeft \/ BuildLeft' = BuildLeft,
         FlowLeft' < FlowLeft \/ FlowLeft' = FlowLeft,
         RunLeft' < RunLeft \/ BuildLeft' < BuildLeft \/ FlowLeft' < FlowLeft
  PROVE  StepsLeft' < StepsLeft
<1>1. PICK r \in Int, b \in Int, f \in Int, rr \in Int, bb \in Int, ff \in Int :
        /\ RunLeft = r /\ RunLeft' = rr /\ BuildLeft = b /\ BuildLeft' = bb
        /\ FlowLeft = f /\ FlowLeft' = ff
  OBVIOUS
<1>2. /\ rr < r \/ rr = r
      /\ bb < b \/ bb = b
      /\ ff < f \/ ff = f
      /\ rr < r \/ bb < b \/ ff < f
  BY <1>1
<1>3. rr + bb + ff < r + b + f
  BY <1>2
<1>4. StepsLeft = r + b + f /\ StepsLeft' = rr + bb + ff
  BY <1>1 DEF StepsLeft
<1> QED BY <1>3, <1>4

LEMMA UnchangedCounts ==
  /\ run' = run => RunLeft' = RunLeft
  /\ build' = build => BuildLeft' = BuildLeft
  /\ flow' = flow => FlowLeft' = FlowLeft
  BY DEF RunLeft, BuildLeft, FlowLeft, LookupsLeft

\* Each step of the run lowers one of the numbers and raises none.
LEMMA RunCounts ==
  ASSUME IInv, RunStep
  PROVE  /\ RunLeft' < RunLeft \/ RunLeft' = RunLeft
         /\ BuildLeft' < BuildLeft \/ BuildLeft' = BuildLeft
         /\ FlowLeft' < FlowLeft \/ FlowLeft' = FlowLeft
         /\ RunLeft' < RunLeft \/ BuildLeft' < BuildLeft \/ FlowLeft' < FlowLeft
<1>1. CASE Start \/ QueryReview \/ PrepareBuild \/ SelectImages \/ DeliverImages
           \/ ResolveChangelog \/ ApplyManifest
  <2>1. RunLeft' < RunLeft /\ build' = build /\ flow' = flow
    BY <1>1, EarlyCounts DEF buildVars, flowVars
  <2> QED BY <2>1, UnchangedCounts
<1>2. CASE SyncLicense \/ SetVersion \/ BuildReturned \/ RollbackVersion
           \/ PublishReturned \/ WriteResult \/ EnsureHomepage
  <2>1. RunLeft' < RunLeft /\ build' = build /\ flow' = flow
    BY <1>2, LateCounts DEF buildVars, flowVars
  <2> QED BY <2>1, UnchangedCounts
<1>3. CASE InspectUpdated
  <2>1. run.pc = "inspect" /\ run'.pc \in {"rollback", "building"} /\ flow' = flow
    BY <1>3, Successors DEF InspectUpdated, FailsAfterEdit, RollsBack, flowVars
  <2>2. RunLeft' < RunLeft
    BY <2>1, SuccessorsHaveFewer DEF RunLeft
  <2>3. BuildLeft' < BuildLeft \/ build' = build
    BY <1>3, BuildCounts DEF InspectUpdated, buildVars
  <2> QED BY <2>1, <2>2, <2>3, UnchangedCounts
<1>4. CASE StartPublish
  <2>1. run.pc = "publish" /\ run'.pc \in {"done", "publishing"} /\ build' = build
    BY <1>4, Successors DEF StartPublish, buildVars
  <2>2. RunLeft' < RunLeft
    BY <2>1, SuccessorsHaveFewer DEF RunLeft
  <2>3. FlowLeft' < FlowLeft \/ flow' = flow
    BY <1>4, FlowCounts DEF StartPublish, flowVars
  <2> QED BY <2>1, <2>2, <2>3, UnchangedCounts
<1>5. CASE Building
  <2>1. BuildLeft' < BuildLeft /\ run' = run /\ flow' = flow
    BY <1>5, BuildCounts DEF Building, runVars, flowVars
  <2> QED BY <2>1, UnchangedCounts
<1>6. CASE Publishing
  <2>1. FlowLeft' < FlowLeft /\ run' = run /\ build' = build
    BY <1>6, FlowCounts DEF Publishing, runVars, buildVars
  <2> QED BY <2>1, UnchangedCounts
<1> QED BY <1>1, <1>2, <1>3, <1>4, <1>5, <1>6 DEF RunStep

\* A run takes at most 23 steps and two for each lookup it may make, whatever
\* its dependencies answer and however often others publish meanwhile: no retry,
\* rollback or pause leads it back.
THEOREM RunsAreBounded == Spec => StepsAreBounded
<1> DEFINE Counts == /\ RunLeft \in 0..13 /\ BuildLeft \in 0..5
                     /\ FlowLeft \in 0..(2 * MaxAttempts + 5)
           Bounded == StepsLeft \in 0..(2 * MaxAttempts + 23)
           CountsDown == IF RunStep THEN StepsLeft' < StepsLeft
                         ELSE StepsLeft' = StepsLeft
<1>1. IInv => Counts /\ Bounded
  <2>1. SUFFICES ASSUME IInv PROVE Counts /\ Bounded
    OBVIOUS
  <2>2. Counts /\ MaxAttempts \in Nat \ {0}
    BY <2>1, CountsAreBounded
  <2>3. PICK r \in 0..13, b \in 0..5, f \in 0..(2 * MaxAttempts + 5) :
          RunLeft = r /\ BuildLeft = b /\ FlowLeft = f
    BY <2>2
  <2>4. r + b + f \in 0..(2 * MaxAttempts + 23)
    BY <2>2
  <2>5. StepsLeft = r + b + f
    BY <2>3 DEF StepsLeft
  <2> QED BY <2>2, <2>4, <2>5
<1>2. IInv /\ Counts /\ Counts' /\ [Next]_vars => [CountsDown]_vars
  <2>1. SUFFICES ASSUME IInv, Counts, Counts', Next PROVE CountsDown
    OBVIOUS
  <2>2. CASE RunStep
    <3>1. /\ RunLeft \in Int /\ RunLeft' \in Int /\ BuildLeft \in Int
          /\ BuildLeft' \in Int /\ FlowLeft \in Int /\ FlowLeft' \in Int
      BY <2>1, FlowAssumption
    <3>2. StepsLeft' < StepsLeft
      BY <2>1, <2>2, <3>1, RunCounts, SumCounts
    <3> QED BY <2>2, <3>2
  <2>3. CASE ~RunStep
    <3>1. run' = run /\ build' = build /\ flow' = flow
      BY <2>1, <2>3 DEF Next, OthersPublish, runVars, buildVars
    <3>2. StepsLeft' = StepsLeft
      BY <3>1, UnchangedCounts DEF StepsLeft
    <3> QED BY <2>3, <3>2
  <2> QED BY <2>2, <2>3
<1> QED BY <1>1, <1>2, InductiveInvariant, PTL DEF Spec, StepsAreBounded
=============================================================================
