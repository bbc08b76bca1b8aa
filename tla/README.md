# Verification of lazycat-github-action

TLA+ specifications, TLC configurations and TLAPS proofs about the LazyCat
GitHub Action: the Go program in `cmd/` and `internal/`, and the reusable
workflow `.github/workflows/lazycat.yml` that calls it. Paths below are relative
to `src/`.

Contents: [1 the system](#1-the-system), [2 the modules](#2-the-modules),
[3 the runs](#3-the-runs), [4 the proofs](#4-the-proofs),
[5 disagreements between text and code](#5-disagreements-between-text-and-code),
[6 what is not modelled](#6-what-is-not-modelled), [7 the plan](#7-the-plan).

## 1 The system

One *job* of the workflow checks out a repository, runs the Action (`auto`),
which decides between an image check and a build, edits `package.yml` and the
LazyCat manifest, builds and verifies an LPK; commits the edit; creates or
reuses a GitHub Release with the LPK as its asset; and hands the verified asset
to the private (MiaoMiao) and the official (LazyCat) store. Everything the
components share lives outside the process: the git branch, the Release, the
two stores. The process itself is sequential except for the pipe that feeds an
upload; the concurrency is *between* jobs, reviewers, other publishers and the
lost or late answers of remote services.

| component | state it keeps | operations | interacts with | hard behaviour | correct when |
|---|---|---|---|---|---|
| official publisher, `internal/store/official/publish.go` | loop locals: attempt, upload timeout, created, prepared information; nothing persistent | `Publish` and its attempt: state/check, create, waiting-review guard, upload, review | developer platform over HTTP, its reviewers, other runs | retries of a non-idempotent call, lost replies, readings that go stale between attempts, cancellation | at most one review per call, of the verified LPK; guards hold in every attempt; what is reported is true |
| official precheck, `precheck.go`, `precheck_zip.go` | none | `PrecheckFile` | called by `Publish` and the publication flow | bounds on archive sizes | refuses before any remote call |
| private store client, `internal/store/private/client.go` | none; the store keeps applications and versions | `Publish`: find by id, package or name; reuse, create application, create version | MiaoMiao store | check-then-act between concurrent publishers, lost replies and re-runs, renamed applications | a reported version is the stored one; no second content for a version; a re-run recognises its own work |
| publication flow, `internal/publishflow/flow.go`, `internal/storelookup/lookup.go` | none | verify LPK, skip rules, choose the store, lookup with retries | both publishers, catalogs | the online version moves between lookup and publication | no publication of an unverified file; skips only what the rules say |
| workflow, `.github/workflows/lazycat.yml` | branch, Release and asset, step outputs | commit, classify, recover, upload, resolve, reconcile, publish, synchronise | git, GitHub Releases, the Action | jobs of different concurrency groups, crashes between steps, re-runs, moved branches | no stale artifact is released; stores get exactly the Release asset; a crashed run is completed by a later one |
| orchestration, `internal/action/action.go`, `cmd/` | the workspace's files | `Run`: check, build, publish, pause, rollback, result file | all internal packages | one of several edits failing, rollback, the review gate | a failed run leaves no half-made version; paused is not failed |
| image flow, `internal/imageflow`, `internal/delivery`, `internal/imagemirror` | digest baseline in the manifest | select, deliver (direct, mirror, copy), one manifest edit | registries, LazyCat registry, manifest editor | an image fails after another was copied; mutable tags change between reading and delivery | the manifest names what was delivered; a version never goes back unasked |
| registry clients, `internal/registry` | none | list, filter and inspect candidates; page through Docker Hub | registries | pages shift while they are read | every wanted tag or an error |
| version selection, `internal/versioning`, `internal/appversion` | none | `Select`, `SelectMutable`, `BumpPatch` | image flow | ordering rules, ties | the selection is the maximum of the rule's order |
| editors, `internal/manifestedit`, `internal/manifesttemplate`, `internal/yamledit` | files | targeted YAML edits, atomic replacement | workspace | crash between write and rename | the old or the new file, never a part |
| build, `internal/build`, `internal/imagebuild`, `internal/lpkcheck` | build output | build into a temporary file, verify, rename | toolkit, buildx | failure after the output was written | only verified LPKs get the final name |
| configuration, inspection, environment, credentials, homepage, license, notes, diagnostics | none | parse, validate, look up, format | files, environment, GitHub | — | pure validation, or best-effort lookups whose failure is ignored |

The hazards of this list, each at its line and with the properties that would
catch it going wrong, are in `PROJECT.json` under `hazards`; for the few that no
property covers a note says why.

How the modules divide the system:

```
ReleasePipeline   jobs, branch, Release, stores      (lazycat.yml)
  ActionRun       one process of the Action          (action.go, license, changelog)
    ImageFlow       an image check                   (imageflow, delivery, manifestedit)
      RegistrySelect  a query of the registry        (registry; uses VersionSelect, ConfigRules)
    LPKBuild        a build                          (build)
    PublishFlow     a publication                    (publishflow, storelookup)
      OfficialPublish, UploadStream                  (store/official)
      PrivateStore                                   (store/private)
```

`ActionRun` extends `LPKBuild` and `PublishFlow`, and `RegistrySelect` instantiates
`VersionSelect` and `ConfigRules`: these are checked as one system. Elsewhere the
upper module takes the lower one's possible results as a choice (the comments of
the actions name the module).

## 2 The modules

### OfficialPublish, one call of `Publisher.Publish`

`OfficialPublish.tla` models `Publish` and `publishAttempt` with the platform
they talk to. Every HTTP call is one step, and `pc` names the call that comes
next, so the reviewers (`ReviewDecided`), other publishers (`OtherFilesReview`)
and the caller's context (`ContextEnds`) act between any two calls.

| variable | in the code |
|---|---|
| `request` | the fields of `Request`, `Publisher.SDK` and `Application.HasSubmissionInfo()` the loop branches on |
| `attempt`, `uploadTimeout`, `created` | the loop's locals in `Publish` (lines 203-247) |
| `createdNow`, `infoReady` | `publishAttempt`'s `created` and `informationReady` |
| `infos` | `applicationInfos` is not nil |
| `upload` | which artifact the upload's metadata describes |
| `result` | what `Publish` returned |
| `exists`, `ready`, `waiting`, `ledger`, `lpks`, `shots` | the platform: the application, the approval of its information, the waiting review, the reviews and files it received from this call |
| `acked`, `readyAtCheck`, `blocked`, `pending` | history, read by properties only |

| action | code |
|---|---|
| `Start` | validation, precheck, token, timeout of the upload client (87-211) |
| `ReadState` | `ApplicationState` before the loop, legacy protocol (184-201) |
| `PrepareInfos` | `prepareApplicationInfos` (394-436) |
| `CheckApplication` | `ApplicationState` or `CheckApplication` of an attempt (318-341) |
| `CreateApplication` | 342-346 |
| `CheckPendingReview` | `checkPendingReview` (375-392) |
| `UploadLPK` | `uploadLPK` and the comparison of its answer (352-361, 530-582) |
| `SubmitReview` | `submitReview` (584-623) |
| `Wait` | `waitForRetry` and the loop's step (225-247) |

A call fails in every way `doRequest` distinguishes (`CallErrors`): transport
error, unreadable or oversized body of a 2xx answer, any other status, ended
context. Independently, `Served` says whether the platform had executed the
call: certainly after a 2xx status, certainly not after a 3xx or 4xx, otherwise
either. `RetryablePublishError` is the code's predicate, field by field, and
decides between another attempt and the end.

Abstracted: the length of the backoff wait and `Retry-After` (a wait is one
step) and the pipe that streams the LPK (module `UploadStream`), the text of errors, the contents of the
application information. Time appears only in `uploadTimeout`. The platform is
external: an approval is not withdrawn, an application is not deleted, a
creation is refused when the application exists, and a 3xx or 4xx answer means
that the call had no effect.

### ReviewOnce, what a publication promises

`ReviewOnce.tla` says the same without attempts, protocols or errors: a call
files at most one review, of a genuine artifact, and reports a publication only
after a review was filed. `OfficialPublish` implements it under
`filed <- ledger`, `report <- result.kind`; the property
`FilesOneGenuineReview` is `Once!Spec`.

### PrivateStore, calls of `private.Client.Publish` over one store

`PrivateStore.tla` models any number of publishers that run `Publish` against one
MiaoMiao store, each call one HTTP request per step, with the store's owner
renaming applications in between. The client retries nothing: a call ends, and
the workflow may be started again with any request (`Begin` of a publisher that
is done).

| variable | in the code |
|---|---|
| `pc` | the request `Publish` makes next |
| `request` | the normalized `Request`; a content is a SHA256 with the asset URL |
| `id`, `byName` | `application.ID` and `resolvedByName` of `Publish` |
| `outcome` | what `Publish` returned: `Created`, neither flag (`added`), `Existing`, a `CodeConflict`, any other error |
| `apps` | the store's applications (`appDTO`), with their versions in the order of recording |
| `calls`, `renames` | counters behind the bounds |
| `absent`, `served` | history, read by properties only |

| action | code |
|---|---|
| `Begin` | the start of `Publish` (51-67) |
| `FindByQuery` | `findApplicationByQuery` and what `findApplication` makes of it (96-143) |
| `FindByName` | `findApplicationByName` (105-120) |
| `GetApplication` | `getApplication` and the decisions of `Publish` (68-93, 145-156) |
| `CreateVersion`, `CreateApplication` | the two writes with the check of their answers (158-195, 292-307) |
| `Fail` | every way `doJSON` fails without the store having acted (197-237) |
| `Rename` | the store's owner |

The store is external and assumed to answer as the README describes it: a search
finds every application of the package, an application lists all its versions, a
name resolves to the one application of that name the token may upload to. The
README does not say what it does with a second record of a version or a second
application of a package; `OnDuplicate` leaves the three answers open: refuse it,
return the record it has, add it. A write is either executed before its call ends
or never; a write that arrives after its client gave up is, for the others, the
write of one more overlapping publisher.

Abstracted: the validation of URLs, identifiers and numbers (assumptions on the
requests and on the store's answers), redirects, sizes of bodies, and the
`Retryable` flag of errors, which no caller of a write reads.

### WriteOnce, what the private store and its clients promise

`WriteOnce.tla` is a register with one place for each version of each
application: a place is written once, and a caller is told only of content that
is stored in the place it is told. `PrivateStore` implements it (`IsWriteOnce`)
when the store does not add duplicates, for any number of overlapping calls.

### ReleasePipeline, jobs of the workflow

`ReleasePipeline.tla` models the jobs of `lazycat.yml` with strategy `publish` over
one branch, its Releases and both stores. Every step of the workflow that reads or
writes something shared is an action; between two of them other jobs run,
developers push commits and tags, and a job may die. A tree is its package file (the
version and a revision `meta` of the other fields of `package.yml`) and a revision
`rev` of the other files; every developer's commit has an edit number of its own in one
of the two. A commit is a position in the branch, an LPK remembers the tree it was
built from, and two builds of one tree may differ.

| variable | in the code |
|---|---|
| `setting` | `versioned-release-asset`, `private-store-enabled`, whether image ids put jobs into different concurrency groups |
| `upstream` | the version an image check selects |
| `branch` | the default branch |
| `release` | per version the Release, the commit of its tag, its asset |
| `private`, `official` | per version the LPK a store has |
| `job` | per group the job: `github.sha`, working tree, `direct-commit.commit`, the verified LPK, `store-artifact`, the package file read to sync (its blob sha) |
| `budget` | counters behind the bounds |

| action | step of the workflow |
|---|---|
| `Trigger`, `TagPushed`, `Rerun`, `Start` | events, the concurrency group, checkout |
| `RunAction` | Run LazyCat automation |
| `Fetch`, `Push`, `Refetch` | Commit direct-publish update (462-512) |
| `Classify`, `RecoveryBuild` | Classify Release work, Build missing Release artifact |
| `InspectAsset`, `CreateRelease`, `UploadAsset`, `ResolveAsset` | the Release and its asset (643-783) |
| `LocateAsset`, `DownloadAsset` | store reconciliation (785-849) |
| `PublishPrivate`, `PrivateFails`, `PublishOfficial`, `OfficialFails` | the two publications and what their failure does to the job |
| `ReadDefaultBranch`, `PutPackageFile` | Sync tag/release version to default branch (984, 1013-1023): the whole package file of the tag's checkout replaces the branch's, in the name of the blob that was read (`PutAccepted`) |
| `Dies` | a failing step after which nothing has an effect, the runner, or a pause |

Abstracted: the license commit of a tag, Releases in another repository
(`release-repository`), strategy `pull-request`, dry runs, permissions and names. GitHub is external: a push is accepted only on top of its
parent, a Release upload deletes an asset of its name before it uploads, a file
is replaced only if the blob that was read is still there.

### ReleaseOnce, what the pipeline promises

`ReleaseOnce.tla` says what the users of an application see of all jobs: a version is
built into one artifact that is never replaced or withdrawn, and each store records a
version at most once, after the artifact is there, and with exactly that artifact. It
has no jobs, steps, deaths or re-runs. `ReleasePipeline` implements it while the jobs
of one concurrency group do not overlap, under `asset <- release[v].asset` and
`records <- private, official`; the property `ReleasesOnce` is `OneRelease!Spec`.
Where groups overlap the mapping shows nothing (`IfQueued`): there the second of two
uploads does delete the first one's asset (lazycat.yml line 744), see section 5.

### ActionRun, LPKBuild and PublishFlow, one process of the Action

`ActionRun.tla` models `action.Run`. Each call of a dependency is one step and may
fail; `run.pc` names the next one. `LPKBuild.tla` (`Builder.Build`) and
`PublishFlow.tla` (`Flow.Publish` with the lookup of `storelookup`) contribute
their own variables and steps, which take place while `run.pc` is `building` or
`publishing`.

| variable | in the code |
|---|---|
| `input` | what `Run` reads of `Input` and the configuration |
| `run` | locals of `Run`, `runCheck`, `runBuild`: operation, `officialReviewVersion`, candidate, the version before `SetVersion` |
| `result`, `resultFile` | `Result`, and `result.json` |
| `ws`, `temporary`, `output`, `build` | `package.yml` and manifest, the temporary and the final LPK, the build call |
| `flow`, `online`, `submitted` | the publication, what the catalog shows, what the publisher's calls left in the store: a file, an application or screenshots, a review |
| `copied`, `homepage` | traces outside the workspace |
| `original`, `onlineAtStart` | history |

| action | code |
|---|---|
| `Start`, `QueryReview` | `Run` up to the operation, and the review gate (343-448) |
| `PrepareBuild`, `SelectImages`, `DeliverImages`, `ResolveChangelog`, `ApplyManifest` | `runBuild`, `runCheck` up to the edits |
| `SyncLicense`, `SetVersion`, `InspectUpdated`, `RollbackVersion` | edits of `package.yml` and their rollback |
| `StartBuild`, `Assemble`, `VerifyBuilt`, `InstallOutput`, `SyncOutput` | `Builder.Build` |
| `StartPublish`, `VerifyArtifact`, `LookupAnswered`, `LookupFails`, `WaitForRetry`, `LookupCancelled`, `Precheck`, `Published`, `ReviewPends`, `PublisherFails`, `PublishReturned` | `runPublish`, `Flow.Publish`, `storelookup.Default` |
| `WriteResult`, `EnsureHomepage` | the end of `Run` |

The project's buildscript is external and may stamp another version into what is
packed. An edit that replaces a file and then fails to synchronise the directory
fails although the file is new (`ApplyManifest`, `SyncOutput`). The publishers are one
step each; what they may have left in the store by then is a choice. In particular the
guard of the official publisher is asked after other calls (publish.go lines 179, 342,
and 352 of an earlier attempt), so a publication it stops may have left screenshots, an
application or an upload, but no review (`BeforeGuard`); `IsPause` is the condition of
action.go line 510 under which that becomes a pause. `unwritten` is the status of a run
that failed only because it could not write `result.json`.

### ImageFlow, image checks of a project over time

`ImageFlow.tla` models `imageflow.Flow.Check` with the deliveries it asks for and
`manifestedit.Apply`, over repeated checks. A reference is its tag (numbered as the
version the tag means) and its digest if pinned. Tags are pushed, moved and removed
between any two steps; what a check edits becomes the branch (`Commit`) or is lost
with the checkout (`Discard`).

| variable | in the code |
|---|---|
| `config` | images in order, version source, `bump`, `allow_downgrade`, delivery of each image |
| `manifest`, `committed` | `# upstream:` comment and image value per image; the branch's manifest and version |
| `upstream`, `copies` | what a selection finds; what the LazyCat registry has |
| `check` | locals of `Check` |
| `fresh`, `contents` | history |

| action | code |
|---|---|
| `StartCheck` | 99-168, with `prioritizeImage` and `ResolveImage` |
| `SelectImage` | selection, planned version, review and downgrade guards (169-241) |
| `Deliver` | `Resolver.Deliver` for one image, comparison with the plan, the recorded update (242-352) |
| `ApplyManifest` | `BeforeApply` and the one replacement of the manifest |

### UploadStream, the goroutines of an upload

`UploadStream.tla` has the retry loop of `Publish` again, with what
`OfficialPublish` abstracts: the goroutine that feeds the LPK through the pipe
(`feeder`), the transport that reads the body (`transport`), the ends of the pipe,
and the `Retry-After` recorder. The platform may answer before it read the body;
the file may become unreadable; the transport may stop reading at any time.
`CreateRequest`, `Answer`, `DoFails`, `CloseReader`, `Join` are `uploadLPK`
(530-582); `ReadChunk`, `Transfer`, `WriteFails`, `FeederFinishes` the goroutine;
`Decide` and `Wait` the loop (217-248).

### RegistrySelect, VersionSelect and ConfigRules, one query of a registry

`ConfigRules.tla` is what `config.Load` makes of an image: defaults, validation,
limits; `LoadedRules` are the rules of accepted images. `VersionSelect.tla` is
`versioning/select.go` as operators. `RegistrySelect.tla` is the process around
them: `ListTags` (with the refusal of `sort: updated` outside Docker Hub,
`RefusesRegistry`, dockerhub.go lines 52-54, which `config.Load` does not make), `ReadPage` (Docker Hub's pages of dates), `InspectNext` and
`InspectionEnds` (`InspectTarget`), `SelectTag`, with `Push` between any two
requests, which also moves tags from page to page.

### Model-checking modules and faults

`MCOfficialPublish`, `MCPrivateStore`, `MCReleasePipeline`, `MCActionRun`,
`MCImageFlow` and `MCRegistrySelect` give the inputs of the instances; the `.cfg`
files give the remaining constants.

An operator named `Operator_Fault` is `Operator` with a plausible mistake. No
specification uses it; `PROJECT.json` (`mutants`) says which property notices
the mistake when it replaces the operator.

## 3 The runs

| run | configuration | question | result |
|---|---|---|---|
| `official_publish` | `OfficialPublish.cfg` | do the guards, the bookkeeping and the promise of `ReviewOnce` hold over all attempts, and does the call return? | holds, about 242,000 states |
| `pat_pending_screenshots` | `OfficialPublishPAT.cfg` | does a pending review stop every upload, as the README says? | violated with the PAT protocol, see section 5 |
| `private_concurrent` | `PrivateStoreConcurrent.cfg` | do overlapping publishers keep versions write-once and report the truth? | holds, about 691,000 states |
| `private_exclusive` | `PrivateStoreExclusive.cfg` | does the client alone avoid duplicates when runs do not overlap? | holds, about 1,005,000 states |
| `private_same_sha` | `PrivateStoreSHA.cfg` | is the same version with the same SHA256 an existing result? | violated, see section 5 |
| `release_pipeline` | `ReleasePipeline.cfg` | do racing, dying and repeated jobs release and deliver the right files? | holds, about 455,000 states |
| `release_tag` | `ReleaseTag.cfg` | does a tag at another commit fail the workflow? | violated, see section 5 |
| `action_run` | `ActionRun.cfg` | what does a run of the Action leave behind, whatever fails? | holds, about 340,000 states |
| `image_flow` | `ImageFlow.cfg` | do repeated checks deliver, record and version images consistently while tags move? | holds, about 719,000 states |
| `image_downgrade` | `ImageDowngrade.cfg` | is a downgrade refused before anything is copied? | violated, see section 5 |
| `upload_stream` | `UploadStream.cfg` | does an upload end, whole and with the file still open, and does a retry wait as it was told? | holds, about 5,000 states |
| `registry_select` | `RegistrySelect.cfg` | does a query of a registry that changes select the best tag? | holds, about 2,483,000 states |

Properties of `official_publish`:

* `TypeOK`: types, and the attempt counter's bound.
* `FilesOneGenuineReview`: the refinement above.
* `GuardStopsPublication`: no guarded attempt uploads or files anything when a
  covering review has been waiting since it checked the application.
* `LegacyPendingReviewFailsClosed`: with the session protocol and application
  information, nothing is uploaded by an attempt during all of which a review
  was pending.
* `CreatedIsRemembered`: `Created` of the result tells whether a creation was
  acknowledged in any attempt.
* `InformationAccompaniesReview`: the review carries the application information
  exactly when the attempt that files it found it missing.
* `UploadTimeoutDoubles`: the upload timeout of attempt *n* is the request
  timeout times 2^(n-1), cut at the ceiling.
* `Returns`: the call returns.

Properties of `private_concurrent`:

* `TypeOK`: types, and that a call past its lookup knows an assigned application.
* `IsWriteOnce`: the refinement of `WriteOnce`. The interesting case is a call
  that read the application before another one recorded the same version: the
  store answers with the other's record, and `verifyVersion` has to notice.
* `NeverShadowsPackage`: a version goes into an application of another package
  only by name, and only if the package had no application when it was searched.

Properties of `private_exclusive`, where `Exclusive` stands for the workflow's
concurrency group and `OnDuplicate` includes `"add"`:

* `OneRecordPerVersion`, `OneApplicationPerPackage`: no duplicate is ever created.
* `RerunNeverConflicts`: a request whose release is stored, because an earlier
  run recorded it and perhaps never learned so, does not end in a conflict, unless
  an application was renamed in between.

Properties of `release_pipeline`:

* `TypeOK`: types; commits that jobs and tags name exist; a job hands the stores an
  LPK of its version.
* `AssetsComeFromTheBranch`: the LPK of a Release was built from a tree the branch
  has held, or from the tagged commit with the tag's version, whatever was pushed
  between checkout and upload.
* `ReleasesOnce`: the refinement of `ReleaseOnce`. The interesting cases are a job
  that died between the upload and a store and is run again, a scheduled job that
  finds half a Release, and builds that differ: none of them may upload a second
  asset or hand a store something else than the first. It implies
  `StoresServeTheRelease`, that both stores have the file the Release serves, which
  is no property of the run of its own but proved as `StoresAgree` (section 4).
* `EditsSurvive`: no push and no synchronisation takes a developer's edit back, with
  one exception the property names (`TakesBack`): the synchronisation of a tag replaces
  `package.yml` as a whole and so takes back edits to its other fields that the tag does
  not have, but only those that were in the file the job read; an edit that lands after
  the read is not lost, and other files never lose one. See section 5.
* `TipReachesTheStores`: with versioned assets and one group, the version at the
  tip is released and reaches the stores, wherever earlier jobs died, unless the
  branch moves on.

Properties of `action_run`:

* `TypeOK`.
* `OutputIsVerified`: an LPK has the output's name only after it was verified, and
  no temporary file survives a call.
* `SubmitsNewVerifiedFiles`: a publication submits the verified file, and with
  `skip_if_version_exists` no version that was online when it began, whatever the
  lookup went through, unless under `AllowDowngrade` a newer version hid it
  meanwhile.
* `FailedRunKeepsVersion`: a failed run leaves the version that was there, unless
  the rollback failed; a run that only could not write its result keeps its version
  edit, beside the verified LPK of that version. It says nothing of the manifest, which
  the code does not restore after a failed build.
* `SuccessIsOfTheWorkspace`: the LPK of a successful run was packed from what the
  workflow is going to commit; version, `changed` and `result.json` are true.
* `PausesAndDryRunsAreClean`: a paused and a dry run leave workspace, output, images
  and website as they were. A dry run and an initial pause leave the stores alone as
  well; after a final pause no review was filed, whatever else earlier calls of the
  publisher left. What the guard stopped ends as a pause that `result.json` reports,
  unless that cannot be written, and nothing else pauses a publication. A website the
  owner set stays.
* `RunEnds`.

Properties of `image_flow`:

* `TypeOK`.
* `ReviewGateBeforeDelivery`: while a review waits, nothing is copied or edited
  before the candidate turned out to be newer, whatever the order of the images,
  and the resulting version is the one that was compared.
* `ManifestNamesDeliveredContent`: a LazyCat reference names an existing copy; a
  digest in an upstream comment is the content of the runtime reference.
* `VersionIdentifiesImage`: with `bump: patch` no version is committed with two
  contents, but by the one migration copy without a bump (README.md line 463);
  otherwise the version is that of the source's tag and does not go back
  unless `allow_downgrade` says so.
* `SettledSourcesChangeNothing`: a check finds a change only if an image moved after
  the selection of its last committed check.

Properties of `upload_stream`:

* `TypeOK`.
* `WholeFileUploaded`: an attempt goes on after an upload only if the transport took
  the whole body.
* `FileOpenWhileFed`: nobody reads the file after `uploadLPK` returned.
* `WaitHonoursAnswer`: the wait is the longer of the backoff and the longest
  `Retry-After` of the attempt that failed, cut at `max_delay`.
* `UploadEnds`: publisher and goroutine never wait for each other for ever.

Properties of `registry_select`:

* `TypeOK`.
* `SelectedIsBest`: the selected tag was inspected and suits the rule; no tag that
  was there all along with the platform is better.
* `ConfiguredRulesAreUsable`: no rule that configuration accepted is refused later, by
  the ranking, the selection or the metadata client, but one that sorts by update times
  of a repository that is not on Docker Hub, the documented refusal.
* `ErrorsAreJustified`: in a registry that does not change, a query whose requests
  succeed fails only because of a limit (`max_tags` on the raw list,
  `max_matching_tags` on the matching tags, `ExceedsLimits`), because Docker Hub has no
  update times of the repository or counts too many tags in it (`CountsAllTags`, a
  disagreement with the README, section 5), of a tag that must not be skipped, or for
  want of a tag.

Bounds of `official_publish`. `AttemptLimit = 3` is the default number of attempts: a first, a middle
and a last one. `RequestTimeout = 2` and `RetryCap = 7` are 30 s and a ceiling of
105 s in units of 15 s, so the third attempt is the one that is cut. `Version`
has one version below, at and above the candidate; `Status` one member for each
class the classification distinguishes (3xx, 4xx, 401/403, 429, 5xx, 600 and
above). Requests range over all combinations of retry, creation, information,
protocol, guard and `ContinueIfNewerVersion` that `config.validate` allows
(information requires `create_if_missing`). Nothing else is bounded.

Bounds of the private store's runs. Two publishers, because every property
relates at most two calls, and three calls, so that one of them can be repeated
after both overlapped, and a version can stop being the latest before it is
asked for again. Three application ids: two held at the start and one to create.
Two versions; contents that differ in the SHA256, in the URL, or in both. One
rename. The initial stores (`Tidy`, `Untidy`) have every relation between the
package and the name: none, an application of each, one for both, duplicates,
missing permission, missing package.

Bounds of `release_pipeline`. Two groups or two queued jobs of one group; two
versions, so that a version can be overtaken. One disturbance (a commit, a tag, a
death) with overlapping groups and two with one group, where the interesting cases
are a death followed by another event; with overlapping groups one commit, to the
package file or to another, is enough for a synchronisation or a push to meet it in
every order. Builds that differ wherever groups do not overlap. Deadlock is checked: triggers keep coming.

Bounds of `action_run`. Two versions, two licenses, two states of the images; two
lookup attempts of the three, a first and a last one; one status of each class. The
inputs (`MCInputs`) combine operation, event, source, strategy, dry run and the
switches of a publication.

Bounds of `image_flow`. Two images, the version source behind another image; two
digests, three versions, one move of a tag and two checks (a baseline is written
and read again). Six configurations with every delivery mode, mutable and not, a
mirror that migrates, sorting by time; manifests written by hand, one of them with a
pinned version source, and by earlier checks.

Bounds of `upload_stream`. Two chunks, three attempts, `Retry-After` values below
and above the backoff and the ceiling, and one that overflows a `Duration`.

Bounds of `registry_select`. Three tags on pages of one; one push or deletion at any
moment; six meanings of a tag; every combination of channel, sort, expressions and
bump, with default limits and with limits of two tags, of which `LoadedRules` keeps the
accepted ones. Rules that sort by update times are asked of Docker Hub and of another
registry, with a limit of two on the matching tags alone, so that a third tag that does
not match shows which tags are counted.

`CHECK_DEADLOCK FALSE` (all runs but `release_pipeline` and `release_tag`) because a
call that returned takes no further step, and the numbers of calls to the private
store and of image checks are bounded.

Fairness. `OfficialPublish`: weak fairness of the publisher's own steps: every
request carries a client timeout and every wait a timer, so each ends. Reviewers,
other publishers and the context have none. `ReleasePipeline`: weak fairness of
`Trigger`, the schedule that keeps coming; strong fairness of a job's steps,
because `Start` is disabled again and again while another job holds the group, and
GitHub admits a queued job; a job that is killed for ever is excluded by the bound
on `Dies`. `ActionRun`: weak fairness of `RunStep`: every dependency works on local
files or under a timeout. `UploadStream`: weak fairness of the publisher, of the
goroutine, of `client.Do` (its timeout) and of `TransportStops` (a `RoundTripper`
has to close the body, possibly after it returned); none of `Transfer`: nothing
makes a platform read. The others state no liveness.

## 4 The proofs

Every invariant and every action property that a passing run checks, and the three
refinements, are theorems for all values of the constants. The theorems stand in eight modules
`*_proofs.tla`; each begins with the strengthening it rests on, which TLC checked on
the component's run before it was proved, and has one lemma per action of the model.
The assumptions are the named `ASSUME`s of the models, which TLC evaluates in every
run; what a theorem assumes beyond them is in its statement. Only TLC checks:

* liveness (`Returns`, `UploadEnds`, `RunEnds`, `TipReachesTheStores`): the provers
  do not reason about fairness and `ENABLED`. What can be said of the first three
  without fairness is proved, see below;
* the properties of the runs that find them violated.

A call ends because it can take only so many steps and is never stuck before it
returned. The first half is a safety property, and a theorem: `CallsAreBounded`
(`OfficialPublish`), `UploadsAreBounded` (`UploadStream`) and `RunsAreBounded`
(`ActionRun`) name a natural number `StepsLeft` and prove that each step of the call
lowers it and that no step of anybody else raises it, for any number of attempts,
lookups and chunks. For the second half `JoinsAreServed` proves that the one place
where a process waits for another one is served. That a call which has not
returned always has a step to take, and takes it, is about `ENABLED` and fairness, and
TLC checks it.

### OfficialPublish

`OfficialPublish_proofs.tla` proves, for every set of requests, any number of
attempts, any set of versions and of statuses from 300 on:

* `TypeCorrect`, `CreatedIsAlwaysRemembered`, `InformationAlwaysAccompanies`:
  the invariants;
* `GuardAlwaysStops`, `LegacyPendingReviewsFailClosed`: the action properties;
* `TimeoutsDouble`: `UploadTimeoutDoubles`, the timeout of attempt *n* is the request
  timeout times 2^(n-1), cut at the ceiling;
* `PublishFilesOneGenuineReview`: `Spec => Once!Spec`, the refinement;
* `CallsAreBounded`: at most six steps per attempt and three before the first.

The assumptions are those of the module: the requests have the fields of
`Request`, the candidate is a version, versions are numbers, `None` and
`NotSemVer` are not versions, statuses are between 300 and 999.

None of these formulas is inductive by itself. `IInv` adds what the loop relies
on from one call to the next: a wait is entered only while an attempt is left,
and the timeout is at most the ceiling (`LoopInv`); no review exists while the
call runs, and the review call is reached only with the verified artifact
(`LedgerInv`); a guarded attempt past the guard saw no blocking review
(`GuardInv`); what `created` has not accumulated is in `createdNow`
(`CreatedInv`); information that is still missing has been prepared
(`InfoInv`). The decisive lemma is `ServedReviewIsFinal`: an error of the review
call that leaves open whether the review was accepted is never retryable; hence
a step that files a review ends the call, and `ledger` is empty until then.

Two properties need an invariant of their own beside `IInv`. `PendingInv`: with the
legacy protocol and application information, an attempt that is past the reading of
the state, and has calls left, did not find a review that is pending ever since.
`TimeoutInv` is the closed form between two uploads. The step to the next attempt
needs 2^(n+1) = 2^n + 2^n, and the provers know nothing of the exponent: the library
defines it only through the number of subsets of an n-element set, so `NextPowerOfTwo`
counts them with and without one element more. Growing a doubled timeout that the
ceiling cut is doubling, cut.

### PrivateStore

`PrivateStore_proofs.tla` proves, for every set of publishers, applications,
requests, versions and first stores, and any number of calls and renames:

* `TypeCorrect` and `PackageNeverShadowed`, without further assumptions;
* `NoDuplicateRecords`: `OneRecordPerVersion`, if the first store has no
  duplicates (`InitiallyUnique`) and either runs do not overlap or the store adds
  no duplicates;
* `NoDuplicateApplications`: `OneApplicationPerPackage`, if runs do not overlap;
* `RerunsNeverConflict`: `RerunNeverConflicts`, if runs do not overlap and are of one
  configuration (one package, one name: `OneConfiguration`), and the first store has
  no duplicates and leads that package and name to at most one application
  (`InitiallyTidy`);
* `StoreIsWriteOnce`: `Spec => Register!Spec`, the refinement of `WriteOnce`, if
  the first store has no duplicates and the store adds none.

The assumptions of the module type the constants and say that a content is its
SHA256 and its URL. `IInv` joins to the typing what a call knows of the
application it addresses (`AddressInv`): it was found by name only after the
search for the package had found nothing; otherwise it has the package. That
survives every step of the others because an application is never forgotten and
never changes its package (`Frame`). `SoloInv` holds only while runs do not
overlap: what a call found missing is still missing when it creates it.
`UniqueInv` follows from either `SoloInv` or a store that adds no duplicates, and
with it `matchingVersion`'s first record is the only one. The heart of the
refinement is `VerifiedIsStored`: a record that passes the client's comparison is
the content the register holds in that place, whether the client read it
(`GetApplicationRegister`) or the store answered a write with it
(`AnsweredRegister`). The other lemmas say what recording a release does to the
register: it fills one place (`ExtendedContent`, `NewContent`, `OneRecorded`).

A rerun is safe because of `HomeInv`. The `Home` of a request is where it leads
without APP_ID: to the applications of its package, or, while there are none, to
those of its name the token may upload to. While nothing was renamed, a home has at
most one element, every served release is on record there, an APP_ID whose request
was served is one of the package, and a call past its lookup addresses the home. A
version that is added moves no home (`SameHomes`), and an application is created only
when there is none: nothing was served yet, and the new application is the home
(`CreateApplicationHome`). The assumptions are needed: with two names one of which is
the package, or with two applications of the name, the second run may be led
elsewhere or be told of the ambiguity.

### UploadStream

`UploadStream_proofs.tla` proves, for files of any length, any number of attempts,
any ceiling and any `Retry-After` values: `TypeCorrect`, `UploadsAreWhole`,
`FileStaysOpen` and `WaitsHonourAnswers`, the four invariants of the run, and
`JoinsAreServed` and `UploadsAreBounded`, all as theorems of `Spec` (no fairness). The
assumptions type the constants; a header that no `Duration` holds is not a number of
seconds.

`IInv` adds that the transport got exactly what the feeder wrote and that the feeder
finishes without an error only after the last item (`FeederInv`), and that the
recorder holds what the answers of this attempt advertised and a wait was entered
while an attempt was left (`WaitInv`). `WholeFileUploaded` then rests on `Join`: a
2xx answer that came early is overruled by the feeder's error.

`JoinsAreServed`: when `uploadLPK` waits for the feeder, the feeder has something to do,
or it is about to write into a pipe whose reader is closed or will be closed by the
transport that answered. `ServedInv` says why: the feeder runs since the file was
opened, and each way to the wait either closes the reader or has an answer. Of
`StepsLeft` the feeder has its part from the moment the file is opened; until then the
attempt holds it, which is why an attempt that opens the file still counts down
(`PublisherCountsDown`); an answer gives the transport one step more, which leaving
`do` pays for, as it lowers the publisher's part by two at least (`SumCountsDown`).

### PublishFlow, LPKBuild and ActionRun

`PublishFlow_proofs.tla` proves of each step of a publication, and of the other
publishers, that it keeps `FlowInv`; `ActionRun_proofs.tla` extends it and proves,
for any inputs, versions, licenses, images and number of lookup attempts:
`TypeCorrect`, `OutputsAreVerified`, `SubmissionsAreNew`, `FailuresKeepVersions`,
`SuccessesAreOfTheWorkspace`, `PausesAndDryRunsStayClean` and `RunsAreBounded` (23
steps and two for each lookup; the run, `Build` and the publication count down
separately, `RunCounts`). The assumptions:
versions are positive numbers and 0 stands for a missing one (`BuildAssumption`,
`FlowAssumption`, `VersionsAgree`), no LPK is `NoFile` (`NoFileIsNone`), and an input
that asks for a publication has the request of one (`InputsAssumption`).

The invariant has one part per call and one per concern. `FlowInv`: the catalog only
goes up while a call runs (`CatalogGoesUp`), so an answer that is no reason to skip
says that the version online at the start was none either (`StartWasNoReason`), and
from the lookup on the file is the verified one. `BuildInv`: the temporary file was
packed from the workspace, and the output is that file after verification.
`StepInv`: an operation reaches only its steps, and `Build` and `Publish` run only
inside theirs. `VersionInv`: package.yml has the first version until the version is
set, then the candidate, with `from` remembering what a rollback restores. `EditInv`:
`changed` is true of what was edited. `UntouchedInv`: a run that is dry or paused has
left workspace, build, images and website alone (`LeftAlone`), a dry one also the
stores. `ResultInv`: what is returned is of the workspace, and a publication is paused
exactly when the guard stopped it; that such a publication filed no review is the part
of `FlowInv` about its outcome.

The proof found that `SubmitsNewVerifiedFiles` had been stated too strongly: under
`AllowDowngrade`, where only the equal version is a reason to skip, a newer version
that goes online between the start and the lookup hides the equal one. The property
names the case (`HiddenMeanwhile`), and the run reaches it.

### ReleasePipeline

`ReleasePipeline_proofs.tla` proves, for any number of groups, jobs, versions,
developers' commits, tags and faults: `TypeCorrect`, `ReleasesAreOfTheBranch`,
`CommitsSurvive` (the action property `EditsSurvive`), `StoresAgree` and
`PipelineReleasesOnce`, the refinement of `ReleaseOnce`. The assumptions type the
settings and bounds.

`IInv` says what a job knows at each step (`JobFacts`): the commit it checked out
exists, and is the tag's if it serves a tag (`CheckoutFacts`); its tree differs from
that commit in the version only, until the tree is on the branch or belongs to the
tag (`TreeFacts`); the verified build is of the tree (`BuildFacts`). Other jobs and
developers keep that because the branch only grows and a tag is never moved
(`BranchGrows`, `TagsStay`, `OtherJobKeeps`). `AssetInv` is the property joined to the
version of the asset. `StoresAgree` rests on `ServingInv`, which holds only while jobs
of one group queue: one job runs, an asset it did not find missing is not replaced,
and what it hands to the stores is what the Release serves.

`PipelineReleasesOnce` needs no more than `IInv` and `ServingInv`. Of the steps of a
queued job only the upload shows in `ReleaseOnce`, as a `Release` of a version that has
no asset yet, because `ServingInv` knows that the job found none and that nobody else
runs (`UploadReleases`); and a step in front of a store, as a `Deliver` or, when the
store has the version, as nothing (`StoreStepDelivers`). Everything else, deaths and
developers included, is a stutter (`OtherStepsShow`, `QuietShares`).

`CommitsSurvive` needs `EditInv` besides: from the Action's step on, a job for a tag has
the tagged commit's edits and the tag's version in its tree, and only such a job
synchronises (`TagFacts`, kept because no other step changes a tree, `Follows`); and an
edit's number is at most the number of edits made (`MetaInv`), so a developer's commit
is higher than what it replaces. The branch moves in three ways (`NextMovesBranch`): a
push, which starts from the tip and changes the version only; a developer's commit; and
an accepted synchronisation, which writes the tag's file over the one that was read
(`SyncedFile`).

### ImageFlow

`ImageFlow_proofs.tla` proves, for any images, digests, configurations, manifests and
moves of tags: `TypeCorrect`, `ReviewsGateDeliveries`, `ManifestsAreTruthful`,
`SettledSourcesAreQuiet` and `VersionsIdentifyImages`, the action property. The
assumptions: a configuration names each image once and its first manifests are such
as the tool accepts (`ConfigAssumption`), and `None` is no digest and no reference.

`IInv`: what a check edits is the committed manifest but for the images it has done
(`WorkFacts`); with a review the version source is first and was compared before
anything was delivered (`ReviewFacts`, which rests on `PrioritizeImageFacts`:
`prioritizeImage` permutes); every entry names a copy that exists and the content
that runs (`ContentFacts`); an image that did not move since its last committed
selection is as delivering it would leave it (`SettledFacts`, over `Settled`); no
content is committed above the current version, and a check keeps the version only
if it keeps the content (`VersionFacts`). The deliveries are proved by mode
(`MutableDelivery`, `PlainDelivery`).

The proof found one case `VersionIdentifiesImage` had left out: an external runtime
of a mutable source gets one migration copy without a bump (README.md line 463), so
its version is committed with two contents. The property names it
(`MigratesToLazyCat`), and a first manifest of the run reaches it.

### RegistrySelect, VersionSelect and ConfigRules

`RegistrySelect_proofs.tla` proves, for any tags and meanings, configurations,
limits, size of a page, times and pushes: `TypeCorrect`, `SelectionsAreBest`,
`RulesAreUsable`, `ErrorsHaveReasons` and, of the comparison alone,
`RankingHasOneFirst`. The assumption types the constants.

`IInv`: the rule is such as `Validate` accepts (`RuleIsUsable`), which makes it usable
for the selection; the eligible tags match and include what was there all along
(`ListingFacts`); dates that were read are those of the tags (`DateFacts`), and the
pages of a registry at rest leave no gap (`PageFacts`, from `PagesAreFull` and
`PagesSuffice`: the pages that the limit allows hold all tags); in the inspection in
rank order a tag that was passed lacked the platform (`SearchFacts`, `FoundFacts`), in
the inspection of all every tag that was there and has the platform is a candidate
(`AllFacts`). The ranking is a strict total order (`RanksAreTotal`, `RanksAreTransitive`,
`RanksAreStrict`), so a finite set of candidates has exactly one first
(`OrderedSetHasFirst`, by a minimal counterexample, which the library's `WFMin` gives;
`FirstRanksBefore`, `RankingHasOneFirst`), and ranking before means scoring at least
as high (`RanksBeforeScoresHigher`).

`RulesAreUsable` and `ErrorsHaveReasons` name the same refusal, `RefusesRegistry`: it is
the one error about a rule that the invariant admits.

The proof found that `ErrorsAreJustified` had to name the limit of the raw list
(`maxTags`) beside that of the matching tags.

## 5 Disagreements between text and code

* README.md line 745: "A pending review fails closed before any LPK or screenshot
  upload." The state that carries the pending review is read in the legacy
  protocol only; with a PAT (`Publisher.SDK`) `Publish` uploads the screenshots
  first (publish.go line 179) and no attempt reads `ReviewPending` (line 320).
  The waiting-review guard, which both protocols share, is asked after the
  screenshots and only when `GuardPendingReview` is set. Run
  `pat_pending_screenshots`.

* README.md line 800: "The same version and SHA256 is returned as an idempotent
  existing result; different content under the same version fails." `Publish`
  compares the download URL as well (client.go line 88): the same SHA256 recorded
  with another release URL is a conflict. Run `private_same_sha`.

* README.md line 691: "An existing tag is never moved. If it points to another
  commit, the workflow fails." The workflow looks only whether the tag exists
  (lazycat.yml lines 678-696) and then uploads the LPK to its Release (742-753),
  whatever commit the tag names. A developer who pushes a tag for the next version
  before the scheduled check commits that version gets a Release whose asset was
  built from a later commit. Run `release_tag`.

* README.md line 327: the Action "blocks a version lower than the current
  `package.yml.version` before image copying or file edits". The comparison stands
  in the loop over the images (flow.go lines 232-241); an image configured before
  the version source has been copied to the LazyCat registry by then. File edits
  are not affected. Run `image_downgrade`.

Met on the way, without a run:

* `max_matching_tags` bounds, for `sort: updated`, the number of *all* tags Docker Hub
  reports (dockerhub.go line 121), where README.md line 484 says it "independently
  bounds filtered candidates" (and `configuration.md` line 190 of the skill's references
  the same): an image with few matching tags in a large repository fails every check.
  `ErrorsAreJustified` takes the documented reading for its limits and names the other
  failure as an exception of its own (`CountsAllTags`).
* The synchronisation of a tag writes the tag's whole `package.yml` over the default
  branch's (lazycat.yml lines 984 and 1013-1023), where
  `docs/superpowers/plans/2026-07-10-lazycat-action-milestone-2-image-automation.md`
  line 451 says that it "synchronizes `package.yml.version` to the default branch only
  when needed", and `workflows.md` line 76 of the skill's references that the workflow
  "syncs the version". Edits that developers made to other fields after the tag are
  taken back; `EditsSurvive` names them (`TakesBack`) and shows that nothing else is.
* README.md line 695: "a final recheck pause prevents official upload/review
  submission". The guard stands in front of the upload of its own attempt, but an
  earlier attempt whose upload got no answer may have delivered the LPK (publish.go lines
  352 and 222), and a PAT publication has sent its screenshots (179) and an attempt may
  have created the application (342) by then. `PausesAndDryRunsAreClean` promises of a
  final pause that no review was filed, and of the initial pause that nothing was
  touched.
* A dry check of a LazyCat image sorted by time reports a change each time, and the
  copy of an image that is not mutable is made by tag: its content may be newer
  than the digest that was reported.
* Jobs of different concurrency groups whose builds of one tree differ may delete
  each other's Release asset; `ReleasesOnce` and `TipReachesTheStores` are
  stated for one group.

## 6 What is not modelled

* The precheck of the archive, parsing of YAML, manifests, templates and deploy
  parameters, path and toolchain validation, rendering of release notes, redaction
  of diagnostics and formatting of outputs: sequential functions of their input
  without protocol state.
* Docker builds of embedded images (`internal/imagebuild`): one command after
  another with an export to a directory; `LPKBuild` has them in its packing step.
* Strategy `pull-request` and dry runs of the workflow: the first pushes a branch and
  leaves the rest to a reviewer; dry runs of the Action itself are in `ActionRun` and
  `ImageFlow`.
* The license commit in front of the synchronisation of a tag (lazycat.yml lines
  987-1012), which edits one field of the file that was read and hands the new blob on;
  and Releases in another repository (`release-repository`), whose tags name commits of
  that repository.
* Selection of platform credentials, project inspection, environment and outputs.
* The toolkit, the stores, GitHub, git and the registries are external: they appear
  through how the code uses them.
* Crashes between the temporary file and its rename (`internal/yamledit`,
  `internal/build`): the replacement is one step, and a run that dies loses its
  checkout.

## 7 The plan

The components the plan named are modelled, and their invariants, action properties
and refinements are proved. What would come next, in this order:

1. Weaker assumptions of `RerunsNeverConflict`: renames of applications the
   configuration does not name, and configurations of several packages.
2. `ReleaseOnce` for overlapping groups whose builds are reproducible: the asset may
   then be deleted and uploaded again, but only with the same content.
3. The rewriting of package.yml and of the manifest (`internal/yamledit`) as a step
   that a crash can cut, once a component reads what another one left half written.
