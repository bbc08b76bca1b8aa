-------------------------- MODULE ReleasePipeline --------------------------
(***************************************************************************)
(* Jobs of .github/workflows/lazycat.yml with strategy publish, over one   *)
(* branch, its Releases and the two stores.  A job either checks images    *)
(* (schedule or dispatch, on the branch) or serves a version tag that a    *)
(* developer pushed.  Every step of the workflow that reads or writes      *)
(* something shared is one action; between two of them other jobs run,     *)
(* developers push, and the job may die.                                   *)
(*                                                                         *)
(* A commit is a position in the branch.  A tree is its package file and a *)
(* revision of everything else; the package file is the version and a      *)
(* revision of its other fields.  An LPK remembers the tree it was built   *)
(* from; two builds of a tree may differ.                                  *)
(***************************************************************************)
EXTENDS Integers, Sequences, SequencesExt

CONSTANTS
  Jobs,        \* concurrency groups of the workflow: one running job each
  Settings,    \* inputs of the workflow, see Setting
  MaxVersion,  \* bound: versions are 1..MaxVersion
  Builds,      \* the results two builds of one tree may have
  MaxEdits,    \* bound on commits of developers
  MaxTags,     \* bound on version tags pushed by developers
  MaxFaults,   \* bound on jobs that die or pause
  None

\* overlap: image ids differ, so jobs are in different concurrency groups;
\* versioned: versioned-release-asset; private: private-store-enabled; builds:
\* the results this runner's builds of one tree have; events: bound on edits,
\* tags and faults together.
Setting == [overlap : BOOLEAN, versioned : BOOLEAN, private : BOOLEAN,
            builds : SUBSET Builds, events : Nat]

ASSUME SettingsAssumption ==
  /\ Settings \subseteq Setting
  /\ MaxVersion \in Nat \ {0} /\ MaxEdits \in Nat
  /\ MaxTags \in Nat /\ MaxFaults \in Nat

VARIABLES
  setting,   \* the inputs; never change
  upstream,  \* the newest version the image check selects
  branch,    \* the default branch: trees, oldest first
  release,   \* per version: its Release, tag and LPK asset
  private,   \* per version: the LPK the private store records
  official,  \* per version: the LPK the official store received
  job,       \* per group: the job and its step outputs
  budget     \* edits, tags and faults so far

vars == <<setting, upstream, branch, release, private, official, job, budget>>
stores == <<private, official>>
remote == <<upstream, branch, release, private, official>>

-----------------------------------------------------------------------------
Version == 1..MaxVersion
\* meta: the fields of package.yml besides the version; rev: the other files.
Tree == [version : Version, meta : 0..MaxEdits, rev : 0..MaxEdits]
PackageFile == [version : Version, meta : 0..MaxEdits]
PackageFileOf(tree) == [version |-> tree.version, meta |-> tree.meta]
\* What developers wrote: everything but the version.
Edits(tree) == [meta |-> tree.meta, rev |-> tree.rev]
LPK == [tree : Tree, build : Builds]
Commit == Nat \ {0}

Release == [exists : BOOLEAN, tag : Nat, asset : LPK \cup {None}]
NoRelease == [exists |-> FALSE, tag |-> 0, asset |-> None]

PC == {"idle", "pending", "run", "fetch", "push", "refetch", "classify",
       "recover", "inspect", "create", "upload", "resolve",
       "locate", "download", "private", "official", "sync", "put"}

(***************************************************************************)
(* A job and its outputs: serves is the version of the tag that started    *)
(* it, 0 for an image check; sha is github.sha; tree the working tree;     *)
(* commit the output of direct-commit; lpk the verified build; handed      *)
(* what store-artifact selected; failed whether a step failed and later    *)
(* steps still run; read the default branch's package file as it was read  *)
(* to sync it (its blob's sha is a digest of its content).                 *)
(***************************************************************************)
Job == [pc : PC, serves : 0..MaxVersion, sha : Nat, tree : Tree \cup {None},
        changed : BOOLEAN, commit : Nat, lpk : LPK \cup {None},
        handed : LPK \cup {None}, failed : BOOLEAN,
        read : PackageFile \cup {None}]

IdleJob == [pc |-> "idle", serves |-> 0, sha |-> 0, tree |-> None,
            changed |-> FALSE, commit |-> 0, lpk |-> None,
            handed |-> None, failed |-> FALSE, read |-> None]

Tip == Len(branch)
V(j) == job[j].tree.version
ReleaseOf(j) == release[V(j)]
At(j, pc) == job[j].pc = pc
Running(j) == job[j].pc \notin {"idle", "pending"}

\* tag and release events are told from branch events by github.ref.
ForTag(j) == job[j].serves # 0

\* The job goes on with step pc.
Goto(j, pc) == job' = [job EXCEPT ![j].pc = pc]
\* The job ends; what it wrote elsewhere stays.
End(j) == job' = [job EXCEPT ![j] = IdleJob]

Init ==
  /\ setting \in Settings
  /\ upstream = 1
  /\ branch = <<[version |-> 1, meta |-> 0, rev |-> 0]>>
  /\ release = [v \in Version |-> NoRelease]
  /\ private = [v \in Version |-> None]
  /\ official = [v \in Version |-> None]
  /\ job = [j \in Jobs |-> IdleJob]
  /\ budget = [edits |-> 0, tags |-> 0, faults |-> 0]

-----------------------------------------------------------------------------
(* Around the jobs                                                          *)

Bound == [edits |-> MaxEdits, tags |-> MaxTags, faults |-> MaxFaults]

\* One more event of this kind, within the bounds.
Spend(kind) ==
  /\ budget[kind] < Bound[kind]
  /\ budget.edits + budget.tags + budget.faults < setting.events
  /\ budget' = [budget EXCEPT ![kind] = @ + 1]

\* The registry publishes a newer image.
NewImage ==
  /\ upstream < MaxVersion
  /\ upstream' = upstream + 1
  /\ UNCHANGED <<setting, branch, release, stores, job, budget>>

\* A developer pushes a commit that keeps the package version: to other fields
\* of package.yml or to other files.  Every edit has a number of its own.
DeveloperPushes ==
  /\ Spend("edits")
  /\ \E part \in {"meta", "rev"} :
       branch' = Append(branch, [branch[Tip] EXCEPT ![part] = budget.edits + 1])
  /\ UNCHANGED <<setting, upstream, release, stores, job>>

\* A schedule or dispatch event: GitHub fixes github.sha and queues the job.
Trigger(j) ==
  /\ At(j, "idle")
  /\ job' = [job EXCEPT ![j] = [IdleJob EXCEPT !.pc = "pending", !.sha = Tip]]
  /\ UNCHANGED <<setting, remote, budget>>

\* A developer pushes the tag of version v at the tip, with or without a
\* Release; a job for it is queued.
TagPushed(j) == \E v \in Version, exists \in BOOLEAN :
  /\ At(j, "idle")
  /\ Spend("tags")
  /\ release[v].tag = 0
  /\ release' = [release EXCEPT ![v].tag = Tip, ![v].exists = exists]
  /\ job' = [job EXCEPT ![j] =
               [IdleJob EXCEPT !.pc = "pending", !.sha = Tip, !.serves = v]]
  /\ UNCHANGED <<setting, upstream, branch, stores>>

\* A job for a tag that exists: a re-run, or the event of its Release.
Rerun(j) == \E v \in Version :
  /\ At(j, "idle")
  /\ Spend("tags")
  /\ release[v].tag # 0
  /\ job' = [job EXCEPT ![j] = [IdleJob EXCEPT !.pc = "pending",
                                  !.sha = release[v].tag, !.serves = v]]
  /\ UNCHANGED <<setting, remote>>

\* The concurrency group admits the job: checkout of github.sha.
Start(j) ==
  /\ At(j, "pending")
  /\ setting.overlap \/ \A i \in Jobs : ~Running(i)
  /\ job' = [job EXCEPT ![j].pc = "run", ![j].tree = branch[job[j].sha]]
  /\ UNCHANGED <<setting, remote, budget>>

\* A step fails and no later step has an effect, the runner dies, or the
\* image check pauses for a waiting official review.
Dies(j) ==
  /\ Running(j)
  /\ Spend("faults")
  /\ End(j)
  /\ UNCHANGED <<setting, remote>>

-----------------------------------------------------------------------------
(* The Action and the commit of its edit                                    *)

\* The version the Action gives the package: the tag's, or the newest image's
\* if that is an update.
NextVersion_Unasked(j) == IF ForTag(j) THEN job[j].serves ELSE V(j) + 1
NextVersion(j) ==
  IF ForTag(j) THEN job[j].serves
  ELSE IF upstream > V(j) THEN upstream ELSE V(j)

\* Run LazyCat automation: a tag job always builds, an image check builds only
\* an update.
RunAction(j) ==
  /\ At(j, "run")
  /\ LET tree == [job[j].tree EXCEPT !.version = NextVersion(j)]
         changed == tree # job[j].tree
     IN \E build \in setting.builds :
          job' = [job EXCEPT ![j].tree = tree, ![j].changed = changed,
                    ![j].lpk = IF changed \/ ForTag(j)
                               THEN [tree |-> tree, build |-> build] ELSE None,
                    ![j].pc = IF changed /\ ~ForTag(j)
                              THEN "fetch" ELSE "classify"]
  /\ UNCHANGED <<setting, remote, budget>>

WorkingTreeMatchesRemote(j) == branch[Tip] = job[j].tree

\* git reset --hard to the remote branch, whose head is the job's commit.
AdoptMatchingRemote(j) ==
  job' = [job EXCEPT ![j].commit = Tip, ![j].pc = "classify"]

\* Commit direct-publish update, up to the first comparison.
Fetch(j) ==
  /\ At(j, "fetch")
  /\ IF WorkingTreeMatchesRemote(j) THEN AdoptMatchingRemote(j)
     ELSE Goto(j, "push")
  /\ UNCHANGED <<setting, remote, budget>>

\* git accepts a push only if the branch still ends at the commit's parent.
PushAccepted(j) == Tip = job[j].sha

Push(j) ==
  /\ At(j, "push")
  /\ IF PushAccepted(j)
     THEN /\ branch' = Append(branch, job[j].tree)
          /\ job' = [job EXCEPT ![j].commit = Tip + 1, ![j].pc = "classify"]
     ELSE UNCHANGED branch /\ Goto(j, "refetch")
  /\ UNCHANGED <<setting, upstream, release, stores, budget>>

\* What the job may still publish after its push was refused.
MayAdopt_Anything(j) == TRUE
MayAdopt(j) == WorkingTreeMatchesRemote(j)

\* A refused push: adopt an equal tree, never publish a stale artifact.
Refetch(j) ==
  /\ At(j, "refetch")
  /\ IF MayAdopt(j) THEN AdoptMatchingRemote(j) ELSE End(j)
  /\ UNCHANGED <<setting, remote, budget>>

-----------------------------------------------------------------------------
(* The Release                                                              *)

ShouldRelease_AnyRelease(j) == ForTag(j) \/ ~ReleaseOf(j).exists

\* Classify Release work: a tag is always served; on the branch the Release,
\* or its versioned asset, must be missing.
ShouldRelease(j) ==
  \/ ForTag(j)
  \/ ~ReleaseOf(j).exists
  \/ setting.versioned /\ ReleaseOf(j).asset = None

Classify(j) ==
  /\ At(j, "classify")
  /\ Goto(j, IF ~ShouldRelease(j) THEN "locate"
             ELSE IF job[j].lpk = None THEN "recover" ELSE "inspect")
  /\ UNCHANGED <<setting, remote, budget>>

\* Build missing Release artifact, from the working tree.
RecoveryBuild(j) ==
  /\ At(j, "recover")
  /\ \E build \in setting.builds :
       job' = [job EXCEPT ![j].lpk = [tree |-> job[j].tree, build |-> build],
                          ![j].pc = "inspect"]
  /\ UNCHANGED <<setting, remote, budget>>

\* The step after the inspection of the existing asset: an asset with another
\* digest ends the job, one with this digest is reused.
AfterInspection_Overwrites(j) ==
  IF ReleaseOf(j).asset = job[j].lpk THEN "resolve" ELSE "create"
AfterInspection(j) ==
  IF ReleaseOf(j).asset = None THEN "create"
  ELSE IF ReleaseOf(j).asset = job[j].lpk THEN "resolve" ELSE "idle"

InspectAsset(j) ==
  /\ At(j, "inspect")
  /\ IF AfterInspection(j) = "idle" THEN End(j) ELSE Goto(j, AfterInspection(j))
  /\ UNCHANGED <<setting, remote, budget>>

\* target_commitish of a Release whose tag release-tag did not see:
\* direct-commit's commit, else github.sha.  GitHub reads it only to create a
\* missing tag, and tags are not deleted, so what release-tag saw decides
\* nothing else.
TargetCommitish(j) == IF job[j].commit # 0 THEN job[j].commit ELSE job[j].sha

\* action-gh-release creates the Release, and the tag if there is none.
CreateRelease(j) ==
  /\ At(j, "create")
  /\ release' = [release EXCEPT ![V(j)].exists = TRUE,
                   ![V(j)].tag = IF @ # 0 THEN @ ELSE TargetCommitish(j)]
  /\ Goto(j, "upload")
  /\ UNCHANGED <<setting, upstream, branch, stores, budget>>

\* It deletes an asset of the same name before it uploads.
UploadAsset(j) ==
  /\ At(j, "upload")
  /\ IF ReleaseOf(j).asset # None
     THEN release' = [release EXCEPT ![V(j)].asset = None] /\ UNCHANGED job
     ELSE /\ release' = [release EXCEPT ![V(j)].asset = job[j].lpk]
          /\ Goto(j, "resolve")
  /\ UNCHANGED <<setting, upstream, branch, stores, budget>>

\* Select verified store artifact: what the stores get.  Nothing reads the
\* other outputs any more.
Hand(j, pc, lpk) ==
  job' = [job EXCEPT ![j].handed = lpk, ![j].pc = pc, ![j].lpk = None,
                     ![j].sha = 0, ![j].commit = 0]

\* Resolve Release Asset URL: the asset must be there with this digest.
ResolveAsset(j) ==
  /\ At(j, "resolve")
  /\ IF ReleaseOf(j).asset = job[j].lpk
     THEN Hand(j, "private", job[j].lpk)
     ELSE End(j)
  /\ UNCHANGED <<setting, remote, budget>>

\* Locate existing Release Asset: only the versioned name is looked for, and
\* without it nothing is published and the job succeeds.
LocateAsset(j) ==
  /\ At(j, "locate")
  /\ IF setting.versioned /\ ReleaseOf(j).asset # None
     THEN Hand(j, "download", ReleaseOf(j).asset)
     ELSE End(j)
  /\ UNCHANGED <<setting, remote, budget>>

\* The downloaded bytes must have the digest that was located.
DownloadAsset(j) ==
  /\ At(j, "download")
  /\ IF ReleaseOf(j).asset = job[j].handed THEN Goto(j, "private") ELSE End(j)
  /\ UNCHANGED <<setting, remote, budget>>

-----------------------------------------------------------------------------
(* The stores                                                               *)

\* Publish to MiaoMiao private store: a version is written once; other
\* content under it, or an error, fails the step but not the official one.
PublishPrivate(j) ==
  /\ At(j, "private")
  /\ \/ /\ ~setting.private
        /\ Goto(j, "official")
        /\ UNCHANGED private
     \/ /\ setting.private
        /\ private[V(j)] \in {None, job[j].handed}
        /\ private' = [private EXCEPT ![V(j)] = job[j].handed]
        /\ Goto(j, "official")
     \/ /\ setting.private
        /\ private[V(j)] \notin {None, job[j].handed}
        /\ job' = [job EXCEPT ![j].pc = "official", ![j].failed = TRUE]
        /\ UNCHANGED private
  /\ UNCHANGED <<setting, upstream, branch, release, official, budget>>

\* The private step fails although the store may have recorded the version.
PrivateFails(j) ==
  /\ At(j, "private") /\ setting.private
  /\ Spend("faults")
  /\ \/ UNCHANGED private
     \/ /\ private[V(j)] = None
        /\ private' = [private EXCEPT ![V(j)] = job[j].handed]
  /\ job' = [job EXCEPT ![j].pc = "official", ![j].failed = TRUE]
  /\ UNCHANGED <<setting, upstream, branch, release, official>>

\* The sync step is skipped after a failure and on the branch.
AfterOfficial(j, failed) ==
  IF ForTag(j) /\ job[j].changed /\ ~failed THEN Goto(j, "sync") ELSE End(j)

\* Publish to LazyCat official platform; a version that is there is skipped.
PublishOfficial(j) ==
  /\ At(j, "official")
  /\ official' = [official EXCEPT ![V(j)] =
                    IF @ = None THEN job[j].handed ELSE @]
  /\ AfterOfficial(j, job[j].failed)
  /\ UNCHANGED <<setting, upstream, branch, release, private, budget>>

\* The official step fails, or pauses for a review that began to wait meanwhile.
\* A failure of the official step is tolerated if there is a private store;
\* otherwise it fails the job (Enforce official-only publication failure).
OfficialFails(j) ==
  /\ At(j, "official")
  /\ Spend("faults")
  /\ AfterOfficial(j, job[j].failed \/ ~setting.private)
  /\ UNCHANGED <<setting, remote>>

-----------------------------------------------------------------------------
(* Sync tag/release version to default branch                               *)

\* getContent of the package file on the default branch, compared as a whole.
ReadDefaultBranch(j) ==
  /\ At(j, "sync")
  /\ IF PackageFileOf(branch[Tip]) = PackageFileOf(job[j].tree) THEN End(j)
     ELSE job' = [job EXCEPT ![j].read = PackageFileOf(branch[Tip]),
                             ![j].pc = "put"]
  /\ UNCHANGED <<setting, remote, budget>>

\* GitHub refuses the write unless the file still is the blob that was read.
PutAccepted_Unread(j) == TRUE
PutAccepted(j) == PackageFileOf(branch[Tip]) = job[j].read

\* createOrUpdateFileContents: the whole package file of the job's tree replaces
\* the default branch's; other files keep what the tip has.
PutPackageFile(j) ==
  /\ At(j, "put")
  /\ IF PutAccepted(j)
     THEN branch' = Append(branch, [branch[Tip] EXCEPT !.version = V(j),
                                      !.meta = job[j].tree.meta])
     ELSE UNCHANGED branch
  /\ End(j)
  /\ UNCHANGED <<setting, upstream, release, stores, budget>>

-----------------------------------------------------------------------------
Step(j) ==
  \/ Start(j) \/ RunAction(j) \/ Fetch(j) \/ Push(j) \/ Refetch(j)
  \/ Classify(j) \/ RecoveryBuild(j) \/ InspectAsset(j)
  \/ CreateRelease(j) \/ UploadAsset(j) \/ ResolveAsset(j)
  \/ LocateAsset(j) \/ DownloadAsset(j)
  \/ PublishPrivate(j) \/ PublishOfficial(j)
  \/ ReadDefaultBranch(j) \/ PutPackageFile(j)

Next ==
  \/ NewImage \/ DeveloperPushes
  \/ \E j \in Jobs : \/ Trigger(j) \/ TagPushed(j) \/ Rerun(j) \/ Step(j)
                     \/ Dies(j) \/ PrivateFails(j) \/ OfficialFails(j)

Spec == Init /\ [][Next]_vars

\* The schedule keeps coming; a queued job is admitted and a running one goes
\* on until it ends or dies.
FairSpec == Spec /\ \A j \in Jobs : WF_vars(Trigger(j)) /\ SF_vars(Step(j))

-----------------------------------------------------------------------------
(* Properties                                                               *)

\* Variables keep their types; commits that jobs and tags name exist, and a job
\* that hands an LPK to the stores hands the one of its version.
TypeOK ==
  /\ setting \in Settings
  /\ upstream \in Version
  /\ branch \in Seq(Tree) /\ Tip > 0
  /\ release \in [Version -> Release]
  /\ private \in [Version -> LPK \cup {None}]
  /\ official \in [Version -> LPK \cup {None}]
  /\ job \in [Jobs -> Job]
  /\ budget \in [edits : 0..MaxEdits, tags : 0..MaxTags, faults : 0..MaxFaults]
  /\ \A v \in Version : release[v].tag <= Tip
  /\ \A j \in Jobs :
       /\ job[j].sha <= Tip /\ job[j].commit <= Tip
       /\ job[j].handed # None => job[j].handed.tree.version = V(j)

\* "Refusing to publish a stale artifact" (direct-commit): whatever pushes,
\* queued jobs and crashes come between checkout and upload, the LPK of a
\* Release was built from a tree that the branch has held, or, for a tag, from
\* the tagged commit with the tag's version.
AssetsComeFromTheBranch ==
  \A v \in Version : release[v].asset # None =>
    LET tree == release[v].asset.tree IN
      /\ tree.version = v
      /\ \/ tree \in ToSet(branch)
         \/ Edits(tree) = Edits(branch[release[v].tag])

\* Release/store reconciliation: while the jobs of one concurrency group do not
\* overlap, both stores have the very file the Release serves, also when builds
\* are not reproducible and jobs die, are re-run or find half a Release.
StoresServeTheRelease ==
  ~setting.overlap =>
    \A v \in Version :
      /\ private[v] \in {None, release[v].asset}
      /\ official[v] \in {None, release[v].asset}

\* Jobs of one concurrency group implement ReleaseOnce, wherever they die and
\* however often they are run again: the asset of a version, once uploaded, is
\* never deleted or replaced, and each store records a version once, with the
\* asset.  Of overlapping groups nothing is shown to the abstract register.
IfQueued(lpk) == IF setting.overlap THEN None ELSE lpk
OneRelease == INSTANCE ReleaseOnce WITH
  Artifact <- LPK, Store <- {"private", "official"}, Nothing <- None,
  asset <- [v \in Version |-> IfQueued(release[v].asset)],
  records <- [store \in {"private", "official"} |-> [v \in Version |->
                IfQueued(IF store = "private" THEN private[v] ELSE official[v])]]
ReleasesOnce == OneRelease!Spec

\* However pushes, queued jobs and synchronisations interleave, no developer's
\* edit leaves the branch, with one exception: the synchronisation of a tag
\* replaces package.yml as a whole, so it takes back edits to other fields that
\* the tag does not have, but only those the job had before its eyes when it
\* read the file; a commit after that read survives.
TakesBack(j, old, new) ==
  /\ At(j, "put")
  /\ job[j].read = PackageFileOf(old)
  /\ PackageFileOf(new) = [version |-> job[j].serves,
                          meta |-> branch[ReleaseOf(j).tag].meta]
EditsSurvive ==
  [][LET old == branch[Tip]
         new == branch'[Len(branch')]
     IN /\ new.rev >= old.rev
        /\ new.meta >= old.meta \/ \E j \in Jobs : TakesBack(j, old, new)]_branch

\* "Scheduled or manually dispatched publish workflows also reconcile GitHub
\* Releases with both stores": with versioned assets, the version at the tip is
\* released and reaches the stores, wherever a job died, unless the branch
\* moves on to another version.  (Overlapping groups whose builds differ may
\* delete each other's asset for ever.)
InTheStores(v) ==
  official[v] # None /\ (setting.private => private[v] # None)
TipReachesTheStores ==
  \A v \in Version :
    (setting.versioned /\ ~setting.overlap /\ branch[Tip].version = v)
      ~> (InTheStores(v) \/ branch[Tip].version # v)

\* README: "An existing tag is never moved.  If it points to another commit,
\* the workflow fails."
TagAtAnotherCommitFails ==
  [][\A j \in Jobs : At(j, "upload") /\ job'[j].pc = "resolve" =>
       ReleaseOf(j).tag = TargetCommitish(j)]_vars
=============================================================================
