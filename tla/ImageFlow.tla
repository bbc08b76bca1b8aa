----------------------------- MODULE ImageFlow -----------------------------
(***************************************************************************)
(* imageflow.Flow.Check (internal/imageflow/flow.go), the deliveries it    *)
(* asks for (internal/delivery/delivery.go) and the edit of the manifest   *)
(* (internal/manifestedit/images.go), over repeated checks of a project.   *)
(* Image tags are pushed, moved and removed upstream between any two       *)
(* steps.  What a check edits is kept if its run is committed, and lost    *)
(* with the checkout otherwise.                                            *)
(*                                                                         *)
(* A source reference is its tag, numbered as the version the tag means,   *)
(* and its digest if it is pinned.  What versioning.Select makes of the    *)
(* tags is module VersionSelect; here upstream[i] is what it selects.      *)
(***************************************************************************)
EXTENDS Integers, Sequences, SequencesExt

CONSTANTS
  Image,        \* image ids
  Configs,      \* the configurations a project may have
  Digest,       \* source digests
  VersionLimit, \* bound: versions are 1..VersionLimit
  MaxMoves,     \* bound: changes upstream
  MaxChecks,    \* bound: checks
  InitialManifests(_), \* manifests a project of a configuration may have
  None

ASSUME ImageAssumption ==
  /\ VersionLimit \in Nat \ {0} /\ MaxMoves \in Nat /\ MaxChecks \in Nat
  /\ None \notin Digest

Version == 1..VersionLimit
Mode == {"direct", "mirror", "lazycat"}

(***************************************************************************)
(* A configuration: the images in their order, the version source and its  *)
(* bump: patch, update.allow_downgrade, and whether the mirror of the      *)
(* environment overrides the templates; of each image its mode, whether    *)
(* its source is given, whether it has a template (of the old mirror),     *)
(* migrate_on_mirror_change, require_digest_match, and whether it is       *)
(* sorted by time.                                                         *)
(***************************************************************************)
ImageConfig == [mode : Mode, given : BOOLEAN, template : BOOLEAN,
                migrate : BOOLEAN, match : BOOLEAN, byTime : BOOLEAN]
Config == [order : Seq(Image), source : Image, mutable : BOOLEAN,
           downgrade : BOOLEAN, override : BOOLEAN,
           image : [Image -> ImageConfig]]

Host == {"source", "mirror", "oldmirror", "lazycat", "embed"}
Selection == [version : Version, digest : Digest]
UpstreamRef == [version : Version, digest : Digest \cup {None}]
RuntimeRef == [host : Host, version : Version \cup {0},
               digest : Digest \cup {None}]
\* The "# upstream:" comment and the image value; None: there is none.
Entry == [upstream : UpstreamRef \cup {None}, runtime : RuntimeRef \cup {None}]

IsLazyCat(runtime) == runtime # None /\ runtime.host = "lazycat"
Embedded(runtime) == runtime # None /\ runtime.host = "embed"
Pinned(ref) == ref # None /\ ref.digest # None

\* What a runtime reference names for good, if it does.
Content(runtime) == IF runtime = None THEN None ELSE runtime.digest

\* A manifest written by hand or by earlier checks: copies have a digest, and a
\* digest in an upstream comment, which only a check writes, is the one that
\* was delivered.
IsManifest(m) ==
  /\ m \in [Image -> Entry]
  /\ \A i \in Image :
       /\ IsLazyCat(m[i].runtime) => m[i].runtime.digest # None
       /\ Pinned(m[i].upstream) => Content(m[i].runtime) = m[i].upstream.digest

ASSUME NoReferenceIsNone == None \notin UpstreamRef \cup RuntimeRef

ASSUME ConfigAssumption == Configs \subseteq Config /\ \A c \in Configs :
  /\ IsInjective(c.order) /\ Range(c.order) = Image
  /\ \A m \in InitialManifests(c) : IsManifest(m)

VARIABLES
  config,    \* never changes
  manifest,  \* [Image -> Entry], of the checkout
  committed, \* the branch: its manifest and package version
  upstream,  \* per image: what a selection finds in the registry
  copies,    \* digests of which the LazyCat registry has a copy
  check,     \* the running check
  moves, checks, \* bounded counters
  fresh,     \* history: images whose upstream moved after the selection of
             \* their last committed check (or that had none)
  contents   \* history: per committed version the version source's content

historyVars == <<fresh, contents>>
vars == <<config, manifest, committed, upstream, copies, check, moves, checks,
          historyVars>>

CheckPC == {"idle", "select", "deliver", "applied", "failed"}
Outcome == {"none", "error", "covered", "downgrade"}

\* order: the images to check, the last of them selected at position at;
\* planned: the digest change planned for the mutable source, candidate the
\* version that is compared with the review; edited: the manifest with the
\* updates so far; copied: deliveries that reached the LazyCat registry;
\* moved: images that moved after their selection.
CheckState ==
  [pc : CheckPC, order : Seq(Image), at : Nat, review : Version \cup {0},
   dry : BOOLEAN, selection : Selection \cup {None}, planned : BOOLEAN,
   edited : [Image -> Entry] \cup {None}, changed : BOOLEAN,
   version : Version \cup {0}, candidate : Version \cup {0},
   outcome : Outcome, copied : BOOLEAN, moved : SUBSET Image]

IdleCheck ==
  [pc |-> "idle", order |-> <<>>, at |-> 0, review |-> 0, dry |-> FALSE,
   selection |-> None, planned |-> FALSE, edited |-> None, changed |-> FALSE,
   version |-> 0, candidate |-> 0, outcome |-> "none", copied |-> FALSE,
   moved |-> {}]

Init ==
  /\ config \in Configs
  /\ manifest \in InitialManifests(config)
  /\ committed \in [manifest : {manifest}, version : 1..(VersionLimit - 1)]
  /\ upstream \in [Image -> Selection]
  /\ copies = {manifest[i].runtime.digest :
                 i \in {j \in Image : IsLazyCat(manifest[j].runtime)}}
  /\ check = IdleCheck
  /\ moves = 0 /\ checks = 0
  /\ fresh = Image
  /\ contents = [v \in Version |->
       IF v = committed.version THEN Content(manifest[config.source].runtime)
       ELSE None]

Current == check.order[check.at]
IsSource(i) == i = config.source
Mutable(i) == IsSource(i) /\ config.mutable
ProjectVersion == committed.version

Fails(outcome) == check' = [check EXCEPT !.pc = "failed", !.outcome = outcome]

-----------------------------------------------------------------------------
\* Tags are pushed, moved and removed.
UpstreamMoves == \E i \in Image, s \in Selection :
  /\ moves < MaxMoves
  /\ s # upstream[i]
  /\ moves' = moves + 1
  /\ upstream' = [upstream EXCEPT ![i] = s]
  /\ fresh' = fresh \cup {i}
  /\ check' = IF check.pc = "idle" THEN check
              ELSE [check EXCEPT !.moved = @ \cup {i}]
  /\ UNCHANGED <<config, manifest, committed, copies, checks, contents>>

-----------------------------------------------------------------------------
(* The beginning of Check                                                   *)

SelectImages(only) == IF only = None THEN config.order ELSE <<only>>

PrioritizeImage_NotMoved(images, id) == images
PrioritizeImage_NotRemoved(images, id) == <<id>> \o images
\* The version source first, so that the review is compared before deliveries.
PrioritizeImage(images, id) ==
  LET index == CHOOSE n \in DOMAIN images : images[n] = id
  IN [n \in DOMAIN images |-> IF n = 1 THEN id
                              ELSE IF n <= index THEN images[n - 1] ELSE images[n]]

Ordered(only, review) ==
  IF review = 0 THEN SelectImages(only)
  ELSE PrioritizeImage(SelectImages(only), config.source)

\* Embedded images, of the manifest that the check read, are skipped.
Checked ==
  {i \in Range(check.order) : ~Embedded(committed.manifest[i].runtime)}
Pending ==
  {n \in DOMAIN check.order : n > check.at /\ check.order[n] \in Checked}

\* ResolveImage recovers a mirror's source from the configuration, the upstream
\* comment or a runtime reference to a known mirror.
ResolvesImage(i) ==
  config.image[i].mode = "mirror" =>
    \/ config.image[i].given
    \/ manifest[i].upstream # None
    \/ manifest[i].runtime # None /\ manifest[i].runtime.host \in {"mirror", "oldmirror"}

\* Template: an explicit mapping of the environment, else the image's own
\* template, else the built-in mirror.
MirrorHost(i) ==
  IF config.image[i].template /\ ~config.override THEN "oldmirror" ELSE "mirror"

\* Check is called, for all images or one, with the version of a waiting review
\* when the publication is automatic (module ActionRun); it may fail to read the
\* manifest.
StartCheck == \E dry \in BOOLEAN, review \in Version \cup {0}, only \in Image \cup {None} :
  /\ check.pc = "idle"
  /\ checks < MaxChecks
  /\ review # 0 => ~dry /\ only \in {None, config.source}
  /\ checks' = checks + 1
  /\ LET images == Ordered(only, review) IN
     \/ check' = [IdleCheck EXCEPT !.pc = "failed", !.outcome = "error"]
     \/ /\ \A i \in Range(images) :
             IF Embedded(manifest[i].runtime) THEN ~IsSource(i)
             ELSE ResolvesImage(i)
        /\ check' = [IdleCheck EXCEPT
             !.pc = "select", !.order = images, !.review = review, !.dry = dry,
             !.edited = manifest, !.version = ProjectVersion]
  /\ UNCHANGED <<config, manifest, committed, upstream, copies, moves, historyVars>>

-----------------------------------------------------------------------------
(* One image: selection, plan and guards                                    *)

\* The trusted baseline of a mutable source: the digest of its upstream comment.
BaselineKnown(i) == Pinned(manifest[i].upstream)
BaselineDigestChanged(i, s) == manifest[i].upstream.digest # s.digest

BumpPatch == ProjectVersion + 1

\* Without a baseline only a first copy to the LazyCat registry can be planned.
Plannable(i) ==
  Mutable(i) => \/ BaselineKnown(i)
                \/ /\ config.image[i].mode = "lazycat"
                   /\ ~IsLazyCat(manifest[i].runtime)

PlannedDigestChanged(i, s) == BaselineKnown(i) /\ BaselineDigestChanged(i, s)

PlannedVersion(i, s) ==
  IF ~Mutable(i) THEN s.version
  ELSE IF PlannedDigestChanged(i, s) THEN BumpPatch ELSE ProjectVersion

ReviewCovers(i, s) ==
  check.review # 0 /\ IsSource(i) /\ check.review >= PlannedVersion(i, s)

IsDowngrade_Allowed(i, s) == FALSE
IsDowngrade(i, s) ==
  /\ IsSource(i) /\ ~config.mutable /\ ~config.downgrade
  /\ s.version < ProjectVersion

\* The registry is asked for the next image and a tag selected; bound: versions
\* below the limit.
SelectImage == \E n \in Pending :
  /\ check.pc = "select" /\ \A m \in Pending : n <= m
  /\ LET i == check.order[n]
         s == upstream[i]
     IN \/ Fails("error")
        \/ /\ check.review # 0 => Plannable(i)
           /\ Mutable(i) => ProjectVersion < VersionLimit
           /\ IF ReviewCovers(i, s) THEN Fails("covered")
              ELSE IF IsDowngrade(i, s) THEN Fails("downgrade")
              ELSE check' = [check EXCEPT
                     !.pc = "deliver", !.at = n, !.selection = s,
                     !.moved = @ \ {i},
                     !.planned = Mutable(i) /\ PlannedDigestChanged(i, s),
                     !.candidate = IF IsSource(i) THEN PlannedVersion(i, s) ELSE @]
  /\ UNCHANGED <<config, manifest, committed, upstream, copies, moves, checks,
                 historyVars>>

-----------------------------------------------------------------------------
(* Deliver                                                                  *)

SourceRef == [version |-> check.selection.version, digest |-> None]
Delivered(runtime, digestChanged, deliveryChanged) ==
  [runtime |-> runtime, digestChanged |-> digestChanged,
   deliveryChanged |-> deliveryChanged]

\* A mutable image is compared with the digest its runtime is pinned to.
RuntimeDigestChanged(i) ==
  manifest[i].runtime.digest # check.selection.digest

DeliverDirect(i) ==
  LET ref == [host |-> "source", version |-> SourceRef.version, digest |-> None] IN
  IF ~Mutable(i) THEN {Delivered(ref, FALSE, FALSE)}
  ELSE IF ~Pinned(manifest[i].runtime) THEN {}
  ELSE {Delivered([ref EXCEPT !.digest = check.selection.digest],
                  RuntimeDigestChanged(i), FALSE)}

\* The mirror is asked for what it serves, if a digest must match; an answer
\* that does not match is one of the errors.
DeliverMirror(i) ==
  LET ref == [host |-> MirrorHost(i), version |-> SourceRef.version, digest |-> None]
      migrates == /\ config.image[i].migrate
                  /\ manifest[i].runtime.host # MirrorHost(i)
      changed == RuntimeDigestChanged(i)
  IN IF ~Mutable(i) THEN {Delivered(ref, FALSE, FALSE)}
     ELSE IF ~config.image[i].match \/ ~Pinned(manifest[i].runtime) THEN {}
     ELSE {Delivered(IF changed \/ migrates
                     THEN [ref EXCEPT !.digest = check.selection.digest]
                     ELSE manifest[i].runtime, changed, migrates)}

LazyCatRef(digest) == [host |-> "lazycat", version |-> 0, digest |-> digest]

CopiedDigest_ByTag(i) == upstream[i].digest
\* What CopyImage copies: a mutable source is pinned to the selected digest, any
\* other is whatever its tag names by now.
CopiedDigest(i) ==
  IF Mutable(i) THEN check.selection.digest ELSE upstream[i].digest

\* flow.go's shouldDeliver for images that are not mutable.
ShouldDeliver(i) ==
  \/ manifest[i].upstream # SourceRef
  \/ ~IsLazyCat(manifest[i].runtime)
  \/ config.image[i].byTime

DeliveryChanged(i) ==
  BaselineDigestChanged(i, check.selection) \/ ~IsLazyCat(manifest[i].runtime)

Copies(i) ==
  /\ config.image[i].mode = "lazycat" /\ ~check.dry
  /\ IF Mutable(i) THEN BaselineKnown(i) => DeliveryChanged(i)
     ELSE ShouldDeliver(i)

DeliverLazyCat(i) ==
  LET current == manifest[i].runtime
      copy == LazyCatRef(CopiedDigest(i))
  IN IF ~Mutable(i)
     THEN {Delivered(IF Copies(i) THEN copy
                     ELSE IF ShouldDeliver(i) THEN None ELSE current, FALSE, FALSE)}
     ELSE IF BaselineKnown(i)
     THEN {Delivered(IF Copies(i) THEN copy ELSE current,
                     BaselineDigestChanged(i, check.selection), DeliveryChanged(i))}
     ELSE IF Copies(i)
     THEN {Delivered(copy, IsLazyCat(current) /\ copy # current, TRUE)}
     ELSE IF IsLazyCat(current) THEN {} ELSE {Delivered(current, FALSE, TRUE)}

Deliveries(i) ==
  IF config.image[i].mode = "direct" THEN DeliverDirect(i)
  ELSE IF config.image[i].mode = "mirror" THEN DeliverMirror(i)
  ELSE DeliverLazyCat(i)

NeedsUpdate(i, delivered) ==
  IF Mutable(i) THEN delivered.digestChanged \/ delivered.deliveryChanged
  ELSE IF config.image[i].mode = "lazycat" /\ check.dry THEN ShouldDeliver(i)
  ELSE \/ manifest[i].upstream # SourceRef
       \/ manifest[i].runtime # delivered.runtime

ManifestSourceRef_Tag(i) == SourceRef
\* The digest a mutable source was delivered with is the next check's baseline.
ManifestSourceRef(i) ==
  IF Mutable(i) THEN [SourceRef EXCEPT !.digest = check.selection.digest]
  ELSE SourceRef

SelectedVersion(i, delivered) ==
  IF ~config.mutable THEN check.selection.version
  ELSE IF delivered.digestChanged THEN BumpPatch ELSE ProjectVersion

\* The delivery must be the planned one, and its result is recorded.
Record(i, delivered) ==
  LET runtime == IF delivered.runtime = None THEN manifest[i].runtime
                 ELSE delivered.runtime
      update == NeedsUpdate(i, delivered)
      entry == [upstream |-> ManifestSourceRef(i), runtime |-> runtime]
  IN IF \/ /\ check.review # 0 /\ Mutable(i)
           /\ delivered.digestChanged # check.planned
        \/ update /\ ~check.dry /\ runtime = None
     THEN check' = [check EXCEPT !.pc = "failed", !.outcome = "error",
                                 !.copied = @ \/ Copies(i)]
     ELSE check' = [check EXCEPT
            !.pc = "select", !.copied = @ \/ Copies(i),
            !.changed = @ \/ update,
            !.edited = IF update /\ ~check.dry THEN [@ EXCEPT ![i] = entry] ELSE @,
            !.version = IF IsSource(i) THEN SelectedVersion(i, delivered) ELSE @]

\* A delivery fails, possibly after the copy was made, or is recorded.
Deliver ==
  /\ check.pc = "deliver"
  /\ LET i == Current
         copied == IF Copies(i) THEN copies \cup {CopiedDigest(i)} ELSE copies
     IN \/ Fails("error") /\ UNCHANGED copies
        \/ /\ Copies(i) /\ copies' = copied
           /\ check' = [check EXCEPT !.pc = "failed", !.outcome = "error",
                                     !.copied = TRUE]
        \/ \E delivered \in Deliveries(i) :
             Record(i, delivered) /\ copies' = copied
  /\ UNCHANGED <<config, manifest, committed, upstream, moves, checks, historyVars>>

-----------------------------------------------------------------------------
(* The end of a check                                                       *)

\* BeforeApply, then manifestedit.Apply: all updates in one replacement. The
\* replacement may be in place although Apply fails.
ApplyManifest ==
  /\ check.pc = "select" /\ Pending = {}
  /\ \/ /\ manifest' = check.edited
        /\ check' = [check EXCEPT !.pc = "applied"] \/ Fails("error")
     \/ UNCHANGED manifest /\ Fails("error")
  /\ UNCHANGED <<config, committed, upstream, copies, moves, checks, historyVars>>

\* The LPK was built and the edits pushed: version and manifest together.
Commit ==
  /\ check.pc = "applied" /\ ~check.dry
  /\ committed' = [manifest |-> manifest, version |-> check.version]
  /\ fresh' = (fresh \ Checked) \cup check.moved
  /\ contents' = [contents EXCEPT ![check.version] =
                    Content(manifest[config.source].runtime)]
  /\ check' = IdleCheck
  /\ UNCHANGED <<config, manifest, upstream, copies, moves, checks>>

\* A check or a later step of its run failed, or the run was dry: the checkout
\* is dropped.
Discard ==
  /\ check.pc \in {"applied", "failed"}
  /\ manifest' = committed.manifest
  /\ check' = IdleCheck
  /\ UNCHANGED <<config, committed, upstream, copies, moves, checks, historyVars>>

Next ==
  \/ UpstreamMoves \/ StartCheck \/ SelectImage \/ Deliver \/ ApplyManifest
  \/ Commit \/ Discard

Spec == Init /\ [][Next]_vars

-----------------------------------------------------------------------------
(* Properties                                                               *)

\* Variables keep their types; an image is checked once in a check.
TypeOK ==
  /\ config \in Configs
  /\ manifest \in [Image -> Entry]
  /\ committed \in [manifest : [Image -> Entry], version : Version]
  /\ upstream \in [Image -> Selection]
  /\ copies \subseteq Digest
  /\ check \in CheckState
  /\ IsInjective(check.order) /\ check.at \in 0..Len(check.order)
  /\ moves \in 0..MaxMoves /\ checks \in 0..MaxChecks /\ fresh \subseteq Image
  /\ contents \in [Version -> Digest \cup {None}]

\* "compares it before mirror verification, LazyCat delivery, or file edits"
\* (README.md:695): while a review waits nothing is copied or edited before the
\* candidate turned out to be newer, whatever the order of the images; and the
\* version that results is the one that was compared, although digests move.
ReviewGateBeforeDelivery ==
  check.review # 0 =>
    /\ (check.copied \/ manifest # committed.manifest) =>
         check.candidate > check.review
    /\ check.pc = "applied" => check.version = check.candidate

\* The manifest says what runs: a LazyCat reference names a copy that exists,
\* and an upstream comment with a digest is the content of the runtime
\* reference, although tags move between selection and delivery.
ManifestNamesDeliveredContent ==
  \A i \in Image : LET e == manifest[i] IN
    /\ IsLazyCat(e.runtime) => e.runtime.digest \in copies
    /\ Pinned(e.upstream) => Content(e.runtime) = e.upstream.digest

\* "an external runtime performs one Registry migration copy without a version
\* bump" (README.md:463).
MigratesToLazyCat ==
  LET e == committed.manifest[config.source]
  IN /\ config.image[config.source].mode = "lazycat"
     /\ ~Pinned(e.upstream) /\ ~IsLazyCat(e.runtime)

\* A package version identifies the image it was made for. With bump: patch no
\* version is ever committed with two contents, but by that one copy; otherwise
\* the version is that of the source's tag in the manifest, and it does not go
\* back unless allow_downgrade says so.
VersionIdentifiesImage ==
  [][committed' # committed =>
       IF config.mutable
       THEN \/ MigratesToLazyCat
            \/ \A v \in Version : contents[v] # None => contents'[v] = contents[v]
       ELSE /\ config.downgrade \/ committed'.version >= committed.version
            /\ config.source \in Checked =>
                 committed'.version =
                   committed'.manifest[config.source].upstream.version]_vars

\* A check finds a change only if an image moved after the selection of its last
\* committed check: scheduled checks of settled sources make no new release. (A
\* dry check of an image copied to LazyCat by time reports a change each time.)
SettledSourcesChangeNothing ==
  (check.pc = "applied" /\ check.changed /\ ~check.dry) =>
    Checked \cap fresh # {}

\* "It ... blocks a version lower than the current package.yml.version before
\* image copying or file edits" (README.md:327).
DowngradeBlockedBeforeCopy ==
  check.outcome = "downgrade" => ~check.copied
=============================================================================
