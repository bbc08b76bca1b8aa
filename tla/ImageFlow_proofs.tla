-------------------------- MODULE ImageFlow_proofs --------------------------
(***************************************************************************)
(* Proofs about module ImageFlow, for any images, configurations,          *)
(* manifests, digests and changes upstream: nothing is delivered before    *)
(* the review was compared, the manifest says what runs, a package version *)
(* identifies its image, and settled sources change nothing.               *)
(***************************************************************************)
EXTENDS ImageFlow, TLAPS

\* Steps of a check that goes well.
Going == {"select", "deliver", "applied"}

\* Images of the order whose delivery is recorded.
Done(i) ==
  \E n \in DOMAIN check.order :
    /\ check.order[n] = i /\ i \in Checked /\ n <= check.at
    /\ check.pc = "deliver" => n # check.at

\* A check works on the committed manifest and edits what is done only.
WorkFacts ==
  /\ check.pc \in {"idle", "select", "deliver"} => manifest = committed.manifest
  /\ check.pc = "applied" => manifest = check.edited /\ Pending = {}
  /\ check.pc \in Going =>
       /\ check.edited \in [Image -> Entry] /\ check.version \in Version
       /\ check.dry => check.edited = committed.manifest
       /\ \A i \in Image :
            ~Done(i) => check.edited[i] = committed.manifest[i]
  /\ check.pc = "deliver" =>
       /\ check.at \in DOMAIN check.order /\ Current \in Checked
       /\ check.selection \in Selection
       /\ Mutable(Current) => ProjectVersion < VersionLimit
       /\ Current \notin check.moved => check.selection = upstream[Current]

\* With a review, the version source comes first and is compared before all.
ReviewFacts ==
  check.review # 0 =>
    /\ check.pc \in Going =>
         /\ 1 \in DOMAIN check.order /\ check.order[1] = config.source
         /\ config.source \in Checked
         /\ check.at > 0 => check.candidate > check.review
    /\ check.copied \/ manifest # committed.manifest =>
         check.candidate > check.review
    /\ check.pc = "deliver" /\ IsSource(Current) =>
         /\ check.candidate = PlannedVersion(Current, check.selection)
         /\ check.planned =
              (config.mutable /\ PlannedDigestChanged(Current, check.selection))
    /\ check.pc \in Going /\ Done(config.source) =>
         check.version = check.candidate

\* An entry of a manifest names copies that exist, and the digest delivered.
Truthful(e) ==
  /\ IsLazyCat(e.runtime) => e.runtime.digest \in copies
  /\ Pinned(e.upstream) => Content(e.runtime) = e.upstream.digest

ContentFacts ==
  /\ \A i \in Image : Truthful(manifest[i]) /\ Truthful(committed.manifest[i])
  /\ check.pc \in Going => \A i \in Image : Truthful(check.edited[i])

\* Delivering selection s would not change entry e.
Settled(i, e, s) ==
  IF Mutable(i)
  THEN IF config.image[i].mode = "lazycat"
       THEN /\ Pinned(e.upstream) /\ e.upstream.digest = s.digest
            /\ IsLazyCat(e.runtime)
       ELSE /\ Pinned(e.runtime) /\ e.runtime.digest = s.digest
            /\ config.image[i].mode = "mirror" /\ config.image[i].migrate =>
                 e.runtime.host = MirrorHost(i)
  ELSE /\ e.upstream = [version |-> s.version, digest |-> None]
       /\ IF config.image[i].mode = "lazycat"
          THEN /\ IsLazyCat(e.runtime)
               /\ config.image[i].byTime => e.runtime = LazyCatRef(s.digest)
          ELSE e.runtime = [host |-> IF config.image[i].mode = "direct"
                                     THEN "source" ELSE MirrorHost(i),
                            version |-> s.version, digest |-> None]

SettledFacts ==
  /\ check.pc # "idle" => check.moved \subseteq fresh
  /\ \A i \in Image \ fresh : Settled(i, committed.manifest[i], upstream[i])
  /\ check.pc \in Going /\ ~check.dry =>
       /\ \A i \in Image : Done(i) /\ i \notin check.moved =>
            Settled(i, check.edited[i], upstream[i])
       /\ check.changed => Checked \cap fresh # {}

\* A content is committed for no version above the current one, and for the
\* current one it is the manifest's.  A check keeps the version only if it
\* keeps the content.
VersionFacts ==
  /\ contents[committed.version] =
       Content(committed.manifest[config.source].runtime)
  /\ config.mutable =>
       \A v \in Version : v > committed.version => contents[v] = None
  /\ check.pc \in Going /\ ~Done(config.source) => check.version = ProjectVersion
  /\ check.pc \in Going /\ ~check.dry =>
       IF config.mutable
       THEN /\ check.version \in {ProjectVersion, BumpPatch}
            /\ check.version = ProjectVersion =>
                 \/ MigratesToLazyCat
                 \/ contents[ProjectVersion] \in
                      {None, Content(check.edited[config.source].runtime)}
       ELSE /\ config.downgrade \/ check.version >= ProjectVersion
            /\ Done(config.source) =>
                 check.version = check.edited[config.source].upstream.version
  /\ check.pc = "deliver" /\ IsSource(Current) /\ ~config.mutable =>
       config.downgrade \/ check.selection.version >= ProjectVersion

IInv ==
  /\ TypeOK /\ WorkFacts /\ ReviewFacts /\ ContentFacts /\ SettledFacts
  /\ VersionFacts

-----------------------------------------------------------------------------
(* Lemmas about the state                                                   *)

LEMMA Types ==
  ASSUME TypeOK
  PROVE  /\ config \in Config /\ config.source \in Image
         /\ IsInjective(config.order) /\ Range(config.order) = Image
         /\ \A i \in Image : config.image[i] \in ImageConfig
         /\ \A i \in Image : manifest[i] \in Entry /\ committed.manifest[i] \in Entry
         /\ committed.manifest \in [Image -> Entry] /\ committed.version \in Version
         /\ \A i \in Image : upstream[i] \in Selection
         /\ check.order \in Seq(Image) /\ check.at \in Nat
         /\ DOMAIN check.order \subseteq Nat \ {0}
         /\ \A n \in DOMAIN check.order : check.order[n] \in Image
         /\ Checked \subseteq Image
<1>1. config \in Config /\ config \in Configs
  BY ConfigAssumption DEF TypeOK
<1>2. IsInjective(config.order) /\ Range(config.order) = Image
  BY <1>1, ConfigAssumption
<1>3. check.order \in Seq(Image) /\ check.at \in Nat
  BY DEF TypeOK, CheckState
<1>4. /\ DOMAIN check.order \subseteq Nat \ {0}
      /\ \A n \in DOMAIN check.order : check.order[n] \in Image
  BY <1>3
<1>5. Checked \subseteq Image
  BY <1>4 DEF Checked, Range
<1> QED BY <1>1, <1>2, <1>3, <1>4, <1>5 DEF Config, TypeOK

\* Versions are numbers.
LEMMA Versions ==
  /\ Version \subseteq Nat \ {0} /\ 0 \notin Version /\ Version \cup {0} \subseteq Nat
  /\ \A v \in Version : v < VersionLimit => v + 1 \in Version
  BY ImageAssumption DEF Version

LEMMA InitEstablishes ==
  ASSUME Init
  PROVE  IInv
<1>1. config \in Config /\ config.source \in Image /\ IsManifest(manifest)
  BY ConfigAssumption DEF Init, Config
<1>2. manifest \in [Image -> Entry]
  BY <1>1 DEF IsManifest
<1>3. committed.manifest = manifest /\ committed.version \in Version
      /\ committed \in [manifest : [Image -> Entry], version : Version]
  BY <1>2, ImageAssumption DEF Init, Version
<1>4. /\ check.pc = "idle" /\ check.review = 0 /\ check.order = <<>>
      /\ check \in CheckState
  <2>1. <<>> \in Seq(Image) /\ {} \in SUBSET Image
    OBVIOUS
  <2> QED BY <2>1 DEF Init, IdleCheck, CheckState, CheckPC, Outcome
<1>5. copies \subseteq Digest
  BY <1>1, <1>2 DEF Init, IsManifest, IsLazyCat, Entry, RuntimeRef
<1>6. contents \in [Version -> Digest \cup {None}]
  <2>1. Content(manifest[config.source].runtime) \in Digest \cup {None}
    BY <1>1, <1>2 DEF Content, Entry, RuntimeRef
  <2> QED BY <2>1 DEF Init
<1>7. TypeOK
  <2>1. IsInjective(check.order) /\ check.at \in 0..Len(check.order)
    BY <1>4 DEF Init, IdleCheck, IsInjective
  <2> QED BY <1>2, <1>3, <1>4, <1>5, <1>6, <2>1, ImageAssumption DEF Init, TypeOK
<1>8. WorkFacts /\ ReviewFacts
  BY <1>3, <1>4 DEF WorkFacts, ReviewFacts, Going
<1>9. ContentFacts
  <2>1. \A i \in Image : Truthful(manifest[i])
    BY <1>1 DEF Init, IsManifest, Truthful
  <2> QED BY <1>3, <1>4, <2>1 DEF ContentFacts, Going
<1>10. SettledFacts
  BY <1>4 DEF Init, SettledFacts, Going
<1>11. VersionFacts
  BY <1>3, <1>4, Versions DEF Init, VersionFacts, Going
<1> QED BY <1>7, <1>8, <1>9, <1>10, <1>11 DEF IInv

-----------------------------------------------------------------------------
(* Around a check                                                           *)

\* Upstream moves: what moved counts as moved, and is no longer settled.
LEMMA UpstreamMovesStep ==
  ASSUME IInv, UpstreamMoves
  PROVE  IInv'
<1>1. PICK i \in Image, s \in Selection :
        /\ moves < MaxMoves /\ moves' = moves + 1
        /\ upstream' = [upstream EXCEPT ![i] = s]
        /\ fresh' = fresh \cup {i}
        /\ check' = IF check.pc = "idle" THEN check
                    ELSE [check EXCEPT !.moved = check.moved \cup {i}]
  BY DEF UpstreamMoves
<1>2. UNCHANGED <<config, manifest, committed, copies, checks, contents>>
  BY DEF UpstreamMoves
<1>3. /\ check' \in CheckState /\ check'.pc = check.pc /\ check'.order = check.order
      /\ check'.at = check.at /\ check'.review = check.review
      /\ check'.dry = check.dry /\ check'.selection = check.selection
      /\ check'.planned = check.planned /\ check'.edited = check.edited
      /\ check'.changed = check.changed /\ check'.version = check.version
      /\ check'.candidate = check.candidate /\ check'.copied = check.copied
      /\ check'.moved = IF check.pc = "idle" THEN check.moved
                        ELSE check.moved \cup {i}
  BY <1>1 DEF IInv, TypeOK, CheckState
<1>4. /\ Checked' = Checked /\ Pending' = Pending
      /\ \A k \in Image : Done(k)' <=> Done(k)
      /\ Current' = Current
  BY <1>2, <1>3 DEF Checked, Pending, Done, Current, Embedded
<1>5. TypeOK'
  <2>1. moves' \in 0..MaxMoves
    BY <1>1, ImageAssumption DEF IInv, TypeOK
  <2> QED BY <1>1, <1>2, <1>3, <2>1 DEF IInv, TypeOK
<1>6. WorkFacts'
  <2>1. check'.pc = "deliver" /\ Current' \notin check'.moved =>
          Current' # i /\ Current' \in Image
    BY <1>3, <1>4, Types DEF IInv, WorkFacts
  <2>2. check'.pc = "deliver" /\ Current' \notin check'.moved =>
          check'.selection = upstream'[Current']
    BY <1>1, <1>3, <1>4, <2>1 DEF IInv, WorkFacts, TypeOK
  <2> QED BY <1>2, <1>3, <1>4, <2>2
          DEF IInv, WorkFacts, Mutable, IsSource, ProjectVersion, Going
<1>7. ReviewFacts'
  BY <1>2, <1>3, <1>4, Types
  DEF IInv, ReviewFacts, Going, IsSource, PlannedVersion, PlannedDigestChanged,
      BaselineKnown, BaselineDigestChanged, Mutable, BumpPatch, ProjectVersion
<1>8. ContentFacts'
  BY <1>2, <1>3 DEF IInv, ContentFacts, Going, Truthful
<1>9. SettledFacts'
  <2>1. \A k \in Image : k # i => upstream'[k] = upstream[k]
    BY <1>1 DEF IInv, TypeOK
  <2>2. \A k \in Image : \A e, t : Settled(k, e, t)' <=> Settled(k, e, t)
    BY <1>2 DEF Settled, Mutable, IsSource, MirrorHost, LazyCatRef
  <2>3. \A k \in Image \ fresh' : Settled(k, committed.manifest[k], upstream[k])'
    BY <1>1, <1>2, <2>1, <2>2 DEF IInv, SettledFacts
  <2>4. check'.pc # "idle" => check'.moved \subseteq fresh'
    BY <1>1, <1>3 DEF IInv, SettledFacts
  <2>5. check'.pc \in Going /\ ~check'.dry =>
          /\ \A k \in Image : Done(k)' /\ k \notin check'.moved =>
               Settled(k, check.edited[k], upstream[k])'
          /\ check'.changed => Checked' \cap fresh' # {}
    BY <1>1, <1>3, <1>4, <2>1, <2>2 DEF IInv, SettledFacts, Going
  <2> QED BY <1>2, <2>3, <2>4, <2>5 DEF SettledFacts
<1>10. VersionFacts'
  BY <1>2, <1>3, <1>4, Types
  DEF IInv, VersionFacts, Going, IsSource, ProjectVersion, BumpPatch,
      MigratesToLazyCat
<1> QED BY <1>5, <1>6, <1>7, <1>8, <1>9, <1>10 DEF IInv

\* What holds whatever a check was doing.
CommittedFacts ==
  /\ \A i \in Image : Truthful(committed.manifest[i])
  /\ \A i \in Image \ fresh : Settled(i, committed.manifest[i], upstream[i])
  /\ contents[committed.version] =
       Content(committed.manifest[config.source].runtime)
  /\ config.mutable =>
       \A v \in Version : v > committed.version => contents[v] = None

LEMMA IdleCheckType ==
  IdleCheck \in CheckState
<1>1. <<>> \in Seq(Image) /\ {} \in SUBSET Image
  OBVIOUS
<1> QED BY <1>1 DEF IdleCheck, CheckState, CheckPC, Outcome

\* A check that is over leaves nothing behind.
LEMMA IdleKeeps ==
  ASSUME check' = IdleCheck, manifest' = committed'.manifest, CommittedFacts',
         config' \in Configs,
         committed' \in [manifest : [Image -> Entry], version : Version],
         upstream' \in [Image -> Selection], copies' \subseteq Digest,
         moves' \in 0..MaxMoves, checks' \in 0..MaxChecks,
         fresh' \subseteq Image, contents' \in [Version -> Digest \cup {None}]
  PROVE  IInv'
<1>1. /\ check'.pc = "idle" /\ check'.review = 0 /\ check' \in CheckState
      /\ IsInjective(check'.order) /\ check'.at \in 0..Len(check'.order)
  BY IdleCheckType DEF IdleCheck, IsInjective
<1>2. TypeOK'
  BY <1>1 DEF TypeOK
<1>3. WorkFacts' /\ ReviewFacts' /\ ContentFacts' /\ SettledFacts' /\ VersionFacts'
  BY <1>1
  DEF WorkFacts, ReviewFacts, ContentFacts, SettledFacts, VersionFacts,
      CommittedFacts, Going
<1> QED BY <1>2, <1>3 DEF IInv

LEMMA CommittedOf ==
  ASSUME IInv
  PROVE  CommittedFacts
  BY DEF IInv, ContentFacts, SettledFacts, VersionFacts, CommittedFacts

LEMMA DiscardStep ==
  ASSUME IInv, Discard
  PROVE  IInv'
<1>1. /\ UNCHANGED <<config, committed, upstream, copies, moves, checks, fresh,
                     contents>>
      /\ check' = IdleCheck /\ manifest' = committed'.manifest
  BY DEF Discard, historyVars
<1>2. CommittedFacts'
  <2>1. CommittedFacts
    BY CommittedOf
  <2> QED BY <1>1, <2>1
          DEF CommittedFacts, Truthful, Settled, Mutable, IsSource, MirrorHost,
              LazyCatRef
<1> QED BY <1>1, <1>2, IdleKeeps DEF IInv, TypeOK

\* A check that fails edits or delivers nothing more; what it delivered came
\* after the comparison with the review.
LEMMA FailKeeps ==
  ASSUME IInv, check.pc \in {"select", "deliver"},
         check' \in CheckState, check'.pc = "failed",
         check'.order = check.order, check'.at = check.at,
         check'.review = check.review, check'.candidate = check.candidate,
         check'.moved = check.moved,
         check'.copied => check.copied \/ check.at > 0,
         manifest' \in {manifest, check.edited},
         copies \subseteq copies', copies' \subseteq Digest,
         UNCHANGED <<config, committed, upstream, moves, checks, historyVars>>
  PROVE  IInv'
<1>1. UNCHANGED <<fresh, contents>>
  BY DEF historyVars
<1>2. /\ check.edited \in [Image -> Entry] /\ manifest = committed.manifest
      /\ check.pc \in Going
  BY DEF IInv, WorkFacts, Going
<1>3. TypeOK'
  BY <1>1, <1>2 DEF IInv, TypeOK
<1>4. WorkFacts'
  BY DEF WorkFacts, Going
<1>5. ReviewFacts'
  <2>1. manifest' # committed'.manifest => \E i \in Image : Done(i)
    BY <1>2 DEF IInv, WorkFacts, TypeOK
  <2>2. \A i \in Image : Done(i) => check.at > 0
    BY Types DEF IInv, Done
  <2>3. check'.review # 0 /\ (check'.copied \/ manifest' # committed'.manifest) =>
          check'.candidate > check'.review
    BY <1>2, <2>1, <2>2 DEF IInv, ReviewFacts
  <2> QED BY <2>3 DEF ReviewFacts, Going
<1>6. ContentFacts'
  BY <1>2 DEF IInv, ContentFacts, Truthful, Going
<1>7. SettledFacts'
  BY <1>1, <1>2
  DEF IInv, SettledFacts, Settled, Mutable, IsSource, MirrorHost, LazyCatRef, Going
<1>8. VersionFacts'
  BY <1>1 DEF IInv, VersionFacts, Going
<1> QED BY <1>3, <1>4, <1>5, <1>6, <1>7, <1>8 DEF IInv

LEMMA FailsShape ==
  ASSUME TypeOK, NEW outcome \in Outcome, NEW copied \in BOOLEAN,
         check' = [check EXCEPT !.pc = "failed", !.outcome = outcome,
                                !.copied = copied]
  PROVE  /\ check' \in CheckState /\ check'.pc = "failed"
         /\ check'.order = check.order /\ check'.at = check.at
         /\ check'.review = check.review /\ check'.candidate = check.candidate
         /\ check'.moved = check.moved /\ check'.copied = copied
  BY DEF TypeOK, CheckState, CheckPC

\* A failure that delivers nothing.
LEMMA PlainFailKeeps ==
  ASSUME IInv, check.pc \in {"select", "deliver"}, NEW outcome \in Outcome,
         Fails(outcome), manifest' \in {manifest, check.edited},
         UNCHANGED <<config, committed, upstream, copies, moves, checks,
                     historyVars>>
  PROVE  IInv'
<1>1. check' = [check EXCEPT !.pc = "failed", !.outcome = outcome,
                             !.copied = check.copied]
  BY DEF Fails, IInv, TypeOK, CheckState
<1>2. check.copied \in BOOLEAN /\ copies \subseteq Digest /\ TypeOK
  BY DEF IInv, TypeOK, CheckState
<1>3. /\ check' \in CheckState /\ check'.pc = "failed"
      /\ check'.order = check.order /\ check'.at = check.at
      /\ check'.review = check.review /\ check'.candidate = check.candidate
      /\ check'.moved = check.moved /\ check'.copied = check.copied
  BY <1>1, <1>2, FailsShape
<1> QED BY <1>2, <1>3, FailKeeps

\* The end of a check: all images are done, and the edits take their place.
LEMMA ApplyManifestStep ==
  ASSUME IInv, ApplyManifest
  PROVE  IInv'
<1>1. /\ UNCHANGED <<config, committed, upstream, copies, moves, checks,
                     historyVars>>
      /\ check.pc = "select" /\ Pending = {}
  BY DEF ApplyManifest
<1>2. CASE Fails("error")
  <2>1. manifest' \in {manifest, check.edited} /\ "error" \in Outcome
    BY DEF ApplyManifest, Outcome
  <2> QED BY <1>1, <1>2, <2>1, PlainFailKeeps
<1>3. CASE ~Fails("error")
  <2>1. manifest' = check.edited /\ check' = [check EXCEPT !.pc = "applied"]
    BY <1>3 DEF ApplyManifest
  <2>2. /\ check' \in CheckState /\ check'.pc = "applied" /\ check'.order = check.order
        /\ check'.at = check.at /\ check'.review = check.review
        /\ check'.dry = check.dry /\ check'.edited = check.edited
        /\ check'.changed = check.changed /\ check'.version = check.version
        /\ check'.candidate = check.candidate /\ check'.copied = check.copied
        /\ check'.moved = check.moved
    BY <2>1 DEF IInv, TypeOK, CheckState, CheckPC
  <2>3. UNCHANGED <<fresh, contents>>
    BY <1>1 DEF historyVars
  <2>4. /\ Checked' = Checked /\ Pending' = Pending
        /\ \A k \in Image : Done(k)' <=> Done(k)
    BY <1>1, <2>2 DEF Checked, Pending, Done, Embedded
  <2>5. check.pc \in Going /\ check.edited \in [Image -> Entry]
        /\ manifest = committed.manifest
    BY <1>1 DEF Going, IInv, WorkFacts
  <2>6. TypeOK'
    BY <1>1, <2>1, <2>2, <2>3, <2>5 DEF IInv, TypeOK
  <2>7. WorkFacts'
    BY <1>1, <2>1, <2>2, <2>4, <2>5 DEF IInv, WorkFacts, Going
  <2>8. ReviewFacts'
    <3>1. manifest' # committed'.manifest => \E i \in Image : Done(i)
      BY <1>1, <2>1, <2>5 DEF IInv, WorkFacts, TypeOK
    <3>2. \A i \in Image : Done(i) => check.at > 0
      BY Types DEF IInv, Done
    <3>3. config.source \in Image
      BY Types DEF IInv
    <3> QED BY <1>1, <2>2, <2>4, <2>5, <3>1, <3>2, <3>3 DEF IInv, ReviewFacts, Going
  <2>9. ContentFacts'
    BY <1>1, <2>1, <2>2, <2>5 DEF IInv, ContentFacts, Truthful, Going
  <2>10. SettledFacts'
    BY <1>1, <2>2, <2>3, <2>4, <2>5
    DEF IInv, SettledFacts, Settled, Mutable, IsSource, MirrorHost, LazyCatRef, Going
  <2>11. VersionFacts'
    BY <1>1, <2>2, <2>3, <2>4, <2>5, Types
    DEF IInv, VersionFacts, Going, ProjectVersion, BumpPatch, MigratesToLazyCat
  <2> QED BY <2>6, <2>7, <2>8, <2>9, <2>10, <2>11 DEF IInv
<1> QED BY <1>2, <1>3

-----------------------------------------------------------------------------
(* The beginning of a check                                                 *)

\* prioritizeImage moves one image to the front and loses or repeats none.
LEMMA PrioritizeImageFacts ==
  ASSUME NEW images \in Seq(Image), IsInjective(images), NEW id \in Range(images)
  PROVE  /\ PrioritizeImage(images, id) \in Seq(Image)
         /\ IsInjective(PrioritizeImage(images, id))
         /\ Range(PrioritizeImage(images, id)) = Range(images)
         /\ 1 \in DOMAIN PrioritizeImage(images, id)
         /\ PrioritizeImage(images, id)[1] = id
<1> DEFINE index == CHOOSE n \in DOMAIN images : images[n] = id
           moved == [n \in DOMAIN images |->
                       IF n = 1 THEN id
                       ELSE IF n <= index THEN images[n - 1] ELSE images[n]]
<1>1. /\ index \in DOMAIN images /\ images[index] = id
      /\ DOMAIN images = 1..Len(images) /\ Len(images) \in Nat
  BY DEF Range
<1>2. PrioritizeImage(images, id) = moved
  BY DEF PrioritizeImage
<1> HIDE DEF index
<1>3. /\ \A n \in DOMAIN images : n # 1 /\ n <= index => n - 1 \in DOMAIN images
      /\ 1 \in DOMAIN images /\ index \in Nat \ {0}
  BY <1>1
<1>4. moved \in Seq(Image)
  BY <1>1, <1>3
<1>5. IsInjective(moved)
  <2>1. \A a, b \in DOMAIN images : images[a] = images[b] => a = b
    BY DEF IsInjective
  <2>2. SUFFICES ASSUME NEW a \in DOMAIN images, NEW b \in DOMAIN images,
                        moved[a] = moved[b]
                 PROVE  a = b
    BY DEF IsInjective
  <2> DEFINE From(n) == IF n = 1 THEN index ELSE IF n <= index THEN n - 1 ELSE n
  <2>3. \A n \in DOMAIN images : From(n) \in DOMAIN images /\ moved[n] = images[From(n)]
    BY <1>1, <1>3
  <2> HIDE DEF moved, From
  <2>4. From(a) = From(b)
    BY <2>1, <2>2, <2>3
  <2> QED BY <1>1, <1>3, <2>4 DEF From
<1>6. Range(moved) = Range(images)
  <2>1. \A n \in DOMAIN images : moved[n] \in Range(images)
    BY <1>1, <1>3 DEF Range
  <2>2. ASSUME NEW n \in DOMAIN images
        PROVE  \E m \in DOMAIN images : moved[m] = images[n]
    <3>1. CASE n = index
      BY <1>1, <1>3, <3>1
    <3>2. CASE n < index
      <4>1. n + 1 \in DOMAIN images /\ moved[n + 1] = images[n]
        BY <1>1, <3>2
      <4> QED BY <4>1
    <3>3. CASE n > index
      <4>1. moved[n] = images[n]
        BY <1>1, <1>3, <3>3
      <4> QED BY <4>1
    <3> QED BY <1>1, <1>3, <3>1, <3>2, <3>3
  <2>3. DOMAIN moved = DOMAIN images
    OBVIOUS
  <2> HIDE DEF moved
  <2> QED BY <2>1, <2>2, <2>3 DEF Range
<1> QED BY <1>2, <1>3, <1>4, <1>5, <1>6

\* The images of a check, in their order.
LEMMA OrderedFacts ==
  ASSUME TypeOK, NEW only \in Image \cup {None}, NEW review \in Version \cup {0},
         review # 0 => only \in {None, config.source}
  PROVE  /\ Ordered(only, review) \in Seq(Image)
         /\ IsInjective(Ordered(only, review))
         /\ review # 0 => /\ 1 \in DOMAIN Ordered(only, review)
                          /\ Ordered(only, review)[1] = config.source
<1>1. /\ config.order \in Seq(Image) /\ IsInjective(config.order)
      /\ Range(config.order) = Image /\ config.source \in Image
  BY Types DEF Config
<1>2. \A i \in Image : /\ <<i>> \in Seq(Image) /\ IsInjective(<<i>>)
                       /\ i \in Range(<<i>>)
  BY DEF IsInjective, Range
<1>3. SelectImages(only) \in Seq(Image) /\ IsInjective(SelectImages(only))
  BY <1>1, <1>2 DEF SelectImages
<1>4. review # 0 => config.source \in Range(SelectImages(only))
  BY <1>1, <1>2 DEF SelectImages
<1> QED BY <1>3, <1>4, PrioritizeImageFacts DEF Ordered

LEMMA StartCheckStep ==
  ASSUME IInv, StartCheck
  PROVE  IInv'
<1>1. PICK dry \in BOOLEAN, review \in Version \cup {0}, only \in Image \cup {None} :
        /\ check.pc = "idle" /\ checks < MaxChecks /\ checks' = checks + 1
        /\ review # 0 => ~dry /\ only \in {None, config.source}
        /\ LET images == Ordered(only, review) IN
           \/ check' = [IdleCheck EXCEPT !.pc = "failed", !.outcome = "error"]
           \/ /\ \A i \in Range(images) :
                   IF Embedded(manifest[i].runtime) THEN ~IsSource(i)
                   ELSE ResolvesImage(i)
              /\ check' = [IdleCheck EXCEPT
                   !.pc = "select", !.order = images, !.review = review,
                   !.dry = dry, !.edited = manifest, !.version = ProjectVersion]
  BY DEF StartCheck
<1>2. UNCHANGED <<config, manifest, committed, upstream, copies, moves, fresh,
                  contents>>
  BY DEF StartCheck, historyVars
<1>3. manifest = committed.manifest /\ manifest \in [Image -> Entry] /\ TypeOK
  BY <1>1 DEF IInv, WorkFacts, TypeOK
<1>4. checks' \in 0..MaxChecks
  BY <1>1, ImageAssumption DEF IInv, TypeOK
<1>5. CommittedFacts /\ \A i \in Image : Truthful(manifest[i])'
  BY <1>2, CommittedOf DEF IInv, ContentFacts, Truthful
<1>6. \A k \in Image \ fresh : Settled(k, committed.manifest[k], upstream[k])'
  <2>1. \A k \in Image \ fresh : Settled(k, committed.manifest[k], upstream[k])
    BY <1>5 DEF CommittedFacts
  <2> QED BY <1>2, <2>1
          DEF Settled, Mutable, IsSource, MirrorHost, LazyCatRef
<1>7. CASE check' = [IdleCheck EXCEPT !.pc = "failed", !.outcome = "error"]
  <2>1. /\ check' \in CheckState /\ check'.pc = "failed" /\ check'.review = 0
        /\ check'.order = <<>> /\ check'.at = 0 /\ check'.moved = {}
    BY <1>7, IdleCheckType DEF IdleCheck, CheckState, CheckPC, Outcome
  <2>2. TypeOK'
    BY <1>2, <1>3, <1>4, <2>1 DEF TypeOK, IsInjective
  <2>3. WorkFacts' /\ ReviewFacts' /\ ContentFacts' /\ SettledFacts' /\ VersionFacts'
    BY <1>2, <1>5, <1>6, <2>1
    DEF WorkFacts, ReviewFacts, ContentFacts, SettledFacts, VersionFacts,
        CommittedFacts, Truthful, Going
  <2> QED BY <2>2, <2>3 DEF IInv
<1>8. CASE check' # [IdleCheck EXCEPT !.pc = "failed", !.outcome = "error"]
  <2> DEFINE images == Ordered(only, review)
  <2>1. /\ \A i \in Range(images) :
             IF Embedded(manifest[i].runtime) THEN ~IsSource(i) ELSE ResolvesImage(i)
        /\ check' = [IdleCheck EXCEPT
             !.pc = "select", !.order = images, !.review = review,
             !.dry = dry, !.edited = manifest, !.version = ProjectVersion]
    BY <1>1, <1>8
  <2>2. /\ images \in Seq(Image) /\ IsInjective(images)
        /\ review # 0 => 1 \in DOMAIN images /\ images[1] = config.source
    BY <1>1, <1>3, OrderedFacts
  <2> HIDE DEF images
  <2>3. ProjectVersion \in Version \cup {0} /\ ProjectVersion \in Version
    BY <1>3, Types DEF ProjectVersion
  <2>4. /\ check'.pc = "select" /\ check'.order = images /\ check'.review = review
        /\ check'.dry = dry /\ check'.edited = manifest /\ check'.at = 0
        /\ check'.version = ProjectVersion /\ check'.moved = {}
        /\ check'.changed = FALSE /\ check'.copied = FALSE
        /\ check' \in CheckState
    <3>1. check' = [IdleCheck EXCEPT
             !.pc = "select", !.order = images, !.review = review,
             !.dry = dry, !.edited = manifest, !.version = ProjectVersion]
      BY <2>1
    <3>2. /\ check'.pc = "select" /\ check'.order = images /\ check'.review = review
          /\ check'.dry = dry /\ check'.edited = manifest /\ check'.at = 0
          /\ check'.version = ProjectVersion /\ check'.moved = {}
          /\ check'.changed = FALSE /\ check'.copied = FALSE
      BY <3>1 DEF IdleCheck
    <3>3. check' \in CheckState
      <4>1. /\ manifest \in [Image -> Entry] \cup {None} /\ images \in Seq(Image)
            /\ "select" \in CheckPC /\ dry \in BOOLEAN
            /\ review \in Version \cup {0} /\ ProjectVersion \in Version \cup {0}
        BY <1>1, <1>3, <2>2, <2>3 DEF CheckPC
      <4> HIDE DEF IInv
      <4> QED BY <3>1, <4>1, IdleCheckType DEF CheckState
    <3> QED BY <3>2, <3>3
  <2>5. /\ DOMAIN images \subseteq Nat \ {0} /\ \A k \in Image : ~Done(k)'
    BY <2>2, <2>4 DEF Done
  <2>6. TypeOK'
    BY <1>2, <1>3, <1>4, <2>2, <2>4 DEF TypeOK
  <2>7. WorkFacts'
    BY <1>2, <1>3, <2>3, <2>4 DEF WorkFacts, Going
  <2>8. ReviewFacts'
    <3>1. config'.source \in Image
      BY <1>2, <1>3, Types
    <3>2. review # 0 => config.source \in Range(images)
      BY <2>2 DEF Range
    <3>3. review # 0 => ~Embedded(committed.manifest[config.source].runtime)
      BY <1>3, <2>1, <3>2 DEF IsSource
    <3>4. review # 0 => config'.source \in Checked'
      BY <1>2, <2>4, <3>2, <3>3 DEF Checked, Embedded
    <3> QED BY <1>2, <1>3, <2>2, <2>4, <2>5, <3>1, <3>4 DEF ReviewFacts, Going
  <2>9. ContentFacts'
    BY <1>2, <1>3, <1>5, <2>4 DEF ContentFacts, Truthful
  <2>10. SettledFacts'
    BY <1>2, <1>6, <2>4, <2>5 DEF SettledFacts
  <2>11. VersionFacts'
    <3>1. config'.source \in Image
      BY <1>2, <1>3, Types
    <3>2. committed.version \in Nat
      BY <1>3, Types, Versions
    <3> QED BY <1>2, <1>3, <1>5, <2>3, <2>4, <2>5, <3>1, <3>2
            DEF VersionFacts, CommittedFacts, ProjectVersion, BumpPatch, Going
  <2> QED BY <2>6, <2>7, <2>8, <2>9, <2>10, <2>11 DEF IInv
<1> QED BY <1>7, <1>8

-----------------------------------------------------------------------------
(* Selection                                                                *)

\* No image is selected twice in a check.
LEMMA SelectedOnce ==
  ASSUME IInv, NEW n \in Pending
  PROVE  /\ n \in DOMAIN check.order /\ n \in Nat \ {0} /\ n > check.at
         /\ check.order[n] \in Checked /\ check.order[n] \in Image
         /\ check.pc = "select" => ~Done(check.order[n])
<1>1. /\ n \in DOMAIN check.order /\ n \in Nat \ {0} /\ n > check.at
      /\ check.order[n] \in Checked /\ check.order[n] \in Image /\ check.at \in Nat
  BY Types DEF IInv, Pending
<1>2. ASSUME Done(check.order[n]) PROVE FALSE
  <2>1. PICK m \in DOMAIN check.order :
          check.order[m] = check.order[n] /\ m <= check.at
    BY <1>2 DEF Done
  <2>2. m = n
    BY <1>1, <2>1 DEF IInv, TypeOK, IsInjective
  <2> QED BY <1>1, <2>1, <2>2
<1> QED BY <1>1, <1>2

LEMMA SelectImageStep ==
  ASSUME IInv, SelectImage
  PROVE  IInv'
<1>1. PICK n \in Pending :
        /\ check.pc = "select" /\ \A m \in Pending : n <= m
        /\ LET i == check.order[n]
               s == upstream[i]
           IN \/ Fails("error")
              \/ /\ check.review # 0 => Plannable(i)
                 /\ Mutable(i) => ProjectVersion < VersionLimit
                 /\ IF ReviewCovers(i, s) THEN Fails("covered")
                    ELSE IF IsDowngrade(i, s) THEN Fails("downgrade")
                    ELSE check' = [check EXCEPT
                           !.pc = "deliver", !.at = n, !.selection = s,
                           !.moved = check.moved \ {i},
                           !.planned = (Mutable(i) /\ PlannedDigestChanged(i, s)),
                           !.candidate = IF IsSource(i) THEN PlannedVersion(i, s)
                                         ELSE check.candidate]
  BY DEF SelectImage
<1>2. /\ UNCHANGED <<config, manifest, committed, upstream, copies, moves, checks,
                     historyVars>>
      /\ UNCHANGED <<fresh, contents>>
  BY DEF SelectImage, historyVars
<1>3. CASE Fails("error") \/ Fails("covered") \/ Fails("downgrade")
  <2>1. {"error", "covered", "downgrade"} \subseteq Outcome
        /\ manifest' \in {manifest, check.edited}
    BY <1>2 DEF Outcome
  <2> QED BY <1>1, <1>2, <1>3, <2>1, PlainFailKeeps
<1>4. CASE ~(Fails("error") \/ Fails("covered") \/ Fails("downgrade"))
  <2> DEFINE i == check.order[n]
             s == upstream[i]
             candidate == IF IsSource(i) THEN PlannedVersion(i, s)
                          ELSE check.candidate
             planned == Mutable(i) /\ PlannedDigestChanged(i, s)
  <2>1. /\ Mutable(i) => ProjectVersion < VersionLimit
        /\ ~ReviewCovers(i, s) /\ ~IsDowngrade(i, s)
        /\ check' = [check EXCEPT !.pc = "deliver", !.at = n, !.selection = s,
                       !.moved = check.moved \ {i}, !.planned = planned,
                       !.candidate = candidate]
    BY <1>1, <1>4
  <2>2. /\ i \in Image /\ i \in Checked /\ ~Done(i) /\ s \in Selection
        /\ n \in DOMAIN check.order /\ n \in Nat \ {0} /\ n > check.at
        /\ check.at \in Nat
    BY <1>1, SelectedOnce, Types DEF IInv
  <2>3. ProjectVersion \in Version /\ s.version \in Version
    BY <2>2, Types DEF ProjectVersion, IInv, Selection
  <2>4. /\ PlannedVersion(i, s) \in Version /\ candidate \in Version \cup {0}
        /\ planned \in BOOLEAN
    <3>1. PlannedVersion(i, s) \in Version
      BY <2>1, <2>3, Versions DEF PlannedVersion, BumpPatch
    <3> QED BY <3>1 DEF IInv, TypeOK, CheckState
  <2>5. candidate = IF IsSource(i) THEN PlannedVersion(i, s) ELSE check.candidate
    OBVIOUS
  <2>6. planned = (Mutable(i) /\ PlannedDigestChanged(i, s))
    OBVIOUS
  <2> HIDE DEF candidate, planned
  <2>7. /\ check' \in CheckState /\ check'.pc = "deliver" /\ check'.at = n
        /\ check'.order = check.order /\ check'.review = check.review
        /\ check'.dry = check.dry /\ check'.selection = s
        /\ check'.planned = planned /\ check'.edited = check.edited
        /\ check'.changed = check.changed /\ check'.version = check.version
        /\ check'.candidate = candidate /\ check'.copied = check.copied
        /\ check'.moved = check.moved \ {i}
    BY <2>1, <2>2, <2>4 DEF IInv, TypeOK, CheckState, CheckPC
  <2>8. /\ Checked' = Checked /\ Current' = i
        /\ \A k \in Image : Done(k)' <=> Done(k)
    <3>1. Checked' = Checked /\ Current' = i
      BY <1>2, <2>7 DEF Checked, Embedded, Current
    <3>2. \A m \in DOMAIN check.order : check.order[m] \in Checked =>
            (m <= check.at <=> m <= n /\ m # n)
      <4>1. \A m \in DOMAIN check.order : m \in Nat
        BY Types DEF IInv
      <4>2. ASSUME NEW m \in DOMAIN check.order, check.order[m] \in Checked,
                   m <= n, m # n, ~(m <= check.at)
            PROVE  FALSE
        BY <1>1, <2>2, <4>1, <4>2 DEF Pending
      <4> QED BY <2>2, <4>1, <4>2
    <3> QED BY <1>1, <2>7, <3>1, <3>2 DEF Done
  <2>9. /\ manifest = committed.manifest /\ check.pc \in Going
        /\ check.edited \in [Image -> Entry]
    BY <1>1 DEF IInv, WorkFacts, Going
  <2>10. TypeOK'
    <3>1. check'.at \in 0..Len(check'.order)
      BY <2>2, <2>7, Types DEF IInv
    <3> QED BY <1>2, <2>7, <3>1 DEF IInv, TypeOK
  <2>11. WorkFacts'
    BY <1>2, <2>1, <2>2, <2>7, <2>8, <2>9
    DEF IInv, WorkFacts, Mutable, IsSource, ProjectVersion, Going
  <2>12. ReviewFacts'
    <3>1. SUFFICES ASSUME check.review # 0
                   PROVE  ReviewFacts'
      BY <2>7 DEF ReviewFacts
    <3>2. /\ 1 \in DOMAIN check.order /\ check.order[1] = config.source
          /\ config.source \in Checked /\ config.source \in Image
          /\ check.at > 0 => check.candidate > check.review
      BY <2>9, <3>1, Types DEF IInv, ReviewFacts
    <3>3. IsSource(i) => candidate > check.review
      <4>1. check.review \in Nat /\ PlannedVersion(i, s) \in Nat
        BY <2>4, Versions DEF IInv, TypeOK, CheckState
      <4> QED BY <2>1, <2>5, <3>1, <4>1 DEF ReviewCovers
    <3>4. check.at = 0 => IsSource(i)
      <4>1. check.at = 0 => 1 \in Pending
        BY <3>2 DEF Pending
      <4>2. check.at = 0 => n = 1
        BY <1>1, <2>2, <4>1
      <4> QED BY <3>2, <4>2 DEF IsSource
    <3>5. candidate > check.review
      BY <2>2, <2>5, <3>2, <3>3, <3>4
    <3>6. check.pc \in Going /\ Done(config.source) =>
            check.version = check.candidate /\ ~IsSource(i)
      BY <2>2, <3>1 DEF IInv, ReviewFacts, IsSource
    <3>7. IsSource(Current)' => /\ IsSource(i)
                                /\ candidate = PlannedVersion(Current, check.selection)'
      BY <1>2, <2>5, <2>7, <2>8
      DEF IsSource, PlannedVersion, PlannedDigestChanged, BaselineKnown,
          BaselineDigestChanged, Mutable, BumpPatch, ProjectVersion
    <3>8. IsSource(Current)' => planned = (config.mutable /\
                                  PlannedDigestChanged(Current, check.selection))'
      BY <1>2, <2>6, <2>7, <2>8
      DEF IsSource, PlannedDigestChanged, BaselineKnown, BaselineDigestChanged, Mutable
    <3>9. Done(config.source)' => Done(config.source)
      BY <1>2, <2>8, <3>2
    <3>10. Done(config.source)' => check'.version = check'.candidate
      BY <2>5, <2>7, <2>9, <3>6, <3>9
    <3> QED BY <1>2, <2>7, <2>8, <3>2, <3>5, <3>7, <3>8, <3>10 DEF ReviewFacts
  <2>13. ContentFacts'
    BY <1>2, <2>7, <2>9 DEF IInv, ContentFacts, Truthful, Going
  <2>14. SettledFacts'
    BY <1>2, <2>2, <2>7, <2>8, <2>9
    DEF IInv, SettledFacts, Settled, Mutable, IsSource, MirrorHost, LazyCatRef, Going
  <2>15. VersionFacts'
    <3>1. config.source \in Image
      BY Types DEF IInv
    <3>2. ~config.mutable /\ IsSource(i) =>
            config.downgrade \/ s.version >= ProjectVersion
      BY <2>1, <2>3, Versions DEF IsDowngrade
    <3> QED BY <1>2, <2>7, <2>8, <2>9, <3>1, <3>2
            DEF IInv, VersionFacts, ProjectVersion, BumpPatch, MigratesToLazyCat,
                IsSource, Going
  <2> QED BY <2>10, <2>11, <2>12, <2>13, <2>14, <2>15 DEF IInv
<1> QED BY <1>3, <1>4

-----------------------------------------------------------------------------
(* The commit of what a check edited                                        *)

\* A check that is applied has done all its images.
LEMMA AppliedIsDone ==
  ASSUME IInv, check.pc = "applied", NEW i \in Checked
  PROVE  Done(i)
<1>1. PICK n \in DOMAIN check.order : check.order[n] = i
  BY DEF Checked, Range
<1>2. n \notin Pending /\ n \in Nat /\ check.at \in Nat
  BY Types DEF IInv, WorkFacts
<1>3. n <= check.at
  BY <1>1, <1>2 DEF Pending
<1> QED BY <1>1, <1>3 DEF Done

LEMMA CommitStep ==
  ASSUME IInv, Commit
  PROVE  IInv'
<1>1. /\ check.pc = "applied" /\ ~check.dry /\ check.pc \in Going
      /\ committed' = [manifest |-> manifest, version |-> check.version]
      /\ fresh' = (fresh \ Checked) \cup check.moved
      /\ contents' = [contents EXCEPT ![check.version] =
                        Content(manifest[config.source].runtime)]
      /\ check' = IdleCheck
      /\ UNCHANGED <<config, manifest, upstream, copies, moves, checks>>
  BY DEF Commit, Going
<1>2. /\ manifest = check.edited /\ manifest \in [Image -> Entry]
      /\ check.version \in Version /\ config.source \in Image
      /\ check.moved \subseteq Image
  BY <1>1, Types DEF IInv, WorkFacts, TypeOK, CheckState
<1>3. Content(manifest[config.source].runtime) \in Digest \cup {None}
  BY <1>2 DEF Content, Entry, RuntimeRef
<1>4. CommittedFacts'
  <2>1. \A i \in Image : Truthful(manifest[i])'
    BY <1>1 DEF IInv, ContentFacts, Truthful
  <2>2. ASSUME NEW i \in Image \ fresh'
        PROVE  Settled(i, manifest[i], upstream[i])
    <3>1. CASE i \in Checked
      <4>1. Done(i) /\ i \notin check.moved
        BY <1>1, <2>2, <3>1, AppliedIsDone
      <4> QED BY <1>1, <1>2, <4>1 DEF IInv, SettledFacts
    <3>2. CASE i \notin Checked
      <4>1. i \notin fresh /\ ~Done(i)
        BY <1>1, <2>2, <3>2 DEF Done
      <4>2. manifest[i] = committed.manifest[i]
        BY <1>1, <1>2, <4>1 DEF IInv, WorkFacts
      <4> QED BY <2>2, <4>1, <4>2 DEF IInv, SettledFacts
    <3> QED BY <3>1, <3>2
  <2>3. \A i \in Image \ fresh' : Settled(i, committed.manifest[i], upstream[i])'
    BY <1>1, <2>2 DEF Settled, Mutable, IsSource, MirrorHost, LazyCatRef
  <2>4. contents'[check.version] = Content(manifest[config.source].runtime)
    BY <1>1, <1>2 DEF IInv, TypeOK
  <2>5. config.mutable =>
          \A v \in Version : v > check.version => contents'[v] = None
    <3>1. config.mutable => check.version \in {ProjectVersion, BumpPatch}
      BY <1>1 DEF IInv, VersionFacts
    <3>2. committed.version \in Nat /\ check.version \in Nat
      BY <1>2, Types, Versions DEF IInv
    <3>2a. config.mutable => check.version >= committed.version
      BY <3>1, <3>2 DEF ProjectVersion, BumpPatch
    <3>3. /\ \A v \in Version : v \in Nat
          /\ \A v \in Version \ {check.version} : contents'[v] = contents[v]
      <4>1. contents \in [Version -> Digest \cup {None}]
        BY DEF IInv, TypeOK
      <4> HIDE DEF IInv
      <4> QED BY <1>1, <4>1, Versions
    <3>4. \A v \in Version : v > check.version =>
            v \in Version \ {check.version}
      <4> HIDE DEF IInv
      <4> QED BY <3>2, <3>3
    <3> QED BY <3>2, <3>2a, <3>3, <3>4 DEF IInv, VersionFacts
  <2> QED BY <1>1, <2>1, <2>3, <2>4, <2>5 DEF CommittedFacts, Content, Truthful
<1>5. contents' \in [Version -> Digest \cup {None}] /\ fresh' \subseteq Image
  BY <1>1, <1>2, <1>3 DEF IInv, TypeOK
<1>6. committed' \in [manifest : [Image -> Entry], version : Version]
  BY <1>1, <1>2
<1> QED BY <1>1, <1>4, <1>5, <1>6, IdleKeeps DEF IInv, TypeOK

-----------------------------------------------------------------------------
(* Deliveries                                                               *)

\* The entry of the manifest after a delivery, and the copies that exist then.
NewRuntime(i, delivered) ==
  IF delivered.runtime = None THEN manifest[i].runtime ELSE delivered.runtime
NewEntry(i, delivered) ==
  IF NeedsUpdate(i, delivered)
  THEN [upstream |-> ManifestSourceRef(i), runtime |-> NewRuntime(i, delivered)]
  ELSE manifest[i]
CopiesAfter(i) == IF Copies(i) THEN copies \cup {CopiedDigest(i)} ELSE copies
Result == [runtime : RuntimeRef \cup {None}, digestChanged : BOOLEAN,
           deliveryChanged : BOOLEAN]

\* What is known when an image is delivered.
LEMMA Delivering ==
  ASSUME IInv, check.pc = "deliver"
  PROVE  /\ Current \in Image /\ Current \in Checked
         /\ check.at \in DOMAIN check.order /\ check.at > 0
         /\ config.image[Current] \in ImageConfig
         /\ manifest = committed.manifest /\ manifest[Current] \in Entry
         /\ Truthful(manifest[Current])
         /\ check.selection \in Selection /\ upstream[Current] \in Selection
         /\ None \notin Digest
<1>1. check.at \in DOMAIN check.order /\ Current \in Checked
      /\ check.selection \in Selection /\ manifest = committed.manifest
  BY DEF IInv, WorkFacts
<1>2. Current \in Image /\ check.at > 0
  BY <1>1, Types DEF IInv, Current
<1>3. Truthful(manifest[Current])
  BY <1>2 DEF IInv, ContentFacts
<1> QED BY <1>1, <1>2, <1>3, Types, ImageAssumption DEF IInv

\* The three kinds of delivery, in plain records.
Source(host, digest) ==
  [host |-> host, version |-> check.selection.version, digest |-> digest]

LEMMA DirectShape ==
  ASSUME NEW i, NEW delivered \in DeliverDirect(i)
  PROVE  /\ ~Mutable(i) =>
              delivered = Delivered(Source("source", None), FALSE, FALSE)
         /\ Mutable(i) =>
              /\ Pinned(manifest[i].runtime)
              /\ delivered = Delivered(Source("source", check.selection.digest),
                                       RuntimeDigestChanged(i), FALSE)
<1> DEFINE ref == [host |-> "source", version |-> check.selection.version,
                   digest |-> None]
<1>1. /\ Source("source", None) = ref
      /\ Source("source", check.selection.digest) =
           [ref EXCEPT !.digest = check.selection.digest]
  BY DEF Source
<1>2. delivered \in IF ~Mutable(i) THEN {Delivered(ref, FALSE, FALSE)}
                    ELSE IF ~Pinned(manifest[i].runtime) THEN {}
                    ELSE {Delivered([ref EXCEPT !.digest = check.selection.digest],
                                    RuntimeDigestChanged(i), FALSE)}
  BY DEF DeliverDirect, SourceRef
<1> HIDE DEF ref
<1> QED BY <1>1, <1>2

LEMMA MirrorShape ==
  ASSUME NEW i, NEW delivered \in DeliverMirror(i), NEW migrates \in BOOLEAN,
         migrates <=> /\ config.image[i].migrate
                      /\ manifest[i].runtime.host # MirrorHost(i)
  PROVE  /\ ~Mutable(i) =>
              delivered = Delivered(Source(MirrorHost(i), None), FALSE, FALSE)
         /\ Mutable(i) =>
              /\ Pinned(manifest[i].runtime)
              /\ delivered =
                   Delivered(IF RuntimeDigestChanged(i) \/ migrates
                             THEN Source(MirrorHost(i), check.selection.digest)
                             ELSE manifest[i].runtime,
                             RuntimeDigestChanged(i), migrates)
<1> DEFINE ref == [host |-> MirrorHost(i), version |-> check.selection.version,
                   digest |-> None]
<1>1. /\ Source(MirrorHost(i), None) = ref
      /\ Source(MirrorHost(i), check.selection.digest) =
           [ref EXCEPT !.digest = check.selection.digest]
  BY DEF Source
<1>2. migrates = (/\ config.image[i].migrate
                  /\ manifest[i].runtime.host # MirrorHost(i))
  OBVIOUS
<1>3. delivered \in
        IF ~Mutable(i) THEN {Delivered(ref, FALSE, FALSE)}
        ELSE IF ~config.image[i].match \/ ~Pinned(manifest[i].runtime) THEN {}
        ELSE {Delivered(IF RuntimeDigestChanged(i) \/ migrates
                        THEN [ref EXCEPT !.digest = check.selection.digest]
                        ELSE manifest[i].runtime,
                        RuntimeDigestChanged(i), migrates)}
  BY <1>2, Zenon DEF DeliverMirror, SourceRef
<1> HIDE DEF ref
<1> QED BY <1>1, <1>3

\* A delivered reference has a tag's version and no digest, or one of its own.
LEMMA References ==
  ASSUME check.selection \in Selection
  PROVE  /\ \A h \in Host, d \in Digest \cup {None} : Source(h, d) \in RuntimeRef
         /\ \A d \in Digest : LazyCatRef(d) \in RuntimeRef
         /\ None \notin RuntimeRef /\ None \notin UpstreamRef
         /\ SourceRef \in UpstreamRef
         /\ [SourceRef EXCEPT !.digest = check.selection.digest] \in UpstreamRef
<1>1. check.selection.version \in Version /\ check.selection.digest \in Digest
  BY DEF Selection
<1>2. \A h \in Host, d \in Digest \cup {None} : Source(h, d) \in RuntimeRef
  BY <1>1 DEF Source, RuntimeRef
<1>3. \A d \in Digest : LazyCatRef(d) \in RuntimeRef
  BY DEF LazyCatRef, RuntimeRef, Host
<1>4. SourceRef \in UpstreamRef
      /\ [SourceRef EXCEPT !.digest = check.selection.digest] \in UpstreamRef
  BY <1>1 DEF SourceRef, UpstreamRef
<1> QED BY <1>2, <1>3, <1>4, NoReferenceIsNone

LEMMA DeliveryTypes ==
  ASSUME IInv, check.pc = "deliver", NEW delivered \in Deliveries(Current)
  PROVE  /\ delivered \in Result
         /\ CopiedDigest(Current) \in Digest
         /\ ManifestSourceRef(Current) \in UpstreamRef
<1> DEFINE i == Current
<1>1. /\ i \in Image /\ config.image[i] \in ImageConfig /\ manifest[i] \in Entry
      /\ check.selection \in Selection /\ upstream[i] \in Selection
      /\ delivered \in Deliveries(i)
  BY Delivering
<1>2. /\ check.selection.digest \in Digest /\ upstream[i].digest \in Digest
  BY <1>1 DEF Selection
<1> HIDE DEF i
<1>3. CopiedDigest(i) \in Digest
  BY <1>2 DEF CopiedDigest
<1>4. ManifestSourceRef(i) \in UpstreamRef
  BY <1>1, References DEF ManifestSourceRef
<1>5. /\ RuntimeDigestChanged(i) \in BOOLEAN /\ DeliveryChanged(i) \in BOOLEAN
      /\ BaselineDigestChanged(i, check.selection) \in BOOLEAN
      /\ \A r : IsLazyCat(r) \in BOOLEAN
      /\ MirrorHost(i) \in Host /\ "source" \in Host
      /\ config.image[i].migrate \in BOOLEAN
      /\ manifest[i].runtime \in RuntimeRef \cup {None}
  BY <1>1 DEF RuntimeDigestChanged, DeliveryChanged, BaselineDigestChanged,
              IsLazyCat, MirrorHost, Host, Entry, ImageConfig
<1>6. ASSUME NEW r \in RuntimeRef \cup {None}, NEW a \in BOOLEAN, NEW b \in BOOLEAN
      PROVE  Delivered(r, a, b) \in Result
  BY DEF Delivered, Result
<1>7. CASE config.image[i].mode = "direct"
  <2>1. delivered \in DeliverDirect(i)
    BY <1>1, <1>7 DEF Deliveries
  <2>2. \A d \in Digest \cup {None} : Source("source", d) \in RuntimeRef
    BY <1>1, <1>5, References
  <2> QED BY <2>1, <2>2, <1>2, <1>3, <1>4, <1>5, <1>6, DirectShape DEF i
<1>8. CASE config.image[i].mode = "mirror"
  <2>1. delivered \in DeliverMirror(i)
    BY <1>1, <1>8 DEF Deliveries
  <2>2. \A d \in Digest \cup {None} : Source(MirrorHost(i), d) \in RuntimeRef
    BY <1>1, <1>5, References
  <2> QED BY <2>1, <2>2, <1>2, <1>3, <1>4, <1>5, <1>6, MirrorShape DEF i
<1>9. CASE config.image[i].mode = "lazycat"
  <2>1. delivered \in DeliverLazyCat(i)
    BY <1>1, <1>9 DEF Deliveries
  <2>2. LazyCatRef(CopiedDigest(i)) \in RuntimeRef
    BY <1>1, <1>3, References
  <2> QED BY <2>1, <2>2, <1>3, <1>4, <1>5, <1>6 DEF DeliverLazyCat, i
<1> QED BY <1>1, <1>7, <1>8, <1>9 DEF ImageConfig, Mode

\* The delivery of a mutable image: what it gives is settled and truthful, an
\* image that was settled is not changed, and the content stays what it was if
\* no change of the digest is reported, but for a first copy to LazyCat.
LEMMA MutableDelivery ==
  ASSUME IInv, check.pc = "deliver", Mutable(Current), ~check.dry,
         NEW delivered \in Deliveries(Current), NEW e,
         e = NewEntry(Current, delivered)
  PROVE  /\ Settled(Current, e, check.selection)
         /\ Settled(Current, manifest[Current], check.selection) =>
              ~NeedsUpdate(Current, delivered)
         /\ IsLazyCat(e.runtime) => e.runtime.digest \in CopiesAfter(Current)
         /\ Pinned(e.upstream) => Content(e.runtime) = e.upstream.digest
         /\ \/ delivered.digestChanged \/ MigratesToLazyCat
            \/ Content(e.runtime) = Content(manifest[Current].runtime)
<1> DEFINE i == Current
           c == config.image[i]
           s == check.selection
           m == manifest[i]
<1>1. /\ i \in Image /\ c \in ImageConfig /\ m \in Entry /\ Truthful(m)
      /\ s \in Selection /\ Mutable(i) /\ delivered \in Deliveries(i)
      /\ i = config.source /\ m = committed.manifest[config.source]
      /\ m = manifest[i] /\ None \notin Digest
  BY Delivering DEF Mutable, IsSource
<1>2. /\ s.digest \in Digest /\ s.digest # None
      /\ \A h \in Host : Source(h, s.digest) # None
      /\ LazyCatRef(s.digest) # None /\ None \notin UpstreamRef
  BY <1>1, References DEF Selection
<1>3. ManifestSourceRef(i) \in UpstreamRef /\ ManifestSourceRef(i).digest = s.digest
      /\ ManifestSourceRef(i) # None /\ CopiedDigest(i) = s.digest
  BY <1>1, <1>2, References DEF ManifestSourceRef, CopiedDigest, SourceRef
<1>4. /\ NeedsUpdate(i, delivered) <=>
           (delivered.digestChanged \/ delivered.deliveryChanged)
      /\ NeedsUpdate(i, delivered) =>
           /\ e.upstream = ManifestSourceRef(i)
           /\ e.runtime = NewRuntime(i, delivered)
      /\ ~NeedsUpdate(i, delivered) => e = m
  BY <1>1 DEF NeedsUpdate, NewEntry
<1>5. /\ delivered.digestChanged \in BOOLEAN /\ delivered.deliveryChanged \in BOOLEAN
      /\ RuntimeDigestChanged(i) \in BOOLEAN
  BY DeliveryTypes DEF Result, RuntimeDigestChanged
<1>6. MirrorHost(i) \in Host /\ MirrorHost(i) # "lazycat" /\ "source" \in Host
  BY DEF MirrorHost, Host
<1>7. \A h \in Host : /\ Source(h, s.digest).host = h
                      /\ Source(h, s.digest).digest = s.digest
  BY DEF Source
<1>8. /\ LazyCatRef(s.digest).host = "lazycat"
      /\ LazyCatRef(s.digest).digest = s.digest
  BY DEF LazyCatRef
<1>9. RuntimeDigestChanged(i) <=> m.runtime.digest # s.digest
  BY DEF RuntimeDigestChanged
<1> HIDE DEF i, c, s, m
<1>10. CASE c.mode = "direct"
  <2>1. /\ Pinned(m.runtime)
        /\ delivered = Delivered(Source("source", s.digest),
                                 RuntimeDigestChanged(i), FALSE)
    BY <1>1, <1>10, DirectShape DEF Deliveries, c, s
  <2>1a. /\ delivered.runtime = Source("source", s.digest)
         /\ delivered.digestChanged = RuntimeDigestChanged(i)
         /\ delivered.deliveryChanged = FALSE
    BY <2>1 DEF Delivered
  <2>2. Settled(i, e, s) <=> (Pinned(e.runtime) /\ e.runtime.digest = s.digest)
    BY <1>1, <1>10 DEF Settled, c
  <2>3. CASE RuntimeDigestChanged(i)
    <3>1. NeedsUpdate(i, delivered) /\ e.runtime = Source("source", s.digest)
          /\ e.upstream.digest = s.digest /\ delivered.digestChanged
      BY <2>1a, <2>3, <1>2, <1>3, <1>4, <1>5, <1>6 DEF NewRuntime
    <3>2. ~Settled(i, m, s)
      BY <1>1, <1>9, <1>10, <2>3 DEF Settled, c
    <3> QED
      BY <3>1, <3>2, <2>2, <1>2, <1>6, <1>7
      DEF Pinned, IsLazyCat, Content, i, s, m
  <2>4. CASE ~RuntimeDigestChanged(i)
    <3>1. ~NeedsUpdate(i, delivered) /\ e = m
      BY <2>1a, <2>4, <1>4, <1>5
    <3> QED
      BY <3>1, <2>1, <2>2, <2>4, <1>1, <1>9
      DEF Truthful, CopiesAfter, i, s, m
  <2> QED BY <2>3, <2>4
<1>11. CASE c.mode = "mirror"
  <2> DEFINE migrates == c.migrate /\ m.runtime.host # MirrorHost(i)
  <2>0. migrates \in BOOLEAN /\ migrates <=> (/\ config.image[i].migrate
                                               /\ manifest[i].runtime.host # MirrorHost(i))
    BY <1>1 DEF ImageConfig, c, m
  <2>1. /\ Pinned(m.runtime)
        /\ delivered =
             Delivered(IF RuntimeDigestChanged(i) \/ migrates
                       THEN Source(MirrorHost(i), s.digest) ELSE m.runtime,
                       RuntimeDigestChanged(i), migrates)
    BY <1>1, <1>11, <2>0, MirrorShape DEF Deliveries, c, s, m
  <2>1a. /\ delivered.runtime = IF RuntimeDigestChanged(i) \/ migrates
                                THEN Source(MirrorHost(i), s.digest)
                                ELSE m.runtime
         /\ delivered.digestChanged = RuntimeDigestChanged(i)
         /\ delivered.deliveryChanged = migrates
    BY <2>1 DEF Delivered
  <2>2. \A x : Settled(i, x, s) <=>
          /\ Pinned(x.runtime) /\ x.runtime.digest = s.digest
          /\ c.migrate => x.runtime.host = MirrorHost(i)
    BY <1>1, <1>11 DEF Settled, c
  <2>3. CASE RuntimeDigestChanged(i) \/ migrates
    <3>1. /\ NeedsUpdate(i, delivered) /\ e.runtime = Source(MirrorHost(i), s.digest)
          /\ e.upstream.digest = s.digest
          /\ RuntimeDigestChanged(i) => delivered.digestChanged
      BY <2>0, <2>1a, <2>3, <1>2, <1>3, <1>4, <1>5, <1>6 DEF NewRuntime
    <3>2. ~Settled(i, m, s)
      BY <2>2, <1>9, <2>3
    <3>3. delivered.digestChanged \/ Content(e.runtime) = Content(m.runtime)
      BY <3>1, <2>1, <1>2, <1>6, <1>7, <1>9 DEF Content, Pinned
    <3> QED
      BY <3>1, <3>2, <3>3, <2>2, <1>2, <1>6, <1>7
      DEF Pinned, IsLazyCat, Content, i, s, m
  <2>4. CASE ~(RuntimeDigestChanged(i) \/ migrates)
    <3>1. ~NeedsUpdate(i, delivered) /\ e = m
      BY <2>1a, <2>4, <1>4, <1>5
    <3> QED
      BY <3>1, <2>1, <2>2, <2>4, <1>1, <1>9
      DEF Truthful, CopiesAfter, i, s, m
  <2> QED BY <2>3, <2>4
<1>12. CASE c.mode = "lazycat"
  <2>1. delivered \in DeliverLazyCat(i)
    BY <1>1, <1>12 DEF Deliveries, c
  <2>2. \A x : Settled(i, x, s) <=>
          /\ Pinned(x.upstream) /\ x.upstream.digest = s.digest
          /\ IsLazyCat(x.runtime)
    BY <1>1, <1>12 DEF Settled, c
  <2>3. Copies(i) <=> (BaselineKnown(i) => DeliveryChanged(i))
    BY <1>1, <1>12 DEF Copies, c
  <2>4. /\ BaselineKnown(i) <=> Pinned(m.upstream)
        /\ BaselineDigestChanged(i, check.selection) <=> m.upstream.digest # s.digest
        /\ DeliveryChanged(i) <=>
             (m.upstream.digest # s.digest \/ ~IsLazyCat(m.runtime))
    BY DEF BaselineKnown, BaselineDigestChanged, DeliveryChanged, s, m
  <2>5. CASE Copies(i)
    <3>0. delivered =
            IF BaselineKnown(i)
            THEN Delivered(LazyCatRef(s.digest),
                           BaselineDigestChanged(i, check.selection),
                           DeliveryChanged(i))
            ELSE Delivered(LazyCatRef(s.digest),
                           IsLazyCat(m.runtime) /\ m.runtime # LazyCatRef(s.digest),
                           TRUE)
      BY <2>1, <2>5, <1>1, <1>3, Zenon DEF DeliverLazyCat, m
    <3>1. /\ delivered.runtime = LazyCatRef(s.digest) /\ delivered.deliveryChanged
          /\ \/ delivered.digestChanged
             \/ BaselineKnown(i) /\ m.upstream.digest = s.digest
             \/ ~BaselineKnown(i) /\ ~IsLazyCat(m.runtime)
             \/ m.runtime = LazyCatRef(s.digest)
      BY <3>0, <2>3, <2>4, <2>5, <1>5 DEF Delivered, BaselineDigestChanged, DeliveryChanged
    <3>2. /\ NeedsUpdate(i, delivered) /\ e.runtime = LazyCatRef(s.digest)
          /\ e.upstream = ManifestSourceRef(i) /\ e.upstream.digest = s.digest
      BY <3>1, <1>2, <1>3, <1>4 DEF NewRuntime
    <3>3. Settled(i, e, s) /\ ~Settled(i, m, s)
      BY <3>2, <2>2, <2>3, <2>4, <2>5, <1>2, <1>3, <1>8 DEF Pinned, IsLazyCat
    <3>4. CopiesAfter(i) = copies \cup {s.digest} /\ Content(e.runtime) = s.digest
      BY <3>2, <2>5, <1>2, <1>3, <1>8 DEF CopiesAfter, Content
    <3>5. \/ delivered.digestChanged \/ MigratesToLazyCat
          \/ Content(e.runtime) = Content(m.runtime)
      BY <3>1, <3>2, <3>4, <2>4, <1>1, <1>12
      DEF Truthful, MigratesToLazyCat, c, i
    <3> QED BY <3>2, <3>3, <3>4, <3>5, <1>8 DEF i, s, m
  <2>6. CASE ~Copies(i)
    <3>1. /\ Pinned(m.upstream) /\ m.upstream.digest = s.digest
          /\ IsLazyCat(m.runtime)
      BY <2>3, <2>4, <2>6
    <3>1a. delivered = Delivered(m.runtime, BaselineDigestChanged(i, check.selection),
                                 DeliveryChanged(i))
      BY <2>1, <2>4, <2>6, <3>1, <1>1, Zenon DEF DeliverLazyCat, m
    <3>2. ~delivered.digestChanged /\ ~delivered.deliveryChanged
      BY <3>1a, <3>1, <2>4, <1>5 DEF Delivered, BaselineDigestChanged, DeliveryChanged
    <3>3. ~NeedsUpdate(i, delivered) /\ e = m
      BY <3>2, <1>4
    <3> QED
      BY <3>1, <3>3, <2>2, <2>6, <1>1 DEF Truthful, CopiesAfter, i, s, m
  <2> QED BY <2>5, <2>6
<1> QED BY <1>1, <1>10, <1>11, <1>12 DEF ImageConfig, Mode

\* The delivery of any other image, likewise, if the tag was not moved after its
\* selection; the manifest names the version that was selected.
LEMMA PlainDelivery ==
  ASSUME IInv, check.pc = "deliver", ~Mutable(Current), ~check.dry,
         NEW delivered \in Deliveries(Current), NEW e,
         e = NewEntry(Current, delivered)
  PROVE  /\ check.selection = upstream[Current] =>
              /\ Settled(Current, e, check.selection)
              /\ Settled(Current, manifest[Current], check.selection) =>
                   ~NeedsUpdate(Current, delivered)
         /\ IsLazyCat(e.runtime) => e.runtime.digest \in CopiesAfter(Current)
         /\ e.upstream = SourceRef
<1> DEFINE i == Current
           c == config.image[i]
           s == check.selection
           m == manifest[i]
<1>1. /\ i \in Image /\ c \in ImageConfig /\ m \in Entry /\ Truthful(m)
      /\ s \in Selection /\ ~Mutable(i) /\ delivered \in Deliveries(i)
      /\ upstream[i] \in Selection /\ m = manifest[i]
  BY Delivering
<1>2. CopiedDigest(i) = upstream[i].digest /\ CopiedDigest(i) \in Digest
      /\ ManifestSourceRef(i) = SourceRef
  BY <1>1 DEF CopiedDigest, ManifestSourceRef, Selection
<1>3. \A h \in Host : Source(h, None) # None /\ LazyCatRef(CopiedDigest(i)) # None
  BY <1>1, <1>2, References
<1>4. /\ NeedsUpdate(i, delivered) <=>
           (m.upstream # SourceRef \/ m.runtime # delivered.runtime)
      /\ delivered.runtime # None =>
           e.upstream = SourceRef /\ e.runtime = delivered.runtime
      /\ ~NeedsUpdate(i, delivered) => e = m
  BY <1>1, <1>2 DEF NeedsUpdate, NewEntry, NewRuntime
<1>5. MirrorHost(i) \in Host /\ MirrorHost(i) # "lazycat" /\ "source" \in Host
  BY DEF MirrorHost, Host
<1>6. \A h \in Host : Source(h, None).host = h
  BY DEF Source
<1>7. \A h : Source(h, None) = [host |-> h, version |-> s.version, digest |-> None]
      /\ SourceRef = [version |-> s.version, digest |-> None]
  BY DEF Source, SourceRef
<1> HIDE DEF i, c, s, m
<1>8. CASE c.mode = "direct"
  <2>1. delivered = Delivered(Source("source", None), FALSE, FALSE)
    BY <1>1, <1>8, DirectShape DEF Deliveries, c
  <2>2. delivered.runtime = Source("source", None)
    BY <2>1 DEF Delivered
  <2>3. e.runtime = Source("source", None) /\ e.upstream = SourceRef
    BY <2>2, <1>3, <1>4, <1>5
  <2>4. \A x : Settled(i, x, s) <=>
          x.upstream = SourceRef /\ x.runtime = Source("source", None)
    BY <1>1, <1>7, <1>8 DEF Settled, c
  <2> QED BY <2>2, <2>3, <2>4, <1>4, <1>5, <1>6 DEF IsLazyCat, i, s, m
<1>9. CASE c.mode = "mirror"
  <2> DEFINE migrates == c.migrate /\ m.runtime.host # MirrorHost(i)
  <2>1. migrates \in BOOLEAN /\ migrates <=>
          (/\ config.image[i].migrate /\ manifest[i].runtime.host # MirrorHost(i))
    BY <1>1 DEF ImageConfig, c, m
  <2>2. delivered = Delivered(Source(MirrorHost(i), None), FALSE, FALSE)
    BY <1>1, <1>9, <2>1, MirrorShape DEF Deliveries, c
  <2>3. delivered.runtime = Source(MirrorHost(i), None)
    BY <2>2 DEF Delivered
  <2>4. e.runtime = Source(MirrorHost(i), None) /\ e.upstream = SourceRef
    BY <2>3, <1>3, <1>4, <1>5
  <2>5. \A x : Settled(i, x, s) <=>
          x.upstream = SourceRef /\ x.runtime = Source(MirrorHost(i), None)
    BY <1>1, <1>7, <1>9 DEF Settled, c
  <2> QED BY <2>3, <2>4, <2>5, <1>4, <1>5, <1>6 DEF IsLazyCat, i, s, m
<1>10. CASE c.mode = "lazycat"
  <2>1. delivered \in DeliverLazyCat(i)
    BY <1>1, <1>10 DEF Deliveries, c
  <2>2. /\ Copies(i) <=> ShouldDeliver(i)
        /\ ShouldDeliver(i) <=> \/ m.upstream # SourceRef \/ ~IsLazyCat(m.runtime)
                                \/ c.byTime
    BY <1>1, <1>10 DEF Copies, ShouldDeliver, c, m
  <2>3. delivered = Delivered(IF Copies(i) THEN LazyCatRef(CopiedDigest(i))
                              ELSE m.runtime, FALSE, FALSE)
    BY <2>1, <2>2, <1>1, Zenon DEF DeliverLazyCat, m
  <2>4. delivered.runtime = IF Copies(i) THEN LazyCatRef(CopiedDigest(i))
                            ELSE m.runtime
    BY <2>3 DEF Delivered
  <2>5. \A x : Settled(i, x, s) <=>
          /\ x.upstream = SourceRef /\ IsLazyCat(x.runtime)
          /\ c.byTime => x.runtime = LazyCatRef(s.digest)
    BY <1>1, <1>7, <1>10 DEF Settled, c
  <2>6. LazyCatRef(CopiedDigest(i)).digest = CopiedDigest(i)
        /\ LazyCatRef(CopiedDigest(i)).host = "lazycat"
    BY DEF LazyCatRef
  <2>7. CASE Copies(i)
    <3>1. /\ e.runtime = LazyCatRef(CopiedDigest(i)) /\ e.upstream = SourceRef
          /\ CopiesAfter(i) = copies \cup {CopiedDigest(i)}
          /\ IsLazyCat(e.runtime)
      BY <2>4, <2>6, <2>7, <1>3, <1>4, <1>5 DEF CopiesAfter, IsLazyCat
    <3>2. s = upstream[i] => Settled(i, e, s)
      BY <3>1, <2>5, <1>2
    <3>3. s = upstream[i] /\ Settled(i, m, s) => ~NeedsUpdate(i, delivered)
      BY <2>2, <2>4, <2>5, <2>7, <1>2, <1>4
    <3> QED BY <3>1, <3>2, <3>3, <2>6 DEF i, s, m
  <2>8. CASE ~Copies(i)
    <3>1. ~NeedsUpdate(i, delivered) /\ e = m /\ m.upstream = SourceRef
          /\ IsLazyCat(m.runtime) /\ ~c.byTime /\ CopiesAfter(i) = copies
      BY <2>2, <2>4, <2>8, <1>4 DEF CopiesAfter
    <3> QED BY <3>1, <2>5, <1>1 DEF Truthful, i, s, m
  <2> QED BY <2>7, <2>8
<1> QED BY <1>1, <1>8, <1>9, <1>10 DEF ImageConfig, Mode

\* The version of the source: the planned one if the digest changed as planned,
\* kept only with its content, and the selected one if tags are versions.
LEMMA SourceVersion ==
  ASSUME IInv, check.pc = "deliver", IsSource(Current),
         NEW delivered \in Deliveries(Current), NEW e,
         e = NewEntry(Current, delivered), NEW version,
         version = SelectedVersion(Current, delivered)
  PROVE  /\ version \in Version
         /\ check.review # 0
            /\ ~(Mutable(Current) /\ delivered.digestChanged # check.planned) =>
              version = check.candidate
         /\ ~check.dry =>
              IF config.mutable
              THEN /\ version \in {ProjectVersion, BumpPatch}
                   /\ version = ProjectVersion =>
                        \/ MigratesToLazyCat
                        \/ contents[ProjectVersion] = Content(e.runtime)
              ELSE /\ config.downgrade \/ version >= ProjectVersion
                   /\ version = e.upstream.version
<1>1. /\ Current = config.source /\ (Mutable(Current) <=> config.mutable)
      /\ check.selection.version \in Version /\ delivered \in Result
      /\ manifest = committed.manifest
  BY Delivering, DeliveryTypes DEF IsSource, Mutable, Selection
<1>2. ProjectVersion \in Version /\ ProjectVersion \in Nat
  BY Types, Versions DEF ProjectVersion, IInv
<1>3. /\ delivered.digestChanged \in BOOLEAN
      /\ config.mutable => BumpPatch \in Version /\ BumpPatch # ProjectVersion
  BY <1>1, <1>2, Versions DEF BumpPatch, IInv, WorkFacts, Result
<1>4. version = IF ~config.mutable THEN check.selection.version
                ELSE IF delivered.digestChanged THEN BumpPatch ELSE ProjectVersion
  BY DEF SelectedVersion
<1>5. version \in Version
  BY <1>1, <1>2, <1>3, <1>4
<1>6. check.review # 0
      /\ ~(Mutable(Current) /\ delivered.digestChanged # check.planned) =>
        version = check.candidate
  <2>1. check.review # 0 =>
          /\ check.candidate = PlannedVersion(Current, check.selection)
          /\ check.planned =
               (config.mutable /\ PlannedDigestChanged(Current, check.selection))
    BY DEF IInv, ReviewFacts
  <2> QED BY <2>1, <1>1, <1>3, <1>4 DEF PlannedVersion
<1>7. ASSUME ~check.dry, config.mutable
      PROVE  /\ version \in {ProjectVersion, BumpPatch}
             /\ version = ProjectVersion =>
                  MigratesToLazyCat \/ contents[ProjectVersion] = Content(e.runtime)
  <2>1. delivered.digestChanged \/ MigratesToLazyCat
        \/ Content(e.runtime) = Content(manifest[Current].runtime)
    BY <1>1, <1>7, MutableDelivery
  <2>2. contents[ProjectVersion] = Content(manifest[Current].runtime)
    BY <1>1 DEF IInv, VersionFacts, ProjectVersion
  <2> QED BY <2>1, <2>2, <1>3, <1>4, <1>7
<1>8. ASSUME ~check.dry, ~config.mutable
      PROVE  /\ config.downgrade \/ version >= ProjectVersion
             /\ version = e.upstream.version
  <2>1. e.upstream = SourceRef
    BY <1>1, <1>8, PlainDelivery
  <2> QED BY <2>1, <1>4, <1>8 DEF SourceRef, IInv, VersionFacts
<1> QED BY <1>5, <1>6, <1>7, <1>8

\* A delivery that fails, the copy made or not.
LEMMA DeliveryFails ==
  ASSUME IInv, check.pc = "deliver", NEW copied \in BOOLEAN,
         check' = [check EXCEPT !.pc = "failed", !.outcome = "error",
                                !.copied = copied],
         copies' = CopiesAfter(Current),
         UNCHANGED <<config, manifest, committed, upstream, moves, checks,
                     historyVars>>
  PROVE  IInv'
<1>1. /\ CopiedDigest(Current) \in Digest
      /\ check.at > 0 /\ TypeOK /\ "error" \in Outcome
  BY Delivering DEF IInv, Outcome, CopiedDigest, Selection
<1>2. copies \subseteq copies' /\ copies' \subseteq Digest
  BY <1>1 DEF CopiesAfter, TypeOK
<1>3. /\ check' \in CheckState /\ check'.pc = "failed"
      /\ check'.order = check.order /\ check'.at = check.at
      /\ check'.review = check.review /\ check'.candidate = check.candidate
      /\ check'.moved = check.moved
  BY <1>1, FailsShape
<1> QED BY <1>1, <1>2, <1>3, FailKeeps

\* What recording a delivery leaves of a check.
Recorded(edited, version) ==
  /\ check' \in CheckState /\ check'.pc = "select"
  /\ check'.order = check.order /\ check'.at = check.at
  /\ check'.review = check.review /\ check'.dry = check.dry
  /\ check'.selection = check.selection /\ check'.planned = check.planned
  /\ check'.candidate = check.candidate /\ check'.moved = check.moved
  /\ check'.edited = edited /\ check'.version = version

LEMMA RecordShape ==
  ASSUME TypeOK, NEW copied \in BOOLEAN, NEW changed \in BOOLEAN,
         NEW edited \in [Image -> Entry], NEW version \in Version,
         check' = [check EXCEPT !.pc = "select", !.copied = copied,
                                !.changed = changed, !.edited = edited,
                                !.version = version]
  PROVE  Recorded(edited, version) /\ check'.changed = changed
<1>1. check \in CheckState /\ "select" \in CheckPC
  BY DEF TypeOK, CheckPC
<1>2. edited \in [Image -> Entry] \cup {None} /\ version \in Version \cup {0}
  OBVIOUS
<1>3. check' \in CheckState
  BY <1>1, <1>2 DEF CheckState
<1>4. /\ check'.pc = "select" /\ check'.changed = changed
      /\ check'.order = check.order /\ check'.at = check.at
      /\ check'.review = check.review /\ check'.dry = check.dry
      /\ check'.selection = check.selection /\ check'.planned = check.planned
      /\ check'.candidate = check.candidate /\ check'.moved = check.moved
      /\ check'.edited = edited /\ check'.version = version
  BY <1>1 DEF CheckState
<1> QED BY <1>3, <1>4 DEF Recorded

\* A delivery that is recorded.
LEMMA DeliveryRecorded ==
  ASSUME IInv, check.pc = "deliver",
         NEW delivered \in Deliveries(Current),
         NEW e \in Entry, e = NewEntry(Current, delivered),
         NEW edited, edited = IF NeedsUpdate(Current, delivered) /\ ~check.dry
                              THEN [check.edited EXCEPT ![Current] = e]
                              ELSE check.edited,
         NEW version, version = IF IsSource(Current)
                                THEN SelectedVersion(Current, delivered)
                                ELSE check.version,
         ~(check.review # 0 /\ Mutable(Current)
           /\ delivered.digestChanged # check.planned),
         edited \in [Image -> Entry] /\ version \in Version => Recorded(edited, version),
         check'.changed => check.changed \/ NeedsUpdate(Current, delivered),
         copies' = CopiesAfter(Current),
         UNCHANGED <<config, manifest, committed, upstream, moves, checks,
                     fresh, contents>>
  PROVE  IInv'
<1> DEFINE i == Current
<1>1. /\ i \in Image /\ i \in Checked /\ manifest = committed.manifest
      /\ check.at \in DOMAIN check.order /\ check.at > 0 /\ TypeOK
      /\ CopiedDigest(i) \in Digest
      /\ i = check.order[check.at]
      /\ config.source \in Image
  BY Delivering, DeliveryTypes, Types DEF IInv, Current
<1>2. copies \subseteq copies' /\ copies' \subseteq Digest
  BY <1>1 DEF CopiesAfter, TypeOK
<1>3. /\ check.edited \in [Image -> Entry] /\ check.version \in Version
      /\ check.dry => check.edited = committed.manifest
      /\ \A k \in Image : ~Done(k) => check.edited[k] = committed.manifest[k]
      /\ check.pc \in Going
  BY DEF IInv, WorkFacts, Going
<1>4. ~Done(i)
  <2>1. \A n \in DOMAIN check.order : check.order[n] = i => n = check.at
    BY <1>1 DEF TypeOK, IsInjective
  <2> QED BY <2>1 DEF Done
<1>5. /\ edited \in [Image -> Entry]
      /\ \A k \in Image : k # i => edited[k] = check.edited[k]
      /\ ~check.dry => edited[i] = e
      /\ check.dry => edited = committed.manifest
  BY <1>1, <1>3, <1>4 DEF NewEntry
<1>6. version \in Version
  BY <1>3, SourceVersion
<1>7. /\ check' \in CheckState /\ check'.pc = "select" /\ check'.order = check.order
      /\ check'.at = check.at /\ check'.review = check.review
      /\ check'.dry = check.dry /\ check'.candidate = check.candidate
      /\ check'.moved = check.moved
      /\ check'.edited = edited /\ check'.version = version
  BY <1>5, <1>6 DEF Recorded
<1>8. Checked' = Checked
  BY <1>7 DEF Checked, Embedded
<1>9. \A k \in Image : Done(k)' <=> (Done(k) \/ k = i)
  <2>1. \A n \in DOMAIN check.order : check.order[n] = i => n = check.at
    BY <1>1 DEF TypeOK, IsInjective
  <2>2. check.at \in Nat
    BY <1>1 DEF TypeOK, CheckState
  <2> QED BY <1>1, <1>7, <1>8, <2>1, <2>2 DEF Done
<1> HIDE DEF i
<1>10. TypeOK'
  BY <1>1, <1>2, <1>7 DEF TypeOK
<1>11. WorkFacts'
  BY <1>1, <1>3, <1>5, <1>6, <1>7, <1>9 DEF WorkFacts, Going
<1>12. ReviewFacts'
  <2>1. check.review # 0 =>
          /\ 1 \in DOMAIN check.order /\ check.order[1] = config.source
          /\ config.source \in Checked /\ check.candidate > check.review
    BY <1>1, <1>3 DEF IInv, ReviewFacts
  <2>2. check.review # 0 /\ config.source = i => version = check.candidate
    BY SourceVersion DEF IsSource, i
  <2>3. check.review # 0 /\ config.source # i /\ Done(config.source) =>
          version = check.candidate
    BY <1>3 DEF IInv, ReviewFacts, IsSource, i
  <2> QED BY <1>1, <1>7, <1>8, <1>9, <2>1, <2>2, <2>3 DEF ReviewFacts, Going
<1>13. ContentFacts'
  <2>1. ~check.dry => /\ IsLazyCat(e.runtime) => e.runtime.digest \in copies'
                      /\ Pinned(e.upstream) => Content(e.runtime) = e.upstream.digest
    <3>1. CASE Mutable(i)
      BY <3>1, MutableDelivery DEF i
    <3>2. CASE ~Mutable(i)
      BY <3>2, PlainDelivery DEF i, Pinned, SourceRef
    <3> QED BY <3>1, <3>2
  <2>3. \A k \in Image : Truthful(manifest[k])' /\ Truthful(committed.manifest[k])'
    BY <1>2 DEF IInv, ContentFacts, Truthful
  <2>4. \A k \in Image : Truthful(check.edited[k])
    BY <1>3 DEF IInv, ContentFacts
  <2>5. \A k \in Image : Truthful(edited[k])'
    BY <1>2, <1>5, <2>1, <2>3, <2>4 DEF Truthful
  <2> QED BY <1>7, <2>3, <2>5 DEF ContentFacts, Truthful
<1>14. SettledFacts'
  <2>2. i \notin check.moved => check.selection = upstream[i]
    BY DEF IInv, WorkFacts, i
  <2>3. ~check.dry /\ i \notin check.moved =>
          /\ Settled(i, e, upstream[i])
          /\ Settled(i, manifest[i], upstream[i]) =>
               ~NeedsUpdate(i, delivered)
    <3>1. CASE Mutable(i)
      BY <2>2, <3>1, MutableDelivery DEF i
    <3>2. CASE ~Mutable(i)
      BY <2>2, <3>2, PlainDelivery DEF i
    <3> QED BY <3>1, <3>2
  <2>4. /\ check.moved \subseteq fresh
        /\ \A k \in Image \ fresh : Settled(k, committed.manifest[k], upstream[k])
        /\ ~check.dry =>
             /\ \A k \in Image : Done(k) /\ k \notin check.moved =>
                  Settled(k, check.edited[k], upstream[k])
             /\ check.changed => Checked \cap fresh # {}
    BY <1>3 DEF IInv, SettledFacts
  <2>5. ~check.dry /\ check'.changed => Checked \cap fresh # {}
    BY <1>1, <2>3, <2>4 DEF i
  <2>6. ~check.dry =>
          \A k \in Image : (Done(k) \/ k = i) /\ k \notin check.moved =>
            Settled(k, edited[k], upstream[k])
    BY <1>5, <2>3, <2>4
  <2>7. \A k \in Image : Settled(k, edited[k], upstream[k])' <=>
                         Settled(k, edited[k], upstream[k])
    BY DEF Settled, Mutable, IsSource, MirrorHost, LazyCatRef
  <2>8. \A k \in Image : Settled(k, committed.manifest[k], upstream[k])' <=>
                         Settled(k, committed.manifest[k], upstream[k])
    BY DEF Settled, Mutable, IsSource, MirrorHost, LazyCatRef
  <2> QED BY <1>7, <1>8, <1>9, <2>4, <2>5, <2>6, <2>7, <2>8 DEF SettledFacts
<1>15. VersionFacts'
  <2>1. /\ contents[committed.version] =
             Content(committed.manifest[config.source].runtime)
        /\ config.mutable =>
             \A v \in Version : v > committed.version => contents[v] = None
    BY DEF IInv, VersionFacts
  <2>2. ~Done(config.source)' => version = ProjectVersion
    <3>1. ~Done(config.source)' => ~Done(config.source) /\ config.source # i
      BY <1>1, <1>9
    <3> QED BY <1>3, <3>1 DEF IInv, VersionFacts, IsSource, i
  <2>3. ~check.dry =>
          IF config.mutable
          THEN /\ version \in {ProjectVersion, BumpPatch}
               /\ version = ProjectVersion =>
                    \/ MigratesToLazyCat
                    \/ contents[ProjectVersion] \in
                         {None, Content(edited[config.source].runtime)}
          ELSE /\ config.downgrade \/ version >= ProjectVersion
               /\ Done(config.source) \/ config.source = i =>
                    version = edited[config.source].upstream.version
    <3>1. CASE config.source = i
      BY <1>5, <3>1, SourceVersion DEF IsSource, i
    <3>2. CASE config.source # i
      BY <1>1, <1>3, <1>5, <3>2 DEF IInv, VersionFacts, IsSource, i
    <3> QED BY <3>1, <3>2
  <2>4. /\ ProjectVersion' = ProjectVersion /\ BumpPatch' = BumpPatch
        /\ MigratesToLazyCat' <=> MigratesToLazyCat
        /\ Content(check.edited[config.source].runtime)' =
             Content(edited[config.source].runtime)
    BY <1>7 DEF ProjectVersion, BumpPatch, MigratesToLazyCat, Content
  <2>5. Done(config.source)' <=> (Done(config.source) \/ config.source = i)
    BY <1>1, <1>9
  <2>6. contents'[committed'.version] =
          Content(committed.manifest[config.source].runtime)'
    BY <2>1 DEF Content
  <2> QED BY <1>7, <2>1, <2>2, <2>3, <2>4, <2>5, <2>6 DEF VersionFacts
<1> QED BY <1>10, <1>11, <1>12, <1>13, <1>14, <1>15 DEF IInv

LEMMA DeliverStep ==
  ASSUME IInv, Deliver
  PROVE  IInv'
<1> DEFINE i == Current
<1>1. /\ check.pc = "deliver" /\ TypeOK
      /\ UNCHANGED <<config, manifest, committed, upstream, moves, checks,
                     historyVars>>
      /\ UNCHANGED <<fresh, contents>>
      /\ Copies(i) \in BOOLEAN /\ check.copied \in BOOLEAN
      /\ check.changed \in BOOLEAN
  BY DEF Deliver, IInv, TypeOK, CheckState, historyVars, Copies
<1>2. CASE Fails("error") /\ UNCHANGED copies
  <2>1. "error" \in Outcome
    BY DEF Outcome
  <2> QED BY <1>1, <1>2, <2>1, PlainFailKeeps
<1>3. CASE /\ Copies(i) /\ copies' = CopiesAfter(i)
           /\ check' = [check EXCEPT !.pc = "failed", !.outcome = "error",
                                     !.copied = TRUE]
  BY <1>1, <1>3, DeliveryFails
<1>4. ASSUME NEW delivered \in Deliveries(i), Record(i, delivered),
             copies' = CopiesAfter(i)
      PROVE  IInv'
  <2> DEFINE update == NeedsUpdate(i, delivered)
             runtime == NewRuntime(i, delivered)
             e == NewEntry(i, delivered)
             copied == check.copied \/ Copies(i)
             changed == check.changed \/ update
             edited == IF update /\ ~check.dry
                       THEN [check.edited EXCEPT ![i] = e] ELSE check.edited
             version == IF IsSource(i) THEN SelectedVersion(i, delivered)
                        ELSE check.version
             bad == /\ check.review # 0 /\ Mutable(i)
                    /\ delivered.digestChanged # check.planned
             lost == update /\ ~check.dry /\ runtime = None
  <2>1. /\ delivered \in Result /\ ManifestSourceRef(i) \in UpstreamRef
        /\ manifest[i] \in Entry
    BY <1>1, <1>4, Delivering, DeliveryTypes
  <2>2. update \in BOOLEAN /\ copied \in BOOLEAN /\ changed \in BOOLEAN
    BY <1>1, <2>1 DEF NeedsUpdate, ShouldDeliver, Result
  <2>3. CASE bad \/ lost
    <3>1. check' = [check EXCEPT !.pc = "failed", !.outcome = "error",
                                 !.copied = check.copied \/ Copies(i)]
      BY <1>4, <2>3 DEF Record, NewRuntime
    <3> QED BY <1>1, <1>4, <2>2, <3>1, DeliveryFails
  <2>4. CASE ~(bad \/ lost)
    <3>1. check' = [check EXCEPT !.pc = "select", !.copied = copied,
                                 !.changed = changed, !.edited = edited,
                                 !.version = version]
      <4>1. /\ update => e = [upstream |-> ManifestSourceRef(i), runtime |-> runtime]
            /\ runtime = IF delivered.runtime = None THEN manifest[i].runtime
                         ELSE delivered.runtime
        BY DEF NewEntry, NewRuntime
      <4>2. edited = IF update /\ ~check.dry
                     THEN [check.edited EXCEPT ![i] =
                             [upstream |-> ManifestSourceRef(i),
                              runtime |-> runtime]]
                     ELSE check.edited
        BY <4>1
      <4> HIDE DEF e, runtime, edited
      <4> QED BY <1>4, <2>4, <4>1, <4>2, Zenon DEF Record
    <3>2. e \in Entry
      <4>1. runtime \in RuntimeRef \cup {None}
        BY <2>1 DEF NewRuntime, Result, Entry
      <4> QED BY <2>1, <4>1 DEF NewEntry, Entry
    <3>3. /\ e = NewEntry(Current, delivered)
          /\ edited = IF NeedsUpdate(Current, delivered) /\ ~check.dry
                      THEN [check.edited EXCEPT ![Current] = e]
                      ELSE check.edited
          /\ version = IF IsSource(Current)
                       THEN SelectedVersion(Current, delivered)
                       ELSE check.version
          /\ ~(check.review # 0 /\ Mutable(Current)
               /\ delivered.digestChanged # check.planned)
          /\ copies' = CopiesAfter(Current)
          /\ delivered \in Deliveries(Current)
      BY <1>4, <2>4
    <3>4. changed => check.changed \/ NeedsUpdate(Current, delivered)
      OBVIOUS
    <3> HIDE DEF i, update, runtime, e, copied, changed, edited, version, bad, lost
    <3>5. edited \in [Image -> Entry] /\ version \in Version =>
            Recorded(edited, version) /\ check'.changed = changed
      BY <1>1, <2>2, <3>1, RecordShape
    <3>6. check'.changed = changed
      BY <1>1, <3>1 DEF TypeOK, CheckState
    <3> QED BY <1>1, <3>2, <3>3, <3>4, <3>5, <3>6, DeliveryRecorded
  <2> QED BY <2>3, <2>4
<1> QED BY <1>1, <1>2, <1>3, <1>4 DEF Deliver, CopiesAfter

-----------------------------------------------------------------------------
(* Theorems                                                                 *)

LEMMA StutterKeeps ==
  ASSUME IInv, UNCHANGED vars
  PROVE  IInv'
<1>1. UNCHANGED <<config, manifest, committed, upstream, copies, check, moves,
                  checks, fresh, contents>>
  BY DEF vars, historyVars
<1>2. TypeOK'
  BY <1>1 DEF IInv, TypeOK
<1>3. /\ Checked' = Checked /\ Pending' = Pending /\ Current' = Current
      /\ \A k \in Image : Done(k)' <=> Done(k)
  BY <1>1 DEF Checked, Pending, Current, Done, Embedded
<1>4. WorkFacts'
  BY <1>1, <1>3 DEF IInv, WorkFacts, Mutable, IsSource, ProjectVersion
<1>5. ReviewFacts'
  <2>1. config.source \in Image
    BY Types DEF IInv
  <2> QED BY <1>1, <1>3, <2>1
          DEF IInv, ReviewFacts, IsSource, PlannedVersion, PlannedDigestChanged,
              BaselineKnown, BaselineDigestChanged, Mutable, BumpPatch,
              ProjectVersion
<1>6. ContentFacts'
  BY <1>1 DEF IInv, ContentFacts, Truthful
<1>7. SettledFacts'
  BY <1>1, <1>3
  DEF IInv, SettledFacts, Settled, Mutable, IsSource, MirrorHost, LazyCatRef
<1>8. VersionFacts'
  <2>1. config.source \in Image
    BY Types DEF IInv
  <2> QED BY <1>1, <1>3, <2>1
          DEF IInv, VersionFacts, IsSource, ProjectVersion, BumpPatch,
              MigratesToLazyCat
<1> QED BY <1>2, <1>4, <1>5, <1>6, <1>7, <1>8 DEF IInv

\* The inductive invariant, of all steps of checks, deliveries and upstream.
THEOREM InductiveInvariant == Spec => []IInv
<1>1. Init => IInv
  BY InitEstablishes
<1>2. IInv /\ [Next]_vars => IInv'
  <2> SUFFICES ASSUME IInv, [Next]_vars PROVE IInv'
    OBVIOUS
  <2>1. CASE UpstreamMoves
    BY <2>1, UpstreamMovesStep
  <2>2. CASE StartCheck
    BY <2>2, StartCheckStep
  <2>3. CASE SelectImage
    BY <2>3, SelectImageStep
  <2>4. CASE Deliver
    BY <2>4, DeliverStep
  <2>5. CASE ApplyManifest
    BY <2>5, ApplyManifestStep
  <2>6. CASE Commit
    BY <2>6, CommitStep
  <2>7. CASE Discard
    BY <2>7, DiscardStep
  <2>8. CASE UNCHANGED vars
    BY <2>8, StutterKeeps
  <2> QED BY <2>1, <2>2, <2>3, <2>4, <2>5, <2>6, <2>7, <2>8 DEF Next
<1> QED BY <1>1, <1>2, PTL DEF Spec

\* Variables keep their types, and no image is checked twice in a check: the
\* order is one of the images without repetition (prioritizeImage).
THEOREM TypeCorrect == Spec => []TypeOK
<1>1. IInv => TypeOK
  BY DEF IInv
<1> QED BY <1>1, InductiveInvariant, PTL

\* While a review waits, nothing is copied or edited before the candidate turned
\* out newer, and the version that results is the one compared (flow.go).
THEOREM ReviewsGateDeliveries == Spec => []ReviewGateBeforeDelivery
<1>1. IInv => ReviewGateBeforeDelivery
  <2> SUFFICES ASSUME IInv, check.review # 0 PROVE ReviewGateBeforeDelivery
    BY DEF ReviewGateBeforeDelivery
  <2>1. ASSUME check.pc = "applied" PROVE check.version = check.candidate
    <3>1. Pending = {} /\ config.source \in Checked /\ 1 \in DOMAIN check.order
          /\ check.order[1] = config.source /\ check.at \in Nat
      BY <2>1, Types DEF IInv, WorkFacts, ReviewFacts, Going
    <3>2. Done(config.source)
      BY <2>1, <3>1 DEF Done, Pending
    <3> QED BY <2>1, <3>2 DEF IInv, ReviewFacts, Going
  <2> QED BY <2>1 DEF ReviewGateBeforeDelivery, IInv, ReviewFacts
<1> QED BY <1>1, InductiveInvariant, PTL

\* The manifest names copies that exist, and an upstream digest is the content of
\* the runtime reference, although tags move between selection and delivery.
THEOREM ManifestsAreTruthful == Spec => []ManifestNamesDeliveredContent
<1>1. IInv => ManifestNamesDeliveredContent
  BY DEF IInv, ContentFacts, Truthful, ManifestNamesDeliveredContent
<1> QED BY <1>1, InductiveInvariant, PTL

\* A check reports a change only if an image moved upstream since the selection
\* of its last committed check: settled sources make no new release.
THEOREM SettledSourcesAreQuiet == Spec => []SettledSourcesChangeNothing
<1>1. IInv => SettledSourcesChangeNothing
  BY DEF IInv, SettledFacts, SettledSourcesChangeNothing, Going
<1> QED BY <1>1, InductiveInvariant, PTL

\* No version is committed with two contents but by the one migration copy of a
\* mutable source, and a version that is a tag names that tag and does not go
\* back.
THEOREM VersionsIdentifyImages == Spec => VersionIdentifiesImage
<1> DEFINE Committed ==
      committed' # committed =>
        IF config.mutable
        THEN \/ MigratesToLazyCat
             \/ \A v \in Version : contents[v] # None => contents'[v] = contents[v]
        ELSE /\ config.downgrade \/ committed'.version >= committed.version
             /\ config.source \in Checked =>
                  committed'.version =
                    committed'.manifest[config.source].upstream.version
<1>1. ASSUME IInv, [Next]_vars PROVE [Committed]_vars
  <2>1. CASE committed' = committed
    BY <2>1
  <2>2. CASE Commit
    <3>1. /\ check.pc = "applied" /\ ~check.dry /\ check.pc \in Going
          /\ committed' = [manifest |-> manifest, version |-> check.version]
          /\ contents' = [contents EXCEPT ![check.version] =
                            Content(manifest[config.source].runtime)]
      BY <2>2 DEF Commit, Going
    <3>2. manifest = check.edited /\ Pending = {} /\ config.source \in Image
          /\ check.version \in Version /\ contents \in [Version -> Digest \cup {None}]
      BY <1>1, <3>1, Types DEF IInv, WorkFacts, TypeOK
    <3>3. CASE config.mutable
      <4>1. /\ check.version \in {ProjectVersion, BumpPatch}
            /\ check.version = ProjectVersion =>
                 \/ MigratesToLazyCat
                 \/ contents[ProjectVersion] \in
                      {None, Content(manifest[config.source].runtime)}
            /\ \A v \in Version : v > ProjectVersion => contents[v] = None
        BY <1>1, <3>1, <3>2, <3>3 DEF IInv, VersionFacts, ProjectVersion
      <4>2. ProjectVersion \in Nat
        BY <1>1, Types, Versions DEF IInv, ProjectVersion
      <4>3. MigratesToLazyCat \/ contents[check.version] \in
              {None, Content(manifest[config.source].runtime)}
        BY <3>2, <4>1, <4>2 DEF BumpPatch
      <4>4. MigratesToLazyCat
            \/ \A v \in Version : contents[v] # None => contents'[v] = contents[v]
        BY <3>1, <3>2, <4>3
      <4> QED BY <3>3, <4>4
    <3>4. CASE ~config.mutable
      <4>1. config.source \in Checked => Done(config.source)
        BY <1>1, <3>1, <3>2, AppliedIsDone
      <4> QED BY <1>1, <3>1, <3>2, <3>4, <4>1 DEF IInv, VersionFacts, ProjectVersion
    <3> QED BY <3>3, <3>4
  <2>3. CASE ~Commit /\ committed' # committed
    BY <1>1, <2>3
    DEF Next, UpstreamMoves, StartCheck, SelectImage, Deliver, ApplyManifest,
        Discard, vars
  <2> QED BY <2>1, <2>2, <2>3
<1>2. [][Committed]_vars => VersionIdentifiesImage
  BY PTL DEF VersionIdentifiesImage
<1> QED BY <1>1, <1>2, InductiveInvariant, PTL DEF Spec
=============================================================================
