----------------------- MODULE RegistrySelect_proofs -----------------------
(***************************************************************************)
(* Proofs about module RegistrySelect and the modules it instantiates, for *)
(* any tags, meanings, images of a configuration, limits, size of a page,  *)
(* times and pushes: a query selects the best tag that was there all along *)
(* (SelectedIsBest), the rules of an accepted configuration are usable, and*)
(* a query fails only for a reason.                                        *)
(***************************************************************************)
EXTENDS RegistrySelect, FiniteSetTheorems, TLAPS

\* What the configuration guarantees of a rule.
RuleIsUsable ==
  /\ VS!ValidRule(rule)
  /\ rule.mutable =>
       /\ rule.channel = "custom" /\ rule.sort = "created"
       /\ rule.tagRegex /\ rule.versionRegex = ""
  /\ rule.maxMatchingTags \in Nat \ {0}

Querying == {"page", "inspect", "select"}

\* The tags the ranking takes, and the candidate it sees for a tag.
Taken(tags) ==
  {t \in tags : meaning[t].kind = "version" /\ VS!InChannel(rule, meaning[t])}
MappedTags == Taken(query.eligible)
TagCandidate(t, updates) ==
  [tag |-> t, digest |-> FALSE, created |-> 0, updated |-> updates[t]]

\* No matching tag fails the ranking of all.
NoneBlocks(tags) ==
  \A t \in tags :
    /\ meaning[t].kind # "huge"
    /\ meaning[t].kind = "unmappable" => VS!SkipsUnmappable(rule)

\* The eligible tags match, and among them is what matches and is there all
\* along.
ListingFacts ==
  /\ steady \subseteq Listed
  /\ query.pc = "list" => query = NewQuery
  /\ query.pc = "page" => rule.sort = "updated" /\ query.candidates = {}
  /\ query.pc # "done" => query.outcome = "none" /\ query.selected = {}
  /\ query.pc \in Querying =>
       /\ \A t \in query.eligible : meaning[t].matches
       /\ \A t \in steady : meaning[t].matches => t \in query.eligible
       /\ pushes = 0 => steady = Listed /\ query.eligible \subseteq Listed

\* The dates read are those of the tags; the ranking has one of each.
DateFacts ==
  query.pc \in Querying =>
    /\ \A t \in steady : query.updates[t] \in {0, hub[t].updated}
    /\ query.pc # "page" /\ rule.sort = "updated" =>
         \A t \in query.eligible : query.updates[t] # 0

\* The pages of a registry at rest are read without a gap.
PageFacts ==
  query.pc = "page" /\ pushes = 0 =>
    \A t \in query.eligible :
      Position(t) <= (query.page - 1) * PageSize => query.updates[t] # 0

\* The inspection in rank order: a tag that was passed lacked the platform.
SearchFacts ==
  query.pc = "inspect" /\ EndsSearch =>
    /\ query.candidates = {} /\ NoneBlocks(query.eligible)
    /\ query.left \subseteq MappedTags /\ MappedTags # {}
    /\ \A t \in MappedTags \ query.left : t \in steady => ~hub[t].has
    /\ ~query.missing => query.left = MappedTags

\* The selection gets the tags the ranking refused, or the one that was found.
Refused ==
  /\ query.candidates = TagCandidates(query.eligible, query.updates)
  /\ VS!Rank(rule, meaning, query.candidates).error # ""
Found(c) ==
  /\ query.candidates = {c} /\ c.digest /\ c.tag \in MappedTags
  /\ c.updated = query.updates[c.tag]
  /\ \A t \in MappedTags \ {c.tag} : t \in steady /\ hub[t].has =>
       VS!RanksBefore(rule, meaning, c, TagCandidate(t, query.updates))
FoundFacts ==
  query.pc = "select" /\ EndsSearch =>
    Refused \/ (NoneBlocks(query.eligible) /\ \E c \in query.candidates : Found(c))

\* The inspection of all tags: a tag that was there all along is a candidate.
AllFacts ==
  query.pc \in {"inspect", "select"} /\ ~EndsSearch =>
    /\ query.left \subseteq query.eligible
    /\ query.pc = "select" => query.left = {}
    /\ \A c \in query.candidates :
         /\ c.digest /\ c.tag \in query.eligible \ query.left
         /\ c.tag \in steady => c.created = hub[c.tag].created
    /\ \A a, b \in query.candidates : a.tag = b.tag => a = b
    /\ \A t \in query.eligible \ query.left :
         t \in steady /\ hub[t].has => \E c \in query.candidates : c.tag = t
    /\ ~query.missing /\ query.candidates = {} => query.left = query.eligible

ResultFacts == SelectedIsBest /\ ConfiguredRulesAreUsable /\ ErrorsAreJustified

IInv ==
  /\ TypeOK /\ RuleIsUsable /\ ListingFacts /\ DateFacts /\ PageFacts
  /\ SearchFacts /\ FoundFacts /\ AllFacts /\ ResultFacts

-----------------------------------------------------------------------------
(* The order of the candidates                                              *)

\* A finite set that a transitive relation orders has a first element.
LEMMA OrderedSetHasFirst ==
  ASSUME NEW S, IsFiniteSet(S), S # {}, NEW R,
         \A x, y \in S : x # y => <<x, y>> \in R \/ <<y, x>> \in R,
         \A x, y, z \in S : <<x, y>> \in R /\ <<y, z>> \in R => <<x, z>> \in R
  PROVE  \E x \in S : \A y \in S \ {x} : <<x, y>> \in R
<1> DEFINE HasFirst(U) == \E x \in U : \A y \in U \ {x} : <<x, y>> \in R
           Bad == {U \in SUBSET S : U # {} /\ ~HasFirst(U)}
<1>1. SUFFICES ASSUME Bad # {} PROVE FALSE
  <2>1. S \in SUBSET S
    OBVIOUS
  <2> QED BY <1>1, <2>1
<1>2. IsWellFoundedOn(StrictSubsetOrdering(S), SUBSET S)
  BY FS_StrictSubsetOrderingWellFounded, FS_FiniteSubsetsOfFinite
<1>3. Bad \subseteq SUBSET S
  OBVIOUS
<1>4. PICK U \in Bad : \A V \in Bad : <<V, U>> \notin StrictSubsetOrdering(S)
  <2> HIDE DEF Bad
  <2> QED BY <1>1, <1>2, <1>3, WFMin
<1>5. PICK u \in U : TRUE
  BY <1>4
<1>6. HasFirst(U \ {u})
  <2>1. U \ {u} # {}
    <3>1. SUFFICES ASSUME U = {u} PROVE FALSE
      BY <1>5
    <3>2. HasFirst(U)
      BY <3>1
    <3> QED BY <1>4, <3>2
  <2>2. U \ {u} \in SUBSET S /\ U \in SUBSET S /\ U \ {u} # U
    BY <1>4, <1>5
  <2>3. <<U \ {u}, U>> \in StrictSubsetOrdering(S)
    BY <2>2 DEF StrictSubsetOrdering
  <2>4. U \ {u} \notin Bad
    BY <1>4, <2>3
  <2> QED BY <2>1, <2>2, <2>4
<1>7. PICK a \in U \ {u} : \A y \in U \ {u, a} : <<a, y>> \in R
  BY <1>6
<1>8. a \in S /\ u \in S /\ U \subseteq S
  BY <1>4, <1>5, <1>7
<1>9. CASE <<a, u>> \in R
  <2>1. \A y \in U \ {a} : <<a, y>> \in R
    BY <1>7, <1>9
  <2> QED BY <1>4, <1>7, <2>1
<1>10. CASE <<u, a>> \in R
  <2>1. \A y \in U \ {u} : <<u, y>> \in R
    BY <1>7, <1>8, <1>10
  <2> QED BY <1>4, <1>5, <2>1
<1> QED BY <1>7, <1>8, <1>9, <1>10

\* The meanings of the tags are typed.
LEMMA MeaningsAreTyped ==
  ASSUME TypeOK, NEW t \in Tag
  PROVE  /\ meaning[t] \in VS!Meaning /\ meaning[t].core \in Nat
         /\ meaning[t].pre \in BOOLEAN /\ meaning[t].matches \in BOOLEAN
         /\ meaning[t].kind \in {"unmappable", "huge", "version"}
<1>1. meaning[t] \in VS!Meaning
  BY RegistryAssumption DEF TypeOK
<1> QED BY <1>1 DEF VS!Meaning

\* The times and the tag of a candidate are numbers.
LEMMA CandidatesAreTyped ==
  ASSUME NEW c \in Candidate
  PROVE  /\ c.tag \in Tag /\ c.tag \in Int /\ c.created \in Nat
         /\ c.updated \in Nat /\ c.digest \in BOOLEAN
<1>1. c.tag \in Tag /\ c.created \in Nat /\ c.updated \in Nat /\ c.digest \in BOOLEAN
  BY DEF Candidate, VS!Candidate
<1> QED BY <1>1, RegistryAssumption DEF Tag

\* Two candidates of different tags are ranked.
LEMMA RanksAreTotal ==
  ASSUME TypeOK, NEW a \in Candidate, NEW b \in Candidate, a.tag # b.tag
  PROVE  \/ VS!RanksBefore(rule, meaning, a, b)
         \/ VS!RanksBefore(rule, meaning, b, a)
<1>1. /\ a.tag \in Int /\ b.tag \in Int /\ a.created \in Nat /\ b.created \in Nat
      /\ a.updated \in Nat /\ b.updated \in Nat
  BY CandidatesAreTyped
<1>2. VS!CreatedFirst(a, b) \/ VS!CreatedFirst(b, a)
  BY <1>1 DEF VS!CreatedFirst
<1>3. VS!VersionFirst(meaning, a, b) \/ VS!VersionFirst(meaning, b, a)
  BY <1>1 DEF VS!VersionFirst
<1>4. a.updated # b.updated => a.updated > b.updated \/ b.updated > a.updated
  BY <1>1
<1> QED BY <1>2, <1>3, <1>4 DEF VS!RanksBefore

\* Ranking before is transitive.
LEMMA RanksAreTransitive ==
  ASSUME TypeOK, NEW a \in Candidate, NEW b \in Candidate, NEW c \in Candidate,
         VS!RanksBefore(rule, meaning, a, b), VS!RanksBefore(rule, meaning, b, c)
  PROVE  VS!RanksBefore(rule, meaning, a, c)
<1>1. /\ a.tag \in Int /\ b.tag \in Int /\ c.tag \in Int
      /\ a.created \in Nat /\ b.created \in Nat /\ c.created \in Nat
      /\ a.updated \in Nat /\ b.updated \in Nat /\ c.updated \in Nat
  BY CandidatesAreTyped
<1>2. VS!CreatedFirst(a, b) /\ VS!CreatedFirst(b, c) => VS!CreatedFirst(a, c)
  BY <1>1 DEF VS!CreatedFirst
<1>3. VS!VersionFirst(meaning, a, b) /\ VS!VersionFirst(meaning, b, c)
        => VS!VersionFirst(meaning, a, c)
  <2>1. /\ meaning[a.tag].core \in Nat /\ meaning[a.tag].pre \in BOOLEAN
        /\ meaning[b.tag].core \in Nat /\ meaning[b.tag].pre \in BOOLEAN
        /\ meaning[c.tag].core \in Nat /\ meaning[c.tag].pre \in BOOLEAN
    BY CandidatesAreTyped, MeaningsAreTyped
  <2> QED BY <1>1, <2>1 DEF VS!VersionFirst, VS!Greater
<1>4. CASE rule.sort = "created"
  BY <1>2, <1>4 DEF VS!RanksBefore
<1>5. CASE rule.sort = "updated"
  <2>1. a.updated >= b.updated /\ b.updated >= c.updated
    BY <1>1, <1>5 DEF VS!RanksBefore
  <2>2. CASE a.updated = c.updated
    <3>1. a.updated = b.updated /\ b.updated = c.updated
      BY <1>1, <2>1, <2>2
    <3> QED BY <1>3, <1>5, <3>1 DEF VS!RanksBefore
  <2>3. CASE a.updated # c.updated
    <3>1. a.updated > c.updated
      BY <1>1, <2>1, <2>3
    <3> QED BY <1>5, <2>3, <3>1 DEF VS!RanksBefore
  <2> QED BY <2>2, <2>3
<1>6. CASE rule.sort \notin {"created", "updated"}
  BY <1>3, <1>6 DEF VS!RanksBefore
<1> QED BY <1>4, <1>5, <1>6

\* Candidates of different tags have a first.
LEMMA FirstRanksBefore ==
  ASSUME TypeOK, NEW S \in SUBSET Candidate, S # {},
         \A a, b \in S : a.tag = b.tag => a = b
  PROVE  /\ VS!First(rule, meaning, S) \in S
         /\ \A b \in S \ {VS!First(rule, meaning, S)} :
              VS!RanksBefore(rule, meaning, VS!First(rule, meaning, S), b)
<1> DEFINE R == {p \in S \X S : VS!RanksBefore(rule, meaning, p[1], p[2])}
           f == [c \in S |-> c.tag]
<1>1. IsFiniteSet(S)
  <2>1. IsFiniteSet(Tag)
    BY RegistryAssumption, FS_Interval DEF Tag
  <2>2. f \in Injection(S, Tag)
    BY CandidatesAreTyped DEF Injection, IsInjective
  <2> QED BY <2>1, <2>2, FS_Injection
<1>2. \A x, y \in S : <<x, y>> \in R <=> VS!RanksBefore(rule, meaning, x, y)
  OBVIOUS
<1> HIDE DEF R
<1>3. \A x, y \in S : x # y => <<x, y>> \in R \/ <<y, x>> \in R
  BY <1>2, RanksAreTotal
<1>4. \A x, y, z \in S : <<x, y>> \in R /\ <<y, z>> \in R => <<x, z>> \in R
  BY <1>2, RanksAreTransitive
<1>5. PICK x \in S : \A y \in S \ {x} : <<x, y>> \in R
  BY <1>1, <1>3, <1>4, OrderedSetHasFirst
<1>6. \A y \in S \ {x} : VS!RanksBefore(rule, meaning, x, y)
  BY <1>2, <1>5
<1> QED BY <1>5, <1>6 DEF VS!First

\* No candidate ranks before itself.
LEMMA RanksAreStrict ==
  ASSUME TypeOK, NEW a \in Candidate
  PROVE  ~VS!RanksBefore(rule, meaning, a, a)
<1>1. a.tag \in Int /\ a.created \in Nat /\ a.updated \in Nat /\ a.tag \in Tag
  BY CandidatesAreTyped
<1>2. ~VS!CreatedFirst(a, a)
  BY <1>1 DEF VS!CreatedFirst
<1>3. ~VS!VersionFirst(meaning, a, a)
  <2>1. meaning[a.tag].core \in Nat /\ meaning[a.tag].pre \in BOOLEAN
    BY <1>1, MeaningsAreTyped
  <2> QED BY <1>1, <2>1 DEF VS!VersionFirst, VS!Greater
<1> QED BY <1>2, <1>3 DEF VS!RanksBefore

\* The comparison that the candidates are sorted with is a strict total order for
\* every rule, so the first of them is the same whatever the order in which the
\* registry lists its tags and whatever pages they come in.
THEOREM RankingHasOneFirst ==
  ASSUME TypeOK, NEW S \in SUBSET Candidate, S # {},
         \A a, b \in S : a.tag = b.tag => a = b
  PROVE  /\ \A a, b \in S : a # b =>
              (VS!RanksBefore(rule, meaning, a, b)
                 <=> ~VS!RanksBefore(rule, meaning, b, a))
         /\ \E a \in S : \A c \in S :
              (\A b \in S \ {c} : VS!RanksBefore(rule, meaning, c, b)) <=> c = a
<1>1. \A a, b \in S : a # b =>
        (VS!RanksBefore(rule, meaning, a, b) <=> ~VS!RanksBefore(rule, meaning, b, a))
  <2>1. SUFFICES ASSUME NEW a \in S, NEW b \in S, a # b
                 PROVE  VS!RanksBefore(rule, meaning, a, b)
                          <=> ~VS!RanksBefore(rule, meaning, b, a)
    OBVIOUS
  <2>2. a \in Candidate /\ b \in Candidate /\ a.tag # b.tag
    BY <2>1
  <2>3. VS!RanksBefore(rule, meaning, a, b) \/ VS!RanksBefore(rule, meaning, b, a)
    BY <2>2, RanksAreTotal
  <2>4. ~(VS!RanksBefore(rule, meaning, a, b) /\ VS!RanksBefore(rule, meaning, b, a))
    BY <2>2, RanksAreTransitive, RanksAreStrict
  <2> QED BY <2>3, <2>4
<1> DEFINE first == VS!First(rule, meaning, S)
<1>2. first \in S /\ \A b \in S \ {first} : VS!RanksBefore(rule, meaning, first, b)
  BY FirstRanksBefore
<1> HIDE DEF first
<1>3. \A c \in S :
        (\A b \in S \ {c} : VS!RanksBefore(rule, meaning, c, b)) <=> c = first
  BY <1>1, <1>2
<1> QED BY <1>1, <1>2, <1>3

-----------------------------------------------------------------------------
(* The rules of a configuration                                             *)

\* Validate refuses what the selection would refuse.
LEMMA LoadedRulesAreUsable ==
  ASSUME rule \in CR!LoadedRules(RawImages)
  PROVE  RuleIsUsable
<1>1. PICK raw \in RawImages : /\ CR!Validate(CR!ApplyDefaults(raw))
                               /\ rule = CR!ImageRule(CR!ApplyDefaults(raw))
  BY DEF CR!LoadedRules
<1> DEFINE image == CR!ApplyDefaults(raw)
<1>2. raw \in CR!RawImage
  BY RegistryAssumption
<1>3. /\ image.bump = raw.bump /\ image.isSource = raw.isSource
      /\ image.tagRegex = raw.tagRegex /\ image.versionRegex = raw.versionRegex
      /\ image.maxMatchingTags = raw.maxMatchingTags
  BY <1>2 DEF CR!ApplyDefaults, CR!RawImage
<1> HIDE DEF image
<1>4. /\ rule.channel = image.channel /\ rule.sort = image.sort
      /\ rule.tagRegex = (image.tagRegex # "")
      /\ rule.versionRegex = image.versionRegex
      /\ rule.mutable = (image.isSource /\ image.bump = "patch")
      /\ rule.maxMatchingTags = CR!Limit(image.maxMatchingTags)
  BY <1>1 DEF image, CR!ImageRule
<1>5. VS!ValidRule(rule)
  <2>1. CR!ValidChannel(image) /\ CR!ValidRegexes(image)
    BY <1>1 DEF image, CR!Validate, CR!ValidImageRule
  <2> QED BY <1>4, <2>1
          DEF CR!ValidChannel, CR!ValidRegexes, CR!Sorts, VS!ValidRule
<1>6. rule.mutable => /\ rule.channel = "custom" /\ rule.sort = "created"
                      /\ rule.tagRegex /\ rule.versionRegex = ""
  BY <1>1, <1>4 DEF image, CR!Validate, CR!ValidBump
<1>7. rule.maxMatchingTags \in Nat \ {0}
  BY <1>2, <1>3, <1>4, RegistryAssumption DEF CR!Limit, CR!RawImage
<1> QED BY <1>5, <1>6, <1>7 DEF RuleIsUsable

\* What the channel says of the sort.
LEMMA ChannelsAndSorts ==
  ASSUME RuleIsUsable
  PROVE  /\ rule.channel \in {"stable", "beta", "date", "nightly", "custom"}
         /\ rule.sort \in {"semver", "updated", "created"}
         /\ rule.channel = "nightly" => rule.sort = "created"
         /\ rule.sort = "created" => rule.channel \in {"nightly", "custom"}
  BY DEF RuleIsUsable, VS!ValidRule

-----------------------------------------------------------------------------
(* The pages of Docker Hub                                                  *)

\* The listed tags are finitely many, updated at times that are numbers.
LEMMA ListedTags ==
  ASSUME TypeOK
  PROVE  /\ Listed \subseteq Tag /\ IsFiniteSet(Listed) /\ Cardinality(Listed) \in Nat
         /\ \A t \in Tag : t \in Int /\ hub[t].updated \in Nat /\ hub[t].created \in Nat
                           /\ hub[t] \in HubTag
<1>1. Listed \subseteq Tag /\ Tag \subseteq Int
  BY RegistryAssumption DEF Listed, Tag
<1>2. IsFiniteSet(Tag)
  BY RegistryAssumption, FS_Interval DEF Tag
<1>3. IsFiniteSet(Listed) /\ Cardinality(Listed) \in Nat
  BY <1>1, <1>2, FS_Subset, FS_CardinalityType
<1> QED BY <1>1, <1>3 DEF TypeOK, HubTag

\* The tags before tag t.
TagsBefore(t) == {s \in Listed : DockerHubBefore(s, t)}

\* A tag has a place among the tags listed.
LEMMA PositionsAreTyped ==
  ASSUME TypeOK, NEW t \in Listed
  PROVE  /\ Position(t) \in 1..Cardinality(Listed)
         /\ IsFiniteSet(TagsBefore(t)) /\ Cardinality(TagsBefore(t)) \in Nat
         /\ Position(t) = Cardinality(TagsBefore(t)) + 1
<1>1. TagsBefore(t) \in SUBSET (Listed \ {t})
  BY ListedTags DEF TagsBefore, DockerHubBefore
<1>2. /\ IsFiniteSet(Listed \ {t})
      /\ Cardinality(Listed \ {t}) = Cardinality(Listed) - 1
  BY ListedTags, FS_RemoveElement
<1>3. /\ IsFiniteSet(TagsBefore(t)) /\ Cardinality(TagsBefore(t)) \in Nat
      /\ Cardinality(TagsBefore(t)) <= Cardinality(Listed) - 1
  BY <1>1, <1>2, FS_Subset, FS_CardinalityType
<1>4. Position(t) = Cardinality(TagsBefore(t)) + 1
  BY DEF Position, TagsBefore
<1> QED BY <1>3, <1>4, ListedTags

\* No two tags are at one place.
LEMMA PositionsDiffer ==
  ASSUME TypeOK, NEW s \in Listed, NEW t \in Listed, s # t
  PROVE  Position(s) # Position(t)
<1>1. ASSUME NEW a \in Listed, NEW b \in Listed, DockerHubBefore(a, b)
      PROVE  Position(a) < Position(b)
  <2>1. TagsBefore(a) \in SUBSET TagsBefore(b)
    <3>1. SUFFICES ASSUME NEW c \in TagsBefore(a) PROVE c \in TagsBefore(b)
      OBVIOUS
    <3>2. c \in Listed /\ DockerHubBefore(c, a)
      BY <3>1 DEF TagsBefore
    <3>3. /\ hub[a].updated \in Nat /\ hub[b].updated \in Nat /\ hub[c].updated \in Nat
          /\ a \in Int /\ b \in Int /\ c \in Int
      BY <3>2, ListedTags
    <3>4. DockerHubBefore(c, b)
      BY <1>1, <3>2, <3>3 DEF DockerHubBefore
    <3> QED BY <3>2, <3>4 DEF TagsBefore
  <2>2. a \in TagsBefore(b) /\ a \notin TagsBefore(a)
    BY <1>1, ListedTags DEF TagsBefore, DockerHubBefore
  <2>3. /\ Cardinality(TagsBefore(a)) <= Cardinality(TagsBefore(b))
        /\ Cardinality(TagsBefore(a)) # Cardinality(TagsBefore(b))
    BY <2>1, <2>2, PositionsAreTyped, FS_Subset
  <2> QED BY <2>3, PositionsAreTyped
<1>2. DockerHubBefore(s, t) \/ DockerHubBefore(t, s)
  <2>1. hub[s].updated \in Nat /\ hub[t].updated \in Nat /\ s \in Int /\ t \in Int
    BY ListedTags
  <2> QED BY <2>1 DEF DockerHubBefore
<1>3. Position(s) \in Nat /\ Position(t) \in Nat
  BY PositionsAreTyped, ListedTags
<1> QED BY <1>1, <1>2, <1>3

\* Every place up to the number of tags is taken.
LEMMA PositionsAreTaken ==
  ASSUME TypeOK, NEW k \in 1..Cardinality(Listed)
  PROVE  \E t \in Listed : Position(t) = k
<1> DEFINE n == Cardinality(Listed)
           f == [t \in Listed |-> Position(t)]
<1>1. f \in Injection(Listed, 1..n)
  BY PositionsAreTyped, PositionsDiffer DEF Injection, IsInjective
<1>2. IsFiniteSet(1..n) /\ Cardinality(1..n) = n
  BY ListedTags, FS_Interval
<1>3. f \in Surjection(Listed, 1..n)
  <2> HIDE DEF f
  <2> QED BY <1>1, <1>2, FS_Injection
<1> QED BY <1>3 DEF Surjection

\* A page that ends within the list is full.
LEMMA PagesAreFull ==
  ASSUME TypeOK, NEW n \in Nat \ {0}, n * PageSize <= Cardinality(Listed)
  PROVE  Cardinality(Page(n)) >= PageSize
<1> DEFINE low == (n - 1) * PageSize
           places == (low + 1)..(low + PageSize)
           f == [t \in Page(n) |-> Position(t)]
<1>1. PageSize \in Nat \ {0} /\ low \in Nat /\ n * PageSize = low + PageSize
  BY RegistryAssumption
<1>2. Page(n) = {t \in Listed : low < Position(t) /\ Position(t) <= low + PageSize}
  BY <1>1 DEF Page
<1> HIDE DEF low
<1>3. \A t \in Listed : Position(t) \in Nat
  BY PositionsAreTyped, ListedTags
<1>4. places \subseteq 1..Cardinality(Listed)
  BY <1>1, ListedTags
<1>5. f \in Surjection(Page(n), places)
  <2>1. f \in [Page(n) -> places]
    BY <1>1, <1>2, <1>3
  <2>2. \A k \in places : \E t \in Page(n) : f[t] = k
    <3>1. SUFFICES ASSUME NEW k \in places PROVE \E t \in Page(n) : f[t] = k
      OBVIOUS
    <3>2. PICK t \in Listed : Position(t) = k
      BY <1>4, <3>1, PositionsAreTaken
    <3>3. t \in Page(n)
      BY <1>1, <1>2, <3>1, <3>2
    <3> QED BY <3>2, <3>3
  <2> QED BY <2>1, <2>2 DEF Surjection
<1>6. IsFiniteSet(Page(n))
  BY <1>2, ListedTags, FS_Subset
<1>7. Cardinality(places) = PageSize
  BY <1>1, FS_Interval
<1>8. Cardinality(places) <= Cardinality(Page(n))
  <2> HIDE DEF f, places
  <2> QED BY <1>5, <1>6, FS_Surjection
<1>9. Cardinality(Page(n)) \in Nat
  BY <1>6, FS_CardinalityType
<1> QED BY <1>1, <1>7, <1>8, <1>9

\* The pages that are read at most hold the tags that may match.
LEMMA PagesSuffice ==
  ASSUME RuleIsUsable
  PROVE  /\ PageCount \in Nat \ {0}
         /\ rule.maxMatchingTags <= PageCount * PageSize
<1>1. rule.maxMatchingTags \in Nat \ {0} /\ PageSize \in Nat \ {0}
  BY RegistryAssumption DEF RuleIsUsable
<1>2. \A m, p \in Nat \ {0} : /\ (m + p - 1) \div p \in Nat \ {0}
                              /\ m <= ((m + p - 1) \div p) * p
  OBVIOUS
<1> QED BY <1>1, <1>2 DEF PageCount

-----------------------------------------------------------------------------
(* The ranking                                                              *)

\* The candidates of tags are one for each.
LEMMA TagCandidatesAreTyped ==
  ASSUME NEW tags \in SUBSET Tag, NEW updates \in [Tag -> Nat]
  PROVE  /\ TagCandidates(tags, updates) \in SUBSET Candidate
         /\ \A t \in tags : TagCandidate(t, updates) \in TagCandidates(tags, updates)
         /\ \A c \in TagCandidates(tags, updates) :
              c.tag \in tags /\ c = TagCandidate(c.tag, updates)
         /\ \A a, b \in TagCandidates(tags, updates) : a.tag = b.tag => a = b
<1>1. \A t \in tags : TagCandidate(t, updates) \in Candidate
  BY DEF TagCandidate, Candidate, VS!Candidate
<1>2. TagCandidates(tags, updates) = {TagCandidate(t, updates) : t \in tags}
  BY DEF TagCandidates, TagCandidate
<1>3. \A t \in tags : TagCandidate(t, updates).tag = t
  BY DEF TagCandidate
<1> QED BY <1>1, <1>2, <1>3

Ranking(tags, updates) == VS!Rank(rule, meaning, TagCandidates(tags, updates))

\* Ranking the candidates of matching tags.
LEMMA RankOfTags ==
  ASSUME TypeOK, RuleIsUsable, NEW tags \in SUBSET Tag,
         NEW updates \in [Tag -> Nat], \A t \in tags : meaning[t].matches
  PROVE  \/ /\ Ranking(tags, updates).error = ""
            /\ NoneBlocks(tags) /\ Taken(tags) # {}
            /\ {c.tag : c \in Ranking(tags, updates).ranked} = Taken(tags)
         \/ /\ Ranking(tags, updates).error = "tag"
            /\ \/ ~NoneBlocks(tags)
               \/ rule.sort = "updated" /\ \E t \in tags : updates[t] = 0
         \/ /\ Ranking(tags, updates).error = "none"
            /\ NoneBlocks(tags) /\ Taken(tags) = {}
<1> DEFINE S == TagCandidates(tags, updates)
           ranking == Ranking(tags, updates)
<1>1. /\ \A t \in tags : TagCandidate(t, updates) \in S
      /\ \A c \in S : c.tag \in tags /\ c = TagCandidate(c.tag, updates)
  BY TagCandidatesAreTyped
<1>2. \A t \in tags : /\ TagCandidate(t, updates).tag = t
                      /\ TagCandidate(t, updates).updated = updates[t]
  BY DEF TagCandidate
<1> HIDE DEF S
<1>3. VS!Filtered(meaning, S) = S
  BY <1>1 DEF VS!Filtered
<1>4. ranking = IF S = {} THEN VS!RankError("none")
                ELSE VS!RankMappedCandidates(rule, meaning, S)
  BY <1>3 DEF RuleIsUsable, Ranking, VS!Rank, S
<1> HIDE DEF ranking
<1>5. CASE S = {}
  <2>1. tags = {}
    BY <1>1, <1>5
  <2>2. ranking.error = "none"
    BY <1>4, <1>5 DEF VS!RankError
  <2> QED BY <2>1, <2>2 DEF NoneBlocks, Taken, ranking
<1>6. CASE S # {} /\ \E c \in S : VS!Blocked(rule, meaning, c)
  <2>1. ranking.error = "tag"
    BY <1>4, <1>6 DEF VS!RankError, VS!RankMappedCandidates
  <2>2. PICK c \in S : VS!Blocked(rule, meaning, c)
    BY <1>6
  <2>3. c.tag \in tags /\ c.updated = updates[c.tag]
    BY <1>1, <1>2
  <2>4. ~NoneBlocks(tags) \/ (rule.sort = "updated" /\ updates[c.tag] = 0)
    BY <2>2, <2>3 DEF VS!Blocked, NoneBlocks
  <2> QED BY <2>1, <2>3, <2>4 DEF ranking
<1>7. CASE S # {} /\ ~ \E c \in S : VS!Blocked(rule, meaning, c)
  <2>1. NoneBlocks(tags)
    BY <1>1, <1>2, <1>7 DEF VS!Blocked, NoneBlocks
  <2>2. {c.tag : c \in VS!Mapped(rule, meaning, S)} = Taken(tags)
    BY <1>1, <1>2 DEF VS!Mapped, Taken
  <2>3. CASE VS!Mapped(rule, meaning, S) = {}
    <3>1. ranking.error = "none"
      BY <1>4, <1>7, <2>3 DEF VS!RankError, VS!RankMappedCandidates
    <3>2. Taken(tags) = {}
      BY <2>2, <2>3
    <3> QED BY <2>1, <3>1, <3>2 DEF ranking
  <2>4. CASE VS!Mapped(rule, meaning, S) # {}
    <3>1. ranking = VS!Ranked(VS!Mapped(rule, meaning, S))
      BY <1>4, <1>7, <2>4 DEF VS!RankMappedCandidates
    <3>2. ranking.error = "" /\ ranking.ranked = VS!Mapped(rule, meaning, S)
      BY <3>1 DEF VS!Ranked
    <3>3. Taken(tags) # {}
      BY <2>2, <2>4
    <3> QED BY <2>1, <2>2, <3>2, <3>3 DEF ranking
  <2> QED BY <2>3, <2>4
<1> QED BY <1>5, <1>6, <1>7

\* With the ranking's rules, the tags taken are the suitable ones.
LEMMA TakenAreSuitable ==
  ASSUME TypeOK, RuleIsUsable, rule.sort # "created", NEW t \in Tag
  PROVE  Suitable(t) <=> /\ meaning[t].matches /\ meaning[t].kind = "version"
                         /\ VS!InChannel(rule, meaning[t])
<1>1. /\ rule.channel \in {"stable", "beta", "date", "custom"} /\ ~rule.mutable
      /\ meaning[t].pre \in BOOLEAN
  BY ChannelsAndSorts, MeaningsAreTyped DEF RuleIsUsable
<1> QED BY <1>1 DEF Suitable, VS!InChannel

\* Ranking before is scoring higher.
LEMMA RanksBeforeScoresHigher ==
  ASSUME TypeOK, RuleIsUsable, NEW a \in Candidate, NEW t \in Tag, a.tag # t,
         NEW b \in Candidate, b.tag = t, VS!RanksBefore(rule, meaning, a, b),
         rule.sort = "created" => b.created = hub[t].created,
         rule.sort = "updated" => b.updated = hub[t].updated
  PROVE  HigherScore(Score(a.tag, a.created, a.updated),
                     Score(t, hub[t].created, hub[t].updated))
<1>1. /\ a.tag \in Int /\ b.tag \in Int /\ a.created \in Nat /\ b.created \in Nat
      /\ a.updated \in Nat /\ b.updated \in Nat /\ a.tag \in Tag
      /\ meaning[a.tag].core \in Nat /\ meaning[a.tag].pre \in BOOLEAN
      /\ meaning[t].core \in Nat /\ meaning[t].pre \in BOOLEAN
  BY CandidatesAreTyped, MeaningsAreTyped
<1> DEFINE x == Score(a.tag, a.created, a.updated)
           y == Score(t, hub[t].created, hub[t].updated)
           v == IF rule.sort = "created" THEN 0
                ELSE 2 * meaning[a.tag].core + (IF meaning[a.tag].pre THEN 0 ELSE 1)
           w == IF rule.sort = "created" THEN 0
                ELSE 2 * meaning[t].core + (IF meaning[t].pre THEN 0 ELSE 1)
<1>2. /\ x[1] = IF rule.sort = "created" THEN a.created
                ELSE IF rule.sort = "updated" THEN a.updated ELSE 0
      /\ y[1] = IF rule.sort = "created" THEN b.created
                ELSE IF rule.sort = "updated" THEN b.updated ELSE 0
      /\ x[2] = v /\ y[2] = w /\ x[3] = a.tag /\ y[3] = t
  BY DEF Score
<1> HIDE DEF x, y
<1>3. /\ x[1] > y[1] => HigherScore(x, y)
      /\ x[1] = y[1] /\ x[2] > y[2] => HigherScore(x, y)
      /\ x[1] = y[1] /\ x[2] = y[2] /\ x[3] > y[3] => HigherScore(x, y)
  BY DEF HigherScore
<1>4. CASE rule.sort = "created"
  BY <1>1, <1>2, <1>3, <1>4 DEF VS!RanksBefore, VS!CreatedFirst, x, y
<1>5. CASE rule.sort # "created"
  <2>1. /\ VS!Greater(meaning[a.tag], meaning[t]) <=> v > w
        /\ VS!Greater(meaning[t], meaning[a.tag]) <=> w > v
        /\ v \in Int /\ w \in Int
    BY <1>1, <1>5 DEF VS!Greater
  <2> HIDE DEF v, w
  <2>2. VS!VersionFirst(meaning, a, b) => v > w \/ (v = w /\ a.tag > t)
    BY <1>1, <2>1 DEF VS!VersionFirst
  <2>3. x[1] > y[1] \/ (x[1] = y[1] /\ VS!VersionFirst(meaning, a, b))
    BY <1>1, <1>2, <1>5 DEF VS!RanksBefore
  <2> QED BY <1>2, <1>3, <2>2, <2>3 DEF x, y
<1> QED BY <1>4, <1>5

-----------------------------------------------------------------------------
(* The inductive invariant: a query that begins, returns or has ranked      *)

\* A query that has not begun is typed.
LEMMA NewQueryIsTyped ==
  ASSUME RuleIsUsable
  PROVE  NewQuery \in QueryState /\ NewQuery.page = 1
<1>1. 1 \in 1..PageCount
  BY PagesSuffice
<1>2. /\ "list" \in QueryPC /\ "none" \in Outcome /\ {} \in SUBSET Tag
      /\ {} \in SUBSET Candidate /\ [t \in Tag |-> 0] \in [Tag -> Nat]
  BY DEF QueryPC, Outcome
<1> QED BY <1>1, <1>2 DEF NewQuery, QueryState

\* The first states satisfy the invariant.
LEMMA InitKeeps == Init => IInv
<1> SUFFICES ASSUME Init PROVE IInv
  OBVIOUS
<1>1. RuleIsUsable
  BY LoadedRulesAreUsable DEF Init
<1>2. query = NewQuery /\ query \in QueryState /\ pushes = 0 /\ steady = {}
  BY <1>1, NewQueryIsTyped DEF Init
<1>3. hub \in [Tag -> HubTag]
  <2>1. PICK time \in InitialTimes, has \in [Tag -> BOOLEAN] :
          hub = [t \in Tag |-> [listed |-> t < Tags \/ time[t] > 0, has |-> has[t],
                                created |-> time[t], updated |-> time[t]]]
    BY DEF Init
  <2>2. \A t \in Tag : time[t] \in Nat
    BY RegistryAssumption DEF InitialTimes, Tag
  <2> QED BY <2>1, <2>2 DEF HubTag
<1>4. TypeOK
  BY <1>2, <1>3, RegistryAssumption DEF Init, TypeOK
<1>5. query.pc = "list" /\ query.outcome = "none" /\ query.selected = {}
  BY <1>2 DEF NewQuery
<1>6. ListingFacts
  BY <1>2, <1>5 DEF ListingFacts, Querying
<1>7. DateFacts /\ PageFacts /\ SearchFacts /\ FoundFacts /\ AllFacts
  BY <1>5 DEF DateFacts, PageFacts, SearchFacts, FoundFacts, AllFacts, Querying
<1>8. ResultFacts
  BY <1>5 DEF ResultFacts, SelectedIsBest, ConfiguredRulesAreUsable, ErrorsAreJustified
<1> QED BY <1>1, <1>4, <1>6, <1>7, <1>8 DEF IInv

\* Steps of the query leave the rest alone.
LEMMA OnlyQueryKeeps ==
  ASSUME IInv, OnlyQuery
  PROVE  /\ RuleIsUsable' /\ Listed' = Listed /\ PageCount' = PageCount
         /\ QueryState' = QueryState /\ (Justified' <=> Justified)
         /\ RefusesRegistry' <=> RefusesRegistry
         /\ EndsSearch' = EndsSearch
         /\ query' \in QueryState /\ steady' \subseteq Listed => TypeOK'
<1>1. rule' = rule /\ meaning' = meaning /\ hub' = hub /\ pushes' = pushes
  BY DEF OnlyQuery
<1>2. Listed' = Listed /\ PageCount' = PageCount /\ EndsSearch' = EndsSearch
  BY <1>1 DEF Listed, PageCount, EndsSearch
<1>3. QueryState' = QueryState
  BY <1>2 DEF QueryState
<1>4. Justified' <=> Justified
  BY <1>1, <1>2 DEF Justified, ExceedsLimits, CountsAllTags, RefusesRegistry,
                    FilterTags, Blocks, Suitable
<1>5. RuleIsUsable' /\ (RefusesRegistry' <=> RefusesRegistry)
  BY <1>1 DEF IInv, RuleIsUsable, VS!ValidRule, RefusesRegistry
<1>6. query' \in QueryState /\ steady' \subseteq Listed => TypeOK'
  BY <1>1, <1>3, ListedTags DEF IInv, TypeOK
<1> QED BY <1>2, <1>3, <1>4, <1>5, <1>6

\* A query returns the best tag, or an error for a reason.
LEMMA ReturnsKeeps ==
  ASSUME IInv, NEW outcome \in Outcome, outcome = "badrule" => RefusesRegistry,
         NEW selected \in SUBSET Candidate,
         Returns(outcome, selected), OnlyQuery, steady' \subseteq Listed,
         outcome = "error" /\ pushes = 0 => Justified,
         \A c \in selected : IsBest(c)'
  PROVE  IInv'
<1>1. query' = [NewQuery EXCEPT !.pc = "done", !.outcome = outcome,
                               !.selected = selected]
  BY DEF Returns
<1>2. NewQuery \in QueryState /\ "done" \in QueryPC
  BY NewQueryIsTyped DEF IInv, QueryPC
<1>3. query' \in QueryState
  BY <1>1, <1>2 DEF QueryState
<1>4. query'.pc = "done" /\ query'.outcome = outcome /\ query'.selected = selected
  BY <1>1 DEF NewQuery
<1>5. TypeOK' /\ RuleIsUsable' /\ Listed' = Listed /\ pushes' = pushes
  BY <1>3, OnlyQueryKeeps DEF OnlyQuery
<1>6. ListingFacts'
  BY <1>4, <1>5 DEF ListingFacts, Querying
<1>7. DateFacts' /\ PageFacts' /\ SearchFacts' /\ FoundFacts' /\ AllFacts'
  BY <1>4 DEF DateFacts, PageFacts, SearchFacts, FoundFacts, AllFacts, Querying
<1>8. SelectedIsBest'
  BY <1>4 DEF SelectedIsBest
<1>9. ErrorsAreJustified' /\ ConfiguredRulesAreUsable'
  <2>1. outcome \in {"error", "badrule"} /\ pushes = 0 => Justified
    BY DEF Justified
  <2> QED BY <1>4, <1>5, <2>1, OnlyQueryKeeps
          DEF ErrorsAreJustified, ConfiguredRulesAreUsable
<1> QED BY <1>5, <1>6, <1>7, <1>8, <1>9 DEF IInv, ResultFacts

LEMMA FailsKeeps ==
  ASSUME IInv, NEW outcome \in {"failed", "error", "badrule"}, Fails(outcome),
         OnlyQuery, steady' \subseteq Listed,
         outcome = "error" /\ pushes = 0 => Justified,
         outcome = "badrule" => RefusesRegistry
  PROVE  IInv'
<1>1. outcome \in Outcome /\ {} \in SUBSET Candidate
  BY DEF Outcome
<1>2. Returns(outcome, {})
  BY DEF Fails
<1> QED BY <1>1, <1>2, ReturnsKeeps

\* While the query runs, its results say nothing yet.
LEMMA RunningHasNoResult ==
  ASSUME query.outcome = "none", query.selected = {}
  PROVE  ResultFacts
  BY DEF ResultFacts, SelectedIsBest, ConfiguredRulesAreUsable, ErrorsAreJustified

\* The tags are ranked: the inspection or the selection begins.
LEMMA RankTagsKeeps ==
  ASSUME IInv, NEW q \in QueryState, query' = RankTags(q), OnlyQuery,
         rule.sort # "created", q.candidates = {},
         q.outcome = "none", q.selected = {},
         \A t \in q.eligible : meaning[t].matches,
         rule.sort = "updated" => \A t \in q.eligible : q.updates[t] # 0,
         steady' \subseteq Listed,
         pushes = 0 => steady' = Listed /\ q.eligible \subseteq Listed,
         \A t \in steady' : /\ meaning[t].matches => t \in q.eligible
                            /\ q.updates[t] \in {0, hub[t].updated}
  PROVE  IInv'
<1> DEFINE ranking == Ranking(q.eligible, q.updates)
           tagCandidates == TagCandidates(q.eligible, q.updates)
<1>1. /\ q.eligible \in SUBSET Tag /\ q.updates \in [Tag -> Nat]
      /\ TypeOK /\ RuleIsUsable
  BY DEF QueryState, IInv
<1>2. /\ rule' = rule /\ meaning' = meaning /\ hub' = hub /\ pushes' = pushes
      /\ RuleIsUsable' /\ Listed' = Listed
  BY OnlyQueryKeeps DEF OnlyQuery
<1>3. EndsSearch /\ EndsSearch'
  BY <1>2 DEF EndsSearch
<1>4. CASE ranking.error = ""
  <2>1. /\ NoneBlocks(q.eligible) /\ Taken(q.eligible) # {}
        /\ {c.tag : c \in ranking.ranked} = Taken(q.eligible)
    BY <1>1, <1>4, RankOfTags
  <2>2. query' = [q EXCEPT !.pc = "inspect", !.left = Taken(q.eligible)]
    BY <1>4, <2>1 DEF RankTags, Ranking
  <2>3. Taken(q.eligible) \in SUBSET Tag /\ "inspect" \in QueryPC
    BY <1>1 DEF Taken, QueryPC
  <2> HIDE DEF ranking, tagCandidates
  <2>4. query' \in QueryState
    BY <2>2, <2>3 DEF QueryState
  <2>5. /\ query'.pc = "inspect" /\ query'.left = Taken(q.eligible)
        /\ query'.eligible = q.eligible /\ query'.updates = q.updates
        /\ query'.candidates = {} /\ query'.outcome = "none"
        /\ query'.selected = {}
    BY <2>2 DEF QueryState
  <2>6. TypeOK'
    BY <2>4, OnlyQueryKeeps
  <2>7. ListingFacts' /\ DateFacts'
    BY <1>2, <2>5 DEF ListingFacts, DateFacts, Querying
  <2>8. SearchFacts'
    <3>1. /\ MappedTags' = Taken(q.eligible)
          /\ NoneBlocks(query.eligible)' <=> NoneBlocks(q.eligible)
      BY <1>2, <2>5 DEF MappedTags, Taken, NoneBlocks, VS!InChannel, VS!SkipsUnmappable
    <3> QED BY <2>1, <2>5, <3>1 DEF SearchFacts, NoneBlocks
  <2>9. PageFacts' /\ FoundFacts' /\ AllFacts' /\ ResultFacts'
    BY <1>3, <2>5, RunningHasNoResult
    DEF PageFacts, FoundFacts, AllFacts, ResultFacts, SelectedIsBest,
        ConfiguredRulesAreUsable, ErrorsAreJustified
  <2> QED BY <1>2, <2>6, <2>7, <2>8, <2>9 DEF IInv
<1>5. CASE ranking.error # ""
  <2>1. query' = [q EXCEPT !.pc = "select", !.candidates = tagCandidates]
    BY <1>5 DEF RankTags, Ranking
  <2>2. tagCandidates \in SUBSET Candidate /\ "select" \in QueryPC
    BY <1>1, TagCandidatesAreTyped DEF QueryPC
  <2> HIDE DEF tagCandidates
  <2>3. query' \in QueryState
    BY <2>1, <2>2 DEF QueryState
  <2>4. /\ query'.pc = "select" /\ query'.candidates = tagCandidates
        /\ query'.eligible = q.eligible /\ query'.updates = q.updates
        /\ query'.outcome = "none" /\ query'.selected = {}
    BY <2>1 DEF QueryState
  <2>5. TypeOK'
    BY <2>3, OnlyQueryKeeps
  <2>6. ListingFacts' /\ DateFacts'
    BY <1>2, <2>4 DEF ListingFacts, DateFacts, Querying
  <2>7. Refused'
    <3>1. query'.candidates = TagCandidates(query.eligible, query.updates)'
      BY <2>4 DEF tagCandidates, TagCandidates
    <3>2. VS!Rank(rule, meaning, query.candidates)' = ranking
      BY <1>2, <2>4 DEF Ranking, tagCandidates
    <3> QED BY <1>5, <3>1, <3>2 DEF Refused
  <2>8. PageFacts' /\ SearchFacts' /\ FoundFacts' /\ AllFacts' /\ ResultFacts'
    BY <1>3, <2>4, <2>7, RunningHasNoResult
    DEF PageFacts, SearchFacts, FoundFacts, AllFacts, ResultFacts, SelectedIsBest,
        ConfiguredRulesAreUsable, ErrorsAreJustified
  <2> QED BY <1>2, <2>5, <2>6, <2>8 DEF IInv
<1> QED BY <1>4, <1>5

-----------------------------------------------------------------------------
(* The inductive invariant, step by step                                    *)

\* The fields of the query, typed one by one.
LEMMA QueryFields ==
  ASSUME IInv
  PROVE  /\ query \in QueryState /\ query.eligible \in SUBSET Tag
         /\ query.left \in SUBSET Tag /\ query.updates \in [Tag -> Nat]
         /\ query.candidates \in SUBSET Candidate /\ query.page \in 1..PageCount
         /\ query.missing \in BOOLEAN /\ steady \subseteq Listed
         /\ TypeOK /\ RuleIsUsable
  BY DEF IInv, TypeOK, QueryState, ListingFacts

LEMMA RequestFailsKeeps ==
  ASSUME IInv, RequestFails
  PROVE  IInv'
  BY QueryFields, FailsKeeps DEF RequestFails

\* Places change with the registry only.
LEMMA PositionsStay ==
  ASSUME hub' = hub
  PROVE  \A t : Position(t)' = Position(t)
<1>1. Listed' = Listed
  BY DEF Listed
<1> QED BY <1>1 DEF Position, DockerHubBefore

\* The tags are listed.
LEMMA ListTagsKeeps ==
  ASSUME IInv, ListTags
  PROVE  IInv'
<1>1. query = NewQuery /\ steady' = Listed /\ OnlyQuery
  BY DEF ListTags, IInv, ListingFacts
<1> DEFINE listing == [query EXCEPT !.eligible = FilterTags]
<1>2. /\ FilterTags \in SUBSET Tag /\ FilterTags \subseteq Listed
      /\ IsFiniteSet(Listed) /\ Cardinality(Listed) \in Nat
      /\ Cardinality(FilterTags) \in Nat
      /\ Cardinality(FilterTags) <= Cardinality(Listed)
  <2>1. FilterTags \in SUBSET Listed
    BY DEF FilterTags
  <2> QED BY <2>1, ListedTags, FS_Subset, FS_CardinalityType, QueryFields
<1>3. rule.maxMatchingTags \in Nat
  BY DEF IInv, RuleIsUsable
<1>4. CASE \/ Cardinality(Listed) > rule.maxTags
           \/ Cardinality(FilterTags) > rule.maxMatchingTags
  <2>1. Fails("error")
    BY <1>4 DEF ListTags
  <2>2. Justified
    BY <1>2, <1>3, <1>4 DEF Justified, ExceedsLimits
  <2> QED BY <1>1, <2>1, <2>2, FailsKeeps
<1>5. CASE /\ ~(\/ Cardinality(Listed) > rule.maxTags
                \/ Cardinality(FilterTags) > rule.maxMatchingTags)
           /\ RefusesRegistry
  <2>1. Fails("badrule")
    BY <1>5 DEF ListTags
  <2> QED BY <1>1, <1>5, <2>1, FailsKeeps
<1>6. CASE /\ ~(\/ Cardinality(Listed) > rule.maxTags
                \/ Cardinality(FilterTags) > rule.maxMatchingTags)
           /\ ~RefusesRegistry
  <2>1. query' = IF rule.sort = "created"
                 THEN [listing EXCEPT !.pc = "inspect", !.left = FilterTags]
                 ELSE IF rule.sort = "updated" /\ FilterTags # {}
                 THEN [listing EXCEPT !.pc = "page"]
                 ELSE RankTags(listing)
    BY <1>6 DEF ListTags
  <2>2. /\ listing \in QueryState /\ listing.eligible = FilterTags
        /\ listing.page = 1 /\ listing.candidates = {} /\ listing.outcome = "none"
        /\ listing.selected = {} /\ listing.missing = FALSE
        /\ listing.updates = [t \in Tag |-> 0]
    BY <1>1, <1>2, QueryFields, NewQueryIsTyped DEF QueryState, NewQuery
  <2> HIDE DEF listing
  <2>3. \A t \in Tag : listing.updates[t] = 0
    BY <2>2
  <2>4. \A t \in FilterTags : meaning[t].matches
    BY DEF FilterTags
  <2>5. \A t \in Listed : /\ meaning[t].matches => t \in FilterTags
                          /\ listing.updates[t] \in {0, hub[t].updated}
    BY <2>3, ListedTags, QueryFields DEF FilterTags
  <2>6. /\ rule' = rule /\ meaning' = meaning /\ hub' = hub /\ pushes' = pushes
        /\ RuleIsUsable' /\ Listed' = Listed /\ EndsSearch' = EndsSearch
    BY <1>1, OnlyQueryKeeps DEF OnlyQuery
  <2>7. CASE rule.sort = "created"
    <3>1. query' = [listing EXCEPT !.pc = "inspect", !.left = FilterTags]
      BY <2>1, <2>7
    <3>2. query' \in QueryState
      BY <1>2, <2>2, <3>1 DEF QueryState, QueryPC
    <3>3. /\ query'.pc = "inspect" /\ query'.left = FilterTags
          /\ query'.eligible = FilterTags /\ query'.candidates = {}
          /\ query'.updates = listing.updates /\ query'.outcome = "none"
          /\ query'.selected = {}
      BY <2>2, <3>1 DEF QueryState
    <3>4. TypeOK' /\ ~EndsSearch'
      BY <1>1, <2>6, <2>7, <3>2, OnlyQueryKeeps DEF EndsSearch
    <3>5. ListingFacts' /\ DateFacts'
      BY <1>1, <1>2, <2>4, <2>5, <2>6, <2>7, <3>3 DEF ListingFacts, DateFacts, Querying
    <3>6. AllFacts'
      BY <3>3 DEF AllFacts
    <3>7. PageFacts' /\ SearchFacts' /\ FoundFacts' /\ ResultFacts'
      BY <3>3, <3>4 DEF PageFacts, SearchFacts, FoundFacts, ResultFacts,
         SelectedIsBest, ConfiguredRulesAreUsable, ErrorsAreJustified
    <3> QED BY <2>6, <3>4, <3>5, <3>6, <3>7 DEF IInv
  <2>8. CASE rule.sort = "updated" /\ FilterTags # {}
    <3>1. query' = [listing EXCEPT !.pc = "page"]
      BY <2>1, <2>8
    <3>2. query' \in QueryState
      BY <2>2, <3>1 DEF QueryState, QueryPC
    <3>3. /\ query'.pc = "page" /\ query'.page = 1
          /\ query'.eligible = FilterTags /\ query'.candidates = {}
          /\ query'.updates = listing.updates /\ query'.outcome = "none"
          /\ query'.selected = {}
      BY <2>2, <3>1 DEF QueryState
    <3>4. TypeOK'
      BY <1>1, <3>2, OnlyQueryKeeps
    <3>5. ListingFacts' /\ DateFacts'
      BY <1>1, <1>2, <2>4, <2>5, <2>6, <2>8, <3>3 DEF ListingFacts, DateFacts, Querying
    <3>6. PageFacts'
      <4>1. \A t \in FilterTags : Position(t)' = Position(t) /\ Position(t) > 0
        BY <1>2, <2>6, PositionsAreTyped, ListedTags, QueryFields, PositionsStay
      <4>2. (query'.page - 1) * PageSize = 0
        BY <3>3, RegistryAssumption
      <4>3. \A t \in FilterTags : Position(t) \in Nat
        BY <1>2, PositionsAreTyped, ListedTags, QueryFields
      <4> QED BY <3>3, <4>1, <4>2, <4>3 DEF PageFacts
    <3>7. SearchFacts' /\ FoundFacts' /\ AllFacts' /\ ResultFacts'
      BY <3>3 DEF SearchFacts, FoundFacts, AllFacts, ResultFacts,
         SelectedIsBest, ConfiguredRulesAreUsable, ErrorsAreJustified
    <3> QED BY <2>6, <3>4, <3>5, <3>6, <3>7 DEF IInv
  <2>9. CASE rule.sort # "created" /\ ~(rule.sort = "updated" /\ FilterTags # {})
    <3>1. query' = RankTags(listing)
      BY <2>1, <2>9
    <3> QED BY <1>1, <1>2, <2>2, <2>4, <2>5, <2>9, <3>1, RankTagsKeeps
  <2> QED BY <2>7, <2>8, <2>9
<1> QED BY <1>4, <1>5, <1>6

\* A page of dates is read.
LEMMA ReadPageKeeps ==
  ASSUME IInv, ReadPage
  PROVE  IInv'
<1> DEFINE results == Page(query.page)
           wanted == results \cap query.eligible
           updates == [t \in Tag |-> IF t \in wanted THEN hub[t].updated
                                     ELSE query.updates[t]]
           found == {t \in query.eligible : updates[t] # 0}
           fails == \/ Cardinality(Listed) > rule.maxMatchingTags
                    \/ \E t \in wanted : hub[t].updated = 0
           ends == found = query.eligible \/ LastPage(results)
           read == [query EXCEPT !.updates = updates]
<1>1. /\ query.pc = "page" /\ OnlyQuery /\ steady' = steady
      /\ fails => Fails("error")
      /\ ~fails /\ ends /\ MissingTags(updates) # {} => Fails("error")
      /\ ~fails /\ ends /\ MissingTags(updates) = {} => query' = RankTags(read)
      /\ ~fails /\ ~ends => query' = [query EXCEPT !.updates = updates, !.page = @ + 1]
  BY DEF ReadPage
<1>2. /\ rule.sort = "updated" /\ query.candidates = {}
      /\ query.outcome = "none" /\ query.selected = {}
      /\ \A t \in query.eligible : meaning[t].matches
      /\ \A t \in steady : /\ meaning[t].matches => t \in query.eligible
                           /\ query.updates[t] \in {0, hub[t].updated}
      /\ pushes = 0 => steady = Listed /\ query.eligible \subseteq Listed
  BY <1>1 DEF IInv, ListingFacts, DateFacts, Querying
<1>3. /\ rule' = rule /\ meaning' = meaning /\ hub' = hub /\ pushes' = pushes
      /\ RuleIsUsable' /\ Listed' = Listed /\ PageCount' = PageCount
  BY <1>1, OnlyQueryKeeps DEF OnlyQuery
<1>4. /\ results \subseteq Listed /\ wanted \subseteq Tag /\ query.eligible \subseteq Tag
      /\ updates \in [Tag -> Nat]
      /\ \A t \in Tag : updates[t] = IF t \in wanted THEN hub[t].updated
                                     ELSE query.updates[t]
  <2>1. results \subseteq Listed /\ query.eligible \subseteq Tag
    BY QueryFields DEF Page
  <2>2. \A t \in Tag : hub[t].updated \in Nat /\ query.updates[t] \in Nat
    BY ListedTags, QueryFields
  <2> QED BY <2>1, <2>2
<1>5. Listed \subseteq Tag /\ Cardinality(Listed) \in Nat /\ rule.maxMatchingTags \in Nat
  BY ListedTags, QueryFields DEF RuleIsUsable
<1>6. \A t \in steady : updates[t] \in {0, hub[t].updated}
  BY <1>2, <1>4, <1>5, QueryFields
<1>7. read \in QueryState /\ read.eligible = query.eligible /\ read.updates = updates
      /\ read.candidates = {} /\ read.outcome = "none" /\ read.selected = {}
  <2> HIDE DEF updates
  <2> QED BY <1>2, <1>4, QueryFields DEF QueryState
<1> HIDE DEF read
<1>8. CASE fails
  <2>1. Justified
    <3>1. CASE Cardinality(Listed) > rule.maxMatchingTags
      BY <1>2, <3>1 DEF Justified, CountsAllTags
    <3>2. CASE \E t \in wanted : hub[t].updated = 0
      <4>1. PICK t \in wanted : hub[t].updated = 0
        BY <3>2
      <4>2. t \in Listed /\ meaning[t].matches /\ hub[t].listed
        BY <1>2, <1>4, <4>1 DEF Listed
      <4>3. ~rule.mutable /\ rule.channel # "nightly"
        BY <1>2, QueryFields, ChannelsAndSorts DEF RuleIsUsable
      <4> QED BY <1>2, <4>1, <4>2, <4>3 DEF Justified, Blocks
    <3> QED BY <1>8, <3>1, <3>2
  <2> QED BY <1>1, <1>8, <2>1, FailsKeeps, QueryFields
<1>9. CASE ~fails /\ ends /\ MissingTags(updates) # {}
  <2>1. pushes = 0 => FALSE
    <3>1. SUFFICES ASSUME pushes = 0 PROVE FALSE
      OBVIOUS
    <3>2. PICK t \in query.eligible : updates[t] = 0
      BY <1>9 DEF MissingTags
    <3>3. t \in Listed /\ t \notin results /\ query.updates[t] = 0
      BY <1>2, <1>4, <1>9, <3>1, <3>2
    <3>4. Position(t) \in Nat /\ Position(t) <= Cardinality(Listed)
      BY <3>3, PositionsAreTyped, ListedTags, QueryFields
    <3> DEFINE low == (query.page - 1) * PageSize
               high == query.page * PageSize
    <3>5. ~(Position(t) <= low)
      BY <1>1, <3>1, <3>3 DEF IInv, PageFacts
    <3>6. ~(low < Position(t) /\ Position(t) <= high)
      BY <3>3 DEF Page
    <3>7. /\ low \in Int /\ high \in Int /\ query.page \in Nat \ {0}
          /\ PageSize \in Nat \ {0}
      BY PagesSuffice, QueryFields, RegistryAssumption
    <3>8. LastPage(results)
      BY <1>9, <3>2
    <3> HIDE DEF low, results
    <3>9. high < Cardinality(Listed)
      <4> HIDE DEF high
      <4> QED BY <1>5, <3>4, <3>5, <3>6, <3>7
    <3>10. CASE Cardinality(results) < PageSize
      <4>1. Cardinality(results) >= PageSize
        <5>1. high <= Cardinality(Listed)
          <6> HIDE DEF high
          <6> QED BY <1>5, <3>7, <3>9
        <5> QED BY <3>7, <5>1, PagesAreFull, QueryFields DEF results
      <4>2. Cardinality(results) \in Nat
        BY <1>4, FS_Subset, FS_CardinalityType, ListedTags, QueryFields
      <4> QED BY <3>7, <3>10, <4>1, <4>2
    <3>11. CASE high >= Cardinality(Listed)
      <4> HIDE DEF high
      <4> QED BY <1>5, <3>7, <3>9, <3>11
    <3>12. CASE query.page = PageCount
      <4>1. rule.maxMatchingTags <= high
        BY <3>12, PagesSuffice, QueryFields
      <4>2. Cardinality(Listed) <= rule.maxMatchingTags
        BY <1>5, <1>9
      <4> HIDE DEF high
      <4> QED BY <1>5, <3>7, <3>9, <4>1, <4>2
    <3> QED BY <3>8, <3>10, <3>11, <3>12 DEF LastPage
  <2> QED BY <1>1, <1>9, <2>1, FailsKeeps, QueryFields
<1>10. CASE ~fails /\ ends /\ MissingTags(updates) = {}
  <2>1. query' = RankTags(read)
    BY <1>1, <1>10
  <2>2. \A t \in query.eligible : updates[t] # 0
    BY <1>10 DEF MissingTags
  <2>3. rule.sort # "created"
    BY <1>2
  <2>4. steady' \subseteq Listed /\ steady' = steady
    BY <1>1, QueryFields
  <2> HIDE DEF updates
  <2> QED BY <1>1, <1>2, <1>6, <1>7, <2>1, <2>2, <2>3, <2>4, RankTagsKeeps
<1>11. CASE ~fails /\ ~ends
  <2> HIDE DEF updates
  <2>1. query' = [query EXCEPT !.updates = updates, !.page = @ + 1]
    BY <1>1, <1>11
  <2>2. query.page + 1 \in 1..PageCount
    <3>1. query.page # PageCount
      BY <1>11 DEF LastPage
    <3> QED BY <3>1, PagesSuffice, QueryFields
  <2>3. query' \in QueryState
    BY <1>4, <2>1, <2>2, QueryFields DEF QueryState
  <2>4. /\ query'.pc = "page" /\ query'.eligible = query.eligible
        /\ query'.updates = updates /\ query'.page = query.page + 1
        /\ query'.candidates = {} /\ query'.outcome = "none" /\ query'.selected = {}
    BY <1>1, <1>2, <2>1, QueryFields DEF QueryState
  <2>5. TypeOK'
    BY <1>1, <2>3, OnlyQueryKeeps, QueryFields
  <2>6. ListingFacts' /\ DateFacts'
    BY <1>1, <1>2, <1>3, <1>6, <2>4, QueryFields DEF ListingFacts, DateFacts, Querying
  <2>7. PageFacts'
    <3>1. SUFFICES ASSUME pushes = 0, NEW t \in query.eligible,
                          Position(t) <= query.page * PageSize
                   PROVE  updates[t] # 0
      <4>1. (query'.page - 1) * PageSize = query.page * PageSize
        BY <2>4, PagesSuffice, QueryFields
      <4> QED BY <1>3, <2>4, <4>1, PositionsStay DEF PageFacts
    <3>2. t \in Listed /\ t \in Tag
      BY <1>2, <1>4, <3>1
    <3>3. CASE t \in wanted
      BY <1>4, <1>11, <3>2, <3>3
    <3>4. CASE t \notin wanted
      <4>1. t \notin results
        BY <3>1, <3>4
      <4>2. Position(t) <= (query.page - 1) * PageSize
        <5>1. Position(t) \in Nat /\ (query.page - 1) * PageSize \in Int
          BY <3>2, PositionsAreTyped, ListedTags, PagesSuffice, QueryFields,
             RegistryAssumption
        <5>2. ~((query.page - 1) * PageSize < Position(t))
          BY <3>1, <3>2, <4>1 DEF Page
        <5> QED BY <5>1, <5>2
      <4>3. query.updates[t] # 0
        BY <1>1, <3>1, <4>2 DEF IInv, PageFacts
      <4> QED BY <1>4, <3>2, <3>4, <4>3
    <3> QED BY <3>3, <3>4
  <2>8. SearchFacts' /\ FoundFacts' /\ AllFacts' /\ ResultFacts'
    BY <2>4 DEF SearchFacts, FoundFacts, AllFacts, ResultFacts,
       SelectedIsBest, ConfiguredRulesAreUsable, ErrorsAreJustified
  <2> QED BY <1>3, <2>5, <2>6, <2>7, <2>8 DEF IInv
<1> QED BY <1>8, <1>9, <1>10, <1>11

\* The next tag in rank order is the first of those left.
LEMMA NextInRankOrder ==
  ASSUME IInv, query.left # {}, EndsSearch
  PROVE  /\ NextTag \in query.left
         /\ \A s \in query.left \ {NextTag} :
              VS!RanksBefore(rule, meaning, TagCandidate(NextTag, query.updates),
                             TagCandidate(s, query.updates))
<1> DEFINE S == TagCandidates(query.left, query.updates)
           f == VS!First(rule, meaning, S)
<1>1. /\ S \in SUBSET Candidate
      /\ \A t \in query.left : TagCandidate(t, query.updates) \in S
      /\ \A c \in S : c.tag \in query.left /\ c = TagCandidate(c.tag, query.updates)
      /\ \A a, b \in S : a.tag = b.tag => a = b
  BY QueryFields, TagCandidatesAreTyped
<1>2. NextTag = f.tag
  BY DEF NextTag
<1> HIDE DEF S
<1>3. S # {}
  BY <1>1
<1>4. f \in S /\ \A b \in S \ {f} : VS!RanksBefore(rule, meaning, f, b)
  BY <1>1, <1>3, FirstRanksBefore, QueryFields
<1> HIDE DEF f
<1>5. f = TagCandidate(NextTag, query.updates) /\ NextTag \in query.left
  BY <1>1, <1>2, <1>4
<1>6. \A s : TagCandidate(s, query.updates).tag = s
  BY DEF TagCandidate
<1>7. \A s \in query.left \ {NextTag} : TagCandidate(s, query.updates) \in S \ {f}
  BY <1>1, <1>5, <1>6
<1> QED BY <1>4, <1>5, <1>7

\* The next tag by name is one of those left.
LEMMA NextByName ==
  ASSUME IInv, query.left # {}, ~EndsSearch
  PROVE  NextTag \in query.left
<1> DEFINE R == {p \in Int \X Int : p[1] < p[2]}
<1>1. /\ query.left \in SUBSET Tag /\ \A x \in query.left : x \in Int
      /\ IsFiniteSet(query.left)
  <2>1. IsFiniteSet(Tag)
    BY RegistryAssumption, FS_Interval DEF Tag
  <2>2. query.left \in SUBSET Tag
    BY QueryFields
  <2>3. IsFiniteSet(query.left)
    BY <2>1, <2>2, FS_Subset
  <2> QED BY <2>2, <2>3, RegistryAssumption DEF Tag
<1>2. \A x, y \in Int : <<x, y>> \in R <=> x < y
  OBVIOUS
<1> HIDE DEF R
<1>3. \A x, y \in query.left : x # y => <<x, y>> \in R \/ <<y, x>> \in R
  BY <1>1, <1>2
<1>4. \A x, y, z \in query.left : <<x, y>> \in R /\ <<y, z>> \in R => <<x, z>> \in R
  BY <1>1, <1>2
<1>5. PICK t \in query.left : \A s \in query.left \ {t} : <<t, s>> \in R
  BY <1>1, <1>3, <1>4, OrderedSetHasFirst
<1>6. \A s \in query.left : t <= s
  <2>1. SUFFICES ASSUME NEW s \in query.left, s # t PROVE t <= s
    BY <1>1
  <2>2. t \in Int /\ s \in Int /\ <<t, s>> \in R
    BY <1>1, <1>5, <2>1
  <2>3. t < s
    BY <1>2, <2>2
  <2> QED BY <2>2, <2>3
<1> QED BY <1>5, <1>6 DEF NextTag

\* The next tag is inspected.
LEMMA InspectNextKeeps ==
  ASSUME IInv, InspectNext
  PROVE  IInv'
<1> DEFINE t == NextTag
<1>1. /\ query.pc = "inspect" /\ query.left # {} /\ OnlyQuery /\ steady' = steady
      /\ ~hub[t].listed => Fails("error")
      /\ hub[t].listed /\ ~hub[t].has =>
           query' = [query EXCEPT !.left = @ \ {t}, !.missing = TRUE]
      /\ hub[t].listed /\ hub[t].has =>
           query' = [query EXCEPT !.left = @ \ {t}, !.candidates = @ \cup {Inspected(t)},
                                  !.pc = IF EndsSearch THEN "select" ELSE @]
  BY DEF InspectNext
<1>2. /\ query.outcome = "none" /\ query.selected = {}
      /\ \A s \in query.eligible : meaning[s].matches
      /\ \A s \in steady : /\ meaning[s].matches => s \in query.eligible
                           /\ query.updates[s] \in {0, hub[s].updated}
      /\ rule.sort = "updated" => \A s \in query.eligible : query.updates[s] # 0
      /\ pushes = 0 => steady = Listed /\ query.eligible \subseteq Listed
  BY <1>1 DEF IInv, ListingFacts, DateFacts, Querying
<1>3. /\ rule' = rule /\ meaning' = meaning /\ hub' = hub /\ pushes' = pushes
      /\ RuleIsUsable' /\ Listed' = Listed /\ EndsSearch' = EndsSearch
  BY <1>1, OnlyQueryKeeps DEF OnlyQuery
<1>4. t \in query.left /\ t \in query.eligible /\ t \in Tag
  <2>1. t \in query.left
    BY <1>1, NextInRankOrder, NextByName
  <2>2. query.left \subseteq query.eligible
    BY <1>1 DEF IInv, SearchFacts, AllFacts, MappedTags, Taken
  <2> QED BY <2>1, <2>2, QueryFields
<1>5. /\ Inspected(t) \in Candidate /\ Inspected(t).tag = t /\ Inspected(t).digest
      /\ Inspected(t).created = hub[t].created
      /\ Inspected(t).updated = query.updates[t]
  <2>1. hub[t].created \in Nat /\ query.updates[t] \in Nat
    BY <1>4, ListedTags, QueryFields
  <2> QED BY <1>4, <2>1 DEF Inspected, Candidate, VS!Candidate
<1>6. CASE ~hub[t].listed
  <2>1. pushes = 0 => FALSE
    BY <1>2, <1>4, <1>6 DEF Listed
  <2> QED BY <1>1, <1>6, <2>1, FailsKeeps, QueryFields
<1>7. CASE hub[t].listed /\ ~hub[t].has
  <2>1. query' = [query EXCEPT !.left = query.left \ {t}, !.missing = TRUE]
    BY <1>1, <1>7
  <2>2. query' \in QueryState
    BY <2>1, QueryFields DEF QueryState
  <2>3. /\ query'.pc = "inspect" /\ query'.left = query.left \ {t}
        /\ query'.missing = TRUE /\ query'.eligible = query.eligible
        /\ query'.updates = query.updates /\ query'.candidates = query.candidates
        /\ query'.outcome = "none" /\ query'.selected = {}
    BY <1>1, <1>2, <2>1, QueryFields DEF QueryState
  <2>4. TypeOK'
    BY <1>1, <2>2, OnlyQueryKeeps, QueryFields
  <2>5. ListingFacts' /\ DateFacts'
    BY <1>1, <1>2, <1>3, <2>3, QueryFields DEF ListingFacts, DateFacts, Querying
  <2>6. SearchFacts'
    <3>1. MappedTags' = MappedTags /\ (NoneBlocks(query.eligible)' <=> NoneBlocks(query.eligible))
      BY <1>3, <2>3 DEF MappedTags, Taken, NoneBlocks, VS!InChannel, VS!SkipsUnmappable
    <3> QED BY <1>1, <1>3, <1>7, <2>3, <3>1 DEF IInv, SearchFacts
  <2>7. AllFacts'
    BY <1>1, <1>3, <1>7, <2>3 DEF IInv, AllFacts
  <2>8. PageFacts' /\ FoundFacts' /\ ResultFacts'
    BY <2>3 DEF PageFacts, FoundFacts, ResultFacts, SelectedIsBest,
       ConfiguredRulesAreUsable, ErrorsAreJustified
  <2> QED BY <1>3, <2>4, <2>5, <2>6, <2>7, <2>8 DEF IInv
<1>8. CASE hub[t].listed /\ hub[t].has /\ EndsSearch
  <2>1. query' = [query EXCEPT !.left = query.left \ {t},
                    !.candidates = query.candidates \cup {Inspected(t)}, !.pc = "select"]
    BY <1>1, <1>8
  <2>2. query' \in QueryState
    BY <1>5, <2>1, QueryFields DEF QueryState, QueryPC
  <2>3. query.candidates = {}
    BY <1>1, <1>8 DEF IInv, SearchFacts
  <2>4. /\ query'.pc = "select" /\ query'.candidates = {Inspected(t)}
        /\ query'.eligible = query.eligible /\ query'.updates = query.updates
        /\ query'.outcome = "none" /\ query'.selected = {}
    BY <1>2, <2>1, <2>3, QueryFields DEF QueryState
  <2>5. TypeOK'
    BY <1>1, <2>2, OnlyQueryKeeps, QueryFields
  <2>6. ListingFacts' /\ DateFacts'
    BY <1>1, <1>2, <1>3, <2>4, QueryFields DEF ListingFacts, DateFacts, Querying
  <2>7. MappedTags' = MappedTags /\ (NoneBlocks(query.eligible)' <=> NoneBlocks(query.eligible))
    BY <1>3, <2>4 DEF MappedTags, Taken, NoneBlocks, VS!InChannel, VS!SkipsUnmappable
  <2>8. /\ query.left \subseteq MappedTags /\ NoneBlocks(query.eligible)
        /\ \A s \in MappedTags \ query.left : s \in steady => ~hub[s].has
    BY <1>1, <1>8 DEF IInv, SearchFacts
  <2>9. \A s \in MappedTags \ {t} : s \in steady /\ hub[s].has =>
          VS!RanksBefore(rule, meaning, Inspected(t), TagCandidate(s, query.updates))
    <3>1. SUFFICES ASSUME NEW s \in MappedTags \ {t}, s \in steady, hub[s].has
                   PROVE  VS!RanksBefore(rule, meaning, Inspected(t),
                                         TagCandidate(s, query.updates))
      OBVIOUS
    <3>2. s \in query.left \ {t}
      BY <2>8, <3>1
    <3>3. VS!RanksBefore(rule, meaning, TagCandidate(t, query.updates),
                         TagCandidate(s, query.updates))
      BY <1>1, <1>8, <3>2, NextInRankOrder
    <3>4. /\ TagCandidate(t, query.updates).tag = Inspected(t).tag
          /\ TagCandidate(t, query.updates).updated = Inspected(t).updated
      BY <1>5 DEF TagCandidate
    <3> QED BY <1>8, <3>3, <3>4 DEF VS!RanksBefore, VS!VersionFirst, EndsSearch
  <2> DEFINE new == Inspected(t)
  <2>10. new \in query'.candidates /\ new.tag = t /\ new.updated = query.updates[t]
         /\ new.digest /\ t \in MappedTags
    BY <1>4, <1>5, <2>4, <2>8
  <2> HIDE DEF new, t
  <2>11. FoundFacts'
    <3>1. \A s \in MappedTags \ {t} : s \in steady /\ hub[s].has =>
            VS!RanksBefore(rule, meaning, new, TagCandidate(s, query.updates))
      BY <2>9 DEF new
    <3>2. query'.candidates = {new}
      BY <2>4 DEF new
    <3>3. \A c \in query'.candidates :
            /\ query'.candidates = {c} /\ c.digest /\ c.tag \in MappedTags
            /\ c.updated = query'.updates[c.tag]
            /\ \A s \in MappedTags \ {c.tag} : s \in steady /\ hub[s].has =>
                 VS!RanksBefore(rule, meaning, c, TagCandidate(s, query'.updates))
      BY <2>4, <2>10, <3>1, <3>2
    <3>4. \A c \in query'.candidates :
            /\ query'.candidates = {c} /\ c.digest /\ c.tag \in MappedTags'
            /\ c.updated = query'.updates[c.tag]
            /\ \A s \in MappedTags' \ {c.tag} : s \in steady' /\ hub'[s].has =>
                 VS!RanksBefore(rule', meaning', c, TagCandidate(s, query'.updates))
      BY <1>1, <1>3, <2>7, <3>3
    <3> QED BY <2>7, <2>8, <2>10, <3>4 DEF FoundFacts, Found
  <2>12. PageFacts' /\ SearchFacts' /\ AllFacts' /\ ResultFacts'
    BY <1>3, <1>8, <2>4 DEF PageFacts, SearchFacts, AllFacts, ResultFacts,
       SelectedIsBest, ConfiguredRulesAreUsable, ErrorsAreJustified
  <2> QED BY <1>3, <2>5, <2>6, <2>11, <2>12 DEF IInv
<1>9. CASE hub[t].listed /\ hub[t].has /\ ~EndsSearch
  <2>1. query' = [query EXCEPT !.left = query.left \ {t},
                    !.candidates = query.candidates \cup {Inspected(t)}]
    BY <1>1, <1>9, QueryFields DEF QueryState
  <2>2. query' \in QueryState
    BY <1>5, <2>1, QueryFields DEF QueryState
  <2>3. /\ query'.pc = "inspect" /\ query'.left = query.left \ {t}
        /\ query'.candidates = query.candidates \cup {Inspected(t)}
        /\ query'.eligible = query.eligible /\ query'.updates = query.updates
        /\ query'.missing = query.missing
        /\ query'.outcome = "none" /\ query'.selected = {}
    BY <1>1, <1>2, <2>1, QueryFields DEF QueryState
  <2>4. TypeOK'
    BY <1>1, <2>2, OnlyQueryKeeps, QueryFields
  <2>5. ListingFacts' /\ DateFacts'
    BY <1>1, <1>2, <1>3, <2>3, QueryFields DEF ListingFacts, DateFacts, Querying
  <2>6. AllFacts'
    <3>1. /\ query.left \subseteq query.eligible
          /\ \A c \in query.candidates :
               /\ c.digest /\ c.tag \in query.eligible \ query.left
               /\ c.tag \in steady => c.created = hub[c.tag].created
          /\ \A a, b \in query.candidates : a.tag = b.tag => a = b
          /\ \A s \in query.eligible \ query.left :
               s \in steady /\ hub[s].has => \E c \in query.candidates : c.tag = s
      BY <1>1, <1>9 DEF IInv, AllFacts
    <3> DEFINE new == Inspected(t)
    <3>2. /\ new.tag = t /\ new.digest /\ new.created = hub[t].created
          /\ t \in query.left /\ t \in query.eligible
      BY <1>4, <1>5
    <3> HIDE DEF new, t
    <3>3. \A c \in query'.candidates :
            /\ c.digest /\ c.tag \in query.eligible \ (query.left \ {t})
            /\ c.tag \in steady => c.created = hub[c.tag].created
      BY <2>3, <3>1, <3>2 DEF new
    <3>4. \A a, b \in query'.candidates : a.tag = b.tag => a = b
      BY <2>3, <3>1, <3>2 DEF new
    <3>5. \A s \in query.eligible \ (query.left \ {t}) :
            s \in steady /\ hub[s].has => \E c \in query'.candidates : c.tag = s
      BY <2>3, <3>1, <3>2 DEF new
    <3>6. query'.candidates # {}
      BY <2>3
    <3> QED BY <1>1, <1>3, <2>3, <3>1, <3>3, <3>4, <3>5, <3>6 DEF AllFacts
  <2>7. PageFacts' /\ SearchFacts' /\ FoundFacts' /\ ResultFacts'
    BY <1>3, <1>9, <2>3 DEF PageFacts, SearchFacts, FoundFacts, ResultFacts,
       SelectedIsBest, ConfiguredRulesAreUsable, ErrorsAreJustified
  <2> QED BY <1>3, <2>4, <2>5, <2>6, <2>7 DEF IInv
<1> QED BY <1>6, <1>7, <1>8, <1>9

-----------------------------------------------------------------------------
(* The inductive invariant: the selection                                   *)

\* A matching tag that was there all along is among the eligible ones; in rank
\* order it is among those mapped if it is suitable.
LEMMA SteadyTagsAreConsidered ==
  ASSUME IInv, query.pc \in {"inspect", "select"}, NEW t \in steady, Suitable(t)
  PROVE  t \in Tag /\ t \in query.eligible /\ (EndsSearch => t \in MappedTags)
<1>1. t \in Tag /\ meaning[t].matches
  BY QueryFields, ListedTags DEF Suitable
<1>2. t \in query.eligible
  BY <1>1 DEF IInv, ListingFacts, Querying
<1>3. EndsSearch => t \in MappedTags
  BY <1>1, <1>2, QueryFields, TakenAreSuitable DEF EndsSearch, MappedTags, Taken
<1> QED BY <1>1, <1>2, <1>3

\* Without a candidate, no suitable tag has the platform.
LEMMA NoCandidateIsAReason ==
  ASSUME IInv, query.pc \in {"inspect", "select"}, query.left = {}, pushes = 0,
         query.candidates = {}, EndsSearch => query.pc = "inspect"
  PROVE  Justified
<1>1. SUFFICES ASSUME NEW t \in Listed, Suitable(t), hub[t].has PROVE FALSE
  BY DEF Justified
<1>2. t \in steady
  BY <1>1 DEF IInv, ListingFacts, Querying
<1>3. t \in query.eligible /\ (EndsSearch => t \in MappedTags)
  BY <1>1, <1>2, SteadyTagsAreConsidered
<1>4. CASE EndsSearch
  BY <1>1, <1>2, <1>3, <1>4 DEF IInv, SearchFacts
<1>5. CASE ~EndsSearch
  BY <1>1, <1>2, <1>3, <1>5 DEF IInv, AllFacts
<1> QED BY <1>4, <1>5

\* All tags are inspected.
LEMMA InspectionEndsKeeps ==
  ASSUME IInv, InspectionEnds
  PROVE  IInv'
<1>1. /\ query.pc = "inspect" /\ query.left = {} /\ OnlyQuery /\ steady' = steady
      /\ query.candidates = {} /\ query.missing => Fails("error")
      /\ ~(query.candidates = {} /\ query.missing) =>
           query' = [query EXCEPT !.pc = "select"]
  BY DEF InspectionEnds
<1>2. CASE query.candidates = {} /\ query.missing
  BY <1>1, <1>2, NoCandidateIsAReason, FailsKeeps, QueryFields
<1>3. CASE ~(query.candidates = {} /\ query.missing)
  <2>1. query' = [query EXCEPT !.pc = "select"]
    BY <1>1, <1>3
  <2>2. query' \in QueryState
    BY <2>1, QueryFields DEF QueryState, QueryPC
  <2>3. /\ query'.pc = "select" /\ query'.left = query.left
        /\ query'.eligible = query.eligible /\ query'.updates = query.updates
        /\ query'.candidates = query.candidates /\ query'.missing = query.missing
        /\ query'.outcome = query.outcome /\ query'.selected = query.selected
    BY <2>1, QueryFields DEF QueryState
  <2>4. /\ rule' = rule /\ meaning' = meaning /\ hub' = hub /\ pushes' = pushes
        /\ RuleIsUsable' /\ Listed' = Listed /\ EndsSearch' = EndsSearch
    BY <1>1, OnlyQueryKeeps DEF OnlyQuery
  <2>5. ~EndsSearch
    BY <1>1, <1>3 DEF IInv, SearchFacts
  <2>6. query.outcome = "none" /\ query.selected = {}
    BY <1>1 DEF IInv, ListingFacts
  <2>7. TypeOK'
    BY <1>1, <2>2, OnlyQueryKeeps, QueryFields
  <2>8. ListingFacts' /\ DateFacts'
    <3>1. /\ \A t \in query.eligible : meaning[t].matches
          /\ \A t \in steady : /\ meaning[t].matches => t \in query.eligible
                               /\ query.updates[t] \in {0, hub[t].updated}
          /\ rule.sort = "updated" => \A t \in query.eligible : query.updates[t] # 0
          /\ pushes = 0 => steady = Listed /\ query.eligible \subseteq Listed
      BY <1>1 DEF IInv, ListingFacts, DateFacts, Querying
    <3> QED BY <1>1, <2>3, <2>4, <2>6, <3>1, QueryFields
            DEF ListingFacts, DateFacts, Querying
  <2>9. AllFacts'
    BY <1>1, <2>3, <2>4, <2>5 DEF IInv, AllFacts
  <2>10. PageFacts' /\ SearchFacts' /\ FoundFacts' /\ ResultFacts'
    BY <2>3, <2>4, <2>5, <2>6 DEF PageFacts, SearchFacts, FoundFacts, ResultFacts,
       SelectedIsBest, ConfiguredRulesAreUsable, ErrorsAreJustified
  <2> QED BY <2>4, <2>7, <2>8, <2>9, <2>10 DEF IInv
<1> QED BY <1>2, <1>3

Selection == VS!Selected(rule, meaning, query.candidates)

\* The tags the ranking refused give an error for a reason.
LEMMA RefusedIsJustified ==
  ASSUME IInv, query.pc = "select", EndsSearch, Refused
  PROVE  Selection.error \in {"tag", "none"} /\ (pushes = 0 => Justified)
<1>1. /\ rule.sort # "created" /\ ~rule.mutable
      /\ rule.channel \in {"stable", "beta", "date", "custom"}
  BY QueryFields, ChannelsAndSorts DEF EndsSearch, RuleIsUsable
<1>2. Selection = Ranking(query.eligible, query.updates)
  BY <1>1 DEF Selection, Refused, Ranking, VS!Selected, VS!Select
<1>3. Selection.error # ""
  BY <1>1 DEF Selection, Refused, VS!Selected, VS!Select
<1>4. /\ \A t \in query.eligible : meaning[t].matches
      /\ pushes = 0 => steady = Listed /\ query.eligible \subseteq Listed
      /\ rule.sort = "updated" => \A t \in query.eligible : query.updates[t] # 0
  BY DEF IInv, ListingFacts, DateFacts, Querying
<1>5. \/ Selection.error = "tag" /\ ~NoneBlocks(query.eligible)
      \/ Selection.error = "none" /\ Taken(query.eligible) = {}
  BY <1>2, <1>3, <1>4, QueryFields, RankOfTags
<1>6. ASSUME pushes = 0, ~NoneBlocks(query.eligible) PROVE Justified
  <2>1. PICK t \in query.eligible : \/ meaning[t].kind = "huge"
                                    \/ /\ meaning[t].kind = "unmappable"
                                       /\ ~VS!SkipsUnmappable(rule)
    BY <1>6 DEF NoneBlocks
  <2>2. t \in Listed /\ hub[t].listed /\ meaning[t].matches
    BY <1>4, <1>6 DEF Listed
  <2>3. Blocks(t)
    BY <1>1, <2>1, <2>2 DEF Blocks, VS!SkipsUnmappable
  <2> QED BY <2>2, <2>3 DEF Justified
<1>7. ASSUME pushes = 0, Taken(query.eligible) = {} PROVE Justified
  <2>1. SUFFICES ASSUME NEW t \in Listed, Suitable(t) PROVE FALSE
    BY DEF Justified
  <2>2. t \in MappedTags
    BY <1>4, <1>7, <2>1, SteadyTagsAreConsidered
  <2> QED BY <1>7, <2>2 DEF MappedTags
<1> QED BY <1>5, <1>6, <1>7

\* The tag found is ranked alone, and is the best.
LEMMA FoundIsBest ==
  ASSUME IInv, query.pc = "select", EndsSearch, NEW c \in query.candidates, Found(c)
  PROVE  /\ Selection.error = "" /\ VS!First(rule, meaning, Selection.ranked) = c
         /\ IsBest(c)
<1>1. /\ rule.sort # "created" /\ ~rule.mutable /\ rule.channel # "nightly"
      /\ VS!ValidRule(rule)
  BY QueryFields, ChannelsAndSorts DEF EndsSearch, RuleIsUsable
<1>2. /\ c \in Candidate /\ query.candidates = {c} /\ c.digest
      /\ c.tag \in Tag /\ c.tag \in query.eligible
      /\ meaning[c.tag].kind = "version" /\ VS!InChannel(rule, meaning[c.tag])
      /\ c.updated = query.updates[c.tag]
      /\ \A t \in MappedTags \ {c.tag} : t \in steady /\ hub[t].has =>
           VS!RanksBefore(rule, meaning, c, TagCandidate(t, query.updates))
  BY QueryFields DEF Found, MappedTags, Taken
<1>3. /\ meaning[c.tag].matches
      /\ \A t \in steady : query.updates[t] \in {0, hub[t].updated}
      /\ rule.sort = "updated" => \A t \in query.eligible : query.updates[t] # 0
  BY <1>2 DEF IInv, ListingFacts, DateFacts, Querying
<1>4. VS!Filtered(meaning, {c}) = {c} /\ VS!Mapped(rule, meaning, {c}) = {c}
  BY <1>2, <1>3 DEF VS!Filtered, VS!Mapped
<1>5. ~VS!Blocked(rule, meaning, c)
  BY <1>2, <1>3 DEF VS!Blocked
<1>6. VS!RankMappedCandidates(rule, meaning, {c}) = VS!Ranked({c})
  BY <1>4, <1>5 DEF VS!RankMappedCandidates
<1>7. Selection = VS!Ranked({c})
  BY <1>1, <1>2, <1>4, <1>6 DEF Selection, VS!Selected, VS!Select, VS!Rank
<1>8. Selection.error = "" /\ Selection.ranked = {c}
  BY <1>7 DEF VS!Ranked
<1>9. VS!First(rule, meaning, {c}) = c
  BY DEF VS!First
<1>10. Suitable(c.tag)
  BY <1>1, <1>2, <1>3, QueryFields, TakenAreSuitable
<1>11. ASSUME NEW t \in steady \ {c.tag}, hub[t].has, Suitable(t)
       PROVE  HigherScore(Score(c.tag, c.created, c.updated),
                          Score(t, hub[t].created, hub[t].updated))
  <2>1. t \in Tag /\ t \in query.eligible /\ t \in MappedTags
    BY <1>11, SteadyTagsAreConsidered
  <2> DEFINE b == TagCandidate(t, query.updates)
  <2>2. b \in Candidate
    BY <2>1, QueryFields DEF TagCandidate, Candidate, VS!Candidate
  <2>3. b.tag = t /\ b.updated = query.updates[t]
    BY DEF TagCandidate
  <2>4. VS!RanksBefore(rule, meaning, c, b)
    BY <1>2, <1>11, <2>1
  <2> HIDE DEF b
  <2>5. rule.sort = "updated" => b.updated = hub[t].updated
    BY <1>3, <1>11, <2>1, <2>3
  <2> QED BY <1>1, <1>2, <1>11, <2>1, <2>2, <2>3, <2>4, <2>5, QueryFields,
             RanksBeforeScoresHigher
<1> QED BY <1>2, <1>8, <1>9, <1>10, <1>11 DEF IsBest

\* The selection among all candidates takes suitable ones, or has a reason not to.
LEMMA SelectionOfAll ==
  ASSUME IInv, query.pc = "select", ~EndsSearch
  PROVE  \/ Selection.error \in {"tag", "none"} /\ (pushes = 0 => Justified)
         \/ /\ Selection.error = "" /\ Selection.ranked = query.candidates
            /\ query.candidates # {} /\ \A c \in query.candidates : Suitable(c.tag)
<1> DEFINE S == query.candidates
<1>1. /\ rule.sort = "created" /\ VS!ValidRule(rule)
      /\ rule.channel \in {"nightly", "custom"}
      /\ rule.mutable => rule.channel = "custom" /\ rule.tagRegex /\ rule.versionRegex = ""
  BY QueryFields, ChannelsAndSorts DEF EndsSearch, RuleIsUsable
<1>2. /\ \A c \in S : /\ meaning[c.tag].matches /\ c.tag \in Tag /\ c.digest
                      /\ pushes = 0 => /\ c.tag \in Listed /\ hub[c.tag].listed
                                       /\ c.created = hub[c.tag].created
      /\ query.left = {}
  BY QueryFields DEF IInv, ListingFacts, AllFacts, Querying, Listed
<1>3. VS!Filtered(meaning, S) = S
  BY <1>2 DEF VS!Filtered
<1>4. S = {} /\ pushes = 0 => Justified
  BY <1>2, NoCandidateIsAReason
<1>5. CASE rule.mutable
  <2>1. Selection = IF \E c \in S : c.created = 0 THEN VS!RankError("tag")
                    ELSE IF S = {} THEN VS!RankError("none") ELSE VS!Ranked(S)
    BY <1>1, <1>3, <1>5 DEF Selection, VS!Selected, VS!SelectMutable
  <2>2. \A c \in S : c.created = 0 /\ pushes = 0 => Justified
    BY <1>2, <1>5 DEF Justified, Blocks
  <2>3. \A c \in S : Suitable(c.tag)
    BY <1>2, <1>5 DEF Suitable
  <2> QED BY <1>4, <2>1, <2>2, <2>3 DEF VS!RankError, VS!Ranked
<1>6. CASE ~rule.mutable /\ rule.channel = "nightly"
  <2>1. Selection = VS!SelectNightly(rule, meaning, S)
    BY <1>1, <1>6 DEF Selection, VS!Selected, VS!Select
  <2>2. \A c \in S : c.created = 0 /\ pushes = 0 => Justified
    BY <1>2, <1>6 DEF Justified, Blocks
  <2>3. \A c \in S : Suitable(c.tag)
    BY <1>2, <1>6 DEF Suitable
  <2>4. CASE S = {}
    BY <1>3, <1>4, <2>1, <2>4 DEF VS!SelectNightly, VS!RankError
  <2>5. CASE S # {}
    <3>1. VS!First(rule, meaning, S) \in S
      BY <2>5, QueryFields, FirstRanksBefore DEF IInv, AllFacts
    <3> QED BY <1>2, <1>3, <2>1, <2>2, <2>3, <2>5, <3>1
            DEF VS!SelectNightly, VS!RankError, VS!Ranked
  <2> QED BY <2>4, <2>5
<1>7. CASE ~rule.mutable /\ rule.channel = "custom"
  <2>1. Selection = IF S = {} THEN VS!RankError("none")
                    ELSE VS!RankMappedCandidates(rule, meaning, S)
    BY <1>1, <1>3, <1>7 DEF Selection, VS!Selected, VS!Select, VS!Rank
  <2>2. CASE S = {}
    BY <1>4, <2>1, <2>2 DEF VS!RankError
  <2>3. CASE S # {} /\ \E c \in S : VS!Blocked(rule, meaning, c)
    <3>1. Selection = VS!RankError("tag")
      BY <2>1, <2>3 DEF VS!RankMappedCandidates
    <3>2. PICK c \in S : VS!Blocked(rule, meaning, c)
      BY <2>3
    <3>3. pushes = 0 => Blocks(c.tag) /\ c.tag \in Listed
      BY <1>1, <1>2, <1>7, <3>2 DEF VS!Blocked, Blocks
    <3> QED BY <3>1, <3>3 DEF VS!RankError, Justified
  <2>4. CASE S # {} /\ ~ \E c \in S : VS!Blocked(rule, meaning, c)
    <3>1. \A c \in S : meaning[c.tag].kind = "version" /\ VS!InChannel(rule, meaning[c.tag])
      <4>1. SUFFICES ASSUME NEW c \in S
                     PROVE  /\ meaning[c.tag].kind = "version"
                            /\ VS!InChannel(rule, meaning[c.tag])
        OBVIOUS
      <4>2. meaning[c.tag].kind \in {"unmappable", "huge", "version"}
        BY <1>2, MeaningsAreTyped, QueryFields
      <4> QED BY <1>7, <2>4, <4>2 DEF VS!Blocked, VS!SkipsUnmappable, VS!InChannel
    <3>2. VS!Mapped(rule, meaning, S) = S
      BY <3>1 DEF VS!Mapped
    <3>3. Selection = VS!Ranked(S)
      BY <2>1, <2>4, <3>2 DEF VS!RankMappedCandidates
    <3>4. \A c \in S : Suitable(c.tag)
      BY <1>2, <1>7, <3>1 DEF Suitable
    <3> QED BY <2>4, <3>3, <3>4 DEF VS!Ranked
  <2> QED BY <2>2, <2>3, <2>4
<1> QED BY <1>1, <1>5, <1>6, <1>7

\* The first of all candidates is the best.
LEMMA FirstOfAllIsBest ==
  ASSUME IInv, query.pc = "select", ~EndsSearch, query.candidates # {},
         \A c \in query.candidates : Suitable(c.tag)
  PROVE  /\ VS!First(rule, meaning, query.candidates) \in query.candidates
         /\ IsBest(VS!First(rule, meaning, query.candidates))
<1> DEFINE c == VS!First(rule, meaning, query.candidates)
<1>1. /\ query.left = {} /\ rule.sort = "created"
      /\ \A a \in query.candidates :
           a.digest /\ (a.tag \in steady => a.created = hub[a.tag].created)
      /\ \A a, b \in query.candidates : a.tag = b.tag => a = b
      /\ \A t \in query.eligible :
           t \in steady /\ hub[t].has => \E b \in query.candidates : b.tag = t
  <2>1. rule.sort = "created"
    BY DEF EndsSearch
  <2> QED BY <2>1 DEF IInv, AllFacts
<1>2. /\ c \in query.candidates
      /\ \A b \in query.candidates \ {c} : VS!RanksBefore(rule, meaning, c, b)
  BY <1>1, QueryFields, FirstRanksBefore
<1> HIDE DEF c
<1>3. c \in Candidate /\ c.digest /\ Suitable(c.tag)
  BY <1>1, <1>2, QueryFields
<1>4. ASSUME NEW t \in steady \ {c.tag}, hub[t].has, Suitable(t)
      PROVE  HigherScore(Score(c.tag, c.created, c.updated),
                         Score(t, hub[t].created, hub[t].updated))
  <2>1. t \in Tag /\ t \in query.eligible
    BY <1>4, SteadyTagsAreConsidered
  <2>2. PICK b \in query.candidates : b.tag = t
    BY <1>1, <1>4, <2>1
  <2>3. b \in Candidate /\ b.created = hub[t].created
    BY <1>1, <1>4, <2>2, QueryFields
  <2>4. VS!RanksBefore(rule, meaning, c, b)
    BY <1>2, <1>4, <2>2
  <2>5. c.tag # t /\ rule.sort # "updated"
    BY <1>1, <1>4
  <2> QED BY <1>3, <2>1, <2>2, <2>3, <2>4, <2>5, QueryFields, RanksBeforeScoresHigher
<1>5. IsBest(c)
  BY <1>3, <1>4 DEF IsBest
<1> QED BY <1>2, <1>5 DEF c

\* A tag is selected, or none.
LEMMA SelectTagKeeps ==
  ASSUME IInv, SelectTag
  PROVE  IInv'
<1>1. /\ query.pc = "select" /\ OnlyQuery /\ steady' = steady
      /\ Selection.error = "" =>
           Returns("selected", {VS!First(rule, meaning, Selection.ranked)})
      /\ Selection.error # "" =>
           Fails(IF Selection.error = "rule" THEN "badrule" ELSE "error")
  BY DEF SelectTag, Selection
<1>2. ASSUME Selection.error \in {"tag", "none"}, pushes = 0 => Justified
      PROVE  IInv'
  <2>1. Fails("error")
    BY <1>1, <1>2
  <2> QED BY <1>1, <1>2, <2>1, FailsKeeps, QueryFields
<1>3. ASSUME NEW c \in query.candidates, Selection.error = "", IsBest(c),
             VS!First(rule, meaning, Selection.ranked) = c
      PROVE  IInv'
  <2>1. Returns("selected", {c})
    BY <1>1, <1>3
  <2>2. IsBest(c)'
    <3>1. rule' = rule /\ meaning' = meaning /\ hub' = hub /\ steady' = steady
      BY <1>1 DEF OnlyQuery
    <3>2. \A t : Suitable(t)' <=> Suitable(t)
      BY <3>1 DEF Suitable
    <3>3. \A t, x, y : Score(t, x, y)' = Score(t, x, y)
      BY <3>1 DEF Score
    <3> QED BY <1>3, <3>1, <3>2, <3>3, Zenon DEF IsBest
  <2>3. "selected" \in Outcome /\ {c} \in SUBSET Candidate /\ steady' \subseteq Listed
    BY <1>1, QueryFields DEF Outcome
  <2>4. \A a \in {c} : IsBest(a)'
    BY <2>2
  <2> QED BY <1>1, <2>1, <2>3, <2>4, ReturnsKeeps
<1>4. CASE EndsSearch /\ Refused
  BY <1>1, <1>2, <1>4, RefusedIsJustified
<1>5. CASE EndsSearch /\ ~Refused
  <2>1. PICK c \in query.candidates : Found(c)
    BY <1>1, <1>5 DEF IInv, FoundFacts
  <2> QED BY <1>1, <1>3, <1>5, <2>1, FoundIsBest
<1>6. CASE ~EndsSearch
  <2>1. CASE Selection.error \in {"tag", "none"} /\ (pushes = 0 => Justified)
    BY <1>2, <2>1
  <2>2. CASE /\ Selection.error = "" /\ Selection.ranked = query.candidates
             /\ query.candidates # {} /\ \A c \in query.candidates : Suitable(c.tag)
    BY <1>1, <1>3, <1>6, <2>2, FirstOfAllIsBest
  <2> QED BY <1>1, <1>6, <2>1, <2>2, SelectionOfAll
<1> QED BY <1>4, <1>5, <1>6

-----------------------------------------------------------------------------
(* The inductive invariant: the registry, and all steps                     *)

\* What is pushed or deleted was not there all along.
LEMMA PushKeeps ==
  ASSUME IInv, Push
  PROVE  IInv'
<1>1. PICK t \in Tag, listed \in BOOLEAN, has \in BOOLEAN :
        /\ pushes < MaxPushes /\ query.pc \in {"page", "inspect"}
        /\ pushes' = pushes + 1
        /\ hub' = [hub EXCEPT ![t] = [listed |-> listed, has |-> has,
                                      created |-> MaxTime + pushes + 1,
                                      updated |-> MaxTime + pushes + 1]]
        /\ steady' = steady \ {t}
        /\ rule' = rule /\ meaning' = meaning /\ query' = query
  BY DEF Push
<1>2. pushes \in Nat /\ MaxTime \in Nat /\ MaxPushes \in Nat
      /\ hub \in [Tag -> HubTag] /\ meaning \in [Tag -> Meanings]
  BY RegistryAssumption DEF IInv, TypeOK
<1>3. /\ hub' \in [Tag -> HubTag] /\ pushes' \in 0..MaxPushes /\ pushes' # 0
      /\ \A s \in Tag \ {t} : hub'[s] = hub[s]
  <2>1. MaxTime + pushes + 1 \in Nat /\ pushes + 1 \in 0..MaxPushes /\ pushes + 1 # 0
    BY <1>1, <1>2
  <2> QED BY <1>1, <1>2, <2>1 DEF HubTag
<1>4. \A s \in steady' : /\ s \in steady /\ s \in Tag /\ s \in Listed
                         /\ hub'[s] = hub[s] /\ s \in Listed'
  BY <1>1, <1>3, QueryFields, ListedTags DEF Listed
<1>5. PageCount' = PageCount /\ QueryState' = QueryState /\ EndsSearch' = EndsSearch
  BY <1>1 DEF PageCount, QueryState, EndsSearch
<1>6. TypeOK'
  BY <1>1, <1>2, <1>3, <1>4, <1>5, QueryFields DEF TypeOK
<1>7. RuleIsUsable'
  BY <1>1, QueryFields DEF RuleIsUsable, VS!ValidRule
<1>8. query.outcome = "none" /\ query.selected = {}
  BY <1>1 DEF IInv, ListingFacts
<1>9. ListingFacts'
  BY <1>1, <1>3, <1>4 DEF IInv, ListingFacts, Querying
<1>10. DateFacts'
  BY <1>1, <1>3, <1>4 DEF IInv, DateFacts, Querying
<1>11. SearchFacts'
  <2>1. MappedTags' = MappedTags /\ (NoneBlocks(query.eligible)' <=> NoneBlocks(query.eligible))
    BY <1>1 DEF MappedTags, Taken, NoneBlocks, VS!InChannel, VS!SkipsUnmappable
  <2> QED BY <1>1, <1>4, <1>5, <2>1 DEF IInv, SearchFacts
<1>12. AllFacts'
  BY <1>1, <1>4, <1>5 DEF IInv, AllFacts
<1>13. PageFacts' /\ FoundFacts' /\ ResultFacts'
  BY <1>1, <1>3, <1>8 DEF PageFacts, FoundFacts, ResultFacts, SelectedIsBest,
     ConfiguredRulesAreUsable, ErrorsAreJustified
<1> QED BY <1>6, <1>7, <1>9, <1>10, <1>11, <1>12, <1>13 DEF IInv

\* Every step keeps the invariant.
LEMMA NextKeeps == IInv /\ [Next]_vars => IInv'
<1> SUFFICES ASSUME IInv, [Next]_vars PROVE IInv'
  OBVIOUS
<1>1. CASE RequestFails
  BY <1>1, RequestFailsKeeps
<1>2. CASE ListTags
  BY <1>2, ListTagsKeeps
<1>3. CASE ReadPage
  BY <1>3, ReadPageKeeps
<1>4. CASE InspectNext
  BY <1>4, InspectNextKeeps
<1>5. CASE InspectionEnds
  BY <1>5, InspectionEndsKeeps
<1>6. CASE SelectTag
  BY <1>6, SelectTagKeeps
<1>7. CASE Push
  BY <1>7, PushKeeps
<1>8. CASE UNCHANGED vars
  <2>1. /\ rule' = rule /\ meaning' = meaning /\ hub' = hub /\ query' = query
        /\ pushes' = pushes /\ steady' = steady
    BY <1>8 DEF vars
  <2>2. RuleIsUsable' /\ Listed' = Listed /\ EndsSearch' = EndsSearch
    BY <2>1, OnlyQueryKeeps DEF OnlyQuery
  <2>3. TypeOK' /\ (Justified' <=> Justified)
    BY <2>1, OnlyQueryKeeps, QueryFields DEF OnlyQuery
  <2>4. MappedTags' = MappedTags /\ (NoneBlocks(query.eligible)' <=> NoneBlocks(query.eligible))
    BY <2>1 DEF MappedTags, Taken, NoneBlocks, VS!InChannel, VS!SkipsUnmappable
  <2>5. ListingFacts' /\ DateFacts'
    BY <2>1, <2>2 DEF IInv, ListingFacts, DateFacts, Querying
  <2>6. PageFacts'
    BY <2>1, PositionsStay DEF IInv, PageFacts
  <2>7. SearchFacts' /\ AllFacts'
    BY <2>1, <2>2, <2>4 DEF IInv, SearchFacts, AllFacts
  <2>8. Refused' <=> Refused
    BY <2>1 DEF Refused, TagCandidates
  <2>9. \A c : Found(c)' <=> Found(c)
    BY <2>1, <2>4 DEF Found
  <2>10. FoundFacts'
    BY <2>1, <2>2, <2>4, <2>8, <2>9 DEF IInv, FoundFacts
  <2>11. \A c : IsBest(c)' <=> IsBest(c)
    BY <2>1 DEF IsBest, Suitable, Score
  <2>12. ResultFacts'
    BY <2>1, <2>3, <2>11 DEF IInv, ResultFacts, SelectedIsBest,
       ConfiguredRulesAreUsable, ErrorsAreJustified,
       RefusesRegistry
  <2> QED BY <2>2, <2>3, <2>5, <2>6, <2>7, <2>10, <2>12 DEF IInv
<1> QED BY <1>1, <1>2, <1>3, <1>4, <1>5, <1>6, <1>7, <1>8 DEF Next, Query

-----------------------------------------------------------------------------
(* Theorems                                                                 *)

\* What the steps of a query have established so far (the tags that are steady,
\* the dates read, the order of the inspection) holds whenever the query runs.
THEOREM InductiveInvariant == Spec => []IInv
<1> QED BY InitKeeps, NextKeeps, PTL DEF Spec

\* The variables keep their types: in particular, no more pages are read than
\* the limit of matching tags allows.
THEOREM TypeCorrect == Spec => []TypeOK
<1>1. IInv => TypeOK
  BY DEF IInv
<1> QED BY <1>1, InductiveInvariant, PTL

\* The tag a query returns has the platform, is suitable, and is better than any
\* other suitable tag with the platform that was there all along: the inspection
\* may stop at the first tag, and the pages of dates may move.
THEOREM SelectionsAreBest == Spec => []SelectedIsBest
<1>1. IInv => SelectedIsBest
  BY DEF IInv, ResultFacts
<1> QED BY <1>1, InductiveInvariant, PTL

\* What Validate accepts, validateRule and SelectMutable accept, and Updates too
\* if the repository is on Docker Hub.
THEOREM RulesAreUsable == Spec => []ConfiguredRulesAreUsable
<1>1. IInv => ConfiguredRulesAreUsable
  BY DEF IInv, ResultFacts
<1> QED BY <1>1, InductiveInvariant, PTL

\* With a registry at rest, a query of which every request succeeds fails only
\* if a limit is exceeded, the rule sorts by update times and Docker Hub does not
\* have the repository or counts more tags in it than may match, a matching tag
\* must not be skipped, or no suitable tag has the platform.
THEOREM ErrorsHaveReasons == Spec => []ErrorsAreJustified
<1>1. IInv => ErrorsAreJustified
  BY DEF IInv, ResultFacts
<1> QED BY <1>1, InductiveInvariant, PTL

=============================================================================
