--------------------------- MODULE RegistrySelect ---------------------------
(***************************************************************************)
(* The query of the tags of an image: CandidatesForTarget and InspectTarget*)
(* (internal/registry/client.go), the pages of Docker Hub's tag metadata   *)
(* (internal/registry/dockerhub.go), and the selection Flow.Check makes of *)
(* the candidates.  Tags are pushed and deleted between any two requests,  *)
(* which also moves tags from one page to another.                         *)
(***************************************************************************)
EXTENDS Integers, FiniteSets

CONSTANTS
  Tags,            \* bound: the tags are 1..Tags, in the order of their names
  Meanings,        \* meanings a tag may have
  RawImages,       \* images as configured
  DefaultLimit,    \* limits of images that configure none
  PageSize,
  MaxTime,         \* bound: initial push times are at most MaxTime
  Times,           \* initial push times
  MaxPushes        \* bound: pushes and deletions during the query

CR == INSTANCE ConfigRules
VS == INSTANCE VersionSelect

ASSUME RegistryAssumption ==
  /\ Tags \in Nat \ {0} /\ PageSize \in Nat \ {0} /\ DefaultLimit \in Nat \ {0}
  /\ MaxTime \in Nat /\ Times \subseteq [1..Tags -> 0..MaxTime] /\ MaxPushes \in Nat
  /\ Meanings \subseteq VS!Meaning /\ RawImages \subseteq CR!RawImage

Tag == 1..Tags

VARIABLES
  rule,    \* never changes
  meaning, \* never changes: [Tag -> Meanings]
  hub,     \* the registry
  query,   \* the running query
  pushes,  \* bounded counter
  steady   \* history: tags listed, and not pushed or deleted since

vars == <<rule, meaning, hub, query, pushes, steady>>

QueryPC == {"list", "page", "inspect", "select", "done"}
Outcome == {"none", "failed", "error", "badrule", "selected"}

Candidate == VS!Candidate(Tag)

\* A tag of the registry: whether the image has the target platform, the time
\* of the image's creation and of the tag's update.
HubTag == [listed : BOOLEAN, has : BOOLEAN, created : Nat, updated : Nat]
Listed == {t \in Tag : hub[t].listed}

\* Docker Hub lists the tags it updated last first.
DockerHubBefore(s, t) ==
  \/ hub[s].updated > hub[t].updated
  \/ hub[s].updated = hub[t].updated /\ s < t
Position(t) == Cardinality({s \in Listed : DockerHubBefore(s, t)}) + 1

\* updates: the dates read, 0 for none; left: the tags still to be inspected;
\* missing: one lacked the platform.
NewQuery == [pc |-> "list", eligible |-> {}, updates |-> [t \in Tag |-> 0],
             page |-> 1, left |-> {}, missing |-> FALSE,
             candidates |-> {}, outcome |-> "none", selected |-> {}]

\* Times do not matter to a rule that sorts by version.
InitialTimes == IF rule.sort = "semver" THEN [Tag -> {1}] ELSE Times

Init ==
  /\ rule \in CR!LoadedRules(RawImages)
  /\ meaning \in [Tag -> Meanings]
  /\ \E time \in InitialTimes, has \in [Tag -> BOOLEAN] :
       hub = [t \in Tag |-> [listed |-> t < Tags \/ time[t] > 0, has |-> has[t],
                            created |-> time[t], updated |-> time[t]]]
  /\ query = NewQuery
  /\ pushes = 0
  /\ steady = {}

-----------------------------------------------------------------------------
(* The registry                                                             *)

\* A tag is pushed, anew or again, or deleted.
Push == \E t \in Tag, listed, has \in BOOLEAN :
  /\ pushes < MaxPushes
  /\ query.pc \in {"page", "inspect"}
  /\ listed \/ (hub[t].listed /\ ~has)
  /\ pushes' = pushes + 1
  /\ LET time == MaxTime + pushes + 1 IN
     hub' = [hub EXCEPT ![t] = [listed |-> listed, has |-> has,
                                created |-> time, updated |-> time]]
  /\ steady' = steady \ {t}
  /\ UNCHANGED <<rule, meaning, query>>

-----------------------------------------------------------------------------
(* The query                                                                *)

\* The query returns, and its variables with it.
Returns(outcome, selected) ==
  query' = [NewQuery EXCEPT !.pc = "done", !.outcome = outcome, !.selected = selected]
Fails(outcome) == Returns(outcome, {})
OnlyQuery == UNCHANGED <<rule, meaning, hub, pushes>>

\* A request fails, or the context ends.
RequestFails ==
  /\ query.pc \in {"list", "page", "inspect"}
  /\ Fails("failed")
  /\ OnlyQuery /\ UNCHANGED steady

TagCandidates(tags, updates) ==
  {[tag |-> t, digest |-> FALSE, created |-> 0, updated |-> updates[t]] : t \in tags}

\* The ranked tags are to be inspected. A rule error is left to the selection,
\* which gets the tags as they are.
RankTags(q) ==
  LET tagCandidates == TagCandidates(q.eligible, q.updates)
      ranking == VS!Rank(rule, meaning, tagCandidates)
  IN IF ranking.error = ""
     THEN [q EXCEPT !.pc = "inspect", !.left = {c.tag : c \in ranking.ranked}]
     ELSE [q EXCEPT !.pc = "select", !.candidates = tagCandidates]

FilterTags == {t \in Listed : meaning[t].matches}

\* Updates refuses any repository that is not on Docker Hub, whatever its tags.
RefusesRegistry == rule.sort = "updated" /\ ~rule.dockerHub

\* remote.List and filterTags, and the entry of Updates.
ListTags ==
  /\ query.pc = "list"
  /\ steady' = Listed
  /\ LET listing == [query EXCEPT !.eligible = FilterTags] IN
     IF Cardinality(Listed) > rule.maxTags \/ Cardinality(FilterTags) > rule.maxMatchingTags
     THEN Fails("error")
     ELSE IF RefusesRegistry THEN Fails("badrule")
     ELSE query' =
       IF rule.sort = "created"
       THEN [listing EXCEPT !.pc = "inspect", !.left = FilterTags]
       ELSE IF rule.sort = "updated" /\ FilterTags # {}
       THEN [listing EXCEPT !.pc = "page"]
       ELSE RankTags(listing)
  /\ OnlyQuery

-----------------------------------------------------------------------------
(* dockerHubTagMetadata.Updates                                             *)

PageCount == (rule.maxMatchingTags + PageSize - 1) \div PageSize
Page(number) ==
  {t \in Listed : (number - 1) * PageSize < Position(t)
                    /\ Position(t) <= number * PageSize}

LastPage_Empty(results) == results = {}
LastPage_OneEarly(results) ==
  \/ Cardinality(results) < PageSize
  \/ (query.page + 1) * PageSize >= Cardinality(Listed)
  \/ query.page = PageCount
LastPage(results) ==
  \/ Cardinality(results) < PageSize
  \/ query.page * PageSize >= Cardinality(Listed)
  \/ query.page = PageCount

MissingTags(updates) == {t \in query.eligible : updates[t] = 0}

ReadPage ==
  /\ query.pc = "page"
  /\ LET results == Page(query.page)
         wanted == results \cap query.eligible
         updates == [t \in Tag |-> IF t \in wanted THEN hub[t].updated
                                   ELSE query.updates[t]]
         found == {t \in query.eligible : updates[t] # 0}
     IN IF \/ Cardinality(Listed) > rule.maxMatchingTags
           \/ \E t \in wanted : hub[t].updated = 0
        THEN Fails("error")
        ELSE IF found = query.eligible \/ LastPage(results)
        THEN IF MissingTags(updates) # {} THEN Fails("error")
             ELSE query' = RankTags([query EXCEPT !.updates = updates])
        ELSE query' = [query EXCEPT !.updates = updates, !.page = @ + 1]
  /\ OnlyQuery /\ UNCHANGED steady

-----------------------------------------------------------------------------
(* InspectTarget                                                            *)

Inspected(t) == [tag |-> t, digest |-> TRUE, created |-> hub[t].created,
                 updated |-> query.updates[t]]

\* Candidates in rank order end with the first that has the platform.
EndsSearch == rule.sort # "created"

\* In rank order, or by name where all are inspected.
NextTag ==
  IF EndsSearch
  THEN VS!First(rule, meaning, TagCandidates(query.left, query.updates)).tag
  ELSE CHOOSE t \in query.left : \A s \in query.left : t <= s

InspectNext ==
  /\ query.pc = "inspect" /\ query.left # {}
  /\ LET t == NextTag IN
     IF ~hub[t].listed THEN Fails("error")
     ELSE query' =
       IF ~hub[t].has THEN [query EXCEPT !.left = @ \ {t}, !.missing = TRUE]
       ELSE [query EXCEPT !.left = @ \ {t}, !.candidates = @ \cup {Inspected(t)},
                          !.pc = IF EndsSearch THEN "select" ELSE @]
  /\ OnlyQuery /\ UNCHANGED steady

InspectionEnds ==
  /\ query.pc = "inspect" /\ query.left = {}
  /\ IF query.candidates = {} /\ query.missing THEN Fails("error")
     ELSE query' = [query EXCEPT !.pc = "select"]
  /\ OnlyQuery /\ UNCHANGED steady

\* SelectMutable or Select.
SelectTag ==
  /\ query.pc = "select"
  /\ LET selection == VS!Selected(rule, meaning, query.candidates) IN
     IF selection.error = ""
     THEN Returns("selected", {VS!First(rule, meaning, selection.ranked)})
     ELSE Fails(IF selection.error = "rule" THEN "badrule" ELSE "error")
  /\ OnlyQuery /\ UNCHANGED steady

-----------------------------------------------------------------------------
Query == RequestFails \/ ListTags \/ ReadPage \/ InspectNext
         \/ InspectionEnds \/ SelectTag

Next == Query \/ Push

Spec == Init /\ [][Next]_vars

-----------------------------------------------------------------------------
(* Properties                                                               *)

QueryState ==
  [pc : QueryPC, eligible : SUBSET Tag, updates : [Tag -> Nat],
   page : 1..PageCount, left : SUBSET Tag,
   missing : BOOLEAN, candidates : SUBSET Candidate,
   outcome : Outcome, selected : SUBSET Candidate]

\* Variables keep their types.
TypeOK ==
  /\ meaning \in [Tag -> Meanings] /\ hub \in [Tag -> HubTag]
  /\ query \in QueryState
  /\ pushes \in 0..MaxPushes /\ steady \subseteq Tag

\* What a rule may select.
Suitable(t) ==
  /\ meaning[t].matches
  /\ rule.channel # "nightly" /\ ~rule.mutable =>
       /\ meaning[t].kind = "version"
       /\ meaning[t].pre => rule.channel \in {"beta", "custom"}
       /\ ~meaning[t].pre => rule.channel # "beta"

\* Time first if the rule sorts by one, then the version, then the name.
Score(t, created, updated) ==
  LET time == IF rule.sort = "created" THEN created
              ELSE IF rule.sort = "updated" THEN updated ELSE 0
      version == IF rule.sort = "created" THEN 0
                 ELSE 2 * meaning[t].core + (IF meaning[t].pre THEN 0 ELSE 1)
  IN <<time, version, t>>
HigherScore(a, b) == \E k \in 1..3 : a[k] > b[k] /\ \A j \in 1..(k - 1) : a[j] = b[j]

IsBest(c) ==
  /\ c.digest /\ Suitable(c.tag)
  /\ \A t \in steady \ {c.tag} : hub[t].has /\ Suitable(t) =>
       HigherScore(Score(c.tag, c.created, c.updated),
                   Score(t, hub[t].created, hub[t].updated))

\* The tag selected was inspected and has the platform; no tag that was there
\* all along with the platform is better, although the inspection stops at the
\* first that has it and the pages of dates move while they are read.
SelectedIsBest == \A c \in query.selected : IsBest(c)

\* A rule of an accepted configuration is refused only if it sorts by the update
\* times of a repository that is not on Docker Hub: "it is Docker Hub-only and
\* fails closed".
ConfiguredRulesAreUsable == query.outcome = "badrule" => RefusesRegistry

Blocks(t) ==
  /\ meaning[t].matches /\ hub[t].listed
  /\ IF rule.mutable \/ rule.channel = "nightly" THEN hub[t].created = 0
     ELSE \/ meaning[t].kind = "huge"
          \/ meaning[t].kind = "unmappable" /\ rule.channel = "custom"
          \/ rule.sort = "updated" /\ hub[t].updated = 0
\* max_tags and max_matching_tags, which "independently bounds filtered
\* candidates".
ExceedsLimits ==
  \/ Cardinality(Listed) > rule.maxTags
  \/ Cardinality(FilterTags) > rule.maxMatchingTags
\* Contrary to that, a rule that sorts by update times also fails if all the tags
\* of the repository, which Docker Hub counts, are more than max_matching_tags.
CountsAllTags ==
  rule.sort = "updated" /\ Cardinality(Listed) > rule.maxMatchingTags
Justified ==
  \/ ExceedsLimits \/ CountsAllTags \/ RefusesRegistry
  \/ \E t \in Listed : Blocks(t)
  \/ \A t \in Listed : Suitable(t) => ~hub[t].has

\* A query of which every request succeeded finds a tag, unless a limit is
\* exceeded, Docker Hub has no update times of the repository or counts too many
\* tags in it, a matching tag must not be skipped, or no suitable tag has the
\* platform.
ErrorsAreJustified ==
  query.outcome \in {"error", "badrule"} /\ pushes = 0 => Justified
=============================================================================
