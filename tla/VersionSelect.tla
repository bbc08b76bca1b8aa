--------------------------- MODULE VersionSelect ---------------------------
(***************************************************************************)
(* Ranking and selection of image tags (internal/versioning/select.go).    *)
(* Tags are numbered in the order of their names.  A tag's meaning says    *)
(* whether the tag and exclude expressions take it, and what mapVersion    *)
(* makes of it: no version, a version whose numbers exceed 64 bits         *)
(* ("huge", which the pattern of internal/appversion accepts and           *)
(* StrictNewVersion does not), or a version of a release or a prerelease.  *)
(***************************************************************************)
EXTENDS Integers

Meaning == [matches : BOOLEAN, kind : {"unmappable", "huge", "version"},
            core : Nat, pre : BOOLEAN]

\* digest: InspectTarget filled it in. A time of 0 is the zero time.
Candidate(Tag) == [tag : Tag, digest : BOOLEAN, created : Nat, updated : Nat]

\* validateRule.
ValidRule(rule) ==
  /\ \/ rule.channel \in {"stable", "beta", "date"} /\ rule.sort \in {"semver", "updated"}
     \/ rule.channel = "nightly" /\ rule.sort = "created" /\ rule.tagRegex
     \/ /\ rule.channel = "custom" /\ rule.tagRegex
        /\ rule.sort \in {"semver", "created", "updated"}
  /\ rule.versionRegex \in {"", "version"}

\* Channels that skip what has no version.
SkipsUnmappable(rule) == rule.channel \in {"stable", "beta", "date"}

InChannel(rule, m) ==
  /\ rule.channel \in {"stable", "date"} => ~m.pre
  /\ rule.channel = "beta" => m.pre

Greater_CoreOnly(m, n) == m.core > n.core
\* semver's Compare, as a strict order: a prerelease comes before its release.
Greater(m, n) == m.core > n.core \/ (m.core = n.core /\ ~m.pre /\ n.pre)

CreatedFirst(a, b) ==
  \/ a.created > b.created
  \/ a.created = b.created /\ a.tag > b.tag

VersionFirst(meaning, a, b) ==
  \/ Greater(meaning[a.tag], meaning[b.tag])
  \/ ~Greater(meaning[b.tag], meaning[a.tag]) /\ a.tag > b.tag

\* The order the candidates are sorted by.
RanksBefore(rule, meaning, a, b) ==
  IF rule.sort = "created" THEN CreatedFirst(a, b)
  ELSE IF rule.sort = "updated" /\ a.updated # b.updated THEN a.updated > b.updated
  ELSE VersionFirst(meaning, a, b)

First(rule, meaning, candidates) ==
  CHOOSE a \in candidates :
    \A b \in candidates \ {a} : RanksBefore(rule, meaning, a, b)

\* A ranking is the candidates that are left, or an error: "rule", "none", "tag".
Ranked(candidates) == [error |-> "", ranked |-> candidates]
RankError(error) == [error |-> error, ranked |-> {}]

Filtered(meaning, candidates) == {c \in candidates : meaning[c.tag].matches}

Blocked(rule, meaning, c) ==
  \/ rule.sort = "updated" /\ c.updated = 0
  \/ meaning[c.tag].kind = "unmappable" /\ ~SkipsUnmappable(rule)
  \/ meaning[c.tag].kind = "huge"

Mapped(rule, meaning, candidates) ==
  {c \in candidates : /\ meaning[c.tag].kind = "version"
                      /\ InChannel(rule, meaning[c.tag])}

RankMappedCandidates(rule, meaning, filtered) ==
  IF \E c \in filtered : Blocked(rule, meaning, c) THEN RankError("tag")
  ELSE IF Mapped(rule, meaning, filtered) = {} THEN RankError("none")
  ELSE Ranked(Mapped(rule, meaning, filtered))

\* RankSemVer, RankUpdated and the common part of Select. That the rule has the
\* sort of the function is given by the caller's filter.
Rank(rule, meaning, candidates) ==
  LET filtered == Filtered(meaning, candidates) IN
  IF ~ValidRule(rule) THEN RankError("rule")
  ELSE IF filtered = {} THEN RankError("none")
  ELSE RankMappedCandidates(rule, meaning, filtered)

\* selectNightly: the newest, if it has a digest and a time.
SelectNightly(rule, meaning, candidates) ==
  LET filtered == Filtered(meaning, candidates)
      newest == First(rule, meaning, filtered)
  IN IF filtered = {} THEN RankError("none")
     ELSE IF newest.digest /\ newest.created # 0 THEN Ranked(filtered)
     ELSE RankError("tag")

Select(rule, meaning, candidates) ==
  IF ValidRule(rule) /\ rule.channel = "nightly"
  THEN SelectNightly(rule, meaning, candidates)
  ELSE Rank(rule, meaning, candidates)

SelectMutable(rule, meaning, candidates) ==
  LET filtered == Filtered(meaning, candidates) IN
  IF \/ ~ValidRule(rule)
     \/ rule.channel # "custom" \/ rule.sort # "created"
     \/ ~rule.tagRegex \/ rule.versionRegex # "" THEN RankError("rule")
  ELSE IF \E c \in filtered : c.created = 0 THEN RankError("tag")
  ELSE IF filtered = {} THEN RankError("none")
  ELSE Ranked(filtered)

\* Flow.Check's choice of the two.
Selected(rule, meaning, candidates) ==
  IF rule.mutable THEN SelectMutable(rule, meaning, candidates)
  ELSE Select(rule, meaning, candidates)
=============================================================================
