-------------------------- MODULE MCRegistrySelect --------------------------
(* Three tags on pages of one, and the images a configuration may hold.     *)
EXTENDS RegistrySelect

MCMeaning(matches, kind, core, pre) ==
  [matches |-> matches, kind |-> kind, core |-> core, pre |-> pre]
MCMeanings ==
  {MCMeaning(FALSE, "version", 2, FALSE), MCMeaning(TRUE, "unmappable", 0, FALSE),
   MCMeaning(TRUE, "huge", 0, FALSE), MCMeaning(TRUE, "version", 1, TRUE),
   MCMeaning(TRUE, "version", 1, FALSE), MCMeaning(TRUE, "version", 2, FALSE)}

MCTimes == {<<1, 1, 1>>, <<1, 2, 1>>, <<2, 1, 1>>, <<0, 1, 2>>, <<2, 1, 0>>}

\* Tag expressions where they are required; limits below the default for stable;
\* rules that sort by update times on Docker Hub and elsewhere.
MCRawImages ==
  UNION {{[channel |-> channel, sort |-> sort,
    tagRegex |-> IF channel \in {"", "beta"} THEN "" ELSE "plain",
    versionRegex |-> versionRegex, versionTemplate |-> "", mode |-> "",
    template |-> FALSE, match |-> FALSE, migrate |-> FALSE,
    dockerHub |-> dockerHub, isSource |-> TRUE,
    bump |-> bump, downgrade |-> FALSE, official |-> TRUE,
    maxTags |-> IF channel = "" /\ sort # "updated" THEN limit ELSE 0,
    maxMatchingTags |-> IF channel = "" THEN limit ELSE 0] :
      channel \in {"", "beta", "night", "custom", "other"},
      dockerHub \in {TRUE, sort # "updated"},
      versionRegex \in {"", "plain"}, bump \in {"", "patch"}, limit \in {0, 2}} :
    sort \in {"", "semver", "updated", "created"}}
=============================================================================
