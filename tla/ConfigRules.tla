---------------------------- MODULE ConfigRules ----------------------------
(***************************************************************************)
(* What config.Load (internal/config/load.go) makes of one image of the    *)
(* Action's configuration and of the version source that refers to it, and *)
(* the selection rule imageRule (internal/imageflow/flow.go) derives.  An  *)
(* absent string is "".  Case and blanks, which Load normalises first, are *)
(* not distinguished.                                                      *)
(***************************************************************************)
EXTENDS Naturals

CONSTANT DefaultLimit \* defaultMaxTags and defaultMaxMatchingTags

Channels == {"stable", "beta", "date", "nightly", "custom"}
Sorts == {"semver", "updated", "created"}

\* Regexes: absent, not a regular expression, one without and one with a
\* group named version.
VersionRegexes == {"", "invalid", "plain", "version"}

\* isSource: update.version_source names the image. match, migrate, template:
\* delivery.require_digest_match, migrate_on_mirror_change, image_template.
\* dockerHub: the source repository is on Docker Hub; Load does not ask.
RawImage == [channel : Channels \cup {"", "night", "other"},
             sort : Sorts \cup {"", "other"},
             tagRegex : {"", "invalid", "plain"},
             versionRegex : VersionRegexes,
             versionTemplate : {"", "{version}", "other"},
             mode : {"", "lazycat", "direct", "mirror", "other"},
             template : BOOLEAN, match : BOOLEAN, migrate : BOOLEAN,
             dockerHub : BOOLEAN, isSource : BOOLEAN, bump : {"", "patch", "other"},
             downgrade : BOOLEAN, official : BOOLEAN,
             maxTags : Nat, maxMatchingTags : Nat]

Default(value, default) == IF value = "" THEN default ELSE value

DefaultSort(channel) ==
  CASE channel \in {"stable", "beta", "date"} -> "semver"
    [] channel = "nightly" -> "created"
    [] OTHER -> ""

ApplyDefaults(image) ==
  LET channel == IF image.channel = "night" THEN "nightly"
                 ELSE Default(image.channel, "stable")
  IN [image EXCEPT !.channel = channel,
                   !.sort = Default(@, DefaultSort(channel)),
                   !.versionTemplate = Default(@, "{version}"),
                   !.mode = Default(@, "lazycat")]

ValidChannel(image) ==
  \/ /\ image.channel \in {"stable", "beta", "date"}
     /\ image.sort \in {"semver", "updated"}
  \/ image.channel = "nightly" /\ image.sort = "created" /\ image.tagRegex # ""
  \/ image.channel = "custom" /\ image.sort \in Sorts /\ image.tagRegex # ""

ValidRegexes(image) ==
  image.tagRegex # "invalid" /\ image.versionRegex \in {"", "version"}

ValidDelivery(image) ==
  \/ /\ image.mode \in {"lazycat", "direct"}
     /\ ~image.template /\ ~image.match /\ ~image.migrate
  \/ image.mode = "mirror" /\ (image.migrate => image.match)

\* validateImageRule.
ValidImageRule(image) ==
  ValidChannel(image) /\ ValidRegexes(image) /\ ValidDelivery(image)

ValidBump_AnySort(image) ==
  image.bump # "" =>
    /\ image.isSource /\ image.bump = "patch" /\ ~image.downgrade
    /\ image.channel = "custom" /\ image.tagRegex # ""
    /\ image.versionRegex = "" /\ image.versionTemplate = "{version}"
    /\ image.mode = "mirror" => image.match
\* version_source.bump, which makes the image's tags mutable.
ValidBump(image) ==
  image.bump # "" =>
    /\ image.isSource /\ image.bump = "patch" /\ ~image.downgrade
    /\ image.channel = "custom" /\ image.sort = "created" /\ image.tagRegex # ""
    /\ image.versionRegex = "" /\ image.versionTemplate = "{version}"
    /\ image.mode = "mirror" => image.match

\* 0 stands for absent.
ValidLimits(image) ==
  image.maxTags > 0 => image.maxMatchingTags <= image.maxTags

Validate(image) ==
  /\ ValidLimits(image)
  /\ ValidImageRule(image)
  /\ image.official => image.mode = "lazycat"
  /\ ValidBump(image)

Limit(value) == IF value = 0 THEN DefaultLimit ELSE value

\* imageRule with the repository and the limits the registry client applies;
\* mutable chooses SelectMutable in Flow.Check.
ImageRule(image) ==
  [channel |-> image.channel, sort |-> image.sort,
   tagRegex |-> image.tagRegex # "", versionRegex |-> image.versionRegex,
   mutable |-> image.isSource /\ image.bump = "patch",
   dockerHub |-> image.dockerHub,
   maxTags |-> Limit(image.maxTags),
   maxMatchingTags |-> Limit(image.maxMatchingTags)]

\* The rules of the images that Load accepts.
LoadedRules(images) ==
  {ImageRule(i) : i \in {j \in {ApplyDefaults(raw) : raw \in images} : Validate(j)}}
=============================================================================
