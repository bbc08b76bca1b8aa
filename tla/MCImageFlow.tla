---------------------------- MODULE MCImageFlow ----------------------------
(***************************************************************************)
(* Configurations of module ImageFlow for TLC: a version source of every   *)
(* delivery mode, with and without bump: patch, behind another image; and  *)
(* manifests written by hand or by earlier checks.                         *)
(***************************************************************************)
EXTENDS ImageFlow

Plain(mode) ==
  [mode |-> mode, given |-> TRUE, template |-> FALSE, migrate |-> FALSE,
   match |-> TRUE, byTime |-> FALSE]

Project(mutable, main, side) ==
  [order |-> <<"side", "main">>, source |-> "main", mutable |-> mutable,
   downgrade |-> FALSE, override |-> FALSE,
   image |-> [i \in {"main", "side"} |-> IF i = "main" THEN main ELSE side]]

MCConfigs ==
  {Project(TRUE, Plain("direct"), Plain("lazycat")),
   Project(TRUE, Plain("lazycat"), Plain("lazycat")),
   [Project(TRUE, [Plain("mirror") EXCEPT !.template = TRUE, !.migrate = TRUE],
            Plain("direct")) EXCEPT !.override = TRUE],
   Project(FALSE, [Plain("lazycat") EXCEPT !.byTime = TRUE], Plain("direct")),
   Project(FALSE, [Plain("mirror") EXCEPT !.given = FALSE], Plain("lazycat")),
   [Project(FALSE, Plain("direct"), Plain("direct")) EXCEPT !.downgrade = TRUE]}

DowngradeConfigs == {Project(FALSE, Plain("lazycat"), Plain("lazycat"))}

Ref(host, version, digest) == [host |-> host, version |-> version, digest |-> digest]

\* Entries a tool-written or a hand-written manifest has for the version source.
MainEntries(c) ==
  LET mode == c.image["main"].mode
      host == CASE mode = "lazycat" -> Ref("lazycat", 0, "d1")
                [] mode = "mirror" -> Ref("oldmirror", 1, IF c.mutable THEN "d1" ELSE None)
                [] mode = "direct" -> Ref("source", 1, IF c.mutable THEN "d1" ELSE None)
  IN {[upstream |-> [version |-> 1, digest |-> IF c.mutable THEN "d1" ELSE None],
       runtime |-> host],
      [upstream |-> None, runtime |-> host],
      [upstream |-> None, runtime |-> Ref("source", 1, None)],
      [upstream |-> None, runtime |-> Ref("source", 1, "d1")],
      [upstream |-> None, runtime |-> None]}

SideEntries(c) ==
  {[upstream |-> [version |-> 1, digest |-> None],
    runtime |-> IF c.image["side"].mode = "lazycat" THEN Ref("lazycat", 0, "d1")
                ELSE Ref("source", 1, None)],
   [upstream |-> None, runtime |-> Ref("embed", 0, None)]}

MCManifests(c) ==
  {[i \in {"main", "side"} |-> IF i = "main" THEN m ELSE s] :
     m \in MainEntries(c), s \in SideEntries(c)}

\* To begin with, tags have their first digest and the other image its first tag,
\* and the tag of a mutable source says nothing.
MCInit ==
  /\ Init
  /\ \A i \in Image : upstream[i].digest = "d1"
  /\ upstream["side"].version = 1
  /\ config.mutable => upstream["main"].version = 1
MCSpec == MCInit /\ [][Next]_vars
=============================================================================
