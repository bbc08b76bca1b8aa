--------------------------- MODULE MCPrivateStore ---------------------------
(***************************************************************************)
(* Instances of PrivateStore for TLC.  The LPK is package "pkg"; its store *)
(* name is "name", or "pkg" itself, for which there is no search by name.  *)
(***************************************************************************)
EXTENDS PrivateStore

MCLabel == {"pkg", "old", "name"}
MCVersion == 1..2

\* The same SHA256 at one or two URLs, and a SHA256 of its own.
MCContent == { [sha |-> "s1", url |-> "u1"], [sha |-> "s1", url |-> "u2"],
               [sha |-> "s2", url |-> "u1"] }

MCRequests(appID, name, version) ==
  [ appID : appID, package : {"pkg"}, name : name, version : version,
    content : MCContent ]

\* One configuration, one or several versions of it.
OneName == MCRequests({1, NoId}, {"name"}, MCVersion)
\* Two workflows that overlap: with and without APP_ID, the same version at
\* two URLs, the package as the name, and another version.
Overlapping ==
  { r \in MCRequests({1, NoId}, {"name", "pkg"}, MCVersion) :
      /\ r.content.sha = "s1"
      /\ r.name = "pkg" => r.appID = NoId
      /\ r.name = "pkg" \/ r.version = 2 => r.content.url = "u1"
      /\ r.version = 2 => r.appID = NoId /\ r.name = "name" }

App(package, name, mine) ==
  [package |-> package, name |-> name, mine |-> mine, versions |-> <<>>]

Holds(first, second) ==
  [a \in AppId |-> CASE a = 1 -> first [] a = 2 -> second [] OTHER -> NoApp]

\* An empty store; an application of the package, with or without upload
\* permission; a historical application of the name; neither, but the id.
Tidy ==
  { Holds(NoApp, NoApp),
    Holds(App("pkg", "name", TRUE), NoApp),
    Holds(App("pkg", "pkg", FALSE), App("old", "name", TRUE)),
    Holds(App("old", "name", TRUE), NoApp),
    Holds(App("old", "old", TRUE), NoApp) }

\* Duplicates of the package and of the name, a name without permission, an
\* application without a package.
Untidy ==
  { Holds(App("pkg", "name", TRUE), App("pkg", "pkg", TRUE)),
    Holds(App("old", "name", TRUE), App("old", "name", TRUE)),
    Holds(App("old", "name", FALSE), NoApp),
    Holds(App(NoPackage, "name", TRUE), NoApp) }

AnyStore == Tidy \cup Untidy
=============================================================================
