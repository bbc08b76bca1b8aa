---------------------------- MODULE PrivateStore ----------------------------
(***************************************************************************)
(* Calls of private.Client.Publish (internal/store/private/client.go) and  *)
(* the private store they share.  A call looks its application up (by      *)
(* APP_ID, else by package, else by name), reads it, decides, and records  *)
(* the version; every HTTP call is one step, and between two steps other   *)
(* calls and the store's owner act.  Nothing is retried: a call that fails *)
(* ends, and the workflow may be started again with any request.           *)
(*                                                                         *)
(* The store is not in this repository.  It is modelled from the answers   *)
(* the client distinguishes: an application lists all its versions, a      *)
(* search finds every application of a package, and a name is resolved as  *)
(* the README promises.  What it does with a second record for one version *)
(* or one package is left open: see OnDuplicate.                           *)
(***************************************************************************)
EXTENDS Naturals, FiniteSets, Sequences

CONSTANTS
  Publishers,     \* workflow runs that publish to the store
  AppId,          \* numeric application ids the store can assign
  Label,          \* package ids and application names
  Version,        \* versions, compared for equality only
  Content,        \* [sha, url]: a SHA256 and the release asset holding it
  Requests,       \* the requests the workflow runs may make
  InitialApps,    \* what the store may hold before the first call
  OnDuplicate,    \* what the store may do with a duplicate record:
                  \*   "reject" 409; "return" the record it has; "add" it
  Exclusive,      \* the workflow's concurrency group holds all publishers
  MaxCalls,       \* bound on the calls begun
  MaxRenames,     \* bound on the renames the store's owner makes
  NoId,           \* APP_ID is not configured
  NoApp,          \* this id is not assigned
  NoPackage       \* a historical application without a package id

Release == [version : Version, content : Content]

\* appDTO; mine is canUploadVersion, latestVersion is the last of versions.
Application ==
  [ package : Label \cup {NoPackage}, name : Label, mine : BOOLEAN,
    versions : Seq(Release) ]

\* private.Request, normalized.
Request ==
  [ appID : AppId \cup {NoId}, package : Label, name : Label,
    version : Version, content : Content ]

ASSUME StoreAssumption ==
  /\ NoId \notin AppId /\ NoPackage \notin Label
  /\ NoApp \notin Application
  /\ Requests \subseteq Request /\ Requests # {}
  /\ InitialApps \subseteq [AppId -> Application \cup {NoApp}]
  /\ OnDuplicate \subseteq {"reject", "return", "add"}
  /\ Exclusive \in BOOLEAN
  /\ MaxCalls \in Nat /\ MaxRenames \in Nat

ASSUME ContentAssumption ==
  \A c \in Content : c = [sha |-> c.sha, url |-> c.url]

VARIABLES
  apps,           \* the store: AppId -> Application or NoApp
  calls, renames, \* counters behind MaxCalls and MaxRenames
  \* --- locals of Publish, per publisher ---------------------------------
  pc,             \* the HTTP call the client makes next
  request,        \* the request it serves
  id,             \* application.ID
  byName,         \* resolvedByName
  outcome,        \* what Publish returned, "none" before it does
  \* --- history ----------------------------------------------------------
  absent,         \* the package had no application when it was searched
  served          \* requests whose release the store holds because of them

storeVars == <<apps, renames>>
localVars == <<request, id, byName>>
vars == <<storeVars, calls, pc, localVars, outcome, absent, served>>

Published == {"created", "added", "existing"}
Outcome == Published \cup {"none", "conflict", "failed"}
PC == {"idle", "query", "byName", "get", "createVersion",
       "createApplication", "done"}

Running(p) == pc[p] \notin {"idle", "done"}

-----------------------------------------------------------------------------
(* What the store holds *)

Assigned == { a \in AppId : apps[a] # NoApp }

AppsOf(package) == { a \in Assigned : apps[a].package = package }

AppsNamed(name) == { a \in Assigned : apps[a].name = name }

\* The records of one version of an application.
RecordsOf(app, version) ==
  { k \in DOMAIN app.versions : app.versions[k].version = version }

\* latestVersion, if there is one.
LatestVersion(app) ==
  { app.versions[k] : k \in DOMAIN app.versions \cap {Len(app.versions)} }

ReleaseOf(r) == [version |-> r.version, content |-> r.content]

-----------------------------------------------------------------------------
(* The client's checks *)

\* getApplication: the id exists and its application has a package.
Readable(a) == a \in Assigned /\ apps[a].package # NoPackage

MatchingVersion_LatestOnly(app, version) ==
  \E release \in LatestVersion(app) : release.version = version

\* Is there a version record of this version?  (matchingVersion's ok)
MatchingVersion(app, version) == RecordsOf(app, version) # {}

\* The record matchingVersion returns: the first.
FirstMatching(app, version) ==
  app.versions[CHOOSE k \in RecordsOf(app, version) :
                 \A l \in RecordsOf(app, version) : k <= l]

SameContent_NeverReused(release, r) ==
  /\ release.content = r.content
  /\ r.appID # NoId              \* only an APP_ID may reuse a record

\* Line 88: an existing record is the requested one.
SameContent(release, r) ==
  /\ release.content.sha = r.content.sha
  /\ release.content.url = r.content.url

VerifyVersion_VersionOnly(release, r) == release.version = r.version

\* verifyVersion; the store's answers carry the ids they are asked for.
VerifyVersion(release, r) ==
  /\ release.version = r.version
  /\ SameContent(release, r)

Addressed_TrustsAppID(app, r, resolvedByName) ==
  IF resolvedByName THEN app.name = r.name
  ELSE r.appID # NoId \/ app.package = r.package

\* Line 78: a name resolution must lead to an application of that name.
\* Line 81: any other lookup, to an application of the package.
Addressed(app, r, resolvedByName) ==
  IF resolvedByName THEN app.name = r.name ELSE app.package = r.package

-----------------------------------------------------------------------------
(* Init *)

Init ==
  /\ apps \in InitialApps
  /\ calls = 0 /\ renames = 0
  /\ pc = [p \in Publishers |-> "idle"]
  /\ request = [p \in Publishers |-> CHOOSE r \in Requests : TRUE]
  /\ id = [p \in Publishers |-> NoId]
  /\ byName = [p \in Publishers |-> FALSE]
  /\ outcome = [p \in Publishers |-> "none"]
  /\ absent = [p \in Publishers |-> FALSE]
  /\ served = {}

-----------------------------------------------------------------------------
(* Steps of a call *)

Goto(p, where) ==
  /\ pc' = [pc EXCEPT ![p] = where]
  /\ UNCHANGED outcome

Return(p, what) ==
  /\ pc' = [pc EXCEPT ![p] = "done"]
  /\ outcome' = [outcome EXCEPT ![p] = what]

Resolve(p, a, named) ==
  /\ id' = [id EXCEPT ![p] = a]
  /\ byName' = [byName EXCEPT ![p] = named]
  /\ UNCHANGED request

\* A workflow run starts: a first run, or a run after one that ended.
Begin(p, r) ==
  /\ ~Running(p)
  /\ Exclusive => \A q \in Publishers : ~Running(q)
  /\ calls < MaxCalls
  /\ calls' = calls + 1
  /\ request' = [request EXCEPT ![p] = r]
  /\ id' = [id EXCEPT ![p] = r.appID]
  /\ byName' = [byName EXCEPT ![p] = FALSE]
  /\ pc' = [pc EXCEPT ![p] = IF r.appID = NoId THEN "query" ELSE "get"]
  /\ outcome' = [outcome EXCEPT ![p] = "none"]
  /\ absent' = [absent EXCEPT ![p] = FALSE]
  /\ UNCHANGED <<storeVars, served>>

\* The next HTTP call fails and the store has not acted on it: transport
\* error, cancelled context, a status that is no success, a bad body.
Fail(p) ==
  /\ Running(p)
  /\ Return(p, "failed")
  /\ UNCHANGED <<storeVars, calls, localVars, absent, served>>

AfterQuery_ForgetsApplication(p, found) ==
  \/ /\ found # {}
     /\ Goto(p, "get")
     /\ UNCHANGED localVars
  \/ /\ found = {}
     /\ Goto(p, "byName")
     /\ UNCHANGED localVars

AfterQuery_NameMustMatch(p, found) ==
  LET exact == { a \in found : apps[a].name = request[p].name } IN
  \/ \E a \in exact : Resolve(p, a, FALSE) /\ Goto(p, "get")
  \/ /\ exact = {}
     /\ Goto(p, "byName")
     /\ UNCHANGED localVars

\* findApplication: where an application search leads.
AfterQuery(p, found) ==
  LET r == request[p] IN
  \/ /\ Cardinality(found) > 1
     /\ Return(p, "conflict")
     /\ UNCHANGED localVars
  \/ /\ Cardinality(found) = 1
     /\ \E a \in found : Resolve(p, a, FALSE)
     /\ Goto(p, "get")
  \/ /\ found = {}
     /\ Goto(p, IF r.name = r.package THEN "createApplication" ELSE "byName")
     /\ UNCHANGED localVars

\* findApplicationByQuery: the entries whose package is exactly the LPK's.
FindByQuery(p) ==
  /\ pc[p] = "query"
  /\ AfterQuery(p, AppsOf(request[p].package))
  /\ absent' = [absent EXCEPT ![p] = AppsOf(request[p].package) = {}]
  /\ UNCHANGED <<storeVars, calls, served>>

\* findApplicationByName.  Several applications the token may upload to are
\* a 409, none is a 404, or an answer the client refuses (line 116).
FindByName(p) ==
  LET named == AppsNamed(request[p].name)
      mine == { a \in named : apps[a].mine }
  IN
  /\ pc[p] = "byName"
  /\ \/ /\ Cardinality(mine) > 1
        /\ Return(p, "conflict")
        /\ UNCHANGED localVars
     \/ /\ Cardinality(mine) = 1
        /\ \E a \in mine : Resolve(p, a, TRUE)
        /\ Goto(p, "get")
     \/ /\ mine = {}
        /\ Goto(p, "createApplication")
        /\ UNCHANGED localVars
     \/ /\ mine = {} /\ named # {}
        /\ Return(p, "failed")
        /\ UNCHANGED localVars
  /\ UNCHANGED <<storeVars, calls, absent, served>>

\* getApplication, and the rest of Publish up to createVersion.
GetApplication(p) ==
  LET r == request[p]
      app == apps[id[p]]
  IN
  /\ pc[p] = "get"
  /\ \/ /\ ~Readable(id[p])
        /\ Return(p, "failed")
     \/ /\ Readable(id[p]) /\ ~Addressed(app, r, byName[p])
        /\ Return(p, IF byName[p] THEN "failed" ELSE "conflict")
     \/ /\ Readable(id[p]) /\ Addressed(app, r, byName[p])
        /\ \/ /\ MatchingVersion(app, r.version)
              /\ Return(p, IF SameContent(FirstMatching(app, r.version), r)
                           THEN "existing" ELSE "conflict")
           \/ /\ ~MatchingVersion(app, r.version)
              /\ Goto(p, "createVersion")
  /\ UNCHANGED <<storeVars, calls, localVars, absent, served>>

-----------------------------------------------------------------------------
(* The two writes.  The store acts, and its reply arrives or is lost.       *)

\* The call ends after the store recorded its release.
Recorded(p, what) ==
  /\ served' = served \cup {request[p]}
  /\ Return(p, what) \/ Return(p, "failed")

\* The call ends after the store refused a duplicate, or answered with a
\* release it already had.
Answered(p, what, releases) ==
  /\ UNCHANGED <<apps, served>>
  /\ \/ /\ "reject" \in OnDuplicate
        /\ Return(p, "conflict")
     \/ /\ "return" \in OnDuplicate
        /\ Return(p, IF \E release \in releases :
                            VerifyVersion(release, request[p])
                     THEN what ELSE "failed")

\* createVersion.  A token without upload permission gets a 403: see Fail.
CreateVersion(p) ==
  LET r == request[p]
      a == id[p]
      duplicate == RecordsOf(apps[a], r.version) # {}
  IN
  /\ pc[p] = "createVersion"
  /\ apps[a].mine
  /\ \/ /\ ~duplicate \/ "add" \in OnDuplicate
        /\ apps' = [apps EXCEPT ![a].versions = Append(@, ReleaseOf(r))]
        /\ Recorded(p, "added")
     \/ /\ duplicate
        /\ Answered(p, "added", {FirstMatching(apps[a], r.version)})
  /\ UNCHANGED <<renames, calls, localVars, absent>>

\* createApplication: the application and its first version in one request.
CreateApplication(p) ==
  LET r == request[p]
      duplicates == AppsOf(r.package)
  IN
  /\ pc[p] = "createApplication"
  /\ \/ /\ duplicates = {} \/ "add" \in OnDuplicate
        /\ \E a \in AppId \ Assigned :
             /\ apps' = [apps EXCEPT ![a] =
                           [package |-> r.package, name |-> r.name,
                            mine |-> TRUE, versions |-> <<ReleaseOf(r)>>]]
             /\ Resolve(p, a, FALSE)
        /\ Recorded(p, "created")
     \/ \E a \in duplicates :
          /\ Resolve(p, a, FALSE)
          /\ Answered(p, "created", LatestVersion(apps[a]))
  /\ UNCHANGED <<renames, calls, absent>>

-----------------------------------------------------------------------------
(* The store's owner *)

Rename(a, name) ==
  /\ renames < MaxRenames
  /\ a \in Assigned /\ apps[a].name # name
  /\ renames' = renames + 1
  /\ apps' = [apps EXCEPT ![a].name = name]
  /\ UNCHANGED <<calls, pc, localVars, outcome, absent, served>>

Next ==
  \/ \E p \in Publishers :
       \/ \E r \in Requests : Begin(p, r)
       \/ Fail(p)
       \/ FindByQuery(p)
       \/ FindByName(p)
       \/ GetApplication(p)
       \/ CreateVersion(p)
       \/ CreateApplication(p)
  \/ \E a \in AppId, name \in Label : Rename(a, name)

Spec == Init /\ [][Next]_vars

-----------------------------------------------------------------------------
(* Properties *)

TypeOK ==
  /\ apps \in [AppId -> Application \cup {NoApp}]
  /\ calls \in 0..MaxCalls /\ renames \in 0..MaxRenames
  /\ pc \in [Publishers -> PC]
  /\ request \in [Publishers -> Requests]
  /\ id \in [Publishers -> AppId \cup {NoId}]
  /\ byName \in [Publishers -> BOOLEAN]
  /\ outcome \in [Publishers -> Outcome]
  /\ absent \in [Publishers -> BOOLEAN]
  /\ served \subseteq Requests
  \* The calls that address an application know one.
  /\ \A p \in Publishers :
       /\ pc[p] \in {"get", "createVersion"} => id[p] \in AppId
       /\ pc[p] = "createVersion" => id[p] \in Assigned
       /\ outcome[p] \in Published => pc[p] = "done" /\ id[p] \in Assigned

(***************************************************************************)
(* Refinement: the store and any number of concurrent calls implement a    *)
(* write-once register that never misreports.  A caller told "published"   *)
(* (created, added or existing) finds in the application it was given the  *)
(* version it asked for, with its SHA256 and its URL, even when another    *)
(* call recorded the same version between its read and its write and the   *)
(* store answered with that record.                                        *)
(***************************************************************************)
Place == AppId \X Version

StoredAt(place) ==
  LET app == apps[place[1]] IN
  IF app # NoApp /\ RecordsOf(app, place[2]) # {}
  THEN FirstMatching(app, place[2]).content
  ELSE NoApp

Told(p) ==
  IF outcome[p] \in Published
  THEN [place |-> <<id[p], request[p].version>>, content |-> request[p].content]
  ELSE NoApp

Register == INSTANCE WriteOnce WITH
  Place <- Place, Callers <- Publishers, Nothing <- NoApp,
  stored <- [place \in Place |-> StoredAt(place)],
  told <- [p \in Publishers |-> Told(p)]

IsWriteOnce == Register!Spec

(***************************************************************************)
(* A version is never recorded in an application of another package,       *)
(* unless the request named no APP_ID and the search had found no          *)
(* application of the package: whatever was renamed or created between     *)
(* the steps of the call (Publish, lines 60-83; README.md:788).            *)
(***************************************************************************)
NeverShadowsPackage ==
  [][\A a \in AppId :
       (/\ apps[a] # NoApp /\ apps'[a] # NoApp
        /\ apps'[a].versions # apps[a].versions)
       => \E p \in Publishers :
            /\ pc[p] = "createVersion" /\ id[p] = a
            /\ \/ apps[a].package = request[p].package
               \/ request[p].appID = NoId /\ absent[p]]_vars

(***************************************************************************)
(* When runs do not overlap (one concurrency group, lazycat.yml:184), the  *)
(* client alone keeps the store free of duplicates, even if the store      *)
(* would accept them and replies are lost: no version of an application    *)
(* is ever recorded twice...                                               *)
(***************************************************************************)
OneRecordPerVersion ==
  \A a \in Assigned, v \in Version :
    Cardinality(RecordsOf(apps[a], v)) <= 1

(***************************************************************************)
(* ... and no second application is created for a package that has one.    *)
(***************************************************************************)
OneApplicationPerPackage ==
  [][\A a \in AppId :
       (apps[a] = NoApp /\ apps'[a] # NoApp)
       => AppsOf(apps'[a].package) = {}]_vars

(***************************************************************************)
(* Running the workflow again after a reply was lost is safe: a request    *)
(* whose release the store holds never ends in a conflict, as long as runs *)
(* do not overlap and the store's owner renames nothing meanwhile.         *)
(***************************************************************************)
RerunNeverConflicts ==
  [][\A p \in Publishers :
       (Running(p) /\ outcome'[p] = "conflict" /\ renames = 0)
       => request[p] \notin served]_vars

(***************************************************************************)
(* README.md:800: "The same version and SHA256 is returned as an           *)
(* idempotent existing result; different content under the same version    *)
(* fails."  So a call that reads an application of its package holding its *)
(* version with its SHA256 does not end in a conflict.                     *)
(***************************************************************************)
SameSHAIsExisting ==
  [][\A p \in Publishers :
       (pc[p] = "get" /\ outcome'[p] = "conflict")
       => ~ \E k \in DOMAIN apps[id[p]].versions :
              /\ apps[id[p]].package = request[p].package
              /\ apps[id[p]].versions[k].version = request[p].version
              /\ apps[id[p]].versions[k].content.sha = request[p].content.sha
    ]_vars
=============================================================================
