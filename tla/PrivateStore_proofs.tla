------------------------ MODULE PrivateStore_proofs ------------------------
(***************************************************************************)
(* Theorems about PrivateStore, for every set of publishers, applications, *)
(* requests and initial stores, and any number of calls and renames.       *)
(***************************************************************************)
EXTENDS PrivateStore, FiniteSetTheorems, TLAPS

-----------------------------------------------------------------------------
(* The strengthening                                                        *)

\* How a call reached the application it addresses: by name only after the
\* search for the package found nothing; otherwise it has the package.
AddressInv ==
  \A p \in Publishers :
    /\ pc[p] \in {"query", "byName"} => request[p].appID = NoId
    /\ pc[p] = "byName" => absent[p]
    /\ pc[p] = "query" => ~byName[p]
    /\ pc[p] \in {"get", "createVersion"} /\ byName[p]
         => request[p].appID = NoId /\ absent[p]
    /\ pc[p] = "createVersion" /\ ~byName[p]
         => apps[id[p]].package = request[p].package

\* When runs do not overlap, what a call found missing is still missing when
\* it creates it.
SoloInv ==
  Exclusive =>
    \A p \in Publishers :
      /\ \A q \in Publishers : Running(p) /\ Running(q) => p = q
      /\ pc[p] \in {"byName", "createApplication"}
           => AppsOf(request[p].package) = {}
      /\ pc[p] = "createVersion"
           => RecordsOf(apps[id[p]], request[p].version) = {}

\* An application has at most one record of a version.
Unique(app) ==
  \A v \in Version : \A k, l \in RecordsOf(app, v) : k = l

UniqueInv == \A a \in Assigned : Unique(apps[a])

\* What the theorems about duplicates assume of the first store.
InitiallyUnique ==
  \A store \in InitialApps, a \in AppId : store[a] # NoApp => Unique(store[a])

IInv == TypeOK /\ AddressInv

\* The store forgets no application and changes no package.
Frame ==
  \A a \in Assigned : a \in Assigned' /\ apps'[a].package = apps[a].package

-----------------------------------------------------------------------------
(* A release keeps its home                                                 *)

\* The applications of the package of a request, and those of its name that
\* the token may upload to, in a store.
Siblings(store, r) ==
  { a \in AppId : store[a] # NoApp /\ store[a].package = r.package }

Namesakes(store, r) ==
  { a \in AppId : store[a] # NoApp /\ store[a].name = r.name /\ store[a].mine }

\* Where a request without APP_ID leads.
Home(store, r) ==
  { a \in Siblings(store, r) \cup Namesakes(store, r) :
      \/ a \in Siblings(store, r)
      \/ Siblings(store, r) = {} /\ r.name # r.package }

\* It leads to one application at most.
TidyFor(store, r) == \A a, b \in Home(store, r) : a = b

\* What the theorem about reruns assumes of the workflow and the first store.
OneConfiguration ==
  \A r, s \in Requests : r.package = s.package /\ r.name = s.name

InitiallyTidy == \A store \in InitialApps, r \in Requests : TidyFor(store, r)

\* The application has the release of the request on record.
HasRelease(app, r) ==
  \E k \in RecordsOf(app, r.version) : app.versions[k].content = r.content

\* The release of a served request is where the request leads, with APP_ID
\* and without.
AtHome(r) ==
  /\ \E a \in Home(apps, r) : HasRelease(apps[a], r)
  /\ r.appID # NoId => r.appID \in Siblings(apps, r)

\* Where a call is on the way to the home of its request.
HomeBound(p) ==
  LET r == request[p] IN
  /\ pc[p] = "byName" => r.name # r.package
  /\ pc[p] = "createApplication" => r.appID = NoId /\ Home(apps, r) = {}
  /\ pc[p] \in {"get", "createVersion"} =>
       /\ r.appID # NoId => id[p] = r.appID /\ ~byName[p]
       /\ r.appID = NoId => id[p] \in Home(apps, r)
       /\ r.appID = NoId /\ ~byName[p] => id[p] \in Siblings(apps, r)

\* A call has no outcome before it ends.
OpenInv == \A p \in Publishers : Running(p) => outcome[p] = "none"

\* While nothing was renamed, a request leads where its release is.
HomeInv ==
  renames = 0 =>
    /\ \A r \in Requests : TidyFor(apps, r)
    /\ \A r \in served : AtHome(r)
    /\ \A p \in Publishers : HomeBound(p)

-----------------------------------------------------------------------------
(* Applications and their records                                           *)

\* An assigned id holds an application.
LEMMA AssignedType ==
  ASSUME TypeOK, NEW a \in Assigned
  PROVE  /\ a \in AppId /\ apps[a] \in Application
         /\ apps[a].versions \in Seq(Release)
BY DEF TypeOK, Assigned, Application

\* An application with the release of one more request.
Extended(app, r) == [app EXCEPT !.versions = Append(@, ReleaseOf(r))]

\* Recording a release adds one record at the end and changes no other.
LEMMA AppendRecords ==
  ASSUME NEW app \in Application, NEW r \in Requests, NEW new,
         new = Extended(app, r)
  PROVE  /\ new \in Application
         /\ new.package = app.package
         /\ \A k \in DOMAIN app.versions : new.versions[k] = app.versions[k]
         /\ new.versions[Len(app.versions) + 1] = ReleaseOf(r)
         /\ \A v : v # r.version => RecordsOf(new, v) = RecordsOf(app, v)
         /\ RecordsOf(new, r.version)
              = RecordsOf(app, r.version) \cup {Len(app.versions) + 1}
<1> DEFINE n == Len(app.versions)
<1>1. app.versions \in Seq(Release) /\ n \in Nat
  BY DEF Application
<1>2. ReleaseOf(r) \in Release /\ ReleaseOf(r).version = r.version
  BY StoreAssumption DEF Request, Release, ReleaseOf
<1>3. new.versions = Append(app.versions, ReleaseOf(r))
  BY DEF Application, Extended
<1>4. /\ DOMAIN app.versions = 1..n
      /\ DOMAIN new.versions = 1..(n + 1)
      /\ \A k \in 1..n : new.versions[k] = app.versions[k]
      /\ new.versions[n + 1] = ReleaseOf(r)
  BY <1>1, <1>2, <1>3
<1>5. new \in Application /\ new.package = app.package
  <2>1. new.versions \in Seq(Release)
    BY <1>1, <1>2, <1>3
  <2>2. QED BY <2>1 DEF Application, Extended
<1>6. ASSUME NEW v, v # r.version
      PROVE  RecordsOf(new, v) = RecordsOf(app, v)
  BY <1>1, <1>2, <1>4, <1>6 DEF RecordsOf
<1>7. RecordsOf(new, r.version) = RecordsOf(app, r.version) \cup {n + 1}
  BY <1>1, <1>2, <1>4 DEF RecordsOf
<1>8. QED BY <1>4, <1>5, <1>6, <1>7

\* The application a request creates has one version, the requested one.
LEMMA NewApplication ==
  ASSUME NEW r \in Requests, NEW new,
         new = [package |-> r.package, name |-> r.name, mine |-> TRUE,
                versions |-> <<ReleaseOf(r)>>]
  PROVE  /\ new \in Application
         /\ new.package = r.package
         /\ new.versions[1] = ReleaseOf(r)
         /\ \A v : v # r.version => RecordsOf(new, v) = {}
         /\ RecordsOf(new, r.version) = {1}
<1>1. /\ ReleaseOf(r) \in Release /\ ReleaseOf(r).version = r.version
      /\ r.package \in Label /\ r.name \in Label
  BY StoreAssumption DEF Request, Release, ReleaseOf
<1>2. /\ <<ReleaseOf(r)>> \in Seq(Release)
      /\ DOMAIN <<ReleaseOf(r)>> = {1}
      /\ <<ReleaseOf(r)>>[1] = ReleaseOf(r)
  BY <1>1
<1>3. new.versions = <<ReleaseOf(r)>>
  OBVIOUS
<1>4. QED BY <1>1, <1>2, <1>3 DEF Application, RecordsOf

\* With one record of a version, matchingVersion returns that record.
LEMMA OnlyMatching ==
  ASSUME NEW app, NEW v, NEW k \in RecordsOf(app, v),
         RecordsOf(app, v) \subseteq Nat,
         \A l \in RecordsOf(app, v) : l = k
  PROVE  FirstMatching(app, v) = app.versions[k]
<1>1. \A m \in RecordsOf(app, v) :
        (\A l \in RecordsOf(app, v) : m <= l) <=> m = k
  OBVIOUS
<1>2. (CHOOSE m \in RecordsOf(app, v) :
         \A l \in RecordsOf(app, v) : m <= l) = k
  BY <1>1
<1>3. QED BY <1>2 DEF FirstMatching

-----------------------------------------------------------------------------
(* The inductive invariant, action by action                                *)

\* The first state satisfies the invariant.
LEMMA InitInv == Init => IInv
<1> SUFFICES ASSUME Init PROVE IInv
  OBVIOUS
<1>1. (CHOOSE r \in Requests : TRUE) \in Requests
  BY StoreAssumption
<1>2. TypeOK
  BY <1>1, StoreAssumption DEF Init, TypeOK, PC, Outcome, Published
<1>3. AddressInv
  BY DEF Init, AddressInv
<1>4. QED BY <1>2, <1>3 DEF IInv

\* A run starts with nothing looked up.
LEMMA BeginInv ==
  ASSUME IInv, NEW p \in Publishers, NEW r \in Requests, Begin(p, r)
  PROVE  IInv' /\ Frame
<1> USE DEF IInv
<1>1. r.appID \in AppId \cup {NoId}
  BY StoreAssumption DEF Request
<1>2. Frame
  BY DEF Frame, Begin, Assigned, storeVars
<1>3. TypeOK'
  BY <1>1, StoreAssumption
  DEF TypeOK, Begin, Assigned, storeVars, PC, Outcome, Published, Running
<1>4. AddressInv'
  BY <1>3 DEF TypeOK, AddressInv, Begin, storeVars
<1>5. QED BY <1>2, <1>3, <1>4

\* A call that ends for whatever reason, without success, changes nothing else.
LEMMA FailInv ==
  ASSUME IInv, NEW p \in Publishers, Fail(p)
  PROVE  IInv' /\ Frame
<1> USE DEF IInv
<1>1. Frame
  BY DEF Frame, Fail, Assigned, storeVars
<1>2. TypeOK'
  BY DEF TypeOK, Fail, Return, Assigned, storeVars, localVars, PC, Outcome,
         Published
<1>3. AddressInv'
  BY <1>2 DEF TypeOK, AddressInv, Fail, Return, storeVars, localVars
<1>4. QED BY <1>1, <1>2, <1>3

\* The search for the package leads to one of its applications, or notes that
\* there is none.
LEMMA FindByQueryInv ==
  ASSUME IInv, NEW p \in Publishers, FindByQuery(p)
  PROVE  IInv' /\ Frame
<1> USE DEF IInv
<1> DEFINE found == AppsOf(request[p].package)
<1>1. /\ pc[p] = "query" /\ AfterQuery(p, found)
      /\ absent' = [absent EXCEPT ![p] = found = {}]
      /\ UNCHANGED <<apps, renames, calls, served>>
  BY DEF FindByQuery, storeVars
<1>2. Frame
  BY <1>1 DEF Frame, Assigned
<1>3. found \subseteq AppId
  BY DEF AppsOf, Assigned
<1>4. CASE Return(p, "conflict") /\ UNCHANGED localVars
  <2>1. TypeOK'
    BY <1>1, <1>4 DEF TypeOK, Return, Assigned, localVars, PC, Outcome, Published
  <2>2. AddressInv'
    BY <1>1, <1>4, <2>1 DEF TypeOK, AddressInv, Return, localVars
  <2>3. QED BY <1>2, <2>1, <2>2
<1>5. CASE \E a \in found : Resolve(p, a, FALSE) /\ Goto(p, "get")
  <2>1. TypeOK'
    BY <1>1, <1>3, <1>5
    DEF TypeOK, Resolve, Goto, Assigned, PC, Outcome, Published
  <2>2. AddressInv'
    BY <1>1, <1>5, <2>1 DEF TypeOK, AddressInv, Resolve, Goto
  <2>3. QED BY <1>2, <2>1, <2>2
<1>6. CASE /\ found = {}
           /\ Goto(p, IF request[p].name = request[p].package
                      THEN "createApplication" ELSE "byName")
           /\ UNCHANGED localVars
  <2>1. TypeOK'
    BY <1>1, <1>6 DEF TypeOK, Goto, Assigned, localVars, PC, Outcome, Published
  <2>2. AddressInv'
    BY <1>1, <1>6, <2>1 DEF TypeOK, AddressInv, Goto, localVars
  <2>3. QED BY <1>2, <2>1, <2>2
<1>7. QED BY <1>1, <1>4, <1>5, <1>6 DEF AfterQuery

\* The search by name comes after the search for the package found nothing.
LEMMA FindByNameInv ==
  ASSUME IInv, NEW p \in Publishers, FindByName(p)
  PROVE  IInv' /\ Frame
<1> USE DEF IInv
<1> DEFINE mine == { a \in AppsNamed(request[p].name) : apps[a].mine }
<1>1. /\ pc[p] = "byName"
      /\ UNCHANGED <<apps, renames, calls, absent, served>>
  BY DEF FindByName, storeVars
<1>2. Frame
  BY <1>1 DEF Frame, Assigned
<1>3. mine \subseteq AppId
  BY DEF AppsNamed, Assigned
<1>4. CASE \/ Return(p, "conflict") /\ UNCHANGED localVars
           \/ Return(p, "failed") /\ UNCHANGED localVars
  <2>1. TypeOK'
    BY <1>1, <1>4 DEF TypeOK, Return, Assigned, localVars, PC, Outcome, Published
  <2>2. AddressInv'
    BY <1>1, <1>4, <2>1 DEF TypeOK, AddressInv, Return, localVars
  <2>3. QED BY <1>2, <2>1, <2>2
<1>5. CASE \E a \in mine : Resolve(p, a, TRUE) /\ Goto(p, "get")
  <2>1. TypeOK'
    BY <1>1, <1>3, <1>5
    DEF TypeOK, Resolve, Goto, Assigned, PC, Outcome, Published
  <2>2. AddressInv'
    BY <1>1, <1>5, <2>1 DEF TypeOK, AddressInv, Resolve, Goto
  <2>3. QED BY <1>2, <2>1, <2>2
<1>6. CASE Goto(p, "createApplication") /\ UNCHANGED localVars
  <2>1. TypeOK'
    BY <1>1, <1>6 DEF TypeOK, Goto, Assigned, localVars, PC, Outcome, Published
  <2>2. AddressInv'
    BY <1>1, <1>6, <2>1 DEF TypeOK, AddressInv, Goto, localVars
  <2>3. QED BY <1>2, <2>1, <2>2
<1>7. QED BY <1>4, <1>5, <1>6 DEF FindByName

\* What Publish decides when it has read its application.
LEMMA GetApplicationInv ==
  ASSUME IInv, NEW p \in Publishers, GetApplication(p)
  PROVE  IInv' /\ Frame
<1> USE DEF IInv
<1>1. /\ pc[p] = "get"
      /\ UNCHANGED <<apps, renames, calls, localVars, absent, served>>
  BY DEF GetApplication, storeVars
<1>2. Frame
  BY <1>1 DEF Frame, Assigned
<1>3. CASE \/ Return(p, "failed") \/ Return(p, "conflict")
           \/ id[p] \in Assigned /\ Return(p, "existing")
  <2>1. TypeOK'
    BY <1>1, <1>3 DEF TypeOK, Return, Assigned, localVars, PC, Outcome, Published
  <2>2. AddressInv'
    BY <1>1, <1>3, <2>1 DEF TypeOK, AddressInv, Return, localVars
  <2>3. QED BY <1>2, <2>1, <2>2
<1>4. CASE /\ id[p] \in Assigned
           /\ Addressed(apps[id[p]], request[p], byName[p])
           /\ Goto(p, "createVersion")
  <2>1. TypeOK'
    BY <1>1, <1>4 DEF TypeOK, Goto, Assigned, localVars, PC, Outcome, Published
  <2>2. AddressInv'
    BY <1>1, <1>4, <2>1 DEF TypeOK, AddressInv, Goto, localVars, Addressed
  <2>3. QED BY <1>2, <2>1, <2>2
<1>5. QED BY <1>3, <1>4 DEF GetApplication, Readable

\* createVersion either records the release, in one application, or leaves
\* the store alone.
LEMMA CreateVersionCases ==
  ASSUME IInv, NEW p \in Publishers, CreateVersion(p)
  PROVE  /\ pc[p] = "createVersion"
         /\ id[p] \in Assigned /\ request[p] \in Requests
         /\ UNCHANGED <<renames, calls, localVars, absent>>
         /\ \/ /\ \/ RecordsOf(apps[id[p]], request[p].version) = {}
                  \/ "add" \in OnDuplicate
               /\ Recorded(p, "added")
               /\ apps'[id[p]] = Extended(apps[id[p]], request[p])
               /\ \A a \in AppId \ {id[p]} : apps'[a] = apps[a]
               /\ apps' \in [AppId -> Application \cup {NoApp}]
            \/ /\ RecordsOf(apps[id[p]], request[p].version) # {}
               /\ Answered(p, "added",
                           {FirstMatching(apps[id[p]], request[p].version)})
<1> DEFINE a == id[p]
           r == request[p]
<1>1. pc[p] = "createVersion" /\ a \in Assigned /\ r \in Requests
  BY DEF IInv, TypeOK, CreateVersion
<1>2. /\ apps \in [AppId -> Application \cup {NoApp}]
      /\ a \in AppId /\ apps[a] \in Application
  BY <1>1, AssignedType DEF IInv, TypeOK
<1>3. CASE /\ RecordsOf(apps[a], r.version) = {} \/ "add" \in OnDuplicate
           /\ apps' = [apps EXCEPT ![a].versions = Append(@, ReleaseOf(r))]
           /\ Recorded(p, "added")
  <2>1. /\ apps'[a] = Extended(apps[id[p]], request[p])
        /\ \A b \in AppId \ {a} : apps'[b] = apps[b]
        /\ apps' = [apps EXCEPT ![a] = Extended(apps[id[p]], request[p])]
    BY <1>2, <1>3 DEF Extended
  <2>2. Extended(apps[id[p]], request[p]) \in Application
    BY <1>1, <1>2, AppendRecords DEF Extended
  <2>3. apps' \in [AppId -> Application \cup {NoApp}]
    BY <1>2, <2>1, <2>2
  <2>4. QED BY <1>1, <1>3, <2>1, <2>3 DEF CreateVersion
<1>4. CASE /\ RecordsOf(apps[a], r.version) # {}
           /\ Answered(p, "added", {FirstMatching(apps[a], r.version)})
  BY <1>1, <1>4 DEF CreateVersion
<1>5. QED BY <1>3, <1>4 DEF CreateVersion

\* A version is added to an application that stays where it is.
LEMMA CreateVersionInv ==
  ASSUME IInv, NEW p \in Publishers, CreateVersion(p)
  PROVE  IInv' /\ Frame
<1> USE DEF IInv
<1>1. /\ pc[p] = "createVersion"
      /\ id[p] \in Assigned /\ request[p] \in Requests
      /\ UNCHANGED <<renames, calls, localVars, absent>>
  BY CreateVersionCases
<1>2. /\ apps' \in [AppId -> Application \cup {NoApp}]
      /\ Frame
  <2>1. CASE apps' = apps
    BY <2>1 DEF TypeOK, Frame, Assigned
  <2>2. CASE /\ apps'[id[p]] = Extended(apps[id[p]], request[p])
             /\ \A a \in AppId \ {id[p]} : apps'[a] = apps[a]
             /\ apps' \in [AppId -> Application \cup {NoApp}]
    <3>1. /\ Extended(apps[id[p]], request[p]) \in Application
          /\ Extended(apps[id[p]], request[p]).package = apps[id[p]].package
      BY <1>1, AssignedType, AppendRecords DEF Extended
    <3>2. QED BY <2>2, <3>1, StoreAssumption DEF Frame, Assigned
  <2>3. QED BY <2>1, <2>2, CreateVersionCases DEF Answered
<1>3. /\ served' \subseteq Requests
      /\ \E what \in {"added", "failed", "conflict"} : Return(p, what)
  BY <1>1, CreateVersionCases DEF TypeOK, Recorded, Answered
<1>4. TypeOK'
  BY <1>1, <1>2, <1>3
  DEF TypeOK, Frame, Return, localVars, PC, Outcome, Published
<1>5. AddressInv'
  BY <1>1, <1>2, <1>3, <1>4 DEF TypeOK, AddressInv, Frame, Return, localVars
<1>6. QED BY <1>2, <1>4, <1>5

\* createApplication either creates an application under a free id, or
\* leaves the store alone and names one of its duplicates.
LEMMA CreateApplicationCases ==
  ASSUME IInv, NEW p \in Publishers, CreateApplication(p)
  PROVE  /\ pc[p] = "createApplication" /\ request[p] \in Requests
         /\ UNCHANGED <<renames, calls, absent>>
         /\ \E a \in AppId :
              /\ Resolve(p, a, FALSE)
              /\ \/ /\ \/ AppsOf(request[p].package) = {}
                       \/ "add" \in OnDuplicate
                    /\ Recorded(p, "created")
                    /\ a \notin Assigned
                    /\ apps'[a] = [package |-> request[p].package,
                                   name |-> request[p].name, mine |-> TRUE,
                                   versions |-> <<ReleaseOf(request[p])>>]
                    /\ \A b \in AppId \ {a} : apps'[b] = apps[b]
                    /\ apps' \in [AppId -> Application \cup {NoApp}]
                 \/ /\ a \in AppsOf(request[p].package)
                    /\ Answered(p, "created", LatestVersion(apps[a]))
<1> DEFINE r == request[p]
           new == [package |-> r.package, name |-> r.name, mine |-> TRUE,
                   versions |-> <<ReleaseOf(r)>>]
<1>1. /\ pc[p] = "createApplication" /\ r \in Requests
      /\ UNCHANGED <<renames, calls, absent>>
  BY DEF IInv, TypeOK, CreateApplication
<1>2. ASSUME NEW a \in AppId \ Assigned, apps' = [apps EXCEPT ![a] = new]
      PROVE  /\ a \notin Assigned /\ apps'[a] = new
             /\ \A b \in AppId \ {a} : apps'[b] = apps[b]
             /\ apps' \in [AppId -> Application \cup {NoApp}]
  <2>1. new \in Application
    BY <1>1, NewApplication
  <2>2. QED BY <1>2, <2>1 DEF IInv, TypeOK
<1>3. CASE /\ AppsOf(r.package) = {} \/ "add" \in OnDuplicate
           /\ \E a \in AppId \ Assigned :
                apps' = [apps EXCEPT ![a] = new] /\ Resolve(p, a, FALSE)
           /\ Recorded(p, "created")
  BY <1>1, <1>2, <1>3
<1>4. CASE \E a \in AppsOf(r.package) :
             /\ Resolve(p, a, FALSE)
             /\ Answered(p, "created", LatestVersion(apps[a]))
  BY <1>1, <1>4 DEF AppsOf, Assigned
<1>5. QED BY <1>3, <1>4 DEF CreateApplication

\* An application is created beside those the store has.
LEMMA CreateApplicationInv ==
  ASSUME IInv, NEW p \in Publishers, CreateApplication(p)
  PROVE  IInv' /\ Frame
<1> USE DEF IInv
<1>1. /\ pc[p] = "createApplication" /\ request[p] \in Requests
      /\ UNCHANGED <<renames, calls, absent>>
  BY CreateApplicationCases
<1>2. PICK a \in AppId :
        /\ Resolve(p, a, FALSE)
        /\ \/ /\ Recorded(p, "created")
              /\ a \notin Assigned
              /\ apps'[a] = [package |-> request[p].package,
                             name |-> request[p].name, mine |-> TRUE,
                             versions |-> <<ReleaseOf(request[p])>>]
              /\ \A b \in AppId \ {a} : apps'[b] = apps[b]
              /\ apps' \in [AppId -> Application \cup {NoApp}]
           \/ /\ a \in AppsOf(request[p].package)
              /\ Answered(p, "created", LatestVersion(apps[a]))
  BY CreateApplicationCases
<1>3. /\ apps' \in [AppId -> Application \cup {NoApp}]
      /\ a \in Assigned'
      /\ Frame
  <2>1. CASE a \in AppsOf(request[p].package) /\ apps' = apps
    BY <2>1 DEF TypeOK, Frame, Assigned, AppsOf
  <2>2. CASE /\ a \notin Assigned
             /\ apps'[a] \in Application
             /\ \A b \in AppId \ {a} : apps'[b] = apps[b]
             /\ apps' \in [AppId -> Application \cup {NoApp}]
    BY <2>2, StoreAssumption DEF Frame, Assigned
  <2>3. QED BY <1>1, <1>2, <2>1, <2>2, NewApplication DEF Answered
<1>4. /\ served' \subseteq Requests
      /\ \E what \in {"created", "failed", "conflict"} : Return(p, what)
  BY <1>1, <1>2 DEF TypeOK, Recorded, Answered
<1>5. TypeOK'
  BY <1>1, <1>2, <1>3, <1>4
  DEF TypeOK, Frame, Return, Resolve, PC, Outcome, Published
<1>6. AddressInv'
  BY <1>1, <1>2, <1>3, <1>4, <1>5
  DEF TypeOK, AddressInv, Frame, Return, Resolve
<1>7. QED BY <1>3, <1>5, <1>6

\* A rename touches only a name.
LEMMA RenameCases ==
  ASSUME IInv, NEW a \in AppId, NEW name \in Label, Rename(a, name)
  PROVE  /\ a \in Assigned
         /\ apps' \in [AppId -> Application \cup {NoApp}]
         /\ \A b \in AppId \ {a} : apps'[b] = apps[b]
         /\ apps'[a] \in Application
         /\ apps'[a].package = apps[a].package
         /\ apps'[a].versions = apps[a].versions
<1>1. /\ a \in Assigned
      /\ apps' = [apps EXCEPT ![a] = [apps[a] EXCEPT !.name = name]]
      /\ apps \in [AppId -> Application \cup {NoApp}]
  BY DEF Rename, IInv, TypeOK
<1>2. apps[a] \in Application
  BY <1>1, AssignedType DEF IInv
<1>3. /\ [apps[a] EXCEPT !.name = name] \in Application
      /\ [apps[a] EXCEPT !.name = name].package = apps[a].package
      /\ [apps[a] EXCEPT !.name = name].versions = apps[a].versions
  BY <1>2 DEF Application
<1>4. QED BY <1>1, <1>3

\* A rename disturbs no call's knowledge of packages.
LEMMA RenameInv ==
  ASSUME IInv, NEW a \in AppId, NEW name \in Label, Rename(a, name)
  PROVE  IInv' /\ Frame
<1> USE DEF IInv
<1>1. /\ renames' \in 0..MaxRenames
      /\ UNCHANGED <<calls, pc, localVars, outcome, absent, served>>
  BY StoreAssumption DEF Rename, TypeOK
<1>2. Frame /\ apps' \in [AppId -> Application \cup {NoApp}]
  BY RenameCases, StoreAssumption DEF Frame, Assigned
<1>3. TypeOK'
  BY <1>1, <1>2 DEF TypeOK, Frame, localVars
<1>4. AddressInv'
  BY <1>1, <1>2, <1>3 DEF TypeOK, AddressInv, Frame, localVars
<1>5. QED BY <1>2, <1>3, <1>4

\* Every step keeps the invariant, and every application with its package.
LEMMA StepInv == IInv /\ [Next]_vars => IInv' /\ Frame
<1> SUFFICES ASSUME IInv, [Next]_vars PROVE IInv' /\ Frame
  OBVIOUS
<1>1. ASSUME NEW p \in Publishers, NEW r \in Requests, Begin(p, r)
      PROVE  IInv' /\ Frame
  BY <1>1, BeginInv
<1>2. ASSUME NEW p \in Publishers,
             \/ Fail(p) \/ FindByQuery(p) \/ FindByName(p)
             \/ GetApplication(p) \/ CreateVersion(p) \/ CreateApplication(p)
      PROVE  IInv' /\ Frame
  BY <1>2, FailInv, FindByQueryInv, FindByNameInv, GetApplicationInv,
     CreateVersionInv, CreateApplicationInv
<1>3. ASSUME NEW a \in AppId, NEW name \in Label, Rename(a, name)
      PROVE  IInv' /\ Frame
  BY <1>3, RenameInv
<1>4. CASE UNCHANGED vars
  BY <1>4 DEF IInv, TypeOK, AddressInv, Frame, Assigned, vars, storeVars,
              localVars
<1>5. QED BY <1>1, <1>2, <1>3, <1>4 DEF Next

-----------------------------------------------------------------------------
(* Runs that do not overlap                                                 *)

\* A step of a call that ends it leaves no call running.
LEMMA SoloReturn ==
  ASSUME IInv, SoloInv, NEW p \in Publishers, Running(p), NEW what,
         Return(p, what)
  PROVE  SoloInv'
<1> SUFFICES ASSUME Exclusive
             PROVE  \A q \in Publishers : pc'[q] \in {"idle", "done"}
  BY DEF SoloInv, Running
<1>1. \A q \in Publishers : q # p => pc[q] \in {"idle", "done"}
  BY DEF SoloInv, Running
<1>2. QED BY <1>1 DEF Return, IInv, TypeOK

\* What a run found missing stays missing while no other runs.
LEMMA SoloStep == IInv /\ SoloInv /\ [Next]_vars => SoloInv'
<1> SUFFICES ASSUME IInv, SoloInv, [Next]_vars PROVE SoloInv'
  OBVIOUS
<1> USE DEF IInv
<1>1. ASSUME NEW p \in Publishers, NEW r \in Requests, Begin(p, r)
      PROVE  SoloInv'
  BY <1>1 DEF Begin, SoloInv, Running, TypeOK, storeVars
<1>2. ASSUME NEW p \in Publishers, Fail(p) PROVE SoloInv'
  BY <1>2, SoloReturn DEF Fail
<1>3. ASSUME NEW p \in Publishers, FindByQuery(p) PROVE SoloInv'
  <2>1. /\ pc[p] = "query" /\ Running(p)
        /\ apps' = apps /\ request'= request
        /\ AfterQuery(p, AppsOf(request[p].package))
    BY <1>3 DEF FindByQuery, AfterQuery, Resolve, localVars, storeVars, Running
  <2>2. CASE Return(p, "conflict")
    BY <2>1, <2>2, SoloReturn
  <2>3. CASE Goto(p, "get")
    BY <2>1, <2>3 DEF Goto, SoloInv, Running, TypeOK, AppsOf, Assigned
  <2>4. CASE /\ AppsOf(request[p].package) = {}
             /\ \/ Goto(p, "createApplication") \/ Goto(p, "byName")
    BY <2>1, <2>4 DEF Goto, SoloInv, Running, TypeOK, AppsOf, Assigned
  <2>5. QED BY <2>1, <2>2, <2>3, <2>4 DEF AfterQuery
<1>4. ASSUME NEW p \in Publishers, FindByName(p) PROVE SoloInv'
  <2>1. /\ pc[p] = "byName" /\ Running(p)
        /\ apps' = apps /\ request'= request
    BY <1>4 DEF FindByName, Resolve, localVars, storeVars, Running
  <2>2. CASE \E what \in {"conflict", "failed"} : Return(p, what)
    BY <2>1, <2>2, SoloReturn
  <2>3. CASE Goto(p, "get") \/ Goto(p, "createApplication")
    BY <2>1, <2>3 DEF Goto, SoloInv, Running, TypeOK, AppsOf, Assigned
  <2>4. QED BY <1>4, <2>2, <2>3 DEF FindByName
<1>5. ASSUME NEW p \in Publishers, GetApplication(p) PROVE SoloInv'
  <2>1. /\ pc[p] = "get" /\ Running(p)
        /\ apps' = apps /\ request'= request /\ id' = id
    BY <1>5 DEF GetApplication, localVars, storeVars, Running
  <2>2. CASE \E what \in {"conflict", "failed", "existing"} : Return(p, what)
    BY <2>1, <2>2, SoloReturn
  <2>3. CASE /\ ~MatchingVersion(apps[id[p]], request[p].version)
             /\ Goto(p, "createVersion")
    BY <2>1, <2>3
    DEF Goto, SoloInv, Running, TypeOK, AppsOf, Assigned, MatchingVersion,
        RecordsOf
  <2>4. QED BY <1>5, <2>2, <2>3 DEF GetApplication
<1>6. ASSUME NEW p \in Publishers, CreateVersion(p) PROVE SoloInv'
  <2>1. Running(p)
    BY <1>6, CreateVersionCases DEF Running
  <2>2. \E what \in {"added", "failed", "conflict"} : Return(p, what)
    BY <1>6, CreateVersionCases DEF Recorded, Answered
  <2>3. QED BY <2>1, <2>2, SoloReturn
<1>7. ASSUME NEW p \in Publishers, CreateApplication(p) PROVE SoloInv'
  <2>1. Running(p)
    BY <1>7, CreateApplicationCases DEF Running
  <2>2. \E what \in {"created", "failed", "conflict"} : Return(p, what)
    BY <1>7, CreateApplicationCases DEF Recorded, Answered
  <2>3. QED BY <2>1, <2>2, SoloReturn
<1>8. ASSUME NEW a \in AppId, NEW name \in Label, Rename(a, name)
      PROVE  SoloInv'
  <2>1. UNCHANGED <<pc, request, id>>
    BY <1>8 DEF Rename, localVars
  <2>2. \A b \in AppId :
          /\ b \in Assigned' <=> b \in Assigned
          /\ b \in Assigned => /\ apps'[b].package = apps[b].package
                               /\ apps'[b].versions = apps[b].versions
    BY <1>8, RenameCases, StoreAssumption DEF Assigned
  <2>3. \A package : (AppsOf(package) = {}) => (AppsOf(package) = {})'
    BY <2>2 DEF AppsOf, Assigned
  <2>4. \A b \in Assigned : \A v : RecordsOf(apps'[b], v) = RecordsOf(apps[b], v)
    BY <2>2 DEF RecordsOf, Assigned
  <2>5. \A p \in Publishers : pc[p] = "createVersion" => id[p] \in Assigned
    BY DEF TypeOK
  <2>6. QED BY <2>1, <2>3, <2>4, <2>5 DEF SoloInv, Running
<1>9. CASE UNCHANGED vars
  BY <1>9 DEF SoloInv, Running, AppsOf, Assigned, vars, storeVars, localVars
<1>10. QED
  BY <1>1, <1>2, <1>3, <1>4, <1>5, <1>6, <1>7, <1>8, <1>9 DEF Next

-----------------------------------------------------------------------------
(* No duplicate records                                                     *)

\* The records of a typed application are positions in a sequence.
LEMMA RecordsType ==
  ASSUME NEW app \in Application, NEW v
  PROVE  /\ RecordsOf(app, v) \subseteq 1..Len(app.versions)
         /\ Len(app.versions) \in Nat
BY DEF Application, RecordsOf

\* Recording a version that has no record keeps records unique.
LEMMA ExtendedUnique ==
  ASSUME NEW app \in Application, NEW r \in Requests, Unique(app),
         RecordsOf(app, r.version) = {}
  PROVE  Unique(Extended(app, r))
<1> DEFINE new == Extended(app, r)
<1>1. RecordsOf(new, r.version) = {Len(app.versions) + 1}
  <2>1. RecordsOf(new, r.version)
          = RecordsOf(app, r.version) \cup {Len(app.versions) + 1}
    BY AppendRecords
  <2>2. QED BY <2>1
<1>2. ASSUME NEW v \in Version, v # r.version
      PROVE  RecordsOf(new, v) = RecordsOf(app, v)
  BY <1>2, AppendRecords
<1>3. QED BY <1>1, <1>2 DEF Unique

\* A version gets a second record neither from a store that adds none, nor
\* from a client that saw there was none and runs alone.
LEMMA UniqueStep ==
  ASSUME Exclusive \/ "add" \notin OnDuplicate,
         IInv, SoloInv, UniqueInv, [Next]_vars
  PROVE  UniqueInv'
<1>1. CASE apps' = apps
  BY <1>1 DEF UniqueInv, Assigned
<1>2. ASSUME NEW p \in Publishers, CreateVersion(p), apps' # apps
      PROVE  UniqueInv'
  <2> DEFINE a == id[p]
             r == request[p]
  <2>1. /\ a \in Assigned /\ apps[a] \in Application /\ r \in Requests
        /\ pc[p] = "createVersion"
        /\ RecordsOf(apps[a], r.version) = {} \/ "add" \in OnDuplicate
        /\ apps'[a] = Extended(apps[id[p]], request[p])
        /\ \A b \in AppId \ {a} : apps'[b] = apps[b]
    BY <1>2, CreateVersionCases, AssignedType DEF Answered, IInv
  <2>2. RecordsOf(apps[a], r.version) = {}
    BY <2>1 DEF SoloInv
  <2>3. Unique(apps[a])
    BY <2>1 DEF UniqueInv
  <2>4. Unique(apps'[a])
    BY <2>1, <2>2, <2>3, ExtendedUnique
  <2>5. QED BY <2>1, <2>4 DEF UniqueInv, Assigned
<1>3. ASSUME NEW p \in Publishers, CreateApplication(p), apps' # apps
      PROVE  UniqueInv'
  <2>1. PICK a \in AppId :
          /\ request[p] \in Requests
          /\ apps'[a] = [package |-> request[p].package,
                         name |-> request[p].name, mine |-> TRUE,
                         versions |-> <<ReleaseOf(request[p])>>]
          /\ \A b \in AppId \ {a} : apps'[b] = apps[b]
    BY <1>3, CreateApplicationCases DEF Answered
  <2>2. \A v : RecordsOf(apps'[a], v) \subseteq {1}
    BY <2>1, NewApplication
  <2>3. Unique(apps'[a])
    BY <2>2 DEF Unique
  <2>4. QED BY <2>1, <2>3 DEF UniqueInv, Assigned
<1>4. ASSUME NEW a \in AppId, NEW name \in Label, Rename(a, name)
      PROVE  UniqueInv'
  <2>1. \A b \in Assigned' : b \in Assigned /\ apps'[b].versions = apps[b].versions
    BY <1>4, RenameCases DEF Assigned
  <2>2. \A b \in Assigned' : \A v : RecordsOf(apps'[b], v) = RecordsOf(apps[b], v)
    BY <2>1 DEF RecordsOf
  <2>3. QED BY <2>1, <2>2 DEF UniqueInv, Unique
<1>5. \/ apps' = apps
      \/ \E p \in Publishers : CreateVersion(p) \/ CreateApplication(p)
      \/ \E a \in AppId, name \in Label : Rename(a, name)
  BY DEF Next, vars, Begin, Fail, FindByQuery, FindByName, GetApplication,
         storeVars
<1>6. QED BY <1>1, <1>2, <1>3, <1>4, <1>5

\* The first store satisfies both.
LEMMA InitUnique ==
  ASSUME Init
  PROVE  SoloInv /\ (InitiallyUnique => UniqueInv)
BY DEF Init, SoloInv, Running, InitiallyUnique, UniqueInv, Assigned

\* At most one record, counted.
LEMMA UniqueCounts ==
  ASSUME IInv, UniqueInv
  PROVE  OneRecordPerVersion
<1> SUFFICES ASSUME NEW a \in Assigned, NEW v \in Version
             PROVE  Cardinality(RecordsOf(apps[a], v)) <= 1
  BY DEF OneRecordPerVersion
<1>1. CASE RecordsOf(apps[a], v) = {}
  BY <1>1, FS_EmptySet
<1>2. ASSUME NEW k \in RecordsOf(apps[a], v)
      PROVE  Cardinality(RecordsOf(apps[a], v)) <= 1
  <2>1. RecordsOf(apps[a], v) = {k}
    BY DEF UniqueInv, Unique
  <2>2. QED BY <2>1, FS_Singleton
<1>3. QED BY <1>1, <1>2

-----------------------------------------------------------------------------
(* The theorems                                                             *)

\* The typing, and what a call knows of the application it addresses, are an
\* inductive invariant of any number of overlapping calls.
THEOREM InductiveInvariant == Spec => []IInv
<1>1. IInv /\ [Next]_vars => IInv'
  BY StepInv
<1>2. QED BY InitInv, <1>1, PTL DEF Spec

\* Variables keep their types; a call that addresses an application knows one.
THEOREM TypeCorrect == Spec => []TypeOK
<1>1. IInv => TypeOK
  BY DEF IInv
<1>2. QED BY InductiveInvariant, <1>1, PTL

\* However calls and renames interleave, a version reaches an application of
\* another package only by name, after the package was searched in vain.
THEOREM PackageNeverShadowed == Spec => NeverShadowsPackage
<1> DEFINE Addressee(a) ==
      (/\ apps[a] # NoApp /\ apps'[a] # NoApp
       /\ apps'[a].versions # apps[a].versions)
      => \E p \in Publishers :
           /\ pc[p] = "createVersion" /\ id[p] = a
           /\ \/ apps[a].package = request[p].package
              \/ request[p].appID = NoId /\ absent[p]
<1>1. ASSUME IInv, [Next]_vars, NEW a \in AppId
      PROVE  Addressee(a)
  <2> SUFFICES ASSUME apps[a] # NoApp, apps'[a] # NoApp,
                      apps'[a].versions # apps[a].versions
               PROVE  \E p \in Publishers :
                        /\ pc[p] = "createVersion" /\ id[p] = a
                        /\ \/ apps[a].package = request[p].package
                           \/ request[p].appID = NoId /\ absent[p]
    OBVIOUS
  <2>1. ASSUME NEW p \in Publishers, CreateVersion(p)
        PROVE  /\ pc[p] = "createVersion" /\ id[p] = a
               /\ \/ apps[a].package = request[p].package
                  \/ request[p].appID = NoId /\ absent[p]
    <3>1. pc[p] = "createVersion" /\ id[p] = a
      BY <1>1, <2>1, CreateVersionCases DEF Answered
    <3>2. byName[p] \in BOOLEAN
      BY <1>1 DEF IInv, TypeOK
    <3>3. QED BY <1>1, <3>1, <3>2 DEF IInv, AddressInv
  <2>2. ASSUME NEW p \in Publishers, CreateApplication(p)
        PROVE  FALSE
    BY <1>1, <2>2, CreateApplicationCases DEF Answered, Assigned
  <2>3. ASSUME NEW b \in AppId, NEW name \in Label, Rename(b, name)
        PROVE  FALSE
    BY <1>1, <2>3, RenameCases
  <2>4. apps' # apps
    OBVIOUS
  <2>5. QED
    BY <1>1, <2>1, <2>2, <2>3, <2>4
    DEF Next, vars, Begin, Fail, FindByQuery, FindByName, GetApplication,
        storeVars
<1>2. IInv /\ [Next]_vars => [\A a \in AppId : Addressee(a)]_vars
  BY <1>1
<1>3. QED BY InductiveInvariant, <1>2, PTL DEF Spec, NeverShadowsPackage

\* If the first store has no duplicates, none is ever recorded, either because
\* runs do not overlap, whatever the store would accept, or because the store
\* adds none.
THEOREM NoDuplicateRecords ==
  ASSUME InitiallyUnique, Exclusive \/ "add" \notin OnDuplicate
  PROVE  Spec => []OneRecordPerVersion
<1>1. Init => SoloInv /\ UniqueInv
  BY InitUnique
<1>2. IInv /\ SoloInv /\ UniqueInv /\ [Next]_vars => SoloInv' /\ UniqueInv'
  BY SoloStep, UniqueStep
<1>3. IInv /\ UniqueInv => OneRecordPerVersion
  BY UniqueCounts
<1>4. QED BY InductiveInvariant, <1>1, <1>2, <1>3, PTL DEF Spec

\* Runs that do not overlap create no second application for a package, even
\* if the store would accept it and replies are lost.
THEOREM NoDuplicateApplications ==
  ASSUME Exclusive
  PROVE  Spec => OneApplicationPerPackage
<1> DEFINE First(a) ==
      (apps[a] = NoApp /\ apps'[a] # NoApp) => AppsOf(apps'[a].package) = {}
<1>1. ASSUME IInv, SoloInv, [Next]_vars, NEW a \in AppId
      PROVE  First(a)
  <2> SUFFICES ASSUME apps[a] = NoApp, apps'[a] # NoApp
               PROVE  AppsOf(apps'[a].package) = {}
    OBVIOUS
  <2>1. ASSUME NEW p \in Publishers, CreateApplication(p)
        PROVE  AppsOf(apps'[a].package) = {}
    <3>1. /\ pc[p] = "createApplication"
          /\ apps'[a].package = request[p].package
      <4>1. pc[p] = "createApplication"
        BY <1>1, <2>1, CreateApplicationCases
      <4>2. PICK b \in AppId :
              \/ apps' = apps
              \/ /\ apps'[b] = [package |-> request[p].package,
                                name |-> request[p].name, mine |-> TRUE,
                                versions |-> <<ReleaseOf(request[p])>>]
                 /\ \A c \in AppId \ {b} : apps'[c] = apps[c]
        BY <1>1, <2>1, CreateApplicationCases DEF Answered
      <4>3. b = a
        BY <4>2
      <4>4. QED BY <4>1, <4>2, <4>3
    <3>2. QED BY <1>1, <3>1 DEF SoloInv
  <2>2. ASSUME NEW p \in Publishers, CreateVersion(p)
        PROVE  FALSE
    BY <1>1, <2>2, CreateVersionCases DEF Answered, Assigned
  <2>3. ASSUME NEW b \in AppId, NEW name \in Label, Rename(b, name)
        PROVE  FALSE
    BY <1>1, <2>3, RenameCases DEF Assigned
  <2>4. apps' # apps
    OBVIOUS
  <2>5. QED
    BY <1>1, <2>1, <2>2, <2>3, <2>4
    DEF Next, vars, Begin, Fail, FindByQuery, FindByName, GetApplication,
        storeVars
<1>2. IInv /\ SoloInv /\ [Next]_vars => [\A a \in AppId : First(a)]_vars
  BY <1>1
<1>3. Init => SoloInv
  BY InitUnique
<1>4. QED
  BY InductiveInvariant, SoloStep, <1>2, <1>3, PTL
  DEF Spec, OneApplicationPerPackage

-----------------------------------------------------------------------------
(* The refinement of WriteOnce                                              *)

\* The state of the abstract register.
StoredNow == [place \in Place |-> StoredAt(place)]
ToldNow == [p \in Publishers |-> Told(p)]

\* What an application, or no application, holds for a version.
ContentAt(app, v) ==
  IF app # NoApp /\ RecordsOf(app, v) # {}
  THEN FirstMatching(app, v).content ELSE NoApp

\* The content of the only record of a version is what the register holds.
LEMMA ContentOfRecord ==
  ASSUME NEW app \in Application, Unique(app), NEW v \in Version,
         NEW k \in RecordsOf(app, v)
  PROVE  /\ ContentAt(app, v) = app.versions[k].content
         /\ FirstMatching(app, v) = app.versions[k]
         /\ app.versions[k] \in Release
<1>1. RecordsOf(app, v) \subseteq Nat
  BY RecordsType
<1>2. \A l \in RecordsOf(app, v) : l = k
  BY DEF Unique
<1>3. FirstMatching(app, v) = app.versions[k]
  BY <1>1, <1>2, OnlyMatching
<1>4. app.versions[k] \in Release
  BY DEF RecordsOf, Application
<1>5. QED BY <1>3, <1>4, StoreAssumption DEF ContentAt

\* A record that passes the client's comparison is the content asked for.
LEMMA VerifiedIsStored ==
  ASSUME NEW app \in Application, Unique(app), NEW r \in Requests,
         NEW k \in RecordsOf(app, r.version),
         SameContent(app.versions[k], r)
  PROVE  ContentAt(app, r.version) = r.content
<1>1. r.version \in Version /\ r.content \in Content
  BY StoreAssumption DEF Request
<1>2. /\ ContentAt(app, r.version) = app.versions[k].content
      /\ app.versions[k] \in Release
  BY <1>1, ContentOfRecord
<1>3. app.versions[k].content \in Content
  BY <1>2 DEF Release
<1>4. app.versions[k].content = r.content
  BY <1>1, <1>3, ContentAssumption DEF SameContent
<1>5. QED BY <1>2, <1>4

\* Recording a release fills the place of its version and no other.
LEMMA ExtendedContent ==
  ASSUME NEW app \in Application, Unique(app), NEW r \in Requests,
         RecordsOf(app, r.version) = {}
  PROVE  /\ ContentAt(app, r.version) = NoApp
         /\ ContentAt(Extended(app, r), r.version) = r.content
         /\ \A v \in Version :
              v # r.version => ContentAt(Extended(app, r), v) = ContentAt(app, v)
<1> DEFINE new == Extended(app, r)
           n == Len(app.versions) + 1
<1>1. new \in Application /\ Unique(new)
  BY AppendRecords, ExtendedUnique
<1>2. r.version \in Version /\ ReleaseOf(r).content = r.content
  BY StoreAssumption DEF Request, ReleaseOf
<1>3. ContentAt(new, r.version) = r.content
  <2>1. RecordsOf(new, r.version) = RecordsOf(app, r.version) \cup {n}
    BY AppendRecords
  <2>2. n \in RecordsOf(new, r.version)
    BY <2>1
  <2>3. new.versions[n] = ReleaseOf(r)
    BY AppendRecords
  <2>4. QED BY <1>1, <1>2, <2>2, <2>3, ContentOfRecord
<1>4. ASSUME NEW v \in Version, v # r.version
      PROVE  ContentAt(new, v) = ContentAt(app, v)
  <2>1. RecordsOf(new, v) = RecordsOf(app, v)
    BY <1>4, AppendRecords
  <2>2. CASE RecordsOf(app, v) = {}
    BY <2>1, <2>2 DEF ContentAt
  <2>3. ASSUME NEW k \in RecordsOf(app, v)
        PROVE  ContentAt(new, v) = ContentAt(app, v)
    <3>1. ContentAt(app, v) = app.versions[k].content
      BY ContentOfRecord
    <3>2. k \in RecordsOf(new, v)
      BY <2>1
    <3>3. ContentAt(new, v) = new.versions[k].content
      BY <1>1, <3>2, ContentOfRecord
    <3>4. k \in DOMAIN app.versions
      BY DEF RecordsOf
    <3>5. new.versions[k] = app.versions[k]
      BY <3>4, AppendRecords
    <3>6. QED BY <3>1, <3>3, <3>5
  <2>4. QED BY <2>2, <2>3
<1>5. QED BY <1>3, <1>4 DEF ContentAt

\* A created application fills the place of its version and no other.
LEMMA NewContent ==
  ASSUME NEW r \in Requests, NEW new,
         new = [package |-> r.package, name |-> r.name, mine |-> TRUE,
                versions |-> <<ReleaseOf(r)>>]
  PROVE  /\ ContentAt(new, r.version) = r.content
         /\ \A v \in Version : v # r.version => ContentAt(new, v) = NoApp
<1>1. /\ new \in Application
      /\ RecordsOf(new, r.version) = {1}
      /\ \A v \in Version : v # r.version => RecordsOf(new, v) = {}
      /\ new.versions[1] = ReleaseOf(r)
  BY NewApplication
<1>2. Unique(new)
  <2>1. \A v \in Version : RecordsOf(new, v) \subseteq {1}
    BY <1>1
  <2>2. QED BY <2>1 DEF Unique
<1>3. r.version \in Version /\ ReleaseOf(r).content = r.content
  BY StoreAssumption DEF Request, ReleaseOf
<1>4. ContentAt(new, r.version) = r.content
  BY <1>1, <1>2, <1>3, ContentOfRecord
<1>5. QED BY <1>1, <1>4 DEF ContentAt

\* A call that ends tells its caller about its own place, and nobody else
\* anything.
LEMMA ReturnTells ==
  ASSUME IInv, NEW p \in Publishers, Running(p), NEW what \in Outcome,
         Return(p, what), UNCHANGED request,
         \A q \in Publishers : q # p => id'[q] = id[q]
  PROVE  /\ what \notin Published => UNCHANGED ToldNow
         /\ what \in Published =>
              ToldNow' = [ToldNow EXCEPT ![p] =
                            [place |-> <<id'[p], request[p].version>>,
                             content |-> request[p].content]]
<1>1. Told(p) = NoApp
  BY DEF IInv, TypeOK, Told, Running
<1>2. \A q \in Publishers : q # p => Told(q)' = Told(q)
  BY DEF IInv, TypeOK, Told, Return
<1>3. Told(p)' = IF what \in Published
                 THEN [place |-> <<id'[p], request[p].version>>,
                       content |-> request[p].content]
                 ELSE NoApp
  BY DEF IInv, TypeOK, Told, Return
<1>4. CASE what \notin Published
  BY <1>1, <1>2, <1>3, <1>4 DEF ToldNow
<1>5. CASE what \in Published
  BY <1>2, <1>3, <1>5 DEF ToldNow
<1>6. QED BY <1>4, <1>5

\* A call that goes on tells nobody anything.
LEMMA GotoTells ==
  ASSUME IInv, NEW p \in Publishers, Running(p), NEW where,
         Goto(p, where), UNCHANGED request,
         \A q \in Publishers : q # p => id'[q] = id[q]
  PROVE  UNCHANGED ToldNow
<1>1. Told(p) = NoApp /\ Told(p)' = NoApp
  BY DEF IInv, TypeOK, Told, Running, Goto
<1>2. \A q \in Publishers : q # p => Told(q)' = Told(q)
  BY DEF IInv, TypeOK, Told, Goto
<1>3. QED BY <1>1, <1>2 DEF ToldNow

\* The register holds what the applications hold.
LEMMA StoredIsContent ==
  \A a \in AppId, v \in Version : StoredNow[<<a, v>>] = ContentAt(apps[a], v)
BY DEF StoredNow, StoredAt, ContentAt, Place

\* One application that gains one content, and no other change, is one
\* record of the register.
LEMMA OneRecorded ==
  ASSUME NEW a \in AppId, NEW v \in Version, NEW c,
         \A b \in AppId \ {a} : apps'[b] = apps[b],
         ContentAt(apps[a], v) = NoApp,
         ContentAt(apps'[a], v) = c,
         \A w \in Version : w # v => ContentAt(apps'[a], w) = ContentAt(apps[a], w)
  PROVE  /\ <<a, v>> \in Place
         /\ StoredNow[<<a, v>>] = NoApp
         /\ StoredNow' = [StoredNow EXCEPT ![<<a, v>>] = c]
<1>1. <<a, v>> \in Place /\ StoredNow[<<a, v>>] = NoApp
  BY StoredIsContent DEF Place
<1>2. \A place \in Place :
        StoredAt(place)' = IF place = <<a, v>> THEN c ELSE StoredAt(place)
  <2> SUFFICES ASSUME NEW b \in AppId, NEW w \in Version
               PROVE  ContentAt(apps'[b], w)
                        = IF b = a /\ w = v THEN c ELSE ContentAt(apps[b], w)
    BY DEF Place, StoredAt, ContentAt
  <2>1. QED OBVIOUS
<1>3. QED BY <1>1, <1>2 DEF StoredNow

\* The steps of the register, over StoredNow and ToldNow.
Fills(place, c) ==
  /\ StoredNow[place] = NoApp
  /\ StoredNow' = [StoredNow EXCEPT ![place] = c]

Tells(p, place, c) ==
  ToldNow' = [ToldNow EXCEPT ![p] = [place |-> place, content |-> c]]

RegisterStep ==
  \/ UNCHANGED <<StoredNow, ToldNow>>
  \/ \E p \in Publishers :
       ToldNow' = [ToldNow EXCEPT ![p] = NoApp] /\ UNCHANGED StoredNow
  \/ \E place \in Place, c \in Content :
       \/ Fills(place, c) /\ UNCHANGED ToldNow
       \/ \E p \in Publishers : Fills(place, c) /\ Tells(p, place, c)
       \/ \E p \in Publishers :
            StoredNow[place] = c /\ Tells(p, place, c) /\ UNCHANGED StoredNow

\* They are what WriteOnce calls its steps.
LEMMA RegisterStepIsNext == RegisterStep => [Register!Next]_(Register!vars)
BY DEF RegisterStep, Fills, Tells, StoredNow, ToldNow, Register!Next,
       Register!vars, Register!Record, Register!Tell, Register!Forget

\* The place and the content of a request.
LEMMA RequestPlace ==
  ASSUME NEW a \in AppId, NEW r \in Requests
  PROVE  /\ <<a, r.version>> \in Place
         /\ r.version \in Version /\ r.content \in Content
BY StoreAssumption DEF Place, Request

\* A new call forgets what its caller was told.
LEMMA BeginRegister ==
  ASSUME IInv, NEW p \in Publishers, NEW r \in Requests, Begin(p, r)
  PROVE  RegisterStep
<1>1. UNCHANGED StoredNow
  BY DEF Begin, storeVars, StoredNow, StoredAt, RecordsOf, FirstMatching
<1>2. Told(p)' = NoApp
  BY DEF IInv, TypeOK, Begin, Told, Published
<1>3. \A q \in Publishers : q # p => Told(q)' = Told(q)
  BY DEF IInv, TypeOK, Begin, Told
<1>4. ToldNow' = [ToldNow EXCEPT ![p] = NoApp]
  BY <1>2, <1>3 DEF ToldNow
<1>5. QED BY <1>1, <1>4 DEF RegisterStep

\* The steps that only read the store, and do not end in a publication.
LEMMA ReadingRegister ==
  ASSUME IInv, NEW p \in Publishers, Running(p),
         UNCHANGED <<apps, request>>,
         \A q \in Publishers : q # p => id'[q] = id[q],
         \/ \E where : Goto(p, where)
         \/ \E what \in {"conflict", "failed"} : Return(p, what)
  PROVE  RegisterStep
<1>1. UNCHANGED StoredNow
  BY DEF StoredNow, StoredAt, RecordsOf, FirstMatching
<1>2. UNCHANGED ToldNow
  <2>1. CASE \E where : Goto(p, where)
    BY <2>1, GotoTells
  <2>2. ASSUME NEW what \in {"conflict", "failed"}, Return(p, what)
        PROVE  UNCHANGED ToldNow
    <3>1. what \in Outcome /\ what \notin Published
      BY DEF Outcome, Published
    <3>2. QED BY <2>2, <3>1, ReturnTells
  <2>3. QED BY <2>1, <2>2
<1>3. QED BY <1>1, <1>2 DEF RegisterStep

\* An existing version is reported only when it is the one asked for.
LEMMA GetApplicationRegister ==
  ASSUME IInv, UniqueInv, NEW p \in Publishers, GetApplication(p)
  PROVE  RegisterStep
<1> DEFINE a == id[p]
           r == request[p]
<1>1. /\ pc[p] = "get" /\ Running(p) /\ r \in Requests
      /\ UNCHANGED <<apps, request, id>>
  BY DEF GetApplication, storeVars, localVars, Running, IInv, TypeOK
<1>2. CASE \/ \E where : Goto(p, where)
           \/ \E what \in {"conflict", "failed"} : Return(p, what)
  BY <1>1, <1>2, ReadingRegister
<1>3. CASE /\ Return(p, "existing") /\ a \in Assigned
           /\ RecordsOf(apps[a], r.version) # {}
           /\ SameContent(FirstMatching(apps[a], r.version), r)
  <2>1. /\ apps[a] \in Application /\ Unique(apps[a])
        /\ a \in AppId /\ r.version \in Version /\ r.content \in Content
        /\ <<a, r.version>> \in Place
    BY <1>1, <1>3, AssignedType, RequestPlace DEF IInv, UniqueInv
  <2>2. PICK k \in RecordsOf(apps[a], r.version) : TRUE
    BY <1>3
  <2>3. FirstMatching(apps[a], r.version) = apps[a].versions[k]
    BY <2>1, <2>2, ContentOfRecord
  <2>4. StoredNow[<<a, r.version>>] = r.content
    BY <1>1, <1>3, <2>1, <2>2, <2>3, VerifiedIsStored, StoredIsContent
  <2>5. UNCHANGED StoredNow
    BY <1>1 DEF StoredNow, StoredAt, RecordsOf, FirstMatching
  <2>6. Tells(p, <<a, r.version>>, r.content)
    BY <1>1, <1>3, ReturnTells DEF Tells, Outcome, Published
  <2>7. QED BY <2>1, <2>4, <2>5, <2>6 DEF RegisterStep
<1>4. QED BY <1>2, <1>3 DEF GetApplication, Readable, MatchingVersion

\* A call that fills its place tells its caller so, or nothing.
LEMMA RecordedRegister ==
  ASSUME IInv, NEW p \in Publishers, Running(p), NEW a \in AppId,
         NEW what \in Published,
         UNCHANGED request, id'[p] = a,
         \A q \in Publishers : q # p => id'[q] = id[q],
         Fills(<<a, request[p].version>>, request[p].content),
         Return(p, what) \/ Return(p, "failed")
  PROVE  RegisterStep
<1> DEFINE place == <<a, request[p].version>>
           c == request[p].content
<1>1. request[p] \in Requests
  BY DEF IInv, TypeOK
<1>2. place \in Place /\ c \in Content
  BY <1>1, RequestPlace
<1>3. what \in Outcome /\ "failed" \in Outcome /\ "failed" \notin Published
  BY DEF Outcome, Published
<1>4. CASE Return(p, what)
  <2>1. Tells(p, place, c)
    BY <1>3, <1>4, ReturnTells DEF Tells
  <2>2. QED BY <1>2, <2>1 DEF RegisterStep
<1>5. CASE Return(p, "failed")
  <2>1. UNCHANGED ToldNow
    BY <1>3, <1>5, ReturnTells
  <2>2. QED BY <1>2, <2>1 DEF RegisterStep
<1>6. QED BY <1>4, <1>5

\* A call answered with a record it verified tells of what is stored.
LEMMA AnsweredRegister ==
  ASSUME IInv, UniqueInv, NEW p \in Publishers, Running(p), NEW a \in Assigned,
         NEW what \in Published, NEW releases,
         UNCHANGED request, id'[p] = a,
         \A q \in Publishers : q # p => id'[q] = id[q],
         Answered(p, what, releases),
         \A release \in releases :
           \/ release.version # request[p].version
           \/ \E k \in RecordsOf(apps[a], request[p].version) :
                release = apps[a].versions[k]
  PROVE  RegisterStep
<1> DEFINE r == request[p]
           place == <<a, r.version>>
<1>1. /\ a \in AppId /\ apps[a] \in Application /\ Unique(apps[a])
      /\ r \in Requests /\ apps' = apps
  BY AssignedType DEF IInv, TypeOK, UniqueInv, Answered
<1>2. place \in Place /\ r.version \in Version /\ r.content \in Content
  BY <1>1, RequestPlace
<1>3. CASE \E other \in {"conflict", "failed"} : Return(p, other)
  BY <1>1, <1>3, ReadingRegister
<1>4. ASSUME NEW release \in releases, VerifyVersion(release, r),
             Return(p, what)
      PROVE  RegisterStep
  <2>1. release.version = r.version /\ SameContent(release, r)
    BY <1>4 DEF VerifyVersion
  <2>2. PICK k \in RecordsOf(apps[a], r.version) : release = apps[a].versions[k]
    BY <2>1
  <2>3. StoredNow[place] = r.content
    BY <1>1, <1>2, <2>1, <2>2, VerifiedIsStored, StoredIsContent
  <2>4. Tells(p, place, r.content)
    BY <1>4, ReturnTells DEF Tells, Outcome
  <2>5. UNCHANGED StoredNow
    BY <1>1 DEF StoredNow, StoredAt, RecordsOf, FirstMatching
  <2>6. QED BY <1>2, <2>3, <2>4, <2>5 DEF RegisterStep
<1>5. QED BY <1>3, <1>4 DEF Answered

\* createVersion.
LEMMA CreateVersionRegister ==
  ASSUME "add" \notin OnDuplicate, IInv, UniqueInv,
         NEW p \in Publishers, CreateVersion(p)
  PROVE  RegisterStep
<1> DEFINE a == id[p]
           r == request[p]
<1>1. /\ pc[p] = "createVersion" /\ Running(p)
      /\ a \in Assigned /\ r \in Requests
      /\ request' = request /\ id' = id
  BY CreateVersionCases DEF Running, localVars
<1>2. /\ a \in AppId /\ apps[a] \in Application /\ Unique(apps[a])
      /\ r.version \in Version
      /\ "added" \in Published
  BY <1>1, AssignedType, RequestPlace DEF IInv, UniqueInv, Published
<1>3. CASE /\ RecordsOf(apps[a], r.version) = {}
           /\ Recorded(p, "added")
           /\ apps'[a] = Extended(apps[a], r)
           /\ \A b \in AppId \ {a} : apps'[b] = apps[b]
  <2>1. Fills(<<a, r.version>>, r.content)
    BY <1>1, <1>2, <1>3, ExtendedContent, OneRecorded DEF Fills
  <2>2. QED BY <1>1, <1>2, <1>3, <2>1, RecordedRegister DEF Recorded
<1>4. CASE /\ RecordsOf(apps[a], r.version) # {}
           /\ Answered(p, "added", {FirstMatching(apps[a], r.version)})
  <2>1. PICK k \in RecordsOf(apps[a], r.version) :
          FirstMatching(apps[a], r.version) = apps[a].versions[k]
    BY <1>2, <1>4, ContentOfRecord
  <2>2. QED BY <1>1, <1>2, <1>4, <2>1, AnsweredRegister
<1>5. QED BY <1>3, <1>4, CreateVersionCases

\* createApplication.
LEMMA CreateApplicationRegister ==
  ASSUME "add" \notin OnDuplicate, IInv, UniqueInv,
         NEW p \in Publishers, CreateApplication(p)
  PROVE  RegisterStep
<1> DEFINE r == request[p]
           new == [package |-> r.package, name |-> r.name, mine |-> TRUE,
                   versions |-> <<ReleaseOf(r)>>]
<1>1. /\ Running(p) /\ r \in Requests /\ "created" \in Published
  BY CreateApplicationCases DEF Running, Published
<1>2. PICK a \in AppId :
        /\ Resolve(p, a, FALSE)
        /\ \/ /\ Recorded(p, "created")
              /\ a \notin Assigned
              /\ apps'[a] = new
              /\ \A b \in AppId \ {a} : apps'[b] = apps[b]
           \/ /\ a \in AppsOf(r.package)
              /\ Answered(p, "created", LatestVersion(apps[a]))
  BY CreateApplicationCases
<1>3. /\ request' = request /\ id'[p] = a
      /\ \A q \in Publishers : q # p => id'[q] = id[q]
  BY <1>2 DEF Resolve, IInv, TypeOK
<1>4. CASE /\ Recorded(p, "created")
           /\ a \notin Assigned
           /\ apps'[a] = new
           /\ \A b \in AppId \ {a} : apps'[b] = apps[b]
  <2>1. r.version \in Version
    BY <1>1, RequestPlace
  <2>2. \A v \in Version : ContentAt(apps[a], v) = NoApp
    BY <1>4 DEF Assigned, ContentAt
  <2>3. /\ ContentAt(apps'[a], r.version) = r.content
        /\ \A v \in Version : v # r.version => ContentAt(apps'[a], v) = NoApp
    BY <1>1, <1>4, NewContent
  <2>4. \A v \in Version :
          v # r.version => ContentAt(apps'[a], v) = ContentAt(apps[a], v)
    BY <2>2, <2>3
  <2>5. Fills(<<a, r.version>>, r.content)
    <3> HIDE DEF r, new
    <3>1. ContentAt(apps[a], r.version) = NoApp
      BY <2>1, <2>2
    <3>2. QED BY <1>4, <2>1, <2>3, <2>4, <3>1, OneRecorded DEF Fills
  <2>6. QED BY <1>1, <1>3, <1>4, <2>5, RecordedRegister DEF Recorded
<1>5. CASE /\ a \in AppsOf(r.package)
           /\ Answered(p, "created", LatestVersion(apps[a]))
  <2>1. a \in Assigned
    BY <1>5 DEF AppsOf
  <2>2. \A release \in LatestVersion(apps[a]) :
          \/ release.version # r.version
          \/ \E k \in RecordsOf(apps[a], r.version) :
               release = apps[a].versions[k]
    BY DEF LatestVersion, RecordsOf
  <2>3. QED BY <1>1, <1>3, <1>5, <2>1, <2>2, AnsweredRegister
<1>6. QED BY <1>2, <1>4, <1>5

\* A rename changes no content.
LEMMA RenameRegister ==
  ASSUME IInv, NEW a \in AppId, NEW name \in Label, Rename(a, name)
  PROVE  RegisterStep
<1>1. UNCHANGED <<id, request, outcome>>
  BY DEF Rename, localVars
<1>2. UNCHANGED ToldNow
  BY <1>1 DEF ToldNow, Told
<1>3. \A b \in AppId, v \in Version :
        ContentAt(apps'[b], v) = ContentAt(apps[b], v)
  <2>1. \A b \in AppId \ {a} : apps'[b] = apps[b]
    BY RenameCases
  <2>2. /\ apps[a] # NoApp /\ apps'[a] # NoApp
        /\ apps'[a].versions = apps[a].versions
    BY RenameCases, StoreAssumption DEF Assigned
  <2>3. \A v : /\ RecordsOf(apps'[a], v) = RecordsOf(apps[a], v)
               /\ FirstMatching(apps'[a], v) = FirstMatching(apps[a], v)
    BY <2>2 DEF RecordsOf, FirstMatching
  <2>4. QED BY <2>1, <2>2, <2>3 DEF ContentAt
<1>4. UNCHANGED StoredNow
  BY <1>3 DEF StoredNow, StoredAt, ContentAt, Place
<1>5. QED BY <1>2, <1>4 DEF RegisterStep

\* Every step of the store and its clients is a step of the register.
LEMMA StepRegister ==
  ASSUME "add" \notin OnDuplicate, IInv, UniqueInv, [Next]_vars
  PROVE  RegisterStep
<1>1. ASSUME NEW p \in Publishers, NEW r \in Requests, Begin(p, r)
      PROVE  RegisterStep
  BY <1>1, BeginRegister
<1>2. ASSUME NEW p \in Publishers, Fail(p) PROVE RegisterStep
  BY <1>2, ReadingRegister DEF Fail, storeVars, localVars
<1>3. ASSUME NEW p \in Publishers, FindByQuery(p) PROVE RegisterStep
  <2>1. /\ Running(p) /\ UNCHANGED <<apps, request>>
        /\ \A q \in Publishers : q # p => id'[q] = id[q]
        /\ \/ \E where : Goto(p, where)
           \/ \E what \in {"conflict", "failed"} : Return(p, what)
    BY <1>3
    DEF FindByQuery, AfterQuery, Resolve, storeVars, localVars, Running, IInv,
        TypeOK
  <2>2. QED BY <2>1, ReadingRegister
<1>4. ASSUME NEW p \in Publishers, FindByName(p) PROVE RegisterStep
  <2>1. /\ Running(p) /\ UNCHANGED <<apps, request>>
        /\ \A q \in Publishers : q # p => id'[q] = id[q]
        /\ \/ \E where : Goto(p, where)
           \/ \E what \in {"conflict", "failed"} : Return(p, what)
    BY <1>4
    DEF FindByName, Resolve, storeVars, localVars, Running, IInv, TypeOK
  <2>2. QED BY <2>1, ReadingRegister
<1>5. ASSUME NEW p \in Publishers,
             GetApplication(p) \/ CreateVersion(p) \/ CreateApplication(p)
      PROVE  RegisterStep
  BY <1>5, GetApplicationRegister, CreateVersionRegister,
     CreateApplicationRegister
<1>6. ASSUME NEW a \in AppId, NEW name \in Label, Rename(a, name)
      PROVE  RegisterStep
  BY <1>6, RenameRegister
<1>7. CASE UNCHANGED vars
  BY <1>7
  DEF vars, storeVars, localVars, RegisterStep, StoredNow, ToldNow, StoredAt,
      Told, RecordsOf, FirstMatching
<1>8. QED BY <1>1, <1>2, <1>3, <1>4, <1>5, <1>6, <1>7 DEF Next

\* The first store is a first register: nobody has been told anything.
LEMMA InitRegister ==
  ASSUME InitiallyUnique, Init
  PROVE  Register!Init
<1>1. UniqueInv /\ IInv
  BY InitUnique, InitInv
<1>2. \A p \in Publishers : Told(p) = NoApp
  BY DEF Init, Told, Published
<1>3. ASSUME NEW a \in AppId, NEW v \in Version
      PROVE  ContentAt(apps[a], v) \in Content \cup {NoApp}
  <2>1. CASE a \in Assigned /\ RecordsOf(apps[a], v) # {}
    <3>1. PICK k \in RecordsOf(apps[a], v) : TRUE
      BY <2>1
    <3>2. apps[a] \in Application /\ Unique(apps[a])
      BY <1>1, <2>1, AssignedType DEF IInv, UniqueInv
    <3>3. /\ ContentAt(apps[a], v) = apps[a].versions[k].content
          /\ apps[a].versions[k] \in Release
      BY <3>1, <3>2, ContentOfRecord
    <3>4. QED BY <3>3 DEF Release
  <2>2. QED BY <2>1 DEF ContentAt, Assigned
<1>4. \A place \in Place : StoredAt(place) \in Content \cup {NoApp}
  BY <1>3 DEF Place, StoredAt, ContentAt
<1>5. QED BY <1>2, <1>4 DEF Register!Init

\* If the first store has no duplicates and the store adds none, the store and
\* any number of overlapping calls implement WriteOnce: contents stay, and a
\* caller is told only of the content it asked for, where it is stored.
THEOREM StoreIsWriteOnce ==
  ASSUME InitiallyUnique, "add" \notin OnDuplicate
  PROVE  Spec => IsWriteOnce
<1>1. Init => SoloInv /\ UniqueInv /\ Register!Init
  BY InitUnique, InitRegister
<1>2. IInv /\ SoloInv /\ UniqueInv /\ [Next]_vars => SoloInv' /\ UniqueInv'
  BY SoloStep, UniqueStep
<1>3. IInv /\ UniqueInv /\ [Next]_vars => [Register!Next]_(Register!vars)
  BY StepRegister, RegisterStepIsNext
<1>4. QED
  BY InductiveInvariant, <1>1, <1>2, <1>3, PTL
  DEF Spec, IsWriteOnce, Register!Spec
-----------------------------------------------------------------------------
(* Runs that are repeated                                                   *)

\* What leads a request is the packages, the names and the permissions.
LEMMA SameHomes ==
  ASSUME NEW s, NEW t,
         \A a \in AppId :
           /\ t[a] = NoApp <=> s[a] = NoApp
           /\ s[a] # NoApp => /\ t[a].package = s[a].package
                              /\ t[a].name = s[a].name
                              /\ t[a].mine = s[a].mine
  PROVE  \A r : Siblings(t, r) = Siblings(s, r) /\ Home(t, r) = Home(s, r)
<1>1. \A r : Siblings(t, r) = Siblings(s, r) /\ Namesakes(t, r) = Namesakes(s, r)
  BY DEF Siblings, Namesakes
<1> QED BY <1>1 DEF Home

\* All requests of one configuration lead to the same applications.
LEMMA HomeOfOne ==
  ASSUME OneConfiguration, NEW store, NEW r \in Requests, NEW s \in Requests
  PROVE  Siblings(store, r) = Siblings(store, s) /\ Home(store, r) = Home(store, s)
<1>1. r.package = s.package /\ r.name = s.name
  BY DEF OneConfiguration
<1>2. /\ Siblings(store, r) = Siblings(store, s)
      /\ Namesakes(store, r) = Namesakes(store, s)
  BY <1>1 DEF Siblings, Namesakes
<1> QED BY <1>1, <1>2 DEF Home

\* The client's two searches return the siblings and the namesakes.
LEMMA SearchesFindHome ==
  /\ \A r : AppsOf(r.package) = Siblings(apps, r)
  /\ \A r : { a \in AppsNamed(r.name) : apps[a].mine } = Namesakes(apps, r)
BY DEF AppsOf, AppsNamed, Assigned, Siblings, Namesakes

\* Siblings come first.
LEMMA HomeMembers ==
  ASSUME NEW store, NEW r
  PROVE  /\ \A a \in Siblings(store, r) : a \in Home(store, r)
         /\ Siblings(store, r) # {} => Home(store, r) = Siblings(store, r)
         /\ Siblings(store, r) = {} /\ r.name # r.package
              => Home(store, r) = Namesakes(store, r)
         /\ Siblings(store, r) = {} /\ r.name = r.package => Home(store, r) = {}
BY DEF Home

\* A set whose elements are equal does not count more than one.
LEMMA OneElement ==
  ASSUME NEW S, \A a, b \in S : a = b
  PROVE  ~(Cardinality(S) > 1)
<1>1. CASE S = {}
  BY <1>1, FS_EmptySet
<1>2. ASSUME NEW a \in S
      PROVE  ~(Cardinality(S) > 1)
  <2>1. S = {a}
    OBVIOUS
  <2>2. Cardinality({a}) = 1
    BY FS_Singleton
  <2> QED BY <2>1, <2>2
<1> QED BY <1>1, <1>2

\* While one call runs, the others do not.
LEMMA OthersRest ==
  ASSUME Exclusive, SoloInv, NEW p \in Publishers, Running(p)
  PROVE  \A q \in Publishers : q # p => pc[q] \in {"idle", "done"}
BY DEF SoloInv, Running

\* A call that ends leaves no call on its way.
LEMMA ReturnHome ==
  ASSUME IInv, SoloInv, Exclusive, NEW p \in Publishers, Running(p), NEW what,
         Return(p, what),
         renames' = 0 => /\ \A r \in Requests : TidyFor(apps', r)
                         /\ \A r \in served' : AtHome(r)'
  PROVE  HomeInv'
<1>1. \A q \in Publishers : pc'[q] \notin {"byName", "createApplication", "get",
                                           "createVersion"}
  BY OthersRest DEF Return, IInv, TypeOK
<1>2. \A q \in Publishers : HomeBound(q)'
  BY <1>1 DEF HomeBound
<1> QED BY <1>2 DEF HomeInv

\* A call that reads the store is on its way when its next step is.
LEMMA GotoHome ==
  ASSUME IInv, SoloInv, Exclusive, HomeInv, NEW p \in Publishers, Running(p),
         NEW where, Goto(p, where),
         UNCHANGED <<apps, renames, served, request>>,
         renames = 0 => HomeBound(p)'
  PROVE  HomeInv'
<1>1. \A q \in Publishers :
        q # p => pc'[q] \notin {"byName", "createApplication", "get",
                                "createVersion"}
  BY OthersRest DEF Goto, IInv, TypeOK
<1>2. \A q \in Publishers : q # p => HomeBound(q)'
  BY <1>1 DEF HomeBound
<1>3. \A r \in served : AtHome(r) => AtHome(r)'
  BY DEF AtHome
<1> QED BY <1>2, <1>3 DEF HomeInv

\* The search for the package leads home, or to the search by name.
LEMMA FindByQueryHome ==
  ASSUME IInv, SoloInv, Exclusive, HomeInv, NEW p \in Publishers, FindByQuery(p)
  PROVE  HomeInv'
<1> DEFINE r == request[p]
           found == Siblings(apps, r)
<1>1. /\ pc[p] = "query" /\ Running(p) /\ r \in Requests
      /\ AfterQuery(p, found)
      /\ UNCHANGED <<apps, renames, served, request>>
  BY SearchesFindHome
  DEF FindByQuery, AfterQuery, Resolve, storeVars, localVars, Running, IInv, TypeOK
<1>2. r.appID = NoId /\ ~byName[p]
  BY <1>1 DEF IInv, AddressInv
<1>3. CASE Return(p, "conflict")
  BY <1>1, <1>3, ReturnHome DEF HomeInv, AtHome
<1>4. ASSUME NEW a \in found, Resolve(p, a, FALSE), Goto(p, "get")
      PROVE  HomeInv'
  <2>1. /\ pc'[p] = "get" /\ id'[p] = a /\ ~byName'[p]
        /\ a \in Siblings(apps', request'[p]) /\ request'[p].appID = NoId
    BY <1>1, <1>2, <1>4 DEF Resolve, Goto, IInv, TypeOK
  <2>2. HomeBound(p)'
    BY <2>1, HomeMembers DEF HomeBound
  <2> QED BY <1>1, <1>4, <2>2, GotoHome
<1>5. CASE /\ found = {}
           /\ Goto(p, IF r.name = r.package THEN "createApplication"
                                            ELSE "byName")
  <2> DEFINE where == IF r.name = r.package THEN "createApplication" ELSE "byName"
  <2>1. pc'[p] = where /\ request'[p] = r /\ apps' = apps
    BY <1>1, <1>5 DEF Goto, IInv, TypeOK
  <2>2. r.name = r.package => Home(apps, r) = {}
    BY <1>5, HomeMembers
  <2>3. HomeBound(p)'
    BY <1>2, <2>1, <2>2 DEF HomeBound
  <2> QED BY <1>1, <1>5, <2>3, GotoHome
<1> QED BY <1>1, <1>3, <1>4, <1>5 DEF AfterQuery

\* The search by name leads home, or finds that there is none.
LEMMA FindByNameHome ==
  ASSUME IInv, SoloInv, Exclusive, HomeInv, NEW p \in Publishers, FindByName(p)
  PROVE  HomeInv'
<1> DEFINE r == request[p]
           mine == Namesakes(apps, r)
<1>1. /\ pc[p] = "byName" /\ Running(p) /\ r \in Requests
      /\ \/ \E what \in {"conflict", "failed"} : Return(p, what)
         \/ \E a \in mine : Resolve(p, a, TRUE) /\ Goto(p, "get")
         \/ mine = {} /\ Goto(p, "createApplication") /\ UNCHANGED localVars
      /\ UNCHANGED <<apps, renames, served, request>>
  BY SearchesFindHome
  DEF FindByName, Resolve, storeVars, localVars, Running, IInv, TypeOK
<1>2. r.appID = NoId /\ Siblings(apps, r) = {}
  BY <1>1, SearchesFindHome DEF IInv, AddressInv, SoloInv
<1>3. renames = 0 => Home(apps, r) = mine
  BY <1>1, <1>2, HomeMembers DEF HomeInv, HomeBound
<1>4. CASE \E what \in {"conflict", "failed"} : Return(p, what)
  BY <1>1, <1>4, ReturnHome DEF HomeInv, AtHome
<1>5. ASSUME NEW a \in mine, Resolve(p, a, TRUE), Goto(p, "get")
      PROVE  HomeInv'
  <2>1. /\ pc'[p] = "get" /\ id'[p] = a /\ byName'[p]
        /\ request'[p] = r /\ apps' = apps
    BY <1>1, <1>5 DEF Resolve, Goto, IInv, TypeOK
  <2>2. renames = 0 => HomeBound(p)'
    BY <1>2, <1>3, <2>1 DEF HomeBound
  <2> QED BY <1>1, <1>5, <2>2, GotoHome
<1>6. CASE mine = {} /\ Goto(p, "createApplication")
  <2>1. pc'[p] = "createApplication" /\ request'[p] = r /\ apps' = apps
    BY <1>1, <1>6 DEF Goto, IInv, TypeOK
  <2>2. renames = 0 => HomeBound(p)'
    BY <1>2, <1>3, <1>6, <2>1 DEF HomeBound
  <2> QED BY <1>1, <1>6, <2>2, GotoHome
<1> QED BY <1>1, <1>4, <1>5, <1>6

\* What Publish reads on its way keeps it on its way.
LEMMA GetApplicationHome ==
  ASSUME IInv, SoloInv, Exclusive, HomeInv, NEW p \in Publishers,
         GetApplication(p)
  PROVE  HomeInv'
<1>1. /\ pc[p] = "get" /\ Running(p)
      /\ \/ \E what \in {"conflict", "failed", "existing"} : Return(p, what)
         \/ Goto(p, "createVersion")
      /\ UNCHANGED <<apps, renames, served, localVars>>
  BY DEF GetApplication, storeVars, Running
<1>2. CASE \E what \in {"conflict", "failed", "existing"} : Return(p, what)
  BY <1>1, <1>2, ReturnHome DEF HomeInv, AtHome, localVars
<1>3. CASE Goto(p, "createVersion")
  <2>1. pc'[p] = "createVersion"
    BY <1>3 DEF Goto, IInv, TypeOK
  <2>2. renames = 0 => HomeBound(p)'
    BY <1>1, <2>1 DEF HomeInv, HomeBound, localVars
  <2> QED BY <1>1, <1>3, <2>2, GotoHome DEF localVars
<1> QED BY <1>1, <1>2, <1>3

\* A recorded release stays on record when another is recorded after it.
LEMMA ExtendedHas ==
  ASSUME NEW app \in Application, NEW r \in Requests
  PROVE  /\ HasRelease(Extended(app, r), r)
         /\ \A s \in Requests : HasRelease(app, s) => HasRelease(Extended(app, r), s)
         /\ Extended(app, r).package = app.package
         /\ Extended(app, r).name = app.name
         /\ Extended(app, r).mine = app.mine
<1> DEFINE new == Extended(app, r)
           n == Len(app.versions) + 1
<1>1. /\ \A k \in DOMAIN app.versions : new.versions[k] = app.versions[k]
      /\ new.versions[n] = ReleaseOf(r)
      /\ \A v : v # r.version => RecordsOf(new, v) = RecordsOf(app, v)
      /\ RecordsOf(new, r.version) = RecordsOf(app, r.version) \cup {n}
  BY AppendRecords DEF Extended
<1>2. HasRelease(new, r)
  BY <1>1 DEF HasRelease, ReleaseOf
<1>3. ASSUME NEW s \in Requests, HasRelease(app, s)
      PROVE  HasRelease(new, s)
  <2>1. PICK k \in RecordsOf(app, s.version) :
          app.versions[k].content = s.content
    BY <1>3 DEF HasRelease
  <2>2. k \in DOMAIN app.versions
    BY DEF RecordsOf
  <2>3. k \in RecordsOf(new, s.version)
    BY <1>1
  <2> QED BY <1>1, <2>1, <2>2, <2>3 DEF HasRelease
<1>4. new.package = app.package /\ new.name = app.name /\ new.mine = app.mine
  BY DEF Application, Extended
<1> QED BY <1>2, <1>3, <1>4

\* A version is recorded at home.
LEMMA CreateVersionHome ==
  ASSUME IInv, SoloInv, Exclusive, HomeInv, NEW p \in Publishers,
         CreateVersion(p)
  PROVE  HomeInv'
<1>0. PICK r \in Requests : r = request[p]
  BY CreateVersionCases
<1>1. PICK a \in AppId : a = id[p]
  BY CreateVersionCases, AssignedType DEF IInv
<1>2. /\ pc[p] = "createVersion" /\ Running(p) /\ renames' = renames
      /\ a \in Assigned /\ apps[a] \in Application
      /\ Recorded(p, "added")
      /\ apps'[a] = Extended(apps[a], r)
      /\ \A b \in AppId \ {a} : apps'[b] = apps[b]
      /\ apps' \in [AppId -> Application \cup {NoApp}]
  <2>1. /\ pc[p] = "createVersion" /\ Running(p) /\ renames' = renames
        /\ a \in Assigned
    BY <1>1, CreateVersionCases DEF Running
  <2>2. RecordsOf(apps[a], r.version) = {}
    BY <1>0, <1>1, <2>1 DEF SoloInv
  <2>3. apps[a] \in Application
    BY <2>1, AssignedType DEF IInv
  <2> QED BY <1>0, <1>1, <2>1, <2>2, <2>3, CreateVersionCases
<1>3. \A s : /\ Siblings(apps', s) = Siblings(apps, s)
             /\ Home(apps', s) = Home(apps, s)
  <2>1. /\ apps'[a].package = apps[a].package /\ apps'[a].name = apps[a].name
        /\ apps'[a].mine = apps[a].mine
    BY <1>2, ExtendedHas
  <2>2. apps[a] # NoApp /\ apps'[a] # NoApp
    <3>1. Extended(apps[a], r) \in Application
      BY <1>2, AppendRecords
    <3> QED BY <1>2, <3>1, StoreAssumption
  <2>3. \A b \in AppId :
          /\ apps'[b] = NoApp <=> apps[b] = NoApp
          /\ apps[b] # NoApp => /\ apps'[b].package = apps[b].package
                                /\ apps'[b].name = apps[b].name
                                /\ apps'[b].mine = apps[b].mine
    BY <1>2, <2>1, <2>2
  <2> QED BY <2>3, SameHomes
<1>4. ASSUME NEW s \in Requests, NEW b \in Home(apps, s), HasRelease(apps[b], s)
      PROVE  HasRelease(apps'[b], s)
  <2>1. b \in AppId
    BY DEF Home, Siblings, Namesakes
  <2> QED BY <1>2, <1>4, <2>1, ExtendedHas
<1>5. ASSUME renames = 0
      PROVE  /\ \A s \in Requests : TidyFor(apps', s)
             /\ \A s \in served' : AtHome(s)'
  <2>1. \A s \in Requests : TidyFor(apps', s)
    BY <1>3, <1>5 DEF HomeInv, TidyFor
  <2>2. served' = served \cup {r} /\ served \subseteq Requests
    BY <1>0, <1>2 DEF Recorded, IInv, TypeOK
  <2>3. ASSUME NEW s \in served PROVE AtHome(s)'
    BY <1>3, <1>4, <1>5, <2>2 DEF HomeInv, AtHome
  <2>4. AtHome(r)'
    <3>1. HomeBound(p)
      BY <1>5 DEF HomeInv
    <3>2. a \in Home(apps, r) /\ (r.appID # NoId => r.appID \in Siblings(apps, r))
      <4>1. CASE r.appID = NoId
        BY <1>0, <1>1, <1>2, <3>1, <4>1 DEF HomeBound
      <4>2. CASE r.appID # NoId
        <5>1. a = r.appID /\ ~byName[p]
          BY <1>0, <1>1, <1>2, <3>1, <4>2 DEF HomeBound
        <5>2. apps[a].package = r.package
          BY <1>0, <1>1, <1>2, <5>1 DEF IInv, AddressInv
        <5>3. a \in Siblings(apps, r)
          BY <1>2, <5>2 DEF Siblings, Assigned
        <5> QED BY <5>1, <5>3, HomeMembers
      <4> QED BY <4>1, <4>2
    <3>3. HasRelease(apps'[a], r)
      BY <1>2, ExtendedHas
    <3> QED BY <1>3, <3>2, <3>3 DEF AtHome
  <2> QED BY <2>1, <2>2, <2>3, <2>4
<1>6. \E what : Return(p, what)
  BY <1>2 DEF Recorded
<1> QED BY <1>2, <1>5, <1>6, ReturnHome

\* An application is created only if nothing was served, and is a home.
LEMMA CreateApplicationHome ==
  ASSUME IInv, SoloInv, Exclusive, OneConfiguration, HomeInv,
         NEW p \in Publishers, CreateApplication(p)
  PROVE  HomeInv'
<1>1. PICK r \in Requests : r = request[p]
  BY CreateApplicationCases
<1>2. /\ pc[p] = "createApplication" /\ Running(p) /\ renames' = renames
      /\ Siblings(apps, r) = {}
  BY <1>1, CreateApplicationCases, SearchesFindHome DEF Running, SoloInv
<1>3. PICK a \in AppId :
        /\ Recorded(p, "created")
        /\ a \notin Assigned
        /\ apps'[a] = [package |-> r.package, name |-> r.name, mine |-> TRUE,
                       versions |-> <<ReleaseOf(r)>>]
        /\ \A b \in AppId \ {a} : apps'[b] = apps[b]
  BY <1>1, <1>2, CreateApplicationCases, SearchesFindHome
<1>4. /\ apps'[a] # NoApp /\ apps'[a].package = r.package
      /\ HasRelease(apps'[a], r)
  <2>1. /\ apps'[a] \in Application /\ apps'[a].package = r.package
        /\ apps'[a].versions[1] = ReleaseOf(r)
        /\ RecordsOf(apps'[a], r.version) = {1}
    BY <1>3, NewApplication
  <2> QED BY <2>1, StoreAssumption DEF HasRelease, ReleaseOf
<1>5. Siblings(apps', r) = {a}
  BY <1>2, <1>3, <1>4 DEF Siblings
<1>6. \A s \in Requests : Home(apps', s) = {a}
  BY <1>5, HomeOfOne, HomeMembers
<1>7. ASSUME renames = 0
      PROVE  /\ \A s \in Requests : TidyFor(apps', s)
             /\ \A s \in served' : AtHome(s)'
  <2>1. \A s \in Requests : TidyFor(apps', s)
    BY <1>6 DEF TidyFor
  <2>2. r.appID = NoId /\ Home(apps, r) = {}
    BY <1>1, <1>2, <1>7 DEF HomeInv, HomeBound
  <2>3. ASSUME NEW s \in served PROVE FALSE
    <3>1. s \in Requests /\ AtHome(s)
      BY <1>7 DEF HomeInv, IInv, TypeOK
    <3>2. Home(apps, s) = {}
      BY <2>2, <3>1, HomeOfOne
    <3> QED BY <3>1, <3>2 DEF AtHome
  <2>4. served' = {r}
    BY <1>1, <1>3, <2>3 DEF Recorded
  <2>5. AtHome(r)'
    BY <1>4, <1>6, <2>2 DEF AtHome
  <2> QED BY <2>1, <2>4, <2>5
<1>8. \E what : Return(p, what)
  BY <1>3 DEF Recorded
<1> QED BY <1>2, <1>7, <1>8, ReturnHome

\* Every step of runs that do not overlap keeps releases at home.
LEMMA HomeStep ==
  ASSUME Exclusive, OneConfiguration
  PROVE  IInv /\ SoloInv /\ HomeInv /\ [Next]_vars => HomeInv'
<1> SUFFICES ASSUME IInv, SoloInv, HomeInv, [Next]_vars PROVE HomeInv'
  OBVIOUS
<1>1. ASSUME NEW p \in Publishers, NEW r \in Requests, Begin(p, r)
      PROVE  HomeInv'
  <2>1. UNCHANGED <<apps, renames, served>>
    BY <1>1 DEF Begin, storeVars
  <2>2. \A q \in Publishers : q # p => pc'[q] \in {"idle", "done"}
    BY <1>1 DEF Begin, Running, IInv, TypeOK
  <2>3. \A q \in Publishers : q # p => HomeBound(q)'
    BY <2>2 DEF HomeBound
  <2>4. /\ pc'[p] = IF r.appID = NoId THEN "query" ELSE "get"
        /\ request'[p] = r /\ id'[p] = r.appID /\ byName'[p] = FALSE
    BY <1>1 DEF Begin, IInv, TypeOK
  <2>5. HomeBound(p)'
    BY <2>4 DEF HomeBound
  <2> QED BY <2>1, <2>3, <2>5 DEF HomeInv, AtHome
<1>2. ASSUME NEW p \in Publishers, Fail(p) PROVE HomeInv'
  <2>1. /\ Running(p) /\ Return(p, "failed")
        /\ UNCHANGED <<apps, renames, served>>
    BY <1>2 DEF Fail, storeVars
  <2> QED BY <2>1, ReturnHome DEF HomeInv, AtHome
<1>3. ASSUME NEW p \in Publishers,
             \/ FindByQuery(p) \/ FindByName(p) \/ GetApplication(p)
             \/ CreateVersion(p) \/ CreateApplication(p)
      PROVE  HomeInv'
  BY <1>3, FindByQueryHome, FindByNameHome, GetApplicationHome,
     CreateVersionHome, CreateApplicationHome
<1>4. ASSUME NEW a \in AppId, NEW name \in Label, Rename(a, name)
      PROVE  HomeInv'
  <2>1. renames' # 0
    BY <1>4 DEF Rename, IInv, TypeOK
  <2> QED BY <2>1 DEF HomeInv
<1>5. CASE UNCHANGED vars
  BY <1>5 DEF HomeInv, AtHome, HomeBound, vars, storeVars, localVars
<1> QED BY <1>1, <1>2, <1>3, <1>4, <1>5 DEF Next

\* A call has no outcome before it ends.
LEMMA OpenStep == IInv /\ OpenInv /\ [Next]_vars => OpenInv'
<1> SUFFICES ASSUME IInv, OpenInv, [Next]_vars PROVE OpenInv'
  OBVIOUS
<1>1. ASSUME NEW p \in Publishers, NEW what, Return(p, what) PROVE OpenInv'
  BY <1>1 DEF Return, OpenInv, Running, IInv, TypeOK
<1>2. ASSUME NEW p \in Publishers, NEW where, Running(p), Goto(p, where)
      PROVE  OpenInv'
  BY <1>2 DEF Goto, OpenInv, Running, IInv, TypeOK
<1>3. ASSUME NEW p \in Publishers, NEW r \in Requests, Begin(p, r)
      PROVE  OpenInv'
  BY <1>3 DEF Begin, OpenInv, Running, IInv, TypeOK
<1>4. ASSUME NEW p \in Publishers,
             \/ Fail(p) \/ FindByQuery(p) \/ FindByName(p) \/ GetApplication(p)
             \/ CreateVersion(p) \/ CreateApplication(p)
      PROVE  \/ \E what : Return(p, what)
             \/ Running(p) /\ \E where : Goto(p, where)
  BY <1>4
  DEF Fail, FindByQuery, AfterQuery, FindByName, GetApplication, CreateVersion,
      CreateApplication, Recorded, Answered, Running
<1>5. CASE UNCHANGED <<pc, outcome>>
  BY <1>5 DEF OpenInv, Running
<1> QED BY <1>1, <1>2, <1>3, <1>4, <1>5 DEF Next, Rename, vars, localVars

\* A call whose release is at home does not end in a conflict.
LEMMA ServedIsNoConflict ==
  ASSUME Exclusive, IInv, SoloInv, UniqueInv, OpenInv, HomeInv, [Next]_vars,
         NEW p \in Publishers, Running(p), renames = 0, request[p] \in served
  PROVE  outcome'[p] # "conflict"
<1>1. PICK r \in Requests : r = request[p]
  BY DEF IInv, TypeOK
<1>2. /\ outcome[p] = "none" /\ TidyFor(apps, r) /\ AtHome(r) /\ HomeBound(p)
      /\ r.version \in Version
  BY <1>1, StoreAssumption DEF OpenInv, HomeInv, Request
<1>3. CASE FindByQuery(p)
  <2>1. AfterQuery(p, Siblings(apps, r))
    BY <1>1, <1>3, SearchesFindHome DEF FindByQuery
  <2>2. ~(Cardinality(Siblings(apps, r)) > 1)
    <3>1. \A a, b \in Siblings(apps, r) : a = b
      BY <1>2, HomeMembers DEF TidyFor
    <3> QED BY <3>1, OneElement
  <2>3. outcome' = outcome
    BY <2>1, <2>2 DEF AfterQuery, Goto
  <2> QED BY <1>2, <2>3
<1>4. CASE FindByName(p)
  <2>1. Siblings(apps, r) = {} /\ r.name # r.package
    BY <1>1, <1>2, <1>4, SearchesFindHome DEF FindByName, HomeBound, SoloInv
  <2>2. ~(Cardinality(Namesakes(apps, r)) > 1)
    <3>1. \A a, b \in Namesakes(apps, r) : a = b
      BY <1>2, <2>1, HomeMembers DEF TidyFor
    <3> QED BY <3>1, OneElement
  <2>3. outcome' = outcome \/ Return(p, "failed")
    BY <1>1, <1>4, <2>2, SearchesFindHome DEF FindByName, Goto
  <2> QED BY <1>2, <2>3 DEF Return, IInv, TypeOK
<1>5. CASE GetApplication(p)
  <2>1. PICK a \in AppId : a = id[p]
    BY <1>5 DEF GetApplication, IInv, TypeOK
  <2>2. CASE byName[p] /\ ~Addressed(apps[a], r, byName[p])
    BY <1>1, <1>2, <1>5, <2>1, <2>2
    DEF GetApplication, Return, Goto, IInv, TypeOK
  <2>3. CASE a \in Home(apps, r) /\ Addressed(apps[a], r, byName[p])
    <3>1. \E b \in Home(apps, r) : HasRelease(apps[b], r)
      BY <1>2 DEF AtHome
    <3>2. HasRelease(apps[a], r)
      BY <1>2, <2>3, <3>1 DEF TidyFor
    <3>3. PICK k \in RecordsOf(apps[a], r.version) :
            apps[a].versions[k].content = r.content
      BY <3>2 DEF HasRelease
    <3>4. a \in Assigned
      BY <2>3 DEF Home, Siblings, Namesakes, Assigned
    <3>5. FirstMatching(apps[a], r.version) = apps[a].versions[k]
      BY <1>2, <3>3, <3>4, AssignedType, ContentOfRecord DEF IInv, UniqueInv
    <3>6. SameContent(FirstMatching(apps[a], r.version), r)
      BY <3>3, <3>5 DEF SameContent
    <3>7. MatchingVersion(apps[a], r.version)
      BY <3>3 DEF MatchingVersion
    <3>8. \E what \in {"failed", "existing"} : Return(p, what)
      BY <1>1, <1>5, <2>1, <2>3, <3>6, <3>7 DEF GetApplication
    <3> QED BY <3>8 DEF Return, IInv, TypeOK
  <2>4. \/ byName[p] /\ ~Addressed(apps[a], r, byName[p])
        \/ a \in Home(apps, r) /\ Addressed(apps[a], r, byName[p])
    <3>1. pc[p] = "get"
      BY <1>5 DEF GetApplication
    <3>2. CASE r.appID # NoId
      <4>1. a \in Siblings(apps, r) /\ ~byName[p]
        BY <1>1, <1>2, <2>1, <3>1, <3>2 DEF HomeBound, AtHome
      <4> QED BY <4>1, HomeMembers DEF Siblings, Addressed
    <3>3. CASE r.appID = NoId
      <4>1. a \in Home(apps, r) /\ (~byName[p] => a \in Siblings(apps, r))
        BY <1>1, <1>2, <2>1, <3>1, <3>3 DEF HomeBound
      <4> QED BY <4>1 DEF Siblings, Addressed
    <3> QED BY <3>2, <3>3
  <2> QED BY <2>2, <2>3, <2>4
<1>6. CASE CreateVersion(p)
  <2>1. RecordsOf(apps[id[p]], request[p].version) = {}
    BY <1>6, CreateVersionCases DEF SoloInv
  <2>2. Recorded(p, "added")
    BY <1>6, <2>1, CreateVersionCases
  <2> QED BY <2>2 DEF Recorded, Return, IInv, TypeOK
<1>7. CASE CreateApplication(p)
  <2>1. AppsOf(request[p].package) = {}
    BY <1>7, CreateApplicationCases DEF SoloInv
  <2>2. Recorded(p, "created")
    BY <1>7, <2>1, CreateApplicationCases
  <2> QED BY <2>2 DEF Recorded, Return, IInv, TypeOK
<1>8. CASE Fail(p)
  BY <1>8 DEF Fail, Return, IInv, TypeOK
<1>9. ASSUME NEW q \in Publishers, q # p,
             \/ \E s \in Requests : Begin(q, s)
             \/ Fail(q) \/ FindByQuery(q) \/ FindByName(q)
             \/ GetApplication(q) \/ CreateVersion(q) \/ CreateApplication(q)
      PROVE  FALSE
  BY <1>9, OthersRest
  DEF Begin, Fail, FindByQuery, FindByName, GetApplication, CreateVersion,
      CreateApplication, Running
<1>10. CASE UNCHANGED outcome
  BY <1>2, <1>10
<1>11. ASSUME NEW s \in Requests, Begin(p, s) PROVE FALSE
  BY <1>11 DEF Begin
<1>12. \/ UNCHANGED outcome
       \/ \E s \in Requests : Begin(p, s)
       \/ FindByQuery(p) \/ FindByName(p) \/ GetApplication(p)
       \/ CreateVersion(p) \/ CreateApplication(p) \/ Fail(p)
       \/ \E q \in Publishers :
            /\ q # p
            /\ \/ \E s \in Requests : Begin(q, s)
               \/ Fail(q) \/ FindByQuery(q) \/ FindByName(q)
               \/ GetApplication(q) \/ CreateVersion(q) \/ CreateApplication(q)
  <2>1. ASSUME NEW a \in AppId, NEW name \in Label, Rename(a, name)
        PROVE  UNCHANGED outcome
    BY <2>1 DEF Rename
  <2>2. CASE UNCHANGED vars
    BY <2>2 DEF vars
  <2> QED BY <2>1, <2>2 DEF Next
<1> QED
  BY <1>3, <1>4, <1>5, <1>6, <1>7, <1>8, <1>9, <1>10, <1>11, <1>12

\* A workflow that is run again after a lost reply is not told that its own
\* release is in conflict: for any number of runs that do not overlap, over a
\* store that nobody renames applications of and whose first contents lead the
\* configured package and name to one application.
THEOREM RerunsNeverConflict ==
  ASSUME Exclusive, OneConfiguration, InitiallyUnique, InitiallyTidy
  PROVE  Spec => RerunNeverConflicts
<1>1. Init => SoloInv /\ UniqueInv /\ OpenInv /\ HomeInv
  <2> SUFFICES ASSUME Init PROVE SoloInv /\ UniqueInv /\ OpenInv /\ HomeInv
    OBVIOUS
  <2>1. SoloInv /\ UniqueInv
    BY InitUnique
  <2>2. OpenInv
    BY DEF Init, OpenInv, Running
  <2>3. \A p \in Publishers : HomeBound(p)
    BY DEF Init, HomeBound
  <2>4. HomeInv
    BY <2>3 DEF Init, HomeInv, InitiallyTidy
  <2> QED BY <2>1, <2>2, <2>4
<1>2. IInv /\ SoloInv /\ UniqueInv /\ OpenInv /\ HomeInv /\ [Next]_vars
        => SoloInv' /\ UniqueInv' /\ OpenInv' /\ HomeInv'
  BY SoloStep, UniqueStep, OpenStep, HomeStep
<1>3. IInv /\ SoloInv /\ UniqueInv /\ OpenInv /\ HomeInv /\ [Next]_vars
        => [\A p \in Publishers :
              (Running(p) /\ outcome'[p] = "conflict" /\ renames = 0)
              => request[p] \notin served]_vars
  BY ServedIsNoConflict
<1> QED
  BY InductiveInvariant, <1>1, <1>2, <1>3, PTL DEF Spec, RerunNeverConflicts
=============================================================================
