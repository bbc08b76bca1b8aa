---------------------------- MODULE MCActionRun ----------------------------
(***************************************************************************)
(* Inputs of module ActionRun for TLC: automatic and requested checks and  *)
(* builds of image and Git sources, with and without direct publication,   *)
(* and publications with every combination of switches that the flow       *)
(* reads.                                                                  *)
(***************************************************************************)
EXTENDS ActionRun

MCVersion == {1, 2}
MCPackageVersion == {0, 1, 2}
MCStatus == {404, 429, 503}

\* Publication requests; StartPublish fills in version, store, strategy, dry.
Requests ==
  {[store |-> "official", strategy |-> TRUE, enabled |-> enabled, url |-> url,
    version |-> 1, digest |-> digest, skip |-> skip, downgrade |-> downgrade,
    guard |-> guard, dry |-> FALSE] :
     enabled \in BOOLEAN, url \in BOOLEAN, digest \in {"d1", None},
     skip \in BOOLEAN, downgrade \in BOOLEAN, guard \in BOOLEAN}

MCRequest ==
  {r \in Requests : ~r.enabled \/ ~r.url => r.skip /\ r.guard /\ r.digest = None}

PublicationInputs ==
  {[requested |-> requested, event |-> "schedule", tag |-> FALSE,
    imageID |-> FALSE, version |-> version, source |-> "git", publish |-> TRUE,
    official |-> TRUE, continue |-> FALSE, dry |-> dry, request |-> request] :
     requested \in {"publish-official", "publish-private"},
     version \in {1, 2}, dry \in BOOLEAN, request \in MCRequest}

ProjectInputs ==
  {[requested |-> requested, event |-> event, tag |-> FALSE,
    imageID |-> imageID, version |-> version, source |-> source,
    publish |-> direct, official |-> direct, continue |-> continue,
    dry |-> dry, request |-> None] :
     requested \in {"auto", "check"},
     event \in {"schedule", "workflow_dispatch", "release", "pull_request"},
     imageID \in BOOLEAN, version \in {0, 2}, source \in {"image", "git"},
     direct \in BOOLEAN, continue \in BOOLEAN, dry \in BOOLEAN}

MCInputs == PublicationInputs \cup
  {i \in ProjectInputs :
     /\ i.continue => i.publish
     /\ i.imageID => i.requested = "check" /\ i.event = "schedule"
     /\ i.version # 0 => i.event \in {"workflow_dispatch", "release"}
     /\ i.event \in {"release", "pull_request"} => ~i.dry /\ ~i.continue
     /\ i.requested = "check" => i.event \in {"schedule", "release"}}

\* A publication reads neither the license, the images nor the homepage.
MCInit ==
  /\ Init
  /\ input.request # None =>
       ws.license = "MIT" /\ ws.images = "old" /\ homepage = "empty"

MCSpec == MCInit /\ [][Next]_vars /\ WF_vars(RunStep)
=============================================================================
