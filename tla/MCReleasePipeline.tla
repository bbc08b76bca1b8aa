------------------------- MODULE MCReleasePipeline -------------------------
(***************************************************************************)
(* Instances of ReleasePipeline for TLC: two concurrency groups, two       *)
(* versions, builds that differ.                                           *)
(***************************************************************************)
EXTENDS ReleasePipeline

\* Overlapping groups with one disturbance, and one group with two of them,
\* builds that differ, and both ways of naming the asset.
MCSettings ==
  { [overlap |-> TRUE,  versioned |-> TRUE,  private |-> TRUE,
     builds |-> {1}, events |-> 1],
    [overlap |-> FALSE, versioned |-> TRUE,  private |-> TRUE,
     builds |-> Builds, events |-> 2],
    [overlap |-> FALSE, versioned |-> FALSE, private |-> FALSE,
     builds |-> Builds, events |-> 2] }

OneGroup == { s \in MCSettings : s.versioned /\ ~s.overlap }
=============================================================================
