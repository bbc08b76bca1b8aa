----------------------------- MODULE ReleaseOnce -----------------------------
(***************************************************************************)
(* What a release pipeline promises to the users of an application: a      *)
(* version is built into one artifact, which is never replaced or          *)
(* withdrawn, and each store records a version at most once, after the     *)
(* artifact is there, and with exactly that artifact.  How often a         *)
(* publication is attempted, by whom, and what fails in between, is not    *)
(* seen.                                                                   *)
(***************************************************************************)
CONSTANTS Version, Artifact, Store, Nothing

VARIABLES asset,    \* the artifact released for each version, or Nothing
          records   \* what each store records for each version, or Nothing

vars == <<asset, records>>

Init ==
  /\ asset = [v \in Version |-> Nothing]
  /\ records = [store \in Store |-> [v \in Version |-> Nothing]]

Release(v, artifact) ==
  /\ asset[v] = Nothing
  /\ asset' = [asset EXCEPT ![v] = artifact]
  /\ UNCHANGED records

Deliver(store, v) ==
  /\ asset[v] # Nothing /\ records[store][v] = Nothing
  /\ records' = [records EXCEPT ![store][v] = asset[v]]
  /\ UNCHANGED asset

Next == \E v \in Version :
  \/ \E artifact \in Artifact : Release(v, artifact)
  \/ \E store \in Store : Deliver(store, v)

Spec == Init /\ [][Next]_vars
=============================================================================
