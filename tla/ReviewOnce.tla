----------------------------- MODULE ReviewOnce -----------------------------
(***************************************************************************)
(* What one call of official.Publisher.Publish promises the store and its  *)
(* caller, without attempts, retries, protocols or application states:     *)
(* it files at most one review, of the verified artifact and no other, and *)
(* it reports a publication only after a review was filed.  A call that    *)
(* fails may still have filed a review: the reply can be lost.             *)
(***************************************************************************)
CONSTANT Genuine              \* the reviews of the verified artifact

VARIABLES filed,              \* the reviews the call has filed
          report              \* what the caller has been told

vars == <<filed, report>>

Init ==
  /\ filed = {}
  /\ report = "open"

\* The store accepts a review; the call may or may not learn of it.
File ==
  /\ report = "open"
  /\ filed = {}
  /\ \E r \in Genuine : filed' = {r}
  /\ report' \in {"published", "failed"}

\* The call gives up, and has filed nothing.
GiveUp ==
  /\ report = "open"
  /\ filed = {}
  /\ report' = "failed"
  /\ UNCHANGED filed

Next == File \/ GiveUp

Spec == Init /\ [][Next]_vars
=============================================================================
