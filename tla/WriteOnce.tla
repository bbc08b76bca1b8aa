------------------------------ MODULE WriteOnce ------------------------------
(***************************************************************************)
(* What the private store and its clients promise together: a version of   *)
(* an application, once recorded, keeps its content for ever, and a caller *)
(* is told that its version is published only when the store holds, in     *)
(* that place, exactly the content the caller asked for.  A content may be *)
(* recorded without anybody being told: the reply can be lost.             *)
(***************************************************************************)
CONSTANTS Place,        \* a version of an application
          Content,      \* what can be recorded there
          Callers,
          Nothing

VARIABLES stored,       \* the content recorded in each place, or Nothing
          told          \* what each caller was told is published, or Nothing

vars == <<stored, told>>

Init ==
  /\ stored \in [Place -> Content \cup {Nothing}]
  /\ told = [c \in Callers |-> Nothing]

Record(place, content) ==
  /\ stored[place] = Nothing
  /\ stored' = [stored EXCEPT ![place] = content]

Tell(caller, place, content) ==
  told' = [told EXCEPT ![caller] = [place |-> place, content |-> content]]

\* A new call of the same caller.
Forget(caller) ==
  /\ told' = [told EXCEPT ![caller] = Nothing]
  /\ UNCHANGED stored

Next ==
  \/ \E caller \in Callers : Forget(caller)
  \/ \E place \in Place, content \in Content :
       \/ Record(place, content) /\ UNCHANGED told
       \/ \E caller \in Callers :
            /\ Record(place, content)
            /\ Tell(caller, place, content)
       \/ \E caller \in Callers :
            /\ stored[place] = content
            /\ Tell(caller, place, content)
            /\ UNCHANGED stored

Spec == Init /\ [][Next]_vars
=============================================================================
