--------------------------- MODULE ComponentShelf ---------------------------
(***************************************************************************)
(* What the installation of model components promises: each component is   *)
(* absent, broken or good, and becomes good in one step.  A good one stays *)
(* on the shelf; a broken one is taken away before it is replaced.         *)
(***************************************************************************)
CONSTANT Components

VARIABLE shelf     \* shelf[c]: "absent", "broken" or "good"

Init == shelf \in [Components -> {"absent", "broken", "good"}]

TakeAway(c) ==
  /\ shelf[c] = "broken"
  /\ shelf' = [shelf EXCEPT ![c] = "absent"]

PutUp(c) ==
  /\ shelf[c] = "absent"
  /\ shelf' = [shelf EXCEPT ![c] = "good"]

Next == \E c \in Components : TakeAway(c) \/ PutUp(c)

Spec == Init /\ [][Next]_shelf
=============================================================================
