------------------------------ MODULE MCLiveView ------------------------------
(* Constants for the model-checking runs of LiveView: an environment of one  *)
(* component that gets a second one, then loses the first, and another of    *)
(* one component.                                                            *)
EXTENDS LiveView, TLC

CONSTANTS e1, e2, c1, c2, c3

MCOwner == (c1 :> e1) @@ (c2 :> e1) @@ (c3 :> e2)
           @@ (1 :> e1) @@ (2 :> e2) @@ (11 :> c1) @@ (12 :> c2)
MCDagAt == (e1 :> <<{c1}, {c1, c2}, {c2}>>) @@ (e2 :> <<{c3}>>)
MCRunDagAt == (e1 :> <<{c1}, {c1}, {c1, c2}>>) @@ (e2 :> <<{c3}>>)
\* One component is to come, the others have run already.
MCStart ==
  [o \in Obj |-> IF o = c2 \/ o \in Row THEN 0 ELSE IF o \in Comp THEN 2 ELSE 1]
=============================================================================
