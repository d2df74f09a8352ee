--------------------------- MODULE MCProvisioning ---------------------------
(* Constants for the model-checking runs of Provisioning. *)
EXTENDS Provisioning, TLC

CONSTANTS a, b, d   \* components

One == (a :> {})
Chain == (a :> {}) @@ (b :> {a})           \* b depends on a
Outer == Chain @@ (d :> {b})               \* d depends on b

Up == [teardown |-> FALSE, destroy |-> {}, protected |-> {}, auto |-> Comp,
       leftOut |-> {}, code |-> "v1"]
Down == [Up EXCEPT !.teardown = TRUE]
UpOrDown == {Up, Down}

(* a is protected and waits for an approval, whatever else the specs ask   *)
(* for.                                                                    *)
Protecting ==
  { [m EXCEPT !.protected = {a}, !.auto = {b}] :
      m \in { Up, Down, [Up EXCEPT !.destroy = {a, b}, !.leftOut = {d}] } }

(* Every plan waits for an approval. *)
Asking == { [m EXCEPT !.auto = {}] : m \in UpOrDown }

=============================================================================
