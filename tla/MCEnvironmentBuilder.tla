------------------------ MODULE MCEnvironmentBuilder ------------------------
(* The environment builder with three components; they are interchangeable. *)
EXTENDS EnvironmentBuilder, TLC

ComponentSymmetry == Permutations(Comp)

\* A page that is derailed is followed only as long as a blueprint can still
\* come and put it right.
MayRecover == derailed => gen < MaxLoads
=============================================================================
