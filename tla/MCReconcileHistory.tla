-------------------------- MODULE MCReconcileHistory --------------------------
(* Constants for the model-checking run of ReconcileHistory. *)
EXTENDS ReconcileHistory, TLC

CONSTANTS c1, c2, e1, e2, u1, u2

\* What has raced is followed only while another run can still be asked for.
MayBeAskedAgain == raced => events < MaxEvents \/ \E p \in Patcher : patch[p] # 0

Symmetry ==
  Permutations(Component) \cup Permutations(Error) \cup Permutations(Patcher)
=============================================================================
