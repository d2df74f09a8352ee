-------------------------- MODULE MCGitReconciler --------------------------
(* Constants for the model-checking runs of GitReconciler. *)
EXTENDS GitReconciler, TLC

CONSTANT Name   \* names of components; two of them let an edit swap the
                \* component without changing the repository it needs
CONSTANT Torn   \* the name of a component of a spec with teardown: true

\* Components whose module or tfvars repository is the one subscribed to.
SameRefs == {[name |-> n, clone |-> r, watch |-> r] :
              n \in Name \cup {Torn}, r \in Repo}

\* Components with an overlay file from another repository: the overlay is
\* cloned, the module's repository is subscribed to.
OverlayRefs == [name : Name \cup {Torn}, clone : Repo, watch : Repo]

OneComponent == {{c} : c \in Ref}
Untorn == {{c} : c \in {d \in Ref : d.name # Torn}}
OneTorn == {{c} : c \in {d \in Ref : d.name = Torn}}

\* One trouble at a time; while an environment is torn down ticks do not overlap,
\* and a push comes only after the edit. So the run stays small.
OneTrouble ==
  /\ edits + deletes + crashes + faults <= 1
  /\ (\E e \in Env : spec[e] \in Teardown) =>
       /\ deletes + crashes + faults = 0
       /\ \E e \in Env : spec[e] \notin Teardown
       /\ \E j \in Job : job[j].pc = "idle"
       /\ edits = 0 => \A r \in Repo : head[r] = 1

Symmetry == Permutations(Env) \cup Permutations(Job) \cup Permutations(Ptr)
              \cup Permutations(Name)

=============================================================================
