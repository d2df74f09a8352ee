-------------------------- MODULE DependencyDiagram --------------------------
(***************************************************************************)
(* What the environment builder of the web UI promises to its user: a      *)
(* diagram of components with arrows between them, and beside it the text  *)
(* of an environment in which every component that was ever pointed at is  *)
(* listed with exactly the arrows that point at it as its dependencies.    *)
(*                                                                         *)
(* `broken' names the one way out of the promise: a handler from before    *)
(* the last blueprint was used, and the text is about something else until *)
(* the next blueprint.                                                     *)
(***************************************************************************)
CONSTANTS Comp, Root

VARIABLES nodes,    \* the components in the diagram
          arrows,   \* the arrows, from a component or the root to a component
          listed,   \* the components that belong into the text
          text,     \* the text: a function from components to dependencies
          broken    \* whether the promise is off

vars == <<nodes, arrows, listed, text, broken>>

\* The text of the components in L when the arrows are A.
Text(L, A) == [c \in L |-> {p \in Comp : <<p, c>> \in A}]

DiagramTypeOK ==
  /\ nodes \subseteq Comp /\ listed \subseteq Comp
  /\ arrows \subseteq (nodes \cup {Root}) \X nodes
  /\ broken \in BOOLEAN

Init ==
  /\ nodes = {} /\ arrows = {} /\ listed = {}
  /\ text = Text({}, {})
  /\ broken = FALSE

\* After the step the text lists L, or the promise is off.
Promise(L) ==
  \/ broken'
  \/ ~broken /\ ~broken' /\ listed' = L /\ text' = Text(L, arrows')

Add(c) ==
  /\ c \notin nodes
  /\ nodes' = nodes \cup {c} /\ UNCHANGED arrows
  /\ Promise(listed)

Connect(p, c) ==
  /\ p \in nodes \cup {Root} /\ c \in nodes /\ p # c
  /\ arrows' = arrows \cup {<<p, c>>} /\ UNCHANGED nodes
  /\ Promise(listed \cup {c})

Disconnect(p, c) ==
  /\ <<p, c>> \in arrows
  /\ arrows' = arrows \ {<<p, c>>} /\ UNCHANGED nodes
  /\ Promise(listed)

\* The children of a deleted component go to one of its parents.
Delete(c) ==
  LET children == {d \in nodes : <<c, d>> \in arrows}
      parents  == {p \in nodes \cup {Root} : <<p, c>> \in arrows}
  IN
  /\ c \in nodes
  /\ nodes' = nodes \ {c}
  /\ \E p \in IF parents = {} THEN {Root} ELSE parents :
       \E kids \in SUBSET (children \ {c}) :
          /\ arrows' = {a \in arrows : c \notin {a[1], a[2]}} \cup ({p} \X kids)
          /\ broken' \/ (kids = children /\ Promise((listed \ {c}) \cup kids))

\* A blueprint replaces everything: all of its components are pointed at.
Load ==
  /\ nodes' \subseteq Comp
  /\ arrows' \subseteq (nodes' \cup {Root}) \X nodes'
  /\ \A c \in nodes' : \E p \in nodes' \cup {Root} : <<p, c>> \in arrows'
  /\ ~broken' /\ listed' = nodes' /\ text' = Text(nodes', arrows')

Break == broken' /\ UNCHANGED <<nodes, arrows>>

Next ==
  \/ \E c \in Comp : Add(c) \/ Delete(c)
  \/ \E p \in Comp \cup {Root}, c \in Comp : Connect(p, c) \/ Disconnect(p, c)
  \/ Load \/ Break

Spec == Init /\ [][Next]_vars
=============================================================================
