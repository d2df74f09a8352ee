------------------------- MODULE EnvironmentBuilder -------------------------
(***************************************************************************)
(* The environment builder of the web UI: a page on which one user draws   *)
(* the components of an environment and copies the text of its resource.   *)
(*                                                                         *)
(* Nothing on the page is stored in one place. A component is an object    *)
(* with its own name and with a map `dependsOn' that it shares with its    *)
(* copies; the form puts a new copy in the place of the object with every  *)
(* keystroke; the graph, the builder's map of components, the `dependsOn'  *)
(* of other components and the form each hold one of these objects. Every  *)
(* handler on the page is a closure that keeps the builder of the moment   *)
(* it was made, and a blueprint brings a new builder and a new graph.      *)
(* Answers about modules arrive at any time and change what the form is    *)
(* about.                                                                  *)
(*                                                                         *)
(* Objects of a component are numbered from 1, and 0 is no object. A       *)
(* builder is the number of blueprints that were loaded before it. Names,  *)
(* positions and the other fields of a component are left out.             *)
(***************************************************************************)
EXTENDS Naturals, FiniteSets

CONSTANTS Comp,       \* the ids that uniqueId can give to components
          Root,       \* the id of the environment's own node
          MaxEdits,   \* bound: keystrokes in the forms of components
          MaxArrows,  \* bound: arrows in the graph when another is drawn
          MaxLoads    \* bound: blueprints that are loaded

ASSUME BuilderAssumption ==
  Root \notin Comp /\ MaxEdits \in Nat /\ MaxLoads \in Nat

VARIABLES
  graph,      \* the object that a node of the graph holds
  edge,       \* the edges of the graph
  copies,     \* how many objects of a component were made
  born,       \* the builder of the time when a component was made
  dependsOn,  \* the map of that name of every component
  spec,       \* builder.spec.components, for every builder
  gen,        \* the builder of the blueprint loaded last
  builder,    \* the builder in the state of the page
  drag,       \* the builder in the handlers of arrows
  del,        \* the builder in the handler that deletes a component
  form,       \* what the form is about: <<component or Root, object>>
  pending,    \* components whose module has not been answered yet
  yaml,       \* the text beside the graph
  derailed,   \* history: an old handler was used since the last blueprint
  early       \* history: components edited before they were in the text

vars == <<graph, edge, copies, born, dependsOn, spec, gen, builder, drag, del,
          form, pending, yaml, derailed, early>>

Object == 0 .. MaxEdits + 1
Builder == 0 .. MaxLoads
Node == {c \in Comp : graph[c] # 0}
Unused == {c \in Comp : copies[c] = 0}
Edits == Cardinality({o \in Comp \X Object : 1 < o[2] /\ o[2] <= copies[o[1]]})
Closed == <<Root, Root>>
Empty == [c \in Comp |-> 0]
Listed(b) == {c \in Comp : spec[b][c] # 0}

-----------------------------------------------------------------------------
(* yamlObject with its resolvers: the components of a builder's map, each   *)
(* with the keys of its dependsOn.                                          *)
YamlObject(components, deps) ==
  [c \in {c \in Comp : components[c] # 0} |-> {d \in Comp : deps[c][d] # 0}]

\* rerender: the text is that of the builder in the closure that renders, and
\* the handlers of arrows are attached with the same closure.
Rerender(b) == drag' = b /\ yaml' = YamlObject(spec'[b], dependsOn')

Init ==
  /\ graph = Empty /\ edge = {} /\ copies = Empty
  /\ born = Empty
  /\ dependsOn = [c \in Comp |-> Empty]
  /\ spec = [b \in Builder |-> Empty]
  /\ gen = 0 /\ builder = 0 /\ drag = 0 /\ del = Empty
  /\ form = Closed /\ pending = {}
  /\ yaml = [c \in {} |-> {}]
  /\ derailed = FALSE /\ early = {}

-----------------------------------------------------------------------------
\* A handler that holds another builder than the graph's own is an old one.
UseHandler(b) == derailed' = (derailed \/ b # gen)

\* addNode for a component that was not there.
NewNode(c) ==
  /\ c \in Unused
  /\ graph' = [graph EXCEPT ![c] = 1]
  /\ copies' = [copies EXCEPT ![c] = 1]
  /\ born' = [born EXCEPT ![c] = gen]
  /\ del' = [del EXCEPT ![c] = builder]
  /\ UNCHANGED <<edge, dependsOn, spec, gen, builder, derailed, early>>
  /\ Rerender(builder)

\* A double click, next to the nodes or on one of them.
DoubleClick(c) ==
  /\ NewNode(c)
  /\ form' \in {Closed, form}
  /\ UNCHANGED pending

\* A module is dropped on the page, which asks for its inputs and outputs.
DropModule(c) ==
  /\ NewNode(c)
  /\ pending' = pending \cup {c}
  /\ UNCHANGED form

\* The answer makes an open form one about the object that was dropped; a
\* failure does nothing.
ModuleAnswer(c) ==
  /\ c \in pending /\ pending' = pending \ {c}
  /\ form' \in {form, IF form = Closed THEN form ELSE <<c, 1>>}
  /\ UNCHANGED <<graph, edge, copies, born, dependsOn, spec, gen, builder,
                 drag, del, yaml, derailed, early>>

-----------------------------------------------------------------------------
\* Arrows to the root and arrows that the component depends on are refused.
CanSetEdge(p, c) == c \in Node /\ (p # Root => dependsOn[c][p] = 0)

\* setEdge for all c in C: p goes into their dependsOn, and they into the map.
Depend(p, C, deps) ==
  [c \in Comp |-> IF c \in C /\ p # Root THEN [deps[c] EXCEPT ![p] = graph[p]]
                  ELSE deps[c]]
SpecSet(C, m) == [c \in Comp |-> IF c \in C THEN graph[c] ELSE m[c]]

NodeDragEnd(p, c) ==
  /\ p \in Node \cup {Root} /\ p # c
  /\ CanSetEdge(p, c) /\ Cardinality(edge) <= MaxArrows
  /\ dependsOn' = Depend(p, {c}, dependsOn)
  /\ spec' = [spec EXCEPT ![drag] = SpecSet({c}, @)]
  /\ edge' = edge \cup {<<p, c>>}
  /\ UNCHANGED <<graph, copies, born, gen, builder, del, form,
                 pending, early>>
  /\ Rerender(drag) /\ UseHandler(drag)

\* Mutant: the edge goes, what the component depends on stays.
ForgetNothing(E) == dependsOn

\* The keys that leave the maps when the edges E are deleted.
Forget(E) ==
  [c \in Comp |-> [d \in Comp |-> IF <<d, c>> \in E THEN 0
                                  ELSE dependsOn[c][d]]]

\* A click on an edge; the window closes the form.
DeleteEdge(p, c) ==
  /\ <<p, c>> \in edge
  /\ edge' = edge \ {<<p, c>>}
  /\ dependsOn' = Forget({<<p, c>>})
  /\ form' = Closed
  /\ UNCHANGED <<graph, copies, born, spec, gen, builder, del,
                 pending, early>>
  /\ Rerender(drag) /\ UseHandler(drag)

-----------------------------------------------------------------------------
Touching(n) == {e \in edge : n \in {e[1], e[2]}}
Children(n) == {c \in Node : <<n, c>> \in edge}

\* Mutant: the wrong end of the edge is taken for the parent.
ParentNodeOtherEnd(n) ==
  IF Children(n) = {} THEN {Root} ELSE Children(n)

\* The parent that the loop of deleteNode ends with: any of them, for the model
\* does not keep the order of the edges.
ParentNode(n) ==
  LET parents == {p \in Node \cup {Root} : <<p, n>> \in edge}
  IN  IF parents = {} THEN {Root} ELSE parents

(* The children go to the parent. A node that is its own child is not in    *)
(* the graph any more when its turn comes: setEdge throws, the children     *)
(* after it stay alone and the page keeps what the last deleteEdge showed.  *)
DeleteNode(n) ==
  \E p \in ParentNode(n), kids \in SUBSET (Children(n) \ {n}) :
    LET b      == del[n]
        fails  == n \in Children(n)
        others == Forget(Touching(n))
    IN
    /\ n \in Node
    /\ IF fails THEN p = n => kids = {} ELSE kids = Children(n)
    /\ form' = Closed
    /\ edge' = (edge \ Touching(n)) \cup ({p} \X kids)
    /\ dependsOn' = Depend(p, kids, others)
    /\ spec' = [spec EXCEPT ![b] = SpecSet(kids, [@ EXCEPT ![n] = 0])]
    /\ graph' = [graph EXCEPT ![n] = 0]
    /\ del' = [del EXCEPT ![n] = 0]
    /\ drag' = b
    /\ yaml' = IF fails THEN YamlObject(spec[b], others)
               ELSE YamlObject(spec'[b], dependsOn')
    /\ derailed' = (derailed \/ b # gen \/ fails)
    /\ UNCHANGED <<copies, born, gen, builder, pending, early>>

-----------------------------------------------------------------------------
\* showPopUp, bound to the object that addNode put into the graph.
ShowPopUp(n) ==
  /\ n \in Node \cup {Root}
  /\ form' = IF n = Root THEN <<Root, builder>> ELSE <<n, graph[n]>>
  /\ UNCHANGED <<graph, edge, copies, born, dependsOn, spec, gen, builder,
                 drag, del, pending, yaml, derailed, early>>

\* Escape, or a click next to the form.
CloseNodeUpdatePopup ==
  /\ form # Closed /\ form' = Closed
  /\ UNCHANGED <<graph, edge, copies, born, dependsOn, spec, gen, builder,
                 drag, del, pending, yaml, derailed, early>>

\* Mutant: the other components keep the object they had.
RefreshNothing(c, k) == dependsOn

\* The objects that dependsOn holds of c are replaced, in the components that
\* the builder has.
Refresh(c, k) ==
  [x \in Comp |-> IF x \in Listed(builder) /\ dependsOn[x][c] # 0
                  THEN [dependsOn[x] EXCEPT ![c] = k] ELSE dependsOn[x]]

(* A keystroke in the form of a component: the object changes, the form     *)
(* goes on with a copy of it, and addNode puts the object that changed into *)
(* the graph, and back into it when its node was deleted.                   *)
EditComponent ==
  LET c == form[1]
      k == form[2]
      has == c \in Listed(builder)
  IN
  /\ form # Closed /\ c # Root /\ copies[c] <= MaxEdits /\ Edits < MaxEdits
  /\ copies' = [copies EXCEPT ![c] = @ + 1]
  /\ form' = <<c, copies[c] + 1>>
  /\ graph' = [graph EXCEPT ![c] = k]
  /\ del' = [del EXCEPT ![c] = builder]
  /\ IF has THEN /\ spec' = [spec EXCEPT ![builder][c] = k]
                 /\ dependsOn' = Refresh(c, k)
                 /\ UNCHANGED early
     ELSE early' = early \cup {c} /\ UNCHANGED <<spec, dependsOn>>
  /\ UNCHANGED <<edge, born, gen, builder, pending>>
  /\ Rerender(builder) /\ UseHandler(born[c])

(* A keystroke in the form of the environment: the builder of the form      *)
(* becomes that of the page. The handlers are attached before that.         *)
EditEnvironment ==
  /\ form # Closed /\ form[1] = Root
  /\ builder' = form[2]
  /\ drag' = builder /\ yaml' = YamlObject(spec[form[2]], dependsOn)
  /\ UseHandler(form[2])
  /\ UNCHANGED <<graph, edge, copies, born, dependsOn, spec, gen, del, form,
                 pending, early>>

-----------------------------------------------------------------------------
\* No component of S is reached from itself.
Acyclic(E) ==
  \A S \in (SUBSET Comp) \ {{}} : \E c \in S : \A d \in S : <<d, c>> \notin E

(* A blueprint: a new graph and a new builder with a tree of new components *)
(* under the root. What addNode and the handlers hold is the builder of     *)
(* before, and a form that is open stays open.                              *)
DropBlueprint ==
  \E S \in (SUBSET Unused) \ {{}} : \E parent \in [S -> S \cup {Root}] :
    LET E == {<<parent[c], c>> : c \in S}
        new == [c \in Comp |-> IF c \in S THEN 1 ELSE 0]
    IN
    /\ gen < MaxLoads /\ Acyclic(E)
    /\ gen' = gen + 1 /\ builder' = gen + 1
    /\ graph' = new /\ edge' = E
    /\ copies' = [c \in Comp |-> IF c \in S THEN 1 ELSE copies[c]]
    /\ born' = [c \in Comp |-> IF c \in S THEN gen + 1 ELSE born[c]]
    /\ dependsOn' = [c \in Comp |-> [d \in Comp |->
                       IF <<d, c>> \in E THEN 1 ELSE dependsOn[c][d]]]
    /\ spec' = [spec EXCEPT ![gen + 1] = new]
    /\ del' = [c \in Comp |-> IF c \in S THEN builder ELSE 0]
    /\ drag' = builder
    /\ yaml' = YamlObject(new, dependsOn')
    /\ derailed' = FALSE
    /\ UNCHANGED <<form, pending, early>>

Next ==
  \/ \E c \in Comp : DoubleClick(c) \/ DropModule(c) \/ ModuleAnswer(c)
  \/ \E p \in Comp \cup {Root}, c \in Comp : NodeDragEnd(p, c) \/ DeleteEdge(p, c)
  \/ \E n \in Comp : DeleteNode(n)
  \/ \E n \in Comp \cup {Root} : ShowPopUp(n)
  \/ CloseNodeUpdatePopup \/ EditComponent \/ EditEnvironment \/ DropBlueprint

Spec == Init /\ [][Next]_vars

-----------------------------------------------------------------------------
\* The variables have their types. A node that is listed or shown has objects.
BuilderTypeOK ==
  /\ graph \in [Comp -> Object] /\ copies \in [Comp -> Object]
  /\ \A c \in Comp : graph[c] <= copies[c]
  /\ edge \subseteq (Node \cup {Root}) \X Node
  /\ born \in [Comp -> Builder] /\ del \in [Comp -> Builder]
  /\ dependsOn \in [Comp -> [Comp -> Object]]
  /\ spec \in [Builder -> [Comp -> Object]]
  /\ gen \in Builder /\ builder \in Builder /\ drag \in Builder
  /\ derailed \in BOOLEAN
  /\ form \in {Closed} \cup ({Root} \X Builder) \cup (Comp \X (Object \ {0}))
  /\ pending \subseteq Comp /\ early \subseteq Comp

\* The page is an implementation of the diagram: the text that the handlers
\* render from the builders and the objects they hold is that of the arrows the
\* user sees, until a handler from before the last blueprint is used.
Diagram == INSTANCE DependencyDiagram
  WITH nodes <- Node, arrows <- edge, listed <- Listed(gen), text <- yaml,
       broken <- derailed
KeepsDiagram == Diagram!Spec

\* A name that is typed reaches the components that depend on the component:
\* what those in the text hold of a dependency is the object in the graph, unless
\* the dependency was edited before it was in the text itself. Of the entry of
\* the component itself in the text it says nothing.
NamesFollowEdits ==
  ~derailed => \A c \in Listed(gen), d \in Listed(gen) \ early :
                 dependsOn[c][d] # 0 => dependsOn[c][d] = graph[d]

\* Only an arrow that the user draws can close a cycle: deleting a node gives
\* its children to one of its parents, never to one of its descendants.
OnlyArrowsMakeCycles ==
  [][Acyclic(edge) => \/ Acyclic(edge')
                      \/ \E p, c \in Comp : edge' = edge \cup {<<p, c>>}]_vars
=============================================================================
