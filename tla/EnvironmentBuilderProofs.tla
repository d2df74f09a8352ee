---------------------- MODULE EnvironmentBuilderProofs ----------------------
(***************************************************************************)
(* Proofs about EnvironmentBuilder, for any components and any number of   *)
(* edits and blueprints: the types, that the page implements the diagram   *)
(* of DependencyDiagram, that names follow edits, and that only an arrow   *)
(* of the user's closes a cycle.                                           *)
(*                                                                         *)
(* As long as no old handler is used (Straight) the page's builder is that *)
(* of the graph, every node was made for this graph, and a component's     *)
(* dependsOn, which all its copies share, has the keys of its arrows: so   *)
(* the text that any handler renders is the diagram's.                     *)
(***************************************************************************)
EXTENDS EnvironmentBuilder, TLAPS

\* What was never made is nowhere.
Made ==
  /\ \A c \in Comp : born[c] <= gen
  /\ \A c \in Comp : copies[c] = 0 =>
       \A d \in Comp : dependsOn[c][d] = 0 /\ dependsOn[d][c] = 0
  /\ \A c \in pending : copies[c] # 0
  /\ form[1] \in Comp => form[2] <= copies[form[1]]

Mirror ==
  \A c \in Comp : born[c] = gen =>
    \A d \in Comp : (dependsOn[c][d] # 0) <=> (<<d, c>> \in edge)

Current ==
  \A c \in Comp : born[c] = gen =>
    \A d \in Comp \ early : dependsOn[c][d] # 0 => dependsOn[c][d] = graph[d]

Straight ==
  /\ builder = gen
  /\ yaml = YamlObject(spec[gen], dependsOn)
  /\ \A c \in Comp : spec[gen][c] # 0 => graph[c] # 0
  /\ \A c \in Comp : graph[c] # 0 => born[c] = gen
  /\ \A e \in edge : spec[gen][e[2]] # 0
  /\ Mirror /\ Current

Inv == BuilderTypeOK /\ Made /\ (~derailed => Straight)

-----------------------------------------------------------------------------
LEMMA Numbers == 0 \in Object /\ 1 \in Object \ {0} /\ 0 \in Builder
BY BuilderAssumption DEF Object, Builder

LEMMA InitInv == Init => Inv
<1> SUFFICES ASSUME Init PROVE Inv
  OBVIOUS
<1> USE BuilderAssumption, Numbers DEF Init, Node, Closed
<1>0. /\ Empty \in [Comp -> Object] /\ Empty \in [Comp -> Builder]
      /\ \A c \in Comp : Empty[c] = 0
  BY DEF Empty
<1>1. BuilderTypeOK
  <2>1. /\ dependsOn \in [Comp -> [Comp -> Object]]
        /\ spec \in [Builder -> [Comp -> Object]]
    BY <1>0
  <2>2. \A c \in Comp : graph[c] <= copies[c]
    BY <1>0
  <2> QED
    BY <1>0, <2>1, <2>2 DEF BuilderTypeOK
<1>2. Made
  <2>1. \A c \in Comp : born[c] <= gen
    BY <1>0
  <2>2. \A c, d \in Comp : dependsOn[c][d] = 0
    BY <1>0
  <2> QED
    BY <2>1, <2>2 DEF Made
<1>3. Straight
  <2>1. \A c, d \in Comp : dependsOn[c][d] = 0
    BY <1>0
  <2>2. yaml = YamlObject(spec[gen], dependsOn)
    BY <1>0 DEF YamlObject
  <2>3. Mirror /\ Current
    BY <2>1 DEF Mirror, Current
  <2> QED
    BY <1>0, <2>2, <2>3 DEF Straight
<1> QED
  BY <1>1, <1>2, <1>3 DEF Inv

-----------------------------------------------------------------------------
(* The types. *)
LEMMA NewNodeType == ASSUME Inv, NEW c \in Comp, NewNode(c),
                            form' \in {Closed, form}, pending' \subseteq Comp
                     PROVE  BuilderTypeOK'
<1> USE BuilderAssumption
    DEF Inv, BuilderTypeOK, NewNode, Rerender, Object, Builder, Node, Closed
<1>1. graph' \in [Comp -> Object] /\ copies' \in [Comp -> Object]
  BY Numbers
<1>2. \A d \in Comp : graph'[d] <= copies'[d]
  OBVIOUS
<1>3. edge' \subseteq (Node' \cup {Root}) \X Node'
  BY DEF Unused
<1> QED
  BY <1>1, <1>2, <1>3

LEMMA DependType ==
  ASSUME Inv, NEW p \in Comp \cup {Root}, NEW C \in SUBSET Comp,
         NEW deps \in [Comp -> [Comp -> Object]]
  PROVE  Depend(p, C, deps) \in [Comp -> [Comp -> Object]]
<1>1. \A c \in Comp : p # Root => [deps[c] EXCEPT ![p] = graph[p]] \in [Comp -> Object]
  BY DEF Inv, BuilderTypeOK
<1> QED
  BY <1>1 DEF Depend

LEMMA SpecSetType ==
  ASSUME Inv, NEW C \in SUBSET Comp, NEW m \in [Comp -> Object]
  PROVE  SpecSet(C, m) \in [Comp -> Object]
BY DEF SpecSet, Inv, BuilderTypeOK

LEMMA ForgetType == ASSUME Inv, NEW E PROVE Forget(E) \in [Comp -> [Comp -> Object]]
<1>1. \A c, d \in Comp : dependsOn[c][d] \in Object
  BY DEF Inv, BuilderTypeOK
<1>2. \A c, d \in Comp :
        (IF <<d, c>> \in E THEN 0 ELSE dependsOn[c][d]) \in Object
  BY <1>1, Numbers
<1> QED
  BY <1>2 DEF Forget

LEMMA NodeDragEndType ==
  ASSUME Inv, NEW p \in Comp \cup {Root}, NEW c \in Comp, NodeDragEnd(p, c)
  PROVE  BuilderTypeOK'
<1> USE DEF Inv, BuilderTypeOK, NodeDragEnd, Rerender, UseHandler
<1>1. dependsOn' \in [Comp -> [Comp -> Object]]
  BY DependType
<1>2. SpecSet({c}, spec[drag]) \in [Comp -> Object]
  BY SpecSetType
<1>3. spec' \in [Builder -> [Comp -> Object]]
  BY <1>2
<1>4. edge' \subseteq (Node' \cup {Root}) \X Node'
  BY DEF Node, CanSetEdge
<1>5. graph' = graph /\ drag' \in Builder /\ derailed' \in BOOLEAN
  BY DEF Builder
<1> QED
  BY <1>1, <1>3, <1>4, <1>5

LEMMA DeleteEdgeType ==
  ASSUME Inv, NEW p \in Comp \cup {Root}, NEW c \in Comp, DeleteEdge(p, c)
  PROVE  BuilderTypeOK'
<1> USE DEF Inv, BuilderTypeOK, DeleteEdge, Rerender, UseHandler
<1>1. dependsOn' \in [Comp -> [Comp -> Object]]
  BY ForgetType
<1>2. edge' \subseteq (Node' \cup {Root}) \X Node'
  BY DEF Node
<1> QED
  BY <1>1, <1>2

LEMMA ParentIsNode ==
  ASSUME Inv, NEW n \in Comp, NEW p \in ParentNode(n)
  PROVE  /\ p \in Node \cup {Root} /\ p \in Comp \cup {Root}
         /\ n \notin Children(n) => p # n
<1>1. p \in Node \cup {Root}
  BY DEF ParentNode
<1>2. CASE p = Root
  BY <1>1, <1>2, BuilderAssumption DEF Node
<1>3. CASE p # Root
  <2>1. p \in Node /\ <<p, n>> \in edge
    BY <1>1, <1>3 DEF ParentNode
  <2> QED
    BY <2>1 DEF Children, Node
<1> QED
  BY <1>2, <1>3

LEMMA DeleteNodeType == ASSUME Inv, NEW n \in Comp, DeleteNode(n)
                        PROVE  BuilderTypeOK'
<1>1. PICK p \in ParentNode(n), kids \in SUBSET (Children(n) \ {n}) :
        /\ n \in Node
        /\ IF n \in Children(n) THEN p = n => kids = {} ELSE kids = Children(n)
        /\ form' = Closed
        /\ edge' = (edge \ Touching(n)) \cup ({p} \X kids)
        /\ dependsOn' = Depend(p, kids, Forget(Touching(n)))
        /\ spec' = [spec EXCEPT ![del[n]] = SpecSet(kids, [@ EXCEPT ![n] = 0])]
        /\ graph' = [graph EXCEPT ![n] = 0]
        /\ del' = [del EXCEPT ![n] = 0]
        /\ drag' = del[n]
        /\ derailed' = (derailed \/ del[n] # gen \/ n \in Children(n))
        /\ UNCHANGED <<copies, born, gen, builder, pending, early>>
  BY DEF DeleteNode
<1> USE BuilderAssumption DEF Inv, BuilderTypeOK
<1>2. p \in Node \cup {Root} /\ p \in Comp \cup {Root}
  BY ParentIsNode
<1>3. kids \subseteq Node \ {n} /\ kids \in SUBSET Comp
  BY DEF Children, Node
<1>4. dependsOn' \in [Comp -> [Comp -> Object]]
  BY <1>1, <1>2, <1>3, DependType, ForgetType
<1>5. [spec[del[n]] EXCEPT ![n] = 0] \in [Comp -> Object]
  BY DEF Object
<1>6. SpecSet(kids, [spec[del[n]] EXCEPT ![n] = 0]) \in [Comp -> Object]
  BY <1>3, <1>5, SpecSetType
<1>7. spec' \in [Builder -> [Comp -> Object]]
  BY <1>1, <1>6
<1>8. graph' \in [Comp -> Object] /\ \A c \in Comp : graph'[c] <= copies'[c]
  BY <1>1 DEF Object
<1>9. Node' = Node \ {n}
  BY <1>1 DEF Node
<1>10. kids # {} => p # n
  BY <1>1, ParentIsNode
<1>11. \A e \in edge \ Touching(n) : e \in ((Node \ {n}) \cup {Root}) \X (Node \ {n})
  BY DEF Touching
<1>12. edge' \subseteq (Node' \cup {Root}) \X Node'
  BY <1>1, <1>2, <1>3, <1>9, <1>10, <1>11
<1>13. del' \in [Comp -> Builder] /\ drag' \in Builder
  BY <1>1 DEF Builder
<1> QED
  BY <1>1, <1>4, <1>7, <1>8, <1>12, <1>13

(* What a keystroke does to the component c whose object k is in the form. *)
Edited(c, k) ==
  /\ c \in Comp /\ k \in Object \ {0} /\ k <= copies[c] /\ copies[c] <= MaxEdits
  /\ copies' = [copies EXCEPT ![c] = @ + 1]
  /\ form' = <<c, copies[c] + 1>>
  /\ graph' = [graph EXCEPT ![c] = k]
  /\ del' = [del EXCEPT ![c] = builder]
  /\ \/ /\ c \in Listed(builder)
        /\ spec' = [spec EXCEPT ![builder][c] = k] /\ dependsOn' = Refresh(c, k)
        /\ early' = early
     \/ /\ c \notin Listed(builder)
        /\ spec' = spec /\ dependsOn' = dependsOn /\ early' = early \cup {c}
  /\ drag' = builder /\ yaml' = YamlObject(spec'[builder], dependsOn')
  /\ derailed' = (derailed \/ born[c] # gen)
  /\ UNCHANGED <<edge, born, gen, builder, pending>>

LEMMA EditComponentIs == ASSUME Inv, EditComponent PROVE \E c, k : Edited(c, k)
<1> DEFINE c == form[1]
           k == form[2]
<1>1. c \in Comp /\ k \in Object \ {0} /\ k <= copies[c] /\ copies[c] <= MaxEdits
  BY DEF Inv, BuilderTypeOK, EditComponent, Made, Closed
<1>2. Edited(c, k)
  BY <1>1 DEF EditComponent, Rerender, UseHandler, Edited
<1> QED
  BY <1>2

LEMMA EditComponentType == ASSUME Inv, NEW c, NEW k, Edited(c, k) PROVE BuilderTypeOK'
<1> USE BuilderAssumption DEF Inv, BuilderTypeOK
<1>1. c \in Comp /\ k \in Object \ {0} /\ k <= copies[c] /\ copies[c] <= MaxEdits
  BY DEF Edited
<1>2. /\ copies' = [copies EXCEPT ![c] = @ + 1]
      /\ form' = <<c, copies[c] + 1>>
      /\ graph' = [graph EXCEPT ![c] = k]
      /\ del' = [del EXCEPT ![c] = builder]
      /\ \/ spec' = [spec EXCEPT ![builder][c] = k] /\ dependsOn' = Refresh(c, k)
            /\ early' = early
         \/ spec' = spec /\ dependsOn' = dependsOn /\ early' = early \cup {c}
      /\ drag' = builder /\ derailed' = (derailed \/ born[c] # gen)
      /\ UNCHANGED <<edge, born, gen, builder, pending>>
  BY DEF Edited
<1>3. copies[c] + 1 \in Object \ {0}
  BY <1>1 DEF Object
<1>4. graph' \in [Comp -> Object] /\ copies' \in [Comp -> Object]
  BY <1>1, <1>2, <1>3
<1>5. \A d \in Comp : graph'[d] <= copies'[d]
  BY <1>1, <1>2 DEF Object
<1>6. spec' \in [Builder -> [Comp -> Object]]
  <2>1. [spec[builder] EXCEPT ![c] = k] \in [Comp -> Object]
    BY <1>1
  <2> QED
    BY <1>2, <2>1
<1>7. Refresh(c, k) \in [Comp -> [Comp -> Object]]
  <2>1. \A x \in Comp : [dependsOn[x] EXCEPT ![c] = k] \in [Comp -> Object]
    BY <1>1
  <2> QED
    BY <2>1 DEF Refresh
<1>8. Node \subseteq Node'
  BY <1>1, <1>2 DEF Node, Object
<1>9. edge' \subseteq (Node' \cup {Root}) \X Node'
  BY <1>2, <1>8
<1>10. form' \in Comp \X (Object \ {0})
  BY <1>1, <1>2, <1>3
<1>11. del' \in [Comp -> Builder] /\ drag' \in Builder
  BY <1>1, <1>2
<1> QED
  BY <1>1, <1>2, <1>4, <1>5, <1>6, <1>7, <1>9, <1>10, <1>11

(* What a blueprint does, with its components S and its arrows E. *)
Dropped(S, E, new) ==
  /\ S \subseteq Unused /\ S # {}
  /\ E \subseteq (S \cup {Root}) \X S
  /\ \A c \in S : \E p \in S \cup {Root} : <<p, c>> \in E
  /\ new = [c \in Comp |-> IF c \in S THEN 1 ELSE 0]
  /\ gen < MaxLoads /\ Acyclic(E)
  /\ gen' = gen + 1 /\ builder' = gen + 1
  /\ graph' = new /\ edge' = E
  /\ copies' = [c \in Comp |-> IF c \in S THEN 1 ELSE copies[c]]
  /\ born' = [c \in Comp |-> IF c \in S THEN gen + 1 ELSE born[c]]
  /\ dependsOn' = [c \in Comp |-> [d \in Comp |->
                     IF <<d, c>> \in E THEN 1 ELSE dependsOn[c][d]]]
  /\ spec' = [spec EXCEPT ![gen + 1] = new]
  /\ del' = [c \in Comp |-> IF c \in S THEN builder ELSE 0]
  /\ drag' = builder
  /\ yaml' = YamlObject(new, dependsOn')
  /\ derailed' = FALSE
  /\ UNCHANGED <<form, pending, early>>

LEMMA DropBlueprintIs ==
  ASSUME DropBlueprint PROVE \E S, E, new : Dropped(S, E, new)
<1>0. PICK S \in (SUBSET Unused) \ {{}} : \E parent \in [S -> S \cup {Root}] :
        LET E == {<<parent[c], c>> : c \in S}
            new == [c \in Comp |-> IF c \in S THEN 1 ELSE 0]
        IN
        /\ gen < MaxLoads /\ Acyclic(E)
        /\ gen' = gen + 1 /\ builder' = gen + 1
        /\ graph' = new /\ edge' = E
        /\ copies' = [c \in Comp |-> IF c \in S THEN 1 ELSE copies[c]]
        /\ born' = [c \in Comp |-> IF c \in S THEN gen + 1 ELSE born[c]]
        /\ dependsOn' = [c \in Comp |-> [d \in Comp |->
                           IF <<d, c>> \in E THEN 1 ELSE dependsOn[c][d]]]
        /\ spec' = [spec EXCEPT ![gen + 1] = new]
        /\ del' = [c \in Comp |-> IF c \in S THEN builder ELSE 0]
        /\ drag' = builder
        /\ yaml' = YamlObject(new, dependsOn')
        /\ derailed' = FALSE
        /\ UNCHANGED <<form, pending, early>>
  BY DEF DropBlueprint
<1>1. PICK parent \in [S -> S \cup {Root}] :
        LET E == {<<parent[c], c>> : c \in S}
            new == [c \in Comp |-> IF c \in S THEN 1 ELSE 0]
        IN
        /\ gen < MaxLoads /\ Acyclic(E)
        /\ gen' = gen + 1 /\ builder' = gen + 1
        /\ graph' = new /\ edge' = E
        /\ copies' = [c \in Comp |-> IF c \in S THEN 1 ELSE copies[c]]
        /\ born' = [c \in Comp |-> IF c \in S THEN gen + 1 ELSE born[c]]
        /\ dependsOn' = [c \in Comp |-> [d \in Comp |->
                           IF <<d, c>> \in E THEN 1 ELSE dependsOn[c][d]]]
        /\ spec' = [spec EXCEPT ![gen + 1] = new]
        /\ del' = [c \in Comp |-> IF c \in S THEN builder ELSE 0]
        /\ drag' = builder
        /\ yaml' = YamlObject(new, dependsOn')
        /\ derailed' = FALSE
        /\ UNCHANGED <<form, pending, early>>
  BY <1>0
<1> DEFINE E == {<<parent[c], c>> : c \in S}
           new == [c \in Comp |-> IF c \in S THEN 1 ELSE 0]
<1>2. E \subseteq (S \cup {Root}) \X S
  OBVIOUS
<1>3. \A c \in S : \E p \in S \cup {Root} : <<p, c>> \in E
  OBVIOUS
<1>4. S \subseteq Unused /\ S # {}
  BY <1>0
<1> HIDE DEF E, new
<1>5. Dropped(S, E, new)
  BY <1>1, <1>2, <1>3, <1>4 DEF Dropped, E, new
<1> QED
  BY <1>5

LEMMA DropBlueprintType ==
  ASSUME Inv, NEW S, NEW E, NEW new, Dropped(S, E, new)
  PROVE  BuilderTypeOK' /\ gen + 1 \in Builder /\ Node' = S
<1> USE BuilderAssumption, Numbers DEF Inv, BuilderTypeOK
<1>0. S \subseteq Comp
  BY DEF Dropped, Unused
<1>1. gen + 1 \in Builder
  BY DEF Dropped, Builder
<1>2. new \in [Comp -> Object] /\ \A c \in Comp : (new[c] # 0) <=> c \in S
  BY DEF Dropped
<1>3. Node' = S
  BY <1>0, <1>2 DEF Dropped, Node
<1>4. copies' \in [Comp -> Object] /\ \A c \in Comp : graph'[c] <= copies'[c]
  BY DEF Dropped, Object
<1>5. born' \in [Comp -> Builder] /\ del' \in [Comp -> Builder]
  BY <1>1 DEF Dropped
<1>6. dependsOn' \in [Comp -> [Comp -> Object]]
  <2>1. \A c, d \in Comp : (IF <<d, c>> \in E THEN 1 ELSE dependsOn[c][d]) \in Object
    OBVIOUS
  <2> QED
    BY <2>1 DEF Dropped
<1>7. spec' \in [Builder -> [Comp -> Object]]
  BY <1>1, <1>2 DEF Dropped
<1> QED
  BY <1>1, <1>2, <1>3, <1>4, <1>5, <1>6, <1>7 DEF Dropped

LEMMA TypeStep == ASSUME Inv, [Next]_vars PROVE BuilderTypeOK'
<1> USE DEF Inv
<1>1. ASSUME NEW c \in Comp, DoubleClick(c) PROVE BuilderTypeOK'
  <2>1. NewNode(c) /\ form' \in {Closed, form} /\ pending' \subseteq Comp
    BY <1>1 DEF DoubleClick, BuilderTypeOK
  <2> QED
    BY <2>1, NewNodeType
<1>2. ASSUME NEW c \in Comp, DropModule(c) PROVE BuilderTypeOK'
  <2>1. NewNode(c) /\ form' \in {Closed, form} /\ pending' \subseteq Comp
    BY <1>2 DEF DropModule, BuilderTypeOK
  <2> QED
    BY <2>1, NewNodeType
<1>3. ASSUME NEW c \in Comp, ModuleAnswer(c) PROVE BuilderTypeOK'
  <2>1. form' \in {form, <<c, 1>>} /\ pending' \subseteq Comp
    BY <1>3 DEF ModuleAnswer, BuilderTypeOK
  <2>2. Node' = Node
    BY <1>3 DEF ModuleAnswer, Node
  <2> QED
    BY <1>3, <2>1, <2>2, Numbers DEF ModuleAnswer, BuilderTypeOK
<1>4. ASSUME NEW p \in Comp \cup {Root}, NEW c \in Comp,
             NodeDragEnd(p, c) \/ DeleteEdge(p, c)
      PROVE  BuilderTypeOK'
  BY <1>4, NodeDragEndType, DeleteEdgeType
<1>5. ASSUME NEW n \in Comp, DeleteNode(n) PROVE BuilderTypeOK'
  BY <1>5, DeleteNodeType
<1>6. ASSUME NEW n \in Comp \cup {Root}, ShowPopUp(n) PROVE BuilderTypeOK'
  <2>1. form' \in ({Root} \X Builder) \cup (Comp \X (Object \ {0}))
    BY <1>6 DEF ShowPopUp, BuilderTypeOK, Node
  <2>2. Node' = Node
    BY <1>6 DEF ShowPopUp, Node
  <2> QED
    BY <1>6, <2>1, <2>2 DEF ShowPopUp, BuilderTypeOK
<1>7. CASE CloseNodeUpdatePopup
  BY <1>7 DEF CloseNodeUpdatePopup, BuilderTypeOK, Node
<1>8. CASE EditComponent
  BY <1>8, EditComponentIs, EditComponentType
<1>9. CASE EditEnvironment
  <2>1. form[2] \in Builder
    BY <1>9, BuilderAssumption DEF EditEnvironment, BuilderTypeOK, Closed
  <2>2. Node' = Node
    BY <1>9 DEF EditEnvironment, Node
  <2> QED
    BY <1>9, <2>1, <2>2 DEF EditEnvironment, UseHandler, BuilderTypeOK
<1>10. CASE DropBlueprint
  BY <1>10, DropBlueprintIs, DropBlueprintType
<1>11. CASE UNCHANGED vars
  BY <1>11 DEF vars, BuilderTypeOK, Node
<1> QED
  BY <1>1, <1>2, <1>3, <1>4, <1>5, <1>6, <1>7, <1>8, <1>9, <1>10, <1>11 DEF Next

-----------------------------------------------------------------------------
(* What was never made is nowhere. *)
LEMMA NewNodeMade ==
  ASSUME Inv, NEW c \in Comp, NewNode(c), form' \in {Closed, form},
         pending' \subseteq pending \cup {c}
  PROVE  Made'
<1> USE BuilderAssumption DEF Inv, BuilderTypeOK, Made, NewNode, Unused, Closed
<1>1. \A d \in Comp : born'[d] <= gen'
  BY DEF Builder
<1>2. \A d \in Comp : copies'[d] = 0 => copies[d] = 0
  OBVIOUS
<1>3. \A d \in pending' : copies'[d] # 0
  OBVIOUS
<1>4. form'[1] \in Comp => form'[2] <= copies'[form'[1]]
  BY DEF Object
<1> QED
  BY <1>1, <1>2, <1>3, <1>4

LEMMA NodeDragEndMade ==
  ASSUME Inv, NEW p \in Comp \cup {Root}, NEW c \in Comp, NodeDragEnd(p, c)
  PROVE  Made'
<1> USE DEF Inv, Made, BuilderTypeOK, NodeDragEnd
<1>1. \A x, d \in Comp :
        dependsOn'[x][d] = IF x = c /\ p # Root /\ d = p THEN graph[p] ELSE dependsOn[x][d]
  BY DEF Depend
<1>2. graph[c] # 0 /\ (p # Root => graph[p] # 0)
  BY DEF Node, CanSetEdge
<1>3. \A d \in Comp : graph[d] # 0 => copies[d] # 0
  BY DEF Object
<1>4. \A x, d \in Comp : copies[x] = 0 => dependsOn[x][d] = 0 /\ dependsOn[d][x] = 0
  OBVIOUS
<1>5. UNCHANGED <<copies, born, gen, pending, form>>
  OBVIOUS
<1> HIDE DEF Inv, Made, BuilderTypeOK, NodeDragEnd
<1>6. \A x, d \in Comp : copies'[x] = 0 => dependsOn'[x][d] = 0 /\ dependsOn'[d][x] = 0
  BY <1>1, <1>2, <1>3, <1>4, <1>5
<1> QED
  BY <1>5, <1>6 DEF Inv, Made

LEMMA DeleteEdgeMade ==
  ASSUME Inv, NEW p \in Comp \cup {Root}, NEW c \in Comp, DeleteEdge(p, c)
  PROVE  Made'
<1> USE BuilderAssumption DEF Inv, Made, BuilderTypeOK, DeleteEdge, Closed
<1>1. \A x, d \in Comp : dependsOn[x][d] = 0 => dependsOn'[x][d] = 0
  BY DEF Forget
<1>2. form'[1] \notin Comp
  OBVIOUS
<1>3. UNCHANGED <<copies, born, gen, pending>>
  OBVIOUS
<1>4. \A x, d \in Comp : copies[x] = 0 => dependsOn[x][d] = 0 /\ dependsOn[d][x] = 0
  OBVIOUS
<1> HIDE DEF Inv, Made, BuilderTypeOK, DeleteEdge, Closed
<1> QED
  BY <1>1, <1>2, <1>3, <1>4 DEF Inv, Made

(* What deleteNode does, with the parent and the children that it connects. *)
Deleted(n, p, kids) ==
  /\ n \in Node
  /\ p \in Node \cup {Root} /\ p \in ParentNode(n)
  /\ kids \subseteq Children(n) \ {n}
  /\ n \notin Children(n) => kids = Children(n) /\ p # n
  /\ kids # {} => p # n
  /\ form' = Closed
  /\ edge' = (edge \ Touching(n)) \cup ({p} \X kids)
  /\ dependsOn' = Depend(p, kids, Forget(Touching(n)))
  /\ spec' = [spec EXCEPT ![del[n]] = SpecSet(kids, [@ EXCEPT ![n] = 0])]
  /\ graph' = [graph EXCEPT ![n] = 0]
  /\ del' = [del EXCEPT ![n] = 0]
  /\ drag' = del[n]
  /\ n \notin Children(n) => yaml' = YamlObject(spec'[del[n]], dependsOn')
  /\ derailed' = (derailed \/ del[n] # gen \/ n \in Children(n))
  /\ UNCHANGED <<copies, born, gen, builder, pending, early>>

LEMMA DeleteNodeIs ==
  ASSUME Inv, NEW n \in Comp, DeleteNode(n)
  PROVE  \E p, kids : Deleted(n, p, kids)
<1>1. PICK p \in ParentNode(n), kids \in SUBSET (Children(n) \ {n}) :
        /\ n \in Node
        /\ IF n \in Children(n) THEN p = n => kids = {} ELSE kids = Children(n)
        /\ form' = Closed
        /\ edge' = (edge \ Touching(n)) \cup ({p} \X kids)
        /\ dependsOn' = Depend(p, kids, Forget(Touching(n)))
        /\ spec' = [spec EXCEPT ![del[n]] = SpecSet(kids, [@ EXCEPT ![n] = 0])]
        /\ graph' = [graph EXCEPT ![n] = 0]
        /\ del' = [del EXCEPT ![n] = 0]
        /\ drag' = del[n]
        /\ yaml' = IF n \in Children(n) THEN YamlObject(spec[del[n]], Forget(Touching(n)))
                   ELSE YamlObject(spec'[del[n]], dependsOn')
        /\ derailed' = (derailed \/ del[n] # gen \/ n \in Children(n))
        /\ UNCHANGED <<copies, born, gen, builder, pending, early>>
  BY DEF DeleteNode
<1>2. p \in Node \cup {Root} /\ (n \notin Children(n) => p # n)
  BY ParentIsNode
<1>3. kids # {} => p # n
  BY <1>1, <1>2
<1> QED
  BY <1>1, <1>2, <1>3 DEF Deleted

\* The keys that are left: those of arrows that stay, and the new parent's.
LEMMA DeletedDepends ==
  ASSUME Inv, NEW n \in Comp, NEW p, NEW kids, Deleted(n, p, kids)
  PROVE  /\ kids \subseteq Node \ {n} /\ kids \subseteq Comp
         /\ p # Root => p \in Comp /\ graph[p] # 0
         /\ \A x, d \in Comp : dependsOn'[x][d] =
              IF x \in kids /\ p # Root /\ d = p THEN graph[p]
              ELSE IF <<d, x>> \in Touching(n) THEN 0 ELSE dependsOn[x][d]
<1> USE DEF Deleted, Inv, BuilderTypeOK
<1>1. kids \subseteq Node \ {n} /\ kids \subseteq Comp
  BY DEF Children, Node
<1>2. p # Root => p \in Comp /\ graph[p] # 0
  BY DEF Node
<1>3. \A x, d \in Comp : Forget(Touching(n))[x][d] =
         IF <<d, x>> \in Touching(n) THEN 0 ELSE dependsOn[x][d]
  BY DEF Forget
<1>4. Forget(Touching(n)) \in [Comp -> [Comp -> Object]]
  BY ForgetType
<1>5. \A x, d \in Comp : dependsOn'[x][d] =
         IF x \in kids /\ p # Root /\ d = p THEN graph[p]
         ELSE Forget(Touching(n))[x][d]
  BY <1>2, <1>4 DEF Depend
<1> QED
  BY <1>1, <1>2, <1>3, <1>5

LEMMA DeleteNodeMade ==
  ASSUME Inv, NEW n \in Comp, NEW p, NEW kids, Deleted(n, p, kids)
  PROVE  Made'
<1> USE BuilderAssumption DEF Deleted, Inv, Made, BuilderTypeOK, Closed
<1>1. \A d \in Comp : graph[d] # 0 => copies[d] # 0
  BY DEF Object
<1>2. \A x, d \in Comp : copies[x] = 0 => dependsOn[x][d] = 0 /\ dependsOn[d][x] = 0
  OBVIOUS
<1>3. form'[1] \notin Comp
  OBVIOUS
<1>4. UNCHANGED <<copies, born, gen, pending>>
  OBVIOUS
<1> HIDE DEF Deleted, Inv, Made, BuilderTypeOK, Closed
<1>5. \A x \in kids : x \in Comp /\ graph[x] # 0
  BY DeletedDepends DEF Node
<1>6. /\ p # Root => p \in Comp /\ graph[p] # 0
      /\ \A x, d \in Comp : dependsOn'[x][d] =
           IF x \in kids /\ p # Root /\ d = p THEN graph[p]
           ELSE IF <<d, x>> \in Touching(n) THEN 0 ELSE dependsOn[x][d]
  BY DeletedDepends
<1>7. ASSUME NEW x \in Comp, NEW d \in Comp, copies[x] = 0
      PROVE  dependsOn'[x][d] = 0 /\ dependsOn'[d][x] = 0
  <2>1. dependsOn[x][d] = 0 /\ dependsOn[d][x] = 0 /\ graph[x] = 0
    BY <1>1, <1>2, <1>7
  <2>2. x \notin kids /\ (p # Root => p # x)
    BY <2>1, <1>5, <1>6
  <2> QED
    BY <2>1, <2>2, <1>6
<1> QED
  BY <1>3, <1>4, <1>7 DEF Inv, Made

LEMMA RefreshIs ==
  ASSUME Inv, NEW c \in Comp, NEW k
  PROVE  \A x, d \in Comp : Refresh(c, k)[x][d] =
           IF x \in Listed(builder) /\ d = c /\ dependsOn[x][c] # 0 THEN k
           ELSE dependsOn[x][d]
<1>1. dependsOn \in [Comp -> [Comp -> Object]]
  BY DEF Inv, BuilderTypeOK
<1> SUFFICES ASSUME NEW x \in Comp, NEW d \in Comp
             PROVE  Refresh(c, k)[x][d] =
                      IF x \in Listed(builder) /\ d = c /\ dependsOn[x][c] # 0 THEN k
                      ELSE dependsOn[x][d]
  OBVIOUS
<1>2. dependsOn[x] \in [Comp -> Object]
  BY <1>1
<1>3. Refresh(c, k)[x] = IF x \in Listed(builder) /\ dependsOn[x][c] # 0
                         THEN [dependsOn[x] EXCEPT ![c] = k] ELSE dependsOn[x]
  BY DEF Refresh
<1> QED
  BY <1>2, <1>3

LEMMA EditComponentMade == ASSUME Inv, NEW c, NEW k, Edited(c, k) PROVE Made'
<1> USE BuilderAssumption DEF Inv, BuilderTypeOK, Made
<1>1. c \in Comp /\ k \in Object \ {0} /\ k <= copies[c]
      /\ copies' = [copies EXCEPT ![c] = @ + 1] /\ form' = <<c, copies[c] + 1>>
      /\ UNCHANGED <<born, gen, pending>>
      /\ (dependsOn' = Refresh(c, k) \/ dependsOn' = dependsOn)
  BY DEF Edited
<1>2. \A d \in Comp : copies'[d] = 0 => copies[d] = 0
  BY <1>1 DEF Object
<1>3. \A x, d \in Comp : dependsOn[x][d] = 0 => dependsOn'[x][d] = 0
  <2>1. CASE dependsOn' = dependsOn
    BY <2>1
  <2>2. CASE dependsOn' = Refresh(c, k)
    <3>1. \A x, d \in Comp : Refresh(c, k)[x][d] =
             IF x \in Listed(builder) /\ d = c /\ dependsOn[x][c] # 0 THEN k
             ELSE dependsOn[x][d]
      BY <1>1, RefreshIs
    <3> HIDE DEF Inv, BuilderTypeOK, Made
    <3> QED
      BY <2>2, <3>1
  <2> QED
    BY <1>1, <2>1, <2>2
<1>4. \A d \in pending' : copies'[d] # 0
  BY <1>1, <1>2
<1>5. form'[2] <= copies'[form'[1]]
  BY <1>1 DEF Object
<1>6. \A x, d \in Comp : copies'[x] = 0 => dependsOn'[x][d] = 0 /\ dependsOn'[d][x] = 0
  BY <1>2, <1>3
<1> QED
  BY <1>1, <1>4, <1>5, <1>6

LEMMA DropBlueprintMade ==
  ASSUME Inv, NEW S, NEW E, NEW new, Dropped(S, E, new) PROVE Made'
<1> USE BuilderAssumption DEF Inv, BuilderTypeOK, Made
<1>1. S \subseteq Comp /\ \A c \in Comp : copies'[c] = IF c \in S THEN 1 ELSE copies[c]
  BY DEF Dropped, Unused
<1>2. \A c \in Comp : born'[c] <= gen'
  BY DEF Dropped, Builder
<1>3. \A x, d \in Comp : copies'[x] = 0 => dependsOn'[x][d] = 0 /\ dependsOn'[d][x] = 0
  <2>1. \A x, d \in Comp : dependsOn'[x][d] = IF <<d, x>> \in E THEN 1 ELSE dependsOn[x][d]
    BY DEF Dropped
  <2>2. \A x, d \in Comp : <<d, x>> \in E => x \in S /\ d \in S
    BY DEF Dropped
  <2>3. \A x, d \in Comp : copies[x] = 0 => dependsOn[x][d] = 0 /\ dependsOn[d][x] = 0
    OBVIOUS
  <2>4. \A x \in Comp : copies'[x] = 0 => x \notin S /\ copies[x] = 0
    BY <1>1
  <2> HIDE DEF Inv, BuilderTypeOK, Made
  <2> QED
    BY <2>1, <2>2, <2>3, <2>4
<1>4. \A c \in pending' : copies'[c] # 0
  BY <1>1 DEF Dropped
<1>5. form'[1] \in Comp => form'[2] <= copies'[form'[1]]
  BY <1>1 DEF Dropped, Unused, Object, Closed
<1> QED
  BY <1>2, <1>3, <1>4, <1>5

LEMMA MadeStep == ASSUME Inv, [Next]_vars PROVE Made'
<1> USE DEF Inv
<1>1. ASSUME NEW c \in Comp, DoubleClick(c) PROVE Made'
  <2>1. NewNode(c) /\ form' \in {Closed, form} /\ pending' \subseteq pending \cup {c}
    BY <1>1 DEF DoubleClick
  <2> QED
    BY <2>1, NewNodeMade
<1>2. ASSUME NEW c \in Comp, DropModule(c) PROVE Made'
  <2>1. NewNode(c) /\ form' \in {Closed, form} /\ pending' \subseteq pending \cup {c}
    BY <1>2 DEF DropModule
  <2> QED
    BY <2>1, NewNodeMade
<1>3. ASSUME NEW c \in Comp, ModuleAnswer(c) PROVE Made'
  <2>1. form' \in {form, <<c, 1>>} /\ pending' \subseteq pending
        /\ UNCHANGED <<copies, born, gen, dependsOn>>
    BY <1>3 DEF ModuleAnswer
  <2>2. 1 <= copies[c]
    BY <1>3, BuilderAssumption DEF ModuleAnswer, Made, BuilderTypeOK, Object
  <2> QED
    BY <2>1, <2>2 DEF Made
<1>4. ASSUME NEW p \in Comp \cup {Root}, NEW c \in Comp,
             NodeDragEnd(p, c) \/ DeleteEdge(p, c)
      PROVE  Made'
  BY <1>4, NodeDragEndMade, DeleteEdgeMade
<1>5. ASSUME NEW n \in Comp, DeleteNode(n) PROVE Made'
  BY <1>5, DeleteNodeIs, DeleteNodeMade
<1>6. ASSUME NEW n \in Comp \cup {Root}, ShowPopUp(n) PROVE Made'
  <2>1. form'[1] \in Comp => form'[2] <= copies[form'[1]]
    BY <1>6, BuilderAssumption DEF ShowPopUp, BuilderTypeOK
  <2>2. UNCHANGED <<copies, born, gen, dependsOn, pending>>
    BY <1>6 DEF ShowPopUp
  <2> QED
    BY <2>1, <2>2 DEF Made
<1>7. CASE CloseNodeUpdatePopup
  BY <1>7, BuilderAssumption DEF CloseNodeUpdatePopup, Closed, Made
<1>8. CASE EditComponent
  BY <1>8, EditComponentIs, EditComponentMade
<1>9. CASE EditEnvironment
  BY <1>9 DEF EditEnvironment, Made
<1>10. CASE DropBlueprint
  BY <1>10, DropBlueprintIs, DropBlueprintMade
<1>11. CASE UNCHANGED vars
  BY <1>11 DEF vars, Made
<1> QED
  BY <1>1, <1>2, <1>3, <1>4, <1>5, <1>6, <1>7, <1>8, <1>9, <1>10, <1>11 DEF Next

-----------------------------------------------------------------------------
(* What holds as long as no old handler is used. *)
LEMMA NewNodeStraight ==
  ASSUME Inv, NEW c \in Comp, NewNode(c), ~derailed' PROVE Straight'
<1>1. /\ Straight /\ copies[c] = 0 /\ graph[c] = 0
      /\ \A d \in Comp : dependsOn[c][d] = 0 /\ dependsOn[d][c] = 0
  BY DEF Inv, NewNode, Unused, Made, BuilderTypeOK, Object
<1>2. /\ UNCHANGED <<edge, dependsOn, spec, gen, builder, early>>
      /\ yaml' = YamlObject(spec'[builder], dependsOn')
      /\ graph' = [graph EXCEPT ![c] = 1] /\ born' = [born EXCEPT ![c] = gen]
  BY DEF NewNode, Rerender
<1>3. /\ \A x \in Comp : graph'[x] = IF x = c THEN 1 ELSE graph[x]
      /\ \A x \in Comp : born'[x] = IF x = c THEN gen ELSE born[x]
  BY <1>2 DEF Inv, BuilderTypeOK
<1>4. \A d \in Comp : <<d, c>> \notin edge
  BY <1>1 DEF Inv, BuilderTypeOK, Node
<1>5. Mirror'
  BY <1>1, <1>2, <1>3, <1>4 DEF Straight, Mirror
<1>6. Current'
  BY <1>1, <1>2, <1>3 DEF Straight, Current
<1> QED
  BY <1>1, <1>2, <1>3, <1>5, <1>6 DEF Straight

LEMMA NodeDragEndStraight ==
  ASSUME Inv, NEW p \in Comp \cup {Root}, NEW c \in Comp, NodeDragEnd(p, c),
         ~derailed'
  PROVE  Straight'
<1>1. /\ Straight /\ drag = gen /\ gen \in Builder
      /\ graph[c] # 0 /\ (p # Root => p \in Comp /\ graph[p] # 0)
  BY DEF Inv, BuilderTypeOK, NodeDragEnd, UseHandler, CanSetEdge, Node
<1>2. /\ UNCHANGED <<graph, born, gen, builder, early>>
      /\ edge' = edge \cup {<<p, c>>}
      /\ yaml' = YamlObject(spec'[gen], dependsOn')
  BY <1>1 DEF NodeDragEnd, Rerender
<1>3. \A x, d \in Comp :
        dependsOn'[x][d] = IF x = c /\ p # Root /\ d = p THEN graph[p] ELSE dependsOn[x][d]
  BY DEF NodeDragEnd, Depend, Inv, BuilderTypeOK
<1>4. \A x \in Comp : spec'[gen][x] = IF x = c THEN graph[c] ELSE spec[gen][x]
  BY <1>1 DEF NodeDragEnd, SpecSet, Inv, BuilderTypeOK
<1>5. Mirror'
  BY <1>1, <1>2, <1>3, BuilderAssumption DEF Straight, Mirror
<1>6. Current'
  BY <1>1, <1>2, <1>3 DEF Straight, Current
<1>7. \A e \in edge' : spec'[gen][e[2]] # 0
  <2>1. \A e \in edge : e[2] \in Comp
    BY DEF Inv, BuilderTypeOK, Node
  <2> QED
    BY <2>1, <1>1, <1>2, <1>4 DEF Straight
<1> QED
  BY <1>1, <1>2, <1>4, <1>5, <1>6, <1>7 DEF Straight

LEMMA DeleteEdgeStraight ==
  ASSUME Inv, NEW p \in Comp \cup {Root}, NEW c \in Comp, DeleteEdge(p, c),
         ~derailed'
  PROVE  Straight'
<1>1. Straight /\ drag = gen
  BY DEF Inv, DeleteEdge, UseHandler
<1>2. /\ UNCHANGED <<graph, born, spec, gen, builder, early>>
      /\ edge' = edge \ {<<p, c>>}
      /\ yaml' = YamlObject(spec'[gen], dependsOn')
  BY <1>1 DEF DeleteEdge, Rerender
<1>3. \A x, d \in Comp :
        dependsOn'[x][d] = IF <<d, x>> = <<p, c>> THEN 0 ELSE dependsOn[x][d]
  BY DEF DeleteEdge, Forget
<1>4. Mirror'
  BY <1>1, <1>2, <1>3 DEF Straight, Mirror
<1>5. Current'
  BY <1>1, <1>2, <1>3 DEF Straight, Current
<1> QED
  BY <1>1, <1>2, <1>4, <1>5 DEF Straight

LEMMA DeleteNodeStraight ==
  ASSUME Inv, NEW n \in Comp, NEW p, NEW kids, Deleted(n, p, kids), ~derailed'
  PROVE  Straight'
<1>1. /\ Straight /\ del[n] = gen /\ n \notin Children(n) /\ gen \in Builder
      /\ kids = Children(n) /\ p # n /\ n \in Node
      /\ edge' = (edge \ Touching(n)) \cup ({p} \X kids)
      /\ UNCHANGED <<born, gen, builder, early>>
      /\ yaml' = YamlObject(spec'[gen], dependsOn')
  BY DEF Inv, BuilderTypeOK, Deleted
<1>2. /\ kids \subseteq Node \ {n} /\ kids \subseteq Comp
      /\ p # Root => p \in Comp /\ graph[p] # 0
      /\ \A x, d \in Comp : dependsOn'[x][d] =
           IF x \in kids /\ p # Root /\ d = p THEN graph[p]
           ELSE IF <<d, x>> \in Touching(n) THEN 0 ELSE dependsOn[x][d]
  BY DeletedDepends
<1>3. \A x \in Comp : graph'[x] = IF x = n THEN 0 ELSE graph[x]
  BY DEF Deleted, Inv, BuilderTypeOK
<1>4. \A x \in Comp : spec'[gen][x] =
         IF x \in kids THEN graph[x] ELSE IF x = n THEN 0 ELSE spec[gen][x]
  <2>1. spec'[gen] = SpecSet(kids, [spec[gen] EXCEPT ![n] = 0])
    BY <1>1 DEF Deleted, Inv, BuilderTypeOK
  <2>2. spec[gen] \in [Comp -> Object]
    BY <1>1 DEF Inv, BuilderTypeOK
  <2> QED
    BY <2>1, <2>2 DEF SpecSet
<1>5. \A x \in kids : graph[x] # 0
  BY <1>2 DEF Node
<1>6. \A x, d \in Comp : <<d, x>> \in Touching(n) <=> <<d, x>> \in edge /\ n \in {d, x}
  BY DEF Touching
<1>7. \A x, d \in Comp : <<d, x>> \in edge' <=>
         \/ <<d, x>> \in edge /\ n \notin {d, x}
         \/ d = p /\ x \in kids
  BY <1>1, <1>6
<1>8. \A x, d \in Comp : <<d, x>> \in edge => d \in Node /\ x \in Node
  BY BuilderAssumption DEF Inv, BuilderTypeOK
<1>9. Mirror'
  <2>1. \A x \in Comp : born[x] = gen =>
           \A d \in Comp : (dependsOn[x][d] # 0) <=> (<<d, x>> \in edge)
    BY <1>1 DEF Straight, Mirror
  <2> SUFFICES ASSUME NEW x \in Comp, born[x] = gen, NEW d \in Comp
               PROVE  (dependsOn'[x][d] # 0) <=> (<<d, x>> \in edge')
    BY <1>1 DEF Mirror
  <2>2. CASE x \in kids /\ d = p
    BY <2>2, <1>2, <1>7, BuilderAssumption
  <2>3. CASE ~(x \in kids /\ d = p)
    BY <2>1, <2>3, <1>2, <1>6, <1>7
  <2> QED
    BY <2>2, <2>3
<1>10. Current'
  <2>1. \A x \in Comp : born[x] = gen => \A d \in Comp \ early :
           dependsOn[x][d] # 0 => dependsOn[x][d] = graph[d] /\ <<d, x>> \in edge
    BY <1>1 DEF Straight, Mirror, Current
  <2> SUFFICES ASSUME NEW x \in Comp, born[x] = gen, NEW d \in Comp \ early,
                      dependsOn'[x][d] # 0
               PROVE  dependsOn'[x][d] = graph'[d]
    BY <1>1 DEF Current
  <2>2. CASE x \in kids /\ p # Root /\ d = p
    BY <2>2, <1>1, <1>2, <1>3
  <2>3. CASE ~(x \in kids /\ p # Root /\ d = p)
    <3>1. dependsOn[x][d] # 0 /\ <<d, x>> \notin Touching(n)
      BY <2>3, <1>2
    <3>2. <<d, x>> \in edge /\ dependsOn[x][d] = graph[d]
      BY <3>1, <2>1
    <3>3. d # n /\ dependsOn'[x][d] = dependsOn[x][d]
      BY <3>1, <3>2, <1>6, <2>3, <1>2
    <3> QED
      BY <3>2, <3>3, <1>3
  <2> QED
    BY <2>2, <2>3
<1>11. \A e \in edge' : spec'[gen][e[2]] # 0
  <2>1. \A e \in edge \ Touching(n) : e[2] \in Comp /\ e[2] # n /\ spec[gen][e[2]] # 0
    BY <1>1 DEF Touching, Straight, Inv, BuilderTypeOK, Node
  <2>2. \A e \in {p} \X kids : e[2] \in kids
    OBVIOUS
  <2> QED
    BY <1>1, <1>2, <1>4, <1>5, <2>1, <2>2
<1>12. \A x \in Comp : spec'[gen][x] # 0 => graph'[x] # 0
  BY <1>1, <1>2, <1>3, <1>4, <1>5 DEF Straight
<1>13. \A x \in Comp : graph'[x] # 0 => born'[x] = gen
  BY <1>1, <1>3 DEF Straight
<1> QED
  BY <1>1, <1>9, <1>10, <1>11, <1>12, <1>13 DEF Straight

LEMMA EditComponentStraight ==
  ASSUME Inv, NEW c, NEW k, Edited(c, k), ~derailed' PROVE Straight'
<1>1. /\ Straight /\ builder = gen /\ gen \in Builder
      /\ c \in Comp /\ k # 0 /\ born[c] = gen
      /\ UNCHANGED <<edge, born, gen, builder>>
      /\ yaml' = YamlObject(spec'[gen], dependsOn')
  BY DEF Inv, Straight, Edited, BuilderTypeOK
<1>2. \A x \in Comp : graph'[x] = IF x = c THEN k ELSE graph[x]
  BY DEF Edited, Inv, BuilderTypeOK
<1>3. /\ \A x \in Comp : (spec'[gen][x] # 0) <=> (spec[gen][x] # 0)
      /\ c \notin Listed(gen) => c \in early'
      /\ early \subseteq early'
  <2>1. CASE c \in Listed(builder) /\ spec' = [spec EXCEPT ![builder][c] = k]
             /\ early' = early
    BY <2>1, <1>1 DEF Inv, BuilderTypeOK, Listed
  <2>2. CASE c \notin Listed(builder) /\ spec' = spec /\ early' = early \cup {c}
    BY <2>2, <1>1
  <2> QED
    BY <2>1, <2>2 DEF Edited
<1>4. \A x, d \in Comp :
        dependsOn'[x][d] = IF /\ c \in Listed(gen) /\ x \in Listed(gen)
                              /\ d = c /\ dependsOn[x][c] # 0
                           THEN k ELSE dependsOn[x][d]
  <2>1. CASE c \in Listed(builder) /\ dependsOn' = Refresh(c, k)
    BY <2>1, <1>1, RefreshIs
  <2>2. CASE c \notin Listed(builder) /\ dependsOn' = dependsOn
    BY <2>2, <1>1
  <2> QED
    BY <2>1, <2>2 DEF Edited
<1>5. Mirror'
  <2>1. \A x, d \in Comp : dependsOn'[x][d] # 0 <=> dependsOn[x][d] # 0
    BY <1>1, <1>4
  <2>2. Mirror
    BY <1>1 DEF Straight
  <2> QED
    BY <2>1, <2>2, <1>1 DEF Mirror
<1>6. Current'
  <2>1. \A x \in Comp : born[x] = gen => \A d \in Comp :
           dependsOn[x][d] # 0 => /\ <<d, x>> \in edge
                                  /\ d \notin early => dependsOn[x][d] = graph[d]
    BY <1>1 DEF Straight, Mirror, Current
  <2>2. \A x, d \in Comp : <<d, x>> \in edge => x \in Listed(gen)
    BY <1>1 DEF Straight, Listed
  <2> SUFFICES ASSUME NEW x \in Comp, born[x] = gen, NEW d \in Comp, d \notin early',
                      dependsOn'[x][d] # 0
               PROVE  dependsOn'[x][d] = graph'[d]
    BY <1>1 DEF Current
  <2>3. dependsOn[x][d] # 0
    BY <1>1, <1>4
  <2>4. x \in Listed(gen) /\ dependsOn[x][d] = graph[d]
    BY <2>1, <2>2, <2>3, <1>3
  <2>5. CASE d = c
    BY <2>3, <2>4, <2>5, <1>2, <1>3, <1>4
  <2>6. CASE d # c
    BY <2>4, <2>6, <1>2, <1>4
  <2> QED
    BY <2>5, <2>6
<1>7. \A e \in edge' : spec'[gen][e[2]] # 0
  <2>1. \A e \in edge : e[2] \in Comp /\ spec[gen][e[2]] # 0
    BY <1>1 DEF Straight, Inv, BuilderTypeOK, Node
  <2> QED
    BY <2>1, <1>1, <1>3
<1>8. \A x \in Comp : /\ spec'[gen][x] # 0 => graph'[x] # 0
                      /\ graph'[x] # 0 => born[x] = gen
  BY <1>1, <1>2, <1>3 DEF Straight
<1>9. builder' = gen' /\ gen' = gen /\ born' = born
      /\ yaml' = YamlObject(spec'[gen'], dependsOn')
  BY <1>1
<1> QED
  BY <1>5, <1>6, <1>7, <1>8, <1>9 DEF Straight

LEMMA DropBlueprintStraight ==
  ASSUME Inv, NEW S, NEW E, NEW new, Dropped(S, E, new) PROVE Straight'
<1>1. S \subseteq Comp /\ \A c \in S : copies[c] = 0
  BY DEF Dropped, Unused
<1>2. /\ gen + 1 \in Builder /\ gen' = gen + 1 /\ builder' = gen + 1
      /\ spec'[gen + 1] = new /\ graph' = new /\ edge' = E
      /\ yaml' = YamlObject(new, dependsOn')
  BY DropBlueprintType DEF Dropped, Inv, BuilderTypeOK
<1>3. \A c \in Comp : new[c] = IF c \in S THEN 1 ELSE 0
  BY DEF Dropped
<1>4. \A c \in Comp : born'[c] = gen' <=> c \in S
  <2>1. \A c \in Comp : born[c] <= gen /\ born[c] \in Nat /\ gen \in Nat
    BY BuilderAssumption DEF Inv, Made, BuilderTypeOK, Builder
  <2> QED
    BY <2>1, <1>2 DEF Dropped
<1>5. \A c \in S, d \in Comp :
        dependsOn'[c][d] = IF <<d, c>> \in E THEN 1 ELSE 0
  BY <1>1 DEF Dropped, Inv, Made
<1>6. \A c, d \in Comp : <<d, c>> \in E => d \in S /\ c \in S
  BY BuilderAssumption, <1>1 DEF Dropped
<1>7. Mirror'
  BY <1>2, <1>4, <1>5 DEF Mirror
<1>8. Current'
  BY <1>2, <1>3, <1>4, <1>5, <1>6 DEF Current
<1>9. \A e \in E : e[2] \in S
  BY DEF Dropped
<1> QED
  BY <1>1, <1>2, <1>3, <1>4, <1>7, <1>8, <1>9 DEF Straight

LEMMA StraightStep == ASSUME Inv, [Next]_vars, ~derailed' PROVE Straight'
<1>1. ASSUME NEW c \in Comp, DoubleClick(c) \/ DropModule(c) PROVE Straight'
  <2>1. NewNode(c)
    BY <1>1 DEF DoubleClick, DropModule
  <2> QED
    BY <2>1, NewNodeStraight
<1>2. ASSUME UNCHANGED <<graph, edge, born, dependsOn, spec, gen, builder, yaml,
                         derailed, early>>
      PROVE  Straight'
  <2>1. Straight
    BY <1>2 DEF Inv
  <2> QED
    BY <1>2, <2>1 DEF Straight, Mirror, Current
<1>3. ASSUME NEW c \in Comp, ModuleAnswer(c) PROVE Straight'
  BY <1>3, <1>2 DEF ModuleAnswer
<1>4. ASSUME NEW p \in Comp \cup {Root}, NEW c \in Comp,
             NodeDragEnd(p, c) \/ DeleteEdge(p, c)
      PROVE  Straight'
  BY <1>4, NodeDragEndStraight, DeleteEdgeStraight
<1>5. ASSUME NEW n \in Comp, DeleteNode(n) PROVE Straight'
  BY <1>5, DeleteNodeIs, DeleteNodeStraight
<1>6. ASSUME NEW n \in Comp \cup {Root}, ShowPopUp(n) PROVE Straight'
  BY <1>6, <1>2 DEF ShowPopUp
<1>7. CASE CloseNodeUpdatePopup
  BY <1>7, <1>2 DEF CloseNodeUpdatePopup
<1>8. CASE EditComponent
  BY <1>8, EditComponentIs, EditComponentStraight
<1>9. CASE EditEnvironment
  <2>1. Straight /\ builder' = gen
    BY <1>9 DEF EditEnvironment, UseHandler, Inv
  <2>2. /\ UNCHANGED <<graph, edge, born, dependsOn, spec, gen, early>>
        /\ yaml' = YamlObject(spec[gen], dependsOn)
    BY <1>9, <2>1 DEF EditEnvironment
  <2> QED
    BY <2>1, <2>2 DEF Straight, Mirror, Current
<1>10. CASE DropBlueprint
  BY <1>10, DropBlueprintIs, DropBlueprintStraight
<1>11. CASE UNCHANGED vars
  BY <1>11, <1>2 DEF vars
<1> QED
  BY <1>1, <1>3, <1>4, <1>5, <1>6, <1>7, <1>8, <1>9, <1>10, <1>11 DEF Next

-----------------------------------------------------------------------------
\* The variables keep their types, what was never made is nowhere, and a page
\* without old handlers is straight.
THEOREM BuilderInvariant == Spec => []Inv
<1>1. Inv /\ [Next]_vars => Inv'
  BY TypeStep, MadeStep, StraightStep DEF Inv
<1> QED
  BY InitInv, <1>1, PTL DEF Spec

\* The variables of the page have their types, and every edge has its ends.
THEOREM BuilderTypeCorrect == Spec => []BuilderTypeOK
<1>1. Inv => BuilderTypeOK
  BY DEF Inv
<1> QED
  BY <1>1, BuilderInvariant, PTL

\* What a component in the text holds of a dependency is the object of the
\* graph, for a dependency that was in the text before it was edited.
THEOREM NamesAreCurrent == Spec => []NamesFollowEdits
<1>1. Inv => NamesFollowEdits
  BY DEF Inv, Straight, Current, NamesFollowEdits, Listed
<1> QED
  BY <1>1, BuilderInvariant, PTL

-----------------------------------------------------------------------------
(* Cycles. *)
LEMMA AcyclicSmaller ==
  ASSUME NEW E, NEW F, Acyclic(E),
         \A c, d \in Comp : <<d, c>> \in F => <<d, c>> \in E
  PROVE  Acyclic(F)
BY DEF Acyclic

\* The children of a node under one of its parents: a cycle through the new
\* arrow would be one through the deleted node.
LEMMA DeletedAcyclic ==
  ASSUME Inv, NEW n \in Comp, NEW p, NEW kids, Deleted(n, p, kids), Acyclic(edge)
  PROVE  Acyclic(edge')
<1>1. /\ kids \subseteq Children(n) \ {n} /\ (p # Root => <<p, n>> \in edge)
      /\ kids \subseteq Comp
      /\ edge' = (edge \ Touching(n)) \cup ({p} \X kids)
  BY DeletedDepends DEF Deleted, ParentNode
<1>2. \A c, d \in Comp : <<d, c>> \in edge' =>
        \/ <<d, c>> \in edge /\ c # n
        \/ d = p /\ c # n /\ <<n, c>> \in edge
  BY <1>1 DEF Touching, Children
<1> SUFFICES ASSUME NEW S \in (SUBSET Comp) \ {{}},
                    \A c \in S : \E d \in S : <<d, c>> \in edge'
             PROVE  FALSE
  BY DEF Acyclic
<1>3. n \notin S
  BY <1>2
<1>4. CASE p \in S
  <2>0. S \cup {n} \in (SUBSET Comp) \ {{}}
    OBVIOUS
  <2>1. PICK c \in S \cup {n} : \A d \in S \cup {n} : <<d, c>> \notin edge
    BY <2>0, Zenon DEF Acyclic
  <2>2. c # n
    BY <1>1, <1>4, <2>1, BuilderAssumption
  <2> QED
    BY <1>2, <2>1, <2>2
<1>5. CASE p \notin S
  <2>1. PICK c \in S : \A d \in S : <<d, c>> \notin edge
    BY DEF Acyclic
  <2> QED
    BY <1>2, <1>5, <2>1
<1> QED
  BY <1>4, <1>5

\* Only an arrow between two components can close a cycle.
THEOREM CyclesAreDrawn == Spec => OnlyArrowsMakeCycles
<1> DEFINE Drawn == \E p, c \in Comp : edge' = edge \cup {<<p, c>>}
<1>1. ASSUME Inv, [Next]_vars, Acyclic(edge) PROVE Acyclic(edge') \/ Drawn
  <2>1. ASSUME edge' \subseteq edge PROVE Acyclic(edge')
    BY <1>1, <2>1, AcyclicSmaller
  <2>2. ASSUME NEW c \in Comp, DoubleClick(c) \/ DropModule(c) \/ ModuleAnswer(c)
        PROVE  Acyclic(edge')
    BY <2>2, <2>1 DEF DoubleClick, DropModule, ModuleAnswer, NewNode
  <2>3. ASSUME NEW p \in Comp \cup {Root}, NEW c \in Comp, NodeDragEnd(p, c)
        PROVE  Acyclic(edge') \/ Drawn
    <3>1. edge' = edge \cup {<<p, c>>}
      BY <2>3 DEF NodeDragEnd
    <3>2. CASE p \in Comp
      BY <3>1, <3>2
    <3>3. CASE p = Root
      BY <1>1, <3>1, <3>3, AcyclicSmaller, BuilderAssumption
    <3> QED
      BY <3>2, <3>3
  <2>4. ASSUME NEW p \in Comp \cup {Root}, NEW c \in Comp, DeleteEdge(p, c)
        PROVE  Acyclic(edge')
    BY <2>4, <2>1 DEF DeleteEdge
  <2>5. ASSUME NEW n \in Comp, DeleteNode(n) PROVE Acyclic(edge')
    BY <1>1, <2>5, DeleteNodeIs, DeletedAcyclic
  <2>6. ASSUME NEW n \in Comp \cup {Root}, ShowPopUp(n) PROVE Acyclic(edge')
    BY <2>6, <2>1 DEF ShowPopUp
  <2>7. CASE CloseNodeUpdatePopup \/ EditEnvironment \/ EditComponent \/ UNCHANGED vars
    BY <2>7, <2>1 DEF CloseNodeUpdatePopup, EditEnvironment, EditComponent, vars
  <2>8. CASE DropBlueprint
    BY <2>8, DropBlueprintIs DEF Dropped
  <2> HIDE DEF Drawn
  <2> QED
    BY <1>1, <2>2, <2>3, <2>4, <2>5, <2>6, <2>7, <2>8 DEF Next
<1>2. Inv /\ [Next]_vars => [Acyclic(edge) => Acyclic(edge') \/ Drawn]_vars
  BY <1>1
<1> QED
  BY <1>2, BuilderInvariant, PTL DEF Spec, OnlyArrowsMakeCycles

-----------------------------------------------------------------------------
(* The page implements the diagram. *)
LEMMA TextIs == Straight => yaml = Diagram!Text(Listed(gen), edge)
<1> SUFFICES ASSUME Straight PROVE yaml = Diagram!Text(Listed(gen), edge)
  OBVIOUS
<1>1. yaml = [c \in Listed(gen) |-> {d \in Comp : dependsOn[c][d] # 0}]
  BY DEF Straight, YamlObject, Listed
<1>2. \A c \in Listed(gen), d \in Comp : (dependsOn[c][d] # 0) <=> (<<d, c>> \in edge)
  BY DEF Straight, Mirror, Listed
<1>3. \A c \in Listed(gen) :
        {d \in Comp : dependsOn[c][d] # 0} = {d \in Comp : <<d, c>> \in edge}
  BY <1>2
<1> QED
  BY <1>1, <1>3 DEF Diagram!Text

\* The text after a step that keeps the promise or goes on breaking it.
LEMMA PromiseKept ==
  ASSUME Inv, Inv', [Next]_vars, NEW L,
         ~derailed' => ~derailed /\ Listed(gen)' = L
  PROVE  Diagram!Promise(L)
<1>1. CASE derailed'
  BY <1>1 DEF Diagram!Promise
<1>2. CASE ~derailed'
  <2>1. yaml' = Diagram!Text(Listed(gen)', edge')
    <3>1. Straight'
      BY <1>2 DEF Inv
    <3>2. (yaml = Diagram!Text(Listed(gen), edge))'
      BY <3>1, TextIs, PTL
    <3> QED
      BY <3>2 DEF Diagram!Text
  <2>2. derailed' \in BOOLEAN
    BY DEF Inv, BuilderTypeOK
  <2> QED
    BY <1>2, <2>1 DEF Diagram!Promise
<1> QED
  BY <1>1, <1>2

\* A step that leaves nodes and arrows alone.
LEMMA QuietStep ==
  ASSUME Inv, Inv', Node' = Node, edge' = edge,
         ~derailed' => ~derailed /\ Listed(gen)' = Listed(gen)
  PROVE  [Diagram!Next]_(Diagram!vars)
<1>1. CASE derailed'
  <2>1. Diagram!Break
    BY <1>1 DEF Diagram!Break
  <2> QED
    BY <2>1 DEF Diagram!Next
<1>2. CASE ~derailed'
  <2>1. Straight /\ Straight'
    BY <1>2 DEF Inv
  <2>2. yaml = Diagram!Text(Listed(gen), edge)
    BY <2>1, TextIs
  <2>3. (yaml = Diagram!Text(Listed(gen), edge))'
    BY <2>1, TextIs, PTL
  <2>4. yaml' = yaml
    BY <1>2, <2>2, <2>3 DEF Diagram!Text
  <2>5. derailed' = derailed
    BY <1>2 DEF Inv, BuilderTypeOK
  <2> QED
    BY <1>2, <2>4, <2>5 DEF Diagram!vars
<1> QED
  BY <1>1, <1>2

LEMMA NewNodeIsAdd ==
  ASSUME Inv, Inv', [Next]_vars, NEW c \in Comp, NewNode(c) PROVE Diagram!Add(c)
<1>1. c \notin Node /\ Node' = Node \cup {c}
  BY DEF NewNode, Unused, Node, Inv, BuilderTypeOK, Object
<1>2. ~derailed' => ~derailed /\ Listed(gen)' = Listed(gen)
  BY DEF NewNode, Listed
<1>3. Diagram!Promise(Listed(gen))
  BY <1>2, PromiseKept
<1> QED
  BY <1>1, <1>3 DEF Diagram!Add, NewNode

LEMMA NodeDragEndIsConnect ==
  ASSUME Inv, Inv', [Next]_vars, NEW p \in Comp \cup {Root}, NEW c \in Comp,
         NodeDragEnd(p, c)
  PROVE  Diagram!Connect(p, c)
<1>1. /\ p \in Node \cup {Root} /\ c \in Node /\ p # c
      /\ edge' = edge \cup {<<p, c>>} /\ Node' = Node
  BY DEF NodeDragEnd, CanSetEdge, Node
<1>2. ASSUME ~derailed' PROVE ~derailed /\ Listed(gen)' = Listed(gen) \cup {c}
  <2>1. ~derailed /\ drag = gen /\ gen' = gen /\ gen \in Builder /\ graph[c] # 0
    BY <1>1, <1>2 DEF NodeDragEnd, UseHandler, Inv, BuilderTypeOK, Node
  <2>2. \A x \in Comp : spec'[gen][x] = IF x = c THEN graph[c] ELSE spec[gen][x]
    BY <2>1 DEF NodeDragEnd, SpecSet, Inv, BuilderTypeOK
  <2> QED
    BY <2>1, <2>2 DEF Listed
<1>3. Diagram!Promise(Listed(gen) \cup {c})
  BY <1>2, PromiseKept
<1> QED
  BY <1>1, <1>3 DEF Diagram!Connect

LEMMA DeleteEdgeIsDisconnect ==
  ASSUME Inv, Inv', [Next]_vars, NEW p \in Comp \cup {Root}, NEW c \in Comp,
         DeleteEdge(p, c)
  PROVE  Diagram!Disconnect(p, c)
<1>1. <<p, c>> \in edge /\ edge' = edge \ {<<p, c>>} /\ Node' = Node
  BY DEF DeleteEdge, Node
<1>2. ~derailed' => ~derailed /\ Listed(gen)' = Listed(gen)
  BY DEF DeleteEdge, UseHandler, Listed
<1>3. Diagram!Promise(Listed(gen))
  BY <1>2, PromiseKept
<1> QED
  BY <1>1, <1>3 DEF Diagram!Disconnect

LEMMA DeletedIsDelete ==
  ASSUME Inv, Inv', [Next]_vars, NEW n \in Comp, NEW p, NEW kids, Deleted(n, p, kids)
  PROVE  Diagram!Delete(n)
<1>1. Children(n) = {d \in Node : <<n, d>> \in edge}
  BY DEF Children
<1>2. p \in IF {q \in Node \cup {Root} : <<q, n>> \in edge} = {} THEN {Root}
            ELSE {q \in Node \cup {Root} : <<q, n>> \in edge}
  BY DEF Deleted, ParentNode
<1>3. n \in Node /\ Node' = Node \ {n} /\ kids \in SUBSET (Children(n) \ {n})
  BY DEF Deleted, Node, Inv, BuilderTypeOK
<1>4. edge' = {a \in edge : n \notin {a[1], a[2]}} \cup ({p} \X kids)
  BY DEF Deleted, Touching
<1>5. derailed' \/ (kids = Children(n) /\ Diagram!Promise((Listed(gen) \ {n}) \cup kids))
  <2>1. ASSUME ~derailed'
        PROVE  ~derailed /\ Listed(gen)' = (Listed(gen) \ {n}) \cup kids
    <3>1. /\ ~derailed /\ del[n] = gen /\ gen' = gen /\ gen \in Builder
          /\ spec' = [spec EXCEPT ![gen] = SpecSet(kids, [@ EXCEPT ![n] = 0])]
      BY <2>1 DEF Deleted, Inv, BuilderTypeOK
    <3>2. spec[gen] \in [Comp -> Object] /\ spec'[gen] = SpecSet(kids, [spec[gen] EXCEPT ![n] = 0])
      BY <3>1 DEF Inv, BuilderTypeOK
    <3>3. \A x \in Comp : spec'[gen][x] =
             IF x \in kids THEN graph[x] ELSE IF x = n THEN 0 ELSE spec[gen][x]
      BY <3>2 DEF SpecSet
    <3>4. \A x \in kids : x \in Comp /\ graph[x] # 0 /\ x # n
      BY <1>3 DEF Children, Node
    <3> QED
      BY <3>1, <3>3, <3>4 DEF Listed
  <2>2. Diagram!Promise((Listed(gen) \ {n}) \cup kids)
    BY <2>1, PromiseKept
  <2>3. ASSUME ~derailed' PROVE kids = Children(n)
    BY <2>3 DEF Deleted
  <2> QED
    BY <2>2, <2>3
<1> HIDE DEF Children
<1> QED
  BY <1>1, <1>2, <1>3, <1>4, <1>5 DEF Diagram!Delete

LEMMA EditedIsQuietOrAdd ==
  ASSUME Inv, Inv', [Next]_vars, NEW c, NEW k, Edited(c, k)
  PROVE  [Diagram!Next]_(Diagram!vars)
<1>1. c \in Comp /\ k # 0 /\ graph' = [graph EXCEPT ![c] = k] /\ UNCHANGED edge
  BY DEF Edited
<1>2. Node' = Node \cup {c}
  BY <1>1 DEF Node, Inv, BuilderTypeOK
<1>3. ASSUME ~derailed' PROVE ~derailed /\ Listed(gen)' = Listed(gen)
  <2>1. ~derailed /\ builder = gen /\ gen' = gen /\ gen \in Builder
    BY <1>3 DEF Edited, Inv, Straight, BuilderTypeOK
  <2>2. CASE c \in Listed(builder) /\ spec' = [spec EXCEPT ![builder][c] = k]
    <3>1. \A x \in Comp : (spec'[gen][x] # 0) <=> (spec[gen][x] # 0)
      BY <1>1, <2>1, <2>2 DEF Inv, BuilderTypeOK, Listed
    <3> QED
      BY <2>1, <3>1 DEF Listed
  <2>3. CASE spec' = spec
    BY <2>1, <2>3 DEF Listed
  <2> QED
    BY <2>1, <2>2, <2>3 DEF Edited
<1>4. CASE c \in Node
  BY <1>1, <1>2, <1>3, <1>4, QuietStep
<1>5. CASE c \notin Node
  <2>1. Diagram!Promise(Listed(gen))
    BY <1>3, PromiseKept
  <2>2. Diagram!Add(c)
    BY <1>1, <1>2, <1>5, <2>1 DEF Diagram!Add
  <2> QED
    BY <1>1, <2>2 DEF Diagram!Next
<1> QED
  BY <1>4, <1>5

LEMMA DroppedIsLoad ==
  ASSUME Inv, Inv', NEW S, NEW E, NEW new, Dropped(S, E, new) PROVE Diagram!Load
<1>1. S \subseteq Comp /\ Node' = S /\ edge' = E /\ ~derailed'
  BY DropBlueprintType DEF Dropped, Unused
<1>2. Listed(gen)' = S
  <2>1. gen' = gen + 1 /\ spec'[gen + 1] = new
    BY DropBlueprintType DEF Dropped, Inv, BuilderTypeOK
  <2>2. \A c \in Comp : (new[c] # 0) <=> c \in S
    BY DEF Dropped
  <2> QED
    BY <1>1, <2>1, <2>2 DEF Listed
<1>3. yaml' = Diagram!Text(S, E)
  <2>1. Straight'
    BY <1>1 DEF Inv
  <2>2. (yaml = Diagram!Text(Listed(gen), edge))'
    BY <2>1, TextIs, PTL
  <2> QED
    BY <1>1, <1>2, <2>2 DEF Diagram!Text
<1>4. E \subseteq (S \cup {Root}) \X S /\ \A c \in S : \E p \in S \cup {Root} : <<p, c>> \in E
  BY DEF Dropped
<1> QED
  BY <1>1, <1>2, <1>3, <1>4 DEF Diagram!Load

LEMMA DiagramStep ==
  ASSUME Inv, Inv', [Next]_vars PROVE [Diagram!Next]_(Diagram!vars)
<1>1. ASSUME NEW c \in Comp, DoubleClick(c) \/ DropModule(c)
      PROVE  [Diagram!Next]_(Diagram!vars)
  <2>1. Diagram!Add(c)
    BY <1>1, NewNodeIsAdd DEF DoubleClick, DropModule
  <2> QED
    BY <2>1 DEF Diagram!Next
<1>2. ASSUME UNCHANGED <<graph, edge, spec, gen>>, ~derailed' => ~derailed
      PROVE  [Diagram!Next]_(Diagram!vars)
  BY <1>2, QuietStep DEF Node, Listed
<1>3. ASSUME NEW c \in Comp, ModuleAnswer(c) PROVE [Diagram!Next]_(Diagram!vars)
  BY <1>3, <1>2 DEF ModuleAnswer
<1>4. ASSUME NEW p \in Comp \cup {Root}, NEW c \in Comp,
             NodeDragEnd(p, c) \/ DeleteEdge(p, c)
      PROVE  [Diagram!Next]_(Diagram!vars)
  <2>1. Diagram!Connect(p, c) \/ Diagram!Disconnect(p, c)
    BY <1>4, NodeDragEndIsConnect, DeleteEdgeIsDisconnect
  <2> QED
    BY <2>1 DEF Diagram!Next
<1>5. ASSUME NEW n \in Comp, DeleteNode(n) PROVE [Diagram!Next]_(Diagram!vars)
  <2>1. Diagram!Delete(n)
    BY <1>5, DeleteNodeIs, DeletedIsDelete
  <2> QED
    BY <2>1 DEF Diagram!Next
<1>6. ASSUME NEW n \in Comp \cup {Root}, ShowPopUp(n)
      PROVE  [Diagram!Next]_(Diagram!vars)
  BY <1>6, <1>2 DEF ShowPopUp
<1>7. CASE CloseNodeUpdatePopup \/ EditEnvironment \/ UNCHANGED vars
  <2>1. CASE CloseNodeUpdatePopup
    BY <2>1, <1>2 DEF CloseNodeUpdatePopup
  <2>2. CASE EditEnvironment
    BY <2>2, <1>2 DEF EditEnvironment, UseHandler
  <2>3. CASE UNCHANGED vars
    BY <2>3, <1>2 DEF vars
  <2> QED
    BY <1>7, <2>1, <2>2, <2>3
<1>8. CASE EditComponent
  BY <1>8, EditComponentIs, EditedIsQuietOrAdd
<1>9. CASE DropBlueprint
  <2>1. Diagram!Load
    BY <1>9, DropBlueprintIs, DroppedIsLoad
  <2> QED
    BY <2>1 DEF Diagram!Next
<1> QED
  BY <1>1, <1>3, <1>4, <1>5, <1>6, <1>7, <1>8, <1>9 DEF Next

\* The page implements the diagram: what the handlers do to builders, objects
\* and closures is, step by step, what the user does to the diagram.
THEOREM PageImplementsDiagram == Spec => KeepsDiagram
<1>1. Init => Diagram!Init
  <2> SUFFICES ASSUME Init PROVE Diagram!Init
    OBVIOUS
  <2>1. Node = {} /\ Listed(gen) = {}
    BY Numbers DEF Init, Node, Listed, Empty
  <2> QED
    BY <2>1 DEF Init, Diagram!Init, Diagram!Text
<1>2. Inv /\ Inv' /\ [Next]_vars => [Diagram!Next]_(Diagram!vars)
  BY DiagramStep
<1> QED
  BY <1>1, <1>2, BuilderInvariant, PTL DEF Spec, KeepsDiagram, Diagram!Spec
=============================================================================
