------------------------------- MODULE LiveView -------------------------------
(***************************************************************************)
(* The page of an environment in the web UI and the EntityStore behind it: *)
(* what the page shows of the components, of the history of the            *)
(* environment and of a selected component, and of the component's run.    *)
(*                                                                         *)
(* Everything comes twice: as the answer to a request, and as a stream of  *)
(* the entities that the API saves. An answer holds what was committed     *)
(* when the API read it, a message what is about to be committed. Answers  *)
(* come in any order, also after the page has moved on. The handlers of an *)
(* effect of React are set up when its answer comes, and are taken down    *)
(* with the effect: those of an answer that is late stay for ever.         *)
(***************************************************************************)
EXTENDS Integers, Sequences, FiniteSets

CONSTANTS
  Env, Comp,
  All, None,         \* the page of all components, and no page, component or run
  EnvRow, CompRow,   \* reconciles, by their ids
  Owner,             \* the environment of a component, and what a row is of
  DagAt,             \* DagAt[e]: the components of e, version by version
  RunDagAt,          \* and those of its latest reconcile, which the page goes by
  Start,             \* the versions when the page is loaded, 0 for none
  MaxVersion, MaxEvents

Row == EnvRow \cup CompRow
Entity == Env \cup Comp
Obj == Entity \cup Row

\* Components are rows: one that a DAG has dropped never comes back, an equal
\* one is a new row.
ASSUME LiveViewAssumption ==
  /\ IsFiniteSet(Comp)
  /\ CompRow \subseteq Nat \ {0} /\ EnvRow \subseteq Nat \ {0}
  /\ EnvRow \cap CompRow = {} /\ Env \cap Comp = {} /\ Entity \cap Row = {}
  /\ {All, None} \cap Entity = {} /\ All # None
  /\ Owner \in [Comp \cup Row -> Entity]
  /\ \A o \in Comp \cup EnvRow : Owner[o] \in Env
  /\ \A r \in CompRow : Owner[r] \in Comp
  /\ MaxVersion \in Nat \ {0} /\ MaxEvents \in Nat /\ Start \in [Obj -> 0..MaxVersion]
  /\ DagAt \in [Env -> Seq(SUBSET Comp)] /\ RunDagAt \in [Env -> Seq(SUBSET Comp)]
  /\ \A e \in Env : Start[e] <= Len(DagAt[e]) /\ Len(DagAt[e]) = Len(RunDagAt[e])
  /\ \A e \in Env : \A i, j, k \in DOMAIN DagAt[e] :
       i <= j /\ j <= k => DagAt[e][i] \cap DagAt[e][k] \subseteq DagAt[e][j]
  /\ \A c \in Comp : Start[c] > 0 =>
       Start[Owner[c]] > 0 /\ c \in DagAt[Owner[c]][Start[Owner[c]]]

VARIABLES
  saved,    \* saved[o]: the version of o that was saved and streamed
  db,       \* db[o]: the version that is committed, 0 for none
  wire,     \* the messages under way
  open,     \* the EventSource is connected
  store,    \* EntityStore: the versions of environments and components
  fetched,  \* what getTeams has answered: "none", "teams" or "all"
  ui,       \* the page and its requests, see Page
  behind,   \* what was lost or overtaken, see Disconnect and Overtaken
  late,     \* which list or view a late answer has replaced, see Answer
  revisited,   \* the page was entered again without its effects, see Visit
  events     \* saves, moves of the user and lost connections

vars == <<saved, db, wire, open, store, fetched, ui, behind, late, revisited,
          events>>

Versions == 0..MaxVersion
Run == [comp : Comp, ver : Versions]
NoRun == [comp |-> None, ver |-> 0]
Initializing == [comp |-> None, ver |-> 1]
Kinds == {"teams", "allTeams", "comps", "envAudit", "compAudit", "run"}

\* live: the effect that asks is still set up.
Ask == [kind : Kinds, of : Entity \cup {None}, ver : Versions, live : BOOLEAN,
        read : BOOLEAN, data : [Obj -> Versions]]

Page == [
  asks : SUBSET Ask,
  page : Env \cup {All, None},      \* the URL
  environment : Env \cup {None},    \* whose effects are set up
  loading : BOOLEAN,
  shown : [Comp -> Versions],       \* componentArrayRef, on the page of an environment
  remade : SUBSET Comp,             \* of these, those the store has made anew since
  envAudit : [EnvRow -> Versions],
  envHeard : BOOLEAN,               \* the listener of the effect
  envLeak : BOOLEAN,                \* listeners that nothing takes down
  selected : Comp \cup {None},
  compAudit : [CompRow -> Versions],
  compHeard : BOOLEAN,
  compLeaks : SUBSET Comp,
  workflow : Run \cup {NoRun, Initializing},   \* workflowIdRef
  view : Run \cup {NoRun}]          \* workflowData

NewAsk(kind, of) ==
  [kind |-> kind, of |-> of, ver |-> 0, live |-> TRUE, read |-> FALSE,
   data |-> [o \in Obj |-> 0]]

TypeOK ==
  /\ saved \in [Obj -> Versions] /\ db \in [Obj -> Versions]
  /\ wire \in Seq([obj : Obj, ver : Versions]) /\ open \in BOOLEAN
  /\ store \in [Entity -> Versions] /\ fetched \in {"none", "teams", "all"}
  /\ ui \in Page
  /\ behind \subseteq Obj /\ late \subseteq {"env", "comp", "run", "cache"}
  /\ revisited \in BOOLEAN
  /\ events \in 0..MaxEvents

\* The store asks for the teams and starts to stream.
Init ==
  /\ saved = Start /\ db = Start
  /\ wire = <<>> /\ open = TRUE
  /\ store = [o \in Entity |-> 0] /\ fetched = "none"
  /\ ui = [asks |-> {NewAsk("teams", None)},
           page |-> None, environment |-> None, loading |-> TRUE,
           shown |-> [c \in Comp |-> 0], remade |-> {},
           envAudit |-> [r \in EnvRow |-> 0], envHeard |-> FALSE, envLeak |-> FALSE,
           selected |-> None, compAudit |-> [r \in CompRow |-> 0],
           compHeard |-> FALSE, compLeaks |-> {},
           workflow |-> NoRun, view |-> NoRun]
  /\ behind = {} /\ late = {} /\ revisited = FALSE
  /\ events = 0

------------------------------------------------------------------------------
(* The API.                                                                *)

Event == events < MaxEvents /\ events' = events + 1

Dag(e, v) == IF v = 0 THEN {} ELSE DagAt[e][v]

\* The subscribers of typeorm stream an entity before its transaction commits.
Save(o) ==
  /\ Event /\ db[o] = saved[o] /\ saved[o] < MaxVersion
  /\ saved' = [saved EXCEPT ![o] = @ + 1]
  /\ IF open THEN wire' = Append(wire, [obj |-> o, ver |-> saved'[o]]) /\ behind' = behind
             ELSE wire' = wire /\ behind' = behind \cup {o}
  /\ UNCHANGED <<db, open, store, fetched, ui, late, revisited>>

SaveEnvironment(e) == saved[e] < Len(DagAt[e]) /\ Save(e)

\* The components that the DAG has anew are created, and the runs change them.
SaveComponent(c) ==
  /\ saved[c] = 0 => c \in Dag(Owner[c], db[Owner[c]])
  /\ Save(c)

SaveEnvReconcile(r) == db[Owner[r]] > 0 /\ Save(r)
SaveCompReconcile(r) == db[Owner[r]] > 0 /\ Save(r)

Commit(o) ==
  /\ db[o] # saved[o]
  /\ db' = [db EXCEPT ![o] = saved[o]]
  /\ UNCHANGED <<saved, wire, open, store, fetched, ui, behind, late, revisited, events>>

\* batchDelete of a component that the DAG has no more: nothing is streamed.
BatchDelete(c) ==
  /\ db[c] > 0 /\ db[c] = saved[c]
  /\ c \notin Dag(Owner[c], db[Owner[c]])
  /\ db' = [db EXCEPT ![c] = 0] /\ saved' = [saved EXCEPT ![c] = 0]
  /\ UNCHANGED <<wire, open, store, fetched, ui, behind, late, revisited, events>>

\* The EventSource connects again by itself; what was streamed meanwhile is lost.
Disconnect ==
  /\ Event /\ open
  /\ open' = FALSE /\ wire' = <<>>
  /\ behind' = behind \cup {wire[i].obj : i \in DOMAIN wire}
  /\ UNCHANGED <<saved, db, store, fetched, ui, late, revisited>>

Reconnect ==
  /\ ~open /\ open' = TRUE
  /\ UNCHANGED <<saved, db, wire, store, fetched, ui, behind, late, revisited, events>>

------------------------------------------------------------------------------
(* What the handlers of the page make of it, u, when the store is st.      *)

CompsOf(st, e) == {c \in Comp : Owner[c] = e /\ st[c] > 0}

RunOf(c, v) == IF v > 1 THEN [comp |-> c, ver |-> v] ELSE NoRun

\* The clean-up of an effect that waits for its answer.
CleanUp(u, kind) ==
  [u EXCEPT !.asks = {IF a.kind = kind THEN [a EXCEPT !.live = FALSE] ELSE a : a \in @}]

\* Mutant of SelectedChanged: the list is asked for only once.
KeepAudits(u) == u

\* The effect of selectedConfig.
SelectedChanged(u) ==
  LET v == CleanUp(u, "compAudit")
  IN  [v EXCEPT !.compHeard = FALSE, !.asks = @ \cup {NewAsk("compAudit", v.selected)}]

\* The effect of workflowId.
SetWorkflowId(u, run) ==
  IF u.workflow = run THEN u
  ELSE [u EXCEPT !.workflow = run,
                 !.asks = IF run \in {NoRun, Initializing} THEN @
                          ELSE @ \cup {[NewAsk("run", run.comp) EXCEPT !.ver = run.ver]}]

\* resetSelectedConfig: the store has made the changed components anew.
ResetSelectedConfig(u, st, comps, changed) ==
  IF u.selected \notin comps THEN u
  ELSE SetWorkflowId(IF u.selected \in changed THEN SelectedChanged(u) ELSE u,
                     RunOf(u.selected, st[u.selected]))

\* The handler of emitterComp, called for the components of e.
ComponentsEmitted(u, st, e, changed) ==
  LET comps == CompsOf(st, e)
      v == [u EXCEPT !.loading = FALSE, !.remade = {},
                     !.shown = [c \in Comp |-> IF c \in comps THEN st[c] ELSE 0]]
  IN  IF comps = {} \/ u.environment # e THEN u
      ELSE ResetSelectedConfig(v, st, comps, changed \cup u.remade)

\* getComponents: the store's own, if there are as many as in the DAG of
\* mergeEnvReconToEnv.
Cached(st, e) == Cardinality(CompsOf(st, e)) = Cardinality(RunDagAt[e][st[e]])

\* Mutant of SetEnvironment: what the store has is taken for all that is needed.
TakesTheCache(u, st, e) ==
  LET v == CleanUp(u, "envAudit")
      w == [v EXCEPT !.environment = e, !.envHeard = FALSE]
  IN  IF Cached(st, e) THEN ComponentsEmitted(w, st, e, {})
      ELSE [w EXCEPT !.asks = @ \cup {NewAsk("comps", e), NewAsk("envAudit", e)}]

\* Mutant of SetEnvironment: what the store has is not emitted.
SilentCache(u, st, e) ==
  LET v == CleanUp(u, "envAudit")
      w == [v EXCEPT !.environment = e, !.envHeard = FALSE,
                     !.asks = @ \cup {NewAsk("envAudit", e)}]
  IN  IF Cached(st, e) THEN w ELSE [w EXCEPT !.asks = @ \cup {NewAsk("comps", e)}]

\* The effect of environment.id.
SetEnvironment(u, st, e) ==
  LET v == CleanUp(u, "envAudit")
      w == [v EXCEPT !.environment = e, !.envHeard = FALSE,
                     !.asks = @ \cup {NewAsk("envAudit", e)}]
  IN  IF Cached(st, e) THEN ComponentsEmitted(w, st, e, {})
      ELSE [w EXCEPT !.asks = @ \cup {NewAsk("comps", e)}]

\* Emits: the page looks for its environment.
Looks(u, st, f) == u.page \in Env /\ f # "none" /\ st[u.page] > 0 /\ u.environment # u.page

\* The handler of emitter. What the page of all components lists is left out.
Emitted(u, st, f) ==
  IF u.page = All THEN [u EXCEPT !.loading = FALSE]
  ELSE IF Looks(u, st, f) THEN SetEnvironment(u, st, u.page) ELSE u

\* The store's components of a page are taken, but are not those of its DAG.
CacheLate(u, st, f) ==
  IF ~Looks(u, st, f) THEN late
  ELSE IF Cached(st, u.page) /\ CompsOf(st, u.page) # Dag(u.page, st[u.page])
  THEN late \cup {"cache"} ELSE late \ {"cache"}

------------------------------------------------------------------------------
(* Messages.                                                               *)

Hears(u, r) ==
  IF r \in EnvRow THEN u.envHeard \/ u.envLeak
  ELSE (u.compHeard /\ Owner[r] = u.selected) \/ Owner[r] \in u.compLeaks

AuditHeard(r, v) ==
  IF ~Hears(ui, r) THEN ui
  ELSE IF r \in EnvRow THEN [ui EXCEPT !.envAudit[r] = v]
  ELSE [ui EXCEPT !.compAudit[r] = v]

Deliver ==
  /\ wire # <<>>
  /\ LET o == Head(wire).obj
         v == Head(wire).ver
     IN  /\ store' = IF o \in Entity THEN [store EXCEPT ![o] = v] ELSE store
         /\ ui' = IF o \in Env THEN Emitted(ui, store', fetched)
                  ELSE IF o \in Comp THEN ComponentsEmitted(ui, store', Owner[o], {o})
                  ELSE AuditHeard(o, v)
         /\ behind' = IF o \in Entity \/ Hears(ui, o) THEN behind \ {o} ELSE behind
         /\ late' = IF o \in Env THEN CacheLate(ui, store', fetched) ELSE late
  /\ wire' = Tail(wire)
  /\ UNCHANGED <<saved, db, open, fetched, revisited, events>>

------------------------------------------------------------------------------
(* Answers.                                                                *)

Teams(withComponents) == IF withComponents THEN Entity ELSE Env
ComponentsOfEnv(e) == {c \in Comp : Owner[c] = e}
AuditList(o) == {r \in Row : Owner[r] = o}

Asked(a) ==
  CASE a.kind \in {"teams", "allTeams"} -> Teams(a.kind = "allTeams")
    [] a.kind = "comps" -> ComponentsOfEnv(a.of)
    [] a.kind \in {"envAudit", "compAudit"} -> AuditList(a.of)
    [] a.kind = "run" -> {}

\* The API reads what is committed.
Read(a) ==
  /\ ~a.read
  /\ ui' = [ui EXCEPT !.asks = (@ \ {a}) \cup
       {[a EXCEPT !.read = TRUE,
                  !.data = [o \in Obj |-> IF o \in Asked(a) THEN db[o] ELSE 0]]}]
  /\ UNCHANGED <<saved, db, wire, open, store, fetched, behind, late, revisited, events>>

UnderWay(o) == \E i \in DOMAIN wire : wire[i].obj = o

\* behind: an answer that is older than a message that has come before, or was
\* lost. One that is not repairs what was, but for the page of components.
Overtaken(a) ==
  LET old == {o \in Asked(a) : a.data[o] # saved[o] /\ ~UnderWay(o)}
      new == {o \in Asked(a) : a.data[o] = saved[o]}
  IN  behind' = (behind \ (IF a.kind = "allTeams" THEN new \ Comp ELSE new)) \cup old

\* Mutant of Fetched: the store keeps what it has.
AddsOnly(a) == [o \in Entity |-> IF store[o] > 0 THEN store[o] ELSE a.data[o]]

Fetched(a) == [o \in Entity |-> IF a.data[o] > 0 THEN a.data[o] ELSE store[o]]

Answered(a) == a \in ui.asks /\ a.read
Without(a) == [ui EXCEPT !.asks = @ \ {a}]

\* The components are made anew, which emits, but not by emitterComp.
Remade(a) ==
  [Without(a) EXCEPT !.remade = @ \cup {c \in Comp : a.data[c] > 0 /\ ui.shown[c] > 0}]

GetTeams(a) ==
  /\ Answered(a) /\ a.kind \in {"teams", "allTeams"}
  /\ store' = Fetched(a)
  /\ fetched' = IF a.kind = "allTeams" \/ fetched = "all" THEN "all" ELSE "teams"
  /\ ui' = Emitted(Remade(a), store', fetched')
  /\ late' = CacheLate(ui, store', fetched')
  /\ Overtaken(a)
  /\ UNCHANGED <<saved, db, wire, open, revisited, events>>

GetComponents(a) ==
  /\ Answered(a) /\ a.kind = "comps"
  /\ store' = Fetched(a)
  /\ ui' = ComponentsEmitted(Without(a), store', a.of, {c \in Comp : a.data[c] > 0})
  /\ late' = IF ui.page = a.of THEN late \ {"cache"} ELSE late
  /\ Overtaken(a)
  /\ UNCHANGED <<saved, db, wire, open, fetched, revisited, events>>

\* late: the list of another environment takes the place of this one's.
GetEnvironment(a) ==
  /\ Answered(a) /\ a.kind = "envAudit"
  /\ ui' = [Without(a) EXCEPT !.envAudit = [r \in EnvRow |-> a.data[r]],
                              !.envHeard = @ \/ a.live, !.envLeak = @ \/ ~a.live]
  /\ late' = IF a.of = ui.environment THEN late \ {"env"} ELSE late \cup {"env"}
  /\ Overtaken(a)
  /\ UNCHANGED <<saved, db, wire, open, store, fetched, revisited, events>>

GetComponent(a) ==
  /\ Answered(a) /\ a.kind = "compAudit"
  /\ ui' = [Without(a) EXCEPT
              !.compAudit = [r \in CompRow |-> a.data[r]],
              !.compHeard = @ \/ a.live,
              !.compLeaks = IF a.live THEN @ ELSE @ \cup {a.of}]
  /\ late' = IF a.of = ui.selected THEN late \ {"comp"} ELSE late \cup {"comp"}
  /\ Overtaken(a)
  /\ UNCHANGED <<saved, db, wire, open, store, fetched, revisited, events>>

GetWorkflowData(a) ==
  /\ Answered(a) /\ a.kind = "run"
  /\ LET run == [comp |-> a.of, ver |-> a.ver]
     IN  /\ ui' = [Without(a) EXCEPT !.view = run]
         /\ late' = IF run = ui.workflow THEN late \ {"run"} ELSE late \cup {"run"}
  /\ UNCHANGED <<saved, db, wire, open, store, fetched, behind, revisited, events>>

------------------------------------------------------------------------------
(* The user.                                                               *)

ResetRefs(u) ==
  [CleanUp(u, "compAudit") EXCEPT
     !.loading = TRUE, !.shown = [c \in Comp |-> 0], !.remade = {},
     !.envAudit = [r \in EnvRow |-> 0],
     !.selected = None, !.compAudit = [r \in CompRow |-> 0],
     !.compHeard = FALSE, !.workflow = NoRun]

\* The effect of the URL: resetRefs, and the emitter emits at once. The page of
\* all components leaves the environment as it is: when that one is entered
\* again, its own effects do not run.
Visit(p) ==
  /\ Event /\ p # ui.page
  /\ p # All => IF ui.page = None THEN db[p] > 0 ELSE store[p] > 0
  /\ LET v == [ResetRefs(ui) EXCEPT !.page = p]
         w == IF p = All /\ fetched # "all"
              THEN [v EXCEPT !.asks = @ \cup {NewAsk("allTeams", None)}] ELSE v
     IN  /\ ui' = Emitted(w, store, fetched)
         /\ late' = CacheLate(w, store, fetched) \ {"env", "comp", "run"}
  /\ revisited' = (p = ui.environment)
  /\ UNCHANGED <<saved, db, wire, open, store, fetched, behind>>

\* Mutant of Select: the run is left to the messages about the component.
SelectOnly(c) ==
  /\ Event /\ ui.page \in Env /\ ui.shown[c] > 0 /\ c # ui.selected
  /\ ui' = SelectedChanged([ui EXCEPT !.selected = c])
  /\ late' = late \ {"run"}
  /\ UNCHANGED <<saved, db, wire, open, store, fetched, behind, revisited>>

\* onNodeClick
Select(c) ==
  /\ Event /\ ui.page \in Env /\ ui.shown[c] > 0 /\ c # ui.selected
  /\ LET run == IF RunOf(c, ui.shown[c]) = NoRun THEN Initializing ELSE RunOf(c, ui.shown[c])
         v == SelectedChanged([ui EXCEPT !.selected = c])
     IN  IF v.workflow = run THEN ui' = v /\ late' = late
         ELSE /\ ui' = [SetWorkflowId(v, run) EXCEPT !.view = NoRun]
              /\ late' = late \ {"run"}
  /\ UNCHANGED <<saved, db, wire, open, store, fetched, behind, revisited>>

Next ==
  \/ \E e \in Env : SaveEnvironment(e)
  \/ \E c \in Comp : SaveComponent(c) \/ BatchDelete(c) \/ Select(c)
  \/ \E r \in EnvRow : SaveEnvReconcile(r)
  \/ \E r \in CompRow : SaveCompReconcile(r)
  \/ \E o \in Obj : Commit(o)
  \/ Disconnect \/ Reconnect \/ Deliver
  \/ \E a \in ui.asks :
       \/ Read(a) \/ GetTeams(a) \/ GetComponents(a)
       \/ GetEnvironment(a) \/ GetComponent(a) \/ GetWorkflowData(a)
  \/ \E p \in Env \cup {All} : Visit(p)

Spec == Init /\ [][Next]_vars

------------------------------------------------------------------------------
(* Properties: of what is shown once nothing is under way.                 *)

AtRest == db = saved /\ wire = <<>> /\ ui.asks = {}

\* The page of an environment that it has set up.
On(e) == ui.page = e /\ ui.environment = e /\ ~revisited

\* The page shows every component of its environment's DAG as the API has it, but
\* for what was lost or overtaken (entity.store.ts:203-223, EnvironmentComponents.tsx:224-231).
ComponentsAreShown ==
  \A e \in Env : AtRest /\ On(e) /\ "cache" \notin late =>
    \A c \in Comp : Owner[c] = e /\ c \in Dag(e, db[e]) /\ c \notin behind =>
      db[c] \in {0, ui.shown[c]}

\* The page of an environment with components does not load for ever, but for the
\* one that is entered again, and one whose runs had no component at all: the
\* store has as many (EnvironmentComponents.tsx:191-201, :224-236).
PageIsLoaded ==
  \A e \in Env :
    AtRest /\ On(e) /\ ui.loading /\ (\A v \in DOMAIN RunDagAt[e] : RunDagAt[e][v] # {}) =>
      \A c \in Comp : Owner[c] = e => db[c] = 0 \/ c \in behind

\* The list of runs of an environment has all of them as they are
\* (EnvironmentComponents.tsx:204-222).
RunsAreListed ==
  \A e \in Env : AtRest /\ On(e) /\ "env" \notin late =>
    \A r \in EnvRow : Owner[r] = e /\ r \notin behind => ui.envAudit[r] = db[r]

\* The panel of a component lists its reconciles as they are, and others only
\* where a listener was left behind (EnvironmentComponents.tsx:239-259).
PanelIsOfSelected ==
  AtRest /\ ui.selected # None /\ "comp" \notin late =>
    \A r \in CompRow :
      IF Owner[r] = ui.selected THEN ui.compAudit[r] = db[r] \/ r \in behind
      ELSE ui.compAudit[r] > 0 => Owner[r] \in ui.compLeaks

\* What is viewed is the last run of the selected component as it is shown, while
\* there is that component (EnvironmentComponents.tsx:342-352, :370-391).
ViewIsOfSelected ==
  LET c == ui.selected
  IN  AtRest /\ c # None /\ "run" \notin late =>
        c \in behind \/ db[c] = 0 \/ ui.view = RunOf(c, ui.shown[c])
=============================================================================
