---------------------------- MODULE LiveViewProofs ----------------------------
(***************************************************************************)
(* What the page of an environment shows once nothing is under way, proved *)
(* for any environments, components, rows, versions and numbers of events. *)
(*                                                                         *)
(* Whatever the page holds of an entity is what was saved of it, unless a  *)
(* message of it is still to come, or it was lost or overtaken: Excused.   *)
(* That alone is not inductive: the page may hold nothing because its      *)
(* request is pending, the store's own components may be taken instead,    *)
(* and a component that the DAG has dropped is never heard of again.       *)
(***************************************************************************)
EXTENDS LiveView, SequenceTheorems, FiniteSetTheorems, TLAPS

Coming(w, o) == \E i \in DOMAIN w : w[i].obj = o

Excused(o, bh, w) == o \in bh \/ Coming(w, o)

\* The page may hold x of o: that is what was saved, or will not stay. Of a
\* component that was deleted, nobody hears.
Fine(o, x, sv, bh, w) ==
  x = sv[o] \/ (o \in Comp /\ sv[o] = 0) \/ Excused(o, bh, w)

Pending(A, kind, of, ver) == \E a \in A : a.kind = kind /\ a.of = of /\ a.ver = ver

\* The DAG of version v has no c any more.
Gone(c, v) == \E i \in 1..v : c \in DagAt[Owner[c]][i] /\ c \notin DagAt[Owner[c]][v]

Deleted(o, sv, d) == o \in Comp /\ sv[o] = 0 /\ Gone(o, d[Owner[o]])

\* x is a version that o has had.
Known(o, x, sv, d) ==
  /\ x <= sv[o] \/ Deleted(o, sv, d)
  /\ o \in Env /\ x > 0 => Start[o] <= x

------------------------------------------------------------------------------

SavedOK(sv, d) ==
  /\ \A o \in Obj : d[o] <= sv[o]
  /\ \A e \in Env : Start[e] <= d[e] /\ sv[e] <= Len(DagAt[e])
  /\ \A c \in Comp : sv[c] > 0 => \E i \in 1..d[Owner[c]] : c \in DagAt[Owner[c]][i]

LastOf(w, i) == \A j \in DOMAIN w : j > i => w[j].obj # w[i].obj

WireTyped(w) == \A i \in DOMAIN w : w[i].ver > 0

WireOK(w, sv, d) ==
  \A i \in DOMAIN w :
    /\ Known(w[i].obj, w[i].ver, sv, d)
    /\ LastOf(w, i) => Fine(w[i].obj, w[i].ver, sv, {}, <<>>)

AsksTyped(A) ==
  \A a \in A :
    /\ a.kind \in {"comps", "envAudit"} => a.of \in Env
    /\ a.kind \in {"compAudit", "run"} => a.of \in Comp
    /\ \A o \in Obj : o \notin Asked(a) => a.data[o] = 0

AsksOK(A, sv, d) == \A a \in A : \A o \in Obj : Known(o, a.data[o], sv, d)

\* A component that the store has not got was there from the start, or is fine.
StoreOK(st, sv, d, bh, w) ==
  /\ \A o \in Entity : Known(o, st[o], sv, d)
  /\ \A c \in Comp : st[c] > 0 \/ Start[c] = 0 => Fine(c, st[c], sv, bh, w)

\* The effects that are set up are those of the page.
PageOK(u, st, f) ==
  /\ u.environment # None => f # "none" /\ u.page # None
  /\ u.environment # None /\ u.page \in Env => u.environment = u.page
  /\ \A c \in Comp : u.shown[c] > 0 => st[c] > 0 /\ (u.page \in Env => Owner[c] = u.environment)

SelectionOK(u) ==
  LET run == RunOf(u.selected, u.shown[u.selected])
  IN  IF u.selected = None THEN u.workflow = NoRun
      ELSE /\ u.page \in Env /\ u.shown[u.selected] > 0
           /\ u.workflow = run \/ (u.workflow = Initializing /\ run = NoRun)

ShownOK(u, sv, d) == \A c \in Comp : Known(c, u.shown[c], sv, d)

OnPage(u, rv, e) == u.page = e /\ u.environment = e /\ ~rv

ShownAt(e, u, sv, bh, w) ==
  \/ Pending(u.asks, "comps", e, 0)
  \/ \A c \in Comp : Owner[c] = e => Fine(c, u.shown[c], sv, bh, w) \/ Gone(c, sv[e])

Shows(u, sv, bh, w, lt, rv) ==
  \A e \in Env : OnPage(u, rv, e) /\ "cache" \notin lt => ShownAt(e, u, sv, bh, w)

\* What loads is waiting for an answer, or has no components to wait for.
WaitsAt(e, u, sv, bh, w) ==
  \/ Pending(u.asks, "comps", e, 0)
  \/ \A c \in Comp : Owner[c] = e => Fine(c, 0, sv, bh, w)

RunsHaveComponents(e) == \A v \in DOMAIN RunDagAt[e] : RunDagAt[e][v] # {}

Loads(u, sv, bh, w, rv) ==
  \A e \in Env : OnPage(u, rv, e) /\ u.loading /\ RunsHaveComponents(e) =>
    WaitsAt(e, u, sv, bh, w)

ListedAt(e, u, sv, bh, w) ==
  \/ Pending(u.asks, "envAudit", e, 0)
  \/ /\ u.envHeard \/ u.envLeak
     /\ \A r \in EnvRow : Owner[r] = e => Fine(r, u.envAudit[r], sv, bh, w)

Lists(u, sv, bh, w, lt, rv) ==
  \A e \in Env : OnPage(u, rv, e) /\ "env" \notin lt => ListedAt(e, u, sv, bh, w)

Panel(u, sv, bh, w, lt) ==
  u.selected # None /\ "comp" \notin lt =>
    \/ Pending(u.asks, "compAudit", u.selected, 0)
    \/ /\ u.compHeard \/ u.selected \in u.compLeaks
       /\ \A r \in CompRow :
            IF Owner[r] = u.selected THEN Fine(r, u.compAudit[r], sv, bh, w)
            ELSE u.compAudit[r] > 0 => Owner[r] \in u.compLeaks

Views(u, sv, d, bh, w, lt) ==
  LET c == u.selected
  IN  c # None /\ "run" \notin lt =>
        /\ u.workflow = Initializing => u.view = NoRun
        /\ u.workflow \in Run =>
             u.view = u.workflow \/ Pending(u.asks, "run", u.workflow.comp, u.workflow.ver)
        /\ u.workflow = NoRun =>
             u.view = NoRun \/ (Known(c, 2, sv, d) /\ Fine(c, 1, sv, bh, w))

------------------------------------------------------------------------------
(* Types.                                                                  *)

LEMMA Sorts ==
  /\ Env \subseteq Entity /\ Comp \subseteq Entity /\ Entity \subseteq Obj
  /\ EnvRow \subseteq Row /\ CompRow \subseteq Row /\ Row \subseteq Obj
  /\ Env \cap Comp = {} /\ Env \cap Row = {} /\ Comp \cap Row = {} /\ EnvRow \cap CompRow = {}
  /\ None \notin Entity /\ All \notin Entity /\ All # None
  /\ \A c \in Comp : Owner[c] \in Env
  /\ \A r \in EnvRow : Owner[r] \in Env
  /\ \A r \in CompRow : Owner[r] \in Comp
  /\ Versions \subseteq Nat /\ 0 \in Versions /\ 1 \in Versions
BY LiveViewAssumption DEF Obj, Row, Entity, Versions

LEMMA StartIs ==
  /\ \A o \in Obj : Start[o] \in Nat
  /\ \A c \in Comp : Start[c] > 0 =>
       Start[Owner[c]] > 0 /\ c \in DagAt[Owner[c]][Start[Owner[c]]]
<1>1. Start \in [Obj -> 0..MaxVersion] /\ MaxVersion \in Nat
  BY LiveViewAssumption
<1>2. \A o \in Obj : Start[o] \in 0..MaxVersion
  BY <1>1
<1>3. \A o \in Obj : Start[o] \in Nat
  BY <1>1, <1>2
<1>4. \A c \in Comp : Start[c] > 0 =>
       Start[Owner[c]] > 0 /\ c \in DagAt[Owner[c]][Start[Owner[c]]]
  BY LiveViewAssumption
<1> QED
  BY <1>3, <1>4

LEMMA NewAskIs ==
  ASSUME NEW kind \in Kinds, NEW of \in Entity \cup {None}
  PROVE  /\ NewAsk(kind, of) \in Ask
         /\ NewAsk(kind, of).kind = kind /\ NewAsk(kind, of).of = of
         /\ NewAsk(kind, of).ver = 0
         /\ \A o \in Obj : NewAsk(kind, of).data[o] = 0
BY Sorts DEF NewAsk, Ask

LEMMA RunIs ==
  ASSUME NEW c \in Comp, NEW v \in Versions
  PROVE  /\ RunOf(c, v) \in Run \cup {NoRun}
         /\ RunOf(c, v) # Initializing
         /\ v > 1 => RunOf(c, v) \in Run /\ RunOf(c, v).comp = c
         /\ v <= 1 => RunOf(c, v) = NoRun
BY Sorts DEF RunOf, Run, NoRun, Initializing

LEMMA RunsDiffer ==
  /\ NoRun \notin Run /\ Initializing \notin Run /\ NoRun # Initializing
BY Sorts DEF Run, NoRun, Initializing

\* The clean-up of an effect changes nothing but what is live.
LEMMA CleanUpIs ==
  ASSUME NEW u \in Page, NEW kind \in Kinds
  PROVE  /\ CleanUp(u, kind) \in Page
         /\ \A k, o, n : Pending(u.asks, k, o, n) => Pending(CleanUp(u, kind).asks, k, o, n)
         /\ \A b \in CleanUp(u, kind).asks : \E a \in u.asks :
              b.kind = a.kind /\ b.of = a.of /\ b.ver = a.ver /\ b.data = a.data
         /\ CleanUp(u, kind).page = u.page /\ CleanUp(u, kind).environment = u.environment
         /\ CleanUp(u, kind).loading = u.loading /\ CleanUp(u, kind).shown = u.shown
         /\ CleanUp(u, kind).envAudit = u.envAudit /\ CleanUp(u, kind).envHeard = u.envHeard
         /\ CleanUp(u, kind).envLeak = u.envLeak /\ CleanUp(u, kind).selected = u.selected
         /\ CleanUp(u, kind).compAudit = u.compAudit
         /\ CleanUp(u, kind).compHeard = u.compHeard
         /\ CleanUp(u, kind).compLeaks = u.compLeaks
         /\ CleanUp(u, kind).workflow = u.workflow /\ CleanUp(u, kind).view = u.view
<1> DEFINE A == {IF a.kind = kind THEN [a EXCEPT !.live = FALSE] ELSE a : a \in u.asks}
<1>1. \A a \in Ask : [a EXCEPT !.live = FALSE] \in Ask
  BY DEF Ask
<1>2. \A a \in Ask : LET b == IF a.kind = kind THEN [a EXCEPT !.live = FALSE] ELSE a
                     IN  /\ b \in Ask /\ b.kind = a.kind /\ b.of = a.of /\ b.ver = a.ver
                         /\ b.data = a.data
  BY <1>1 DEF Ask
<1>3. u.asks \subseteq Ask
  BY DEF Page
<1>4. A \subseteq Ask
  BY <1>2, <1>3
<1>5. ASSUME NEW k, NEW o, NEW n, Pending(u.asks, k, o, n)
      PROVE  Pending(A, k, o, n)
  <2>1. PICK a \in u.asks : a.kind = k /\ a.of = o /\ a.ver = n
    BY <1>5 DEF Pending
  <2> DEFINE b == IF a.kind = kind THEN [a EXCEPT !.live = FALSE] ELSE a
  <2>2. b \in A /\ b.kind = a.kind /\ b.of = a.of /\ b.ver = a.ver
    BY <1>2, <1>3
  <2> QED
    BY <2>1, <2>2 DEF Pending
<1>6. \A b \in A : \E a \in u.asks :
              b.kind = a.kind /\ b.of = a.of /\ b.ver = a.ver /\ b.data = a.data
  BY <1>2, <1>3
<1>7. CleanUp(u, kind) = [u EXCEPT !.asks = A]
  BY DEF CleanUp
<1> HIDE DEF A
<1>8. CleanUp(u, kind) \in Page /\ CleanUp(u, kind).asks = A
  BY <1>4, <1>7 DEF Page
<1> QED
  BY <1>5, <1>6, <1>7, <1>8 DEF Page

------------------------------------------------------------------------------
(* What the handlers of the page do.                                       *)

\* A request that a handler makes.
NewFor(b) ==
  /\ b.kind \in {"comps", "envAudit"} => b.of \in Env
  /\ b.kind \in {"compAudit", "run"} => b.of \in Comp
  /\ \A o \in Obj : b.data[o] = 0

\* Requests stay pending, and others are made.
Grown(B, A) ==
  /\ \A k, o, n : Pending(A, k, o, n) => Pending(B, k, o, n)
  /\ \A b \in B : \/ \E a \in A : b.kind = a.kind /\ b.of = a.of /\ b.data = a.data
                  \/ NewFor(b)

\* What all handlers of messages about entities leave alone, and ask for.
Follows(v, u) ==
  /\ v \in Page /\ Grown(v.asks, u.asks)
  /\ v.page = u.page /\ v.envAudit = u.envAudit /\ v.envLeak = u.envLeak
  /\ v.selected = u.selected /\ v.compAudit = u.compAudit /\ v.compLeaks = u.compLeaks
  /\ v.view = u.view
  /\ v.compHeard = u.compHeard \/ Pending(v.asks, "compAudit", v.selected, 0)
  /\ \/ v.workflow = u.workflow
     \/ v.workflow \in Run => Pending(v.asks, "run", v.workflow.comp, v.workflow.ver)

LEMMA GrownIsOrder ==
  ASSUME NEW A, NEW B, NEW C
  PROVE  Grown(A, A) /\ (Grown(C, B) /\ Grown(B, A) => Grown(C, A))
<1>1. Grown(A, A)
  BY DEF Grown
<1>2. ASSUME Grown(C, B), Grown(B, A) PROVE Grown(C, A)
  <2>1. \A k, o, n : Pending(A, k, o, n) => Pending(C, k, o, n)
    BY <1>2 DEF Grown
  <2>2. ASSUME NEW c \in C
        PROVE  \/ \E a \in A : c.kind = a.kind /\ c.of = a.of /\ c.data = a.data
               \/ NewFor(c)
    <3>1. CASE NewFor(c)
      BY <3>1
    <3>2. CASE \E b \in B : c.kind = b.kind /\ c.of = b.of /\ c.data = b.data
      <4>1. PICK b \in B : c.kind = b.kind /\ c.of = b.of /\ c.data = b.data
        BY <3>2
      <4>2. NewFor(b) => NewFor(c)
        BY <4>1 DEF NewFor
      <4>3. (\E a \in A : b.kind = a.kind /\ b.of = a.of /\ b.data = a.data) \/ NewFor(b)
        BY <1>2 DEF Grown
      <4> QED
        BY <4>1, <4>2, <4>3
    <3> QED
      BY <1>2, <3>1, <3>2 DEF Grown
  <2> QED
    BY <2>1, <2>2 DEF Grown
<1> QED
  BY <1>1, <1>2

LEMMA GrownByOne ==
  ASSUME NEW A, NEW b, NewFor(b)
  PROVE  Grown(A \cup {b}, A) /\ Pending(A \cup {b}, b.kind, b.of, b.ver)
BY DEF Grown, Pending

LEMMA FollowsIsOrder ==
  ASSUME NEW u \in Page, NEW v, NEW w
  PROVE  Follows(u, u) /\ (Follows(w, v) /\ Follows(v, u) => Follows(w, u))
<1>1. Follows(u, u)
  BY GrownIsOrder DEF Follows
<1>2. ASSUME Follows(w, v), Follows(v, u) PROVE Follows(w, u)
  <2>1. Grown(w.asks, u.asks)
    BY <1>2, GrownIsOrder DEF Follows
  <2>2. \A k, o, n : Pending(v.asks, k, o, n) => Pending(w.asks, k, o, n)
    BY <1>2 DEF Follows, Grown
  <2>3. w.compHeard = u.compHeard \/ Pending(w.asks, "compAudit", w.selected, 0)
    BY <1>2, <2>2 DEF Follows
  <2>4. \/ w.workflow = u.workflow
        \/ w.workflow \in Run => Pending(w.asks, "run", w.workflow.comp, w.workflow.ver)
    <3>1. CASE w.workflow = v.workflow
      BY <1>2, <2>2, <3>1 DEF Follows
    <3>2. CASE w.workflow \in Run => Pending(w.asks, "run", w.workflow.comp, w.workflow.ver)
      BY <3>2
    <3> QED
      BY <1>2, <3>1, <3>2 DEF Follows
  <2> QED
    BY <1>2, <2>1, <2>3, <2>4 DEF Follows
<1> QED
  BY <1>1, <1>2

\* The effect of the selected component asks for its list anew.
LEMMA SelectedChangedIs ==
  ASSUME NEW u \in Page, u.selected \in Comp
  PROVE  LET v == SelectedChanged(u)
         IN  /\ Follows(v, u)
             /\ Pending(v.asks, "compAudit", u.selected, 0)
             /\ v.environment = u.environment /\ v.loading = u.loading /\ v.shown = u.shown
             /\ v.envHeard = u.envHeard /\ v.workflow = u.workflow
<1> DEFINE c == CleanUp(u, "compAudit")
           b == NewAsk("compAudit", u.selected)
           v == [c EXCEPT !.compHeard = FALSE, !.asks = @ \cup {b}]
<1>0. "compAudit" \in Kinds /\ u.selected \in Entity \cup {None}
  BY Sorts DEF Kinds
<1>1. /\ c \in Page
      /\ \A k, o, n : Pending(u.asks, k, o, n) => Pending(c.asks, k, o, n)
      /\ \A x \in c.asks : \E a \in u.asks :
              x.kind = a.kind /\ x.of = a.of /\ x.ver = a.ver /\ x.data = a.data
      /\ c.page = u.page /\ c.environment = u.environment /\ c.loading = u.loading
      /\ c.shown = u.shown /\ c.envAudit = u.envAudit /\ c.envHeard = u.envHeard
      /\ c.envLeak = u.envLeak /\ c.selected = u.selected /\ c.compAudit = u.compAudit
      /\ c.compHeard = u.compHeard /\ c.compLeaks = u.compLeaks
      /\ c.workflow = u.workflow /\ c.view = u.view
  BY CleanUpIs, <1>0
<1>2. b \in Ask /\ b.kind = "compAudit" /\ b.of = u.selected /\ b.ver = 0 /\ NewFor(b)
  BY NewAskIs, <1>0 DEF NewFor
<1>3. SelectedChanged(u) = v
  BY <1>1 DEF SelectedChanged
<1> HIDE DEF c, b
<1>4. /\ v \in Page /\ v.asks = c.asks \cup {b} /\ v.compHeard = FALSE
      /\ v.page = c.page /\ v.environment = c.environment /\ v.loading = c.loading
      /\ v.shown = c.shown /\ v.envAudit = c.envAudit /\ v.envHeard = c.envHeard
      /\ v.envLeak = c.envLeak /\ v.selected = c.selected /\ v.compAudit = c.compAudit
      /\ v.compLeaks = c.compLeaks /\ v.workflow = c.workflow /\ v.view = c.view
  BY <1>1, <1>2 DEF Page
<1> HIDE DEF v
<1>5. Grown(c.asks, u.asks)
  BY <1>1 DEF Grown
<1>6. Grown(v.asks, c.asks) /\ Pending(v.asks, "compAudit", u.selected, 0)
  BY <1>2, <1>4, GrownByOne
<1>7. Grown(v.asks, u.asks)
  BY <1>5, <1>6, GrownIsOrder
<1> QED
  BY <1>1, <1>3, <1>4, <1>6, <1>7 DEF Follows

\* The effect of the run asks for it.
LEMMA SetWorkflowIdIs ==
  ASSUME NEW u \in Page, NEW run \in Run \cup {NoRun, Initializing}
  PROVE  LET v == SetWorkflowId(u, run)
         IN  /\ Follows(v, u)
             /\ v.environment = u.environment /\ v.loading = u.loading /\ v.shown = u.shown
             /\ v.envHeard = u.envHeard /\ v.compHeard = u.compHeard
             /\ v.workflow = run
             /\ u.workflow # run /\ run \in Run => Pending(v.asks, "run", run.comp, run.ver)
<1>1. CASE u.workflow = run
  BY <1>1, FollowsIsOrder DEF SetWorkflowId
<1>2. CASE u.workflow # run /\ run \in {NoRun, Initializing}
  <2> DEFINE v == [u EXCEPT !.workflow = run, !.asks = @]
  <2>1. SetWorkflowId(u, run) = v
    BY <1>2 DEF SetWorkflowId
  <2>2. /\ v \in Page /\ v.asks = u.asks /\ v.workflow = run /\ run \notin Run
        /\ v.page = u.page /\ v.environment = u.environment /\ v.loading = u.loading
        /\ v.shown = u.shown /\ v.envAudit = u.envAudit /\ v.envHeard = u.envHeard
        /\ v.envLeak = u.envLeak /\ v.selected = u.selected /\ v.compAudit = u.compAudit
        /\ v.compHeard = u.compHeard /\ v.compLeaks = u.compLeaks /\ v.view = u.view
    BY <1>2, RunsDiffer DEF Page
  <2> HIDE DEF v
  <2> QED
    BY <1>2, <2>1, <2>2, GrownIsOrder DEF Follows
<1>3. CASE u.workflow # run /\ run \in Run
  <2> DEFINE b == [NewAsk("run", run.comp) EXCEPT !.ver = run.ver]
             v == [u EXCEPT !.workflow = run, !.asks = @ \cup {b}]
  <2>0. run.comp \in Comp /\ run.ver \in Versions /\ "run" \in Kinds
    BY <1>3 DEF Run, Kinds
  <2>1. SetWorkflowId(u, run) = v
    BY <1>3, RunsDiffer DEF SetWorkflowId
  <2>2. b \in Ask /\ b.kind = "run" /\ b.of = run.comp /\ b.ver = run.ver /\ NewFor(b)
    BY <2>0, NewAskIs, Sorts DEF NewFor, Ask
  <2> HIDE DEF b
  <2>3. /\ v \in Page /\ v.asks = u.asks \cup {b} /\ v.workflow = run
        /\ v.page = u.page /\ v.environment = u.environment /\ v.loading = u.loading
        /\ v.shown = u.shown /\ v.envAudit = u.envAudit /\ v.envHeard = u.envHeard
        /\ v.envLeak = u.envLeak /\ v.selected = u.selected /\ v.compAudit = u.compAudit
        /\ v.compHeard = u.compHeard /\ v.compLeaks = u.compLeaks /\ v.view = u.view
    BY <1>3, <2>2 DEF Page
  <2> HIDE DEF v
  <2>4. Grown(v.asks, u.asks) /\ Pending(v.asks, "run", run.comp, run.ver)
    BY <2>2, <2>3, GrownByOne
  <2> QED
    BY <1>3, <2>1, <2>3, <2>4 DEF Follows
<1> QED
  BY <1>1, <1>2, <1>3

\* The selected component and its run become those that the store has.
LEMMA ResetSelectedConfigIs ==
  ASSUME NEW u \in Page, NEW st \in [Entity -> Versions], NEW comps \in SUBSET Comp,
         NEW changed
  PROVE  LET v == ResetSelectedConfig(u, st, comps, changed)
         IN  /\ Follows(v, u)
             /\ v.environment = u.environment /\ v.loading = u.loading /\ v.shown = u.shown
             /\ v.envHeard = u.envHeard
             /\ u.selected \notin comps => v.workflow = u.workflow
             /\ u.selected \in comps => v.workflow = RunOf(u.selected, st[u.selected])
<1>1. CASE u.selected \notin comps
  BY <1>1, FollowsIsOrder DEF ResetSelectedConfig
<1>2. CASE u.selected \in comps
  <2> DEFINE w == IF u.selected \in changed THEN SelectedChanged(u) ELSE u
             run == RunOf(u.selected, st[u.selected])
             v == SetWorkflowId(w, run)
  <2>1. u.selected \in Comp /\ st[u.selected] \in Versions
    BY <1>2, Sorts
  <2>2. run \in Run \cup {NoRun, Initializing}
    BY <2>1, RunIs
  <2>3. /\ Follows(w, u) /\ w.environment = u.environment /\ w.loading = u.loading
        /\ w.shown = u.shown /\ w.envHeard = u.envHeard /\ w.workflow = u.workflow
    BY <2>1, SelectedChangedIs, FollowsIsOrder
  <2>4. w \in Page
    BY <2>3 DEF Follows
  <2>5. ResetSelectedConfig(u, st, comps, changed) = v
    BY <1>2 DEF ResetSelectedConfig
  <2> HIDE DEF w, run
  <2>6. /\ Follows(v, w)
        /\ v.environment = w.environment /\ v.loading = w.loading /\ v.shown = w.shown
        /\ v.envHeard = w.envHeard /\ v.workflow = run
    BY <2>2, <2>4, SetWorkflowIdIs
  <2>7. Follows(v, u)
    BY <2>3, <2>6, FollowsIsOrder
  <2> HIDE DEF v
  <2> QED
    BY <1>2, <2>3, <2>5, <2>6, <2>7 DEF run
<1> QED
  BY <1>1, <1>2

\* A page keeps the rest when only its requests change.
LEMMA WithoutIs ==
  ASSUME NEW u \in Page, NEW A \in SUBSET Ask
  PROVE  LET v == [u EXCEPT !.asks = A]
         IN  /\ v \in Page /\ v.asks = A
             /\ v.page = u.page /\ v.environment = u.environment /\ v.loading = u.loading
             /\ v.shown = u.shown /\ v.envAudit = u.envAudit /\ v.envHeard = u.envHeard
             /\ v.envLeak = u.envLeak /\ v.selected = u.selected
             /\ v.compAudit = u.compAudit /\ v.compHeard = u.compHeard
             /\ v.compLeaks = u.compLeaks /\ v.workflow = u.workflow /\ v.view = u.view
BY DEF Page

\* Components that are made anew leave the rest of the page as it is.
LEMMA RemadeIs ==
  ASSUME NEW a, ui \in Page, ui.asks \ {a} \in SUBSET Ask
  PROVE  LET v == Remade(a)
         IN  /\ v \in Page /\ v.asks = ui.asks \ {a}
             /\ v.page = ui.page /\ v.environment = ui.environment /\ v.loading = ui.loading
             /\ v.shown = ui.shown /\ v.envAudit = ui.envAudit /\ v.envHeard = ui.envHeard
             /\ v.envLeak = ui.envLeak /\ v.selected = ui.selected
             /\ v.compAudit = ui.compAudit /\ v.compHeard = ui.compHeard
             /\ v.compLeaks = ui.compLeaks /\ v.workflow = ui.workflow /\ v.view = ui.view
BY DEF Page, Remade, Without

LEMMA ComponentsEmittedIs ==
  ASSUME NEW u \in Page, NEW st \in [Entity -> Versions], NEW e \in Env, NEW changed
  PROVE  LET v == ComponentsEmitted(u, st, e, changed)
             comps == CompsOf(st, e)
         IN  /\ Follows(v, u) /\ v.environment = u.environment /\ v.envHeard = u.envHeard
             /\ comps = {} \/ u.environment # e => v = u
             /\ comps # {} /\ u.environment = e =>
                  /\ ~v.loading
                  /\ v.shown = [c \in Comp |-> IF c \in comps THEN st[c] ELSE 0]
                  /\ u.selected \notin comps => v.workflow = u.workflow
                  /\ u.selected \in comps => v.workflow = RunOf(u.selected, st[u.selected])
<1> DEFINE comps == CompsOf(st, e)
           shown == [c \in Comp |-> IF c \in comps THEN st[c] ELSE 0]
           w == [u EXCEPT !.loading = FALSE, !.remade = {}, !.shown = shown]
           v == ResetSelectedConfig(w, st, comps, changed \cup u.remade)
<1>1. comps \in SUBSET Comp
  BY DEF CompsOf
<1>2. CASE comps = {} \/ u.environment # e
  BY <1>2, FollowsIsOrder DEF ComponentsEmitted
<1>3. CASE comps # {} /\ u.environment = e
  <2>1. ComponentsEmitted(u, st, e, changed) = v
    BY <1>3 DEF ComponentsEmitted
  <2>2. shown \in [Comp -> Versions]
    BY Sorts
  <2> HIDE DEF comps, shown
  <2>3. /\ w \in Page /\ w.asks = u.asks /\ w.loading = FALSE /\ w.shown = shown
        /\ w.page = u.page /\ w.environment = u.environment
        /\ w.envAudit = u.envAudit /\ w.envHeard = u.envHeard
        /\ w.envLeak = u.envLeak /\ w.selected = u.selected /\ w.compAudit = u.compAudit
        /\ w.compHeard = u.compHeard /\ w.compLeaks = u.compLeaks /\ w.view = u.view
        /\ w.workflow = u.workflow
    BY <2>2 DEF Page
  <2> HIDE DEF w
  <2>4. Follows(w, u)
    BY <2>3, GrownIsOrder DEF Follows
  <2>5. /\ Follows(v, w) /\ v.environment = w.environment /\ v.loading = w.loading
        /\ v.shown = w.shown /\ v.envHeard = w.envHeard
        /\ w.selected \notin comps => v.workflow = w.workflow
        /\ w.selected \in comps => v.workflow = RunOf(w.selected, st[w.selected])
    BY <1>1, <2>3, ResetSelectedConfigIs
  <2> HIDE DEF v
  <2>6. Follows(v, u)
    BY <2>4, <2>5, FollowsIsOrder
  <2> QED
    BY <1>3, <2>1, <2>3, <2>5, <2>6 DEF comps, shown
<1> QED
  BY <1>2, <1>3

\* The page sets up its environment while no component is selected.
LEMMA SetEnvironmentIs ==
  ASSUME NEW u \in Page, NEW st \in [Entity -> Versions], NEW e \in Env, u.selected = None
  PROVE  LET v == SetEnvironment(u, st, e)
             comps == CompsOf(st, e)
         IN  /\ Follows(v, u) /\ v.environment = e /\ v.workflow = u.workflow
             /\ Pending(v.asks, "envAudit", e, 0)
             /\ IF Cached(st, e) /\ comps # {}
                THEN /\ ~v.loading
                     /\ v.shown = [c \in Comp |-> IF c \in comps THEN st[c] ELSE 0]
                ELSE v.loading = u.loading /\ v.shown = u.shown
             /\ ~Cached(st, e) => Pending(v.asks, "comps", e, 0)
<1> DEFINE c == CleanUp(u, "envAudit")
           b == NewAsk("envAudit", e)
           d == NewAsk("comps", e)
           w == [c EXCEPT !.environment = e, !.envHeard = FALSE, !.asks = @ \cup {b}]
<1>0. {"envAudit", "comps"} \subseteq Kinds /\ e \in Entity \cup {None}
  BY Sorts DEF Kinds
<1>1. /\ c \in Page
      /\ \A k, o, n : Pending(u.asks, k, o, n) => Pending(c.asks, k, o, n)
      /\ \A x \in c.asks : \E a \in u.asks :
              x.kind = a.kind /\ x.of = a.of /\ x.ver = a.ver /\ x.data = a.data
      /\ c.page = u.page /\ c.environment = u.environment /\ c.loading = u.loading
      /\ c.shown = u.shown /\ c.envAudit = u.envAudit /\ c.envHeard = u.envHeard
      /\ c.envLeak = u.envLeak /\ c.selected = u.selected /\ c.compAudit = u.compAudit
      /\ c.compHeard = u.compHeard /\ c.compLeaks = u.compLeaks
      /\ c.workflow = u.workflow /\ c.view = u.view
  BY CleanUpIs, <1>0
<1>2. b \in Ask /\ b.kind = "envAudit" /\ b.of = e /\ b.ver = 0 /\ NewFor(b)
  BY NewAskIs, <1>0 DEF NewFor
<1>3. d \in Ask /\ d.kind = "comps" /\ d.of = e /\ d.ver = 0 /\ NewFor(d)
  BY NewAskIs, <1>0 DEF NewFor
<1>4. SetEnvironment(u, st, e) = IF Cached(st, e) THEN ComponentsEmitted(w, st, e, {})
                                 ELSE [w EXCEPT !.asks = @ \cup {d}]
  BY DEF SetEnvironment
<1>5. CompsOf(st, e) \subseteq Comp /\ u.selected \notin CompsOf(st, e)
  BY Sorts DEF CompsOf
<1> HIDE DEF c, b, d
<1>6. /\ w \in Page /\ w.asks = c.asks \cup {b} /\ w.environment = e
      /\ w.page = c.page /\ w.loading = c.loading /\ w.shown = c.shown
      /\ w.envAudit = c.envAudit /\ w.envLeak = c.envLeak /\ w.selected = c.selected
      /\ w.compAudit = c.compAudit /\ w.compHeard = c.compHeard
      /\ w.compLeaks = c.compLeaks /\ w.workflow = c.workflow /\ w.view = c.view
  <2> DEFINE y == [c EXCEPT !.environment = e]
             x == [y EXCEPT !.envHeard = FALSE]
  <2>1. c.asks \cup {b} \in SUBSET Ask
    BY <1>1, <1>2 DEF Page
  <2>2. /\ y \in Page /\ y.asks = c.asks /\ y.environment = e
        /\ y.page = c.page /\ y.loading = c.loading /\ y.shown = c.shown
        /\ y.envAudit = c.envAudit /\ y.envLeak = c.envLeak /\ y.selected = c.selected
        /\ y.compAudit = c.compAudit /\ y.compHeard = c.compHeard
        /\ y.compLeaks = c.compLeaks /\ y.workflow = c.workflow /\ y.view = c.view
    BY <1>1 DEF Page
  <2>3. w = [x EXCEPT !.asks = c.asks \cup {b}]
    BY <1>1 DEF Page
  <2> HIDE DEF y
  <2>4. /\ x \in Page /\ x.asks = y.asks /\ x.environment = y.environment
        /\ x.page = y.page /\ x.loading = y.loading /\ x.shown = y.shown
        /\ x.envAudit = y.envAudit /\ x.envLeak = y.envLeak /\ x.selected = y.selected
        /\ x.compAudit = y.compAudit /\ x.compHeard = y.compHeard
        /\ x.compLeaks = y.compLeaks /\ x.workflow = y.workflow /\ x.view = y.view
    BY <2>2, ZenonT(40) DEF Page
  <2> HIDE DEF x
  <2> QED
    BY <2>1, <2>2, <2>3, <2>4, WithoutIs
<1> HIDE DEF w
<1>7. Grown(c.asks, u.asks)
  BY <1>1 DEF Grown
<1>8. Grown(w.asks, c.asks) /\ Pending(w.asks, "envAudit", e, 0)
  BY <1>2, <1>6, GrownByOne
<1>9. Grown(w.asks, u.asks)
  BY <1>7, <1>8, GrownIsOrder
<1>10. Follows(w, u)
  BY <1>1, <1>6, <1>9 DEF Follows
<1>11. CASE Cached(st, e)
  <2> DEFINE v == ComponentsEmitted(w, st, e, {})
  <2>1. /\ Follows(v, w) /\ v.environment = w.environment
        /\ CompsOf(st, e) = {} => v = w
        /\ CompsOf(st, e) # {} =>
                  /\ ~v.loading
                  /\ v.shown = [x \in Comp |-> IF x \in CompsOf(st, e) THEN st[x] ELSE 0]
                  /\ v.workflow = w.workflow
    BY <1>1, <1>5, <1>6, ComponentsEmittedIs
  <2> HIDE DEF v
  <2>2. Follows(v, u)
    BY <1>10, <2>1, FollowsIsOrder
  <2>3. Pending(v.asks, "envAudit", e, 0)
    BY <1>8, <2>1 DEF Follows, Grown
  <2> QED
    BY <1>1, <1>4, <1>6, <1>11, <2>1, <2>2, <2>3 DEF v
<1>12. CASE ~Cached(st, e)
  <2> DEFINE v == [w EXCEPT !.asks = @ \cup {d}]
  <2>1. /\ v \in Page /\ v.asks = w.asks \cup {d} /\ v.environment = w.environment
        /\ v.page = w.page /\ v.loading = w.loading /\ v.shown = w.shown
        /\ v.envAudit = w.envAudit /\ v.envLeak = w.envLeak /\ v.selected = w.selected
        /\ v.compAudit = w.compAudit /\ v.compHeard = w.compHeard
        /\ v.compLeaks = w.compLeaks /\ v.workflow = w.workflow /\ v.view = w.view
    BY <1>3, <1>6 DEF Page
  <2> HIDE DEF v
  <2>2. Grown(v.asks, w.asks) /\ Pending(v.asks, "comps", e, 0)
    BY <1>3, <2>1, GrownByOne
  <2>3. Follows(v, w)
    BY <2>1, <2>2 DEF Follows
  <2>4. Follows(v, u)
    BY <1>10, <2>3, FollowsIsOrder
  <2>5. Pending(v.asks, "envAudit", e, 0)
    BY <1>8, <2>2 DEF Grown
  <2> QED
    BY <1>1, <1>4, <1>6, <1>12, <2>1, <2>2, <2>4, <2>5 DEF v
<1> QED
  BY <1>11, <1>12

\* The page of all components is loaded, and a page that looks for its
\* environment sets it up.
EmittedTo(v, u, st, f) ==
  LET e == u.page
      comps == CompsOf(st, e)
  IN  /\ Follows(v, u) /\ v.workflow = u.workflow
      /\ u.page = All => /\ ~v.loading /\ v.shown = u.shown
                         /\ v.environment = u.environment /\ v.envHeard = u.envHeard
      /\ Looks(u, st, f) =>
           /\ v.environment = e /\ Pending(v.asks, "envAudit", e, 0)
           /\ IF Cached(st, e) /\ comps # {}
              THEN /\ ~v.loading
                   /\ v.shown = [c \in Comp |-> IF c \in comps THEN st[c] ELSE 0]
              ELSE v.loading = u.loading /\ v.shown = u.shown
           /\ ~Cached(st, e) => Pending(v.asks, "comps", e, 0)
      /\ u.page # All /\ ~Looks(u, st, f) => v = u

LEMMA EmittedIs ==
  ASSUME NEW u \in Page, NEW st \in [Entity -> Versions], NEW f,
         Looks(u, st, f) => u.selected = None
  PROVE  EmittedTo(Emitted(u, st, f), u, st, f)
<1>1. CASE u.page = All
  <2> DEFINE v == [u EXCEPT !.loading = FALSE]
  <2>2. Emitted(u, st, f) = v /\ ~Looks(u, st, f)
    BY <1>1, Sorts DEF Emitted, Looks
  <2>3. /\ v \in Page /\ v.asks = u.asks /\ v.loading = FALSE /\ v.shown = u.shown
        /\ v.page = u.page /\ v.environment = u.environment
        /\ v.envAudit = u.envAudit /\ v.envHeard = u.envHeard
        /\ v.envLeak = u.envLeak /\ v.selected = u.selected /\ v.compAudit = u.compAudit
        /\ v.compHeard = u.compHeard /\ v.compLeaks = u.compLeaks /\ v.view = u.view
        /\ v.workflow = u.workflow
    BY DEF Page
  <2> HIDE DEF v
  <2>4. Follows(v, u)
    BY <2>3, GrownIsOrder DEF Follows
  <2> QED
    BY <1>1, <2>2, <2>3, <2>4 DEF EmittedTo
<1>2. CASE Looks(u, st, f)
  <2>1. u.page \in Env /\ u.selected = None /\ u.page # All
    BY <1>2, Sorts DEF Looks
  <2>2. Emitted(u, st, f) = SetEnvironment(u, st, u.page)
    BY <1>2, <2>1 DEF Emitted
  <2> DEFINE v == SetEnvironment(u, st, u.page)
             comps == CompsOf(st, u.page)
  <2>3. /\ Follows(v, u) /\ v.workflow = u.workflow
        /\ v.environment = u.page /\ Pending(v.asks, "envAudit", u.page, 0)
        /\ IF Cached(st, u.page) /\ comps # {}
           THEN /\ ~v.loading
                /\ v.shown = [c \in Comp |-> IF c \in comps THEN st[c] ELSE 0]
           ELSE v.loading = u.loading /\ v.shown = u.shown
        /\ ~Cached(st, u.page) => Pending(v.asks, "comps", u.page, 0)
    BY <2>1, SetEnvironmentIs
  <2> HIDE DEF v
  <2> QED
    BY <1>2, <2>1, <2>2, <2>3 DEF EmittedTo, v
<1>3. CASE u.page # All /\ ~Looks(u, st, f)
  BY <1>3, FollowsIsOrder DEF Emitted, EmittedTo
<1> QED
  BY <1>1, <1>2, <1>3

------------------------------------------------------------------------------
(* Types, and the effects that are set up.                                 *)

LEMMA TypedByGrown ==
  ASSUME NEW A, NEW B, AsksTyped(A), Grown(B, A)
  PROVE  AsksTyped(B)
<1> SUFFICES ASSUME NEW b \in B
             PROVE  /\ b.kind \in {"comps", "envAudit"} => b.of \in Env
                    /\ b.kind \in {"compAudit", "run"} => b.of \in Comp
                    /\ \A o \in Obj : o \notin Asked(b) => b.data[o] = 0
  BY DEF AsksTyped
<1>1. CASE NewFor(b)
  BY <1>1 DEF NewFor
<1>2. CASE \E a \in A : b.kind = a.kind /\ b.of = a.of /\ b.data = a.data
  <2>1. PICK a \in A : b.kind = a.kind /\ b.of = a.of /\ b.data = a.data
    BY <1>2
  <2>2. Asked(b) = Asked(a)
    BY <2>1 DEF Asked
  <2> QED
    BY <2>1, <2>2 DEF AsksTyped
<1> QED
  BY <1>1, <1>2 DEF Grown

PageShape(u, st, f) ==
  u \in Page /\ AsksTyped(u.asks) /\ PageOK(u, st, f) /\ SelectionOK(u)

\* A component is selected on the page of its environment.
LEMMA SelectedIsHere ==
  ASSUME NEW u, NEW st, NEW f, PageShape(u, st, f), u.selected # None
  PROVE  /\ u.selected \in Comp /\ u.page \in Env /\ u.environment = u.page
         /\ Owner[u.selected] = u.environment /\ u.shown[u.selected] > 0
         /\ st[u.selected] > 0
BY Sorts DEF PageShape, Page, PageOK, SelectionOK

LEMMA EmittedShape ==
  ASSUME NEW u, NEW st \in [Entity -> Versions], NEW f, PageShape(u, st, f)
  PROVE  /\ Looks(u, st, f) => u.selected = None
         /\ PageShape(Emitted(u, st, f), st, f)
<1> DEFINE v == Emitted(u, st, f)
           comps == CompsOf(st, u.page)
<1>1. u \in Page
  BY DEF PageShape
<1>2. Looks(u, st, f) => u.selected = None
  BY SelectedIsHere DEF Looks
<1>3. /\ Follows(v, u) /\ v.workflow = u.workflow
      /\ u.page = All => /\ ~v.loading /\ v.shown = u.shown
                         /\ v.environment = u.environment /\ v.envHeard = u.envHeard
      /\ Looks(u, st, f) =>
           /\ v.environment = u.page
           /\ IF Cached(st, u.page) /\ comps # {}
              THEN v.shown = [c \in Comp |-> IF c \in comps THEN st[c] ELSE 0]
              ELSE v.shown = u.shown
      /\ u.page # All /\ ~Looks(u, st, f) => v = u
  <2>1. EmittedTo(v, u, st, f)
    BY <1>1, <1>2, EmittedIs
  <2> QED
    BY <2>1 DEF EmittedTo
<1> HIDE DEF v
<1>4. v \in Page /\ AsksTyped(v.asks) /\ v.page = u.page /\ v.selected = u.selected
  BY <1>3, TypedByGrown DEF Follows, PageShape
<1>5. CASE u.page = All
  <2>1. u.selected = None /\ v.page \notin Env
    BY <1>4, <1>5, SelectedIsHere, Sorts
  <2>2. PageOK(v, st, f)
    BY <1>3, <1>4, <1>5, <2>1, Sorts DEF PageOK, PageShape
  <2>3. SelectionOK(v)
    BY <1>3, <1>4, <2>1 DEF SelectionOK, PageShape
  <2> QED
    BY <1>2, <1>4, <2>2, <2>3 DEF PageShape, v
<1>6. CASE Looks(u, st, f)
  <2>1. u.selected = None /\ u.page \in Env /\ f # "none" /\ u.page # None
    BY <1>2, <1>6, Sorts DEF Looks
  <2>2. \A c \in Comp : v.shown[c] > 0 => st[c] > 0 /\ Owner[c] = v.environment
    <3>1. CASE Cached(st, u.page) /\ comps # {}
      BY <1>3, <1>6, <3>1 DEF CompsOf
    <3>2. CASE ~(Cached(st, u.page) /\ comps # {})
      <4>1. \A c \in Comp : u.shown[c] > 0 => Owner[c] = u.environment /\ st[c] > 0
        BY <2>1 DEF PageShape, PageOK
      <4>2. \A c \in Comp : Owner[c] # None
        BY Sorts
      <4>3. u.environment # None => u.environment = u.page
        BY <2>1 DEF PageShape, PageOK
      <4> QED
        BY <1>3, <1>6, <3>2, <4>1, <4>2, <4>3
    <3> QED
      BY <3>1, <3>2
  <2>3. PageOK(v, st, f)
    BY <1>3, <1>4, <1>6, <2>1, <2>2 DEF PageOK
  <2>4. SelectionOK(v)
    BY <1>3, <1>4, <2>1 DEF SelectionOK, PageShape
  <2> QED
    BY <1>2, <1>4, <2>3, <2>4 DEF PageShape, v
<1>7. CASE u.page # All /\ ~Looks(u, st, f)
  BY <1>2, <1>3, <1>7 DEF v
<1> QED
  BY <1>5, <1>6, <1>7

LEMMA ComponentsEmittedShape ==
  ASSUME NEW u, NEW st \in [Entity -> Versions], NEW f, NEW e \in Env, NEW changed,
         PageShape(u, st, f)
  PROVE  PageShape(ComponentsEmitted(u, st, e, changed), st, f)
<1> DEFINE v == ComponentsEmitted(u, st, e, changed)
           comps == CompsOf(st, e)
<1>1. u \in Page
  BY DEF PageShape
<1>2. /\ Follows(v, u) /\ v.environment = u.environment
      /\ comps = {} \/ u.environment # e => v = u
      /\ comps # {} /\ u.environment = e =>
           /\ v.shown = [c \in Comp |-> IF c \in comps THEN st[c] ELSE 0]
           /\ u.selected \notin comps => v.workflow = u.workflow
           /\ u.selected \in comps => v.workflow = RunOf(u.selected, st[u.selected])
  BY <1>1, ComponentsEmittedIs
<1> HIDE DEF v
<1>3. v \in Page /\ AsksTyped(v.asks) /\ v.page = u.page /\ v.selected = u.selected
  BY <1>2, TypedByGrown DEF Follows, PageShape
<1>4. CASE comps = {} \/ u.environment # e
  BY <1>2, <1>4 DEF v
<1>5. CASE comps # {} /\ u.environment = e
  <2>1. \A c \in Comp : v.shown[c] > 0 => st[c] > 0 /\ Owner[c] = e
    BY <1>2, <1>5 DEF CompsOf
  <2>2. PageOK(v, st, f)
    BY <1>2, <1>3, <1>5, <2>1 DEF PageOK, PageShape
  <2>3. SelectionOK(v)
    <3>1. CASE u.selected = None
      <4>1. u.selected \notin comps
        BY <3>1, Sorts DEF CompsOf
      <4> QED
        BY <1>2, <1>3, <1>5, <3>1, <4>1 DEF SelectionOK, PageShape
    <3>2. CASE u.selected # None
      <4>1. u.selected \in comps /\ u.selected \in Comp /\ st[u.selected] > 0 /\ u.page \in Env
        BY <1>5, <3>2, SelectedIsHere DEF CompsOf
      <4>2. v.shown[u.selected] = st[u.selected]
        BY <1>2, <1>5, <4>1
      <4> QED
        BY <1>2, <1>3, <1>5, <3>2, <4>1, <4>2 DEF SelectionOK
    <3> QED
      BY <3>1, <3>2
  <2> QED
    BY <1>3, <2>2, <2>3 DEF PageShape, v
<1> QED
  BY <1>4, <1>5

\* What the page holds stays right when the store gets more.
LEMMA MoreInStore ==
  ASSUME NEW u, NEW st, NEW tt, NEW f, NEW g, PageShape(u, st, f),
         \A o \in Entity : st[o] > 0 => tt[o] > 0, f # "none" => g # "none"
  PROVE  PageShape(u, tt, g)
BY Sorts DEF PageShape, PageOK

\* An answer is taken from the requests that are pending.
LEMMA OtherAsks ==
  ASSUME NEW u, NEW st, NEW f, PageShape(u, st, f), NEW A \in SUBSET Ask, AsksTyped(A)
  PROVE  PageShape([u EXCEPT !.asks = A], st, f)
<1> DEFINE v == [u EXCEPT !.asks = A]
<1>1. u \in Page
  BY DEF PageShape
<1>2. /\ v \in Page /\ v.asks = A /\ v.page = u.page /\ v.environment = u.environment
      /\ v.shown = u.shown /\ v.selected = u.selected /\ v.workflow = u.workflow
  BY <1>1, WithoutIs
<1> HIDE DEF v
<1>3. PageOK(v, st, f) /\ SelectionOK(v)
  BY <1>2 DEF PageShape, PageOK, SelectionOK
<1> QED
  BY <1>2, <1>3 DEF PageShape, v

WireMessage == [obj : Obj, ver : Versions]

DataTypes ==
  /\ saved \in [Obj -> Versions] /\ db \in [Obj -> Versions]
  /\ wire \in Seq(WireMessage) /\ WireTyped(wire) /\ open \in BOOLEAN
  /\ store \in [Entity -> Versions] /\ fetched \in {"none", "teams", "all"}
  /\ behind \subseteq Obj /\ late \subseteq {"env", "comp", "run", "cache"}
  /\ revisited \in BOOLEAN
  /\ events \in 0..MaxEvents

Shape == DataTypes /\ PageShape(ui, store, fetched)

LEMMA InitShape == Init => Shape
<1> SUFFICES ASSUME Init PROVE Shape
  OBVIOUS
<1> DEFINE a == NewAsk("teams", None)
<1>1. a \in Ask /\ a.kind = "teams" /\ \A o \in Obj : a.data[o] = 0
  BY NewAskIs DEF Kinds
<1> HIDE DEF a
<1>2. ui.asks = {a} /\ ui.selected = None /\ ui.workflow = NoRun /\ ui.environment = None
      /\ \A c \in Comp : ui.shown[c] = 0
  BY DEF Init, a
<1>3. ui \in Page
  <2>1. [c \in Comp |-> 0] \in [Comp -> Versions] /\ [r \in EnvRow |-> 0] \in [EnvRow -> Versions]
        /\ [r \in CompRow |-> 0] \in [CompRow -> Versions]
    BY Sorts
  <2> QED
    BY <1>1, <2>1 DEF Init, Page, a
<1>4. AsksTyped(ui.asks)
  BY <1>1, <1>2 DEF AsksTyped
<1>5. PageOK(ui, store, fetched) /\ SelectionOK(ui)
  BY <1>2 DEF PageOK, SelectionOK
<1>6. DataTypes
  <2>1. Start \in [Obj -> Versions] /\ [o \in Entity |-> 0] \in [Entity -> Versions]
    BY Sorts, LiveViewAssumption DEF Versions
  <2>2. MaxEvents \in Nat
    BY LiveViewAssumption
  <2>3. <<>> \in Seq(WireMessage) /\ WireTyped(<<>>)
    BY DEF WireTyped
  <2>4. wire \in Seq(WireMessage) /\ WireTyped(wire)
    BY <2>3 DEF Init
  <2>5. events \in 0..MaxEvents
    BY <2>2 DEF Init
  <2> QED
    BY <2>1, <2>4, <2>5 DEF Init, DataTypes
<1> QED
  BY <1>3, <1>4, <1>5, <1>6 DEF Shape, PageShape

LEMMA NextIs ==
  ASSUME Next
  PROVE  \/ \E o \in Obj : Save(o) /\ (o \in Env => saved[o] < Len(DagAt[o]))
                       /\ (o \in Comp /\ saved[o] = 0 => o \in Dag(Owner[o], db[Owner[o]]))
         \/ \E c \in Comp : BatchDelete(c) \/ Select(c)
         \/ \E o \in Obj : Commit(o)
         \/ Disconnect \/ Reconnect \/ Deliver
         \/ \E a \in ui.asks : \/ Read(a) \/ GetTeams(a) \/ GetComponents(a)
                               \/ GetEnvironment(a) \/ GetComponent(a) \/ GetWorkflowData(a)
         \/ \E p \in Env \cup {All} : Visit(p)
BY Sorts DEF Next, SaveEnvironment, SaveComponent, SaveEnvReconcile, SaveCompReconcile

LEMMA EventType == events \in 0..MaxEvents /\ Event => events' \in 0..MaxEvents
BY LiveViewAssumption DEF Event

LEMMA SaveShape ==
  ASSUME Shape, NEW o \in Obj, Save(o)
  PROVE  Shape'
<1>1. saved[o] \in Nat /\ saved[o] + 1 \in Versions
  BY LiveViewAssumption DEF Shape, DataTypes, Save, Versions
<1>2. saved' = [saved EXCEPT ![o] = saved[o] + 1] /\ saved' \in [Obj -> Versions]
  BY <1>1 DEF Save, Shape, DataTypes
<1>3. saved'[o] = saved[o] + 1
  BY <1>2 DEF Shape, DataTypes
<1>4. wire' \in Seq(WireMessage) /\ WireTyped(wire')
  <2>1. CASE open
    <3> DEFINE m == [obj |-> o, ver |-> saved[o] + 1]
    <3>1. m \in WireMessage /\ m.ver > 0
      BY <1>1 DEF WireMessage
    <3>2. wire' = Append(wire, m)
      BY <2>1, <1>3 DEF Save
    <3> HIDE DEF m
    <3> QED
      BY <3>1, <3>2 DEF Shape, DataTypes, WireTyped
  <2>2. CASE ~open
    BY <2>2 DEF Save, Shape, DataTypes
  <2> QED
    BY <2>1, <2>2
<1>5. behind' \subseteq Obj
  BY DEF Save, Shape, DataTypes
<1>6. UNCHANGED <<db, open, store, fetched, ui, late, revisited>> /\ events' \in 0..MaxEvents
  BY EventType DEF Save, Shape, DataTypes
<1> QED
  BY <1>2, <1>4, <1>5, <1>6 DEF Shape, DataTypes

LEMMA CommitShape ==
  ASSUME Shape, NEW o \in Obj, Commit(o)
  PROVE  Shape'
BY DEF Shape, DataTypes, Commit

LEMMA BatchDeleteShape ==
  ASSUME Shape, NEW c \in Comp, BatchDelete(c)
  PROVE  Shape'
BY Sorts DEF Shape, DataTypes, BatchDelete

LEMMA DisconnectShape ==
  ASSUME Shape, Disconnect \/ Reconnect
  PROVE  Shape'
<1>1. CASE Disconnect
  <2>1. \A i \in DOMAIN wire : wire[i].obj \in Obj
    <3>1. wire \in Seq(WireMessage)
      BY DEF Shape, DataTypes
    <3>2. \A i \in DOMAIN wire : wire[i] \in WireMessage
      BY <3>1, ElementOfSeq, LenProperties
    <3> QED
      BY <3>2 DEF WireMessage
  <2>2. behind' \subseteq Obj /\ wire' = <<>>
    BY <1>1, <2>1 DEF Disconnect, Shape, DataTypes
  <2>3. UNCHANGED <<saved, db, store, fetched, ui, late, revisited>> /\ events' \in 0..MaxEvents
        /\ open' = FALSE
    BY <1>1, EventType DEF Disconnect, Shape, DataTypes
  <2>4. wire' \in Seq(WireMessage) /\ WireTyped(wire')
    BY <2>2 DEF WireTyped
  <2> QED
    BY <2>2, <2>3, <2>4 DEF Shape, DataTypes
<1>2. CASE Reconnect
  BY <1>2 DEF Reconnect, Shape, DataTypes
<1> QED
  BY <1>1, <1>2

LEMMA HeadOf ==
  ASSUME NEW w \in Seq(WireMessage), w # <<>>
  PROVE  /\ Head(w) = w[1] /\ w[1] \in WireMessage /\ 1 \in DOMAIN w
         /\ Tail(w) \in Seq(WireMessage)
         /\ \A i \in DOMAIN Tail(w) : Tail(w)[i] = w[i + 1] /\ i + 1 \in DOMAIN w
         /\ \A i \in DOMAIN w : i # 1 => i - 1 \in DOMAIN Tail(w) /\ Tail(w)[i - 1] = w[i]
<1>1. Len(w) \in Nat /\ Len(w) >= 1 /\ DOMAIN w = 1..Len(w)
  BY EmptySeq, LenProperties
<1>2. Tail(w) \in Seq(WireMessage) /\ Len(Tail(w)) = Len(w) - 1 /\ Head(w) = w[1]
  BY HeadTailProperties, <1>1
<1>3. DOMAIN Tail(w) = 1..(Len(w) - 1)
  BY <1>2, LenProperties
<1>4. \A i \in 1..(Len(w) - 1) : Tail(w)[i] = w[i + 1]
  BY <1>1
<1>5. w[1] \in WireMessage
  BY <1>1, ElementOfSeq
<1> QED
  BY <1>1, <1>2, <1>3, <1>4, <1>5

LEMMA HeadIs ==
  ASSUME Shape, wire # <<>>
  PROVE  /\ Head(wire) = wire[1] /\ Head(wire).obj \in Obj /\ Head(wire).ver \in Versions
         /\ Head(wire).ver > 0 /\ 1 \in DOMAIN wire
         /\ Tail(wire) \in Seq(WireMessage)
         /\ \A i \in DOMAIN Tail(wire) : Tail(wire)[i] = wire[i + 1] /\ i + 1 \in DOMAIN wire
         /\ \A i \in DOMAIN wire : i # 1 => i - 1 \in DOMAIN Tail(wire)
                                            /\ Tail(wire)[i - 1] = wire[i]
<1>1. wire \in Seq(WireMessage)
  BY DEF Shape, DataTypes
<1>2. wire[1].ver > 0
  BY <1>1, HeadOf DEF Shape, DataTypes, WireTyped
<1> QED
  BY <1>1, <1>2, HeadOf DEF WireMessage

LEMMA CacheLateType ==
  ASSUME late \subseteq {"env", "comp", "run", "cache"}, NEW u, NEW st, NEW f
  PROVE  CacheLate(u, st, f) \subseteq {"env", "comp", "run", "cache"}
BY DEF CacheLate

LEMMA AuditHeardShape ==
  ASSUME Shape, NEW r \in Row, NEW v \in Versions
  PROVE  PageShape(AuditHeard(r, v), store, fetched)
<1>0. ui \in Page
  BY DEF Shape, PageShape
<1>1. CASE ~Hears(ui, r)
  BY <1>1 DEF AuditHeard, Shape
<1>2. CASE Hears(ui, r) /\ r \in EnvRow
  <2> DEFINE u == [ui EXCEPT !.envAudit[r] = v]
  <2>1. /\ u \in Page /\ u.asks = ui.asks /\ u.page = ui.page /\ u.shown = ui.shown
        /\ u.environment = ui.environment /\ u.selected = ui.selected
        /\ u.workflow = ui.workflow
    BY <1>0, <1>2 DEF Page
  <2>2. AuditHeard(r, v) = u
    BY <1>2 DEF AuditHeard
  <2> HIDE DEF u
  <2> QED
    BY <2>1, <2>2 DEF Shape, PageShape, PageOK, SelectionOK
<1>3. CASE Hears(ui, r) /\ r \notin EnvRow
  <2> DEFINE u == [ui EXCEPT !.compAudit[r] = v]
  <2>0. r \in CompRow
    BY <1>3 DEF Row
  <2>1. /\ u \in Page /\ u.asks = ui.asks /\ u.page = ui.page /\ u.shown = ui.shown
        /\ u.environment = ui.environment /\ u.selected = ui.selected
        /\ u.workflow = ui.workflow
    BY <1>0, <2>0 DEF Page
  <2>2. AuditHeard(r, v) = u
    BY <1>3 DEF AuditHeard
  <2> HIDE DEF u
  <2> QED
    BY <2>1, <2>2 DEF Shape, PageShape, PageOK, SelectionOK
<1> QED
  BY <1>1, <1>2, <1>3

LEMMA DeliverShape ==
  ASSUME Shape, Deliver
  PROVE  Shape'
<1> DEFINE o == Head(wire).obj
           v == Head(wire).ver
           st == IF o \in Entity THEN [store EXCEPT ![o] = v] ELSE store
<1>1. o \in Obj /\ v \in Versions /\ v > 0 /\ wire # <<>>
  BY HeadIs DEF Deliver
<1>2. wire' = Tail(wire) /\ wire' \in Seq(WireMessage) /\ WireTyped(wire')
  BY HeadIs DEF Deliver, Shape, DataTypes, WireTyped
<1>3. /\ store' = st /\ fetched' = fetched
      /\ ui' = IF o \in Env THEN Emitted(ui, st, fetched)
               ELSE IF o \in Comp THEN ComponentsEmitted(ui, st, Owner[o], {o})
               ELSE AuditHeard(o, v)
      /\ behind' \subseteq behind
      /\ late' = (IF o \in Env THEN CacheLate(ui, st, fetched) ELSE late)
      /\ UNCHANGED <<saved, db, open, revisited, events>>
  BY DEF Deliver
<1>4. st \in [Entity -> Versions] /\ \A x \in Entity : store[x] > 0 => st[x] > 0
  BY <1>1 DEF Shape, DataTypes
<1>5. PageShape(ui, st, fetched)
  BY <1>4, MoreInStore DEF Shape
<1> HIDE DEF st, o, v
<1>6. PageShape(ui', store', fetched')
  <2>1. CASE o \in Env
    BY <1>3, <1>4, <1>5, <2>1, EmittedShape
  <2>2. CASE o \in Comp
    <3>1. Owner[o] \in Env /\ o \notin Env
      BY <2>2, Sorts
    <3> QED
      BY <1>3, <1>4, <1>5, <2>2, <3>1, ComponentsEmittedShape
  <2>3. CASE o \in Row
    <3>1. o \notin Env /\ o \notin Comp /\ st = store
      BY <2>3, Sorts DEF st, Entity
    <3> QED
      BY <1>1, <1>3, <2>3, <3>1, AuditHeardShape
  <2> QED
    BY <1>1, <2>1, <2>2, <2>3 DEF Obj, Entity
<1>7. late' \subseteq {"env", "comp", "run", "cache"}
  BY <1>3, CacheLateType DEF Shape, DataTypes
<1> QED
  BY <1>2, <1>3, <1>4, <1>6, <1>7 DEF Shape, DataTypes

------------------------------------------------------------------------------

LEMMA AskIs ==
  ASSUME Shape, NEW a \in ui.asks
  PROVE  /\ a \in Ask /\ ui.asks \ {a} \in SUBSET Ask /\ AsksTyped(ui.asks \ {a})
         /\ ui.asks \in SUBSET Ask /\ a.data \in [Obj -> Versions]
         /\ a.kind \in {"comps", "envAudit"} => a.of \in Env
         /\ a.kind \in {"compAudit", "run"} => a.of \in Comp
         /\ \A o \in Obj : o \notin Asked(a) => a.data[o] = 0
BY DEF Shape, PageShape, Page, AsksTyped, Ask

LEMMA AskedIs ==
  ASSUME Shape, NEW a \in ui.asks
  PROVE  /\ Asked(a) \subseteq Obj
         /\ a.kind = "teams" => Asked(a) = Env
         /\ a.kind = "allTeams" => Asked(a) = Entity
         /\ a.kind = "comps" => Asked(a) = {c \in Comp : Owner[c] = a.of}
         /\ a.kind \in {"envAudit", "compAudit"} => Asked(a) = {r \in Row : Owner[r] = a.of}
         /\ a.kind = "run" => Asked(a) = {}
<1>1. a.kind \in Kinds
  BY AskIs DEF Ask
<1> QED
  BY <1>1, Sorts DEF Asked, Teams, ComponentsOfEnv, AuditList, Kinds

LEMMA FetchedType ==
  ASSUME Shape, NEW a \in ui.asks
  PROVE  /\ Fetched(a) \in [Entity -> Versions]
         /\ \A o \in Entity : store[o] > 0 => Fetched(a)[o] > 0
<1>1. a.data \in [Obj -> Versions]
  BY AskIs
<1> QED
  BY <1>1, Sorts DEF Fetched, Shape, DataTypes

LEMMA OvertakenType ==
  ASSUME Shape, NEW a \in ui.asks, Overtaken(a)
  PROVE  behind' \subseteq Obj
<1>1. {o \in Asked(a) : a.data[o] # saved[o] /\ ~UnderWay(o)} \subseteq Obj
  BY AskedIs
<1> QED
  BY <1>1 DEF Overtaken, Shape, DataTypes

LEMMA ReadShape ==
  ASSUME Shape, NEW a \in ui.asks, Read(a)
  PROVE  Shape'
<1> DEFINE d == [o \in Obj |-> IF o \in Asked(a) THEN db[o] ELSE 0]
           b == [a EXCEPT !.read = TRUE, !.data = d]
           A == (ui.asks \ {a}) \cup {b}
<1>1. d \in [Obj -> Versions]
  BY Sorts DEF Shape, DataTypes
<1>2. \A o \in Obj : o \notin Asked(a) => d[o] = 0
  OBVIOUS
<1>3. ui' = [ui EXCEPT !.asks = A]
  BY DEF Read
<1> HIDE DEF d
<1>4. b \in Ask /\ b.kind = a.kind /\ b.of = a.of /\ b.data = d
  BY <1>1, AskIs DEF Ask
<1> HIDE DEF b
<1>5. Asked(b) = Asked(a)
  BY <1>4 DEF Asked
<1>6. A \in SUBSET Ask
  BY <1>4, AskIs
<1>7. AsksTyped(A)
  BY <1>2, <1>4, <1>5, AskIs DEF AsksTyped
<1> HIDE DEF A
<1>8. PageShape(ui', store, fetched)
  BY <1>3, <1>6, <1>7, OtherAsks DEF Shape
<1>9. UNCHANGED <<saved, db, wire, open, store, fetched, behind, late, revisited, events>>
  BY DEF Read
<1> QED
  BY <1>8, <1>9 DEF Shape, DataTypes

LEMMA GetTeamsShape ==
  ASSUME Shape, NEW a \in ui.asks, GetTeams(a)
  PROVE  /\ Shape' /\ PageShape(Remade(a), store', fetched')
         /\ Looks(Remade(a), store', fetched') => Remade(a).selected = None
<1> DEFINE u == Remade(a)
<1>0. PageShape(Without(a), store, fetched)
  BY AskIs, OtherAsks DEF Shape, Without
<1>1. PageShape(u, store, fetched)
  <2>1. /\ u \in Page /\ u.asks = ui.asks \ {a} /\ u.page = ui.page
        /\ u.environment = ui.environment /\ u.shown = ui.shown
        /\ u.selected = ui.selected /\ u.workflow = ui.workflow
    BY AskIs, RemadeIs DEF Shape, PageShape
  <2>2. /\ Without(a).asks = ui.asks \ {a} /\ Without(a).page = ui.page
        /\ Without(a).environment = ui.environment /\ Without(a).shown = ui.shown
        /\ Without(a).selected = ui.selected /\ Without(a).workflow = ui.workflow
    BY AskIs, WithoutIs DEF Shape, PageShape, Without
  <2> HIDE DEF u
  <2>3. PageOK(u, store, fetched) /\ SelectionOK(u)
    BY <1>0, <2>1, <2>2 DEF PageShape, PageOK, SelectionOK
  <2> QED
    BY <1>0, <2>1, <2>2, <2>3 DEF PageShape
<1>2. /\ store' = Fetched(a) /\ fetched' \in {"teams", "all"} /\ ui' = Emitted(u, store', fetched')
      /\ late' = CacheLate(ui, store', fetched') /\ Overtaken(a)
      /\ UNCHANGED <<saved, db, wire, open, revisited, events>>
  BY DEF GetTeams
<1> HIDE DEF u
<1>3. PageShape(u, store', fetched')
  BY <1>1, <1>2, FetchedType, MoreInStore
<1>4. store' \in [Entity -> Versions]
  BY <1>2, FetchedType
<1>5. PageShape(ui', store', fetched') /\ (Looks(u, store', fetched') => u.selected = None)
  BY <1>2, <1>3, <1>4, EmittedShape
<1>6. behind' \subseteq Obj
  BY <1>2, OvertakenType
<1>7. late' \subseteq {"env", "comp", "run", "cache"}
  BY <1>2, CacheLateType DEF Shape, DataTypes
<1> QED
  BY <1>2, <1>3, <1>4, <1>5, <1>6, <1>7 DEF Shape, DataTypes, u

LEMMA GetComponentsShape ==
  ASSUME Shape, NEW a \in ui.asks, GetComponents(a)
  PROVE  Shape'
<1> DEFINE u == Without(a)
           changed == {c \in Comp : a.data[c] > 0}
<1>1. PageShape(u, store, fetched)
  BY AskIs, OtherAsks DEF Shape, Without
<1>2. /\ store' = Fetched(a) /\ ui' = ComponentsEmitted(u, store', a.of, changed)
      /\ late' \subseteq late /\ Overtaken(a) /\ a.of \in Env
      /\ UNCHANGED <<saved, db, wire, open, fetched, revisited, events>>
  BY AskIs DEF GetComponents
<1> HIDE DEF u, changed
<1>3. PageShape(u, store', fetched)
  BY <1>1, <1>2, FetchedType, MoreInStore
<1>4. store' \in [Entity -> Versions]
  BY <1>2, FetchedType
<1>5. PageShape(ui', store', fetched)
  BY <1>2, <1>3, <1>4, ComponentsEmittedShape
<1>6. behind' \subseteq Obj
  BY <1>2, OvertakenType
<1> QED
  BY <1>2, <1>4, <1>5, <1>6 DEF Shape, DataTypes

\* What the answers to the other requests do to the page.
LEMMA GetEnvironmentIs ==
  ASSUME Shape, NEW a \in ui.asks, GetEnvironment(a)
  PROVE  /\ ui' \in Page /\ ui'.asks = ui.asks \ {a} /\ a.of \in Env
         /\ ui'.page = ui.page /\ ui'.environment = ui.environment /\ ui'.loading = ui.loading
         /\ ui'.shown = ui.shown /\ ui'.envAudit = [r \in EnvRow |-> a.data[r]]
         /\ ui'.envHeard = (ui.envHeard \/ a.live) /\ ui'.envLeak = (ui.envLeak \/ ~a.live)
         /\ ui'.selected = ui.selected /\ ui'.compAudit = ui.compAudit
         /\ ui'.compHeard = ui.compHeard /\ ui'.compLeaks = ui.compLeaks
         /\ ui'.workflow = ui.workflow /\ ui'.view = ui.view
<1> DEFINE A == ui.asks \ {a}
           d == [r \in EnvRow |-> a.data[r]]
           u == Without(a)
           h == ui.envHeard \/ a.live
           l == ui.envLeak \/ ~a.live
<1>0. ui \in Page /\ a.live \in BOOLEAN
  BY AskIs DEF Shape, PageShape, Ask
<1>1. A \in SUBSET Ask /\ d \in [EnvRow -> Versions] /\ h \in BOOLEAN /\ l \in BOOLEAN
  <2>1. A \in SUBSET Ask /\ a.data \in [Obj -> Versions]
    BY AskIs
  <2>2. d \in [EnvRow -> Versions]
    BY <2>1, Sorts
  <2>3. ui.envHeard \in BOOLEAN /\ ui.envLeak \in BOOLEAN
    BY <1>0 DEF Page
  <2> QED
    BY <1>0, <2>1, <2>2, <2>3
<1>2. /\ u \in Page /\ u.asks = A
      /\ u.page = ui.page /\ u.environment = ui.environment /\ u.loading = ui.loading
      /\ u.shown = ui.shown /\ u.envAudit = ui.envAudit /\ u.envHeard = ui.envHeard
      /\ u.envLeak = ui.envLeak /\ u.selected = ui.selected
      /\ u.compAudit = ui.compAudit /\ u.compHeard = ui.compHeard
      /\ u.compLeaks = ui.compLeaks /\ u.workflow = ui.workflow /\ u.view = ui.view
  BY <1>0, <1>1, WithoutIs DEF Without
<1> HIDE DEF u
<1>3. ui' = [u EXCEPT !.envAudit = d, !.envHeard = h, !.envLeak = l]
  BY <1>2 DEF GetEnvironment, u
<1>4. a.of \in Env
  BY AskIs DEF GetEnvironment
<1> HIDE DEF A, d, h, l
<1>5. /\ ui' \in Page /\ ui'.asks = u.asks
      /\ ui'.page = u.page /\ ui'.environment = u.environment /\ ui'.loading = u.loading
      /\ ui'.shown = u.shown /\ ui'.envAudit = d /\ ui'.envHeard = h /\ ui'.envLeak = l
      /\ ui'.selected = u.selected /\ ui'.compAudit = u.compAudit
      /\ ui'.compHeard = u.compHeard /\ ui'.compLeaks = u.compLeaks
      /\ ui'.workflow = u.workflow /\ ui'.view = u.view
  BY <1>1, <1>2, <1>3, ZenonT(40) DEF Page
<1> QED
  BY <1>2, <1>4, <1>5 DEF A, d, h, l

LEMMA GetComponentIs ==
  ASSUME Shape, NEW a \in ui.asks, GetComponent(a)
  PROVE  /\ ui' \in Page /\ ui'.asks = ui.asks \ {a} /\ a.of \in Comp
         /\ ui'.page = ui.page /\ ui'.environment = ui.environment /\ ui'.loading = ui.loading
         /\ ui'.shown = ui.shown /\ ui'.envAudit = ui.envAudit
         /\ ui'.envHeard = ui.envHeard /\ ui'.envLeak = ui.envLeak
         /\ ui'.selected = ui.selected /\ ui'.compAudit = [r \in CompRow |-> a.data[r]]
         /\ ui'.compHeard = (ui.compHeard \/ a.live)
         /\ ui'.compLeaks = (IF a.live THEN ui.compLeaks ELSE ui.compLeaks \cup {a.of})
         /\ ui'.workflow = ui.workflow /\ ui'.view = ui.view
<1> DEFINE A == ui.asks \ {a}
           d == [r \in CompRow |-> a.data[r]]
           u == Without(a)
           h == ui.compHeard \/ a.live
           l == IF a.live THEN ui.compLeaks ELSE ui.compLeaks \cup {a.of}
<1>0. ui \in Page /\ a.live \in BOOLEAN /\ a.of \in Comp
  BY AskIs DEF Shape, PageShape, Ask, GetComponent
<1>1. A \in SUBSET Ask /\ d \in [CompRow -> Versions] /\ h \in BOOLEAN /\ l \in SUBSET Comp
  <2>1. A \in SUBSET Ask /\ a.data \in [Obj -> Versions]
    BY AskIs
  <2>2. d \in [CompRow -> Versions]
    BY <2>1, Sorts
  <2>3. h \in BOOLEAN /\ l \in SUBSET Comp
    BY <1>0 DEF Page
  <2> QED
    BY <2>1, <2>2, <2>3
<1>2. /\ u \in Page /\ u.asks = A
      /\ u.page = ui.page /\ u.environment = ui.environment /\ u.loading = ui.loading
      /\ u.shown = ui.shown /\ u.envAudit = ui.envAudit /\ u.envHeard = ui.envHeard
      /\ u.envLeak = ui.envLeak /\ u.selected = ui.selected
      /\ u.compAudit = ui.compAudit /\ u.compHeard = ui.compHeard
      /\ u.compLeaks = ui.compLeaks /\ u.workflow = ui.workflow /\ u.view = ui.view
  BY <1>0, <1>1, WithoutIs DEF Without
<1> HIDE DEF u
<1>3. ui' = [u EXCEPT !.compAudit = d, !.compHeard = h, !.compLeaks = l]
  BY <1>2 DEF GetComponent, u
<1> HIDE DEF A, d, h, l
<1>5. /\ ui' \in Page /\ ui'.asks = u.asks
      /\ ui'.page = u.page /\ ui'.environment = u.environment /\ ui'.loading = u.loading
      /\ ui'.shown = u.shown /\ ui'.envAudit = u.envAudit /\ ui'.envHeard = u.envHeard
      /\ ui'.envLeak = u.envLeak /\ ui'.selected = u.selected /\ ui'.compAudit = d
      /\ ui'.compHeard = h /\ ui'.compLeaks = l
      /\ ui'.workflow = u.workflow /\ ui'.view = u.view
  BY <1>1, <1>2, <1>3, ZenonT(40) DEF Page
<1> QED
  BY <1>0, <1>2, <1>5 DEF A, d, h, l

LEMMA GetWorkflowDataIs ==
  ASSUME Shape, NEW a \in ui.asks, GetWorkflowData(a)
  PROVE  LET run == [comp |-> a.of, ver |-> a.ver]
         IN  /\ ui' \in Page /\ ui'.asks = ui.asks \ {a} /\ run \in Run
             /\ ui'.page = ui.page /\ ui'.environment = ui.environment
             /\ ui'.loading = ui.loading /\ ui'.shown = ui.shown
             /\ ui'.envAudit = ui.envAudit /\ ui'.envHeard = ui.envHeard
             /\ ui'.envLeak = ui.envLeak /\ ui'.selected = ui.selected
             /\ ui'.compAudit = ui.compAudit /\ ui'.compHeard = ui.compHeard
             /\ ui'.compLeaks = ui.compLeaks /\ ui'.workflow = ui.workflow /\ ui'.view = run
<1> DEFINE A == ui.asks \ {a}
           run == [comp |-> a.of, ver |-> a.ver]
           u == Without(a)
<1>0. ui \in Page /\ run \in Run
  BY AskIs DEF Shape, PageShape, Ask, GetWorkflowData, Run
<1>1. A \in SUBSET Ask
  BY AskIs
<1>2. /\ u \in Page /\ u.asks = A
      /\ u.page = ui.page /\ u.environment = ui.environment /\ u.loading = ui.loading
      /\ u.shown = ui.shown /\ u.envAudit = ui.envAudit /\ u.envHeard = ui.envHeard
      /\ u.envLeak = ui.envLeak /\ u.selected = ui.selected
      /\ u.compAudit = ui.compAudit /\ u.compHeard = ui.compHeard
      /\ u.compLeaks = ui.compLeaks /\ u.workflow = ui.workflow /\ u.view = ui.view
  BY <1>0, <1>1, WithoutIs DEF Without
<1> HIDE DEF u
<1>3. ui' = [u EXCEPT !.view = run]
  BY DEF GetWorkflowData, u
<1> HIDE DEF A, run
<1>5. /\ ui' \in Page /\ ui'.asks = u.asks
      /\ ui'.page = u.page /\ ui'.environment = u.environment /\ ui'.loading = u.loading
      /\ ui'.shown = u.shown /\ ui'.envAudit = u.envAudit /\ ui'.envHeard = u.envHeard
      /\ ui'.envLeak = u.envLeak /\ ui'.selected = u.selected /\ ui'.compAudit = u.compAudit
      /\ ui'.compHeard = u.compHeard /\ ui'.compLeaks = u.compLeaks
      /\ ui'.workflow = u.workflow /\ ui'.view = run
  BY <1>0, <1>2, <1>3 DEF Page
<1> QED
  BY <1>0, <1>2, <1>5 DEF A, run

LEMMA OtherAnswersShape ==
  ASSUME Shape, NEW a \in ui.asks, GetEnvironment(a) \/ GetComponent(a) \/ GetWorkflowData(a)
  PROVE  Shape'
<1>1. /\ ui' \in Page /\ ui'.asks = ui.asks \ {a}
      /\ ui'.page = ui.page /\ ui'.environment = ui.environment /\ ui'.shown = ui.shown
      /\ ui'.selected = ui.selected /\ ui'.workflow = ui.workflow
  BY GetEnvironmentIs, GetComponentIs, GetWorkflowDataIs
<1>2. PageShape(ui', store, fetched)
  BY <1>1, AskIs DEF Shape, PageShape, PageOK, SelectionOK
<1>3. behind' \subseteq Obj
  BY OvertakenType DEF GetEnvironment, GetComponent, GetWorkflowData, Shape, DataTypes
<1>4. /\ UNCHANGED <<saved, db, wire, open, store, fetched, revisited, events>>
      /\ late' \subseteq {"env", "comp", "run", "cache"}
  BY DEF GetEnvironment, GetComponent, GetWorkflowData, Shape, DataTypes
<1> QED
  BY <1>2, <1>3, <1>4 DEF Shape, DataTypes

\* What the page is before it looks for its environment.
Entered(p) ==
  LET v == [ResetRefs(ui) EXCEPT !.page = p]
  IN  IF p = All /\ fetched # "all"
      THEN [v EXCEPT !.asks = @ \cup {NewAsk("allTeams", None)}] ELSE v

LEMMA EnteredIs ==
  ASSUME Shape, NEW p \in Env \cup {All}
  PROVE  LET w == Entered(p)
         IN  /\ w \in Page /\ Grown(w.asks, ui.asks)
             /\ w.page = p /\ w.environment = ui.environment /\ w.loading
             /\ w.shown = [c \in Comp |-> 0] /\ w.selected = None
             /\ w.workflow = NoRun
<1> DEFINE c == CleanUp(ui, "compAudit")
           v == [ResetRefs(ui) EXCEPT !.page = p]
           w == Entered(p)
           b == NewAsk("allTeams", None)
<1>0. "compAudit" \in Kinds /\ "allTeams" \in Kinds /\ ui \in Page
  BY DEF Kinds, Shape, PageShape
<1>1. /\ c \in Page
      /\ \A k, o, n : Pending(ui.asks, k, o, n) => Pending(c.asks, k, o, n)
      /\ \A x \in c.asks : \E a \in ui.asks :
              x.kind = a.kind /\ x.of = a.of /\ x.ver = a.ver /\ x.data = a.data
      /\ c.environment = ui.environment
  BY CleanUpIs, <1>0
<1>2. b \in Ask /\ NewFor(b)
  BY NewAskIs, <1>0 DEF NewFor
<1>3. w = IF p = All /\ fetched # "all" THEN [v EXCEPT !.asks = @ \cup {b}] ELSE v
  BY DEF Entered
<1>4. /\ [x \in Comp |-> 0] \in [Comp -> Versions]
      /\ [r \in EnvRow |-> 0] \in [EnvRow -> Versions]
      /\ [r \in CompRow |-> 0] \in [CompRow -> Versions]
  BY Sorts
<1>5. v = [c EXCEPT !.loading = TRUE, !.shown = [x \in Comp |-> 0], !.remade = {},
                    !.envAudit = [r \in EnvRow |-> 0], !.selected = None,
                    !.compAudit = [r \in CompRow |-> 0],
                    !.compHeard = FALSE, !.workflow = NoRun, !.page = p]
  BY <1>1 DEF ResetRefs
<1> HIDE DEF c, b, w
<1>6. /\ v \in Page /\ v.asks = c.asks /\ v.page = p /\ v.environment = c.environment
      /\ v.loading = TRUE /\ v.shown = [x \in Comp |-> 0] /\ v.selected = None
      /\ v.workflow = NoRun
  <2>1. v \in Page
    BY <1>1, <1>4, <1>5, ZenonT(40) DEF Page
  <2>2. /\ v.asks = c.asks /\ v.page = p /\ v.environment = c.environment
        /\ v.loading = TRUE
    BY <1>1, <1>5 DEF Page
  <2>3. v.shown = [x \in Comp |-> 0] /\ v.selected = None /\ v.workflow = NoRun
    BY <1>1, <1>5 DEF Page
  <2> QED
    BY <2>1, <2>2, <2>3
<1> HIDE DEF v
<1>7. Grown(v.asks, ui.asks)
  BY <1>1, <1>6 DEF Grown
<1>8. CASE ~(p = All /\ fetched # "all")
  BY <1>1, <1>3, <1>6, <1>7, <1>8 DEF w
<1>9. CASE p = All /\ fetched # "all"
  <2>1. w = [v EXCEPT !.asks = v.asks \cup {b}]
    BY <1>3, <1>9
  <2>2. v.asks \cup {b} \in SUBSET Ask
    BY <1>2, <1>6 DEF Page
  <2>3. /\ w \in Page /\ w.asks = v.asks \cup {b} /\ w.page = p
        /\ w.environment = v.environment
        /\ w.loading = TRUE /\ w.shown = [x \in Comp |-> 0] /\ w.selected = None
        /\ w.workflow = NoRun
    BY <1>6, <2>1, <2>2, WithoutIs
  <2>4. Grown(w.asks, v.asks)
    BY <1>2, <2>3, GrownByOne
  <2>5. Grown(w.asks, ui.asks)
    BY <1>7, <2>4, GrownIsOrder
  <2> QED
    BY <1>1, <1>6, <2>3, <2>5 DEF w
<1> QED
  BY <1>8, <1>9

\* The page that is entered looks for its environment, or has it already.
LEMMA VisitIs ==
  ASSUME Shape, NEW p \in Env \cup {All}, Visit(p)
  PROVE  LET w == Entered(p)
         IN  /\ ui' = Emitted(w, store, fetched) /\ ui'.page = p /\ ui' \in Page
             /\ ui'.selected = None /\ ui'.workflow = NoRun
             /\ w \in Page /\ w.loading /\ w.shown = [c \in Comp |-> 0] /\ w.page = p
             /\ w.selected = None /\ w.environment = ui.environment
             /\ Grown(ui'.asks, ui.asks)
             /\ late' = CacheLate(w, store, fetched) \ {"env", "comp", "run"}
             /\ revisited' = (p = ui.environment)
             /\ p \in Env /\ ui.environment # None /\ ~Looks(w, store, fetched) =>
                  ui.environment = p
             /\ UNCHANGED <<saved, db, wire, open, store, fetched, behind>>
             /\ events' \in 0..MaxEvents
<1> DEFINE w == Entered(p)
<1>1. /\ ui' = Emitted(w, store, fetched)
      /\ late' = CacheLate(w, store, fetched) \ {"env", "comp", "run"}
      /\ revisited' = (p = ui.environment)
      /\ UNCHANGED <<saved, db, wire, open, store, fetched, behind>>
      /\ events' \in 0..MaxEvents
      /\ p # All /\ ui.page # None => store[p] > 0
  BY EventType DEF Visit, Entered, Shape, DataTypes
<1>2. /\ w \in Page /\ Grown(w.asks, ui.asks)
      /\ w.page = p /\ w.environment = ui.environment /\ w.loading
      /\ w.shown = [c \in Comp |-> 0] /\ w.selected = None /\ w.workflow = NoRun
  BY EnteredIs
<1> HIDE DEF w
<1>3. store \in [Entity -> Versions]
  BY DEF Shape, DataTypes
<1>4. Follows(ui', w) /\ ui'.workflow = w.workflow
  <2>1. EmittedTo(ui', w, store, fetched)
    BY <1>1, <1>2, <1>3, EmittedIs
  <2> QED
    BY <2>1 DEF EmittedTo
<1>5. ui'.page = p /\ ui' \in Page /\ ui'.selected = None /\ Grown(ui'.asks, ui.asks)
  BY <1>2, <1>4, GrownIsOrder DEF Follows
<1>6. ASSUME p \in Env, ui.environment # None, ~Looks(w, store, fetched)
      PROVE  ui.environment = p
  <2>1. fetched # "none" /\ ui.page # None
    BY <1>6 DEF Shape, PageShape, PageOK
  <2>2. store[p] > 0
    BY <1>1, <1>6, <2>1, Sorts
  <2> QED
    BY <1>2, <1>6, <2>1, <2>2 DEF Looks
<1> QED
  BY <1>1, <1>2, <1>4, <1>5, <1>6 DEF w

LEMMA VisitShape ==
  ASSUME Shape, NEW p \in Env \cup {All}, Visit(p)
  PROVE  Shape'
<1> DEFINE w == Entered(p)
           comps == CompsOf(store, p)
<1>1. /\ ui' = Emitted(w, store, fetched) /\ ui'.page = p /\ ui' \in Page
      /\ ui'.selected = None /\ ui'.workflow = NoRun
      /\ w \in Page /\ w.shown = [c \in Comp |-> 0] /\ w.page = p /\ w.selected = None
      /\ w.environment = ui.environment
      /\ Grown(ui'.asks, ui.asks)
      /\ late' = CacheLate(w, store, fetched) \ {"env", "comp", "run"}
      /\ revisited' \in BOOLEAN
      /\ p \in Env /\ ui.environment # None /\ ~Looks(w, store, fetched) => ui.environment = p
      /\ UNCHANGED <<saved, db, wire, open, store, fetched, behind>>
      /\ events' \in 0..MaxEvents
  BY VisitIs
<1> HIDE DEF w
<1>2. store \in [Entity -> Versions] /\ p # None
  BY Sorts DEF Shape, DataTypes
<1>3. /\ p = All => ui'.shown = w.shown /\ ui'.environment = w.environment
      /\ Looks(w, store, fetched) =>
           /\ ui'.environment = p
           /\ IF Cached(store, p) /\ comps # {}
              THEN ui'.shown = [c \in Comp |-> IF c \in comps THEN store[c] ELSE 0]
              ELSE ui'.shown = w.shown
      /\ p # All /\ ~Looks(w, store, fetched) => ui' = w
  <2> DEFINE v == Emitted(w, store, fetched)
  <2>1. /\ w.page = All => v.shown = w.shown /\ v.environment = w.environment
        /\ Looks(w, store, fetched) =>
             /\ v.environment = w.page
             /\ IF Cached(store, w.page) /\ CompsOf(store, w.page) # {}
                THEN v.shown = [c \in Comp |-> IF c \in CompsOf(store, w.page)
                                               THEN store[c] ELSE 0]
                ELSE v.shown = w.shown
        /\ w.page # All /\ ~Looks(w, store, fetched) => v = w
    <3>1. w \in Page /\ store \in [Entity -> Versions] /\ w.selected = None
      BY <1>1, <1>2
    <3>2. EmittedTo(v, w, store, fetched)
      BY <3>1, EmittedIs
    <3> HIDE DEF v
    <3> QED
      BY <3>2 DEF EmittedTo
  <2> HIDE DEF v
  <2>2. ui' = v /\ w.page = p
    BY <1>1 DEF v
  <2>3. CompsOf(store, w.page) = comps /\ (Cached(store, w.page) <=> Cached(store, p))
    BY <2>2
  <2> HIDE DEF comps
  <2>4. p = All => ui'.shown = w.shown /\ ui'.environment = w.environment
    BY <2>1, <2>2
  <2>5. p # All /\ ~Looks(w, store, fetched) => ui' = w
    BY <2>1, <2>2
  <2>6. ASSUME Looks(w, store, fetched)
        PROVE  /\ ui'.environment = p
               /\ IF Cached(store, p) /\ comps # {}
                  THEN ui'.shown = [c \in Comp |-> IF c \in comps THEN store[c] ELSE 0]
                  ELSE ui'.shown = w.shown
    <3>1. CASE Cached(store, p) /\ comps # {}
      BY <2>1, <2>2, <2>3, <2>6, <3>1
    <3>2. CASE ~(Cached(store, p) /\ comps # {})
      BY <2>1, <2>2, <2>3, <2>6, <3>2
    <3> QED
      BY <3>1, <3>2
  <2> QED
    BY <2>4, <2>5, <2>6
<1>4. AsksTyped(ui'.asks)
  BY <1>1, TypedByGrown DEF Shape, PageShape
<1>5. SelectionOK(ui')
  BY <1>1 DEF SelectionOK
<1>6. PageOK(ui', store, fetched)
  <2>1. CASE p = All
    <3>1. p \notin Env
      BY <2>1, Sorts
    <3> QED
      BY <1>1, <1>2, <1>3, <2>1, <3>1 DEF PageOK, Shape, PageShape
  <2>2. CASE Looks(w, store, fetched)
    <3>1. fetched # "none" /\ p \in Env
      BY <1>1, <2>2 DEF Looks
    <3>2. \A c \in Comp : ui'.shown[c] > 0 => store[c] > 0 /\ Owner[c] = p
      BY <1>1, <1>3, <2>2 DEF CompsOf
    <3> QED
      BY <1>1, <1>2, <1>3, <2>2, <3>1, <3>2 DEF PageOK
  <2>3. CASE p # All /\ ~Looks(w, store, fetched)
    <3>1. ui'.environment = ui.environment /\ \A c \in Comp : ui'.shown[c] = 0
      BY <1>1, <1>3, <2>3
    <3> QED
      BY <1>1, <1>2, <2>3, <3>1 DEF PageOK, Shape, PageShape
  <2> QED
    BY <2>1, <2>2, <2>3
<1>7. late' \subseteq {"env", "comp", "run", "cache"}
  BY <1>1, CacheLateType DEF Shape, DataTypes
<1> QED
  BY <1>1, <1>4, <1>5, <1>6, <1>7 DEF Shape, DataTypes, PageShape

\* A click asks for the list of the component, and for its run when it has one.
LEMMA SelectIs ==
  ASSUME Shape, NEW c \in Comp, Select(c)
  PROVE  LET run == IF RunOf(c, ui.shown[c]) = NoRun THEN Initializing
                    ELSE RunOf(c, ui.shown[c])
         IN  /\ ui' \in Page /\ Grown(ui'.asks, ui.asks)
             /\ ui.page \in Env /\ ui.shown[c] > 0 /\ c # ui.selected
             /\ Pending(ui'.asks, "compAudit", c, 0)
             /\ ui'.page = ui.page /\ ui'.environment = ui.environment
             /\ ui'.loading = ui.loading /\ ui'.shown = ui.shown
             /\ ui'.envAudit = ui.envAudit /\ ui'.envHeard = ui.envHeard
             /\ ui'.envLeak = ui.envLeak /\ ui'.selected = c
             /\ ui'.workflow = run /\ run \in Run \cup {Initializing}
             /\ IF ui.workflow = run THEN ui'.view = ui.view /\ late' = late
                ELSE /\ ui'.view = NoRun /\ late' = late \ {"run"}
                     /\ run \in Run => Pending(ui'.asks, "run", run.comp, run.ver)
             /\ UNCHANGED <<saved, db, wire, open, store, fetched, behind, revisited>>
             /\ events' \in 0..MaxEvents
<1> DEFINE run == IF RunOf(c, ui.shown[c]) = NoRun THEN Initializing ELSE RunOf(c, ui.shown[c])
           u == [ui EXCEPT !.selected = c]
           v == SelectedChanged(u)
           w == SetWorkflowId(v, run)
           x == [w EXCEPT !.view = NoRun]
<1>0. ui \in Page /\ ui.shown[c] \in Versions
  BY DEF Shape, PageShape, Page
<1>1. run \in Run \cup {NoRun, Initializing} /\ run \in Run \cup {Initializing}
  BY <1>0, RunIs
<1>2. /\ UNCHANGED <<saved, db, wire, open, store, fetched, behind, revisited>>
      /\ ui.page \in Env /\ ui.shown[c] > 0 /\ c # ui.selected
      /\ IF v.workflow = run THEN ui' = v /\ late' = late
         ELSE ui' = x /\ late' = late \ {"run"}
  BY DEF Select
<1>3. events' \in 0..MaxEvents
  BY EventType DEF Select, Shape, DataTypes
<1>4. /\ u \in Page /\ u.asks = ui.asks /\ u.selected = c
      /\ u.page = ui.page /\ u.environment = ui.environment /\ u.loading = ui.loading
      /\ u.shown = ui.shown /\ u.envAudit = ui.envAudit /\ u.envHeard = ui.envHeard
      /\ u.envLeak = ui.envLeak /\ u.workflow = ui.workflow /\ u.view = ui.view
  BY <1>0 DEF Page
<1> HIDE DEF run, u
<1>5. /\ Follows(v, u) /\ Pending(v.asks, "compAudit", c, 0)
      /\ v.environment = u.environment /\ v.loading = u.loading /\ v.shown = u.shown
      /\ v.envHeard = u.envHeard /\ v.workflow = u.workflow
  BY <1>4, SelectedChangedIs
<1> HIDE DEF v
<1>6. v \in Page
  BY <1>5 DEF Follows
<1>7. /\ Follows(w, v)
      /\ w.environment = v.environment /\ w.loading = v.loading /\ w.shown = v.shown
      /\ w.envHeard = v.envHeard /\ w.workflow = run
      /\ v.workflow # run /\ run \in Run => Pending(w.asks, "run", run.comp, run.ver)
  BY <1>1, <1>6, SetWorkflowIdIs
<1> HIDE DEF w
<1>8. w \in Page
  BY <1>7 DEF Follows
<1>9. /\ x \in Page /\ x.asks = w.asks /\ x.selected = w.selected
      /\ x.page = w.page /\ x.environment = w.environment /\ x.loading = w.loading
      /\ x.shown = w.shown /\ x.envAudit = w.envAudit /\ x.envHeard = w.envHeard
      /\ x.envLeak = w.envLeak /\ x.workflow = w.workflow /\ x.view = NoRun
  BY <1>8 DEF Page
<1> HIDE DEF x
<1>10. Grown(v.asks, ui.asks) /\ Grown(w.asks, ui.asks)
  BY <1>4, <1>5, <1>7, GrownIsOrder DEF Follows
<1>11. Pending(w.asks, "compAudit", c, 0)
  BY <1>5, <1>7 DEF Follows, Grown
<1>12. CASE v.workflow = run
  BY <1>1, <1>2, <1>3, <1>4, <1>5, <1>6, <1>10, <1>12 DEF Follows, run
<1>13. CASE v.workflow # run
  BY <1>1, <1>2, <1>3, <1>4, <1>5, <1>7, <1>9, <1>10, <1>11, <1>13 DEF Follows, run
<1> QED
  BY <1>12, <1>13

LEMMA SelectShape ==
  ASSUME Shape, NEW c \in Comp, Select(c)
  PROVE  Shape'
<1> DEFINE run == IF RunOf(c, ui.shown[c]) = NoRun THEN Initializing ELSE RunOf(c, ui.shown[c])
<1>1. /\ ui' \in Page /\ Grown(ui'.asks, ui.asks) /\ ui.page \in Env /\ ui.shown[c] > 0
      /\ ui'.page = ui.page /\ ui'.environment = ui.environment /\ ui'.shown = ui.shown
      /\ ui'.selected = c /\ ui'.workflow = run
      /\ UNCHANGED <<saved, db, wire, open, store, fetched, behind, revisited>>
      /\ events' \in 0..MaxEvents /\ late' \subseteq late
  BY SelectIs
<1>2. AsksTyped(ui'.asks)
  BY <1>1, TypedByGrown DEF Shape, PageShape
<1>3. PageOK(ui', store, fetched)
  BY <1>1 DEF Shape, PageShape, PageOK
<1>4. SelectionOK(ui')
  BY <1>1, Sorts DEF SelectionOK
<1> QED
  BY <1>1, <1>2, <1>3, <1>4 DEF Shape, DataTypes, PageShape

LEMMA StutterShape ==
  ASSUME Shape, UNCHANGED vars
  PROVE  Shape'
BY DEF Shape, DataTypes, vars

LEMMA ShapeStep ==
  ASSUME Shape, [Next]_vars
  PROVE  Shape'
<1>1. CASE UNCHANGED vars
  BY <1>1, StutterShape
<1>2. CASE Next
  <2>1. ASSUME NEW o \in Obj, Save(o) PROVE Shape'
    BY <2>1, SaveShape
  <2>2. ASSUME NEW c \in Comp, BatchDelete(c) \/ Select(c) PROVE Shape'
    BY <2>2, BatchDeleteShape, SelectShape
  <2>3. ASSUME NEW o \in Obj, Commit(o) PROVE Shape'
    BY <2>3, CommitShape
  <2>4. CASE Disconnect \/ Reconnect
    BY <2>4, DisconnectShape
  <2>5. CASE Deliver
    BY <2>5, DeliverShape
  <2>6. ASSUME NEW a \in ui.asks,
               \/ Read(a) \/ GetTeams(a) \/ GetComponents(a)
               \/ GetEnvironment(a) \/ GetComponent(a) \/ GetWorkflowData(a)
        PROVE  Shape'
    BY <2>6, ReadShape, GetTeamsShape, GetComponentsShape, OtherAnswersShape
  <2>7. ASSUME NEW p \in Env \cup {All}, Visit(p) PROVE Shape'
    BY <2>7, VisitShape
  <2> QED
    BY <1>2, <2>1, <2>2, <2>3, <2>4, <2>5, <2>6, <2>7, NextIs
<1> QED
  BY <1>1, <1>2

\* Every variable has its type (LiveView.tla: TypeOK).
THEOREM TypeCorrect == Spec => []TypeOK
<1>1. Shape => TypeOK
  BY DEF Shape, DataTypes, PageShape, WireMessage, TypeOK
<1> QED
  BY <1>1, InitShape, ShapeStep, PTL DEF Spec

------------------------------------------------------------------------------
(* Versions: what a step of the API, a message or an answer does to what   *)
(* is held of an entity.                                                   *)

\* What is held of o stays as fine as it is.
Keeps(o, sv, bh, w, sv2, bh2, w2) ==
  \A x : Fine(o, x, sv, bh, w) => Fine(o, x, sv2, bh2, w2)

LEMMA ComingAppend ==
  ASSUME NEW w \in Seq(WireMessage), NEW m \in WireMessage
  PROVE  /\ Append(w, m) \in Seq(WireMessage)
         /\ DOMAIN Append(w, m) = 1..(Len(w) + 1) /\ DOMAIN w = 1..Len(w) /\ Len(w) \in Nat
         /\ \A i \in DOMAIN w : Append(w, m)[i] = w[i]
         /\ Append(w, m)[Len(w) + 1] = m
         /\ \A o : Coming(w, o) => Coming(Append(w, m), o)
         /\ Coming(Append(w, m), m.obj)
<1>1. /\ Append(w, m) \in Seq(WireMessage)
      /\ DOMAIN Append(w, m) = 1..(Len(w) + 1) /\ DOMAIN w = 1..Len(w) /\ Len(w) \in Nat
      /\ \A i \in DOMAIN w : Append(w, m)[i] = w[i]
      /\ Append(w, m)[Len(w) + 1] = m
  BY LenProperties
<1>2. \A i \in DOMAIN w : i \in DOMAIN Append(w, m)
  BY <1>1
<1>3. Len(w) + 1 \in DOMAIN Append(w, m)
  BY <1>1
<1> QED
  BY <1>1, <1>2, <1>3 DEF Coming

LEMMA SaveIs ==
  ASSUME Shape, NEW o \in Obj, Save(o)
  PROVE  /\ saved'[o] = saved[o] + 1 /\ \A p \in Obj : p # o => saved'[p] = saved[p]
         /\ saved[o] \in Nat /\ db[o] = saved[o]
         /\ \/ behind' = behind /\ [obj |-> o, ver |-> saved'[o]] \in WireMessage
               /\ wire' = Append(wire, [obj |-> o, ver |-> saved'[o]])
            \/ ~open /\ behind' = behind \cup {o} /\ wire' = wire
         /\ open' = open /\ UNCHANGED <<db, store, fetched, ui, late, revisited>>
<1>1. saved[o] \in Nat /\ saved[o] + 1 \in Versions
  BY LiveViewAssumption DEF Shape, DataTypes, Save, Versions
<1>2. saved' = [saved EXCEPT ![o] = saved[o] + 1]
  BY DEF Save
<1>3. saved'[o] = saved[o] + 1 /\ \A p \in Obj : p # o => saved'[p] = saved[p]
  BY <1>2 DEF Shape, DataTypes
<1>4. [obj |-> o, ver |-> saved'[o]] \in WireMessage
  BY <1>1, <1>3 DEF WireMessage
<1> QED
  BY <1>1, <1>3, <1>4 DEF Save

LEMMA SaveKeeps ==
  ASSUME Shape, NEW p \in Obj, Save(p), NEW o \in Obj
  PROVE  Keeps(o, saved, behind, wire, saved', behind', wire')
<1> DEFINE m == [obj |-> p, ver |-> saved'[p]]
<1>1. /\ o # p => saved'[o] = saved[o]
      /\ \/ behind' = behind /\ m \in WireMessage /\ wire' = Append(wire, m)
         \/ behind' = behind \cup {p} /\ wire' = wire
  BY SaveIs
<1>2. m.obj = p
  OBVIOUS
<1>3. wire \in Seq(WireMessage)
  BY DEF Shape, DataTypes
<1> HIDE DEF m
<1>4. /\ Excused(o, behind, wire) => Excused(o, behind', wire')
      /\ Excused(p, behind', wire')
  <2>1. CASE behind' = behind /\ m \in WireMessage /\ wire' = Append(wire, m)
    <3>1. /\ Coming(wire, o) => Coming(Append(wire, m), o)
          /\ Coming(Append(wire, m), m.obj)
      BY <1>3, <2>1, ComingAppend
    <3> QED
      BY <1>2, <2>1, <3>1 DEF Excused
  <2>2. CASE behind' = behind \cup {p} /\ wire' = wire
    BY <2>2 DEF Excused
  <2> QED
    BY <1>1, <2>1, <2>2
<1>6. CASE o = p
  BY <1>4, <1>6 DEF Keeps, Fine
<1>7. CASE o # p
  BY <1>1, <1>4, <1>7 DEF Keeps, Fine
<1> QED
  BY <1>6, <1>7

LEMMA BatchDeleteIs ==
  ASSUME Shape, NEW c \in Comp, BatchDelete(c)
  PROVE  /\ saved'[c] = 0 /\ db'[c] = 0 /\ saved[c] > 0 /\ c \notin Dag(Owner[c], db[Owner[c]])
         /\ \A o \in Obj : o # c => saved'[o] = saved[o] /\ db'[o] = db[o]
         /\ UNCHANGED <<wire, store, fetched, ui, behind, late, revisited>>
BY Sorts DEF Shape, DataTypes, BatchDelete

LEMMA BatchDeleteKeeps ==
  ASSUME Shape, NEW c \in Comp, BatchDelete(c), NEW o \in Obj
  PROVE  Keeps(o, saved, behind, wire, saved', behind', wire')
<1>1. /\ saved'[c] = 0 /\ (o # c => saved'[o] = saved[o])
      /\ UNCHANGED <<wire, behind>>
  BY BatchDeleteIs
<1> QED
  BY <1>1 DEF Keeps, Fine

LEMMA DisconnectKeeps ==
  ASSUME Disconnect, NEW o \in Obj
  PROVE  Keeps(o, saved, behind, wire, saved', behind', wire')
<1>1. /\ saved' = saved /\ wire' = <<>>
      /\ behind' = behind \cup {wire[i].obj : i \in DOMAIN wire}
  BY DEF Disconnect
<1>2. Excused(o, behind, wire) => Excused(o, behind', wire')
  BY <1>1 DEF Excused, Coming
<1> QED
  BY <1>1, <1>2 DEF Keeps, Fine

\* The steps that leave alone what is saved, streamed and lost.
LEMMA SameKeeps ==
  ASSUME UNCHANGED <<saved, behind, wire>>, NEW o
  PROVE  Keeps(o, saved, behind, wire, saved', behind', wire')
BY DEF Keeps

\* The last message of an entity brings what was saved.
LEMMA DeliverKeeps ==
  ASSUME Shape, Deliver, WireOK(wire, saved, db), NEW o \in Obj
  PROVE  IF o = Head(wire).obj THEN Fine(o, Head(wire).ver, saved', behind', wire')
         ELSE Keeps(o, saved, behind, wire, saved', behind', wire')
<1>1. /\ Head(wire) = wire[1] /\ 1 \in DOMAIN wire
      /\ \A i \in DOMAIN wire : i # 1 => i - 1 \in DOMAIN Tail(wire) /\ Tail(wire)[i - 1] = wire[i]
      /\ saved' = saved /\ wire' = Tail(wire)
      /\ o # Head(wire).obj /\ o \in behind => o \in behind'
  BY HeadIs DEF Deliver
<1>2. CASE o = Head(wire).obj
  <2>1. CASE Coming(wire', o)
    BY <1>2, <2>1 DEF Fine, Excused
  <2>2. CASE ~Coming(wire', o)
    <3>1. \A j \in DOMAIN wire : j > 1 => wire[j].obj # wire[1].obj
      <4>1. DOMAIN wire \subseteq Nat
        BY LenProperties DEF Shape, DataTypes
      <4>2. \A j \in DOMAIN wire : j # 1 => wire[j].obj # o
        BY <1>1, <2>2 DEF Coming
      <4> QED
        BY <1>1, <1>2, <4>1, <4>2
    <3>2. Fine(wire[1].obj, wire[1].ver, saved, {}, <<>>)
      BY <1>1, <3>1 DEF WireOK, LastOf
    <3> QED
      BY <1>1, <1>2, <3>2 DEF Fine, Excused, Coming
  <2> QED
    BY <2>1, <2>2
<1>3. CASE o # Head(wire).obj
  <2>1. ASSUME Coming(wire, o) PROVE Coming(wire', o)
    <3>1. PICK i \in DOMAIN wire : wire[i].obj = o
      BY <2>1 DEF Coming
    <3>2. i # 1
      BY <1>1, <1>3, <3>1
    <3> QED
      BY <1>1, <3>1, <3>2 DEF Coming
  <2> QED
    BY <1>1, <1>3, <2>1 DEF Keeps, Fine, Excused
<1> QED
  BY <1>2, <1>3

\* An answer brings what was saved, or it is marked.
LEMMA OvertakenKeeps ==
  ASSUME Shape, NEW a \in ui.asks, Overtaken(a), UNCHANGED <<saved, wire>>, NEW o \in Obj
  PROVE  /\ o \in Asked(a) => Fine(o, a.data[o], saved', behind', wire')
         /\ o \notin Asked(a) \/ (a.kind = "allTeams" /\ o \in Comp) =>
              Keeps(o, saved, behind, wire, saved', behind', wire')
<1> DEFINE old == {p \in Asked(a) : a.data[p] # saved[p] /\ ~UnderWay(p)}
           new == {p \in Asked(a) : a.data[p] = saved[p]}
<1>1. behind' = (behind \ (IF a.kind = "allTeams" THEN new \ Comp ELSE new)) \cup old
  BY DEF Overtaken
<1>2. ASSUME o \in Asked(a) PROVE Fine(o, a.data[o], saved', behind', wire')
  <2>1. CASE a.data[o] = saved[o]
    BY <2>1 DEF Fine
  <2>2. CASE UnderWay(o)
    BY <2>2 DEF Fine, Excused, Coming, UnderWay
  <2>3. CASE a.data[o] # saved[o] /\ ~UnderWay(o)
    BY <1>1, <1>2, <2>3 DEF Fine, Excused
  <2> QED
    BY <2>1, <2>2, <2>3
<1>3. ASSUME o \notin Asked(a) \/ (a.kind = "allTeams" /\ o \in Comp)
      PROVE  Keeps(o, saved, behind, wire, saved', behind', wire')
  <2>1. o \in behind => o \in behind'
    BY <1>1, <1>3
  <2> QED
    BY <2>1 DEF Keeps, Fine, Excused
<1> QED
  BY <1>2, <1>3

------------------------------------------------------------------------------
(* Versions: what is saved, streamed, asked for, stored and shown.         *)

Data ==
  /\ SavedOK(saved, db) /\ WireOK(wire, saved, db) /\ AsksOK(ui.asks, saved, db)
  /\ StoreOK(store, saved, db, behind, wire) /\ ShownOK(ui, saved, db)
  /\ open \/ wire = <<>>

\* A component that has left the DAG does not return.
LEMMA GoneStays ==
  ASSUME NEW c \in Comp, NEW v \in Nat, NEW w \in Nat, v <= w, w <= Len(DagAt[Owner[c]]),
         Gone(c, v)
  PROVE  Gone(c, w)
<1> DEFINE D == DagAt[Owner[c]]
<1>1. PICK i \in 1..v : c \in D[i] /\ c \notin D[v]
  BY DEF Gone
<1>2. Owner[c] \in Env /\ D \in Seq(SUBSET Comp)
  BY Sorts, LiveViewAssumption
<1>3. DOMAIN D = 1..Len(D) /\ Len(D) \in Nat
  BY <1>2, LenProperties
<1>4. i \in DOMAIN D /\ v \in DOMAIN D /\ w \in DOMAIN D /\ i <= v
  BY <1>1, <1>3
<1>5. D[i] \cap D[w] \subseteq D[v]
  BY <1>2, <1>4, LiveViewAssumption
<1>6. c \notin D[w] /\ i \in 1..w
  BY <1>1, <1>5
<1> QED
  BY <1>1, <1>6 DEF Gone

LEMMA WireIs ==
  ASSUME Shape, NEW i \in DOMAIN wire
  PROVE  wire[i].obj \in Obj /\ wire[i].ver \in Nat
<1>1. wire[i] \in WireMessage
  BY ElementOfSeq, LenProperties DEF Shape, DataTypes
<1> QED
  BY <1>1, Sorts DEF WireMessage

LEMMA SavedIs ==
  ASSUME Shape, SavedOK(saved, db)
  PROVE  /\ \A o \in Obj : db[o] \in Nat /\ saved[o] \in Nat /\ Start[o] \in Nat /\ db[o] <= saved[o]
         /\ \A e \in Env : /\ e \in Obj /\ Start[e] <= db[e]
                           /\ saved[e] <= Len(DagAt[e]) /\ Len(DagAt[e]) \in Nat
         /\ \A c \in Comp : c \in Obj /\ Owner[c] \in Env
BY Sorts, LiveViewAssumption, LenProperties DEF Shape, DataTypes, SavedOK, Versions

LEMMA InitData == Init => Data
<1> SUFFICES ASSUME Init PROVE Data
  OBVIOUS
<1> DEFINE a == NewAsk("teams", None)
<1>1. a \in Ask /\ a.kind = "teams" /\ \A o \in Obj : a.data[o] = 0
  BY NewAskIs DEF Kinds
<1> HIDE DEF a
<1>2. /\ open /\ ui.asks = {a} /\ saved = Start /\ db = Start /\ wire = <<>>
      /\ store = [o \in Entity |-> 0]
      /\ \A c \in Comp : ui.shown[c] = 0
  BY DEF Init, a
<1>3. \A o \in Obj : Start[o] \in Nat
  BY StartIs
<1>4. SavedOK(Start, Start)
  <2>1. \A e \in Env : Start[e] <= Start[e] /\ Start[e] <= Len(DagAt[e])
    BY <1>3, Sorts, LiveViewAssumption
  <2>2. \A c \in Comp : Start[c] > 0 => Start[Owner[c]] \in 1..Start[Owner[c]]
                                        /\ c \in DagAt[Owner[c]][Start[Owner[c]]]
    <3>1. \A e \in Env : Start[e] \in Nat
      BY <1>3, Sorts
    <3> QED
      BY <3>1, StartIs, Sorts
  <2> QED
    BY <1>3, <2>1, <2>2 DEF SavedOK
<1>5. \A o \in Obj : Known(o, 0, Start, Start)
  BY <1>3 DEF Known
<1>6. WireOK(wire, saved, db)
  BY <1>2 DEF WireOK
<1>7. AsksOK(ui.asks, saved, db) /\ ShownOK(ui, saved, db)
  BY <1>1, <1>2, <1>5, Sorts DEF AsksOK, ShownOK
<1>8. StoreOK(store, saved, db, behind, wire)
  <2>1. \A o \in Entity : store[o] = 0 /\ Known(o, store[o], saved, db)
    BY <1>2, <1>5, Sorts
  <2>2. \A c \in Comp : Start[c] = 0 => Fine(c, store[c], saved, behind, wire)
    BY <1>2, Sorts DEF Fine
  <2>3. \A c \in Comp : ~(store[c] > 0)
    BY <2>1, Sorts
  <2> QED
    BY <2>1, <2>2, <2>3 DEF StoreOK
<1> QED
  BY <1>2, <1>4, <1>6, <1>7, <1>8 DEF Data

\* A version that o has had stays one.
KnownStays(sv, d, sv2, d2) ==
  \A o \in Obj : \A x \in Nat : Known(o, x, sv, d) => Known(o, x, sv2, d2)

LEMMA SaveKnown ==
  ASSUME Shape, SavedOK(saved, db), NEW o \in Obj, Save(o),
         o \in Env => saved[o] < Len(DagAt[o]),
         o \in Comp /\ saved[o] = 0 => o \in Dag(Owner[o], db[Owner[o]])
  PROVE  /\ SavedOK(saved', db') /\ KnownStays(saved, db, saved', db')
         /\ Known(o, saved'[o], saved', db')
<1>1. /\ saved'[o] = saved[o] + 1 /\ \A p \in Obj : p # o => saved'[p] = saved[p]
      /\ saved[o] \in Nat /\ db[o] = saved[o] /\ db' = db
  BY SaveIs
<1>2. /\ \A p \in Obj : db[p] \in Nat /\ saved[p] \in Nat /\ Start[p] \in Nat /\ db[p] <= saved[p]
      /\ \A e \in Env : /\ e \in Obj /\ Start[e] <= db[e]
                        /\ saved[e] <= Len(DagAt[e]) /\ Len(DagAt[e]) \in Nat
      /\ \A c \in Comp : c \in Obj /\ Owner[c] \in Env
  BY SavedIs
<1>3. \A p \in Obj : saved[p] <= saved'[p] /\ saved'[p] \in Nat
  BY <1>1, <1>2
<1>4. SavedOK(saved', db')
  <2>1. \A p \in Obj : db'[p] <= saved'[p]
    BY <1>1, <1>2, <1>3
  <2>2. \A e \in Env : Start[e] <= db'[e] /\ saved'[e] <= Len(DagAt[e])
    BY <1>1, <1>2
  <2>3. ASSUME NEW c \in Comp, saved'[c] > 0
        PROVE  \E i \in 1..db'[Owner[c]] : c \in DagAt[Owner[c]][i]
    <3>1. CASE saved[c] > 0
      BY <1>1, <3>1 DEF SavedOK
    <3>2. CASE ~(saved[c] > 0)
      <4>1. c = o /\ saved[c] = 0 /\ db[Owner[c]] \in Nat
        BY <1>1, <1>2, <2>3, <3>2
      <4>2. db[Owner[c]] # 0 /\ c \in DagAt[Owner[c]][db[Owner[c]]]
        BY <4>1 DEF Dag
      <4> QED
        BY <1>1, <4>1, <4>2
    <3> QED
      BY <3>1, <3>2
  <2> QED
    BY <2>1, <2>2, <2>3 DEF SavedOK
<1>5. ASSUME NEW p \in Obj, NEW x \in Nat, Known(p, x, saved, db)
      PROVE  Known(p, x, saved', db')
  <2>1. CASE x <= saved[p]
    BY <1>2, <1>3, <1>5, <2>1 DEF Known
  <2>2. CASE Deleted(p, saved, db)
    <3>1. p \in Comp /\ saved[p] = 0 /\ Gone(p, db[Owner[p]]) /\ db[Owner[p]] \in Nat
      BY <1>2, <2>2 DEF Deleted
    <3>2. db[Owner[p]] # 0 /\ p \notin DagAt[Owner[p]][db[Owner[p]]]
      BY <3>1 DEF Gone
    <3>3. p # o
      BY <3>1, <3>2 DEF Dag
    <3>4. Deleted(p, saved', db')
      BY <1>1, <3>1, <3>3 DEF Deleted
    <3> QED
      BY <1>5, <3>4 DEF Known
  <2> QED
    BY <1>5, <2>1, <2>2 DEF Known
<1>6. Known(o, saved'[o], saved', db')
  BY <1>1, <1>2, <1>3 DEF Known
<1> QED
  BY <1>4, <1>5, <1>6 DEF KnownStays

LEMMA CommitKnown ==
  ASSUME Shape, SavedOK(saved, db), NEW o \in Obj, Commit(o)
  PROVE  SavedOK(saved', db') /\ KnownStays(saved, db, saved', db')
<1>1. /\ db'[o] = saved[o] /\ (\A p \in Obj : p # o => db'[p] = db[p]) /\ saved' = saved
  BY DEF Commit, Shape, DataTypes
<1>2. /\ \A p \in Obj : db[p] \in Nat /\ saved[p] \in Nat /\ Start[p] \in Nat /\ db[p] <= saved[p]
      /\ \A e \in Env : /\ e \in Obj /\ Start[e] <= db[e]
                        /\ saved[e] <= Len(DagAt[e]) /\ Len(DagAt[e]) \in Nat
      /\ \A c \in Comp : c \in Obj /\ Owner[c] \in Env
  BY SavedIs
<1>3. \A p \in Obj : db[p] <= db'[p] /\ db'[p] <= saved[p] /\ db'[p] \in Nat
  BY <1>1, <1>2
<1>4. SavedOK(saved', db')
  <2>1. ASSUME NEW c \in Comp, saved'[c] > 0
        PROVE  \E i \in 1..db'[Owner[c]] : c \in DagAt[Owner[c]][i]
    <3>1. PICK i \in 1..db[Owner[c]] : c \in DagAt[Owner[c]][i]
      BY <1>1, <2>1 DEF SavedOK
    <3>2. i \in 1..db'[Owner[c]]
      BY <1>2, <1>3, <3>1
    <3> QED
      BY <3>1, <3>2
  <2>2. \A e \in Env : Start[e] <= db'[e]
    BY <1>2, <1>3
  <2> QED
    BY <1>1, <1>2, <1>3, <2>1, <2>2 DEF SavedOK
<1>5. ASSUME NEW p \in Obj, NEW x \in Nat, Known(p, x, saved, db)
      PROVE  Known(p, x, saved', db')
  <2>1. ASSUME Deleted(p, saved, db) PROVE Deleted(p, saved', db')
    <3>1. p \in Comp /\ saved[p] = 0 /\ Gone(p, db[Owner[p]])
      BY <2>1 DEF Deleted
    <3>2. /\ db[Owner[p]] \in Nat /\ db'[Owner[p]] \in Nat /\ db[Owner[p]] <= db'[Owner[p]]
          /\ db'[Owner[p]] <= Len(DagAt[Owner[p]])
      BY <1>2, <1>3, <3>1
    <3>3. Gone(p, db'[Owner[p]])
      BY <3>1, <3>2, GoneStays
    <3> QED
      BY <1>1, <3>1, <3>3 DEF Deleted
  <2> QED
    BY <1>1, <1>5, <2>1 DEF Known
<1> QED
  BY <1>4, <1>5 DEF KnownStays

LEMMA BatchDeleteKnown ==
  ASSUME Shape, SavedOK(saved, db), NEW c \in Comp, BatchDelete(c)
  PROVE  SavedOK(saved', db') /\ KnownStays(saved, db, saved', db')
<1>1. /\ saved'[c] = 0 /\ db'[c] = 0 /\ saved[c] > 0 /\ c \notin Dag(Owner[c], db[Owner[c]])
      /\ \A o \in Obj : o # c => saved'[o] = saved[o] /\ db'[o] = db[o]
  BY BatchDeleteIs
<1>2. /\ \A p \in Obj : db[p] \in Nat /\ saved[p] \in Nat /\ Start[p] \in Nat /\ db[p] <= saved[p]
      /\ \A e \in Env : /\ e \in Obj /\ Start[e] <= db[e]
                        /\ saved[e] <= Len(DagAt[e]) /\ Len(DagAt[e]) \in Nat
      /\ \A p \in Comp : p \in Obj /\ Owner[p] \in Env
  BY SavedIs
<1>3. \A e \in Env : e # c /\ db'[e] = db[e] /\ saved'[e] = saved[e]
  BY <1>1, <1>2, Sorts
<1>4. SavedOK(saved', db')
  <2>1. \A o \in Obj : db'[o] <= saved'[o]
    BY <1>1, <1>2
  <2>2. \A e \in Env : Start[e] <= db'[e] /\ saved'[e] <= Len(DagAt[e])
    BY <1>2, <1>3
  <2>3. \A p \in Comp : saved'[p] > 0 => \E i \in 1..db'[Owner[p]] : p \in DagAt[Owner[p]][i]
    BY <1>1, <1>2, <1>3 DEF SavedOK
  <2> QED
    BY <2>1, <2>2, <2>3 DEF SavedOK
<1>5. Deleted(c, saved', db')
  <2>1. PICK i \in 1..db[Owner[c]] : c \in DagAt[Owner[c]][i]
    BY <1>1 DEF SavedOK
  <2>2. db[Owner[c]] \in Nat /\ db[Owner[c]] # 0
    BY <1>2, <2>1
  <2>3. Gone(c, db[Owner[c]])
    BY <1>1, <2>1, <2>2 DEF Gone, Dag
  <2> QED
    BY <1>1, <1>2, <1>3, <2>3 DEF Deleted
<1>6. ASSUME NEW p \in Obj, NEW x \in Nat, Known(p, x, saved, db)
      PROVE  Known(p, x, saved', db')
  <2>1. CASE p = c
    <3>1. p \notin Env
      BY <2>1, Sorts
    <3> QED
      BY <1>5, <2>1, <3>1 DEF Known
  <2>2. CASE p # c
    BY <1>1, <1>2, <1>3, <1>6, <2>2 DEF Known, Deleted
  <2> QED
    BY <2>1, <2>2
<1> QED
  BY <1>4, <1>6 DEF KnownStays

LEMMA ZeroKnown ==
  ASSUME NEW sv, NEW d, NEW o, sv[o] \in Nat
  PROVE  Known(o, 0, sv, d)
BY DEF Known

LEMMA AsksGrown ==
  ASSUME NEW A, NEW B, NEW sv, NEW d, AsksOK(A, sv, d), Grown(B, A),
         \A o \in Obj : sv[o] \in Nat
  PROVE  AsksOK(B, sv, d)
<1> SUFFICES ASSUME NEW b \in B, NEW o \in Obj PROVE Known(o, b.data[o], sv, d)
  BY DEF AsksOK
<1>1. CASE NewFor(b)
  BY <1>1, ZeroKnown DEF NewFor
<1>2. CASE \E a \in A : b.kind = a.kind /\ b.of = a.of /\ b.data = a.data
  BY <1>2 DEF AsksOK
<1> QED
  BY <1>1, <1>2 DEF Grown

LEMMA EmittedData ==
  ASSUME NEW u \in Page, NEW st \in [Entity -> Versions], NEW f, NEW sv, NEW d,
         Looks(u, st, f) => u.selected = None,
         \A o \in Obj : sv[o] \in Nat,
         AsksOK(u.asks, sv, d), ShownOK(u, sv, d),
         \A o \in Entity : Known(o, st[o], sv, d)
  PROVE  AsksOK(Emitted(u, st, f).asks, sv, d) /\ ShownOK(Emitted(u, st, f), sv, d)
<1> DEFINE v == Emitted(u, st, f)
           comps == CompsOf(st, u.page)
<1>1. /\ Follows(v, u)
      /\ u.page = All => v.shown = u.shown
      /\ Looks(u, st, f) =>
           IF Cached(st, u.page) /\ comps # {}
           THEN v.shown = [c \in Comp |-> IF c \in comps THEN st[c] ELSE 0]
           ELSE v.shown = u.shown
      /\ u.page # All /\ ~Looks(u, st, f) => v = u
  <2>1. EmittedTo(v, u, st, f)
    BY EmittedIs
  <2> HIDE DEF v
  <2> QED
    BY <2>1 DEF EmittedTo
<1> HIDE DEF v, comps
<1>2. \A c \in Comp : v.shown[c] \in {0, st[c], u.shown[c]}
  BY <1>1
<1>3. ShownOK(v, sv, d)
  BY <1>2, ZeroKnown, Sorts DEF ShownOK
<1>4. AsksOK(v.asks, sv, d)
  BY <1>1, AsksGrown DEF Follows
<1> QED
  BY <1>3, <1>4 DEF v

LEMMA ComponentsEmittedData ==
  ASSUME NEW u \in Page, NEW st \in [Entity -> Versions], NEW e \in Env, NEW changed,
         NEW sv, NEW d,
         \A o \in Obj : sv[o] \in Nat,
         AsksOK(u.asks, sv, d), ShownOK(u, sv, d),
         \A o \in Entity : Known(o, st[o], sv, d)
  PROVE  /\ AsksOK(ComponentsEmitted(u, st, e, changed).asks, sv, d)
         /\ ShownOK(ComponentsEmitted(u, st, e, changed), sv, d)
<1> DEFINE v == ComponentsEmitted(u, st, e, changed)
           comps == CompsOf(st, e)
<1>1. /\ Follows(v, u)
      /\ comps = {} \/ u.environment # e => v = u
      /\ comps # {} /\ u.environment = e =>
           v.shown = [c \in Comp |-> IF c \in comps THEN st[c] ELSE 0]
  BY ComponentsEmittedIs
<1> HIDE DEF v, comps
<1>2. \A c \in Comp : v.shown[c] \in {0, st[c], u.shown[c]}
  BY <1>1
<1>3. ShownOK(v, sv, d)
  BY <1>2, ZeroKnown, Sorts DEF ShownOK
<1>4. AsksOK(v.asks, sv, d)
  BY <1>1, AsksGrown DEF Follows
<1> QED
  BY <1>3, <1>4 DEF v

\* What is asked for, stored and shown stays what it was.
LEMMA HeldStays ==
  ASSUME Shape, Data, SavedOK(saved', db'), KnownStays(saved, db, saved', db'),
         UNCHANGED <<store, ui>>,
         \A o \in Obj : Keeps(o, saved, behind, wire, saved', behind', wire')
  PROVE  /\ AsksOK(ui'.asks, saved', db') /\ ShownOK(ui', saved', db')
         /\ StoreOK(store', saved', db', behind', wire')
<1>1. /\ \A o \in Entity : store[o] \in Nat
      /\ \A c \in Comp : ui.shown[c] \in Nat
      /\ \A a \in ui.asks : \A o \in Obj : a.data[o] \in Nat
  <2>1. \A a \in ui.asks : a.data \in [Obj -> Versions]
    BY AskIs
  <2>2. ui.shown \in [Comp -> Versions] /\ store \in [Entity -> Versions]
    BY DEF Shape, DataTypes, PageShape, Page
  <2>3. \A c \in Comp : ui.shown[c] \in Nat
    BY <2>2, Sorts
  <2>4. \A o \in Entity : store[o] \in Nat
    BY <2>2, Sorts
  <2> QED
    BY <2>1, <2>3, <2>4, Sorts
<1>2. AsksOK(ui.asks, saved', db')
  <2>1. \A a \in ui.asks : \A o \in Obj : Known(o, a.data[o], saved, db)
    BY DEF Data, AsksOK
  <2> QED
    BY <1>1, <2>1 DEF AsksOK, KnownStays
<1>3. ShownOK(ui, saved', db')
  BY <1>1, Sorts DEF Data, ShownOK, KnownStays
<1>4. StoreOK(store, saved', db', behind', wire')
  <2>1. \A o \in Entity : Known(o, store[o], saved', db')
    BY <1>1, Sorts DEF Data, StoreOK, KnownStays
  <2>2. \A c \in Comp : store[c] > 0 \/ Start[c] = 0 =>
          Fine(c, store[c], saved', behind', wire')
    BY Sorts DEF Data, StoreOK, Keeps
  <2> QED
    BY <2>1, <2>2 DEF StoreOK
<1> QED
  BY <1>2, <1>3, <1>4

LEMMA SaveData ==
  ASSUME Shape, Data, NEW o \in Obj, Save(o),
         o \in Env => saved[o] < Len(DagAt[o]),
         o \in Comp /\ saved[o] = 0 => o \in Dag(Owner[o], db[Owner[o]])
  PROVE  Data'
<1>1. /\ SavedOK(saved', db') /\ KnownStays(saved, db, saved', db')
      /\ Known(o, saved'[o], saved', db')
  BY SaveKnown DEF Data
<1>2. \A p \in Obj : Keeps(p, saved, behind, wire, saved', behind', wire')
  BY SaveKeeps
<1>3. UNCHANGED <<store, ui>>
  BY DEF Save
<1>4. /\ AsksOK(ui'.asks, saved', db') /\ ShownOK(ui', saved', db')
      /\ StoreOK(store', saved', db', behind', wire')
  BY <1>1, <1>2, <1>3, HeldStays
<1>5. WireOK(wire', saved', db')
  <2> DEFINE m == [obj |-> o, ver |-> saved'[o]]
  <2>0. m.obj = o /\ m.ver = saved'[o]
    OBVIOUS
  <2>1. /\ \A p \in Obj : p # o => saved'[p] = saved[p]
        /\ \/ m \in WireMessage /\ wire' = Append(wire, m)
           \/ wire' = wire /\ ~open
    BY SaveIs
  <2> HIDE DEF m
  <2>2. wire \in Seq(WireMessage)
    BY DEF Shape, DataTypes
  <2>3. \A i \in DOMAIN wire : wire[i].obj \in Obj /\ wire[i].ver \in Nat
    BY WireIs
  <2>4. \A i \in DOMAIN wire : Known(wire[i].obj, wire[i].ver, saved', db')
    BY <1>1, <2>3 DEF KnownStays, Data, WireOK
  <2>5. CASE m \in WireMessage /\ wire' = Append(wire, m)
    <3>1. /\ DOMAIN wire' = 1..(Len(wire) + 1) /\ DOMAIN wire = 1..Len(wire)
          /\ Len(wire) \in Nat
          /\ \A i \in DOMAIN wire : wire'[i] = wire[i]
          /\ wire'[Len(wire) + 1] = m
      BY <2>2, <2>5, ComingAppend
    <3>2. ASSUME NEW i \in DOMAIN wire'
          PROVE  /\ Known(wire'[i].obj, wire'[i].ver, saved', db')
                 /\ LastOf(wire', i) => Fine(wire'[i].obj, wire'[i].ver, saved', {}, <<>>)
      <4>1. CASE i = Len(wire) + 1
        BY <1>1, <2>0, <3>1, <4>1 DEF Fine
      <4>2. CASE i # Len(wire) + 1
        <5>1. i \in DOMAIN wire /\ wire'[i] = wire[i] /\ Len(wire) + 1 > i
          BY <3>1, <3>2, <4>2
        <5>2. ASSUME LastOf(wire', i)
              PROVE  LastOf(wire, i) /\ wire[i].obj # o
          BY <2>0, <3>1, <5>1, <5>2 DEF LastOf
        <5>3. LastOf(wire', i) => Fine(wire[i].obj, wire[i].ver, saved, {}, <<>>)
          BY <5>1, <5>2 DEF Data, WireOK
        <5>4. LastOf(wire', i) => saved'[wire[i].obj] = saved[wire[i].obj]
          BY <2>1, <2>3, <5>1, <5>2
        <5>5. LastOf(wire', i) => Fine(wire[i].obj, wire[i].ver, saved', {}, <<>>)
          BY <5>3, <5>4 DEF Fine
        <5> QED
          BY <2>4, <5>1, <5>5
      <4> QED
        BY <4>1, <4>2
    <3> QED
      BY <3>2 DEF WireOK
  <2>6. CASE wire' = wire /\ ~open
    <3>1. wire' = <<>>
      BY <2>6 DEF Data
    <3> QED
      BY <3>1 DEF WireOK
  <2> QED
    BY <2>1, <2>5, <2>6
<1>6. open' \/ wire' = <<>>
  BY DEF Data, Save
<1> QED
  BY <1>1, <1>4, <1>5, <1>6 DEF Data

LEMMA ApiData ==
  ASSUME Shape, Data,
         \/ \E o \in Obj : Commit(o)
         \/ \E c \in Comp : BatchDelete(c)
         \/ Disconnect \/ Reconnect
  PROVE  Data'
<1>1. ASSUME NEW o \in Obj, Commit(o) PROVE Data'
  <2>1. SavedOK(saved', db') /\ KnownStays(saved, db, saved', db')
    BY <1>1, CommitKnown DEF Data
  <2>2. UNCHANGED <<saved, wire, store, ui, behind, open>>
    BY <1>1 DEF Commit
  <2>3. \A p \in Obj : Keeps(p, saved, behind, wire, saved', behind', wire')
    BY <2>2, SameKeeps
  <2>4. /\ AsksOK(ui'.asks, saved', db') /\ ShownOK(ui', saved', db')
        /\ StoreOK(store', saved', db', behind', wire')
    BY <2>1, <2>2, <2>3, HeldStays
  <2>5. \A i \in DOMAIN wire : wire[i].obj \in Obj /\ wire[i].ver \in Nat
    BY WireIs
  <2>6. WireOK(wire', saved', db')
    BY <2>1, <2>2, <2>5 DEF Data, WireOK, KnownStays
  <2> QED
    BY <2>1, <2>2, <2>4, <2>6 DEF Data
<1>2. ASSUME NEW c \in Comp, BatchDelete(c) PROVE Data'
  <2>1. SavedOK(saved', db') /\ KnownStays(saved, db, saved', db')
    BY <1>2, BatchDeleteKnown DEF Data
  <2>2. /\ UNCHANGED <<wire, store, ui, behind, open>> /\ saved'[c] = 0
        /\ \A o \in Obj : o # c => saved'[o] = saved[o]
    BY <1>2, BatchDeleteIs DEF BatchDelete
  <2>3. \A p \in Obj : Keeps(p, saved, behind, wire, saved', behind', wire')
    BY <1>2, BatchDeleteKeeps
  <2>4. /\ AsksOK(ui'.asks, saved', db') /\ ShownOK(ui', saved', db')
        /\ StoreOK(store', saved', db', behind', wire')
    BY <2>1, <2>2, <2>3, HeldStays
  <2>5. \A i \in DOMAIN wire : wire[i].obj \in Obj /\ wire[i].ver \in Nat
    BY WireIs
  <2>6. \A i \in DOMAIN wire : Known(wire[i].obj, wire[i].ver, saved', db')
    BY <2>1, <2>5 DEF Data, WireOK, KnownStays
  <2>7. \A i \in DOMAIN wire : LastOf(wire, i) => Fine(wire[i].obj, wire[i].ver, saved', {}, <<>>)
    <3> SUFFICES ASSUME NEW i \in DOMAIN wire, LastOf(wire, i)
                 PROVE  Fine(wire[i].obj, wire[i].ver, saved', {}, <<>>)
      OBVIOUS
    <3>1. Fine(wire[i].obj, wire[i].ver, saved, {}, <<>>)
      BY DEF Data, WireOK
    <3> QED
      BY <2>2, <2>5, <3>1 DEF Fine
  <2>8. WireOK(wire', saved', db')
    BY <2>2, <2>6, <2>7 DEF WireOK
  <2> QED
    BY <2>1, <2>2, <2>4, <2>8 DEF Data
<1>3. CASE Disconnect \/ Reconnect
  <2>1. UNCHANGED <<saved, db, store, ui>> /\ wire' \in {<<>>, wire} /\ (open' \/ wire' = <<>>)
    BY <1>3 DEF Disconnect, Reconnect
  <2>2. \A p \in Obj : Keeps(p, saved, behind, wire, saved', behind', wire')
    BY <1>3, DisconnectKeeps, SameKeeps DEF Reconnect
  <2>3. SavedOK(saved', db') /\ KnownStays(saved, db, saved', db')
    BY <2>1 DEF Data, KnownStays
  <2>4. /\ AsksOK(ui'.asks, saved', db') /\ ShownOK(ui', saved', db')
        /\ StoreOK(store', saved', db', behind', wire')
    BY <2>1, <2>2, <2>3, HeldStays
  <2>5. WireOK(wire', saved', db')
    BY <2>1 DEF Data, WireOK
  <2> QED
    BY <2>1, <2>3, <2>4, <2>5 DEF Data
<1> QED
  BY <1>1, <1>2, <1>3

LEMMA DeliverData ==
  ASSUME Shape, Data, Deliver
  PROVE  Data'
<1> DEFINE o == Head(wire).obj
           v == Head(wire).ver
<1>1. /\ Head(wire) = wire[1] /\ 1 \in DOMAIN wire /\ o \in Obj /\ v \in Versions /\ v > 0
      /\ wire # <<>>
      /\ \A i \in DOMAIN Tail(wire) : Tail(wire)[i] = wire[i + 1] /\ i + 1 \in DOMAIN wire
      /\ \A i \in DOMAIN wire : i # 1 => i - 1 \in DOMAIN Tail(wire)
                                         /\ Tail(wire)[i - 1] = wire[i]
  BY HeadIs DEF Deliver
<1>2. /\ store' = IF o \in Entity THEN [store EXCEPT ![o] = v] ELSE store
      /\ ui' = IF o \in Env THEN Emitted(ui, store', fetched)
               ELSE IF o \in Comp THEN ComponentsEmitted(ui, store', Owner[o], {o})
               ELSE AuditHeard(o, v)
      /\ wire' = Tail(wire)
      /\ UNCHANGED <<saved, db, open, fetched>>
  BY DEF Deliver
<1>3. \A p \in Obj : IF p = o THEN Fine(o, v, saved', behind', wire')
                     ELSE Keeps(p, saved, behind, wire, saved', behind', wire')
  BY DeliverKeeps DEF Data
<1>4. Known(o, v, saved, db)
  BY <1>1 DEF Data, WireOK
<1>5. /\ \A x \in Obj : saved[x] \in Nat
      /\ store \in [Entity -> Versions] /\ PageShape(ui, store, fetched)
      /\ store' \in [Entity -> Versions] /\ wire \in Seq(WireMessage)
      /\ wire' \in Seq(WireMessage)
  <2>1. Shape'
    BY DeliverShape
  <2> QED
    BY <2>1, SavedIs DEF Data, Shape, DataTypes
<1> HIDE DEF o, v
<1>6. \A x \in Entity : store'[x] = IF x = o THEN v ELSE store[x]
  BY <1>2, <1>5
<1>7. StoreOK(store', saved', db', behind', wire')
  <2>1. \A x \in Entity : Known(x, store'[x], saved, db)
    BY <1>4, <1>6 DEF Data, StoreOK
  <2>2. ASSUME NEW c \in Comp, store'[c] > 0 \/ Start[c] = 0
        PROVE  Fine(c, store'[c], saved', behind', wire')
    <3>1. c \in Entity /\ c \in Obj
      BY Sorts
    <3>2. CASE c = o
      BY <1>3, <1>6, <3>1, <3>2
    <3>3. CASE c # o
      <4>1. store'[c] = store[c]
        BY <1>6, <3>1, <3>3
      <4>2. Fine(c, store[c], saved, behind, wire)
        BY <2>2, <4>1 DEF Data, StoreOK
      <4>3. Keeps(c, saved, behind, wire, saved', behind', wire')
        BY <1>3, <3>1, <3>3
      <4> QED
        BY <4>1, <4>2, <4>3 DEF Keeps
    <3> QED
      BY <3>2, <3>3
  <2> QED
    BY <1>2, <2>1, <2>2 DEF StoreOK
<1>8. WireOK(wire', saved', db')
  <2>1. DOMAIN wire = 1..Len(wire) /\ DOMAIN wire' \subseteq Nat
    BY <1>5, LenProperties
  <2>2. ASSUME NEW i \in DOMAIN wire', LastOf(wire', i)
        PROVE  LastOf(wire, i + 1)
    <3> SUFFICES ASSUME NEW j \in DOMAIN wire, j > i + 1
                 PROVE  wire[j].obj # wire[i + 1].obj
      BY DEF LastOf
    <3>1. j \in Nat /\ i \in Nat
      BY <2>1
    <3>2. j - 1 \in DOMAIN wire' /\ wire'[j - 1] = wire[j] /\ j - 1 > i
      BY <1>1, <1>2, <3>1
    <3>3. wire'[i] = wire[i + 1]
      BY <1>1, <1>2
    <3> QED
      BY <2>2, <3>2, <3>3 DEF LastOf
  <2>3. ASSUME NEW i \in DOMAIN wire'
        PROVE  /\ Known(wire'[i].obj, wire'[i].ver, saved, db)
               /\ LastOf(wire', i) => Fine(wire'[i].obj, wire'[i].ver, saved, {}, <<>>)
    <3>1. i + 1 \in DOMAIN wire /\ wire'[i] = wire[i + 1]
      BY <1>1, <1>2
    <3> QED
      BY <2>2, <3>1 DEF Data, WireOK
  <2> QED
    BY <1>2, <2>3 DEF WireOK
<1>9. AsksOK(ui'.asks, saved, db) /\ ShownOK(ui', saved, db)
  <2>0. \A x \in Entity : Known(x, store'[x], saved, db)
    BY <1>4, <1>6 DEF Data, StoreOK
  <2>1. ui \in Page /\ AsksOK(ui.asks, saved, db) /\ ShownOK(ui, saved, db)
    BY DEF Data, Shape, PageShape
  <2>2. CASE o \in Env
    <3>1. Looks(ui, store', fetched) => ui.selected = None
      BY <1>5, SelectedIsHere DEF Looks
    <3>2. ui' = Emitted(ui, store', fetched)
      BY <1>2, <2>2
    <3> QED
      BY <1>5, <2>0, <2>1, <3>1, <3>2, EmittedData
  <2>3. CASE o \in Comp
    <3>1. Owner[o] \in Env /\ ui' = ComponentsEmitted(ui, store', Owner[o], {o})
      BY <1>2, <2>3, Sorts
    <3> QED
      BY <1>5, <2>0, <2>1, <3>1, ComponentsEmittedData
  <2>4. CASE o \notin Entity
    <3>1. o \notin Env /\ o \notin Comp /\ ui' = AuditHeard(o, v)
      BY <1>2, <2>4, Sorts
    <3>2. ui'.asks = ui.asks /\ ui'.shown = ui.shown
      BY <2>1, <3>1 DEF AuditHeard, Page
    <3> QED
      BY <2>1, <3>2 DEF ShownOK
  <2> QED
    BY <2>2, <2>3, <2>4 DEF Entity
<1>10. open' \/ wire' = <<>>
  BY <1>1, <1>2 DEF Data
<1> QED
  BY <1>2, <1>7, <1>8, <1>9, <1>10 DEF Data

LEMMA ReadIs ==
  ASSUME Shape, NEW a \in ui.asks, Read(a)
  PROVE  /\ ui' \in Page
         /\ \A k, o, n : Pending(ui.asks, k, o, n) => Pending(ui'.asks, k, o, n)
         /\ \A b \in ui'.asks : b \in ui.asks \/ \A o \in Obj : b.data[o] \in {0, db[o]}
         /\ ui'.page = ui.page /\ ui'.environment = ui.environment /\ ui'.loading = ui.loading
         /\ ui'.shown = ui.shown /\ ui'.envAudit = ui.envAudit /\ ui'.envHeard = ui.envHeard
         /\ ui'.envLeak = ui.envLeak /\ ui'.selected = ui.selected
         /\ ui'.compAudit = ui.compAudit /\ ui'.compHeard = ui.compHeard
         /\ ui'.compLeaks = ui.compLeaks /\ ui'.workflow = ui.workflow /\ ui'.view = ui.view
         /\ UNCHANGED <<saved, db, wire, open, store, fetched, behind, late, revisited>>
<1> DEFINE d == [o \in Obj |-> IF o \in Asked(a) THEN db[o] ELSE 0]
           b == [a EXCEPT !.read = TRUE, !.data = d]
           A == (ui.asks \ {a}) \cup {b}
<1>1. d \in [Obj -> Versions]
  BY Sorts DEF Shape, DataTypes
<1>2. \A o \in Obj : d[o] \in {0, db[o]}
  OBVIOUS
<1>3. ui' = [ui EXCEPT !.asks = A]
  BY DEF Read
<1> HIDE DEF d
<1>4. b \in Ask /\ b.kind = a.kind /\ b.of = a.of /\ b.ver = a.ver /\ b.data = d
  BY <1>1, AskIs DEF Ask
<1> HIDE DEF b
<1>5. A \in SUBSET Ask
  BY <1>4, AskIs
<1>6. \A k, o, n : Pending(ui.asks, k, o, n) => Pending(A, k, o, n)
  BY <1>4 DEF Pending
<1>7. \A x \in A : x \in ui.asks \/ \A o \in Obj : x.data[o] \in {0, db[o]}
  BY <1>2, <1>4
<1> HIDE DEF A
<1>8. ui \in Page
  BY DEF Shape, PageShape
<1>9. UNCHANGED <<saved, db, wire, open, store, fetched, behind, late, revisited>>
  BY DEF Read
<1>10. /\ ui' \in Page /\ ui'.asks = A
       /\ ui'.page = ui.page /\ ui'.environment = ui.environment /\ ui'.loading = ui.loading
       /\ ui'.shown = ui.shown /\ ui'.envAudit = ui.envAudit /\ ui'.envHeard = ui.envHeard
       /\ ui'.envLeak = ui.envLeak /\ ui'.selected = ui.selected
       /\ ui'.compAudit = ui.compAudit /\ ui'.compHeard = ui.compHeard
       /\ ui'.compLeaks = ui.compLeaks /\ ui'.workflow = ui.workflow /\ ui'.view = ui.view
  BY <1>3, <1>5, <1>8, WithoutIs
<1> QED
  BY <1>6, <1>7, <1>9, <1>10

LEMMA ReadData ==
  ASSUME Shape, Data, NEW a \in ui.asks, Read(a)
  PROVE  Data'
<1>1. /\ \A b \in ui'.asks : b \in ui.asks \/ \A o \in Obj : b.data[o] \in {0, db[o]}
      /\ ui'.shown = ui.shown
      /\ UNCHANGED <<saved, db, wire, open, store, fetched, behind, late, revisited>>
  BY ReadIs
<1>2. /\ \A p \in Obj : db[p] \in Nat /\ saved[p] \in Nat /\ db[p] <= saved[p]
      /\ \A e \in Env : Start[e] <= db[e]
  BY SavedIs DEF Data
<1>3. \A o \in Obj : Known(o, 0, saved, db) /\ Known(o, db[o], saved, db)
  BY <1>2 DEF Known
<1>4. AsksOK(ui'.asks, saved, db)
  <2> SUFFICES ASSUME NEW b \in ui'.asks, NEW o \in Obj PROVE Known(o, b.data[o], saved, db)
    BY DEF AsksOK
  <2>1. CASE b \in ui.asks
    BY <2>1 DEF Data, AsksOK
  <2>2. CASE b.data[o] \in {0, db[o]}
    BY <1>3, <2>2
  <2> QED
    BY <1>1, <2>1, <2>2
<1>5. ShownOK(ui', saved, db)
  BY <1>1 DEF Data, ShownOK
<1> QED
  BY <1>1, <1>4, <1>5 DEF Data

\* What the store has after an answer, of what was asked for and of the rest.
LEMMA FetchedStore ==
  ASSUME Shape, Data, NEW a \in ui.asks, store' = Fetched(a),
         a.kind \in {"teams", "allTeams", "comps"},
         Overtaken(a), UNCHANGED <<saved, db, wire>>
  PROVE  /\ StoreOK(store', saved, db, behind', wire')
         /\ \A o \in Entity : Known(o, store'[o], saved, db)
         /\ \A c \in Comp : a.kind = "comps" /\ Owner[c] = a.of =>
              (store'[c] > 0 => Fine(c, store'[c], saved', behind', wire'))
              /\ (store'[c] = 0 => Fine(c, 0, saved', behind', wire'))
<1>1. /\ store \in [Entity -> Versions] /\ a.data \in [Obj -> Versions]
      /\ \A o \in Obj : o \notin Asked(a) => a.data[o] = 0
  BY AskIs DEF Shape, DataTypes
<1>2. \A o \in Entity : store'[o] = IF a.data[o] > 0 THEN a.data[o] ELSE store[o]
  BY DEF Fetched
<1>3. \A o \in Entity : Known(o, store'[o], saved, db)
  <2>1. \A o \in Entity : Known(o, a.data[o], saved, db)
    BY Sorts DEF Data, AsksOK
  <2>2. \A o \in Entity : Known(o, store[o], saved, db)
    BY DEF Data, StoreOK
  <2> QED
    BY <1>2, <2>1, <2>2
<1>4. ASSUME NEW c \in Comp
      PROVE  /\ store'[c] > 0 \/ Start[c] = 0 => Fine(c, store'[c], saved', behind', wire')
             /\ a.kind = "comps" /\ Owner[c] = a.of =>
                  (store'[c] > 0 => Fine(c, store'[c], saved', behind', wire'))
                  /\ (store'[c] = 0 => Fine(c, 0, saved', behind', wire'))
  <2>0. c \in Obj /\ c \in Entity /\ a.data[c] \in Nat /\ store[c] \in Nat
    BY <1>1, Sorts
  <2>1. /\ c \in Asked(a) => Fine(c, a.data[c], saved', behind', wire')
        /\ c \notin Asked(a) => Keeps(c, saved, behind, wire, saved', behind', wire')
    BY <2>0, OvertakenKeeps
  <2>2. CASE c \notin Asked(a)
    <3>1. store'[c] = store[c]
      BY <1>1, <1>2, <2>0, <2>2
    <3>2. ~(a.kind = "comps" /\ Owner[c] = a.of)
      BY <2>2, AskedIs
    <3>3. store[c] > 0 \/ Start[c] = 0 => Fine(c, store[c], saved, behind, wire)
      BY DEF Data, StoreOK
    <3> QED
      BY <2>1, <2>2, <3>1, <3>2, <3>3 DEF Keeps
  <2>3. CASE c \in Asked(a) /\ a.data[c] > 0
    BY <1>2, <2>0, <2>1, <2>3
  <2>4. CASE c \in Asked(a) /\ a.data[c] = 0
    <3>1. store'[c] = store[c]
      BY <1>2, <2>0, <2>4
    <3>2. Fine(c, 0, saved', behind', wire')
      BY <2>1, <2>4
    <3>3. store[c] > 0 => Fine(c, store[c], saved', behind', wire')
      <4>1. CASE Excused(c, behind', wire')
        BY <4>1 DEF Fine
      <4>2. CASE ~Excused(c, behind', wire')
        BY <3>2, <4>2 DEF Fine
      <4> QED
        BY <4>1, <4>2
    <3> QED
      BY <2>0, <3>1, <3>2, <3>3
  <2> QED
    BY <2>0, <2>2, <2>3, <2>4
<1> QED
  BY <1>3, <1>4 DEF StoreOK

LEMMA FewerAsks ==
  ASSUME Shape, Data, NEW a \in ui.asks
  PROVE  /\ Without(a) \in Page /\ Without(a).asks = ui.asks \ {a}
         /\ AsksOK(ui.asks \ {a}, saved, db)
         /\ AsksOK(Without(a).asks, saved, db) /\ ShownOK(Without(a), saved, db)
<1>1. ui \in Page /\ ui.asks \ {a} \in SUBSET Ask
  BY AskIs DEF Shape, PageShape
<1>2. /\ Without(a) \in Page /\ Without(a).asks = ui.asks \ {a}
      /\ Without(a).shown = ui.shown
  BY <1>1, WithoutIs DEF Without
<1>3. AsksOK(ui.asks \ {a}, saved, db)
  BY DEF Data, AsksOK
<1>4. ShownOK(Without(a), saved, db)
  BY <1>2 DEF Data, ShownOK
<1> QED
  BY <1>2, <1>3, <1>4

LEMMA GetTeamsData ==
  ASSUME Shape, Data, NEW a \in ui.asks, GetTeams(a)
  PROVE  Data'
<1> DEFINE u == Remade(a)
<1>1. /\ store' = Fetched(a) /\ ui' = Emitted(u, store', fetched')
      /\ Overtaken(a) /\ a.kind \in {"teams", "allTeams"}
      /\ UNCHANGED <<saved, db, wire, open>>
  BY DEF GetTeams
<1>2. u \in Page /\ AsksOK(u.asks, saved, db) /\ ShownOK(u, saved, db)
  <2>1. ui \in Page /\ ui.asks \ {a} \in SUBSET Ask
    BY AskIs DEF Shape, PageShape
  <2>2. u \in Page /\ u.asks = ui.asks \ {a} /\ u.shown = ui.shown
    BY <2>1, RemadeIs
  <2> HIDE DEF u
  <2> QED
    BY <2>2, FewerAsks DEF Data, ShownOK
<1> HIDE DEF u
<1>3. /\ StoreOK(store', saved, db, behind', wire')
      /\ \A o \in Entity : Known(o, store'[o], saved, db)
  BY <1>1, FetchedStore
<1>4. store' \in [Entity -> Versions] /\ (Looks(u, store', fetched') => u.selected = None)
  BY <1>1, GetTeamsShape, FetchedType DEF u
<1>5. \A o \in Obj : saved[o] \in Nat
  BY SavedIs DEF Data
<1>6. AsksOK(ui'.asks, saved, db) /\ ShownOK(ui', saved, db)
  BY <1>1, <1>2, <1>3, <1>4, <1>5, EmittedData
<1> QED
  BY <1>1, <1>3, <1>6 DEF Data

LEMMA GetComponentsData ==
  ASSUME Shape, Data, NEW a \in ui.asks, GetComponents(a)
  PROVE  Data'
<1> DEFINE u == Without(a)
           changed == {c \in Comp : a.data[c] > 0}
<1>1. /\ store' = Fetched(a) /\ ui' = ComponentsEmitted(u, store', a.of, changed)
      /\ Overtaken(a) /\ a.kind = "comps" /\ a.of \in Env
      /\ UNCHANGED <<saved, db, wire, open>>
  BY AskIs DEF GetComponents
<1>2. u \in Page /\ AsksOK(u.asks, saved, db) /\ ShownOK(u, saved, db)
  BY FewerAsks
<1> HIDE DEF u, changed
<1>3. /\ StoreOK(store', saved, db, behind', wire')
      /\ \A o \in Entity : Known(o, store'[o], saved, db)
  BY <1>1, FetchedStore
<1>4. store' \in [Entity -> Versions]
  BY <1>1, FetchedType
<1>5. \A o \in Obj : saved[o] \in Nat
  BY SavedIs DEF Data
<1>6. AsksOK(ui'.asks, saved, db) /\ ShownOK(ui', saved, db)
  BY <1>1, <1>2, <1>3, <1>4, <1>5, ComponentsEmittedData
<1> QED
  BY <1>1, <1>3, <1>6 DEF Data

\* An answer about rows leaves the components as they are.
LEMMA OtherAnswersData ==
  ASSUME Shape, Data, NEW a \in ui.asks, GetEnvironment(a) \/ GetComponent(a) \/ GetWorkflowData(a)
  PROVE  Data'
<1>1. ui'.asks = ui.asks \ {a} /\ ui'.shown = ui.shown
  BY GetEnvironmentIs, GetComponentIs, GetWorkflowDataIs
<1>2. AsksOK(ui'.asks, saved, db) /\ ShownOK(ui', saved, db)
  BY <1>1, FewerAsks DEF Data, ShownOK
<1>3. UNCHANGED <<saved, db, wire, open, store>>
  BY DEF GetEnvironment, GetComponent, GetWorkflowData
<1>4. \A c \in Comp : Keeps(c, saved, behind, wire, saved', behind', wire')
  <2>1. CASE GetWorkflowData(a)
    BY <2>1, SameKeeps DEF GetWorkflowData
  <2>2. CASE GetEnvironment(a) \/ GetComponent(a)
    <3>1. Overtaken(a) /\ a.kind \in {"envAudit", "compAudit"}
      BY <2>2 DEF GetEnvironment, GetComponent
    <3>2. \A c \in Comp : c \notin Asked(a) /\ c \in Obj
      BY <3>1, AskedIs, Sorts
    <3> QED
      BY <1>3, <3>1, <3>2, OvertakenKeeps
  <2> QED
    BY <2>1, <2>2
<1>5. StoreOK(store, saved, db, behind', wire')
  BY <1>3, <1>4 DEF Data, StoreOK, Keeps
<1> QED
  BY <1>2, <1>3, <1>5 DEF Data

LEMMA UserData ==
  ASSUME Shape, Data,
         (\E p \in Env \cup {All} : Visit(p)) \/ (\E c \in Comp : Select(c))
  PROVE  Data'
<1>1. \A o \in Obj : saved[o] \in Nat
  BY SavedIs DEF Data
<1>2. ASSUME NEW p \in Env \cup {All}, Visit(p) PROVE Data'
  <2> DEFINE w == Entered(p)
  <2>1. /\ ui' = Emitted(w, store, fetched) /\ w \in Page /\ w.shown = [c \in Comp |-> 0]
        /\ w.selected = None /\ Grown(ui'.asks, ui.asks)
        /\ UNCHANGED <<saved, db, wire, store, behind>>
    BY <1>2, VisitIs
  <2>2. Grown(w.asks, ui.asks)
    BY EnteredIs
  <2> HIDE DEF w
  <2>3. AsksOK(w.asks, saved, db)
    BY <1>1, <2>2, AsksGrown DEF Data
  <2>4. ShownOK(w, saved, db)
    BY <1>1, <2>1, ZeroKnown, Sorts DEF ShownOK
  <2>5. store \in [Entity -> Versions] /\ \A o \in Entity : Known(o, store[o], saved, db)
    BY DEF Data, StoreOK, Shape, DataTypes
  <2>6. AsksOK(ui'.asks, saved, db) /\ ShownOK(ui', saved, db)
    BY <1>1, <2>1, <2>3, <2>4, <2>5, EmittedData
  <2>7. open' = open
    BY <1>2 DEF Visit
  <2> QED
    BY <2>1, <2>6, <2>7 DEF Data
<1>3. ASSUME NEW c \in Comp, Select(c) PROVE Data'
  <2>1. /\ Grown(ui'.asks, ui.asks) /\ ui'.shown = ui.shown
        /\ UNCHANGED <<saved, db, wire, open, store, behind>>
    BY <1>3, SelectIs
  <2>2. AsksOK(ui'.asks, saved, db) /\ ShownOK(ui', saved, db)
    BY <1>1, <2>1, AsksGrown DEF Data, ShownOK
  <2> QED
    BY <2>1, <2>2 DEF Data
<1> QED
  BY <1>2, <1>3

LEMMA DataStep ==
  ASSUME Shape, Data, [Next]_vars
  PROVE  Data'
<1>1. CASE UNCHANGED vars
  BY <1>1 DEF vars, Data
<1>2. CASE Next
  <2>1. ASSUME NEW o \in Obj, Save(o), o \in Env => saved[o] < Len(DagAt[o]),
               o \in Comp /\ saved[o] = 0 => o \in Dag(Owner[o], db[Owner[o]])
        PROVE  Data'
    BY <2>1, SaveData
  <2>2. ASSUME NEW c \in Comp, BatchDelete(c) \/ Select(c) PROVE Data'
    BY <2>2, ApiData, UserData
  <2>3. ASSUME NEW o \in Obj, Commit(o) PROVE Data'
    BY <2>3, ApiData
  <2>4. CASE Disconnect \/ Reconnect
    BY <2>4, ApiData
  <2>5. CASE Deliver
    BY <2>5, DeliverData
  <2>6. ASSUME NEW a \in ui.asks,
               \/ Read(a) \/ GetTeams(a) \/ GetComponents(a)
               \/ GetEnvironment(a) \/ GetComponent(a) \/ GetWorkflowData(a)
        PROVE  Data'
    BY <2>6, ReadData, GetTeamsData, GetComponentsData, OtherAnswersData
  <2>7. ASSUME NEW p \in Env \cup {All}, Visit(p) PROVE Data'
    BY <2>7, UserData
  <2> QED
    BY <1>2, <2>1, <2>2, <2>3, <2>4, <2>5, <2>6, <2>7, NextIs
<1> QED
  BY <1>1, <1>2

------------------------------------------------------------------------------
(* What a step does to the page, as far as the properties look at it.      *)

\* The steps that the page does not see.
Quiet ==
  /\ \A k, o, n : Pending(ui.asks, k, o, n) => Pending(ui'.asks, k, o, n)
  /\ ui'.page = ui.page /\ ui'.environment = ui.environment /\ ui'.loading = ui.loading
  /\ ui'.shown = ui.shown /\ ui'.envAudit = ui.envAudit /\ ui'.envHeard = ui.envHeard
  /\ ui'.envLeak = ui.envLeak /\ ui'.selected = ui.selected
  /\ ui'.compAudit = ui.compAudit /\ ui'.compHeard = ui.compHeard
  /\ ui'.compLeaks = ui.compLeaks /\ ui'.workflow = ui.workflow /\ ui'.view = ui.view
  /\ late' = late /\ revisited' = revisited

\* What is saved of an environment grows, and what was deleted stays so.
Grows ==
  /\ \A c \in Comp : Gone(c, saved[Owner[c]]) => Gone(c, saved'[Owner[c]])
  /\ KnownStays(saved, db, saved', db')
  /\ \A o \in Obj : Keeps(o, saved, behind, wire, saved', behind', wire')

LEMMA GrowsIs ==
  ASSUME Shape, Data, SavedOK(saved', db'),
         \A e \in Env : saved'[e] >= saved[e] /\ saved'[e] \in Nat
  PROVE  \A c \in Comp : Gone(c, saved[Owner[c]]) => Gone(c, saved'[Owner[c]])
<1> SUFFICES ASSUME NEW c \in Comp, Gone(c, saved[Owner[c]])
             PROVE  Gone(c, saved'[Owner[c]])
  OBVIOUS
<1>1. Owner[c] \in Env /\ saved[Owner[c]] \in Nat
  BY Sorts, SavedIs DEF Data
<1>2. /\ saved'[Owner[c]] \in Nat /\ saved[Owner[c]] <= saved'[Owner[c]]
      /\ saved'[Owner[c]] <= Len(DagAt[Owner[c]])
  BY <1>1 DEF SavedOK
<1> QED
  BY <1>1, <1>2, GoneStays

LEMMA QuietSteps ==
  ASSUME Shape, Data,
         \/ \E o \in Obj : Save(o) /\ (o \in Env => saved[o] < Len(DagAt[o]))
                       /\ (o \in Comp /\ saved[o] = 0 => o \in Dag(Owner[o], db[Owner[o]]))
         \/ \E o \in Obj : Commit(o)
         \/ \E c \in Comp : BatchDelete(c)
         \/ Disconnect \/ Reconnect
         \/ \E a \in ui.asks : Read(a)
         \/ UNCHANGED vars
  PROVE  Quiet /\ Grows
<1>0. \A e \in Env : e \in Obj /\ saved[e] \in Nat
  BY SavedIs, Sorts DEF Data
<1>1. ASSUME NEW o \in Obj, Save(o), o \in Env => saved[o] < Len(DagAt[o]),
             o \in Comp /\ saved[o] = 0 => o \in Dag(Owner[o], db[Owner[o]])
      PROVE  Quiet /\ Grows
  <2>1. UNCHANGED <<ui, late, revisited>> /\ saved'[o] = saved[o] + 1 /\ saved[o] \in Nat
        /\ \A p \in Obj : p # o => saved'[p] = saved[p]
    BY <1>1, SaveIs
  <2>2. SavedOK(saved', db') /\ KnownStays(saved, db, saved', db')
    BY <1>1, SaveKnown DEF Data
  <2>3. \A e \in Env : saved'[e] >= saved[e] /\ saved'[e] \in Nat
    BY <1>0, <2>1
  <2>4. \A p \in Obj : Keeps(p, saved, behind, wire, saved', behind', wire')
    BY <1>1, SaveKeeps
  <2> QED
    BY <2>1, <2>2, <2>3, <2>4, GrowsIs DEF Quiet, Grows
<1>2. ASSUME NEW o \in Obj, Commit(o) PROVE Quiet /\ Grows
  <2>1. UNCHANGED <<ui, late, revisited, saved, behind, wire>>
    BY <1>2 DEF Commit
  <2>2. KnownStays(saved, db, saved', db')
    BY <1>2, CommitKnown DEF Data
  <2> QED
    BY <2>1, <2>2, SameKeeps DEF Quiet, Grows
<1>3. ASSUME NEW c \in Comp, BatchDelete(c) PROVE Quiet /\ Grows
  <2>1. UNCHANGED <<ui, late, revisited>> /\ \A o \in Obj : o # c => saved'[o] = saved[o]
    BY <1>3, BatchDeleteIs
  <2>2. SavedOK(saved', db') /\ KnownStays(saved, db, saved', db')
    BY <1>3, BatchDeleteKnown DEF Data
  <2>3. \A e \in Env : saved'[e] >= saved[e] /\ saved'[e] \in Nat
    BY <1>0, <2>1, Sorts
  <2>4. \A p \in Obj : Keeps(p, saved, behind, wire, saved', behind', wire')
    BY <1>3, BatchDeleteKeeps
  <2> QED
    BY <2>1, <2>2, <2>3, <2>4, GrowsIs DEF Quiet, Grows
<1>4. CASE Disconnect \/ Reconnect
  <2>1. UNCHANGED <<ui, late, revisited, saved, db>>
    BY <1>4 DEF Disconnect, Reconnect
  <2>2. \A p \in Obj : Keeps(p, saved, behind, wire, saved', behind', wire')
    BY <1>4, DisconnectKeeps, SameKeeps DEF Reconnect
  <2> QED
    BY <2>1, <2>2 DEF Quiet, Grows, KnownStays
<1>5. ASSUME NEW a \in ui.asks, Read(a) PROVE Quiet /\ Grows
  <2>1. Quiet /\ UNCHANGED <<saved, db, behind, wire>>
    BY <1>5, ReadIs DEF Quiet
  <2> QED
    BY <2>1, SameKeeps DEF Grows, KnownStays
<1>6. CASE UNCHANGED vars
  <2>1. UNCHANGED <<ui, late, revisited, saved, db, behind, wire>>
    BY <1>6 DEF vars
  <2> QED
    BY <2>1, SameKeeps DEF Quiet, Grows, KnownStays
<1> QED
  BY <1>1, <1>2, <1>3, <1>4, <1>5, <1>6

\* The page hears of environments.
Emits ==
  /\ \A k, o, n : k \notin {"teams", "allTeams"} /\ Pending(ui.asks, k, o, n) =>
       Pending(ui'.asks, k, o, n)
  /\ ui'.page = ui.page /\ ui'.envAudit = ui.envAudit /\ ui'.envLeak = ui.envLeak
  /\ ui'.selected = ui.selected /\ ui'.compAudit = ui.compAudit
  /\ ui'.compLeaks = ui.compLeaks /\ ui'.workflow = ui.workflow /\ ui'.view = ui.view
  /\ ui'.compHeard = ui.compHeard \/ Pending(ui'.asks, "compAudit", ui.selected, 0)
  /\ late' = CacheLate(ui, store', fetched') /\ revisited' = revisited
  /\ IF Looks(ui, store', fetched')
     THEN LET e == ui.page
              comps == CompsOf(store', e)
          IN  /\ ui.selected = None /\ ui'.environment = e
              /\ Pending(ui'.asks, "envAudit", e, 0)
              /\ IF Cached(store', e) /\ comps # {}
                 THEN /\ ~ui'.loading
                      /\ ui'.shown = [c \in Comp |-> IF c \in comps THEN store'[c] ELSE 0]
                 ELSE ui'.loading = ui.loading /\ ui'.shown = ui.shown
              /\ ~Cached(store', e) => Pending(ui'.asks, "comps", e, 0)
     ELSE /\ ui'.environment = ui.environment /\ ui'.envHeard = ui.envHeard
          /\ ui.page # All => ui'.loading = ui.loading /\ ui'.shown = ui.shown

\* EmittedIs, for a v that has a name.
LEMMA EmittedNamed ==
  ASSUME NEW u \in Page, NEW st \in [Entity -> Versions], NEW f, NEW v,
         Looks(u, st, f) => u.selected = None, v = Emitted(u, st, f)
  PROVE  /\ Follows(v, u) /\ v.workflow = u.workflow
         /\ u.page = All => v.environment = u.environment /\ v.envHeard = u.envHeard
         /\ Looks(u, st, f) =>
              /\ v.environment = u.page /\ Pending(v.asks, "envAudit", u.page, 0)
              /\ IF Cached(st, u.page) /\ CompsOf(st, u.page) # {}
                 THEN /\ ~v.loading
                      /\ v.shown = [c \in Comp |-> IF c \in CompsOf(st, u.page) THEN st[c] ELSE 0]
                 ELSE v.loading = u.loading /\ v.shown = u.shown
              /\ ~Cached(st, u.page) => Pending(v.asks, "comps", u.page, 0)
         /\ u.page # All /\ ~Looks(u, st, f) => v = u
<1>1. EmittedTo(v, u, st, f)
  BY EmittedIs
<1> QED
  BY <1>1 DEF EmittedTo

LEMMA EmitsIs ==
  ASSUME Shape, NEW u \in Page,
         store' \in [Entity -> Versions],
         u.page = ui.page, u.environment = ui.environment, u.loading = ui.loading,
         u.shown = ui.shown, u.envAudit = ui.envAudit, u.envHeard = ui.envHeard,
         u.envLeak = ui.envLeak, u.selected = ui.selected, u.compAudit = ui.compAudit,
         u.compHeard = ui.compHeard, u.compLeaks = ui.compLeaks, u.workflow = ui.workflow,
         u.view = ui.view,
         \A k, o, n : k \notin {"teams", "allTeams"} /\ Pending(ui.asks, k, o, n) =>
           Pending(u.asks, k, o, n),
         ui' = Emitted(u, store', fetched'),
         late' = CacheLate(ui, store', fetched'), revisited' = revisited
  PROVE  Emits
<1> DEFINE st == store'
           f == fetched'
           v == ui'
<1>1. Looks(u, st, f) <=> Looks(ui, st, f)
  BY DEF Looks
<1>2. Looks(ui, st, f) => ui.selected = None
  BY SelectedIsHere DEF Looks, Shape
<1>3. st \in [Entity -> Versions] /\ (Looks(u, st, f) => u.selected = None)
  BY <1>1, <1>2
<1>9. v = Emitted(u, st, f)
  OBVIOUS
<1> HIDE DEF st, f, v
<1>4. /\ Follows(v, u) /\ v.workflow = u.workflow
      /\ u.page = All => v.environment = u.environment /\ v.envHeard = u.envHeard
      /\ Looks(u, st, f) =>
           /\ v.environment = u.page /\ Pending(v.asks, "envAudit", u.page, 0)
           /\ IF Cached(st, u.page) /\ CompsOf(st, u.page) # {}
              THEN /\ ~v.loading
                   /\ v.shown = [c \in Comp |-> IF c \in CompsOf(st, u.page) THEN st[c] ELSE 0]
              ELSE v.loading = u.loading /\ v.shown = u.shown
           /\ ~Cached(st, u.page) => Pending(v.asks, "comps", u.page, 0)
      /\ u.page # All /\ ~Looks(u, st, f) => v = u
  BY <1>3, <1>9, EmittedNamed
<1>5. \A k, o, n : k \notin {"teams", "allTeams"} /\ Pending(ui.asks, k, o, n) =>
        Pending(v.asks, k, o, n)
  BY <1>4 DEF Follows, Grown
<1>6. /\ v.page = ui.page /\ v.envAudit = ui.envAudit /\ v.envLeak = ui.envLeak
      /\ v.selected = ui.selected /\ v.compAudit = ui.compAudit
      /\ v.compLeaks = ui.compLeaks /\ v.workflow = ui.workflow /\ v.view = ui.view
      /\ v.compHeard = ui.compHeard \/ Pending(v.asks, "compAudit", ui.selected, 0)
  BY <1>4 DEF Follows
<1>7. CASE Looks(ui, st, f)
  <2>1. /\ v.environment = ui.page /\ Pending(v.asks, "envAudit", ui.page, 0)
        /\ IF Cached(st, ui.page) /\ CompsOf(st, ui.page) # {}
           THEN /\ ~v.loading
                /\ v.shown = [c \in Comp |-> IF c \in CompsOf(st, ui.page) THEN st[c] ELSE 0]
           ELSE v.loading = ui.loading /\ v.shown = ui.shown
        /\ ~Cached(st, ui.page) => Pending(v.asks, "comps", ui.page, 0)
    BY <1>1, <1>4, <1>7
  <2> QED
    BY <1>2, <1>5, <1>6, <1>7, <2>1 DEF Emits, st, f, v
<1>8. CASE ~Looks(ui, st, f)
  <2>1. /\ v.environment = ui.environment /\ v.envHeard = ui.envHeard
        /\ ui.page # All => v.loading = ui.loading /\ v.shown = ui.shown
    BY <1>1, <1>4, <1>8
  <2> QED
    BY <1>5, <1>6, <1>8, <2>1 DEF Emits, st, f, v
<1> QED
  BY <1>7, <1>8

LEMMA DeliverEnvIs ==
  ASSUME Shape, Deliver, Head(wire).obj \in Env
  PROVE  Emits /\ UNCHANGED <<saved, db, fetched>>
<1>1. /\ ui' = Emitted(ui, store', fetched) /\ late' = CacheLate(ui, store', fetched)
      /\ UNCHANGED <<saved, db, fetched, revisited>>
  BY DEF Deliver
<1>2. store' \in [Entity -> Versions] /\ ui \in Page
  BY DeliverShape DEF Shape, DataTypes, PageShape
<1> QED
  BY <1>1, <1>2, EmitsIs

\* An answer that is taken leaves the others pending.
LEMMA StillPending ==
  ASSUME NEW A, NEW a
  PROVE  \A k, o, n : (k # a.kind \/ o # a.of) /\ Pending(A, k, o, n) =>
           Pending(A \ {a}, k, o, n)
BY DEF Pending

LEMMA GetTeamsIs ==
  ASSUME Shape, NEW a \in ui.asks, GetTeams(a)
  PROVE  Emits /\ Overtaken(a) /\ UNCHANGED <<saved, db, wire>>
<1> DEFINE u == Remade(a)
           A == ui.asks \ {a}
<1>1. /\ ui' = Emitted(u, store', fetched') /\ late' = CacheLate(ui, store', fetched')
      /\ Overtaken(a) /\ a.kind \in {"teams", "allTeams"}
      /\ UNCHANGED <<saved, db, wire, revisited>>
  BY DEF GetTeams
<1>2. store' \in [Entity -> Versions] /\ ui \in Page
  BY GetTeamsShape DEF Shape, DataTypes, PageShape
<1>3. A \in SUBSET Ask
  BY AskIs
<1>4. /\ u \in Page /\ u.asks = A
      /\ u.page = ui.page /\ u.environment = ui.environment /\ u.loading = ui.loading
      /\ u.shown = ui.shown /\ u.envAudit = ui.envAudit /\ u.envHeard = ui.envHeard
      /\ u.envLeak = ui.envLeak /\ u.selected = ui.selected
      /\ u.compAudit = ui.compAudit /\ u.compHeard = ui.compHeard
      /\ u.compLeaks = ui.compLeaks /\ u.workflow = ui.workflow /\ u.view = ui.view
  BY <1>2, <1>3, RemadeIs
<1>5. \A k, o, n : k \notin {"teams", "allTeams"} /\ Pending(ui.asks, k, o, n) =>
           Pending(u.asks, k, o, n)
  BY <1>1, <1>4, StillPending
<1> HIDE DEF u
<1> QED
  BY <1>1, <1>2, <1>4, <1>5, EmitsIs

\* The page hears of components of e, after an answer or a message.
HearsOf(e) ==
  /\ \A k, o, n : (k # "comps" \/ o # e) /\ Pending(ui.asks, k, o, n) =>
       Pending(ui'.asks, k, o, n)
  /\ ui'.page = ui.page /\ ui'.environment = ui.environment /\ ui'.envAudit = ui.envAudit
  /\ ui'.envHeard = ui.envHeard /\ ui'.envLeak = ui.envLeak
  /\ ui'.selected = ui.selected /\ ui'.compAudit = ui.compAudit
  /\ ui'.compLeaks = ui.compLeaks /\ ui'.view = ui.view
  /\ ui'.compHeard = ui.compHeard \/ Pending(ui'.asks, "compAudit", ui.selected, 0)
  /\ \/ ui'.workflow = ui.workflow
     \/ ui'.workflow \in Run => Pending(ui'.asks, "run", ui'.workflow.comp, ui'.workflow.ver)
  /\ IF CompsOf(store', e) = {} \/ ui.environment # e
     THEN ui'.loading = ui.loading /\ ui'.shown = ui.shown /\ ui'.workflow = ui.workflow
     ELSE /\ ~ui'.loading
          /\ ui'.shown = [c \in Comp |-> IF c \in CompsOf(store', e) THEN store'[c] ELSE 0]
          /\ ui.selected # None =>
               /\ ui.selected \in CompsOf(store', e)
               /\ ui'.workflow = RunOf(ui.selected, store'[ui.selected])

LEMMA HearsOfIs ==
  ASSUME Shape, NEW u \in Page, NEW e \in Env, NEW changed,
         store' \in [Entity -> Versions], \A o \in Entity : store[o] > 0 => store'[o] > 0,
         u.page = ui.page, u.environment = ui.environment, u.loading = ui.loading,
         u.shown = ui.shown, u.envAudit = ui.envAudit, u.envHeard = ui.envHeard,
         u.envLeak = ui.envLeak, u.selected = ui.selected, u.compAudit = ui.compAudit,
         u.compHeard = ui.compHeard, u.compLeaks = ui.compLeaks, u.workflow = ui.workflow,
         u.view = ui.view,
         \A k, o, n : (k # "comps" \/ o # e) /\ Pending(ui.asks, k, o, n) =>
           Pending(u.asks, k, o, n),
         ui' = ComponentsEmitted(u, store', e, changed)
  PROVE  HearsOf(e) /\ (\A k, o, n : Pending(u.asks, k, o, n) => Pending(ui'.asks, k, o, n))
<1> DEFINE st == store'
           v == ui'
<1>1. st \in [Entity -> Versions] /\ v = ComponentsEmitted(u, st, e, changed)
      /\ \A o \in Entity : store[o] > 0 => st[o] > 0
  OBVIOUS
<1> HIDE DEF st, v
<1>2. /\ Follows(v, u) /\ v.environment = u.environment /\ v.envHeard = u.envHeard
      /\ CompsOf(st, e) = {} \/ u.environment # e => v = u
      /\ CompsOf(st, e) # {} /\ u.environment = e =>
           /\ ~v.loading
           /\ v.shown = [c \in Comp |-> IF c \in CompsOf(st, e) THEN st[c] ELSE 0]
           /\ u.selected \in CompsOf(st, e) => v.workflow = RunOf(u.selected, st[u.selected])
  BY <1>1, ComponentsEmittedIs
<1>3. \A k, o, n : Pending(u.asks, k, o, n) => Pending(v.asks, k, o, n)
  BY <1>2 DEF Follows, Grown
<1>4. /\ v.page = ui.page /\ v.environment = ui.environment /\ v.envAudit = ui.envAudit
      /\ v.envHeard = ui.envHeard /\ v.envLeak = ui.envLeak
      /\ v.selected = ui.selected /\ v.compAudit = ui.compAudit
      /\ v.compLeaks = ui.compLeaks /\ v.view = ui.view
      /\ v.compHeard = ui.compHeard \/ Pending(v.asks, "compAudit", ui.selected, 0)
      /\ \/ v.workflow = ui.workflow
         \/ v.workflow \in Run => Pending(v.asks, "run", v.workflow.comp, v.workflow.ver)
  BY <1>2 DEF Follows
<1>5. ui.selected # None /\ ui.environment = e => ui.selected \in CompsOf(st, e)
  BY <1>1, SelectedIsHere, Sorts DEF Shape, CompsOf
<1>6. IF CompsOf(st, e) = {} \/ ui.environment # e
      THEN v.loading = ui.loading /\ v.shown = ui.shown /\ v.workflow = ui.workflow
      ELSE /\ ~v.loading
           /\ v.shown = [c \in Comp |-> IF c \in CompsOf(st, e) THEN st[c] ELSE 0]
           /\ ui.selected # None =>
                /\ ui.selected \in CompsOf(st, e)
                /\ v.workflow = RunOf(ui.selected, st[ui.selected])
  BY <1>2, <1>5
<1> QED
  BY <1>3, <1>4, <1>6 DEF HearsOf, st, v

LEMMA DeliverCompIs ==
  ASSUME Shape, Deliver, Head(wire).obj \in Comp
  PROVE  LET c == Head(wire).obj
         IN  /\ HearsOf(Owner[c]) /\ store'[c] > 0
             /\ \A k, o, n : Pending(ui.asks, k, o, n) => Pending(ui'.asks, k, o, n)
             /\ UNCHANGED <<saved, db, fetched, late, revisited>>
<1> DEFINE c == Head(wire).obj
           v == Head(wire).ver
<1>1. v \in Versions /\ v > 0 /\ c \in Comp /\ c \in Entity /\ c \notin Env /\ Owner[c] \in Env
  BY HeadIs, Sorts DEF Deliver
<1>2. /\ store' = [store EXCEPT ![c] = v]
      /\ ui' = ComponentsEmitted(ui, store', Owner[c], {c})
      /\ UNCHANGED <<saved, db, fetched, late, revisited>>
  BY <1>1 DEF Deliver
<1> HIDE DEF c, v
<1>3. /\ store' \in [Entity -> Versions] /\ ui \in Page /\ store'[c] > 0
      /\ \A o \in Entity : store[o] > 0 => store'[o] > 0
  BY <1>1, <1>2 DEF Shape, DataTypes, PageShape
<1>4. /\ HearsOf(Owner[c])
      /\ \A k, o, n : Pending(ui.asks, k, o, n) => Pending(ui'.asks, k, o, n)
  BY <1>1, <1>2, <1>3, HearsOfIs
<1> QED
  BY <1>2, <1>3, <1>4 DEF c

LEMMA GetComponentsIs ==
  ASSUME Shape, NEW a \in ui.asks, GetComponents(a)
  PROVE  /\ HearsOf(a.of) /\ Overtaken(a) /\ a.of \in Env /\ a.kind = "comps"
         /\ store' = Fetched(a)
         /\ late' = (IF ui.page = a.of THEN late \ {"cache"} ELSE late)
         /\ UNCHANGED <<saved, db, wire, fetched, revisited>>
<1> DEFINE u == Without(a)
           A == ui.asks \ {a}
           changed == {c \in Comp : a.data[c] > 0}
<1>1. /\ store' = Fetched(a) /\ ui' = ComponentsEmitted(u, store', a.of, changed)
      /\ Overtaken(a) /\ a.kind = "comps" /\ a.of \in Env
      /\ late' = (IF ui.page = a.of THEN late \ {"cache"} ELSE late)
      /\ UNCHANGED <<saved, db, wire, fetched, revisited>>
  BY AskIs DEF GetComponents
<1>2. /\ store' \in [Entity -> Versions] /\ ui \in Page
      /\ \A o \in Entity : store[o] > 0 => store'[o] > 0
  BY <1>1, FetchedType DEF Shape, DataTypes, PageShape
<1>3. A \in SUBSET Ask
  BY AskIs
<1>4. /\ u \in Page /\ u.asks = A
      /\ u.page = ui.page /\ u.environment = ui.environment /\ u.loading = ui.loading
      /\ u.shown = ui.shown /\ u.envAudit = ui.envAudit /\ u.envHeard = ui.envHeard
      /\ u.envLeak = ui.envLeak /\ u.selected = ui.selected
      /\ u.compAudit = ui.compAudit /\ u.compHeard = ui.compHeard
      /\ u.compLeaks = ui.compLeaks /\ u.workflow = ui.workflow /\ u.view = ui.view
  BY <1>2, <1>3, WithoutIs DEF Without
<1>5. \A k, o, n : (k # "comps" \/ o # a.of) /\ Pending(ui.asks, k, o, n) =>
           Pending(u.asks, k, o, n)
  BY <1>1, <1>4, StillPending
<1> HIDE DEF u, changed
<1>6. HearsOf(a.of)
  BY <1>1, <1>2, <1>4, <1>5, HearsOfIs
<1> QED
  BY <1>1, <1>6

LEMMA DeliverRowIs ==
  ASSUME Shape, Deliver, Head(wire).obj \in Row
  PROVE  LET r == Head(wire).obj
             v == Head(wire).ver
         IN  /\ UNCHANGED <<saved, db, store, fetched, late, revisited>>
             /\ ui'.asks = ui.asks /\ ui'.page = ui.page /\ ui'.environment = ui.environment
             /\ ui'.loading = ui.loading /\ ui'.shown = ui.shown
             /\ ui'.envHeard = ui.envHeard /\ ui'.envLeak = ui.envLeak
             /\ ui'.selected = ui.selected /\ ui'.compHeard = ui.compHeard
             /\ ui'.compLeaks = ui.compLeaks /\ ui'.workflow = ui.workflow
             /\ ui'.view = ui.view
             /\ \A q \in EnvRow : ui'.envAudit[q] =
                  IF q = r /\ Hears(ui, r) THEN v ELSE ui.envAudit[q]
             /\ \A q \in CompRow : ui'.compAudit[q] =
                  IF q = r /\ Hears(ui, r) THEN v ELSE ui.compAudit[q]
<1> DEFINE r == Head(wire).obj
           v == Head(wire).ver
<1>1. v \in Versions /\ r \in Row /\ r \notin Env /\ r \notin Comp /\ r \notin Entity
  BY HeadIs, Sorts DEF Deliver, Entity
<1>2. /\ UNCHANGED <<saved, db, store, fetched, late, revisited>>
      /\ ui' = AuditHeard(r, v)
  BY <1>1 DEF Deliver
<1>3. ui \in Page
  BY DEF Shape, PageShape
<1> HIDE DEF r, v
<1>4. CASE ~Hears(ui, r)
  <2>1. ui' = ui
    BY <1>2, <1>4 DEF AuditHeard
  <2> QED
    BY <1>2, <1>4, <2>1 DEF r, v
<1>5. CASE Hears(ui, r) /\ r \in EnvRow
  <2>1. ui' = [ui EXCEPT !.envAudit[r] = v]
    BY <1>2, <1>5 DEF AuditHeard
  <2>2. \A q \in CompRow : q # r
    BY <1>5, Sorts
  <2> QED
    BY <1>2, <1>3, <1>5, <2>1, <2>2 DEF Page, r, v
<1>6. CASE Hears(ui, r) /\ r \notin EnvRow
  <2>1. ui' = [ui EXCEPT !.compAudit[r] = v]
    BY <1>2, <1>6 DEF AuditHeard
  <2> QED
    BY <1>2, <1>3, <1>6, <2>1 DEF Page, r, v
<1> QED
  BY <1>4, <1>5, <1>6

------------------------------------------------------------------------------
(* What a step leaves fine, and what it enters.                            *)

AllKeep(S) == \A o \in S : Keeps(o, saved, behind, wire, saved', behind', wire')

LEMMA DeliverOthersKeep ==
  ASSUME Shape, Data, Deliver
  PROVE  AllKeep(Obj \ {Head(wire).obj})
<1>1. WireOK(wire, saved, db)
  BY DEF Data
<1>2. ASSUME NEW o \in Obj, o # Head(wire).obj
      PROVE  Keeps(o, saved, behind, wire, saved', behind', wire')
  BY <1>1, <1>2, DeliverKeeps
<1> QED
  BY <1>2 DEF AllKeep

LEMMA AnswerKeeps ==
  ASSUME Shape, NEW a \in ui.asks, Overtaken(a), UNCHANGED <<saved, wire>>
  PROVE  /\ AllKeep(Obj \ Asked(a))
         /\ a.kind = "allTeams" => AllKeep(Comp)
         /\ \A o \in Asked(a) : Fine(o, a.data[o], saved', behind', wire')
<1>1. Asked(a) \subseteq Obj /\ Comp \subseteq Obj
  BY AskedIs, Sorts
<1>2. ASSUME NEW o \in Obj
      PROVE  /\ o \in Asked(a) => Fine(o, a.data[o], saved', behind', wire')
             /\ o \notin Asked(a) \/ (a.kind = "allTeams" /\ o \in Comp) =>
                  Keeps(o, saved, behind, wire, saved', behind', wire')
  BY OvertakenKeeps
<1> QED
  BY <1>1, <1>2 DEF AllKeep

\* Which those are, by the kind of the answer.
LEMMA AnswerKeepsOthers ==
  ASSUME Shape, NEW a \in ui.asks, Overtaken(a), UNCHANGED <<saved, wire>>
  PROVE  /\ a.kind \in {"teams", "allTeams"} => AllKeep(Comp) /\ AllKeep(Row)
         /\ a.kind = "comps" => AllKeep({c \in Comp : Owner[c] # a.of}) /\ AllKeep(Row)
         /\ a.kind = "envAudit" => AllKeep(Comp) /\ AllKeep(CompRow)
         /\ a.kind = "compAudit" => AllKeep(Comp) /\ AllKeep(EnvRow)
<1>1. AllKeep(Obj \ Asked(a)) /\ (a.kind = "allTeams" => AllKeep(Comp))
  BY AnswerKeeps
<1>2. ASSUME NEW S, S \subseteq Obj, S \cap Asked(a) = {} PROVE AllKeep(S)
  BY <1>1, <1>2 DEF AllKeep
<1>3. CASE a.kind = "teams"
  <2>1. Asked(a) = Env
    BY <1>3, AskedIs
  <2> QED
    BY <1>2, <1>3, <2>1, Sorts
<1>4. CASE a.kind = "allTeams"
  <2>1. Asked(a) = Entity /\ Entity \cap Row = {}
    BY <1>4, AskedIs, LiveViewAssumption
  <2> QED
    BY <1>1, <1>2, <1>4, <2>1, Sorts
<1>5. CASE a.kind = "comps"
  <2>1. Asked(a) = {c \in Comp : Owner[c] = a.of}
    BY <1>5, AskedIs
  <2>2. AllKeep({c \in Comp : Owner[c] # a.of})
    BY <1>2, <2>1, Sorts
  <2>3. AllKeep(Row)
    BY <1>2, <2>1, Sorts
  <2> QED
    BY <1>5, <2>2, <2>3
<1>6. CASE a.kind = "envAudit"
  <2>1. Asked(a) = {r \in Row : Owner[r] = a.of} /\ a.of \in Env
    BY <1>6, AskedIs, AskIs
  <2>2. AllKeep(Comp)
    BY <1>2, <2>1, Sorts
  <2>3. AllKeep(CompRow)
    BY <1>2, <2>1, Sorts
  <2> QED
    BY <1>6, <2>2, <2>3
<1>7. CASE a.kind = "compAudit"
  <2>1. Asked(a) = {r \in Row : Owner[r] = a.of} /\ a.of \in Comp
    BY <1>7, AskedIs, AskIs
  <2>2. AllKeep(Comp)
    BY <1>2, <2>1, Sorts
  <2>3. AllKeep(EnvRow)
    BY <1>2, <2>1, Sorts
  <2> QED
    BY <1>7, <2>2, <2>3
<1> QED
  BY <1>3, <1>4, <1>5, <1>6, <1>7

\* An environment that is entered is looked for.
LEMMA VisitLooks ==
  ASSUME Shape, NEW p \in Env \cup {All}, Visit(p), NEW e \in Env,
         OnPage(ui', revisited', e)
  PROVE  /\ store[e] > 0 /\ Pending(ui'.asks, "envAudit", e, 0)
         /\ ~Cached(store, e) => Pending(ui'.asks, "comps", e, 0)
         /\ Cached(store, e) /\ CompsOf(store, e) # {} =>
              /\ ~ui'.loading
              /\ ui'.shown = [c \in Comp |-> IF c \in CompsOf(store, e) THEN store[c] ELSE 0]
         /\ "cache" \notin late' =>
              ~Cached(store, e) \/ CompsOf(store, e) = Dag(e, store[e])
<1> DEFINE w == Entered(p)
           v == ui'
<1>1. /\ v = Emitted(w, store, fetched) /\ v.page = p
      /\ w \in Page /\ w.page = p /\ w.selected = None /\ w.environment = ui.environment
      /\ late' = CacheLate(w, store, fetched) \ {"env", "comp", "run"}
      /\ revisited' = (p = ui.environment)
  BY VisitIs
<1>2. p = e /\ v.environment = e /\ ui.environment # e /\ e # All
  BY <1>1, Sorts DEF OnPage
<1> HIDE DEF w, v
<1>3. Looks(w, store, fetched)
  <2>1. store \in [Entity -> Versions]
    BY DEF Shape, DataTypes
  <2>2. ~Looks(w, store, fetched) => v = w
    BY <1>1, <1>2 DEF Emitted
  <2> QED
    BY <1>1, <1>2, <2>2
<1>4. store \in [Entity -> Versions]
  BY DEF Shape, DataTypes
<1>5. /\ v.environment = w.page /\ Pending(v.asks, "envAudit", w.page, 0)
      /\ IF Cached(store, w.page) /\ CompsOf(store, w.page) # {}
         THEN /\ ~v.loading
              /\ v.shown = [c \in Comp |-> IF c \in CompsOf(store, w.page) THEN store[c] ELSE 0]
         ELSE v.loading = w.loading /\ v.shown = w.shown
      /\ ~Cached(store, w.page) => Pending(v.asks, "comps", w.page, 0)
  BY <1>1, <1>3, <1>4, EmittedNamed
<1>6. store[e] > 0
  BY <1>1, <1>2, <1>3 DEF Looks
<1>7. "cache" \notin late' => ~Cached(store, e) \/ CompsOf(store, e) = Dag(e, store[e])
  BY <1>1, <1>2, <1>3 DEF CacheLate
<1> QED
  BY <1>1, <1>2, <1>5, <1>6, <1>7 DEF v

\* The steps that a property of the page must be shown to survive.
LEMMA StepIs ==
  ASSUME Shape, Data, [Next]_vars
  PROVE  \/ Quiet /\ Grows
         \/ Deliver /\ \/ Head(wire).obj \in Env
                       \/ Head(wire).obj \in Comp
                       \/ Head(wire).obj \in Row
         \/ \E a \in ui.asks : \/ GetTeams(a) \/ GetComponents(a)
                               \/ GetEnvironment(a) \/ GetComponent(a) \/ GetWorkflowData(a)
         \/ \E p \in Env \cup {All} : Visit(p)
         \/ \E c \in Comp : Select(c)
<1>1. Deliver => Head(wire).obj \in Env \cup Comp \cup Row
  BY HeadIs DEF Deliver, Obj, Entity
<1>2. CASE UNCHANGED vars
  BY <1>2, QuietSteps
<1>3. CASE Next
  BY <1>1, <1>3, NextIs, QuietSteps
<1> QED
  BY <1>2, <1>3
------------------------------------------------------------------------------
(* The list of runs of the environment.                                    *)

ListsNow == Lists(ui, saved, behind, wire, late, revisited)

\* The list goes on as it was, or better.
LEMMA ListStays ==
  ASSUME ListsNow, UNCHANGED revisited,
         "env" \in late => "env" \in late',
         \A e \in Env : OnPage(ui', revisited, e) =>
           \/ Pending(ui'.asks, "envAudit", e, 0)
           \/ /\ OnPage(ui, revisited, e)
              /\ ~Pending(ui.asks, "envAudit", e, 0)
              /\ ui.envHeard \/ ui.envLeak => ui'.envHeard \/ ui'.envLeak
              /\ ui.envHeard \/ ui.envLeak => \A r \in EnvRow :
                   Owner[r] = e /\ Fine(r, ui.envAudit[r], saved, behind, wire) =>
                     Fine(r, ui'.envAudit[r], saved', behind', wire')
  PROVE  ListsNow'
<1> SUFFICES ASSUME NEW e \in Env, OnPage(ui', revisited', e), "env" \notin late'
             PROVE  ListedAt(e, ui', saved', behind', wire')
  BY DEF ListsNow, Lists
<1>1. CASE Pending(ui'.asks, "envAudit", e, 0)
  BY <1>1 DEF ListedAt
<1>2. CASE ~Pending(ui'.asks, "envAudit", e, 0)
  <2>1. OnPage(ui, revisited, e) /\ "env" \notin late /\ ~Pending(ui.asks, "envAudit", e, 0)
    BY <1>2
  <2>2. ListedAt(e, ui, saved, behind, wire)
    BY <2>1 DEF ListsNow, Lists
  <2> QED
    BY <1>2, <2>1, <2>2 DEF ListedAt
<1> QED
  BY <1>1, <1>2

\* The same rows, of which all keep.
LEMMA ListStaysSame ==
  ASSUME ListsNow, UNCHANGED revisited, "env" \in late => "env" \in late',
         ui'.page = ui.page, ui'.environment = ui.environment,
         ui'.envAudit = ui.envAudit, ui'.envHeard = ui.envHeard, ui'.envLeak = ui.envLeak,
         \A e \in Env : Pending(ui.asks, "envAudit", e, 0) =>
                          Pending(ui'.asks, "envAudit", e, 0),
         AllKeep(EnvRow)
  PROVE  ListsNow'
BY ListStays DEF OnPage, AllKeep, Keeps

LEMMA EmitsLists ==
  ASSUME ListsNow, Emits, AllKeep(EnvRow)
  PROVE  ListsNow'
<1>1. "env" \in late => "env" \in late'
  BY DEF Emits, CacheLate
<1>2. /\ ui'.page = ui.page /\ ui'.envAudit = ui.envAudit /\ ui'.envLeak = ui.envLeak
      /\ revisited' = revisited
      /\ \A e \in Env : Pending(ui.asks, "envAudit", e, 0) =>
                          Pending(ui'.asks, "envAudit", e, 0)
  BY DEF Emits
<1>3. CASE Looks(ui, store', fetched')
  <2>1. Pending(ui'.asks, "envAudit", ui.page, 0)
    BY <1>3 DEF Emits
  <2> QED
    BY <1>1, <1>2, <2>1, ListStays DEF OnPage
<1>4. CASE ~Looks(ui, store', fetched')
  <2>1. ui'.environment = ui.environment /\ ui'.envHeard = ui.envHeard
    BY <1>4 DEF Emits
  <2> QED
    BY <1>1, <1>2, <2>1, ListStaysSame
<1> QED
  BY <1>3, <1>4

LEMMA HearsOfLists ==
  ASSUME ListsNow, NEW e \in Env, HearsOf(e), AllKeep(EnvRow), UNCHANGED revisited,
         "env" \in late => "env" \in late'
  PROVE  ListsNow'
<1>1. /\ ui'.page = ui.page /\ ui'.environment = ui.environment
      /\ ui'.envAudit = ui.envAudit /\ ui'.envHeard = ui.envHeard /\ ui'.envLeak = ui.envLeak
      /\ \A d \in Env : Pending(ui.asks, "envAudit", d, 0) =>
                          Pending(ui'.asks, "envAudit", d, 0)
  BY DEF HearsOf
<1> QED
  BY <1>1, ListStaysSame

LEMMA DeliverLists ==
  ASSUME Shape, Data, ListsNow, Deliver
  PROVE  ListsNow'
<1> DEFINE o == Head(wire).obj
           v == Head(wire).ver
<1>1. AllKeep(Obj \ {o})
  BY DeliverOthersKeep
<1>2. Head(wire).obj \in Env \cup Comp \cup Row
  BY HeadIs DEF Deliver, Obj, Entity
<1>3. CASE o \in Env
  <2>1. AllKeep(EnvRow)
    BY <1>1, <1>3, Sorts DEF AllKeep
  <2> QED
    BY <1>3, <2>1, DeliverEnvIs, EmitsLists
<1>4. CASE o \in Comp
  <2>1. AllKeep(EnvRow) /\ Owner[o] \in Env
    BY <1>1, <1>4, Sorts DEF AllKeep
  <2>2. HearsOf(Owner[o]) /\ UNCHANGED <<late, revisited>>
    BY <1>4, DeliverCompIs
  <2> HIDE DEF o
  <2> QED
    BY <2>1, <2>2, HearsOfLists
<1>5. CASE o \in Row
  <2>1. /\ UNCHANGED <<late, revisited>>
        /\ ui'.asks = ui.asks /\ ui'.page = ui.page /\ ui'.environment = ui.environment
        /\ ui'.envHeard = ui.envHeard /\ ui'.envLeak = ui.envLeak
        /\ \A r \in EnvRow : ui'.envAudit[r] =
             IF r = o /\ Hears(ui, o) THEN v ELSE ui.envAudit[r]
    BY <1>5, DeliverRowIs
  <2>2. Fine(o, v, saved', behind', wire')
    BY <1>5, DeliverKeeps, Sorts DEF Data
  <2> HIDE DEF o, v
  <2>3. ASSUME ui.envHeard \/ ui.envLeak, NEW r \in EnvRow,
               Fine(r, ui.envAudit[r], saved, behind, wire)
        PROVE  Fine(r, ui'.envAudit[r], saved', behind', wire')
    <3>1. CASE r = o
      BY <2>1, <2>2, <2>3, <3>1 DEF Hears
    <3>2. CASE r # o
      BY <1>1, <2>1, <2>3, <3>2, Sorts DEF AllKeep, Keeps
    <3> QED
      BY <3>1, <3>2
  <2>4. \A e \in Env : OnPage(ui', revisited, e) <=> OnPage(ui, revisited, e)
    BY <2>1 DEF OnPage
  <2> QED
    BY <2>1, <2>3, <2>4, ListStays
<1> QED
  BY <1>2, <1>3, <1>4, <1>5

LEMMA AnswerLists ==
  ASSUME Shape, ListsNow, NEW a \in ui.asks,
         \/ GetTeams(a) \/ GetComponents(a)
         \/ GetEnvironment(a) \/ GetComponent(a) \/ GetWorkflowData(a)
  PROVE  ListsNow'
<1>1. CASE GetTeams(a)
  <2>1. Emits /\ Overtaken(a) /\ UNCHANGED <<saved, wire>> /\ a.kind \in {"teams", "allTeams"}
    BY <1>1, GetTeamsIs DEF GetTeams
  <2>2. AllKeep(EnvRow)
    BY <2>1, AnswerKeepsOthers, Sorts DEF AllKeep
  <2> QED
    BY <2>1, <2>2, EmitsLists
<1>2. CASE GetComponents(a)
  <2>1. /\ HearsOf(a.of) /\ Overtaken(a) /\ a.of \in Env /\ a.kind = "comps"
        /\ late' = (IF ui.page = a.of THEN late \ {"cache"} ELSE late)
        /\ UNCHANGED <<saved, wire, revisited>>
    BY <1>2, GetComponentsIs
  <2>2. AllKeep(EnvRow)
    BY <2>1, AnswerKeepsOthers, Sorts DEF AllKeep
  <2> QED
    BY <2>1, <2>2, HearsOfLists
<1>3. CASE GetEnvironment(a)
  <2>1. /\ ui'.asks = ui.asks \ {a} /\ ui'.page = ui.page /\ ui'.environment = ui.environment
        /\ ui'.envAudit = [r \in EnvRow |-> a.data[r]]
        /\ ui'.envHeard = (ui.envHeard \/ a.live) /\ ui'.envLeak = (ui.envLeak \/ ~a.live)
    BY <1>3, GetEnvironmentIs
  <2>2. /\ Overtaken(a) /\ a.kind = "envAudit" /\ UNCHANGED <<saved, wire, revisited>>
        /\ late' = IF a.of = ui.environment THEN late \ {"env"} ELSE late \cup {"env"}
    BY <1>3 DEF GetEnvironment
  <2>3. Asked(a) = {r \in Row : Owner[r] = a.of}
    BY <2>2, AskedIs
  <2>4. \A r \in Asked(a) : Fine(r, a.data[r], saved', behind', wire')
    BY <2>2, AnswerKeeps
  <2>5. ASSUME NEW e \in Env, OnPage(ui', revisited', e), "env" \notin late'
        PROVE  ListedAt(e, ui', saved', behind', wire')
    <3>1. a.of = e
      BY <2>1, <2>2, <2>5 DEF OnPage
    <3>2. \A r \in EnvRow : Owner[r] = e => Fine(r, ui'.envAudit[r], saved', behind', wire')
      BY <2>1, <2>3, <2>4, <3>1, Sorts
    <3> QED
      BY <2>1, <3>2 DEF ListedAt
  <2> QED
    BY <2>5 DEF ListsNow, Lists
<1>4. CASE GetComponent(a)
  <2>1. /\ ui'.asks = ui.asks \ {a} /\ ui'.page = ui.page /\ ui'.environment = ui.environment
        /\ ui'.envAudit = ui.envAudit /\ ui'.envHeard = ui.envHeard
        /\ ui'.envLeak = ui.envLeak
    BY <1>4, GetComponentIs
  <2>2. /\ Overtaken(a) /\ a.kind = "compAudit" /\ UNCHANGED <<saved, wire, revisited>>
        /\ "env" \in late => "env" \in late'
    BY <1>4 DEF GetComponent
  <2>3. AllKeep(EnvRow)
    BY <2>2, AnswerKeepsOthers
  <2>4. \A e \in Env : Pending(ui.asks, "envAudit", e, 0) => Pending(ui'.asks, "envAudit", e, 0)
    BY <2>1, <2>2, StillPending
  <2> QED
    BY <2>1, <2>2, <2>3, <2>4, ListStaysSame
<1>5. CASE GetWorkflowData(a)
  <2>1. /\ ui'.asks = ui.asks \ {a} /\ ui'.page = ui.page /\ ui'.environment = ui.environment
        /\ ui'.envAudit = ui.envAudit /\ ui'.envHeard = ui.envHeard
        /\ ui'.envLeak = ui.envLeak
    BY <1>5, GetWorkflowDataIs
  <2>2. /\ a.kind = "run" /\ UNCHANGED <<saved, wire, behind, revisited>>
        /\ "env" \in late => "env" \in late'
    BY <1>5 DEF GetWorkflowData
  <2>3. AllKeep(EnvRow)
    BY <2>2, SameKeeps DEF AllKeep
  <2>4. \A e \in Env : Pending(ui.asks, "envAudit", e, 0) => Pending(ui'.asks, "envAudit", e, 0)
    BY <2>1, <2>2, StillPending
  <2> QED
    BY <2>1, <2>2, <2>3, <2>4, ListStaysSame
<1> QED
  BY <1>1, <1>2, <1>3, <1>4, <1>5

LEMMA ListsStep ==
  ASSUME Shape, Data, ListsNow, [Next]_vars
  PROVE  ListsNow'
<1>1. CASE Quiet /\ Grows
  <2>1. AllKeep(EnvRow)
    BY <1>1, Sorts DEF Grows, AllKeep
  <2> QED
    BY <1>1, <2>1, ListStaysSame DEF Quiet
<1>2. ASSUME NEW p \in Env \cup {All}, Visit(p) PROVE ListsNow'
  BY <1>2, VisitLooks DEF ListsNow, Lists, ListedAt
<1>3. ASSUME NEW c \in Comp, Select(c) PROVE ListsNow'
  <2>1. /\ Grown(ui'.asks, ui.asks)
        /\ ui'.page = ui.page /\ ui'.environment = ui.environment
        /\ ui'.envAudit = ui.envAudit /\ ui'.envHeard = ui.envHeard
        /\ ui'.envLeak = ui.envLeak
        /\ UNCHANGED <<saved, wire, behind, revisited>>
        /\ late' = late \/ late' = late \ {"run"}
    BY <1>3, SelectIs
  <2>2. AllKeep(EnvRow)
    BY <2>1, SameKeeps DEF AllKeep
  <2> QED
    BY <2>1, <2>2, ListStaysSame DEF Grown
<1> QED
  BY <1>1, <1>2, <1>3, StepIs, DeliverLists, AnswerLists
------------------------------------------------------------------------------
(* The panel of the selected component.                                    *)

PanelNow == Panel(ui, saved, behind, wire, late)

\* A row of the panel: of the selected component, or of one left behind.
RowIsFine(r, u, sv, bh, w) ==
  IF Owner[r] = u.selected THEN Fine(r, u.compAudit[r], sv, bh, w)
  ELSE u.compAudit[r] > 0 => Owner[r] \in u.compLeaks

LEMMA PanelStays ==
  ASSUME PanelNow, "comp" \in late => "comp" \in late',
         ui'.selected = ui.selected,
         ui.selected # None =>
           \/ Pending(ui'.asks, "compAudit", ui.selected, 0)
           \/ /\ ~Pending(ui.asks, "compAudit", ui.selected, 0)
              /\ ui.compHeard \/ ui.selected \in ui.compLeaks =>
                   /\ ui'.compHeard \/ ui.selected \in ui'.compLeaks
                   /\ \A r \in CompRow : RowIsFine(r, ui, saved, behind, wire) =>
                                           RowIsFine(r, ui', saved', behind', wire')
  PROVE  PanelNow'
<1> SUFFICES ASSUME ui'.selected # None, "comp" \notin late',
                    ~Pending(ui'.asks, "compAudit", ui.selected, 0)
             PROVE  /\ ui'.compHeard \/ ui'.selected \in ui'.compLeaks
                    /\ \A r \in CompRow : RowIsFine(r, ui', saved', behind', wire')
  BY DEF PanelNow, Panel, RowIsFine
<1>1. /\ ui.compHeard \/ ui.selected \in ui.compLeaks
      /\ \A r \in CompRow : RowIsFine(r, ui, saved, behind, wire)
  BY DEF PanelNow, Panel, RowIsFine
<1> QED
  BY <1>1

\* The same rows, of which all keep.
LEMMA PanelStaysSame ==
  ASSUME PanelNow, "comp" \in late => "comp" \in late',
         ui'.selected = ui.selected, ui'.compAudit = ui.compAudit,
         ui'.compLeaks = ui.compLeaks,
         \/ ui'.compHeard = ui.compHeard
         \/ Pending(ui'.asks, "compAudit", ui.selected, 0),
         Pending(ui.asks, "compAudit", ui.selected, 0) =>
           Pending(ui'.asks, "compAudit", ui.selected, 0),
         AllKeep(CompRow)
  PROVE  PanelNow'
<1>1. \A r \in CompRow : RowIsFine(r, ui, saved, behind, wire) =>
                           RowIsFine(r, ui', saved', behind', wire')
  BY DEF RowIsFine, AllKeep, Keeps
<1> QED
  BY <1>1, PanelStays

LEMMA EmitsPanel ==
  ASSUME PanelNow, Emits, AllKeep(CompRow)
  PROVE  PanelNow'
<1>1. "comp" \in late => "comp" \in late'
  BY DEF Emits, CacheLate
<1>2. /\ ui'.selected = ui.selected /\ ui'.compAudit = ui.compAudit
      /\ ui'.compLeaks = ui.compLeaks
      /\ ui'.compHeard = ui.compHeard \/ Pending(ui'.asks, "compAudit", ui.selected, 0)
      /\ Pending(ui.asks, "compAudit", ui.selected, 0) =>
           Pending(ui'.asks, "compAudit", ui.selected, 0)
  BY DEF Emits
<1> QED
  BY <1>1, <1>2, PanelStaysSame

LEMMA HearsOfPanel ==
  ASSUME PanelNow, NEW e \in Env, HearsOf(e), AllKeep(CompRow),
         "comp" \in late => "comp" \in late'
  PROVE  PanelNow'
<1>1. /\ ui'.selected = ui.selected /\ ui'.compAudit = ui.compAudit
      /\ ui'.compLeaks = ui.compLeaks
      /\ ui'.compHeard = ui.compHeard \/ Pending(ui'.asks, "compAudit", ui.selected, 0)
      /\ Pending(ui.asks, "compAudit", ui.selected, 0) =>
           Pending(ui'.asks, "compAudit", ui.selected, 0)
  BY DEF HearsOf
<1> QED
  BY <1>1, PanelStaysSame

LEMMA DeliverPanel ==
  ASSUME Shape, Data, PanelNow, Deliver
  PROVE  PanelNow'
<1> DEFINE o == Head(wire).obj
           v == Head(wire).ver
<1>1. AllKeep(Obj \ {o})
  BY DeliverOthersKeep
<1>2. Head(wire).obj \in Env \cup Comp \cup Row
  BY HeadIs DEF Deliver, Obj, Entity
<1>3. CASE o \in Env
  <2>1. AllKeep(CompRow)
    BY <1>1, <1>3, Sorts DEF AllKeep
  <2> QED
    BY <1>3, <2>1, DeliverEnvIs, EmitsPanel
<1>4. CASE o \in Comp
  <2>1. AllKeep(CompRow) /\ Owner[o] \in Env
    BY <1>1, <1>4, Sorts DEF AllKeep
  <2>2. HearsOf(Owner[o]) /\ UNCHANGED <<late, revisited>>
    BY <1>4, DeliverCompIs
  <2> HIDE DEF o
  <2> QED
    BY <2>1, <2>2, HearsOfPanel
<1>5. CASE o \in Row
  <2>1. /\ UNCHANGED late
        /\ ui'.asks = ui.asks /\ ui'.selected = ui.selected
        /\ ui'.compHeard = ui.compHeard /\ ui'.compLeaks = ui.compLeaks
        /\ \A r \in CompRow : ui'.compAudit[r] =
             IF r = o /\ Hears(ui, o) THEN v ELSE ui.compAudit[r]
    BY <1>5, DeliverRowIs
  <2>2. Fine(o, v, saved', behind', wire')
    BY <1>5, DeliverKeeps, Sorts DEF Data
  <2> HIDE DEF o, v
  <2>3. ASSUME ui.compHeard \/ ui.selected \in ui.compLeaks, NEW r \in CompRow,
               RowIsFine(r, ui, saved, behind, wire)
        PROVE  RowIsFine(r, ui', saved', behind', wire')
    <3>1. CASE r = o /\ Owner[r] = ui.selected
      <4>1. Hears(ui, o)
        BY <2>3, <3>1, Sorts DEF Hears
      <4> QED
        BY <2>1, <2>2, <3>1, <4>1 DEF RowIsFine
    <3>2. CASE r = o /\ Owner[r] # ui.selected
      <4>1. Hears(ui, o) => Owner[r] \in ui.compLeaks
        BY <3>2, Sorts DEF Hears
      <4> QED
        BY <2>1, <2>3, <3>2, <4>1 DEF RowIsFine
    <3>3. CASE r # o
      <4>1. ui'.compAudit[r] = ui.compAudit[r]
        BY <2>1, <3>3
      <4>2. Keeps(r, saved, behind, wire, saved', behind', wire')
        BY <1>1, <3>3, Sorts DEF AllKeep
      <4> QED
        BY <2>1, <2>3, <4>1, <4>2 DEF RowIsFine, Keeps
    <3> QED
      BY <3>1, <3>2, <3>3
  <2> QED
    BY <2>1, <2>3, PanelStays
<1> QED
  BY <1>2, <1>3, <1>4, <1>5

LEMMA AnswerPanel ==
  ASSUME Shape, PanelNow, NEW a \in ui.asks,
         \/ GetTeams(a) \/ GetComponents(a)
         \/ GetEnvironment(a) \/ GetComponent(a) \/ GetWorkflowData(a)
  PROVE  PanelNow'
<1>1. CASE GetTeams(a)
  <2>1. Emits /\ Overtaken(a) /\ UNCHANGED <<saved, wire>> /\ a.kind \in {"teams", "allTeams"}
    BY <1>1, GetTeamsIs DEF GetTeams
  <2>2. AllKeep(CompRow)
    BY <2>1, AnswerKeepsOthers, Sorts DEF AllKeep
  <2> QED
    BY <2>1, <2>2, EmitsPanel
<1>2. CASE GetComponents(a)
  <2>1. /\ HearsOf(a.of) /\ Overtaken(a) /\ a.of \in Env /\ a.kind = "comps"
        /\ late' = (IF ui.page = a.of THEN late \ {"cache"} ELSE late)
        /\ UNCHANGED <<saved, wire>>
    BY <1>2, GetComponentsIs
  <2>2. AllKeep(CompRow)
    BY <2>1, AnswerKeepsOthers, Sorts DEF AllKeep
  <2> QED
    BY <2>1, <2>2, HearsOfPanel
<1>3. CASE GetEnvironment(a)
  <2>1. /\ ui'.asks = ui.asks \ {a} /\ ui'.selected = ui.selected
        /\ ui'.compAudit = ui.compAudit /\ ui'.compHeard = ui.compHeard
        /\ ui'.compLeaks = ui.compLeaks
    BY <1>3, GetEnvironmentIs
  <2>2. /\ Overtaken(a) /\ a.kind = "envAudit" /\ UNCHANGED <<saved, wire>>
        /\ "comp" \in late => "comp" \in late'
    BY <1>3 DEF GetEnvironment
  <2>3. AllKeep(CompRow)
    BY <2>2, AnswerKeepsOthers
  <2>4. Pending(ui.asks, "compAudit", ui.selected, 0) =>
          Pending(ui'.asks, "compAudit", ui.selected, 0)
    BY <2>1, <2>2, StillPending
  <2> QED
    BY <2>1, <2>2, <2>3, <2>4, PanelStaysSame
<1>4. CASE GetComponent(a)
  <2>1. /\ ui'.selected = ui.selected /\ ui'.compAudit = [r \in CompRow |-> a.data[r]]
        /\ ui'.compHeard = (ui.compHeard \/ a.live)
        /\ ui'.compLeaks = (IF a.live THEN ui.compLeaks ELSE ui.compLeaks \cup {a.of})
    BY <1>4, GetComponentIs
  <2>2. /\ Overtaken(a) /\ a.kind = "compAudit" /\ UNCHANGED <<saved, wire>>
        /\ late' = IF a.of = ui.selected THEN late \ {"comp"} ELSE late \cup {"comp"}
    BY <1>4 DEF GetComponent
  <2>3. Asked(a) = {r \in Row : Owner[r] = a.of}
    BY <2>2, AskedIs
  <2>4. /\ \A r \in Asked(a) : Fine(r, a.data[r], saved', behind', wire')
        /\ \A r \in Obj : r \notin Asked(a) => a.data[r] = 0
    BY <2>2, AnswerKeeps, AskIs
  <2>5. ASSUME "comp" \notin late', NEW r \in CompRow
        PROVE  RowIsFine(r, ui', saved', behind', wire')
    <3>1. a.of = ui.selected /\ r \in Row /\ r \in Obj
      BY <2>2, <2>5, Sorts
    <3>2. CASE Owner[r] = ui.selected
      BY <2>1, <2>3, <2>4, <3>1, <3>2 DEF RowIsFine
    <3>3. CASE Owner[r] # ui.selected
      <4>1. ui'.compAudit[r] = 0
        BY <2>1, <2>3, <2>4, <3>1, <3>3
      <4> QED
        BY <2>1, <3>3, <4>1 DEF RowIsFine
    <3> QED
      BY <3>2, <3>3
  <2>6. "comp" \notin late' => ui'.compHeard \/ ui'.selected \in ui'.compLeaks
    BY <2>1, <2>2
  <2> QED
    BY <2>5, <2>6 DEF PanelNow, Panel, RowIsFine
<1>5. CASE GetWorkflowData(a)
  <2>1. /\ ui'.asks = ui.asks \ {a} /\ ui'.selected = ui.selected
        /\ ui'.compAudit = ui.compAudit /\ ui'.compHeard = ui.compHeard
        /\ ui'.compLeaks = ui.compLeaks
    BY <1>5, GetWorkflowDataIs
  <2>2. /\ a.kind = "run" /\ UNCHANGED <<saved, wire, behind>>
        /\ "comp" \in late => "comp" \in late'
    BY <1>5 DEF GetWorkflowData
  <2>3. AllKeep(CompRow)
    BY <2>2, SameKeeps DEF AllKeep
  <2>4. Pending(ui.asks, "compAudit", ui.selected, 0) =>
          Pending(ui'.asks, "compAudit", ui.selected, 0)
    BY <2>1, <2>2, StillPending
  <2> QED
    BY <2>1, <2>2, <2>3, <2>4, PanelStaysSame
<1> QED
  BY <1>1, <1>2, <1>3, <1>4, <1>5

LEMMA PanelStep ==
  ASSUME Shape, Data, PanelNow, [Next]_vars
  PROVE  PanelNow'
<1>1. CASE Quiet /\ Grows
  <2>1. AllKeep(CompRow)
    BY <1>1, Sorts DEF Grows, AllKeep
  <2> QED
    BY <1>1, <2>1, PanelStaysSame DEF Quiet
<1>2. ASSUME NEW p \in Env \cup {All}, Visit(p) PROVE PanelNow'
  BY <1>2, VisitIs DEF PanelNow, Panel
<1>3. ASSUME NEW c \in Comp, Select(c) PROVE PanelNow'
  BY <1>3, SelectIs DEF PanelNow, Panel
<1> QED
  BY <1>1, <1>2, <1>3, StepIs, DeliverPanel, AnswerPanel
------------------------------------------------------------------------------
(* The components of the page.                                             *)

ShowsNow == Shows(ui, saved, behind, wire, late, revisited)
LoadsNow == Loads(ui, saved, behind, wire, revisited)

\* A page of e that took what the store has, or shows none as the store has none.
LEMMA ShownAsStored ==
  ASSUME NEW u, NEW st \in [Entity -> Versions], NEW f, NEW e \in Env,
         PageShape(u, st, f), u.page = e, u.environment = e,
         CompsOf(st, e) # {} =>
           u.shown = [c \in Comp |-> IF c \in CompsOf(st, e) THEN st[c] ELSE 0],
         NEW c \in Comp, Owner[c] = e
  PROVE  u.shown[c] = st[c]
<1>1. st[c] \in Nat /\ u.shown[c] \in Nat
  BY Sorts DEF PageShape, Page
<1>2. CASE CompsOf(st, e) = {}
  <2>1. ~(st[c] > 0)
    BY <1>2 DEF CompsOf
  <2>2. ~(u.shown[c] > 0)
    BY <2>1 DEF PageShape, PageOK
  <2> QED
    BY <1>1, <2>1, <2>2
<1>3. CASE CompsOf(st, e) # {}
  BY <1>1, <1>3 DEF CompsOf
<1> QED
  BY <1>2, <1>3

\* The components that the DAG of the store's version has are fine, and the others
\* that the page started with are dropped.
LEMMA CacheIsFine ==
  ASSUME NEW st \in [Entity -> Versions], NEW sv, NEW d, NEW bh, NEW w, NEW e \in Env,
         StoreOK(st, sv, d, bh, w), st[e] > 0, CompsOf(st, e) = Dag(e, st[e]),
         sv[e] \in Nat, sv[e] <= Len(DagAt[e]), NEW c \in Comp, Owner[c] = e
  PROVE  Fine(c, st[c], sv, bh, w) \/ Gone(c, sv[e])
<1>1. CASE st[c] > 0 \/ Start[c] = 0
  BY <1>1 DEF StoreOK
<1>2. CASE ~(st[c] > 0) /\ Start[c] # 0
  <2>1. c \notin DagAt[e][st[e]]
    BY <1>2 DEF CompsOf, Dag
  <2>2. Start[c] \in Nat /\ Start[e] \in Nat /\ st[e] \in Nat
    BY StartIs, Sorts
  <2>3. Start[e] > 0 /\ c \in DagAt[e][Start[e]]
    BY <1>2, <2>2, StartIs
  <2>4. Start[e] <= st[e] /\ st[e] <= sv[e]
    <3>1. Known(e, st[e], sv, d) /\ e \notin Comp
      BY Sorts DEF StoreOK
    <3> QED
      BY <3>1 DEF Known, Deleted
  <2>5. Gone(c, st[e])
    BY <2>1, <2>2, <2>3, <2>4 DEF Gone
  <2> QED
    BY <2>2, <2>4, <2>5, GoneStays
<1> QED
  BY <1>1, <1>2

\* As many components as in a DAG that has some.
LEMMA CacheIsSome ==
  ASSUME NEW st \in [Entity -> Versions], NEW sv, NEW d, NEW bh, NEW w, NEW e \in Env,
         StoreOK(st, sv, d, bh, w), st[e] > 0, sv[e] \in Nat, sv[e] <= Len(DagAt[e]),
         RunsHaveComponents(e), Cached(st, e)
  PROVE  CompsOf(st, e) # {}
<1>1. st[e] \in Nat /\ st[e] <= sv[e]
  <2>1. Known(e, st[e], sv, d) /\ e \notin Comp /\ st[e] \in Nat
    BY Sorts DEF StoreOK
  <2> QED
    BY <2>1 DEF Known, Deleted
<1>2. Len(RunDagAt[e]) = Len(DagAt[e]) /\ RunDagAt[e] \in Seq(SUBSET Comp)
  BY LiveViewAssumption
<1>3. st[e] \in DOMAIN RunDagAt[e]
  BY <1>1, <1>2, LenProperties
<1>4. RunDagAt[e][st[e]] \subseteq Comp /\ RunDagAt[e][st[e]] # {}
  BY <1>2, <1>3, ElementOfSeq, LenProperties DEF RunsHaveComponents
<1>5. IsFiniteSet(RunDagAt[e][st[e]])
  BY <1>4, FS_Subset, LiveViewAssumption
<1>6. Cardinality(RunDagAt[e][st[e]]) # 0
  BY <1>4, <1>5, FS_EmptySet
<1> QED
  BY <1>6, FS_EmptySet DEF Cached
OfEnv(e) == {c \in Comp : Owner[c] = e}

\* What the page of e shows goes on as it was.
LEMMA ShownStays ==
  ASSUME NEW e \in Env, AllKeep(OfEnv(e)), ui'.shown = ui.shown,
         \A c \in OfEnv(e) : Gone(c, saved[e]) => Gone(c, saved'[e]),
         Pending(ui.asks, "comps", e, 0) => Pending(ui'.asks, "comps", e, 0)
  PROVE  /\ ShownAt(e, ui, saved, behind, wire) => ShownAt(e, ui', saved', behind', wire')
         /\ WaitsAt(e, ui, saved, behind, wire) => WaitsAt(e, ui', saved', behind', wire')
<1>1. \A c \in Comp : Owner[c] = e =>
        /\ Keeps(c, saved, behind, wire, saved', behind', wire')
        /\ Gone(c, saved[e]) => Gone(c, saved'[e])
  BY DEF AllKeep, OfEnv
<1>2. ASSUME ShownAt(e, ui, saved, behind, wire)
      PROVE  ShownAt(e, ui', saved', behind', wire')
  BY <1>1, <1>2 DEF ShownAt, Keeps
<1>3. ASSUME WaitsAt(e, ui, saved, behind, wire)
      PROVE  WaitsAt(e, ui', saved', behind', wire')
  BY <1>1, <1>3 DEF WaitsAt, Keeps
<1> QED
  BY <1>2, <1>3

LEMMA PageStays ==
  ASSUME ShowsNow, LoadsNow, AllKeep(Comp),
         \A c \in Comp : Gone(c, saved[Owner[c]]) => Gone(c, saved'[Owner[c]]),
         ui'.page = ui.page, ui'.environment = ui.environment,
         ui'.loading = ui.loading, ui'.shown = ui.shown, UNCHANGED revisited,
         "cache" \in late => "cache" \in late',
         \A e \in Env : Pending(ui.asks, "comps", e, 0) => Pending(ui'.asks, "comps", e, 0)
  PROVE  ShowsNow' /\ LoadsNow'
<1>1. ASSUME NEW e \in Env
      PROVE  /\ ShownAt(e, ui, saved, behind, wire) => ShownAt(e, ui', saved', behind', wire')
             /\ WaitsAt(e, ui, saved, behind, wire) => WaitsAt(e, ui', saved', behind', wire')
  <2>1. AllKeep(OfEnv(e))
    BY DEF AllKeep, OfEnv
  <2>2. \A c \in OfEnv(e) : Gone(c, saved[e]) => Gone(c, saved'[e])
    BY DEF OfEnv
  <2>3. Pending(ui.asks, "comps", e, 0) => Pending(ui'.asks, "comps", e, 0)
    OBVIOUS
  <2> QED
    BY <2>1, <2>2, <2>3, ShownStays
<1>2. \A e \in Env : OnPage(ui', revisited', e) => OnPage(ui, revisited, e)
  BY DEF OnPage
<1>3. ShowsNow'
  BY <1>1, <1>2 DEF ShowsNow, Shows
<1>4. LoadsNow'
  BY <1>1, <1>2 DEF LoadsNow, Loads
<1> QED
  BY <1>3, <1>4

\* A page that is entered.
LEMMA PageEntered ==
  ASSUME Shape', Data', NEW e \in Env, OnPage(ui', revisited', e),
         saved'[e] \in Nat, saved'[e] <= Len(DagAt[e]),
         store'[e] > 0, ~Cached(store', e) => Pending(ui'.asks, "comps", e, 0),
         Cached(store', e) /\ CompsOf(store', e) # {} =>
           /\ ~ui'.loading
           /\ ui'.shown = [c \in Comp |-> IF c \in CompsOf(store', e) THEN store'[c] ELSE 0],
         "cache" \notin late' => ~Cached(store', e) \/ CompsOf(store', e) = Dag(e, store'[e])
  PROVE  /\ "cache" \notin late' => ShownAt(e, ui', saved', behind', wire')
         /\ ui'.loading /\ RunsHaveComponents(e) => WaitsAt(e, ui', saved', behind', wire')
<1>1. CASE ~Cached(store', e)
  BY <1>1 DEF ShownAt, WaitsAt
<1>2. CASE Cached(store', e)
  <2> DEFINE st == store'
             u == ui'
             f == fetched'
             sv == saved'
             d == db'
             bh == behind'
             w == wire'
  <2>1. /\ st \in [Entity -> Versions] /\ PageShape(u, st, f)
        /\ StoreOK(st, sv, d, bh, w)
    BY DEF Shape, DataTypes, Data
  <2>2. /\ Cached(st, e) /\ u.page = e /\ u.environment = e /\ st[e] > 0
        /\ sv[e] \in Nat /\ sv[e] <= Len(DagAt[e])
        /\ CompsOf(st, e) # {} =>
             /\ ~u.loading
             /\ u.shown = [c \in Comp |-> IF c \in CompsOf(st, e) THEN st[c] ELSE 0]
        /\ "cache" \notin late' => CompsOf(st, e) = Dag(e, st[e])
    BY <1>2 DEF OnPage
  <2> HIDE DEF st, u, f, sv, d, bh, w
  <2>3. ASSUME "cache" \notin late', NEW c \in Comp, Owner[c] = e
        PROVE  Fine(c, u.shown[c], sv, bh, w) \/ Gone(c, sv[e])
    <3>1. u.shown[c] = st[c]
      BY <2>1, <2>2, <2>3, ShownAsStored
    <3>2. Fine(c, st[c], sv, bh, w) \/ Gone(c, sv[e])
      BY <2>1, <2>2, <2>3, CacheIsFine
    <3> QED
      BY <3>1, <3>2
  <2>4. u.loading => ~RunsHaveComponents(e)
    BY <2>1, <2>2, CacheIsSome
  <2> QED
    BY <2>3, <2>4 DEF ShownAt, u, sv, bh, w
<1> QED
  BY <1>1, <1>2

LEMMA EmitsPage ==
  ASSUME Shape, Data, Shape', Data', ShowsNow, LoadsNow, Emits, AllKeep(Comp),
         UNCHANGED saved
  PROVE  ShowsNow' /\ LoadsNow'
<1>1. /\ ui'.page = ui.page /\ UNCHANGED revisited
      /\ late' = CacheLate(ui, store', fetched')
      /\ \A e \in Env : Pending(ui.asks, "comps", e, 0) => Pending(ui'.asks, "comps", e, 0)
  BY DEF Emits
<1>2. CASE Looks(ui, store', fetched')
  <2> DEFINE e == ui.page
  <2>1. /\ e \in Env /\ store'[e] > 0
        /\ "cache" \notin late' =>
             ~Cached(store', e) \/ CompsOf(store', e) = Dag(e, store'[e])
    BY <1>1, <1>2 DEF Looks, CacheLate
  <2>2. /\ ~Cached(store', e) => Pending(ui'.asks, "comps", e, 0)
        /\ Cached(store', e) /\ CompsOf(store', e) # {} =>
             /\ ~ui'.loading
             /\ ui'.shown = [c \in Comp |-> IF c \in CompsOf(store', e) THEN store'[c] ELSE 0]
    BY <1>2 DEF Emits
  <2>3. saved'[e] \in Nat /\ saved'[e] <= Len(DagAt[e])
    BY <2>1, SavedIs DEF Data
  <2>4. \A b \in Env : OnPage(ui', revisited', b) => b = e
    BY <1>1 DEF OnPage
  <2> HIDE DEF e
  <2>5. OnPage(ui', revisited', e) =>
          /\ "cache" \notin late' => ShownAt(e, ui', saved', behind', wire')
          /\ ui'.loading /\ RunsHaveComponents(e) => WaitsAt(e, ui', saved', behind', wire')
    BY <2>1, <2>2, <2>3, PageEntered
  <2> QED
    BY <2>4, <2>5 DEF ShowsNow, Shows, LoadsNow, Loads
<1>3. CASE ~Looks(ui, store', fetched')
  <2>1. late' = late
    BY <1>1, <1>3 DEF CacheLate
  <2>2. CASE ui.page = All
    BY <1>1, <2>2, Sorts DEF ShowsNow, Shows, LoadsNow, Loads, OnPage
  <2>3. CASE ui.page # All
    <3>1. ui'.environment = ui.environment /\ ui'.loading = ui.loading /\ ui'.shown = ui.shown
      BY <1>3, <2>3 DEF Emits
    <3> QED
      BY <1>1, <2>1, <3>1, PageStays
  <2> QED
    BY <2>2, <2>3
<1> QED
  BY <1>2, <1>3

\* The page hears of the components of e; what it does when it is that of e is
\* left to the two cases below.
LEMMA HearsOfPage ==
  ASSUME ShowsNow, LoadsNow, NEW e \in Env, HearsOf(e), UNCHANGED <<saved, revisited>>,
         AllKeep(Comp \ OfEnv(e)),
         ui.page # e => late' = late,
         OnPage(ui', revisited', e) =>
           /\ "cache" \notin late' => ShownAt(e, ui', saved', behind', wire')
           /\ ui'.loading => WaitsAt(e, ui', saved', behind', wire')
  PROVE  ShowsNow' /\ LoadsNow'
<1>1. /\ ui'.page = ui.page /\ ui'.environment = ui.environment
      /\ \A b \in Env : b # e /\ Pending(ui.asks, "comps", b, 0) =>
           Pending(ui'.asks, "comps", b, 0)
      /\ ui.environment # e => ui'.loading = ui.loading /\ ui'.shown = ui.shown
  BY DEF HearsOf
<1>2. ASSUME NEW b \in Env, b # e, OnPage(ui', revisited', b)
      PROVE  /\ OnPage(ui, revisited, b) /\ late' = late /\ ui'.loading = ui.loading
             /\ ShownAt(b, ui, saved, behind, wire) => ShownAt(b, ui', saved', behind', wire')
             /\ WaitsAt(b, ui, saved, behind, wire) => WaitsAt(b, ui', saved', behind', wire')
  <2>1. /\ OnPage(ui, revisited, b) /\ late' = late /\ ui'.loading = ui.loading
        /\ ui'.shown = ui.shown
    BY <1>1, <1>2 DEF OnPage
  <2>2. AllKeep(OfEnv(b))
    BY <1>2 DEF AllKeep, OfEnv
  <2>3. \A c \in OfEnv(b) : Gone(c, saved[b]) => Gone(c, saved'[b])
    OBVIOUS
  <2>4. Pending(ui.asks, "comps", b, 0) => Pending(ui'.asks, "comps", b, 0)
    BY <1>1, <1>2
  <2>5. /\ ShownAt(b, ui, saved, behind, wire) => ShownAt(b, ui', saved', behind', wire')
        /\ WaitsAt(b, ui, saved, behind, wire) => WaitsAt(b, ui', saved', behind', wire')
    BY <2>1, <2>2, <2>3, <2>4, ShownStays
  <2> QED
    BY <2>1, <2>5
<1>3. ShowsNow'
  BY <1>2 DEF ShowsNow, Shows
<1>4. LoadsNow'
  BY <1>2 DEF LoadsNow, Loads
<1> QED
  BY <1>3, <1>4
LEMMA DeliverCompPage ==
  ASSUME Shape, Data, Shape', Data', ShowsNow, LoadsNow, Deliver, Head(wire).obj \in Comp
  PROVE  ShowsNow' /\ LoadsNow'
<1> DEFINE o == Head(wire).obj
           e == Owner[o]
<1>1. /\ HearsOf(e) /\ store'[o] > 0 /\ e \in Env /\ o \in Comp
      /\ \A k, b, n : Pending(ui.asks, k, b, n) => Pending(ui'.asks, k, b, n)
      /\ UNCHANGED <<saved, late, revisited>>
  BY DeliverCompIs, Sorts
<1>2. AllKeep(Obj \ {o})
  BY DeliverOthersKeep
<1>3. \A c \in Comp : c # o => store'[c] = store[c]
  BY Sorts DEF Deliver, Shape, DataTypes
<1> HIDE DEF o
<1>4. AllKeep(Comp \ OfEnv(e))
  BY <1>1, <1>2, Sorts DEF AllKeep, OfEnv
<1>5. ASSUME OnPage(ui', revisited', e)
      PROVE  /\ "cache" \notin late' => ShownAt(e, ui', saved', behind', wire')
             /\ ~ui'.loading
  <2>1. ui.environment = e /\ ui'.page = ui.page /\ CompsOf(store', e) # {}
    BY <1>1, <1>5 DEF HearsOf, OnPage, CompsOf
  <2>2. /\ ~ui'.loading
        /\ ui'.shown = [c \in Comp |-> IF c \in CompsOf(store', e) THEN store'[c] ELSE 0]
    BY <1>1, <2>1 DEF HearsOf
  <2>3. OnPage(ui, revisited, e)
    BY <1>1, <1>5, <2>1 DEF OnPage
  <2>4. ASSUME NEW c \in Comp, c \in OfEnv(e), store'[c] > 0
        PROVE  Fine(c, ui'.shown[c], saved', behind', wire')
    <3>1. ui'.shown[c] = store'[c]
      BY <2>2, <2>4 DEF CompsOf, OfEnv
    <3> QED
      BY <2>4, <3>1 DEF Data, StoreOK
  <2>5. ASSUME NEW c \in Comp, c \in OfEnv(e), ~(store'[c] > 0)
        PROVE  ui'.shown[c] = 0 /\ ui.shown[c] = 0 /\ c # o
    <3>1. c # o /\ ~(store[c] > 0)
      BY <1>1, <1>3, <2>5
    <3>2. ~(ui.shown[c] > 0) /\ ui.shown[c] \in Nat
      BY <3>1, Sorts DEF Shape, PageShape, PageOK, Page
    <3>3. ui'.shown[c] = 0
      BY <2>2, <2>5 DEF CompsOf
    <3> QED
      BY <3>1, <3>2, <3>3
  <2>6. ASSUME "cache" \notin late' PROVE ShownAt(e, ui', saved', behind', wire')
    <3>1. ShownAt(e, ui, saved, behind, wire)
      BY <1>1, <2>3, <2>6 DEF ShowsNow, Shows
    <3>2. CASE Pending(ui.asks, "comps", e, 0)
      BY <1>1, <3>2 DEF ShownAt
    <3>3. CASE ~Pending(ui.asks, "comps", e, 0)
      <4>1. ASSUME NEW c \in Comp, Owner[c] = e
            PROVE  Fine(c, ui'.shown[c], saved', behind', wire') \/ Gone(c, saved'[e])
        <5>1. CASE store'[c] > 0
          BY <2>4, <4>1, <5>1 DEF OfEnv
        <5>2. CASE ~(store'[c] > 0)
          <6>1. ui'.shown[c] = 0 /\ ui.shown[c] = 0 /\ c # o
            BY <2>5, <4>1, <5>2 DEF OfEnv
          <6>2. Fine(c, 0, saved, behind, wire) \/ Gone(c, saved[e])
            BY <3>1, <3>3, <4>1, <6>1 DEF ShownAt
          <6>3. Keeps(c, saved, behind, wire, saved', behind', wire')
            BY <1>2, <6>1, Sorts DEF AllKeep
          <6> QED
            BY <1>1, <6>1, <6>2, <6>3 DEF Keeps
        <5> QED
          BY <5>1, <5>2
      <4> QED
        BY <4>1 DEF ShownAt
    <3> QED
      BY <3>2, <3>3
  <2> QED
    BY <2>2, <2>6
<1> HIDE DEF e
<1> QED
  BY <1>1, <1>4, <1>5, HearsOfPage

LEMMA GetComponentsPage ==
  ASSUME Shape, Data, Shape', ShowsNow, LoadsNow, NEW a \in ui.asks, GetComponents(a)
  PROVE  ShowsNow' /\ LoadsNow'
<1> DEFINE e == a.of
           st == store'
           u == ui'
           f == fetched'
<1>1. /\ HearsOf(e) /\ Overtaken(a) /\ e \in Env /\ a.kind = "comps"
      /\ store' = Fetched(a)
      /\ late' = (IF ui.page = e THEN late \ {"cache"} ELSE late)
      /\ UNCHANGED <<saved, db, wire, revisited>>
  BY GetComponentsIs
<1>2. AllKeep(Comp \ OfEnv(e))
  <2>1. AllKeep({c \in Comp : Owner[c] # a.of})
    BY <1>1, AnswerKeepsOthers
  <2> QED
    BY <2>1 DEF AllKeep, OfEnv
<1>3. \A c \in Comp : Owner[c] = e =>
        /\ store'[c] > 0 => Fine(c, store'[c], saved', behind', wire')
        /\ store'[c] = 0 => Fine(c, 0, saved', behind', wire')
  BY <1>1, FetchedStore
<1>4. st \in [Entity -> Versions] /\ PageShape(u, st, f)
  BY DEF Shape, DataTypes
<1>5. ASSUME OnPage(ui', revisited', e)
      PROVE  /\ ShownAt(e, ui', saved', behind', wire')
             /\ ui'.loading => WaitsAt(e, ui', saved', behind', wire')
  <2>1. ui.environment = e /\ u.page = e /\ u.environment = e
    BY <1>1, <1>5 DEF HearsOf, OnPage
  <2>2. CompsOf(st, e) # {} =>
          /\ ~u.loading
          /\ u.shown = [c \in Comp |-> IF c \in CompsOf(st, e) THEN st[c] ELSE 0]
    BY <1>1, <2>1 DEF HearsOf
  <2>3. \A c \in Comp : st[c] \in Nat
    BY <1>4, Sorts
  <2> HIDE DEF st, u, f, e
  <2>4. ASSUME NEW c \in Comp, Owner[c] = e PROVE u.shown[c] = st[c]
    BY <1>1, <1>4, <2>1, <2>2, <2>4, ShownAsStored
  <2>5. ASSUME NEW c \in Comp, Owner[c] = e
        PROVE  Fine(c, u.shown[c], saved', behind', wire')
    <3>1. st[c] > 0 => Fine(c, st[c], saved', behind', wire')
      BY <1>3, <2>5 DEF st
    <3>2. st[c] = 0 => Fine(c, 0, saved', behind', wire')
      BY <1>3, <2>5 DEF st
    <3> QED
      BY <2>3, <2>4, <2>5, <3>1, <3>2
  <2>6. ASSUME u.loading, NEW c \in Comp, Owner[c] = e
        PROVE  Fine(c, 0, saved', behind', wire')
    <3>1. st[c] = 0
      BY <2>2, <2>3, <2>6 DEF CompsOf
    <3> QED
      BY <1>3, <2>6, <3>1 DEF st
  <2> QED
    BY <2>5, <2>6 DEF ShownAt, WaitsAt, u
<1> HIDE DEF e
<1>6. ui.page # e => late' = late
  BY <1>1
<1> QED
  BY <1>1, <1>2, <1>5, <1>6, HearsOfPage

LEMMA PageStep ==
  ASSUME Shape, Data, Shape', Data', ShowsNow, LoadsNow, [Next]_vars
  PROVE  ShowsNow' /\ LoadsNow'
<1>1. CASE Quiet /\ Grows
  <2>1. AllKeep(Comp)
    BY <1>1, Sorts DEF Grows, AllKeep
  <2> QED
    BY <1>1, <2>1, PageStays DEF Quiet, Grows
<1>2. CASE Deliver /\ Head(wire).obj \in Env
  <2>1. AllKeep(Comp)
    BY <1>2, DeliverOthersKeep, Sorts DEF AllKeep
  <2> QED
    BY <1>2, <2>1, DeliverEnvIs, EmitsPage
<1>3. CASE Deliver /\ Head(wire).obj \in Comp
  BY <1>3, DeliverCompPage
<1>4. CASE Deliver /\ Head(wire).obj \in Row
  <2>1. AllKeep(Comp)
    BY <1>4, DeliverOthersKeep, Sorts DEF AllKeep
  <2>2. /\ UNCHANGED <<saved, late, revisited>>
        /\ ui'.asks = ui.asks /\ ui'.page = ui.page /\ ui'.environment = ui.environment
        /\ ui'.loading = ui.loading /\ ui'.shown = ui.shown
    BY <1>4, DeliverRowIs
  <2> QED
    BY <2>1, <2>2, PageStays
<1>5. ASSUME NEW a \in ui.asks,
             \/ GetTeams(a) \/ GetComponents(a)
             \/ GetEnvironment(a) \/ GetComponent(a) \/ GetWorkflowData(a)
      PROVE  ShowsNow' /\ LoadsNow'
  <2>1. CASE GetTeams(a)
    <3>1. Emits /\ Overtaken(a) /\ UNCHANGED <<saved, wire>> /\ a.kind \in {"teams", "allTeams"}
      BY <2>1, GetTeamsIs DEF GetTeams
    <3>2. AllKeep(Comp)
      BY <3>1, AnswerKeepsOthers
    <3> QED
      BY <3>1, <3>2, EmitsPage
  <2>2. CASE GetComponents(a)
    BY <2>2, GetComponentsPage
  <2>3. ASSUME a.kind # "comps", UNCHANGED <<saved, revisited>>, AllKeep(Comp),
               "cache" \in late => "cache" \in late',
               ui'.asks = ui.asks \ {a}, ui'.page = ui.page,
               ui'.environment = ui.environment, ui'.loading = ui.loading,
               ui'.shown = ui.shown
        PROVE  ShowsNow' /\ LoadsNow'
    <3>1. \A e \in Env : Pending(ui.asks, "comps", e, 0) => Pending(ui'.asks, "comps", e, 0)
      BY <2>3, StillPending
    <3> QED
      BY <2>3, <3>1, PageStays
  <2>4. CASE GetEnvironment(a)
    <3>1. /\ Overtaken(a) /\ a.kind = "envAudit" /\ UNCHANGED <<saved, wire, revisited>>
          /\ "cache" \in late => "cache" \in late'
      BY <2>4 DEF GetEnvironment
    <3>2. AllKeep(Comp)
      BY <3>1, AnswerKeepsOthers
    <3> QED
      BY <2>3, <2>4, <3>1, <3>2, GetEnvironmentIs
  <2>5. CASE GetComponent(a)
    <3>1. /\ Overtaken(a) /\ a.kind = "compAudit" /\ UNCHANGED <<saved, wire, revisited>>
          /\ "cache" \in late => "cache" \in late'
      BY <2>5 DEF GetComponent
    <3>2. AllKeep(Comp)
      BY <3>1, AnswerKeepsOthers
    <3> QED
      BY <2>3, <2>5, <3>1, <3>2, GetComponentIs
  <2>6. CASE GetWorkflowData(a)
    <3>1. /\ a.kind = "run" /\ UNCHANGED <<saved, wire, behind, revisited>>
          /\ "cache" \in late => "cache" \in late'
      BY <2>6 DEF GetWorkflowData
    <3>2. AllKeep(Comp)
      BY <3>1, SameKeeps DEF AllKeep
    <3> QED
      BY <2>3, <2>6, <3>1, <3>2, GetWorkflowDataIs
  <2> QED
    BY <1>5, <2>1, <2>2, <2>4, <2>5, <2>6
<1>6. ASSUME NEW p \in Env \cup {All}, Visit(p) PROVE ShowsNow' /\ LoadsNow'
  <2>1. UNCHANGED <<saved, store>>
    BY <1>6, VisitIs
  <2>2. ASSUME NEW e \in Env, OnPage(ui', revisited', e)
        PROVE  /\ "cache" \notin late' => ShownAt(e, ui', saved', behind', wire')
               /\ ui'.loading /\ RunsHaveComponents(e) =>
                    WaitsAt(e, ui', saved', behind', wire')
    <3>1. /\ store[e] > 0
          /\ ~Cached(store, e) => Pending(ui'.asks, "comps", e, 0)
          /\ Cached(store, e) /\ CompsOf(store, e) # {} =>
               /\ ~ui'.loading
               /\ ui'.shown = [c \in Comp |-> IF c \in CompsOf(store, e) THEN store[c] ELSE 0]
          /\ "cache" \notin late' =>
               ~Cached(store, e) \/ CompsOf(store, e) = Dag(e, store[e])
      BY <1>6, <2>2, VisitLooks
    <3>2. saved[e] \in Nat /\ saved[e] <= Len(DagAt[e])
      BY SavedIs DEF Data
    <3> QED
      BY <2>1, <2>2, <3>1, <3>2, PageEntered
  <2> QED
    BY <2>2 DEF ShowsNow, Shows, LoadsNow, Loads
<1>7. ASSUME NEW c \in Comp, Select(c) PROVE ShowsNow' /\ LoadsNow'
  <2>1. /\ Grown(ui'.asks, ui.asks)
        /\ ui'.page = ui.page /\ ui'.environment = ui.environment
        /\ ui'.loading = ui.loading /\ ui'.shown = ui.shown
        /\ UNCHANGED <<saved, wire, behind, revisited>>
        /\ late' = late \/ late' = late \ {"run"}
    BY <1>7, SelectIs
  <2>2. AllKeep(Comp)
    BY <2>1, SameKeeps DEF AllKeep
  <2>3. "cache" \in late => "cache" \in late'
    BY <2>1
  <2> QED
    BY <2>1, <2>2, <2>3, PageStays DEF Grown
<1> QED
  BY <1>1, <1>2, <1>3, <1>4, <1>5, <1>6, <1>7, StepIs
------------------------------------------------------------------------------
(* The run that is viewed.                                                 *)

ViewsNow == Views(ui, saved, db, behind, wire, late)

\* The view goes on as it was.
LEMMA ViewStays ==
  ASSUME Shape, Data, ViewsNow, KnownStays(saved, db, saved', db'),
         \A c \in Comp : c = ui.selected => Keeps(c, saved, behind, wire, saved', behind', wire'),
         ui'.selected = ui.selected, ui'.workflow = ui.workflow, ui'.view = ui.view,
         "run" \in late => "run" \in late',
         \A o, n : Pending(ui.asks, "run", o, n) => Pending(ui'.asks, "run", o, n)
  PROVE  ViewsNow'
<1> SUFFICES ASSUME ui'.selected # None, "run" \notin late'
             PROVE  /\ ui'.workflow = Initializing => ui'.view = NoRun
                    /\ ui'.workflow \in Run =>
                         \/ ui'.view = ui'.workflow
                         \/ Pending(ui'.asks, "run", ui'.workflow.comp, ui'.workflow.ver)
                    /\ ui'.workflow = NoRun =>
                         \/ ui'.view = NoRun
                         \/ /\ Known(ui'.selected, 2, saved', db')
                            /\ Fine(ui'.selected, 1, saved', behind', wire')
  BY DEF ViewsNow, Views
<1> DEFINE c == ui.selected
<1>1. c \in Comp /\ c \in Obj
  BY SelectedIsHere, Sorts DEF Shape
<1>2. /\ ui.workflow = Initializing => ui.view = NoRun
      /\ ui.workflow \in Run =>
           ui.view = ui.workflow \/ Pending(ui.asks, "run", ui.workflow.comp, ui.workflow.ver)
      /\ ui.workflow = NoRun =>
           ui.view = NoRun \/ (Known(c, 2, saved, db) /\ Fine(c, 1, saved, behind, wire))
  BY DEF ViewsNow, Views
<1>3. Keeps(c, saved, behind, wire, saved', behind', wire')
  BY <1>1
<1> HIDE DEF c
<1>4. Known(c, 2, saved, db) => Known(c, 2, saved', db')
  BY <1>1 DEF KnownStays
<1>5. Fine(c, 1, saved, behind, wire) => Fine(c, 1, saved', behind', wire')
  BY <1>3 DEF Keeps
<1>6. ui'.selected = c
  BY DEF c
<1> QED
  BY <1>2, <1>4, <1>5, <1>6

\* What was shown to have a run has had one.
LEMMA RunIsKnown ==
  ASSUME Shape, Data, ui.selected # None, ui.workflow \in Run
  PROVE  Known(ui.selected, 2, saved, db)
<1> DEFINE c == ui.selected
<1>1. c \in Comp /\ c \in Obj /\ c \notin Env
  BY SelectedIsHere, Sorts DEF Shape
<1>2. ui.shown[c] \in Versions /\ saved[c] \in Nat /\ ui.shown[c] \in Nat
  BY <1>1, SavedIs, Sorts DEF Data, Shape, PageShape, Page
<1>3. ui.workflow = RunOf(c, ui.shown[c])
  BY RunsDiffer DEF Shape, PageShape, SelectionOK
<1> HIDE DEF c
<1>4. ui.shown[c] > 1
  BY <1>1, <1>2, <1>3, RunIs, RunsDiffer
<1>5. Known(c, ui.shown[c], saved, db)
  BY <1>1 DEF Data, ShownOK
<1>6. Known(c, 2, saved, db)
  BY <1>1, <1>2, <1>4, <1>5 DEF Known
<1> QED
  BY <1>6 DEF c

LEMMA HearsOfView ==
  ASSUME Shape, Data, Shape', Data', ViewsNow, NEW e \in Env, HearsOf(e),
         UNCHANGED <<saved, db>>, AllKeep(Comp \ OfEnv(e)),
         \A o \in Entity : store[o] > 0 => store'[o] > 0,
         "run" \in late => "run" \in late'
  PROVE  ViewsNow'
<1>1. KnownStays(saved, db, saved', db')
  BY DEF KnownStays
<1>2. /\ ui'.selected = ui.selected /\ ui'.view = ui.view
      /\ \A o, n : Pending(ui.asks, "run", o, n) => Pending(ui'.asks, "run", o, n)
  BY DEF HearsOf
<1>3. CASE ui.selected = None
  BY <1>2, <1>3 DEF ViewsNow, Views
<1>4. CASE ui.selected # None /\ Owner[ui.selected] # e
  <2>1. ui.selected \in Comp /\ ui.environment # e
    BY <1>4, SelectedIsHere DEF Shape
  <2>2. ui'.workflow = ui.workflow
    BY <2>1 DEF HearsOf
  <2>3. Keeps(ui.selected, saved, behind, wire, saved', behind', wire')
    BY <1>4, <2>1 DEF AllKeep, OfEnv
  <2> QED
    BY <1>1, <1>2, <2>2, <2>3, ViewStays
<1>5. CASE ui.selected # None /\ Owner[ui.selected] = e
  <2> DEFINE c == ui.selected
             x == store'[c]
             run == ui'.workflow
  <2>1. c \in Comp /\ ui.environment = e /\ store[c] > 0 /\ c \in Entity
    BY <1>5, SelectedIsHere, Sorts DEF Shape
  <2>2. x > 0 /\ x \in Versions /\ x \in Nat
    BY <2>1, Sorts DEF Shape, DataTypes
  <2>3. CompsOf(store', e) # {}
    BY <1>5, <2>1, <2>2 DEF CompsOf
  <2>4. /\ run = RunOf(c, x)
        /\ run = ui.workflow \/ (run \in Run => Pending(ui'.asks, "run", run.comp, run.ver))
    BY <1>5, <2>1, <2>3 DEF HearsOf
  <2>5. Fine(c, x, saved', behind', wire')
    BY <2>1, <2>2 DEF Data, StoreOK
  <2>6. "run" \notin late' =>
          /\ ui.workflow = Initializing => ui.view = NoRun
          /\ ui.workflow \in Run =>
               ui.view = ui.workflow \/ Pending(ui.asks, "run", ui.workflow.comp, ui.workflow.ver)
          /\ ui.workflow = NoRun => ui.view = NoRun \/ Known(c, 2, saved, db)
    BY <1>5 DEF ViewsNow, Views
  <2>7. ui.workflow \in Run => Known(c, 2, saved, db)
    BY <1>5, RunIsKnown
  <2>8. ui.workflow \in Run \cup {NoRun, Initializing}
    BY DEF Shape, PageShape, Page
  <2>9. Known(c, 2, saved, db) => Known(c, 2, saved', db')
    OBVIOUS
  <2> HIDE DEF c, x
  <2>10. run \in Run \cup {NoRun} /\ run # Initializing /\ (run = NoRun => x = 1)
    <3>1. CASE x > 1
      <4>1. RunOf(c, x) \in Run /\ RunOf(c, x) # Initializing
        BY <2>1, <2>2, <3>1, RunIs
      <4> QED
        BY <2>4, <4>1, RunsDiffer
    <3>2. CASE ~(x > 1)
      <4>1. RunOf(c, x) = NoRun /\ RunOf(c, x) # Initializing
        BY <2>1, <2>2, <3>2, RunIs
      <4> QED
        BY <2>2, <2>4, <3>2, <4>1
    <3> QED
      BY <3>1, <3>2
  <2> HIDE DEF run
  <2>11. ASSUME "run" \notin late'
         PROVE  /\ run \in Run =>
                     ui'.view = run \/ Pending(ui'.asks, "run", run.comp, run.ver)
                /\ run = NoRun =>
                     ui'.view = NoRun \/ (Known(c, 2, saved', db')
                                          /\ Fine(c, 1, saved', behind', wire'))
    <3>1. run \in Run => ui'.view = run \/ Pending(ui'.asks, "run", run.comp, run.ver)
      BY <1>2, <2>4, <2>6, <2>11
    <3>2. run = NoRun => ui'.view = NoRun \/ Known(c, 2, saved', db')
      BY <1>2, <2>6, <2>7, <2>8, <2>9, <2>11
    <3>3. run = NoRun => Fine(c, 1, saved', behind', wire')
      BY <2>5, <2>10
    <3> QED
      BY <3>1, <3>2, <3>3
  <2>12. ui'.workflow = run /\ ui'.selected = c
    BY <1>2 DEF run, c
  <2> QED
    BY <2>10, <2>11, <2>12 DEF ViewsNow, Views
<1> QED
  BY <1>3, <1>4, <1>5

LEMMA DeliverView ==
  ASSUME Shape, Data, Shape', Data', ViewsNow, Deliver
  PROVE  ViewsNow'
<1> DEFINE o == Head(wire).obj
<1>1. AllKeep(Obj \ {o})
  BY DeliverOthersKeep
<1>2. Head(wire).obj \in Env \cup Comp \cup Row
  BY HeadIs DEF Deliver, Obj, Entity
<1>3. UNCHANGED <<saved, db>>
  BY DEF Deliver
<1>4. KnownStays(saved, db, saved', db')
  BY <1>3 DEF KnownStays
<1>5. CASE o \in Env
  <2>1. \A c \in Comp : Keeps(c, saved, behind, wire, saved', behind', wire')
    BY <1>1, <1>5, Sorts DEF AllKeep
  <2>2. Emits
    BY <1>5, DeliverEnvIs
  <2>3. /\ ui'.selected = ui.selected /\ ui'.workflow = ui.workflow /\ ui'.view = ui.view
        /\ "run" \in late => "run" \in late'
        /\ \A b, n : Pending(ui.asks, "run", b, n) => Pending(ui'.asks, "run", b, n)
    BY <2>2 DEF Emits, CacheLate
  <2> QED
    BY <1>4, <2>1, <2>3, ViewStays
<1>6. CASE o \in Comp
  <2> DEFINE e == Owner[o]
  <2>1. HearsOf(e) /\ e \in Env /\ UNCHANGED late /\ store'[o] > 0
    BY <1>6, DeliverCompIs, Sorts
  <2>2. AllKeep(Comp \ OfEnv(e))
    BY <1>1, <1>6, Sorts DEF AllKeep, OfEnv
  <2>3. \A b \in Entity : store[b] > 0 => store'[b] > 0
    <3>1. \A b \in Entity : b # o => store'[b] = store[b]
      BY <1>6, Sorts DEF Deliver, Shape, DataTypes
    <3> QED
      BY <2>1, <3>1
  <2> HIDE DEF e, o
  <2> QED
    BY <1>3, <2>1, <2>2, <2>3, HearsOfView
<1>7. CASE o \in Row
  <2>1. \A c \in Comp : Keeps(c, saved, behind, wire, saved', behind', wire')
    BY <1>1, <1>7, Sorts DEF AllKeep
  <2>2. /\ ui'.selected = ui.selected /\ ui'.workflow = ui.workflow /\ ui'.view = ui.view
        /\ ui'.asks = ui.asks /\ UNCHANGED late
    BY <1>7, DeliverRowIs
  <2> QED
    BY <1>4, <2>1, <2>2, ViewStays
<1> QED
  BY <1>2, <1>5, <1>6, <1>7
LEMMA AnswerView ==
  ASSUME Shape, Data, Shape', Data', ViewsNow, NEW a \in ui.asks,
         \/ GetTeams(a) \/ GetComponents(a)
         \/ GetEnvironment(a) \/ GetComponent(a) \/ GetWorkflowData(a)
  PROVE  ViewsNow'
<1>1. UNCHANGED <<saved, db>> => KnownStays(saved, db, saved', db')
  BY DEF KnownStays
<1>2. CASE GetTeams(a)
  <2>1. Emits /\ Overtaken(a) /\ UNCHANGED <<saved, db, wire>>
        /\ a.kind \in {"teams", "allTeams"}
    BY <1>2, GetTeamsIs DEF GetTeams
  <2>2. \A c \in Comp : Keeps(c, saved, behind, wire, saved', behind', wire')
    BY <2>1, AnswerKeepsOthers DEF AllKeep
  <2>3. /\ ui'.selected = ui.selected /\ ui'.workflow = ui.workflow /\ ui'.view = ui.view
        /\ "run" \in late => "run" \in late'
        /\ \A b, n : Pending(ui.asks, "run", b, n) => Pending(ui'.asks, "run", b, n)
    BY <2>1 DEF Emits, CacheLate
  <2> QED
    BY <1>1, <2>1, <2>2, <2>3, ViewStays
<1>3. CASE GetComponents(a)
  <2>1. /\ HearsOf(a.of) /\ Overtaken(a) /\ a.of \in Env /\ a.kind = "comps"
        /\ store' = Fetched(a)
        /\ late' = (IF ui.page = a.of THEN late \ {"cache"} ELSE late)
        /\ UNCHANGED <<saved, db, wire>>
    BY <1>3, GetComponentsIs
  <2>2. AllKeep(Comp \ OfEnv(a.of))
    BY <2>1, AnswerKeepsOthers DEF AllKeep, OfEnv
  <2>3. \A o \in Entity : store[o] > 0 => store'[o] > 0
    BY <2>1, FetchedType
  <2>4. "run" \in late => "run" \in late'
    BY <2>1
  <2> QED
    BY <2>1, <2>2, <2>3, <2>4, HearsOfView
<1>4. ASSUME a.kind # "run", UNCHANGED <<saved, db>>, AllKeep(Comp),
             "run" \in late => "run" \in late', ui'.asks = ui.asks \ {a},
             ui'.selected = ui.selected, ui'.workflow = ui.workflow, ui'.view = ui.view
      PROVE  ViewsNow'
  <2>1. \A o, n : Pending(ui.asks, "run", o, n) => Pending(ui'.asks, "run", o, n)
    BY <1>4, StillPending
  <2> QED
    BY <1>1, <1>4, <2>1, ViewStays DEF AllKeep
<1>5. CASE GetEnvironment(a)
  <2>1. /\ Overtaken(a) /\ a.kind = "envAudit" /\ UNCHANGED <<saved, db, wire>>
        /\ "run" \in late => "run" \in late'
    BY <1>5 DEF GetEnvironment
  <2>2. AllKeep(Comp)
    BY <2>1, AnswerKeepsOthers
  <2> QED
    BY <1>4, <1>5, <2>1, <2>2, GetEnvironmentIs
<1>6. CASE GetComponent(a)
  <2>1. /\ Overtaken(a) /\ a.kind = "compAudit" /\ UNCHANGED <<saved, db, wire>>
        /\ "run" \in late => "run" \in late'
    BY <1>6 DEF GetComponent
  <2>2. AllKeep(Comp)
    BY <2>1, AnswerKeepsOthers
  <2> QED
    BY <1>4, <1>6, <2>1, <2>2, GetComponentIs
<1>7. CASE GetWorkflowData(a)
  <2> DEFINE run == [comp |-> a.of, ver |-> a.ver]
  <2>1. /\ ui'.selected = ui.selected /\ ui'.workflow = ui.workflow /\ ui'.view = run
        /\ run \in Run
    BY <1>7, GetWorkflowDataIs
  <2>2. late' = IF run = ui.workflow THEN late \ {"run"} ELSE late \cup {"run"}
    BY <1>7 DEF GetWorkflowData
  <2> HIDE DEF run
  <2>3. CASE run = ui.workflow
    <3>1. ui'.workflow # Initializing /\ ui'.workflow # NoRun /\ ui'.view = ui'.workflow
      BY <2>1, <2>3, RunsDiffer
    <3> QED
      BY <3>1 DEF ViewsNow, Views
  <2>4. CASE run # ui.workflow
    BY <2>2, <2>4 DEF ViewsNow, Views
  <2> QED
    BY <2>3, <2>4
<1> QED
  BY <1>2, <1>3, <1>5, <1>6, <1>7

LEMMA SelectView ==
  ASSUME Shape, ViewsNow, NEW c \in Comp, Select(c)
  PROVE  ViewsNow'
<1> DEFINE run == IF RunOf(c, ui.shown[c]) = NoRun THEN Initializing ELSE RunOf(c, ui.shown[c])
<1>1. /\ Grown(ui'.asks, ui.asks) /\ ui'.selected = c
      /\ ui'.workflow = run /\ run \in Run \cup {Initializing}
      /\ IF ui.workflow = run THEN ui'.view = ui.view /\ late' = late
         ELSE /\ ui'.view = NoRun /\ late' = late \ {"run"}
              /\ run \in Run => Pending(ui'.asks, "run", run.comp, run.ver)
  BY SelectIs
<1> HIDE DEF run
<1>2. run # NoRun
  BY <1>1, RunsDiffer
<1>3. CASE ui.workflow # run
  BY <1>1, <1>2, <1>3 DEF ViewsNow, Views
<1>4. CASE ui.workflow = run
  <2>1. ui.selected # None
    BY <1>2, <1>4 DEF Shape, PageShape, SelectionOK
  <2>2. "run" \notin late' =>
          /\ run = Initializing => ui.view = NoRun
          /\ run \in Run => ui.view = run \/ Pending(ui.asks, "run", run.comp, run.ver)
    BY <1>1, <1>4, <2>1 DEF ViewsNow, Views
  <2>3. Pending(ui.asks, "run", run.comp, run.ver) =>
          Pending(ui'.asks, "run", run.comp, run.ver)
    BY <1>1 DEF Grown
  <2> QED
    BY <1>1, <1>2, <1>4, <2>2, <2>3 DEF ViewsNow, Views
<1> QED
  BY <1>3, <1>4

LEMMA ViewsStep ==
  ASSUME Shape, Data, Shape', Data', ViewsNow, [Next]_vars
  PROVE  ViewsNow'
<1>1. CASE Quiet /\ Grows
  <2>1. \A c \in Comp : Keeps(c, saved, behind, wire, saved', behind', wire')
    BY <1>1, Sorts DEF Grows
  <2>2. /\ KnownStays(saved, db, saved', db')
        /\ ui'.selected = ui.selected /\ ui'.workflow = ui.workflow /\ ui'.view = ui.view
        /\ late' = late
        /\ \A o, n : Pending(ui.asks, "run", o, n) => Pending(ui'.asks, "run", o, n)
    BY <1>1 DEF Quiet, Grows
  <2> QED
    BY <2>1, <2>2, ViewStays
<1>2. ASSUME NEW p \in Env \cup {All}, Visit(p) PROVE ViewsNow'
  BY <1>2, VisitIs DEF ViewsNow, Views
<1> QED
  BY <1>1, <1>2, StepIs, DeliverView, AnswerView, SelectView

------------------------------------------------------------------------------
(* Once nothing is under way.                                              *)

LiveViewInv ==
  /\ Shape /\ Data
  /\ ShowsNow /\ LoadsNow /\ ListsNow /\ PanelNow /\ ViewsNow

LEMMA LiveViewInvInit == Init => LiveViewInv
<1> SUFFICES ASSUME Init PROVE LiveViewInv
  OBVIOUS
<1>1. Shape /\ Data
  BY InitShape, InitData
<1>2. ui.page = None /\ ui.selected = None
  BY DEF Init
<1>3. \A e \in Env : ~OnPage(ui, revisited, e)
  BY <1>2, Sorts DEF OnPage
<1>4. ShowsNow /\ LoadsNow /\ ListsNow
  BY <1>3 DEF ShowsNow, Shows, LoadsNow, Loads, ListsNow, Lists
<1>5. PanelNow /\ ViewsNow
  BY <1>2 DEF PanelNow, Panel, ViewsNow, Views
<1> QED
  BY <1>1, <1>4, <1>5 DEF LiveViewInv

LEMMA LiveViewInvStep == LiveViewInv /\ [Next]_vars => LiveViewInv'
<1> SUFFICES ASSUME LiveViewInv, [Next]_vars PROVE LiveViewInv'
  OBVIOUS
<1>1. Shape /\ Data /\ ShowsNow /\ LoadsNow /\ ListsNow /\ PanelNow /\ ViewsNow
  BY DEF LiveViewInv
<1>2. Shape' /\ Data'
  BY <1>1, ShapeStep, DataStep
<1>3. ShowsNow' /\ LoadsNow'
  BY <1>1, <1>2, PageStep
<1>4. ListsNow' /\ PanelNow'
  BY <1>1, ListsStep, PanelStep
<1>5. ViewsNow'
  BY <1>1, <1>2, ViewsStep
<1> QED
  BY <1>2, <1>3, <1>4, <1>5 DEF LiveViewInv

LEMMA LiveViewInvHolds == Spec => []LiveViewInv
BY LiveViewInvInit, LiveViewInvStep, PTL DEF Spec

\* At rest what is fine was saved, unless it was lost or overtaken.
LEMMA FineAtRest ==
  ASSUME AtRest, Shape, Data, NEW o \in Obj, NEW x, Fine(o, x, saved, behind, wire)
  PROVE  db[o] = saved[o] /\ (x = db[o] \/ (o \in Comp /\ db[o] = 0) \/ o \in behind)
BY DEF AtRest, Fine, Excused, Coming

LEMMA NothingPending ==
  ASSUME AtRest
  PROVE  \A k, o, n : ~Pending(ui.asks, k, o, n)
BY DEF AtRest, Pending

\* The page of an environment shows what the API has of every component of its
\* DAG, whatever the order of answers and messages (LiveView.tla: GetTeams, Deliver).
THEOREM ComponentsAreShownHolds == Spec => []ComponentsAreShown
<1>1. LiveViewInv => ComponentsAreShown
  <2> SUFFICES ASSUME LiveViewInv, NEW e \in Env, AtRest, On(e), "cache" \notin late,
                      NEW c \in Comp, Owner[c] = e, c \in Dag(e, db[e]), c \notin behind
               PROVE  db[c] \in {0, ui.shown[c]}
    BY DEF ComponentsAreShown
  <2>1. ShownAt(e, ui, saved, behind, wire) /\ Shape /\ Data
    BY DEF LiveViewInv, ShowsNow, Shows, On, OnPage
  <2>2. Fine(c, ui.shown[c], saved, behind, wire) \/ Gone(c, saved[e])
    BY <2>1, NothingPending DEF ShownAt
  <2>3. ~Gone(c, saved[e])
    <3>1. db[e] = saved[e] /\ saved[e] \in Nat /\ Owner[c] = e
      BY <2>1, SavedIs DEF AtRest, Data
    <3>2. saved[e] # 0 => c \in DagAt[e][saved[e]]
      BY <3>1 DEF Dag
    <3> QED
      BY <3>1, <3>2 DEF Gone
  <2>4. c \in Obj
    BY Sorts
  <2> QED
    BY <2>1, <2>2, <2>3, <2>4, FineAtRest
<1> QED
  BY <1>1, LiveViewInvHolds, PTL

\* The page of an environment whose runs have components does not load for ever
\* while there is one to show (LiveView.tla: SetEnvironment, ComponentsEmitted).
THEOREM PageIsLoadedHolds == Spec => []PageIsLoaded
<1>1. LiveViewInv => PageIsLoaded
  <2> SUFFICES ASSUME LiveViewInv, NEW e \in Env, AtRest, On(e), ui.loading,
                      \A v \in DOMAIN RunDagAt[e] : RunDagAt[e][v] # {},
                      NEW c \in Comp, Owner[c] = e
               PROVE  db[c] = 0 \/ c \in behind
    BY DEF PageIsLoaded
  <2>1. WaitsAt(e, ui, saved, behind, wire) /\ Shape /\ Data
    BY DEF LiveViewInv, LoadsNow, Loads, RunsHaveComponents, On, OnPage
  <2>2. Fine(c, 0, saved, behind, wire) /\ c \in Obj
    BY <2>1, NothingPending, Sorts DEF WaitsAt
  <2> QED
    BY <2>1, <2>2, FineAtRest
<1> QED
  BY <1>1, LiveViewInvHolds, PTL

\* The list of an environment's runs has all of them as they are, whichever of
\* its listeners is set up (LiveView.tla: GetEnvironment, AuditHeard).
THEOREM RunsAreListedHolds == Spec => []RunsAreListed
<1>1. LiveViewInv => RunsAreListed
  <2> SUFFICES ASSUME LiveViewInv, NEW e \in Env, AtRest, On(e), "env" \notin late,
                      NEW r \in EnvRow, Owner[r] = e, r \notin behind
               PROVE  ui.envAudit[r] = db[r]
    BY DEF RunsAreListed
  <2>1. ListedAt(e, ui, saved, behind, wire) /\ Shape /\ Data
    BY DEF LiveViewInv, ListsNow, Lists, On, OnPage
  <2>2. Fine(r, ui.envAudit[r], saved, behind, wire) /\ r \in Obj /\ r \notin Comp
    BY <2>1, NothingPending, Sorts DEF ListedAt
  <2> QED
    BY <2>1, <2>2, FineAtRest
<1> QED
  BY <1>1, LiveViewInvHolds, PTL

\* The panel lists the reconciles of the selected component as they are, and those
\* of others only of a listener left behind (LiveView.tla: GetComponent, Visit).
THEOREM PanelIsOfSelectedHolds == Spec => []PanelIsOfSelected
<1>1. LiveViewInv => PanelIsOfSelected
  <2> SUFFICES ASSUME LiveViewInv, AtRest, ui.selected # None, "comp" \notin late,
                      NEW r \in CompRow
               PROVE  IF Owner[r] = ui.selected THEN ui.compAudit[r] = db[r] \/ r \in behind
                      ELSE ui.compAudit[r] > 0 => Owner[r] \in ui.compLeaks
    BY DEF PanelIsOfSelected
  <2>1. Shape /\ Data /\ r \in Obj /\ r \notin Comp
    BY Sorts DEF LiveViewInv
  <2>2. IF Owner[r] = ui.selected THEN Fine(r, ui.compAudit[r], saved, behind, wire)
        ELSE ui.compAudit[r] > 0 => Owner[r] \in ui.compLeaks
    BY NothingPending DEF LiveViewInv, PanelNow, Panel
  <2> QED
    BY <2>1, <2>2, FineAtRest
<1> QED
  BY <1>1, LiveViewInvHolds, PTL

\* The run that is viewed is the last one of the selected component as it is shown,
\* while there is that component (LiveView.tla: Select, GetWorkflowData).
THEOREM ViewIsOfSelectedHolds == Spec => []ViewIsOfSelected
<1>1. LiveViewInv => ViewIsOfSelected
  <2> SUFFICES ASSUME LiveViewInv, AtRest, ui.selected # None, "run" \notin late,
                      ui.selected \notin behind, db[ui.selected] # 0
               PROVE  ui.view = RunOf(ui.selected, ui.shown[ui.selected])
    BY Zenon DEF ViewIsOfSelected
  <2> DEFINE c == ui.selected
             run == RunOf(c, ui.shown[c])
  <2>1. Shape /\ Data /\ ViewsNow
    BY DEF LiveViewInv
  <2>2. c \in Comp /\ c \in Obj /\ c \notin Env
    BY <2>1, SelectedIsHere, Sorts DEF Shape
  <2>3. ui.workflow = run \/ (ui.workflow = Initializing /\ run = NoRun)
    BY <2>1 DEF Shape, PageShape, SelectionOK
  <2>4. /\ ui.workflow = Initializing => ui.view = NoRun
        /\ ui.workflow \in Run => ui.view = ui.workflow
        /\ ui.workflow = NoRun =>
             ui.view = NoRun \/ (Known(c, 2, saved, db) /\ Fine(c, 1, saved, behind, wire))
    BY <2>1, NothingPending DEF ViewsNow, Views
  <2>5. ui.workflow \in Run \cup {NoRun, Initializing}
    BY <2>1 DEF Shape, PageShape, Page
  <2>6. run # Initializing
    <3>1. ui.shown[c] \in Versions
      BY <2>1, <2>2 DEF Shape, PageShape, Page
    <3> QED
      BY <2>2, <3>1, RunIs
  <2>7. db[c] = saved[c] /\ c \notin behind /\ db[c] # 0
    BY <2>2 DEF AtRest
  <2> HIDE DEF c, run
  <2>8. ~(Known(c, 2, saved, db) /\ Fine(c, 1, saved, behind, wire))
    <3>1. Fine(c, 1, saved, behind, wire) => db[c] = 1
      BY <2>1, <2>2, <2>7, FineAtRest
    <3>2. Known(c, 2, saved, db) => 2 <= db[c]
      BY <2>7 DEF Known, Deleted
    <3> QED
      BY <3>1, <3>2
  <2>9. ui.view = run
    BY <2>3, <2>4, <2>5, <2>8, <2>6
  <2> QED
    BY <2>9 DEF c, run
<1> QED
  BY <1>1, LiveViewInvHolds, PTL
=============================================================================
