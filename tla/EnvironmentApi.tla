---------------------------- MODULE EnvironmentApi ----------------------------
(***************************************************************************)
(* What the API keeps of one environment: its row with the DAG, and the    *)
(* rows of its components. The POST of the operator changes them in three  *)
(* statements without a transaction; the PATCH makes a run of the DAG that *)
(* the row had when the request came in.                                   *)
(*                                                                         *)
(* The operator waits ten seconds for an answer. A request that it no      *)
(* longer waits for goes on: such a POST is in late. Other handlers read   *)
(* the row and save the whole row after an await: one of them is touch.    *)
(***************************************************************************)
EXTENDS Naturals

CONSTANTS
  Component,
  MaxCode      \* bound on the versions of the variables in a specification

ASSUME ApiAssumption == MaxCode \in Nat \ {0}

VARIABLES
  row,         \* the row of the environment
  components,  \* the names in the table of components
  post, late,  \* the POST the operator waits for, and one it gave up
  patch,       \* the PATCH under way
  touch,       \* a handler that has read the row and will save it
  run,         \* what the latest environment reconcile is of
  crossed      \* since the last POST another request changed what it reads

api == <<row, components, post, late, patch, touch, run, crossed>>

Dags == [components : SUBSET Component, code : 0..MaxCode]
NoDag == [components |-> {}, code |-> 0]

Posts == [at : {"none", "save", "insert", "delete"}, dag : Dags,
          new : SUBSET Component, missing : SUBSET Component]
NoPost == [at |-> "none", dag |-> NoDag, new |-> {}, missing |-> {}]

Patches == [at : {"none", "run", "sync"}, dag : Dags]
NoPatch == [at |-> "none", dag |-> NoDag]

Row == [exists : BOOLEAN, dag : Dags]
NoRow == [exists |-> FALSE, dag |-> NoDag]

ApiTypeOK ==
  /\ row \in Row /\ components \in SUBSET Component
  /\ post \in Posts /\ late \in Posts /\ patch \in Patches
  /\ touch \in Row /\ run \in Row /\ crossed \in BOOLEAN

ApiInit ==
  /\ row = NoRow /\ components = {} /\ post = NoPost /\ late = NoPost
  /\ patch = NoPatch /\ touch = NoRow /\ run = NoRow /\ crossed = FALSE

------------------------------------------------------------------------------
(* The POST: saveOrUpdate. It finds the row and the components, or creates *)
(* the row, and goes on with the statements below.                         *)

CreateEnv(dag) ==
  /\ ~row.exists
  /\ row' = [exists |-> TRUE, dag |-> dag]
  /\ post' = [at |-> "insert", dag |-> dag, new |-> dag.components, missing |-> {}]

FindByName(dag) ==
  /\ row.exists
  /\ post' = [at |-> "save", dag |-> dag, new |-> dag.components \ components,
              missing |-> components \ dag.components]
  /\ UNCHANGED row

StartPost(dag) ==
  /\ CreateEnv(dag) \/ FindByName(dag)
  /\ crossed' = FALSE
  /\ UNCHANGED <<components, late, patch, touch, run>>

\* Mutant of UpdateDag: the row keeps the DAG it was created with.
KeepsDag(p, q) ==
  /\ p.at = "save"
  /\ q = [p EXCEPT !.at = "insert"]
  /\ UNCHANGED <<row, components>>

\* A statement of request p, which becomes q.
UpdateDag(p, q) ==
  /\ p.at = "save"
  /\ row' = [row EXCEPT !.dag = p.dag]
  /\ q = [p EXCEPT !.at = "insert"]
  /\ UNCHANGED components

\* The index of the table refuses a second row of the same name.
Duplicate(p) == p.at = "insert" /\ p.new \cap components # {}

BatchCreate(p, q) ==
  /\ p.at = "insert" /\ ~Duplicate(p)
  /\ components' = components \cup p.new
  /\ q = [p EXCEPT !.at = "delete"]
  /\ UNCHANGED row

BatchDelete(p, q) ==
  /\ p.at = "delete"
  /\ components' = components \ p.missing
  /\ q = NoPost
  /\ UNCHANGED row

SaveOrUpdate(p, q) ==
  UpdateDag(p, q) \/ BatchCreate(p, q) \/ BatchDelete(p, q)

\* batchDelete goes by the ids that were read: a row of the same name that is
\* created after one was deleted is no longer among another request's.
Forgotten(p) == [p EXCEPT !.missing = @ \cap components']

PostStep ==
  /\ SaveOrUpdate(post, post')
  /\ late' = Forgotten(late)
  /\ UNCHANGED <<patch, touch, run, crossed>>

LateStep ==
  /\ \/ SaveOrUpdate(late, late')
     \/ Duplicate(late) /\ late' = NoPost /\ UNCHANGED <<row, components>>
  /\ post' = Forgotten(post)
  /\ crossed' = (crossed \/ <<row, components>> # <<row', components'>>)
  /\ UNCHANGED <<patch, touch, run>>

\* envReconEnvUpdateListener, envReconCostUpdateListener and updateById: the
\* row is read, and saved with all its columns.
ReadRow ==
  /\ row.exists /\ ~touch.exists
  /\ touch' = row
  /\ UNCHANGED <<row, components, post, late, patch, run, crossed>>

SaveRow ==
  /\ touch.exists
  /\ row' = touch /\ touch' = NoRow
  /\ crossed' = (crossed \/ row # touch)
  /\ UNCHANGED <<components, post, late, patch, run>>

\* The middleware reads the environment, update makes the run of its DAG and
\* saves the row, and reconcileCD follows.
StartPatch ==
  /\ patch.at = "none" /\ row.exists
  /\ patch' = [at |-> "run", dag |-> row.dag]
  /\ UNCHANGED <<row, components, post, late, touch, run, crossed>>

CreateEnvRecon ==
  /\ patch.at = "run"
  /\ run' = [exists |-> TRUE, dag |-> patch.dag]
  /\ patch' = [patch EXCEPT !.at = "sync"]
  /\ UNCHANGED <<row, components, post, late, touch, crossed>>
=============================================================================
