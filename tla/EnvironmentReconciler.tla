------------------------ MODULE EnvironmentReconciler ------------------------
(***************************************************************************)
(* The operator's reconcile of one environment, from its custom resource   *)
(* to the run that provisions it. A reconcile reads the resource, clones   *)
(* the two IL repositories, sets the finalizer and the status, posts the   *)
(* environment to the API, pushes the workflow to the ZL IL and the code   *)
(* to the TF IL, asks the API for a run when it pushed something, and      *)
(* brings the zLstate up to date. Deletion runs the same reconcile, without*)
(* the POST and the code, before the finalizer goes.                       *)
(*                                                                         *)
(* One worker takes the environment from a queue that holds it at most     *)
(* once. A reconcile that returns an error is queued again; so is one that *)
(* a crash of the operator ends, since a start lists every environment.    *)
(* The API (EnvironmentApi), the state manager (ZLState), Argo CD and the  *)
(* scripts of the workflow go on meanwhile.                                *)
(***************************************************************************)
EXTENDS EnvironmentApi

CONSTANT
  MaxEvents   \* bound on edits, failures, pushes and saves of others, reports

ASSUME ReconcilerAssumption == MaxEvents \in Nat

VARIABLES
  env,      \* the custom resource
  queued,   \* the queue holds the environment
  op,       \* the reconcile under way
  zl,       \* the ZL IL: the Argo CD app and the workflow of workflows
  tf,       \* tf[c]: the version of the code of c in the TF IL, 0 for none
  wf,       \* the workflow that Argo CD made, with the code it was made on
  asked,    \* a run was asked for since the last push
  lost,     \* a reconcile pushed and ended without a PATCH that succeeded
  events,
  object, requests, told   \* of the state manager

INSTANCE ZLState

ASSUME ComponentAssumption == Component # {} /\ "operator" \notin Component

zlstate == <<object, requests, told>>
operator == <<env, queued, op, zl, tf, wf, asked, lost>>
vars == <<operator, api, zlstate, events>>

Specs == [components : SUBSET Component \ {{}}, code : 1..MaxCode,
          teardown : BOOLEAN]
NoSpec == [components |-> {}, code |-> 0, teardown |-> FALSE]

DagOf(spec) == [components |-> spec.components, code |-> spec.code]

Environments ==
  [phase : {"gone", "live", "deleting"}, spec : Specs \cup {NoSpec},
   finalizer : BOOLEAN, status : Dags]
Gone == [phase |-> "gone", spec |-> NoSpec, finalizer |-> FALSE, status |-> NoDag]

\* fresh: nobody has written the resource since it was read, so that an Update
\* is accepted. moved: another controller has pushed to the ZL IL since the
\* clone, so that a push is refused. old: another request has written the
\* zLstate since the operator read it.
Reconciles ==
  [at : {"idle", "finalizer", "status", "post", "posting", "zl", "tf", "patch",
         "patching", "zlstate", "putting", "components", "component"},
   env : Environments, fresh : BOOLEAN, moved : BOOLEAN, pushed : BOOLEAN,
   missing : SUBSET Component, old : BOOLEAN]
Idle == [at |-> "idle", env |-> Gone, fresh |-> TRUE, moved |-> FALSE,
         pushed |-> FALSE, missing |-> {}, old |-> FALSE]

Kinds == {"none", "deploy", "destroy"}
ZLs == [app : BOOLEAN, kind : Kinds, tasks : SUBSET Component]
Code == [Component -> 0..MaxCode]
Workflows == [kind : Kinds, tasks : SUBSET Component, code : Code]
NoCode == [c \in Component |-> 0]
NoWorkflow == [kind |-> "none", tasks |-> {}, code |-> NoCode]

TypeOK ==
  /\ ApiTypeOK /\ ZLStateTypeOK
  /\ env \in Environments /\ queued \in BOOLEAN /\ op \in Reconciles
  /\ zl \in ZLs /\ tf \in Code /\ wf \in Workflows
  /\ asked \in BOOLEAN /\ lost \in BOOLEAN
  /\ events \in 0..MaxEvents

Init ==
  /\ ApiInit /\ ZLStateInit
  /\ env = Gone /\ queued = FALSE /\ op = Idle
  /\ zl = [app |-> FALSE, kind |-> "none", tasks |-> {}]
  /\ tf = NoCode /\ wf = NoWorkflow /\ asked = TRUE /\ lost = FALSE
  /\ events = 0

------------------------------------------------------------------------------
(* Users, through kubectl or Argo CD.                                      *)

Event == events < MaxEvents /\ events' = events + 1

Written == queued' = TRUE /\ op' = [op EXCEPT !.fresh = op.at = "idle"]

Act ==
  /\ Event
  /\ Written
  /\ UNCHANGED <<zl, tf, wf, asked, lost, api, zlstate>>

\* The versions of the variables are numbered from the first.
Apply(spec) ==
  /\ env.phase = "gone" /\ spec.code = 1
  /\ env' = [Gone EXCEPT !.phase = "live", !.spec = spec]
  /\ Act

Edit(spec) ==
  /\ env.phase # "gone" /\ spec # env.spec
  /\ env' = [env EXCEPT !.spec = spec]
  /\ Act

\* Kubernetes keeps a deleted object until it has no finalizer.
Delete ==
  /\ env.phase = "live"
  /\ env' = IF env.finalizer THEN [env EXCEPT !.phase = "deleting"] ELSE Gone
  /\ Act

------------------------------------------------------------------------------
(* The reconcile.                                                          *)

Deleting == op.env.phase = "deleting"
Goto(at) == op' = [op EXCEPT !.at = at]

\* What handleFinalizer and updateStatus write for resource e, and the first
\* call after each that has an effect.
NeedsFinalizer(e) == e.phase = "live" /\ ~e.finalizer
NeedsStatus(e) ==
  e.phase = "live" /\ ~e.spec.teardown /\ e.status # DagOf(e.spec)

\* Mutant of AfterStatus: the finalizer goes without the post-delete hook.
SkipsHook(e) == IF e.phase = "live" THEN "post" ELSE "components"

AfterStatus(e) == IF e.phase = "live" THEN "post" ELSE "zl"

AfterFinalizer(e) == IF NeedsStatus(e) THEN "status" ELSE AfterStatus(e)
AfterGet(e) == IF NeedsFinalizer(e) THEN "finalizer" ELSE AfterFinalizer(e)

\* tryGetEnvironment, initServices. An edit after the read only queues the
\* environment again, so that the read and the clones are one step.
Get ==
  /\ op.at = "idle" /\ queued
  /\ queued' = FALSE
  /\ op' = IF env.phase = "gone" THEN Idle
           ELSE [Idle EXCEPT !.at = AfterGet(env), !.env = env]
  /\ UNCHANGED <<env, zl, tf, wf, asked, lost, api, zlstate, events>>

\* An update of the resource at the version that was read; the watch queues
\* the environment again.
Update(new, at) ==
  /\ op.fresh
  /\ env' = new /\ queued' = TRUE
  /\ op' = [op EXCEPT !.at = at, !.env = new]
  /\ UNCHANGED <<zl, tf, wf, asked, lost, api, zlstate, events>>

HandleFinalizer ==
  /\ op.at = "finalizer"
  /\ LET new == [op.env EXCEPT !.finalizer = TRUE]
     IN  Update(new, AfterFinalizer(new))

UpdateStatus ==
  /\ op.at = "status"
  /\ LET new == [op.env EXCEPT !.status = DagOf(op.env.spec)]
     IN  Update(new, AfterStatus(new))

\* The request, and what it finds first.
PostEnvironment ==
  /\ op.at = "post"
  /\ Goto("posting")
  /\ StartPost(DagOf(op.env.spec))
  /\ UNCHANGED <<env, queued, zl, tf, wf, asked, lost, zlstate, events>>

\* A statement of the POST; the last one is the answer.
Posting ==
  /\ op.at = "posting"
  /\ PostStep
  /\ op' = IF post'.at = "none" THEN [op EXCEPT !.at = "zl"] ELSE op
  /\ UNCHANGED <<env, queued, zl, tf, wf, asked, lost, zlstate, events>>

\* generateAndSaveEnvironmentApp and generateAndSaveWorkflowOfWorkflows.
WorkflowOfWorkflows ==
  [app   |-> zl.app \/ ~Deleting,
   kind  |-> IF Deleting \/ op.env.spec.teardown THEN "destroy" ELSE "deploy",
   tasks |-> op.env.spec.components]

\* generateAndSaveEnvironmentComponents: the code of a component that is no
\* longer in the environment stays.
Terraform ==
  [c \in Component |-> IF ~Deleting /\ c \in op.env.spec.components
                       THEN op.env.spec.code ELSE tf[c]]

PushZL ==
  /\ op.at = "zl"
  /\ zl # WorkflowOfWorkflows => ~op.moved
  /\ zl' = WorkflowOfWorkflows
  /\ op' = [op EXCEPT !.at = "tf", !.pushed = zl' # zl]
  /\ asked' = (asked /\ zl' = zl)
  /\ UNCHANGED <<env, queued, tf, wf, lost, api, zlstate, events>>

\* Mutant of PushTF: only a push of code asks for a run.
AsksForCode ==
  /\ op.at = "tf"
  /\ tf' = Terraform
  /\ op' = [op EXCEPT !.pushed = tf' # tf,
                      !.at = IF tf' # tf THEN "patch" ELSE "zlstate"]
  /\ asked' = (asked /\ tf' = tf)
  /\ UNCHANGED <<env, queued, zl, wf, lost, api, zlstate, events>>

PushTF ==
  /\ op.at = "tf"
  /\ tf' = Terraform
  /\ op' = [op EXCEPT !.pushed = op.pushed \/ tf' # tf,
                      !.at = IF op.pushed \/ tf' # tf THEN "patch" ELSE "zlstate"]
  /\ asked' = (asked /\ tf' = tf)
  /\ UNCHANGED <<env, queued, zl, wf, lost, api, zlstate, events>>

\* handleDirtyILState. One PATCH at a time: a second one waits for the first.
PatchEnvironment ==
  /\ op.at = "patch"
  /\ Goto("patching")
  /\ StartPatch
  /\ UNCHANGED <<env, queued, zl, tf, wf, asked, lost, zlstate, events>>

\* Put of the zLstate, which changes nothing when there is an object.
PutZLState ==
  /\ op.at = "zlstate"
  /\ PutState("operator", op.env.spec.components)
  /\ Goto("putting")
  /\ UNCHANGED <<env, queued, zl, tf, wf, asked, lost, api, events>>

\* Mutant of GetZLState: every component is put, not only those missing.
PutsEveryComponent ==
  /\ op.at = "zlstate" /\ object.exists
  /\ op' = [op EXCEPT !.at = "components", !.missing = op.env.spec.components]
  /\ UNCHANGED <<env, queued, zl, tf, wf, asked, lost, api, zlstate, events>>

\* ReconcileState: Get, and PutComponent for each component it did not have.
GetZLState ==
  /\ op.at = "zlstate" /\ object.exists
  /\ op' = [op EXCEPT !.at = "components",
       !.missing = {c \in op.env.spec.components : object.status[c] = "absent"}]
  /\ UNCHANGED <<env, queued, zl, tf, wf, asked, lost, api, zlstate, events>>

PutComponent(c) ==
  /\ op.at = "components" /\ c \in op.missing
  /\ UpsertComponent("operator", c, op.old)
  /\ op' = [op EXCEPT !.at = "component", !.missing = @ \ {c}]
  /\ UNCHANGED <<env, queued, zl, tf, wf, asked, lost, api, events>>

\* The object is written, and the operator has its answer.
WriteOfOperator ==
  /\ op.at \in {"putting", "component"}
  /\ Write("operator")
  /\ Goto(IF op.at = "putting" THEN "zlstate" ELSE "components")
  /\ UNCHANGED <<env, queued, zl, tf, wf, asked, lost, api, events>>

\* Mutant of Finish: the resource of a deletion keeps its finalizer.
KeepsFinalizer ==
  /\ op.at = "components" /\ op.missing = {}
  /\ op' = Idle
  /\ UNCHANGED <<env, queued, zl, tf, wf, asked, lost, api, zlstate, events>>

\* The end of Reconcile. After a deletion the finalizer goes, and with it the
\* resource.
Finish ==
  /\ op.at = "components" /\ op.missing = {}
  /\ op' = Idle
  /\ IF Deleting
     THEN op.fresh /\ env' = Gone /\ queued' = TRUE
     ELSE UNCHANGED <<env, queued>>
  /\ UNCHANGED <<zl, tf, wf, asked, lost, api, zlstate, events>>

------------------------------------------------------------------------------
(* The PATCH in the API ends in reconcileCD, which deletes the workflow and*)
(* syncs the app: Argo CD makes the workflow again. Without a workflow, or *)
(* without an app, there is nothing to delete and the PATCH fails.         *)

Patching ==
  /\ CreateEnvRecon
  /\ UNCHANGED <<operator, zlstate, events>>

Deletable == wf.kind # "none"

\* Mutant of ReconcileCD: the app is synced, its workflow stays.
SyncsOnly ==
  /\ patch.at = "sync" /\ (Deletable \/ op.at # "patching")
  /\ patch' = NoPatch
  /\ asked' = (asked \/ Deletable) /\ lost' = (lost /\ ~Deletable)
  /\ op' = IF op.at = "patching" THEN [op EXCEPT !.at = "zlstate"] ELSE op
  /\ UNCHANGED <<env, queued, zl, tf, wf, row, components, post, late, touch,
                 run, crossed, zlstate, events>>

\* A PATCH that nobody waits for ends without effect when it fails here.
ReconcileCD ==
  /\ patch.at = "sync" /\ (Deletable \/ op.at # "patching")
  /\ patch' = NoPatch /\ wf' = NoWorkflow
  /\ asked' = (asked \/ Deletable) /\ lost' = (lost /\ ~Deletable)
  /\ op' = IF op.at = "patching" THEN [op EXCEPT !.at = "zlstate"] ELSE op
  /\ UNCHANGED <<env, queued, zl, tf, row, components, post, late, touch, run,
                 crossed, zlstate, events>>

\* Argo CD syncs the app by itself, but a workflow that is there is only ever
\* replaced after it was deleted.
CreateWorkflow ==
  /\ zl.app /\ zl.kind # "none" /\ wf.kind = "none"
  /\ wf' = [kind |-> zl.kind, tasks |-> zl.tasks, code |-> tf]
  /\ UNCHANGED <<env, queued, op, zl, tf, asked, lost, api, zlstate, events>>

\* The script of a component reports to the state manager how the run ended.
Script(c) ==
  /\ c \in wf.tasks /\ Free(c)
  /\ Event
  /\ PatchComponent(c, c, IF wf.kind = "deploy" THEN "provisioned"
                            ELSE "destroyed")
  /\ UNCHANGED <<operator, api>>

WriteOfOther ==
  /\ \E k \in Component \cup {"late"} : Write(k)
  /\ op' = [op EXCEPT !.old = op.old \/ op.at \in {"components", "component"}]
  /\ UNCHANGED <<env, queued, zl, tf, wf, asked, lost, api, events>>

LatePost == LateStep /\ UNCHANGED <<operator, zlstate, events>>

OtherHandler ==
  \/ /\ ReadRow
     /\ Event
     /\ UNCHANGED <<operator, zlstate>>
  \/ SaveRow /\ UNCHANGED <<operator, zlstate, events>>

\* The company or team controller, or the reconcile of another environment.
OtherPush ==
  /\ op.at \in {"finalizer", "status", "post", "posting", "zl"} /\ ~op.moved
  /\ Event
  /\ op' = [op EXCEPT !.moved = TRUE]
  /\ UNCHANGED <<env, queued, zl, tf, wf, asked, lost, api, zlstate>>

------------------------------------------------------------------------------
(* Failures. The environment is queued again.                              *)

\* Mutant of Requeue: an error ends the reconcile and is not returned.
Swallows ==
  /\ op' = Idle
  /\ lost' = (lost \/ (op.pushed /\ ~asked))
  /\ UNCHANGED <<env, queued, zl, tf, wf, asked, row, components, touch, run,
                 crossed, told>>

Requeue ==
  /\ queued' = TRUE /\ op' = Idle
  /\ lost' = (lost \/ (op.pushed /\ ~asked))
  /\ UNCHANGED <<env, zl, tf, wf, asked, row, components, touch, run, crossed, told>>

\* A conflict, a push that is not a fast forward, a duplicate row, no such
\* environment, or no workflow that could be deleted.
IsRefused ==
  \/ op.at \in {"finalizer", "status"} /\ ~op.fresh
  \/ op.at = "posting" /\ Duplicate(post)
  \/ op.at = "zl" /\ zl # WorkflowOfWorkflows /\ op.moved
  \/ op.at = "patch" /\ patch.at = "none" /\ ~row.exists
  \/ op.at = "patching" /\ patch.at = "sync" /\ ~Deletable
  \/ op.at = "components" /\ op.missing = {} /\ Deleting /\ ~op.fresh

Refused ==
  /\ IsRefused
  /\ Requeue
  /\ post' = NoPost
  /\ patch' = IF op.at = "patching" THEN NoPatch ELSE patch
  /\ UNCHANGED <<late, object, requests, events>>

\* Any call fails, times out, or the operator crashes: what it has sent is
\* dropped or goes on. Bound: one POST and one request of the zLstate go on.
Fault ==
  /\ op.at # "idle"
  /\ Event
  /\ Requeue
  /\ post' = NoPost
  /\ late' \in IF late.at = "none" THEN {late, post} ELSE {late}
  /\ patch' \in IF op.at = "patching" THEN {patch, NoPatch} ELSE {patch}
  /\ requests' \in
       {[requests EXCEPT !["operator"] = NoStateRequest]}
         \cup (IF Free("late")
               THEN {[requests EXCEPT !["operator"] = NoStateRequest,
                                      !["late"] = requests["operator"]]}
               ELSE {})
  /\ UNCHANGED object

------------------------------------------------------------------------------
Operator ==
  \/ Get \/ HandleFinalizer \/ UpdateStatus \/ PostEnvironment \/ Posting
  \/ PushZL \/ PushTF \/ PatchEnvironment \/ PutZLState \/ GetZLState
  \/ (\E c \in Component : PutComponent(c))
  \/ WriteOfOperator \/ Finish \/ Refused

Users == (\E spec \in Specs : Apply(spec) \/ Edit(spec)) \/ Delete

Others ==
  \/ CreateWorkflow \/ (\E c \in Component : Script(c)) \/ WriteOfOther
  \/ LatePost \/ OtherHandler \/ OtherPush \/ Fault

Next == Users \/ Operator \/ Patching \/ ReconcileCD \/ Others

\* The worker takes what is queued, its calls are answered or time out, and
\* the API goes through the PATCHes that it has begun.
Fairness == WF_vars(Operator) /\ WF_vars(Patching \/ ReconcileCD)

Spec == Init /\ [][Next]_vars /\ Fairness

------------------------------------------------------------------------------
(* Properties.                                                             *)

AtRest == op.at = "idle" /\ ~queued

\* Whatever failed on the way, conflicts and refused pushes included: when the
\* operator has nothing left to do, an environment that was not deleted is in
\* both IL repositories as its specification says, and a deleted one is gone.
\* The API has its DAG and exactly its components, unless a handler that had
\* read the row before, or a POST that had timed out, wrote after the last POST
\* (environment_controller.go:67-185, environment.controller.ts:48-100).
FollowsTheSpec ==
  AtRest /\ env.phase # "gone" =>
    /\ env.phase = "live" /\ env.finalizer
    /\ env.spec.teardown \/ env.status = DagOf(env.spec)
    /\ zl = [app |-> TRUE, tasks |-> env.spec.components,
             kind |-> IF env.spec.teardown THEN "destroy" ELSE "deploy"]
    /\ \A c \in env.spec.components : tf[c] = env.spec.code
    /\ crossed \/ (row.dag = DagOf(env.spec) /\ components = env.spec.components)
    /\ object.exists

\* When the operator has nothing left to do, a run was asked for since the last
\* push, unless a reconcile pushed and ended before its PATCH or with a PATCH
\* that failed: the retry then finds nothing to push, and nothing asks for the
\* run
\* (environment_controller.go:290-313).
EveryChangeIsAskedFor == AtRest => asked \/ lost

\* Once a run was asked for after the last push, the workflow is one that
\* Argo CD made of both IL repositories as they are, even if it had made one
\* between the two pushes before (environment_controller.go:290-313,
\* environment.controller.ts:228-266).
LastRunIsCurrent ==
  asked /\ wf.kind # "none" =>
    wf.kind = zl.kind /\ wf.tasks = zl.tasks /\ wf.code = tf

\* The run that the operator asks for is of the components and the code that
\* it has just pushed: the row had them before. A deletion posts nothing, so
\* its run is of what was last posted (environment_controller.go:335-362,
\* environment.controller.ts:228-243).
RunIsOfWhatWasPushed ==
  [][run' # run /\ op.at = "patching" /\ ~Deleting =>
       \/ crossed
       \/ /\ run'.dag.components = zl.tasks
          /\ \A c \in zl.tasks : tf[c] = run'.dag.code]_vars

\* A resource leaves the cluster only when the ZL IL holds the workflow that
\* destroys each of its components, and its run was asked for or lost; or it
\* never had a finalizer, and then the IL deploys nothing
\* (environment_controller.go:440-492).
GoesTornDown ==
  [][env.phase # "gone" /\ env'.phase = "gone" =>
       IF env.finalizer
       THEN /\ zl.kind = "destroy" /\ zl.tasks = env.spec.components
            /\ asked \/ lost
       ELSE zl.kind # "deploy"]_vars

\* Reconciles never undo a status: each component has in the zLstate what its
\* script last reported, except where two requests of the state manager were
\* under way at the same time (operations.go:14-35, s3.go:90-182).
StatusIsKept == object.status = told

\* With finitely many edits and failures the operator comes to rest, and
\* nothing is left in deletion: a conflict, a refused push, a duplicate row or
\* a workflow that does not exist never repeats for ever
\* (environment_controller.go:67-185).
Settles == <>[](AtRest /\ env.phase # "deleting")
=============================================================================
