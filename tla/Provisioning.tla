---------------------------- MODULE Provisioning ----------------------------
(***************************************************************************)
(* How one environment is provisioned and torn down, from the request to   *)
(* reconcile it to the change of its infrastructure:                       *)
(*                                                                         *)
(*  - the API (PATCH of an environment) makes a row of the reconcile       *)
(*    history, makes it the environment's latest, deletes the environment's *)
(*    workflow and has Argo CD create it again from the IL;                *)
(*  - the workflow of workflows, generated by the IL operator: a DAG with  *)
(*    one task per terraform component between two audit tasks, run by     *)
(*    Argo Workflows;                                                      *)
(*  - a child workflow per component, which plans, waits for an approval,  *)
(*    and applies. It has no owner: it lives on when the workflow that     *)
(*    created it is deleted, so children of several runs may overlap;      *)
(*  - the approval of a plan in the API.                                   *)
(*                                                                         *)
(* Argo CD, Argo Workflows and Terraform are not part of the repository.   *)
(* They are modelled from how it uses them: Argo CD heals the environment's *)
(* app, a DAG stops scheduling tasks once one has failed, and Terraform    *)
(* locks the state it works on and refuses a saved plan whose state has    *)
(* changed since.                                                          *)
(***************************************************************************)
EXTENDS Naturals, FiniteSets

CONSTANTS
  Comp,        \* the components of the environment
  Terraform,   \* those of type terraform; the others are of type argocd
  DependsOn,   \* DependsOn[c]: the components that c depends on
  Code,        \* versions of the components' terraform code
  Manifest,    \* the environment specs that may be in the IL
  Patch,       \* PATCH requests with isReconcile
  MaxEdits,    \* bound on new specs in the IL
  MaxApprovals,  \* bound on approvals by users
  MaxFaults,   \* bound on failures of a child workflow
  MaxLost      \* bound on IL clones that fail unnoticed

EnvironmentSpec ==
  [ teardown  : BOOLEAN,      \* or the object is being deleted
    destroy   : SUBSET Comp,  \* components with destroy: true
    protected : SUBSET Comp,  \* those with destroyProtection: true
    auto      : SUBSET Comp,  \* those that are approved automatically
    leftOut   : SUBSET Comp,  \* those that selectiveReconcile skips
    code      : Code ]

ASSUME CompAssumption ==
  /\ Terraform \subseteq Comp
  /\ DependsOn \in [Comp -> SUBSET Comp]
ASSUME ManifestAssumption == Manifest # {} /\ Manifest \subseteq EnvironmentSpec
ASSUME CodeAssumption == Code \cap {"none", "partial"} = {}
ASSUME BoundAssumption ==
  /\ IsFiniteSet(Patch)
  /\ MaxEdits \in Nat /\ MaxApprovals \in Nat
  /\ MaxFaults \in Nat /\ MaxLost \in Nat

(* Every PATCH deletes at most one workflow, and only a deleted workflow is *)
(* created again; the first one is from before.                            *)
MaxRuns == Cardinality(Patch) + 1
Run == 1..MaxRuns
Row == 1..Cardinality(Patch)

VARIABLES
  il,        \* the environment spec in the IL
  infra,     \* infra[c]: the code that c's infrastructure is made from
  serial,    \* serial[c]: the serial number of c's terraform state
  row,       \* the reconcile history: row[i].status
  latest,    \* environment.latestEnvRecon; 0 is a row from before
  patch,     \* patch[p]: where a PATCH request is, and the row it made
  live,      \* the environment's workflow in the cluster; 0 when there is none
  run,       \* run[w]: the w-th workflow, with the spec it is generated from
  task,      \* task[w][c]: c's node of the DAG
  child,     \* child[w][c]: the child workflow of that node
  comp,      \* comp[c]: the component in the API's database
  audit,     \* audit[w][c]: its component reconcile
  approving, \* approvals that are yet to save what they read before the resume
  approved,  \* the component reconciles that a user approved
  edits, faults, lost  \* what is used up of the three bounds

history  == <<row, latest, patch>>
workflow == <<live, run, task>>
budget   == <<edits, faults, lost>>
vars == <<il, infra, serial, history, workflow, child, comp, audit, approving,
          approved, budget>>

-----------------------------------------------------------------------------
(* The DAG that the operator generates from a spec. *)

DestroyFlag(s, c) == s.teardown \/ c \in s.destroy

(* buildInverseDependencies *)
Dependents(c) == {d \in Comp : c \in DependsOn[d]}

\* Mutant: the dependencies are not inverted for a teardown.
DependenciesForward(s, c) == DependsOn[c]

(* The dependencies of c's task, next to the audit task. *)
Dependencies(s, c) == IF s.teardown THEN Dependents(c) ELSE DependsOn[c]

\* Mutant: only a teardown meets destroyProtection.
SkipOnlyTeardown(s, c) ==
  IF c \in s.protected /\ s.teardown THEN "destroyProtection"
  ELSE IF c \in s.leftOut THEN "selectiveReconcile" ELSE "noSkip"

(* The parameter skip_component. *)
SkipComponent(s, c) ==
  IF c \in s.protected /\ DestroyFlag(s, c) THEN "destroyProtection"
  ELSE IF c \in s.leftOut THEN "selectiveReconcile" ELSE "noSkip"

Skipped(s, c) == SkipComponent(s, c) # "noSkip"

(* What a run of spec s makes of c: the target of its plan. *)
Target(s, c) == IF DestroyFlag(s, c) THEN "none" ELSE s.code

-----------------------------------------------------------------------------
(* Local state. *)

Built == Code \cup {"none", "partial"}

RowStatus == {"none", "initializing", "provisioning", "destroying",
              "provisioned", "destroyed", "provision_failed", "destroy_failed"}

PatchState ==
  [pc : {"idle", "latest", "delete", "sync", "done", "failed"},
   row : Row \cup {0}]

(* trigger-audit gives a run the latest row, for its component reconciles. *)
RunState ==
  [pc : {"none", "start", "dag", "succeeded", "failed", "gone"},
   spec : Manifest, row : Row \cup {0}]

TaskState == {"waiting", "initialized", "running", "ended", "failed"}

(* A child with a saved plan keeps the state's serial it was made from. *)
ChildState ==
  [pc : {"none", "created", "planning", "nochange", "changed", "suspended",
         "apply", "applying", "applied", "succeeded", "failed"},
   to : Code \cup {"none"}, at : Nat]

(* The API's statuses that a step is on its way are one, "busy". The flag  *)
(* isDestroyed, which only the UI shows, is left out.                      *)
CompState ==
  [status : {"null", "not_provisioned", "busy", "waiting_for_approval",
             "provisioned", "destroyed", "plan_failed", "apply_failed"},
   lastWorkflowRunId : Run \cup {0}]  \* 0 is "initializing" or null

AuditState == {"none", "initializing", "success", "failed", "skipped",
               "skipped_reconcile"}

TypeOK ==
  /\ il \in Manifest
  /\ infra \in [Comp -> Built] /\ serial \in [Comp -> Nat]
  /\ row \in [Row -> RowStatus] /\ latest \in Row \cup {0}
  /\ patch \in [Patch -> PatchState]
  /\ live \in Run \cup {0} /\ run \in [Run -> RunState]
  /\ task \in [Run -> [Comp -> TaskState]]
  /\ child \in [Run -> [Comp -> ChildState]]
  /\ comp \in [Comp -> CompState]
  /\ audit \in [Run -> [Comp -> AuditState]]
  /\ approving \subseteq Run \X Comp \X AuditState \X Run
  /\ approved \subseteq Run \X Comp
  /\ edits \in 0..MaxEdits /\ faults \in 0..MaxFaults /\ lost \in 0..MaxLost

(* Infrastructure of c only where that of all it depends on is. *)
Consistent(P) == \A c \in P : DependsOn[c] \cap Terraform \subseteq P

Init ==
  /\ il \in Manifest
  /\ \E P \in {Q \in SUBSET Terraform : Consistent(Q)}, k \in Code :
       infra = [c \in Comp |-> IF c \in P THEN k ELSE "none"]
  /\ serial = [c \in Comp |-> 0]
  /\ row = [i \in Row |-> "none"] /\ latest = 0
  /\ patch = [p \in Patch |-> [pc |-> "idle", row |-> 0]]
  /\ live \in {0, 1}
  /\ run = [w \in Run |->
              [pc |-> IF w = live THEN "succeeded" ELSE "none",
               spec |-> il, row |-> 0]]
  /\ task = [w \in Run |-> [c \in Comp |-> "waiting"]]
  /\ child = [w \in Run |-> [c \in Comp |->
                [pc |-> "none", to |-> "none", at |-> 0]]]
  /\ comp = [c \in Comp |->
               [status |-> IF infra[c] = "none" THEN "null" ELSE "provisioned",
                lastWorkflowRunId |-> 0]]
  /\ audit = [w \in Run |-> [c \in Comp |-> "none"]]
  /\ approving = {} /\ approved = {}
  /\ edits = 0 /\ faults = 0 /\ lost = 0

-----------------------------------------------------------------------------
(* The IL, Argo CD and the PATCH of an environment. *)

(* The operator pushes an IL for a new spec. *)
Edit(m) ==
  /\ edits < MaxEdits /\ edits' = edits + 1
  /\ m # il /\ il' = m
  /\ UNCHANGED <<infra, serial, history, workflow, child, comp, audit,
                 approving, approved, faults, lost>>

(* The workflow is created from the IL. *)
CreateWorkflow ==
  \E w \in Run :
    /\ live = 0 /\ live' = w
    /\ run[w].pc = "none" /\ \A v \in Run : v < w => run[v].pc # "none"
    /\ run' = [run EXCEPT ![w] = [pc |-> "start", spec |-> il, row |-> 0]]

(* Argo CD heals the app: a workflow that is in the IL but not in the      *)
(* cluster is created. One that is there, finished or not, is left alone.  *)
SelfHeal ==
  /\ CreateWorkflow
  /\ UNCHANGED <<il, infra, serial, history, task, child, comp, audit,
                 approving, approved, budget>>

(* createEnvRecon: a new row, which is not yet the latest. *)
CreateEnvRecon(p) ==
  /\ patch[p].pc = "idle"
  /\ \E i \in Row :
       /\ row[i] = "none" /\ \A j \in Row : j < i => row[j] # "none"
       /\ row' = [row EXCEPT ![i] = "initializing"]
       /\ patch' = [patch EXCEPT ![p] = [pc |-> "latest", row |-> i]]
  /\ UNCHANGED <<il, infra, serial, latest, workflow, child, comp, audit,
                 approving, approved, budget>>

(* updateById: it becomes the latest row of the environment. *)
SetLatest(p) ==
  /\ patch[p].pc = "latest"
  /\ latest' = patch[p].row
  /\ patch' = [patch EXCEPT ![p].pc = "delete"]
  /\ UNCHANGED <<il, infra, serial, row, workflow, child, comp, audit,
                 approving, approved, budget>>

(* deleteEnvironment: Argo CD deletes the workflow, or answers that it is  *)
(* not found, and then the request fails without the sync.                 *)
DeleteWorkflow(p) ==
  /\ patch[p].pc = "delete"
  /\ live' = 0
  /\ patch' = [patch EXCEPT ![p].pc = IF live = 0 THEN "failed" ELSE "sync"]
  /\ run' = [w \in Run |->
               IF w = live /\ run[w].pc \in {"start", "dag"}
                 THEN [run[w] EXCEPT !.pc = "gone"] ELSE run[w]]
  /\ UNCHANGED <<il, infra, serial, row, latest, task, child, comp, audit,
                 approving, approved, budget>>

(* syncEnvironment, a second later; the app may have been healed already. *)
SyncWorkflow(p) ==
  /\ patch[p].pc = "sync"
  /\ patch' = [patch EXCEPT ![p].pc = "done"]
  /\ IF live = 0 THEN CreateWorkflow ELSE UNCHANGED <<live, run>>
  /\ UNCHANGED <<il, infra, serial, row, latest, task, child, comp, audit,
                 approving, approved, budget>>

-----------------------------------------------------------------------------
(* The workflow of workflows, run by Argo Workflows. *)

(* UpdateEnvironmentReconcileStatus writes to the row that is the latest   *)
(* when it is called.                                                      *)
SetRow(status) ==
  row' = IF latest = 0 THEN row ELSE [row EXCEPT ![latest] = status]

Running(w, pc) == live = w /\ run[w].pc = pc

(* No circle: some task of any set of tasks depends on none of the others. *)
Acyclic(s) ==
  \A S \in SUBSET Terraform :
    S # {} => \E c \in S : Dependencies(s, c) \cap S = {}

(* A task may depend only on tasks, and only terraform components have one. *)
(* end-audit, which depends on all of these, uses an output of trigger-    *)
(* audit, so trigger-audit must come before it through one of them.        *)
Valid(s) ==
  /\ Terraform # {}
  /\ \A c \in Terraform : Dependencies(s, c) \subseteq Terraform
  /\ Acyclic(s)

(* Argo Workflows refuses a DAG that is not valid. *)
Reject(w) ==
  /\ Running(w, "start") /\ ~Valid(run[w].spec)
  /\ run' = [run EXCEPT ![w].pc = "failed"]
  /\ UNCHANGED <<il, infra, serial, history, live, task, child, comp, audit,
                 approving, approved, budget>>

(* trigger-audit: audit.sh with phase 0. *)
TriggerAudit(w) ==
  /\ Running(w, "start") /\ Valid(run[w].spec)
  /\ run' = [run EXCEPT ![w].pc = "dag", ![w].row = latest]
  /\ SetRow(IF run[w].spec.teardown THEN "destroying" ELSE "provisioning")
  /\ UNCHANGED <<il, infra, serial, latest, patch, live, task, child, comp,
                 audit, approving, approved, budget>>

NothingFailed(w) == \A c \in Terraform : task[w][c] # "failed"

(* newComponentReconciliation: the open reconciles of c in the same row are *)
(* closed.                                                                 *)
NewAudit(w, c) ==
  audit' = [v \in Run |->
    IF v = w THEN [audit[v] EXCEPT ![c] = "initializing"]
    ELSE IF run[v].row = run[w].row /\ audit[v][c] = "initializing"
      THEN [audit[v] EXCEPT ![c] = "skipped_reconcile"]
    ELSE audit[v]]

(* init-component: audit.sh before the component is run. *)
InitComponent(w, c) ==
  LET s == run[w].spec
  IN /\ Running(w, "dag") /\ task[w][c] = "waiting" /\ NothingFailed(w)
     /\ \A d \in Dependencies(s, c) : task[w][d] = "ended"
     /\ task' = [task EXCEPT ![w][c] = "initialized"]
     /\ comp' = [comp EXCEPT ![c] =
          IF ~Skipped(s, c)
            THEN [status |-> "busy", lastWorkflowRunId |-> 0]
          ELSE IF @.status = "null"
            THEN [@ EXCEPT !.status = "not_provisioned"]
          ELSE @]
     /\ NewAudit(w, c)
     /\ UNCHANGED <<il, infra, serial, history, live, run, child, approving,
                    approved, budget>>

(* run: the child workflow is created, unless the component is skipped. The *)
(* guard on a component_status of 6 reads a file that audit.sh never writes *)
(* (it writes one of another name), so it always holds.                    *)
RunComponent(w, c) ==
  /\ Running(w, "dag") /\ task[w][c] = "initialized"
  /\ ~Skipped(run[w].spec, c)
  /\ task' = [task EXCEPT ![w][c] = "running"]
  /\ child' = [child EXCEPT ![w][c].pc = "created"]
  /\ UNCHANGED <<il, infra, serial, history, live, run, comp, audit, approving,
                 approved, budget>>

\* Mutant: the failure of a child workflow counts as its end.
EndAnyComponent(w, c) ==
  /\ Running(w, "dag")
  /\ \/ task[w][c] = "initialized" /\ Skipped(run[w].spec, c)
     \/ task[w][c] = "running" /\ child[w][c].pc \in {"succeeded", "failed"}
  /\ task' = [task EXCEPT ![w][c] = "ended"]
  /\ audit' = [audit EXCEPT ![w][c] = "success"]
  /\ UNCHANGED <<il, infra, serial, history, live, run, child, comp, approving,
                 approved, budget>>

(* end-component-audit, after a child that succeeded or for a skipped one. *)
EndComponent(w, c) ==
  /\ Running(w, "dag")
  /\ \/ task[w][c] = "initialized" /\ Skipped(run[w].spec, c)
     \/ task[w][c] = "running" /\ child[w][c].pc = "succeeded"
  /\ task' = [task EXCEPT ![w][c] = "ended"]
  /\ audit' = [audit EXCEPT ![w][c] =
                 IF Skipped(run[w].spec, c) THEN "skipped" ELSE "success"]
  /\ UNCHANGED <<il, infra, serial, history, live, run, child, comp, approving,
                 approved, budget>>

(* failureCondition: the child workflow failed, and so does the task. *)
FailComponent(w, c) ==
  /\ Running(w, "dag") /\ task[w][c] = "running" /\ child[w][c].pc = "failed"
  /\ task' = [task EXCEPT ![w][c] = "failed"]
  /\ UNCHANGED <<il, infra, serial, history, live, run, child, comp, audit,
                 approving, approved, budget>>

\* Mutant: the last audit does not report to the environment's row.
EndAuditSilently(w) ==
  /\ Running(w, "dag") /\ \A c \in Terraform : task[w][c] = "ended"
  /\ run' = [run EXCEPT ![w].pc = "succeeded"]
  /\ UNCHANGED <<il, infra, serial, history, live, task, child, comp, audit,
                 approving, approved, budget>>

(* end-audit: audit.sh with phase 1, after all components. *)
EndAudit(w) ==
  /\ Running(w, "dag") /\ \A c \in Terraform : task[w][c] = "ended"
  /\ run' = [run EXCEPT ![w].pc = "succeeded"]
  /\ SetRow(IF run[w].spec.teardown THEN "destroyed" ELSE "provisioned")
  /\ UNCHANGED <<il, infra, serial, latest, patch, live, task, child, comp,
                 audit, approving, approved, budget>>

(* A task failed and no other one is under way: the rest is left out. *)
FailRun(w) ==
  /\ Running(w, "dag") /\ ~NothingFailed(w)
  /\ \A c \in Terraform : task[w][c] \notin {"initialized", "running"}
  /\ run' = [run EXCEPT ![w].pc = "failed"]
  /\ UNCHANGED <<il, infra, serial, history, live, task, child, comp, audit,
                 approving, approved, budget>>

-----------------------------------------------------------------------------
(* The child workflow of a component: terraform-sync-template. *)

At(w, c, pc) == child[w][c].pc = pc

Destroys(w, c) == DestroyFlag(run[w].spec, c)

Goes(w, c, pc) == child' = [child EXCEPT ![w][c].pc = pc]

SetComp(c, fields) == comp' = [comp EXCEPT ![c] = fields]

(* A pod of run_terraform.sh starts: the component's workflow is this one. *)
PodStarts(w, c) ==
  SetComp(c, [status |-> "busy", lastWorkflowRunId |-> w])

PlanStarts(w, c) ==
  /\ At(w, c, "created") /\ Goes(w, c, "planning") /\ PodStarts(w, c)
  /\ UNCHANGED <<il, infra, serial, history, workflow, audit, approving,
                 approved, budget>>

(* Another child works on the same terraform state. *)
LockBusy(w, c) == \E v \in Run \ {w} : child[v][c].pc \in {"planning", "applying"}

(* What the plan is made for: is_destroy is a parameter of the workflow,   *)
(* the code is cloned from the IL now.                                     *)
PlanTarget(w, c) == IF Destroys(w, c) THEN "none" ELSE il.code

\* Mutant: the exit code of a plan with changes is taken for none.
PlanSeesNoChange(w, c) ==
  /\ At(w, c, "planning") /\ Goes(w, c, "nochange")
  /\ UNCHANGED <<il, infra, serial, history, workflow, comp, audit, approving,
                 approved, budget>>

(* terraform plan -detailed-exitcode: 0 without changes, 2 with changes,   *)
(* and then the plan is saved with the serial of the state.                *)
Plan(w, c) ==
  /\ At(w, c, "planning")
  /\ child' = [child EXCEPT ![w][c] =
       IF infra[c] = PlanTarget(w, c)
         THEN [@ EXCEPT !.pc = "nochange"]
         ELSE [pc |-> "changed", to |-> PlanTarget(w, c), at |-> serial[c]]]
  /\ UNCHANGED <<il, infra, serial, history, workflow, comp, audit, approving,
                 approved, budget>>

(* The clone of the IL fails and the script goes on in an empty directory: *)
(* there is nothing to destroy in it. (A plan that is not a destroy fails.) *)
PlanWithoutClone(w, c) ==
  /\ At(w, c, "planning") /\ Destroys(w, c)
  /\ lost < MaxLost /\ lost' = lost + 1
  /\ Goes(w, c, "nochange")
  /\ UNCHANGED <<il, infra, serial, history, workflow, comp, audit, approving,
                 approved, edits, faults>>

\* Mutant: a misspelt status, which the API's components do not have.
ReachedMisspelt(w, c) == IF Destroys(w, c) THEN "destroyed" ELSE "provision"

Reached(w, c) == IF Destroys(w, c) THEN "destroyed" ELSE "provisioned"

(* process_based_on_plan_result.sh: without changes the child is through,  *)
(* otherwise it goes to the approval or, with auto_approve, past it.       *)
ProcessPlan(w, c) ==
  /\ \/ /\ At(w, c, "nochange") /\ Goes(w, c, "succeeded")
        /\ SetComp(c, [comp[c] EXCEPT !.status = Reached(w, c)])
     \/ /\ At(w, c, "changed") /\ c \notin run[w].spec.auto
        /\ Goes(w, c, "suspended")
        /\ SetComp(c, [comp[c] EXCEPT !.status = "waiting_for_approval"])
     \/ /\ At(w, c, "changed") /\ c \in run[w].spec.auto
        /\ Goes(w, c, "apply")
        /\ SetComp(c, [comp[c] EXCEPT !.status = "busy"])
  /\ UNCHANGED <<il, infra, serial, history, workflow, audit, approving,
                 approved, budget>>

ApplyStarts(w, c) ==
  /\ At(w, c, "apply") /\ Goes(w, c, "applying") /\ PodStarts(w, c)
  /\ UNCHANGED <<il, infra, serial, history, workflow, audit, approving,
                 approved, budget>>

Stale(w, c) == serial[c] # child[w][c].at

(* terraform apply of the saved plan. *)
Apply(w, c) ==
  /\ At(w, c, "applying") /\ ~Stale(w, c)
  /\ infra' = [infra EXCEPT ![c] = child[w][c].to]
  /\ serial' = [serial EXCEPT ![c] = @ + 1]
  /\ Goes(w, c, "applied")
  /\ UNCHANGED <<il, history, workflow, comp, audit, approving, approved,
                 budget>>

ReportApply(w, c) ==
  /\ At(w, c, "applied") /\ Goes(w, c, "succeeded")
  /\ SetComp(c, [comp[c] EXCEPT !.status = Reached(w, c)])
  /\ UNCHANGED <<il, infra, serial, history, workflow, audit, approving,
                 approved, budget>>

(* SaveAndExit: a plan or an apply fails, by itself, because the state is  *)
(* locked or because the saved plan is stale. An apply that fails by       *)
(* itself may leave part of the work done.                                 *)
Fail(w, c) ==
  /\ child[w][c].pc \in {"planning", "applying"}
  /\ \/ /\ LockBusy(w, c) \/ (At(w, c, "applying") /\ Stale(w, c))
        /\ UNCHANGED <<infra, serial, faults>>
     \/ /\ faults < MaxFaults /\ faults' = faults + 1
        /\ UNCHANGED <<infra, serial>>
     \/ /\ faults < MaxFaults /\ faults' = faults + 1
        /\ At(w, c, "applying") /\ ~Stale(w, c)
        /\ infra' = [infra EXCEPT ![c] = "partial"]
        /\ serial' = [serial EXCEPT ![c] = @ + 1]
  /\ Goes(w, c, "failed")
  /\ SetComp(c, [comp[c] EXCEPT !.status =
                   IF At(w, c, "planning") THEN "plan_failed" ELSE "apply_failed"])
  /\ SetRow(IF Destroys(w, c) THEN "destroy_failed" ELSE "provision_failed")
  /\ audit' = [audit EXCEPT ![w][c] = "failed"]
  /\ UNCHANGED <<il, latest, patch, workflow, approving, approved, edits, lost>>

-----------------------------------------------------------------------------
(* The approval of a component reconcile in the API. *)

\* Mutant: every child of the component that waits is resumed.
ApproveAll(w, c) ==
  /\ audit[w][c] # "none" /\ <<w, c>> \notin approved
  /\ comp[c].lastWorkflowRunId # 0 /\ Cardinality(approved) < MaxApprovals
  /\ approved' = approved \cup {<<w, c>>}
  /\ approving' = approving \cup
       {<<w, c, audit[w][c], comp[c].lastWorkflowRunId>>}
  /\ child' = [v \in Run |-> IF At(v, c, "suspended")
                 THEN [child[v] EXCEPT ![c].pc = "apply"] ELSE child[v]]
  /\ UNCHANGED <<il, infra, serial, history, workflow, comp, audit, budget>>

(* ApproveWorkflow resumes the workflow that is the component's last one   *)
(* now, whichever reconcile the user looked at. That a reconcile is        *)
(* approved at most once is a bound of the model, not a guard of the code. *)
Approve(w, c) ==
  LET v == comp[c].lastWorkflowRunId
  IN /\ audit[w][c] # "none" /\ <<w, c>> \notin approved
     /\ v # 0 /\ Cardinality(approved) < MaxApprovals
     /\ approved' = approved \cup {<<w, c>>}
     /\ approving' = approving \cup {<<w, c, audit[w][c], v>>}
     /\ IF At(v, c, "suspended") THEN Goes(v, c, "apply") ELSE UNCHANGED child
     /\ UNCHANGED <<il, infra, serial, history, workflow, comp, audit, budget>>

(* Then the component is saved with a status of its own and the reconcile  *)
(* with approvedBy, each with all else that was read before the resume.    *)
ApproveStatus(w, c) ==
  /\ \E old \in AuditState, v \in Run :
       /\ <<w, c, old, v>> \in approving
       /\ approving' = approving \ {<<w, c, old, v>>}
       /\ audit' = [audit EXCEPT ![w][c] = old]
       /\ SetComp(c, [status |-> "busy", lastWorkflowRunId |-> v])
  /\ UNCHANGED <<il, infra, serial, history, workflow, child, approved, budget>>

-----------------------------------------------------------------------------
PatchStep(p) ==
  CreateEnvRecon(p) \/ SetLatest(p) \/ DeleteWorkflow(p) \/ SyncWorkflow(p)

RunStep(w) ==
  \/ Reject(w) \/ TriggerAudit(w) \/ EndAudit(w) \/ FailRun(w)
  \/ \E c \in Terraform :
       InitComponent(w, c) \/ RunComponent(w, c) \/ EndComponent(w, c)
         \/ FailComponent(w, c)

ChildStep(w, c) ==
  \/ PlanStarts(w, c) \/ Plan(w, c) \/ PlanWithoutClone(w, c)
  \/ ProcessPlan(w, c)
  \/ ApplyStarts(w, c) \/ Apply(w, c) \/ ReportApply(w, c)
  \/ Fail(w, c)

ApproveStep(w, c) == Approve(w, c) \/ ApproveStatus(w, c)

Next ==
  \/ \E m \in Manifest : Edit(m)
  \/ SelfHeal
  \/ \E p \in Patch : PatchStep(p)
  \/ \E w \in Run : RunStep(w)
  \/ \E w \in Run, c \in Terraform : ChildStep(w, c) \/ ApproveStep(w, c)

Spec == Init /\ [][Next]_vars

(* Argo CD and Argo Workflows go on, a request that has begun is served to *)
(* its end, and nobody needs to approve anything.                          *)
Fairness ==
  /\ WF_vars(SelfHeal)
  /\ \A p \in Patch : WF_vars(patch[p].pc # "idle" /\ PatchStep(p))
  /\ \A w \in Run : WF_vars(RunStep(w))
  /\ \A w \in Run, c \in Terraform : WF_vars(ChildStep(w, c))

FairSpec == Spec /\ Fairness

-----------------------------------------------------------------------------
(* Properties. *)

(* A component that every spec protects is never destroyed, nor is part of *)
(* it, in any overlap of runs: the code never plans a destroy of it.       *)
ProtectedSurvives ==
  [][\A c \in Terraform :
       (\A m \in Manifest : c \in m.protected) /\ infra[c] # "none"
         => infra'[c] # "none"]_vars

(* Infrastructure is made only after that of all it depends on, and        *)
(* destroyed only after that of all that depends on it. It needs the DAG   *)
(* of the operator, the conditions of Argo's templates and the refusal of  *)
(* stale plans together, because children of different runs overlap.       *)
InOrder ==
  [][\A c \in Terraform :
       /\ infra[c] = "none" /\ infra'[c] # "none"
            => \A d \in DependsOn[c] \cap Terraform : infra[d] \in Code
       /\ infra[c] # "none" /\ infra'[c] = "none"
            => \A d \in Dependents(c) \cap Terraform : infra[d] = "none"]_vars

(* A row of the history says provisioned or destroyed only when every      *)
(* component that the spec does not skip is what the spec makes of it.     *)
RowIsTrue ==
  \A i \in Row :
    row[i] \in {"provisioned", "destroyed"} =>
      \A c \in Terraform : ~Skipped(il, c) => infra[c] = Target(il, c)

(* When no child of a component is under way, its status is true: what is  *)
(* provisioned is there, and what is destroyed is not. The children of     *)
(* overlapping runs each write their own result, in any order.             *)
StatusIsTrue ==
  \A c \in Terraform :
    (\A w \in Run : child[w][c].pc \in {"none", "succeeded", "failed"}) =>
      /\ comp[c].status = "provisioned" => infra[c] \in Code
      /\ comp[c].status = "destroyed" => infra[c] = "none"

(* No plan of a component without autoApprove is applied unless a user     *)
(* approved that very plan.                                                *)
AppliedIsApproved ==
  \A w \in Run, c \in Terraform :
    child[w][c].pc \in {"apply", "applying", "applied"}
      => c \in run[w].spec.auto \/ <<w, c>> \in approved

(* The plans of c that a user's approval has let go, and the approvals.    *)
LetGo(c) ==
  {w \in Run : /\ child[w][c].pc \in {"apply", "applying", "applied"}
               /\ c \notin run[w].spec.auto}
Approvals(c) == {w \in Run : <<w, c>> \in approved}

(* One approval lets the plan of one run be applied and no more, however   *)
(* many children of a component wait at the same time.                     *)
OneApprovalOnePlan ==
  \A c \in Terraform : Cardinality(LetGo(c)) <= Cardinality(Approvals(c))

Final == {"provisioned", "destroyed", "provision_failed", "destroy_failed"}

(* The latest row of the history comes to a final status. *)
LatestIsAnswered ==
  \A i \in Row : latest = i ~> (latest # i \/ row[i] \in Final)

=============================================================================
