------------------------- MODULE ProvisioningProofs -------------------------
(***************************************************************************)
(* Proofs about Provisioning, for every set of components, every           *)
(* dependencies, specs and requests, and every bound.                      *)
(*                                                                         *)
(* ProtectedSurvives is about one step; what makes it hold is invariant:   *)
(* the children of a protected component do not destroy, and their saved   *)
(* plans are not plans of a destroy (PlansSpare). A child keeps the spec   *)
(* of the run that created it because that run is never created again      *)
(* (ChildHasRun).                                                          *)
(***************************************************************************)
EXTENDS Provisioning, FiniteSetTheorems, TLAPS

ChildHasRun ==
  \A w \in Run, c \in Terraform : child[w][c].pc # "none" => run[w].pc # "none"

Protected(c) == \A m \in Manifest : c \in m.protected

PlansSpare ==
  \A w \in Run, c \in Terraform :
    Protected(c) /\ child[w][c].pc # "none" =>
      /\ ~Destroys(w, c)
      /\ child[w][c].pc \in {"changed", "suspended", "apply", "applying"}
           => child[w][c].to # "none"

-----------------------------------------------------------------------------
(* The types. *)

LEMMA SpecTypes ==
  ASSUME NEW m \in Manifest
  PROVE  /\ m.teardown \in BOOLEAN /\ m.code \in Code
         /\ m.destroy \subseteq Comp /\ m.protected \subseteq Comp
         /\ m.auto \subseteq Comp /\ m.leftOut \subseteq Comp
BY ManifestAssumption DEF EnvironmentSpec

LEMMA RunExists == 1 \in Run
<1>1. Cardinality(Patch) \in Nat
  BY BoundAssumption, FS_CardinalityType
<1> QED
  BY <1>1 DEF Run, MaxRuns

LEMMA InitNoChildren ==
  Init => \A w \in Run, c \in Terraform : child[w][c].pc = "none"
BY CompAssumption DEF Init

LEMMA InitTypes == Init => TypeOK
<1> SUFFICES ASSUME Init PROVE TypeOK
  OBVIOUS
<1>1. infra \in [Comp -> Built]
  BY DEF Init, Built
<1>2. run \in [Run -> RunState]
  BY DEF Init, RunState
<1>3. child \in [Run -> [Comp -> ChildState]]
  BY DEF Init, ChildState
<1>4. comp \in [Comp -> CompState]
  BY DEF Init, CompState
<1>5. patch \in [Patch -> PatchState]
  BY DEF Init, PatchState
<1>6. live \in Run \cup {0}
  BY RunExists DEF Init
<1> QED
  BY <1>1, <1>2, <1>3, <1>4, <1>5, <1>6, BoundAssumption
  DEF Init, TypeOK, RowStatus, TaskState, AuditState

(* The steps of Argo CD and of the requests keep the types. *)
LEMMA RequestTypes ==
  ASSUME TypeOK
  PROVE  /\ \A m \in Manifest : Edit(m) => TypeOK'
         /\ SelfHeal => TypeOK'
         /\ \A p \in Patch : PatchStep(p) => TypeOK'
<1> USE BoundAssumption DEF history, workflow, budget
<1>1. ASSUME CreateWorkflow PROVE live' \in Run \cup {0} /\ run' \in [Run -> RunState]
  BY <1>1 DEF TypeOK, CreateWorkflow, RunState
<1>2. ASSUME NEW m \in Manifest, Edit(m) PROVE TypeOK'
  BY <1>2 DEF TypeOK, Edit
<1>3. ASSUME SelfHeal PROVE TypeOK'
  BY <1>1, <1>3 DEF TypeOK, SelfHeal
<1>4. ASSUME NEW p \in Patch, CreateEnvRecon(p) PROVE TypeOK'
  BY <1>4 DEF TypeOK, CreateEnvRecon, PatchState, RowStatus
<1>5. ASSUME NEW p \in Patch, SetLatest(p) PROVE TypeOK'
  BY <1>5 DEF TypeOK, SetLatest, PatchState
<1>6. ASSUME NEW p \in Patch, DeleteWorkflow(p) PROVE TypeOK'
  <2>1. patch' \in [Patch -> PatchState]
    BY <1>6 DEF TypeOK, DeleteWorkflow, PatchState
  <2>2. run' \in [Run -> RunState]
    BY <1>6 DEF TypeOK, DeleteWorkflow, RunState
  <2> QED
    BY <1>6, <2>1, <2>2 DEF TypeOK, DeleteWorkflow
<1>7. ASSUME NEW p \in Patch, SyncWorkflow(p) PROVE TypeOK'
  <2>1. patch' \in [Patch -> PatchState]
    BY <1>7 DEF TypeOK, SyncWorkflow, PatchState
  <2>2. live' \in Run \cup {0} /\ run' \in [Run -> RunState]
    BY <1>1, <1>7 DEF TypeOK, SyncWorkflow
  <2> QED
    BY <1>7, <2>1, <2>2 DEF TypeOK, SyncWorkflow
<1> QED
  BY <1>2, <1>3, <1>4, <1>5, <1>6, <1>7 DEF PatchStep

LEMMA RowTypes ==
  ASSUME TypeOK, NEW status \in RowStatus, SetRow(status)
  PROVE  row' \in [Row -> RowStatus]
BY DEF TypeOK, SetRow

LEMMA CompTypes ==
  ASSUME TypeOK, NEW c \in Comp, NEW fields \in CompState, SetComp(c, fields)
  PROVE  comp' \in [Comp -> CompState]
BY DEF TypeOK, SetComp

LEMMA GoesTypes ==
  ASSUME TypeOK, NEW w \in Run, NEW c \in Comp,
         NEW pc \in {"created", "planning", "nochange", "suspended", "apply",
                     "applying", "applied", "succeeded", "failed"},
         Goes(w, c, pc)
  PROVE  child' \in [Run -> [Comp -> ChildState]]
<1>1. child[w][c] \in ChildState
  BY DEF TypeOK
<1>2. [child[w][c] EXCEPT !.pc = pc] \in ChildState
  BY <1>1 DEF ChildState
<1> QED
  BY <1>2 DEF TypeOK, Goes

(* So do those of a workflow of workflows. *)
LEMMA RunTypes ==
  ASSUME TypeOK, NEW w \in Run, RunStep(w)
  PROVE  TypeOK'
<1> USE CompAssumption DEF history, workflow, budget
<1>1. CASE Reject(w)
  BY <1>1 DEF TypeOK, Reject, RunState
<1>2. CASE TriggerAudit(w)
  <2>1. row' \in [Row -> RowStatus]
    BY <1>2, RowTypes DEF TriggerAudit, RowStatus
  <2> QED
    BY <1>2, <2>1 DEF TypeOK, TriggerAudit, RunState
<1>3. CASE EndAudit(w)
  <2>1. row' \in [Row -> RowStatus]
    BY <1>3, RowTypes DEF EndAudit, RowStatus
  <2> QED
    BY <1>3, <2>1 DEF TypeOK, EndAudit, RunState
<1>4. CASE FailRun(w)
  BY <1>4 DEF TypeOK, FailRun, RunState
<1>5. ASSUME NEW c \in Terraform, InitComponent(w, c) PROVE TypeOK'
  <2>1. comp' \in [Comp -> CompState]
    BY <1>5 DEF TypeOK, InitComponent, CompState
  <2>2. task' \in [Run -> [Comp -> TaskState]]
    BY <1>5 DEF TypeOK, InitComponent, TaskState
  <2>3. audit' \in [Run -> [Comp -> AuditState]]
    BY <1>5 DEF TypeOK, InitComponent, NewAudit, AuditState
  <2> QED
    BY <1>5, <2>1, <2>2, <2>3 DEF TypeOK, InitComponent
<1>6. ASSUME NEW c \in Terraform, RunComponent(w, c) PROVE TypeOK'
  <2>1. task' \in [Run -> [Comp -> TaskState]]
    BY <1>6 DEF TypeOK, RunComponent, TaskState
  <2>2. child' \in [Run -> [Comp -> ChildState]]
    BY <1>6, GoesTypes DEF RunComponent, Goes
  <2> QED
    BY <1>6, <2>1, <2>2 DEF TypeOK, RunComponent
<1>7. ASSUME NEW c \in Terraform, EndComponent(w, c) PROVE TypeOK'
  <2>1. task' \in [Run -> [Comp -> TaskState]]
    BY <1>7 DEF TypeOK, EndComponent, TaskState
  <2>2. audit' \in [Run -> [Comp -> AuditState]]
    BY <1>7 DEF TypeOK, EndComponent, AuditState
  <2> QED
    BY <1>7, <2>1, <2>2 DEF TypeOK, EndComponent
<1>8. ASSUME NEW c \in Terraform, FailComponent(w, c) PROVE TypeOK'
  BY <1>8 DEF TypeOK, FailComponent, TaskState
<1> QED
  BY <1>1, <1>2, <1>3, <1>4, <1>5, <1>6, <1>7, <1>8 DEF RunStep

(* So do those of a child workflow. *)
LEMMA ChildTypes ==
  ASSUME TypeOK, NEW w \in Run, NEW c \in Terraform, ChildStep(w, c)
  PROVE  TypeOK'
<1> USE CompAssumption DEF history, workflow, budget
<1>1. /\ child[w][c] \in ChildState /\ comp[c] \in CompState
      /\ run[w].spec \in Manifest /\ c \in Comp
  BY DEF TypeOK, RunState
<1>2. /\ [status |-> "busy", lastWorkflowRunId |-> w] \in CompState
      /\ \A status \in {"busy", "waiting_for_approval", "provisioned",
                        "destroyed", "plan_failed", "apply_failed"} :
           [comp[c] EXCEPT !.status = status] \in CompState
  BY <1>1 DEF CompState
<1>3. PlanTarget(w, c) \in Code \cup {"none"}
  BY SpecTypes DEF TypeOK, PlanTarget
<1>4. CASE PlanStarts(w, c)
  <2>1. comp' \in [Comp -> CompState]
    BY <1>1, <1>2, <1>4, CompTypes DEF PlanStarts, PodStarts
  <2>2. child' \in [Run -> [Comp -> ChildState]]
    BY <1>1, <1>4, GoesTypes DEF PlanStarts
  <2> QED
    BY <1>4, <2>1, <2>2 DEF TypeOK, PlanStarts
<1>5. CASE Plan(w, c)
  <2>1. /\ [child[w][c] EXCEPT !.pc = "nochange"] \in ChildState
        /\ [pc |-> "changed", to |-> PlanTarget(w, c), at |-> serial[c]]
             \in ChildState
    BY <1>1, <1>3 DEF TypeOK, ChildState
  <2>2. child' \in [Run -> [Comp -> ChildState]]
    BY <1>1, <1>5, <2>1 DEF TypeOK, Plan
  <2> QED
    BY <1>5, <2>2 DEF TypeOK, Plan
<1>6. CASE PlanWithoutClone(w, c)
  <2>1. child' \in [Run -> [Comp -> ChildState]]
    BY <1>1, <1>6, GoesTypes DEF PlanWithoutClone
  <2> QED
    BY <1>6, <2>1, BoundAssumption DEF TypeOK, PlanWithoutClone
<1>7. CASE ProcessPlan(w, c)
  <2>1. child' \in [Run -> [Comp -> ChildState]]
    BY <1>1, <1>7, GoesTypes DEF ProcessPlan
  <2>2. comp' \in [Comp -> CompState]
    BY <1>1, <1>2, <1>7, CompTypes DEF ProcessPlan, Reached
  <2> QED
    BY <1>7, <2>1, <2>2 DEF TypeOK, ProcessPlan
<1>8. CASE ApplyStarts(w, c)
  <2>1. comp' \in [Comp -> CompState]
    BY <1>1, <1>2, <1>8, CompTypes DEF ApplyStarts, PodStarts
  <2>2. child' \in [Run -> [Comp -> ChildState]]
    BY <1>1, <1>8, GoesTypes DEF ApplyStarts
  <2> QED
    BY <1>8, <2>1, <2>2 DEF TypeOK, ApplyStarts
<1>9. CASE Apply(w, c)
  <2>1. child' \in [Run -> [Comp -> ChildState]]
    BY <1>1, <1>9, GoesTypes DEF Apply
  <2>2. child[w][c].to \in Built
    BY <1>1 DEF ChildState, Built
  <2>3. infra' \in [Comp -> Built] /\ serial' \in [Comp -> Nat]
    BY <1>1, <1>9, <2>2 DEF TypeOK, Apply
  <2> QED
    BY <1>9, <2>1, <2>3 DEF TypeOK, Apply
<1>10. CASE ReportApply(w, c)
  <2>1. comp' \in [Comp -> CompState]
    BY <1>1, <1>2, <1>10, CompTypes DEF ReportApply, Reached
  <2>2. child' \in [Run -> [Comp -> ChildState]]
    BY <1>1, <1>10, GoesTypes DEF ReportApply
  <2> QED
    BY <1>10, <2>1, <2>2 DEF TypeOK, ReportApply
<1>11. CASE Fail(w, c)
  <2>1. child' \in [Run -> [Comp -> ChildState]]
    BY <1>1, <1>11, GoesTypes DEF Fail
  <2>2. comp' \in [Comp -> CompState]
    BY <1>1, <1>2, <1>11, CompTypes DEF Fail
  <2>3. row' \in [Row -> RowStatus]
    BY <1>11, RowTypes DEF Fail, RowStatus
  <2>4. audit' \in [Run -> [Comp -> AuditState]]
    BY <1>1, <1>11 DEF TypeOK, Fail, AuditState
  <2>5. infra' \in [Comp -> Built] /\ serial' \in [Comp -> Nat]
    <3>1. \/ UNCHANGED <<infra, serial>>
          \/ /\ infra' = [infra EXCEPT ![c] = "partial"]
             /\ serial' = [serial EXCEPT ![c] = @ + 1]
      BY <1>11 DEF Fail
    <3>2. "partial" \in Built /\ serial[c] + 1 \in Nat
      BY <1>1 DEF TypeOK, Built
    <3> QED
      BY <1>1, <3>1, <3>2 DEF TypeOK
  <2>6. faults' \in 0..MaxFaults
    BY <1>11, BoundAssumption DEF TypeOK, Fail
  <2> QED
    BY <1>11, <2>1, <2>2, <2>3, <2>4, <2>5, <2>6 DEF TypeOK, Fail
<1> QED
  BY <1>4, <1>5, <1>6, <1>7, <1>8, <1>9, <1>10, <1>11 DEF ChildStep

(* And so do those of an approval. *)
LEMMA ApproveTypes ==
  ASSUME TypeOK, NEW w \in Run, NEW c \in Terraform, ApproveStep(w, c)
  PROVE  TypeOK'
<1> USE CompAssumption DEF history, workflow, budget
<1>1. c \in Comp /\ comp[c] \in CompState
  BY DEF TypeOK
<1>2. CASE Approve(w, c)
  <2>1. comp[c].lastWorkflowRunId \in Run \cup {0}
    BY <1>1 DEF CompState
  <2>2. child' \in [Run -> [Comp -> ChildState]]
    BY <1>1, <1>2, <2>1, GoesTypes DEF TypeOK, Approve
  <2>3. approving' \subseteq Run \X Comp \X AuditState \X Run
    <3>1. <<w, c, audit[w][c], comp[c].lastWorkflowRunId>>
            \in Run \X Comp \X AuditState \X Run
      BY <1>1, <1>2, <2>1 DEF TypeOK, Approve
    <3> QED
      BY <1>2, <3>1 DEF TypeOK, Approve
  <2>4. approved' \subseteq Run \X Comp
    BY <1>1, <1>2 DEF TypeOK, Approve
  <2> QED
    BY <1>2, <2>2, <2>3, <2>4 DEF TypeOK, Approve
<1>3. CASE ApproveStatus(w, c)
  <2>1. PICK old \in AuditState, v \in Run :
          /\ approving' = approving \ {<<w, c, old, v>>}
          /\ audit' = [audit EXCEPT ![w][c] = old]
          /\ SetComp(c, [status |-> "busy", lastWorkflowRunId |-> v])
    BY <1>3 DEF ApproveStatus
  <2>2. [status |-> "busy", lastWorkflowRunId |-> v] \in CompState
    BY DEF CompState
  <2>3. comp' \in [Comp -> CompState]
    BY <1>1, <2>1, <2>2, CompTypes
  <2>4. audit' \in [Run -> [Comp -> AuditState]]
    BY <1>1, <2>1 DEF TypeOK
  <2> QED
    BY <1>3, <2>1, <2>3, <2>4 DEF TypeOK, ApproveStatus
<1> QED
  BY <1>2, <1>3 DEF ApproveStep

LEMMA NextTypes == TypeOK /\ [Next]_vars => TypeOK'
<1> SUFFICES ASSUME TypeOK, [Next]_vars PROVE TypeOK'
  OBVIOUS
<1>1. CASE UNCHANGED vars
  BY <1>1 DEF TypeOK, vars, history, workflow, budget
<1>2. CASE Next
  BY <1>2, RequestTypes, RunTypes, ChildTypes, ApproveTypes DEF Next
<1> QED
  BY <1>1, <1>2

(* Every variable of Provisioning keeps its type. *)
THEOREM TypeCorrect == Spec => []TypeOK
<1>1. Init => TypeOK
  BY InitTypes
<1>2. TypeOK /\ [Next]_vars => TypeOK'
  BY NextTypes
<1> QED
  BY <1>1, <1>2, PTL DEF Spec

-----------------------------------------------------------------------------
(* How a step changes the child of a component in a run. *)

RunKept ==
  \A v \in Run : run[v].pc # "none" =>
    run'[v].pc # "none" /\ run'[v].spec = run[v].spec

Created(v, e) ==
  /\ run[v].pc = "dag" /\ ~Skipped(run[v].spec, e)
  /\ child'[v][e].pc = "created" /\ task'[v][e] = "running"

Planned(v, e) ==
  /\ child[v][e].pc = "planning" /\ child'[v][e].pc = "changed"
  /\ infra[e] # PlanTarget(v, e) /\ UNCHANGED <<infra, serial>>
  /\ child'[v][e].to = PlanTarget(v, e) /\ child'[v][e].at = serial[e]

Resumes(v, e) == \E w \in Run : Approve(w, e) /\ v = comp[e].lastWorkflowRunId

Moves(v, e) ==
  /\ child'[v][e].to = child[v][e].to /\ child'[v][e].at = child[v][e].at
  /\ \/ <<child[v][e].pc, child'[v][e].pc>> \in
          {<<"planning", "failed">>, <<"nochange", "succeeded">>,
           <<"changed", "suspended">>, <<"apply", "applying">>,
           <<"applying", "failed">>, <<"applied", "succeeded">>}
     \/ /\ child[v][e].pc = "created" /\ child'[v][e].pc = "planning"
        /\ comp'[e].status = "busy"
     \/ /\ child[v][e].pc = "planning" /\ child'[v][e].pc = "nochange"
        /\ infra[e] = PlanTarget(v, e) \/ lost < MaxLost
     \/ /\ child[v][e].pc = "applying" /\ child'[v][e].pc = "applied"
        /\ infra'[e] = child[v][e].to
     \/ /\ child[v][e].pc = "changed" /\ child'[v][e].pc = "apply"
        /\ e \in run[v].spec.auto
     \/ /\ child[v][e].pc = "suspended" /\ child'[v][e].pc = "apply"
        /\ Resumes(v, e)

ChildKept(v, e) == child'[v][e] = child[v][e]

(* Only a run that was none gets a spec. *)
LEMMA CreateKeepsRuns == TypeOK /\ CreateWorkflow => RunKept
<1> SUFFICES ASSUME TypeOK, CreateWorkflow PROVE RunKept
  OBVIOUS
<1>1. PICK w \in Run : /\ run[w].pc = "none"
                       /\ run' = [run EXCEPT ![w] = [pc |-> "start", spec |-> il,
                                                    row |-> 0]]
  BY DEF CreateWorkflow
<1> QED
  BY <1>1 DEF TypeOK, RunKept

LEMMA StepKeepsRuns ==
  ASSUME TypeOK, [Next]_vars
  PROVE  RunKept /\ approved \subseteq approved'
<1> USE DEF history, workflow, budget
<1>1. UNCHANGED run => RunKept
  BY DEF RunKept
<1>2. ASSUME NEW w \in Run, NEW pc \in {"succeeded", "failed"},
             run' = [run EXCEPT ![w].pc = pc]
      PROVE  RunKept
  BY <1>2 DEF RunKept, TypeOK, RunState
<1>3. CASE UNCHANGED vars
  BY <1>1, <1>3 DEF vars
<1>4. ASSUME NEW m \in Manifest, Edit(m)
      PROVE  RunKept /\ approved \subseteq approved'
  BY <1>1, <1>4 DEF Edit
<1>5. CASE SelfHeal
  BY <1>5, CreateKeepsRuns DEF SelfHeal
<1>6. ASSUME NEW p \in Patch, PatchStep(p)
      PROVE  RunKept /\ approved \subseteq approved'
  <2>1. CASE CreateEnvRecon(p) \/ SetLatest(p)
    BY <1>1, <2>1 DEF CreateEnvRecon, SetLatest
  <2>2. CASE DeleteWorkflow(p)
    BY <2>2 DEF DeleteWorkflow, RunKept, TypeOK, RunState
  <2>3. CASE SyncWorkflow(p)
    BY <1>1, <2>3, CreateKeepsRuns DEF SyncWorkflow
  <2> QED
    BY <1>6, <2>1, <2>2, <2>3 DEF PatchStep
<1>7. ASSUME NEW w \in Run, RunStep(w)
      PROVE  RunKept /\ approved \subseteq approved'
  <2>1. CASE Reject(w) \/ EndAudit(w) \/ FailRun(w)
    BY <1>2, <2>1 DEF Reject, EndAudit, FailRun
  <2>2. CASE TriggerAudit(w)
    <3>1. run' = [run EXCEPT ![w] =
                    [run[w] EXCEPT !.pc = "dag", !.row = latest]]
      BY <2>2 DEF TriggerAudit
    <3>2. run[w] \in RunState
      BY DEF TypeOK
    <3>3. /\ [run[w] EXCEPT !.pc = "dag", !.row = latest].pc = "dag"
          /\ [run[w] EXCEPT !.pc = "dag", !.row = latest].spec = run[w].spec
      BY <3>2 DEF RunState
    <3>4. RunKept
      BY <3>1, <3>3 DEF RunKept, TypeOK
    <3> QED
      BY <2>2, <3>4 DEF TriggerAudit
  <2>3. ASSUME NEW c \in Terraform,
               InitComponent(w, c) \/ RunComponent(w, c) \/ EndComponent(w, c)
                 \/ FailComponent(w, c)
        PROVE  RunKept /\ approved \subseteq approved'
    BY <1>1, <2>3
    DEF InitComponent, RunComponent, EndComponent, FailComponent
  <2> QED
    BY <1>7, <2>1, <2>2, <2>3 DEF RunStep
<1>8. ASSUME NEW w \in Run, NEW c \in Terraform, ChildStep(w, c)
      PROVE  RunKept /\ approved \subseteq approved'
  BY <1>1, <1>8
  DEF ChildStep, PlanStarts, Plan, PlanWithoutClone, ProcessPlan, ApplyStarts,
      Apply, ReportApply, Fail
<1>9. ASSUME NEW w \in Run, NEW c \in Terraform, ApproveStep(w, c)
      PROVE  RunKept /\ approved \subseteq approved'
  BY <1>1, <1>9 DEF ApproveStep, Approve, ApproveStatus
<1> QED
  BY <1>3, <1>4, <1>5, <1>6, <1>7, <1>8, <1>9 DEF Next

(* Only the child at hand changes in a step of a child. *)
LEMMA OthersKept ==
  ASSUME TypeOK, NEW w \in Run, NEW c \in Comp, NEW STATE rec,
         child' = [child EXCEPT ![w][c] = rec],
         NEW v \in Run, NEW e \in Comp
  PROVE  child'[v][e] = IF v = w /\ e = c THEN rec ELSE child[v][e]
BY DEF TypeOK

LEMMA GoesMoves ==
  ASSUME TypeOK, NEW w \in Run, NEW c \in Comp,
         NEW pc, Goes(w, c, pc), NEW v \in Run, NEW e \in Comp
  PROVE  /\ v = w /\ e = c => child'[v][e].pc = pc
         /\ v = w /\ e = c => child'[v][e].to = child[v][e].to
                              /\ child'[v][e].at = child[v][e].at
         /\ ~(v = w /\ e = c) => child'[v][e] = child[v][e]
<1>1. child[w][c] \in ChildState
  BY DEF TypeOK
<1>2. child' = [child EXCEPT ![w][c] = [child[w][c] EXCEPT !.pc = pc]]
  BY DEF Goes
<1> DEFINE rec == [child[w][c] EXCEPT !.pc = pc]
<1>3. rec.pc = pc /\ rec.to = child[w][c].to /\ rec.at = child[w][c].at
  BY <1>1 DEF ChildState
<1>4. child' = [child EXCEPT ![w][c] = rec]
  BY <1>2
<1> HIDE DEF rec
<1>5. child'[v][e] = IF v = w /\ e = c THEN rec ELSE child[v][e]
  BY <1>4 DEF TypeOK
<1>6. v = w /\ e = c => child'[v][e].pc = pc
  BY <1>3, <1>5
<1>7. v = w /\ e = c => child'[v][e].to = child[v][e].to
                       /\ child'[v][e].at = child[v][e].at
  BY <1>3, <1>5
<1>8. ~(v = w /\ e = c) => child'[v][e] = child[v][e]
  BY <1>5
<1> QED
  BY <1>6, <1>7, <1>8, Zenon

LEMMA StepMoves ==
  ASSUME TypeOK, [Next]_vars, NEW v \in Run, NEW e \in Terraform
  PROVE  ChildKept(v, e) \/ Created(v, e) \/ Planned(v, e) \/ Moves(v, e)
<1> USE CompAssumption DEF history, workflow, budget
<1> DEFINE Goal ==
      ChildKept(v, e) \/ Created(v, e) \/ Planned(v, e) \/ Moves(v, e)
<1>1. UNCHANGED child => Goal
  BY DEF ChildKept
<1>2. CASE UNCHANGED vars
  BY <1>1, <1>2 DEF vars
<1>3. ASSUME NEW m \in Manifest, Edit(m) PROVE Goal
  BY <1>1, <1>3 DEF Edit
<1>4. CASE SelfHeal
  BY <1>1, <1>4 DEF SelfHeal
<1>5. ASSUME NEW p \in Patch, PatchStep(p) PROVE Goal
  BY <1>1, <1>5
  DEF PatchStep, CreateEnvRecon, SetLatest, DeleteWorkflow, SyncWorkflow
<1>6. ASSUME NEW w \in Run, RunStep(w) PROVE Goal
  <2>1. CASE Reject(w) \/ TriggerAudit(w) \/ EndAudit(w) \/ FailRun(w)
    BY <1>1, <2>1 DEF Reject, TriggerAudit, EndAudit, FailRun
  <2>2. ASSUME NEW c \in Terraform,
               InitComponent(w, c) \/ EndComponent(w, c) \/ FailComponent(w, c)
        PROVE  Goal
    BY <1>1, <2>2 DEF InitComponent, EndComponent, FailComponent
  <2>3. ASSUME NEW c \in Terraform, RunComponent(w, c) PROVE Goal
    <3>1. Goes(w, c, "created")
      BY <2>3 DEF RunComponent, Goes
    <3>2. run[w].pc = "dag" /\ ~Skipped(run[w].spec, c) /\ task'[w][c] = "running"
      BY <2>3 DEF RunComponent, Running, TypeOK
    <3> QED
      BY <3>1, <3>2, GoesMoves DEF Created, ChildKept
  <2> QED
    BY <1>6, <2>1, <2>2, <2>3 DEF RunStep
<1>7. ASSUME NEW w \in Run, NEW c \in Terraform, ChildStep(w, c) PROVE Goal
  <2>1. CASE PlanStarts(w, c)
    <3>1. comp'[c].status = "busy"
      BY <2>1 DEF PlanStarts, PodStarts, SetComp, TypeOK
    <3> QED
      BY <2>1, <3>1, GoesMoves DEF PlanStarts, At, Moves, ChildKept
  <2>2. CASE Plan(w, c)
    <3>1. child[w][c] \in ChildState
      BY DEF TypeOK
    <3>2. CASE infra[c] = PlanTarget(w, c)
      <4>1. Goes(w, c, "nochange")
        BY <2>2, <3>2 DEF Plan, Goes
      <4> QED
        BY <2>2, <4>1, GoesMoves DEF Plan, At, Moves, ChildKept
    <3>3. CASE infra[c] # PlanTarget(w, c)
      <4>1. child' = [child EXCEPT ![w][c] =
              [pc |-> "changed", to |-> PlanTarget(w, c), at |-> serial[c]]]
        BY <2>2, <3>3 DEF Plan
      <4> QED
        BY <2>2, <4>1, OthersKept DEF Plan, At, Planned, ChildKept
    <3> QED
      BY <3>2, <3>3
  <2>3. CASE PlanWithoutClone(w, c)
    BY <2>3, GoesMoves DEF PlanWithoutClone, At, Moves, ChildKept
  <2>4. CASE ProcessPlan(w, c)
    <3>1. CASE At(w, c, "nochange") /\ Goes(w, c, "succeeded")
      BY <3>1, GoesMoves DEF At, Moves, ChildKept
    <3>2. CASE At(w, c, "changed") /\ Goes(w, c, "suspended")
      BY <3>2, GoesMoves DEF At, Moves, ChildKept
    <3>3. CASE /\ At(w, c, "changed") /\ Goes(w, c, "apply")
               /\ c \in run[w].spec.auto
      BY <3>3, GoesMoves DEF At, Moves, ChildKept
    <3> QED
      BY <2>4, <3>1, <3>2, <3>3 DEF ProcessPlan
  <2>5. CASE ApplyStarts(w, c)
    BY <2>5, GoesMoves DEF ApplyStarts, At, Moves, ChildKept
  <2>6. CASE Apply(w, c)
    <3>1. v = w /\ e = c => infra'[e] = child[v][e].to
      BY <2>6 DEF Apply, TypeOK
    <3> QED
      BY <2>6, <3>1, GoesMoves DEF Apply, At, Moves, ChildKept
  <2>7. CASE ReportApply(w, c)
    BY <2>7, GoesMoves DEF ReportApply, At, Moves, ChildKept
  <2>8. CASE Fail(w, c)
    BY <2>8, GoesMoves DEF Fail, Moves, ChildKept
  <2> QED
    BY <1>7, <2>1, <2>2, <2>3, <2>4, <2>5, <2>6, <2>7, <2>8 DEF ChildStep
<1>8. ASSUME NEW w \in Run, NEW c \in Terraform, ApproveStep(w, c) PROVE Goal
  <2>1. CASE ApproveStatus(w, c)
    BY <1>1, <2>1 DEF ApproveStatus
  <2>2. CASE Approve(w, c)
    <3> DEFINE u == comp[c].lastWorkflowRunId
    <3>1. u \in Run
      BY <2>2 DEF Approve, TypeOK, CompState
    <3>2. CASE At(u, c, "suspended") /\ Goes(u, c, "apply")
      BY <2>2, <3>1, <3>2, GoesMoves DEF At, Moves, Resumes, ChildKept
    <3> QED
      BY <1>1, <2>2, <3>2 DEF Approve
  <2> QED
    BY <1>8, <2>1, <2>2 DEF ApproveStep
<1> QED
  BY <1>2, <1>3, <1>4, <1>5, <1>6, <1>7, <1>8 DEF Next

-----------------------------------------------------------------------------
(* A run that created a child has been created. *)
LEMMA NextChildHasRun ==
  TypeOK /\ ChildHasRun /\ [Next]_vars => ChildHasRun'
<1> SUFFICES ASSUME TypeOK, ChildHasRun, [Next]_vars,
                    NEW w \in Run, NEW c \in Terraform,
                    child'[w][c].pc # "none"
             PROVE  run'[w].pc # "none"
  BY DEF ChildHasRun
<1>1. RunKept
  BY StepKeepsRuns
<1>2. ChildKept(w, c) \/ Created(w, c) \/ Planned(w, c) \/ Moves(w, c)
  BY StepMoves
<1>3. run[w].pc # "none"
  BY <1>2 DEF ChildHasRun, ChildKept, Created, Planned, Moves
<1> QED
  BY <1>1, <1>3 DEF RunKept

(* The child of a protected component is created only by a run that does   *)
(* not destroy it, and plans what that run is for.                         *)
LEMMA NextPlansSpare ==
  TypeOK /\ ChildHasRun /\ PlansSpare /\ [Next]_vars => PlansSpare'
<1> SUFFICES ASSUME TypeOK, ChildHasRun, PlansSpare, [Next]_vars,
                    NEW w \in Run, NEW c \in Terraform,
                    Protected(c), child'[w][c].pc # "none"
             PROVE  /\ ~Destroys(w, c)'
                    /\ child'[w][c].pc \in
                         {"changed", "suspended", "apply", "applying"}
                         => child'[w][c].to # "none"
  BY DEF PlansSpare, Protected
<1>1. ChildKept(w, c) \/ Created(w, c) \/ Planned(w, c) \/ Moves(w, c)
  BY StepMoves
<1>2. run[w].pc # "none" /\ run'[w].spec = run[w].spec
  <2>1. run[w].pc # "none"
    BY <1>1 DEF ChildHasRun, ChildKept, Created, Planned, Moves
  <2> QED
    BY <2>1, StepKeepsRuns DEF RunKept
<1>3. ~Destroys(w, c)
  <2>1. CASE Created(w, c)
    <3>1. c \in run[w].spec.protected
      BY DEF TypeOK, RunState, Protected
    <3> QED
      BY <2>1, <3>1 DEF Created, Skipped, SkipComponent, Destroys
  <2>2. CASE ~Created(w, c)
    BY <1>1, <2>2 DEF PlansSpare, ChildKept, Planned, Moves
  <2> QED
    BY <2>1, <2>2
<1>4. ~Destroys(w, c)'
  BY <1>2, <1>3 DEF Destroys
<1>5. ASSUME child'[w][c].pc \in {"changed", "suspended", "apply", "applying"}
      PROVE  child'[w][c].to # "none"
  <2>1. CASE Planned(w, c)
    <3>1. il.code # "none"
      BY SpecTypes, CodeAssumption DEF TypeOK
    <3> QED
      BY <1>3, <2>1, <3>1 DEF Planned, PlanTarget
  <2>2. CASE ChildKept(w, c) \/ Moves(w, c)
    BY <1>5, <2>2 DEF PlansSpare, ChildKept, Moves
  <2>3. ~Created(w, c)
    BY <1>5 DEF Created
  <2> QED
    BY <1>1, <2>1, <2>2, <2>3
<1> QED
  BY <1>4, <1>5

(* The only steps that change infrastructure. *)
LEMMA InfraSteps ==
  ASSUME [Next]_vars, NEW c \in Terraform, infra'[c] # infra[c]
  PROVE  \E w \in Run, e \in Terraform : Apply(w, e) \/ Fail(w, e)
<1> USE DEF history, workflow, budget
<1>1. infra' # infra
  OBVIOUS
<1>2. ~UNCHANGED vars
  BY <1>1 DEF vars
<1>3. ASSUME NEW m \in Manifest PROVE ~Edit(m)
  BY <1>1 DEF Edit
<1>4. ~SelfHeal
  BY <1>1 DEF SelfHeal
<1>5. ASSUME NEW p \in Patch PROVE ~PatchStep(p)
  BY <1>1
  DEF PatchStep, CreateEnvRecon, SetLatest, DeleteWorkflow, SyncWorkflow
<1>6. ASSUME NEW w \in Run PROVE ~RunStep(w)
  BY <1>1
  DEF RunStep, Reject, TriggerAudit, EndAudit, FailRun, InitComponent,
      RunComponent, EndComponent, FailComponent
<1>7. ASSUME NEW w \in Run, NEW e \in Terraform
      PROVE  ~ApproveStep(w, e)
  BY <1>1 DEF ApproveStep, Approve, ApproveStatus
<1>8. ASSUME NEW w \in Run, NEW e \in Terraform, ChildStep(w, e)
      PROVE  Apply(w, e) \/ Fail(w, e)
  BY <1>1, <1>8
  DEF ChildStep, PlanStarts, Plan, PlanWithoutClone, ProcessPlan, ApplyStarts,
      ReportApply
<1> QED
  BY <1>2, <1>3, <1>4, <1>5, <1>6, <1>7, <1>8 DEF Next

Survives ==
  \A c \in Terraform :
    (\A m \in Manifest : c \in m.protected) /\ infra[c] # "none"
      => infra'[c] # "none"

LEMMA NextSurvives ==
  TypeOK /\ PlansSpare /\ [Next]_vars => Survives
<1> SUFFICES ASSUME TypeOK, PlansSpare, [Next]_vars, NEW c \in Terraform,
                    Protected(c), infra[c] # "none", infra'[c] = "none"
             PROVE  FALSE
  BY DEF Survives, Protected
<1>1. PICK w \in Run, e \in Terraform : Apply(w, e) \/ Fail(w, e)
  BY InfraSteps
<1>2. c \in Comp /\ e \in Comp
  BY CompAssumption
<1>3. CASE Apply(w, e)
  <2>1. infra' = [infra EXCEPT ![e] = child[w][e].to]
    BY <1>3 DEF Apply
  <2>2. c = e /\ child[w][c].to = "none"
    BY <1>2, <2>1 DEF TypeOK
  <2> QED
    BY <1>3, <2>2 DEF Apply, At, PlansSpare
<1>4. CASE Fail(w, e)
  <2>1. infra' = infra \/ infra' = [infra EXCEPT ![e] = "partial"]
    BY <1>4 DEF Fail
  <2> QED
    BY <1>2, <2>1 DEF TypeOK
<1> QED
  BY <1>1, <1>3, <1>4

(* A component that every spec protects is never destroyed, whichever runs *)
(* overlap, fail or are torn down: SkipComponent keeps every run of the    *)
(* workflow of workflows from creating a child that destroys it.           *)
THEOREM ProtectionHolds == Spec => ProtectedSurvives
<1>1. Init => TypeOK /\ ChildHasRun /\ PlansSpare
  BY InitTypes, InitNoChildren DEF ChildHasRun, PlansSpare
<1>2. TypeOK /\ ChildHasRun /\ PlansSpare /\ [Next]_vars
        => TypeOK' /\ ChildHasRun' /\ PlansSpare'
  BY NextTypes, NextChildHasRun, NextPlansSpare
<1>3. TypeOK /\ PlansSpare /\ [Next]_vars => [Survives]_vars
  BY NextSurvives
<1> QED
  BY <1>1, <1>2, <1>3, PTL DEF Spec, ProtectedSurvives, Survives

-----------------------------------------------------------------------------
(* Approvals. *)

LEMMA LetGoFinite ==
  ASSUME NEW c
  PROVE  /\ IsFiniteSet(Run) /\ IsFiniteSet(LetGo(c))
         /\ IsFiniteSet(LetGo(c)') /\ IsFiniteSet(Approvals(c))
         /\ IsFiniteSet(Approvals(c)')
<1>1. Cardinality(Patch) \in Nat
  BY BoundAssumption, FS_CardinalityType
<1>2. IsFiniteSet(Run)
  BY <1>1, FS_Interval DEF Run, MaxRuns
<1>3. /\ LetGo(c) \in SUBSET Run /\ LetGo(c)' \in SUBSET Run
      /\ Approvals(c) \in SUBSET Run /\ Approvals(c)' \in SUBSET Run
  BY DEF LetGo, Approvals
<1> QED
  BY <1>2, <1>3, FS_Subset

(* A plan that asks is let go by an approval that resumes it, and by       *)
(* nothing else.                                                           *)
LEMMA LetGoOnlyResumed ==
  ASSUME TypeOK, ChildHasRun, [Next]_vars, NEW c \in Terraform,
         NEW v \in LetGo(c)'
  PROVE  v \in LetGo(c) \/ Resumes(v, c)
<1>1. /\ v \in Run
      /\ child'[v][c].pc \in {"apply", "applying", "applied"}
      /\ c \notin run'[v].spec.auto
  BY DEF LetGo
<1>2. ChildKept(v, c) \/ Created(v, c) \/ Planned(v, c) \/ Moves(v, c)
  BY <1>1, StepMoves
<1>3. /\ child[v][c].pc # "none"
      /\ child[v][c].pc \notin {"apply", "applying", "applied"}
           => \/ child[v][c].pc = "changed" /\ c \in run[v].spec.auto
              \/ Resumes(v, c)
  BY <1>1, <1>2 DEF ChildKept, Created, Planned, Moves
<1>4. run'[v].spec = run[v].spec
  BY <1>1, <1>3, StepKeepsRuns DEF ChildHasRun, RunKept
<1> QED
  BY <1>1, <1>3, <1>4 DEF LetGo

LEMMA NextOneApproval ==
  TypeOK /\ ChildHasRun /\ OneApprovalOnePlan /\ [Next]_vars
    => OneApprovalOnePlan'
<1> SUFFICES ASSUME TypeOK, ChildHasRun, OneApprovalOnePlan, [Next]_vars,
                    NEW c \in Terraform
             PROVE  Cardinality(LetGo(c)') <= Cardinality(Approvals(c)')
  BY DEF OneApprovalOnePlan
<1>1. Cardinality(LetGo(c)) <= Cardinality(Approvals(c))
  BY DEF OneApprovalOnePlan
<1>2. /\ Cardinality(LetGo(c)) \in Nat /\ Cardinality(LetGo(c)') \in Nat
      /\ Cardinality(Approvals(c)) \in Nat
      /\ Cardinality(Approvals(c)') \in Nat
  BY LetGoFinite, FS_CardinalityType
<1>3. CASE \A w \in Run : ~Approve(w, c)
  <2>1. LetGo(c)' \subseteq LetGo(c)
    BY <1>3, LetGoOnlyResumed DEF Resumes
  <2>2. Approvals(c) \subseteq Approvals(c)'
    BY StepKeepsRuns DEF Approvals
  <2>3. /\ Cardinality(LetGo(c)') <= Cardinality(LetGo(c))
        /\ Cardinality(Approvals(c)) <= Cardinality(Approvals(c)')
    BY <2>1, <2>2, LetGoFinite, FS_Subset
  <2> QED
    BY <1>1, <1>2, <2>3
<1>4. ASSUME NEW w \in Run, Approve(w, c)
      PROVE  Cardinality(LetGo(c)') <= Cardinality(Approvals(c)')
  <2> DEFINE u == comp[c].lastWorkflowRunId
  <2>1. LetGo(c)' \subseteq LetGo(c) \cup {u}
    BY LetGoOnlyResumed DEF Resumes
  <2>2. Approvals(c)' = Approvals(c) \cup {w} /\ w \notin Approvals(c)
    BY <1>4 DEF Approve, Approvals
  <2>3. Cardinality(Approvals(c)') = Cardinality(Approvals(c)) + 1
    BY <2>2, LetGoFinite, FS_AddElement
  <2>4. /\ IsFiniteSet(LetGo(c) \cup {u})
        /\ Cardinality(LetGo(c) \cup {u}) <= Cardinality(LetGo(c)) + 1
    <3>1. IsFiniteSet(LetGo(c))
      BY LetGoFinite
    <3>2. /\ IsFiniteSet(LetGo(c) \cup {u})
          /\ Cardinality(LetGo(c) \cup {u}) =
               IF u \in LetGo(c) THEN Cardinality(LetGo(c))
                                 ELSE Cardinality(LetGo(c)) + 1
      BY <3>1, FS_AddElement
    <3> QED
      BY <1>2, <3>2
  <2>5. Cardinality(LetGo(c)') <= Cardinality(LetGo(c) \cup {u})
    BY <2>1, <2>4, FS_Subset
  <2>6. Cardinality(LetGo(c) \cup {u}) \in Nat
    BY <2>4, FS_CardinalityType
  <2> HIDE DEF u
  <2> QED
    BY <1>1, <1>2, <2>3, <2>4, <2>5, <2>6
<1> QED
  BY <1>3, <1>4

(* One approval lets the plan of one run go and no more, for any number of *)
(* overlapping runs: ApproveWorkflow resumes one workflow, and no other    *)
(* step lets a plan go that asks.                                          *)
THEOREM ApprovalsCounted == Spec => []OneApprovalOnePlan
<1>1. Init => TypeOK /\ ChildHasRun /\ OneApprovalOnePlan
  <2> SUFFICES ASSUME Init PROVE TypeOK /\ ChildHasRun /\ OneApprovalOnePlan
    OBVIOUS
  <2>1. ASSUME NEW c \in Terraform
        PROVE  Cardinality(LetGo(c)) <= Cardinality(Approvals(c))
    <3>1. LetGo(c) = {} /\ Approvals(c) = {}
      BY CompAssumption DEF Init, LetGo, Approvals
    <3> QED
      BY <3>1, FS_EmptySet
  <2> QED
    BY <2>1, InitTypes, InitNoChildren DEF ChildHasRun, OneApprovalOnePlan
<1>2. TypeOK /\ ChildHasRun /\ OneApprovalOnePlan /\ [Next]_vars
        => TypeOK' /\ ChildHasRun' /\ OneApprovalOnePlan'
  BY NextTypes, NextChildHasRun, NextOneApproval
<1> QED
  BY <1>1, <1>2, PTL DEF Spec

------------------------------------------------------------------------------
(***************************************************************************)
(* What the history of an environment and the statuses of its components   *)
(* say of its infrastructure, and the order in which it is made: for every *)
(* set of components, every dependencies and any number of requests and    *)
(* failures, as long as the spec in the IL stays the same and no clone of  *)
(* it fails unnoticed (OneSpec, below).                                    *)
(*                                                                         *)
(* The argument: infrastructure that is what the spec makes of it stays    *)
(* so. A plan that was saved before is stale, because the apply that made  *)
(* it so has moved the serial of the state on, and a plan that is made now *)
(* has no changes (PlansMeet). A task has therefore ended only where the   *)
(* infrastructure is, and will be, what the spec makes of it (TasksMeet),  *)
(* and this is what the row, the statuses and the tasks that depend on it  *)
(* rely on.                                                                *)
(***************************************************************************)

\* The bounds under which the spec and its clones stay the same.
Steady == MaxEdits = 0 /\ MaxLost = 0

\* No spec skips a component, or destroys one without a teardown.
Whole ==
  \A m \in Manifest, c \in Terraform :
    ~Skipped(m, c) /\ (c \in m.destroy => m.teardown)

OnTarget(c) == infra[c] = Target(il, c)

OneSpec == \A w \in Run : run[w].spec = il

Saved == {"changed", "suspended", "apply", "applying"}

\* A saved plan is one to the target; where the target has been reached since,
\* it is stale.
PlansMeet ==
  \A w \in Run, c \in Terraform :
    /\ child[w][c].pc \in {"nochange", "applied", "succeeded"} => OnTarget(c)
    /\ child[w][c].pc \in Saved =>
         /\ child[w][c].to = Target(il, c) /\ child[w][c].at <= serial[c]
         /\ OnTarget(c) => child[w][c].at < serial[c]

TasksMeet ==
  \A w \in Run, c \in Terraform :
    task[w][c] = "ended" /\ ~Skipped(il, c) => OnTarget(c)

\* The status of a component that is about to be destroyed is no longer
\* "provisioned" when its child has begun to plan.
StatusMeets ==
  \A c \in Terraform :
    /\ comp[c].status = "provisioned" =>
         /\ infra[c] \in Code
         /\ DestroyFlag(il, c) =>
              \A w \in Run : child[w][c].pc \in {"none", "created"}
    /\ comp[c].status = "destroyed" => DestroyFlag(il, c) /\ infra[c] = "none"

\* A task is begun only when all it depends on is on target.
OrderMeets ==
  \A w \in Run, c \in Terraform :
    /\ task[w][c] # "waiting" =>
         \A d \in Dependencies(il, c) \cap Terraform : OnTarget(d)
    /\ child[w][c].pc # "none" => task[w][c] # "waiting"

Inv == TypeOK /\ OneSpec /\ PlansMeet /\ TasksMeet

-----------------------------------------------------------------------------
(* The spec and the infrastructure.                                        *)

LEMMA SpecStays ==
  ASSUME Steady, TypeOK, [Next]_vars
  PROVE  il' = il
<1> USE DEF history, workflow, budget
<1>1. CASE UNCHANGED vars
  BY <1>1 DEF vars
<1>2. ASSUME NEW m \in Manifest PROVE ~Edit(m)
  BY DEF Steady, TypeOK, Edit
<1>3. CASE SelfHeal
  BY <1>3 DEF SelfHeal
<1>4. ASSUME NEW p \in Patch, PatchStep(p) PROVE il' = il
  BY <1>4 DEF PatchStep, CreateEnvRecon, SetLatest, DeleteWorkflow, SyncWorkflow
<1>5. ASSUME NEW w \in Run, RunStep(w) PROVE il' = il
  BY <1>5 DEF RunStep, Reject, TriggerAudit, EndAudit, FailRun, InitComponent,
              RunComponent, EndComponent, FailComponent
<1>6. ASSUME NEW w \in Run, NEW c \in Terraform, ChildStep(w, c) PROVE il' = il
  BY <1>6 DEF ChildStep, PlanStarts, Plan, PlanWithoutClone, ProcessPlan,
              ApplyStarts, Apply, ReportApply, Fail
<1>7. ASSUME NEW w \in Run, NEW c \in Terraform, ApproveStep(w, c) PROVE il' = il
  BY <1>7 DEF ApproveStep, Approve, ApproveStatus
<1> QED
  BY <1>1, <1>2, <1>3, <1>4, <1>5, <1>6, <1>7 DEF Next

LEMMA CreateKeepsSpec ==
  ASSUME TypeOK, OneSpec, CreateWorkflow
  PROVE  \A w \in Run : run'[w].spec = il
<1>1. PICK w \in Run :
        run' = [run EXCEPT ![w] = [pc |-> "start", spec |-> il, row |-> 0]]
  BY DEF CreateWorkflow
<1> QED
  BY <1>1 DEF TypeOK, OneSpec

LEMMA NextOneSpec ==
  ASSUME Steady, TypeOK, OneSpec, [Next]_vars
  PROVE  OneSpec'
<1> USE DEF history, workflow, budget
<1> SUFFICES \A w \in Run : run'[w].spec = il
  BY SpecStays DEF OneSpec
<1>1. CASE UNCHANGED run
  BY <1>1 DEF OneSpec
<1>2. ASSUME NEW w \in Run, NEW rec,
             rec.spec = run[w].spec, run' = [run EXCEPT ![w] = rec]
      PROVE  \A v \in Run : run'[v].spec = il
  BY <1>2 DEF OneSpec, TypeOK
<1>3. ASSUME NEW w \in Run, NEW pc, run' = [run EXCEPT ![w].pc = pc]
      PROVE  \A v \in Run : run'[v].spec = il
  <2>1. run[w] \in RunState
    BY DEF TypeOK
  <2>2. [run[w] EXCEPT !.pc = pc].spec = run[w].spec
    BY <2>1 DEF RunState
  <2>3. run' = [run EXCEPT ![w] = [run[w] EXCEPT !.pc = pc]]
    BY <1>3
  <2> QED
    BY <1>2, <2>2, <2>3
<1>4. CASE UNCHANGED vars
  BY <1>1, <1>4 DEF vars
<1>5. ASSUME NEW m \in Manifest, Edit(m) PROVE UNCHANGED run
  BY <1>5 DEF Edit
<1>6. CASE SelfHeal
  BY <1>6, CreateKeepsSpec DEF SelfHeal
<1>7. ASSUME NEW p \in Patch, PatchStep(p) PROVE \A v \in Run : run'[v].spec = il
  <2>1. CASE CreateEnvRecon(p) \/ SetLatest(p)
    BY <1>1, <2>1 DEF CreateEnvRecon, SetLatest
  <2>2. CASE DeleteWorkflow(p)
    BY <2>2 DEF DeleteWorkflow, OneSpec, TypeOK, RunState
  <2>3. CASE SyncWorkflow(p)
    BY <1>1, <2>3, CreateKeepsSpec DEF SyncWorkflow
  <2> QED
    BY <1>7, <2>1, <2>2, <2>3 DEF PatchStep
<1>8. ASSUME NEW w \in Run, RunStep(w) PROVE \A v \in Run : run'[v].spec = il
  <2>1. CASE Reject(w) \/ EndAudit(w) \/ FailRun(w)
    BY <1>3, <2>1 DEF Reject, EndAudit, FailRun
  <2>2. CASE TriggerAudit(w)
    <3>1. run' = [run EXCEPT ![w] = [run[w] EXCEPT !.pc = "dag", !.row = latest]]
      BY <2>2 DEF TriggerAudit
    <3>2. [run[w] EXCEPT !.pc = "dag", !.row = latest].spec = run[w].spec
      BY DEF TypeOK, RunState
    <3> QED
      BY <1>2, <3>1, <3>2
  <2>3. ASSUME NEW c \in Terraform,
               InitComponent(w, c) \/ RunComponent(w, c) \/ EndComponent(w, c)
                 \/ FailComponent(w, c)
        PROVE  UNCHANGED run
    BY <2>3 DEF InitComponent, RunComponent, EndComponent, FailComponent
  <2> QED
    BY <1>1, <1>8, <2>1, <2>2, <2>3 DEF RunStep
<1>9. ASSUME NEW w \in Run, NEW c \in Terraform, ChildStep(w, c) PROVE UNCHANGED run
  BY <1>9 DEF ChildStep, PlanStarts, Plan, PlanWithoutClone, ProcessPlan,
              ApplyStarts, Apply, ReportApply, Fail
<1>10. ASSUME NEW w \in Run, NEW c \in Terraform, ApproveStep(w, c)
       PROVE  UNCHANGED run
  BY <1>10 DEF ApproveStep, Approve, ApproveStatus
<1> QED
  BY <1>1, <1>4, <1>5, <1>6, <1>7, <1>8, <1>9, <1>10 DEF Next

\* Infrastructure changes only where it is not what the spec makes of it, and
\* then the serial of its state moves on.
LEMMA TargetMoves ==
  ASSUME TypeOK, OneSpec, PlansMeet, [Next]_vars, NEW c \in Terraform
  PROVE  \/ infra'[c] = infra[c] /\ serial'[c] = serial[c]
         \/ /\ ~OnTarget(c) /\ serial'[c] = serial[c] + 1
            /\ \E w \in Run :
                 /\ child[w][c].pc = "applying" /\ child[w][c].to = Target(il, c)
                 /\ \/ infra'[c] = Target(il, c)
                    \/ /\ infra'[c] = "partial"
                       /\ comp'[c].status = "apply_failed"
                 /\ infra[c] # Target(il, c)
<1> USE CompAssumption DEF history, workflow, budget
<1> DEFINE Goal == \/ infra'[c] = infra[c] /\ serial'[c] = serial[c]
                   \/ /\ ~OnTarget(c) /\ serial'[c] = serial[c] + 1
                      /\ \E w \in Run :
                           /\ child[w][c].pc = "applying"
                           /\ child[w][c].to = Target(il, c)
                           /\ \/ infra'[c] = Target(il, c)
                              \/ /\ infra'[c] = "partial"
                                 /\ comp'[c].status = "apply_failed"
                           /\ infra[c] # Target(il, c)
<1> SUFFICES Goal
  OBVIOUS
<1>0. c \in Comp /\ serial[c] \in Nat
  BY DEF TypeOK
<1>1. UNCHANGED <<infra, serial>> => Goal
  OBVIOUS
<1>2. ASSUME NEW w \in Run, NEW e \in Terraform, Apply(w, e) PROVE Goal
  <2>1. /\ infra' = [infra EXCEPT ![e] = child[w][e].to]
        /\ serial' = [serial EXCEPT ![e] = @ + 1]
        /\ child[w][e].pc = "applying" /\ serial[e] = child[w][e].at
    BY <1>2 DEF Apply, At, Stale
  <2>2. CASE e # c
    BY <1>0, <2>1, <2>2 DEF TypeOK
  <2>3. CASE e = c
    <3>1. child[w][c].to = Target(il, c) /\ ~OnTarget(c)
      BY <1>0, <2>1, <2>3 DEF PlansMeet, Saved
    <3>2. infra'[c] = Target(il, c) /\ serial'[c] = serial[c] + 1
      BY <1>0, <2>1, <2>3, <3>1 DEF TypeOK
    <3> QED
      BY <2>1, <2>3, <3>1, <3>2 DEF OnTarget
  <2> QED
    BY <2>2, <2>3
<1>3. ASSUME NEW w \in Run, NEW e \in Terraform, Fail(w, e) PROVE Goal
  <2>1. CASE UNCHANGED <<infra, serial>>
    BY <2>1
  <2>2. CASE ~UNCHANGED <<infra, serial>>
    <3>1. /\ infra' = [infra EXCEPT ![e] = "partial"]
          /\ serial' = [serial EXCEPT ![e] = @ + 1]
          /\ child[w][e].pc = "applying" /\ serial[e] = child[w][e].at
      BY <1>3, <2>2 DEF Fail, At, Stale
    <3>2. CASE e # c
      BY <1>0, <3>1, <3>2 DEF TypeOK
    <3>3. CASE e = c
      <4>1. child[w][c].to = Target(il, c) /\ ~OnTarget(c)
        BY <1>0, <3>1, <3>3 DEF PlansMeet, Saved
      <4>2. infra'[c] = "partial" /\ serial'[c] = serial[c] + 1
        BY <1>0, <3>1, <3>3, <4>1 DEF TypeOK
      <4>3. comp' = [comp EXCEPT ![c] = [comp[c] EXCEPT !.status = "apply_failed"]]
        BY <1>3, <3>1, <3>3 DEF Fail, SetComp, At
      <4>4. comp'[c].status = "apply_failed"
        BY <1>0, <4>3 DEF TypeOK, CompState
      <4> QED
        BY <3>1, <3>3, <4>1, <4>2, <4>4 DEF OnTarget
    <3> QED
      BY <3>2, <3>3
  <2> QED
    BY <2>1, <2>2
<1> HIDE DEF Goal
<1>4. CASE UNCHANGED vars
  BY <1>1, <1>4 DEF vars
<1>5. ASSUME NEW m \in Manifest, Edit(m) PROVE Goal
  BY <1>1, <1>5 DEF Edit
<1>6. CASE SelfHeal
  BY <1>1, <1>6 DEF SelfHeal
<1>7. ASSUME NEW p \in Patch, PatchStep(p) PROVE Goal
  BY <1>1, <1>7
  DEF PatchStep, CreateEnvRecon, SetLatest, DeleteWorkflow, SyncWorkflow
<1>8. ASSUME NEW w \in Run, RunStep(w) PROVE Goal
  BY <1>1, <1>8
  DEF RunStep, Reject, TriggerAudit, EndAudit, FailRun, InitComponent,
      RunComponent, EndComponent, FailComponent
<1>9. ASSUME NEW w \in Run, NEW e \in Terraform, ChildStep(w, e) PROVE Goal
  BY <1>1, <1>2, <1>3, <1>9
  DEF ChildStep, PlanStarts, Plan, PlanWithoutClone, ProcessPlan, ApplyStarts,
      ReportApply
<1>10. ASSUME NEW w \in Run, NEW e \in Terraform, ApproveStep(w, e) PROVE Goal
  BY <1>1, <1>10 DEF ApproveStep, Approve, ApproveStatus
<1> QED
  BY <1>4, <1>5, <1>6, <1>7, <1>8, <1>9, <1>10 DEF Next

LEMMA StaysOnTarget ==
  ASSUME Steady, TypeOK, OneSpec, PlansMeet, [Next]_vars,
         NEW c \in Terraform, OnTarget(c)
  PROVE  OnTarget(c)' /\ serial'[c] = serial[c]
BY SpecStays, TargetMoves DEF OnTarget

LEMMA NextPlansMeet ==
  ASSUME Steady, TypeOK, OneSpec, PlansMeet, [Next]_vars
  PROVE  PlansMeet'
<1> SUFFICES ASSUME NEW v \in Run, NEW e \in Terraform
             PROVE  /\ child'[v][e].pc \in {"nochange", "applied", "succeeded"}
                         => OnTarget(e)'
                    /\ child'[v][e].pc \in Saved =>
                         /\ child'[v][e].to = Target(il, e)
                         /\ child'[v][e].at <= serial'[e]
                         /\ OnTarget(e)' => child'[v][e].at < serial'[e]
  BY SpecStays DEF PlansMeet
<1>1. /\ e \in Comp /\ serial[e] \in Nat /\ child[v][e] \in ChildState
      /\ child[v][e].at \in Nat
  BY CompAssumption DEF TypeOK, ChildState
<1>2. il' = il /\ run[v].spec = il /\ PlanTarget(v, e) = Target(il, e)
  BY SpecStays DEF OneSpec, PlanTarget, Target, Destroys
<1>3. /\ \/ infra'[e] = infra[e] /\ serial'[e] = serial[e]
         \/ ~OnTarget(e) /\ serial'[e] = serial[e] + 1
      /\ OnTarget(e) => OnTarget(e)'
  BY TargetMoves, StaysOnTarget
<1>4. /\ child[v][e].pc \in {"nochange", "applied", "succeeded"} => OnTarget(e)
      /\ child[v][e].pc \in Saved =>
           /\ child[v][e].to = Target(il, e) /\ child[v][e].at <= serial[e]
           /\ OnTarget(e) => child[v][e].at < serial[e]
  BY DEF PlansMeet
\* A plan that is saved before the step and after it.
<1>5. ASSUME child[v][e].pc \in Saved,
             child'[v][e].to = child[v][e].to, child'[v][e].at = child[v][e].at
      PROVE  /\ child'[v][e].to = Target(il, e)
             /\ child'[v][e].at <= serial'[e]
             /\ OnTarget(e)' => child'[v][e].at < serial'[e]
  <2>1. CASE infra'[e] = infra[e] /\ serial'[e] = serial[e]
    BY <1>2, <1>4, <1>5, <2>1 DEF OnTarget
  <2>2. CASE serial'[e] = serial[e] + 1
    BY <1>1, <1>4, <1>5, <2>2
  <2> QED
    BY <1>3, <2>1, <2>2
<1>6. ChildKept(v, e) \/ Created(v, e) \/ Planned(v, e) \/ Moves(v, e)
  BY StepMoves
<1>7. CASE ChildKept(v, e)
  BY <1>3, <1>4, <1>5, <1>7 DEF ChildKept
<1>8. CASE Created(v, e)
  BY <1>8 DEF Created, Saved
<1>9. CASE Planned(v, e)
  <2>1. /\ child'[v][e].pc = "changed" /\ child'[v][e].to = Target(il, e)
        /\ child'[v][e].at = serial[e] /\ serial'[e] = serial[e]
        /\ ~OnTarget(e) /\ infra'[e] = infra[e]
    BY <1>2, <1>9 DEF Planned, OnTarget
  <2> QED
    BY <1>1, <1>2, <2>1 DEF OnTarget
<1>10. CASE Moves(v, e)
  <2>1. child'[v][e].to = child[v][e].to /\ child'[v][e].at = child[v][e].at
    BY <1>10 DEF Moves
  <2>2. CASE child'[v][e].pc \in Saved
    <3>1. child[v][e].pc \in Saved
      BY <1>10, <2>2 DEF Moves, Saved
    <3>2. child'[v][e].pc \notin {"nochange", "applied", "succeeded"}
      BY <2>2 DEF Saved
    <3> QED
      BY <1>5, <2>1, <3>1, <3>2
  <2>3. CASE child'[v][e].pc = "nochange"
    <3>1. infra[e] = Target(il, e)
      BY <1>2, <1>10, <2>3 DEF Moves, Steady, TypeOK
    <3> QED
      BY <1>3, <2>3, <3>1 DEF OnTarget, Saved
  <2>4. CASE child'[v][e].pc = "applied"
    <3>1. infra'[e] = child[v][e].to /\ child[v][e].pc \in Saved
      BY <1>10, <2>4 DEF Moves, Saved
    <3> QED
      BY <1>2, <1>4, <2>4, <3>1 DEF OnTarget, Saved
  <2>5. CASE child'[v][e].pc = "succeeded"
    <3>1. child[v][e].pc \in {"nochange", "applied"}
      BY <1>10, <2>5 DEF Moves
    <3> QED
      BY <1>3, <1>4, <2>5, <3>1 DEF Saved
  <2>6. CASE child'[v][e].pc \notin Saved \cup {"nochange", "applied", "succeeded"}
    BY <2>6
  <2> QED
    BY <2>2, <2>3, <2>4, <2>5, <2>6
<1> QED
  BY <1>6, <1>7, <1>8, <1>9, <1>10

-----------------------------------------------------------------------------
(* The tasks and the rows.                                                 *)

\* How a step changes a task.
LEMMA StepTasks ==
  ASSUME TypeOK, [Next]_vars, NEW v \in Run, NEW e \in Terraform
  PROVE  \/ task'[v][e] = task[v][e]
         \/ /\ task[v][e] = "waiting" /\ task'[v][e] = "initialized"
            /\ \A d \in Dependencies(run[v].spec, e) : task[v][d] = "ended"
         \/ /\ task[v][e] = "initialized" /\ task'[v][e] = "running"
         \/ /\ task[v][e] = "running" /\ task'[v][e] = "failed"
         \/ /\ task[v][e] # "waiting" /\ task'[v][e] = "ended"
            /\ Skipped(run[v].spec, e) \/ child[v][e].pc = "succeeded"
<1> USE CompAssumption DEF history, workflow, budget
<1> DEFINE Goal ==
      \/ task'[v][e] = task[v][e]
      \/ /\ task[v][e] = "waiting" /\ task'[v][e] = "initialized"
         /\ \A d \in Dependencies(run[v].spec, e) : task[v][d] = "ended"
      \/ /\ task[v][e] = "initialized" /\ task'[v][e] = "running"
      \/ /\ task[v][e] = "running" /\ task'[v][e] = "failed"
      \/ /\ task[v][e] # "waiting" /\ task'[v][e] = "ended"
         /\ Skipped(run[v].spec, e) \/ child[v][e].pc = "succeeded"
<1> SUFFICES Goal
  OBVIOUS
<1>0. e \in Comp
  OBVIOUS
<1>1. ASSUME NEW w \in Run, NEW c \in Comp, NEW to, task' = [task EXCEPT ![w][c] = to]
      PROVE  task'[v][e] = IF v = w /\ e = c THEN to ELSE task[v][e]
  BY <1>0, <1>1 DEF TypeOK
<1>2. UNCHANGED task => Goal
  OBVIOUS
<1>3. ASSUME NEW w \in Run, NEW c \in Terraform, InitComponent(w, c) PROVE Goal
  <2>1. /\ task[w][c] = "waiting" /\ task' = [task EXCEPT ![w][c] = "initialized"]
        /\ \A d \in Dependencies(run[w].spec, c) : task[w][d] = "ended"
    BY <1>3 DEF InitComponent
  <2> QED
    BY <1>1, <2>1
<1>4. ASSUME NEW w \in Run, NEW c \in Terraform, RunComponent(w, c) PROVE Goal
  <2>1. /\ task[w][c] = "initialized" /\ task' = [task EXCEPT ![w][c] = "running"]
    BY <1>4 DEF RunComponent
  <2> QED
    BY <1>1, <2>1
<1>5. ASSUME NEW w \in Run, NEW c \in Terraform, EndComponent(w, c) PROVE Goal
  <2>1. /\ task[w][c] # "waiting" /\ task' = [task EXCEPT ![w][c] = "ended"]
        /\ Skipped(run[w].spec, c) \/ child[w][c].pc = "succeeded"
    BY <1>5 DEF EndComponent
  <2> QED
    BY <1>1, <2>1
<1>6. ASSUME NEW w \in Run, NEW c \in Terraform, FailComponent(w, c) PROVE Goal
  <2>1. /\ task[w][c] = "running" /\ task' = [task EXCEPT ![w][c] = "failed"]
    BY <1>6 DEF FailComponent
  <2> QED
    BY <1>1, <2>1
<1> HIDE DEF Goal
<1>7. CASE UNCHANGED vars
  BY <1>2, <1>7 DEF vars
<1>8. ASSUME NEW m \in Manifest, Edit(m) PROVE Goal
  BY <1>2, <1>8 DEF Edit
<1>9. CASE SelfHeal
  BY <1>2, <1>9 DEF SelfHeal
<1>10. ASSUME NEW p \in Patch, PatchStep(p) PROVE Goal
  BY <1>2, <1>10
  DEF PatchStep, CreateEnvRecon, SetLatest, DeleteWorkflow, SyncWorkflow
<1>11. ASSUME NEW w \in Run, RunStep(w) PROVE Goal
  BY <1>2, <1>3, <1>4, <1>5, <1>6, <1>11
  DEF RunStep, Reject, TriggerAudit, EndAudit, FailRun
<1>12. ASSUME NEW w \in Run, NEW c \in Terraform, ChildStep(w, c) PROVE Goal
  BY <1>2, <1>12
  DEF ChildStep, PlanStarts, Plan, PlanWithoutClone, ProcessPlan, ApplyStarts,
      Apply, ReportApply, Fail
<1>13. ASSUME NEW w \in Run, NEW c \in Terraform, ApproveStep(w, c) PROVE Goal
  BY <1>2, <1>13 DEF ApproveStep, Approve, ApproveStatus
<1> QED
  BY <1>7, <1>8, <1>9, <1>10, <1>11, <1>12, <1>13 DEF Next

LEMMA NextTasksMeet ==
  ASSUME Steady, TypeOK, OneSpec, PlansMeet, TasksMeet, [Next]_vars
  PROVE  TasksMeet'
<1> SUFFICES ASSUME NEW v \in Run, NEW e \in Terraform,
                    task'[v][e] = "ended", ~Skipped(il, e)
             PROVE  OnTarget(e)'
  BY SpecStays DEF TasksMeet
<1>1. run[v].spec = il
  BY DEF OneSpec
<1>2. task[v][e] = "ended" \/ child[v][e].pc = "succeeded"
  BY <1>1, StepTasks
<1>3. OnTarget(e)
  BY <1>2 DEF TasksMeet, PlansMeet
<1> QED
  BY <1>3, StaysOnTarget

\* A row says that all went well only when all tasks of a run have ended.
LEMMA StepRows ==
  ASSUME TypeOK, [Next]_vars, NEW i \in Row, row'[i] \in {"provisioned", "destroyed"}
  PROVE  \/ row[i] \in {"provisioned", "destroyed"}
         \/ \E w \in Run : \A c \in Terraform : task[w][c] = "ended"
<1> USE DEF history, workflow, budget
<1> DEFINE Goal == \/ row[i] \in {"provisioned", "destroyed"}
                   \/ \E w \in Run : \A c \in Terraform : task[w][c] = "ended"
<1> SUFFICES Goal
  OBVIOUS
<1>1. UNCHANGED row => Goal
  OBVIOUS
<1>2. ASSUME NEW status, SetRow(status), status \notin {"provisioned", "destroyed"}
      PROVE  Goal
  BY <1>2 DEF SetRow, TypeOK
<1>3. ASSUME NEW w \in Run, EndAudit(w) PROVE Goal
  BY <1>3 DEF EndAudit
<1> HIDE DEF Goal
<1>4. CASE UNCHANGED vars
  BY <1>1, <1>4 DEF vars
<1>5. ASSUME NEW m \in Manifest, Edit(m) PROVE Goal
  BY <1>1, <1>5 DEF Edit
<1>6. CASE SelfHeal
  BY <1>1, <1>6 DEF SelfHeal
<1>7. ASSUME NEW p \in Patch, PatchStep(p) PROVE Goal
  <2>1. CASE CreateEnvRecon(p)
    <3>1. PICK j \in Row : row' = [row EXCEPT ![j] = "initializing"]
      BY <2>1 DEF CreateEnvRecon
    <3>2. row[i] \in {"provisioned", "destroyed"}
      BY <3>1 DEF TypeOK
    <3> QED
      BY <3>2 DEF Goal
  <2> QED
    BY <1>1, <1>7, <2>1 DEF PatchStep, SetLatest, DeleteWorkflow, SyncWorkflow
<1>8. ASSUME NEW w \in Run, RunStep(w) PROVE Goal
  <2>1. CASE TriggerAudit(w)
    BY <1>2, <2>1 DEF TriggerAudit
  <2> QED
    BY <1>1, <1>3, <1>8, <2>1
    DEF RunStep, Reject, FailRun, InitComponent, RunComponent, EndComponent,
        FailComponent
<1>9. ASSUME NEW w \in Run, NEW c \in Terraform, ChildStep(w, c) PROVE Goal
  <2>1. CASE Fail(w, c)
    BY <1>2, <2>1 DEF Fail
  <2> QED
    BY <1>1, <1>9, <2>1
    DEF ChildStep, PlanStarts, Plan, PlanWithoutClone, ProcessPlan, ApplyStarts,
        Apply, ReportApply
<1>10. ASSUME NEW w \in Run, NEW c \in Terraform, ApproveStep(w, c) PROVE Goal
  BY <1>1, <1>10 DEF ApproveStep, Approve, ApproveStatus
<1> QED
  BY <1>4, <1>5, <1>6, <1>7, <1>8, <1>9, <1>10 DEF Next

LEMMA NextRowIsTrue ==
  ASSUME Steady, TypeOK, OneSpec, PlansMeet, TasksMeet, RowIsTrue, [Next]_vars
  PROVE  RowIsTrue'
<1> SUFFICES ASSUME NEW i \in Row, row'[i] \in {"provisioned", "destroyed"},
                    NEW c \in Terraform, ~Skipped(il, c)
             PROVE  OnTarget(c)'
  BY SpecStays DEF RowIsTrue, OnTarget
<1>1. OnTarget(c)
  BY StepRows DEF RowIsTrue, TasksMeet, OnTarget
<1> QED
  BY <1>1, StaysOnTarget

-----------------------------------------------------------------------------
(* The statuses.                                                           *)

\* A status says that all went well only when a child reports it.
LEMMA StepStatus ==
  ASSUME TypeOK, [Next]_vars, NEW e \in Terraform
  PROVE  \/ comp'[e].status = comp[e].status
         \/ comp'[e].status \notin {"provisioned", "destroyed"}
         \/ \E w \in Run :
              /\ child[w][e].pc \in {"nochange", "applied"}
              /\ comp'[e].status = Reached(w, e)
<1> USE CompAssumption DEF history, workflow, budget
<1> DEFINE Goal ==
      \/ comp'[e].status = comp[e].status
      \/ comp'[e].status \notin {"provisioned", "destroyed"}
      \/ \E w \in Run :
           /\ child[w][e].pc \in {"nochange", "applied"}
           /\ comp'[e].status = Reached(w, e)
<1> SUFFICES Goal
  OBVIOUS
<1>0. e \in Comp
  OBVIOUS
<1>1. UNCHANGED comp => Goal
  OBVIOUS
<1>2. ASSUME NEW c \in Comp, NEW fields, comp' = [comp EXCEPT ![c] = fields]
      PROVE  comp'[e] = IF e = c THEN fields ELSE comp[e]
  BY <1>0, <1>2 DEF TypeOK
<1>3. ASSUME NEW c \in Comp, NEW status, SetComp(c, [comp[c] EXCEPT !.status = status])
      PROVE  comp'[e].status = IF e = c THEN status ELSE comp[e].status
  <2> DEFINE fields == [comp[c] EXCEPT !.status = status]
  <2>1. fields.status = status
    BY DEF TypeOK, CompState
  <2>2. comp' = [comp EXCEPT ![c] = fields]
    BY <1>3 DEF SetComp
  <2> HIDE DEF fields
  <2>3. comp'[e] = IF e = c THEN fields ELSE comp[e]
    BY <1>2, <2>2
  <2> QED
    BY <2>1, <2>3
<1>4. ASSUME NEW w \in Run, NEW c \in Comp, PodStarts(w, c) PROVE Goal
  BY <1>2, <1>4 DEF PodStarts, SetComp
<1>5. ASSUME NEW w \in Run, NEW c \in Terraform, InitComponent(w, c) PROVE Goal
  <2>1. CASE ~Skipped(run[w].spec, c)
    BY <1>2, <1>5, <2>1 DEF InitComponent
  <2>2. CASE Skipped(run[w].spec, c)
    <3>1. CASE comp' = [comp EXCEPT ![c] = comp[c]]
      BY <1>2, <3>1
    <3>2. CASE SetComp(c, [comp[c] EXCEPT !.status = "not_provisioned"])
      BY <1>3, <3>2
    <3> QED
      BY <1>5, <2>2, <3>1, <3>2 DEF InitComponent, SetComp
  <2> QED
    BY <2>1, <2>2
<1>6. ASSUME NEW w \in Run, NEW c \in Terraform, ProcessPlan(w, c) PROVE Goal
  <2>1. CASE /\ child[w][c].pc = "nochange"
             /\ SetComp(c, [comp[c] EXCEPT !.status = Reached(w, c)])
    <3>1. comp'[e].status = IF e = c THEN Reached(w, c) ELSE comp[e].status
      BY <1>3, <2>1
    <3> QED
      BY <2>1, <3>1
  <2>2. ASSUME NEW status \in {"waiting_for_approval", "busy"},
               SetComp(c, [comp[c] EXCEPT !.status = status])
        PROVE  Goal
    <3>1. comp'[e].status = IF e = c THEN status ELSE comp[e].status
      BY <1>3, <2>2
    <3> QED
      BY <3>1
  <2> QED
    BY <1>6, <2>1, <2>2 DEF ProcessPlan, At
<1>7. ASSUME NEW w \in Run, NEW c \in Terraform, ReportApply(w, c) PROVE Goal
  <2>1. comp'[e].status = IF e = c THEN Reached(w, c) ELSE comp[e].status
    BY <1>3, <1>7 DEF ReportApply
  <2> QED
    BY <1>7, <2>1 DEF ReportApply, At
<1>8. ASSUME NEW w \in Run, NEW c \in Terraform, Fail(w, c) PROVE Goal
  <2>1. PICK status \in {"plan_failed", "apply_failed"} :
          SetComp(c, [comp[c] EXCEPT !.status = status])
    BY <1>8 DEF Fail
  <2>2. comp'[e].status = IF e = c THEN status ELSE comp[e].status
    BY <1>3, <2>1
  <2> QED
    BY <2>2
<1>9. ASSUME NEW w \in Run, NEW c \in Terraform, ApproveStatus(w, c) PROVE Goal
  <2>1. PICK v \in Run :
          SetComp(c, [status |-> "busy", lastWorkflowRunId |-> v])
    BY <1>9 DEF ApproveStatus
  <2> DEFINE fields == [status |-> "busy", lastWorkflowRunId |-> v]
  <2>2. fields.status = "busy" /\ comp' = [comp EXCEPT ![c] = fields]
    BY <2>1 DEF SetComp
  <2> HIDE DEF fields
  <2>3. comp'[e] = IF e = c THEN fields ELSE comp[e]
    BY <1>2, <1>9, <2>2, CompAssumption
  <2> QED
    BY <2>2, <2>3
<1> HIDE DEF Goal
<1>10. CASE UNCHANGED vars
  BY <1>1, <1>10 DEF vars
<1>11. ASSUME NEW m \in Manifest, Edit(m) PROVE Goal
  BY <1>1, <1>11 DEF Edit
<1>12. CASE SelfHeal
  BY <1>1, <1>12 DEF SelfHeal
<1>13. ASSUME NEW p \in Patch, PatchStep(p) PROVE Goal
  BY <1>1, <1>13
  DEF PatchStep, CreateEnvRecon, SetLatest, DeleteWorkflow, SyncWorkflow
<1>14. ASSUME NEW w \in Run, RunStep(w) PROVE Goal
  BY <1>1, <1>5, <1>14
  DEF RunStep, Reject, TriggerAudit, EndAudit, FailRun, RunComponent,
      EndComponent, FailComponent
<1>15. ASSUME NEW w \in Run, NEW c \in Terraform, ChildStep(w, c) PROVE Goal
  <2>1. CASE PlanStarts(w, c) \/ ApplyStarts(w, c)
    BY <1>4, <2>1 DEF PlanStarts, ApplyStarts
  <2> QED
    BY <1>1, <1>6, <1>7, <1>8, <1>15, <2>1
    DEF ChildStep, Plan, PlanWithoutClone, Apply
<1>16. ASSUME NEW w \in Run, NEW c \in Terraform, ApproveStep(w, c) PROVE Goal
  BY <1>1, <1>9, <1>16 DEF ApproveStep, Approve
<1> QED
  BY <1>10, <1>11, <1>12, <1>13, <1>14, <1>15, <1>16 DEF Next

LEMMA NextStatusMeets ==
  ASSUME Steady, TypeOK, OneSpec, PlansMeet, StatusMeets, [Next]_vars
  PROVE  StatusMeets'
<1> SUFFICES ASSUME NEW e \in Terraform
             PROVE  /\ comp'[e].status = "provisioned" =>
                         /\ infra'[e] \in Code
                         /\ DestroyFlag(il, e) =>
                              \A w \in Run : child'[w][e].pc \in {"none", "created"}
                    /\ comp'[e].status = "destroyed" =>
                         DestroyFlag(il, e) /\ infra'[e] = "none"
  BY SpecStays DEF StatusMeets
<1>1. il.code \in Code /\ Code \cap {"none", "partial"} = {}
  BY SpecTypes, CodeAssumption DEF TypeOK
<1>2. il' = il /\ \A w \in Run : run[w].spec = il
  BY SpecStays DEF OneSpec
<1>3. CASE \E w \in Run : /\ child[w][e].pc \in {"nochange", "applied"}
                          /\ comp'[e].status = Reached(w, e)
  <2>1. PICK w \in Run : /\ child[w][e].pc \in {"nochange", "applied"}
                         /\ comp'[e].status = Reached(w, e)
    BY <1>3
  <2>2. comp'[e].status = IF DestroyFlag(il, e) THEN "destroyed" ELSE "provisioned"
    BY <1>2, <2>1 DEF Reached, Destroys
  <2>3. OnTarget(e)
    BY <2>1 DEF PlansMeet
  <2>4. infra'[e] = Target(il, e)
    BY <1>2, <2>3, StaysOnTarget DEF OnTarget
  <2> QED
    BY <1>1, <2>2, <2>4 DEF Target
<1>4. CASE comp'[e].status = comp[e].status /\ comp[e].status = "provisioned"
  <2>1. /\ infra[e] \in Code
        /\ DestroyFlag(il, e) => \A w \in Run : child[w][e].pc \in {"none", "created"}
    BY <1>4 DEF StatusMeets
  <2>2. infra'[e] \in Code
    <3>1. CASE infra'[e] = infra[e]
      BY <2>1, <3>1
    <3>2. CASE infra'[e] # infra[e]
      <4>1. PICK w \in Run : /\ child[w][e].pc = "applying"
                             /\ \/ infra'[e] = Target(il, e)
                                \/ comp'[e].status = "apply_failed"
        BY <3>2, TargetMoves
      <4>2. ~DestroyFlag(il, e) /\ infra'[e] = Target(il, e)
        BY <1>4, <2>1, <4>1
      <4> QED
        BY <1>1, <4>2 DEF Target
    <3> QED
      BY <3>1, <3>2
  <2>3. ASSUME DestroyFlag(il, e), NEW v \in Run
        PROVE  child'[v][e].pc \in {"none", "created"}
    <3>1. child[v][e].pc \in {"none", "created"}
      BY <2>1, <2>3
    <3>2. ChildKept(v, e) \/ Created(v, e) \/ Planned(v, e) \/ Moves(v, e)
      BY StepMoves
    <3>3. comp'[e].status # "busy"
      BY <1>4
    <3> QED
      BY <3>1, <3>2, <3>3 DEF ChildKept, Created, Planned, Moves
  <2> QED
    BY <1>4, <2>2, <2>3
<1>5. CASE comp'[e].status = comp[e].status /\ comp[e].status = "destroyed"
  <2>1. DestroyFlag(il, e) /\ OnTarget(e)
    BY <1>5 DEF StatusMeets, OnTarget, Target
  <2>2. infra'[e] = "none"
    BY <1>2, <2>1, StaysOnTarget DEF OnTarget, Target
  <2> QED
    BY <1>5, <2>1, <2>2
<1>6. CASE comp'[e].status \notin {"provisioned", "destroyed"}
  BY <1>6
<1> QED
  BY <1>3, <1>4, <1>5, <1>6, StepStatus

-----------------------------------------------------------------------------
(* The order.                                                              *)

LEMMA NextOrderMeets ==
  ASSUME Steady, Whole, TypeOK, OneSpec, PlansMeet, TasksMeet, OrderMeets, [Next]_vars
  PROVE  OrderMeets'
<1> SUFFICES ASSUME NEW v \in Run, NEW e \in Terraform
             PROVE  /\ task'[v][e] # "waiting" =>
                         \A d \in Dependencies(il, e) \cap Terraform : OnTarget(d)'
                    /\ child'[v][e].pc # "none" => task'[v][e] # "waiting"
  BY SpecStays DEF OrderMeets
<1>1. run[v].spec = il /\ \A d \in Terraform : ~Skipped(il, d)
  BY DEF OneSpec, Whole, TypeOK
<1>2. ASSUME task'[v][e] # "waiting", NEW d \in Dependencies(il, e) \cap Terraform
      PROVE  OnTarget(d)'
  <2>1. task[v][e] # "waiting" \/ task[v][d] = "ended"
    BY <1>1, <1>2, StepTasks
  <2>2. OnTarget(d)
    BY <1>1, <2>1 DEF OrderMeets, TasksMeet
  <2> QED
    BY <2>2, StaysOnTarget
<1>3. ASSUME child'[v][e].pc # "none" PROVE task'[v][e] # "waiting"
  <2>1. ChildKept(v, e) \/ Created(v, e) \/ Planned(v, e) \/ Moves(v, e)
    BY StepMoves
  <2>2. CASE Created(v, e)
    BY <2>2 DEF Created
  <2>3. CASE ~Created(v, e)
    <3>1. child[v][e].pc # "none"
      BY <1>3, <2>1, <2>3 DEF ChildKept, Planned, Moves
    <3>2. task[v][e] # "waiting"
      BY <3>1 DEF OrderMeets
    <3> QED
      BY <3>2, StepTasks
  <2> QED
    BY <2>2, <2>3
<1> QED
  BY <1>2, <1>3

InOrderStep ==
  \A c \in Terraform :
    /\ infra[c] = "none" /\ infra'[c] # "none"
         => \A d \in DependsOn[c] \cap Terraform : infra[d] \in Code
    /\ infra[c] # "none" /\ infra'[c] = "none"
         => \A d \in Dependents(c) \cap Terraform : infra[d] = "none"

LEMMA NextInOrder ==
  ASSUME Whole, TypeOK, OneSpec, PlansMeet, OrderMeets, [Next]_vars
  PROVE  InOrderStep
<1>1. il.code \in Code /\ Code \cap {"none", "partial"} = {}
  BY SpecTypes, CodeAssumption DEF TypeOK
<1>2. \A d \in Terraform : DestroyFlag(il, d) <=> il.teardown
  BY DEF DestroyFlag, Whole, TypeOK
<1>3. ASSUME NEW c \in Terraform, infra'[c] # infra[c]
      PROVE  /\ \A d \in Dependencies(il, c) \cap Terraform : infra[d] = Target(il, d)
             /\ infra[c] # Target(il, c)
             /\ infra'[c] \in {Target(il, c), "partial"}
  <2>1. PICK w \in Run :
          /\ child[w][c].pc = "applying" /\ infra[c] # Target(il, c)
          /\ infra'[c] \in {Target(il, c), "partial"}
    BY <1>3, TargetMoves
  <2>2. task[w][c] # "waiting"
    BY <2>1 DEF OrderMeets
  <2> QED
    BY <2>1, <2>2 DEF OrderMeets, OnTarget
<1>4. ASSUME NEW c \in Terraform, infra[c] = "none", infra'[c] # "none",
             NEW d \in DependsOn[c] \cap Terraform
      PROVE  infra[d] \in Code
  <2>1. ~il.teardown
    BY <1>2, <1>3, <1>4 DEF Target
  <2>2. infra[d] = Target(il, d)
    BY <1>3, <1>4, <2>1 DEF Dependencies
  <2> QED
    BY <1>1, <1>2, <2>1, <2>2 DEF Target
<1>5. ASSUME NEW c \in Terraform, infra[c] # "none", infra'[c] = "none",
             NEW d \in Dependents(c) \cap Terraform
      PROVE  infra[d] = "none"
  <2>1. il.teardown
    BY <1>1, <1>2, <1>3, <1>5 DEF Target
  <2>2. infra[d] = Target(il, d)
    BY <1>3, <1>5, <2>1 DEF Dependencies
  <2> QED
    BY <1>2, <2>1, <2>2 DEF Target
<1> QED
  BY <1>4, <1>5 DEF InOrderStep

-----------------------------------------------------------------------------
(* The theorems.                                                           *)

LEMMA InitMeets ==
  ASSUME Init
  PROVE  Inv /\ RowIsTrue /\ StatusMeets /\ OrderMeets
<1> USE CompAssumption
<1>1. TypeOK /\ OneSpec /\ TasksMeet
  BY InitTypes DEF Init, OneSpec, TasksMeet
<1>2. PlansMeet
  BY InitNoChildren DEF PlansMeet, Saved
<1>3. RowIsTrue
  BY DEF Init, RowIsTrue
<1>4. StatusMeets
  <2>1. PICK k \in Code : \A c \in Comp : infra[c] \in {k, "none"}
    BY DEF Init
  <2>2. \A c \in Comp :
          comp[c].status = IF infra[c] = "none" THEN "null" ELSE "provisioned"
    BY DEF Init
  <2> QED
    BY <2>1, <2>2, InitNoChildren DEF StatusMeets
<1>5. OrderMeets
  BY InitNoChildren DEF Init, OrderMeets
<1> QED
  BY <1>1, <1>2, <1>3, <1>4, <1>5 DEF Inv

LEMMA NextInv == ASSUME Steady, Inv, [Next]_vars PROVE Inv'
BY NextTypes, NextOneSpec, NextPlansMeet, NextTasksMeet DEF Inv

(* A row of the history that says provisioned or destroyed tells the truth *)
(* of every component that is not skipped, whichever requests and runs     *)
(* overlap and whatever fails: the last audit of a run comes after all its *)
(* tasks, and what they have made cannot be undone by an older plan        *)
(* (generator.go, audit.sh).                                               *)
THEOREM RowsTellTheTruth == ASSUME Steady PROVE Spec => []RowIsTrue
<1>1. Init => Inv /\ RowIsTrue
  BY InitMeets
<1>2. Inv /\ RowIsTrue /\ [Next]_vars => Inv' /\ RowIsTrue'
  BY NextInv, NextRowIsTrue DEF Inv
<1> QED
  BY <1>1, <1>2, PTL DEF Spec

(* So do the statuses of the components, also while children are under     *)
(* way: a child writes that its component will change before it plans, and *)
(* that it has changed after the apply (run_terraform.sh).                 *)
THEOREM StatusesTellTheTruth == ASSUME Steady PROVE Spec => []StatusIsTrue
<1>1. Init => Inv /\ StatusMeets
  BY InitMeets
<1>2. Inv /\ StatusMeets /\ [Next]_vars => Inv' /\ StatusMeets'
  BY NextInv, NextStatusMeets DEF Inv
<1>3. StatusMeets => StatusIsTrue
  BY DEF StatusMeets, StatusIsTrue
<1> QED
  BY <1>1, <1>2, <1>3, PTL DEF Spec

(* Infrastructure is made after all it depends on and destroyed before it, *)
(* by however many overlapping runs of a spec that skips no component: the *)
(* DAG holds a task back until the infrastructure of the tasks it depends  *)
(* on is there for good (workflow/generator).                              *)
THEOREM MadeInOrder == ASSUME Steady, Whole PROVE Spec => InOrder
<1>1. Init => Inv /\ OrderMeets
  BY InitMeets
<1>2. Inv /\ OrderMeets /\ [Next]_vars => Inv' /\ OrderMeets'
  BY NextInv, NextOrderMeets DEF Inv
<1>3. Inv /\ OrderMeets /\ [Next]_vars => [InOrderStep]_vars
  BY NextInOrder DEF Inv
<1> QED
  BY <1>1, <1>2, <1>3, PTL DEF Spec, InOrder, InOrderStep

=============================================================================
