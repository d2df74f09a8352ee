---------------------- MODULE EnvironmentReconcilerProofs ----------------------
(***************************************************************************)
(* Proofs about EnvironmentReconciler, for any components, any number of   *)
(* versions and any number of edits, failures and requests of others.      *)
(*                                                                         *)
(* A reconcile knows the resource as it read it: Read says when that is    *)
(* still the resource. What its steps have brought about so far is true of *)
(* what it read: of the resource (Marked), of the IL repositories (Pushed),*)
(* and of the API, unless someone else wrote there (Saved). At rest what   *)
(* the last reconcile has read is the resource, so all of it is true of    *)
(* the resource (FollowsTheSpec).                                          *)
(***************************************************************************)
EXTENDS EnvironmentReconciler, TLAPS

BeforePush == {"finalizer", "status", "post", "posting", "zl"}
ZLPushed == {"tf", "patch", "patching", "zlstate", "putting", "components",
             "component"}
TFPushed == ZLPushed \ {"tf"}

\* A resource in deletion, and one that a reconcile has got far enough with to
\* deploy it, has a finalizer.
Guarded ==
  /\ env.phase = "deleting" => env.finalizer
  /\ env.phase = "gone" => ~env.finalizer
  /\ ~env.finalizer => zl.kind # "deploy"

Read ==
  op.at # "idle" =>
    /\ op.env.phase # "gone"
    /\ op.env.phase = "deleting" => op.env.finalizer
    /\ op.env.finalizer => env.finalizer
    /\ op.fresh \/ ~queued => op.env = env

Marked ==
  /\ op.at \in {"finalizer", "status", "post", "posting"} => op.env.phase = "live"
  /\ op.at \notin {"idle", "finalizer"} => op.env.finalizer
  /\ op.at \notin {"idle", "finalizer", "status"} /\ op.env.phase = "live" =>
       op.env.spec.teardown \/ op.env.status = DagOf(op.env.spec)

Pushed ==
  /\ op.at \in ZLPushed =>
       /\ zl.kind = IF Deleting \/ op.env.spec.teardown THEN "destroy" ELSE "deploy"
       /\ zl.tasks = op.env.spec.components
       /\ Deleting \/ zl.app
  /\ op.at \in TFPushed /\ ~Deleting =>
       \A c \in op.env.spec.components : tf[c] = op.env.spec.code

\* A run that nobody has asked for yet is one that the reconcile will ask for.
WillAsk ==
  asked \/ lost \/ (op.pushed /\ op.at \in {"tf", "patch", "patching"})

\* Statements of a POST come after its row.
RowFirst == ~row.exists => components = {} /\ post.at = "none" /\ late.at = "none"

\* The POST that the operator waits for will leave, or has left, the DAG and
\* the components of the specification.
Saved ==
  /\ post.at # "none" => op.at = "posting" /\ post.dag = DagOf(op.env.spec)
  /\ \/ crossed
     \/ /\ post.at # "none" => post.missing \subseteq components
        /\ post.at \in {"save", "insert"} =>
             (components \cup post.new) \ post.missing = post.dag.components
        /\ post.at = "delete" => components \ post.missing = post.dag.components
        /\ post.at \in {"insert", "delete"} => row.dag = post.dag
        /\ op.at \in ZLPushed \cup {"zl"} /\ ~Deleting =>
             row.dag = DagOf(op.env.spec) /\ components = op.env.spec.components
        /\ op.at = "patching" /\ patch.at # "none" /\ ~Deleting =>
             patch.dag = DagOf(op.env.spec)

Reconciled == Guarded /\ Read /\ Marked /\ Pushed /\ WillAsk /\ RowFirst /\ Saved

\* A request that nobody has written since is about the object as it is.
Current(r) ==
  r.kind # "none" /\ ~r.stale =>
    /\ r.kind = "put" => ~object.exists
    /\ r.kind # "put" => r.read = object.status
    /\ r.kind = "upsert" => object.status[r.component] = "absent"

ZLKept ==
  /\ ~object.exists => object.status = Absent
  /\ \A k \in Client : Current(requests[k])
  /\ op.at \in {"components", "component"} =>
       /\ object.exists
       /\ ~op.old => \A c \in op.missing : object.status[c] = "absent"
  /\ op.at = "component" =>
       /\ requests["operator"].kind = "upsert"
       /\ requests["operator"].component \notin op.missing
       /\ requests["operator"].stale => op.old

Inv == TypeOK /\ Reconciled /\ FollowsTheSpec /\ LastRunIsCurrent /\ ZLKept /\ StatusIsKept

------------------------------------------------------------------------------
(* Types.                                                                  *)

LEMMA Constants ==
  /\ NoDag \in Dags /\ NoPost \in Posts /\ NoPatch \in Patches /\ NoRow \in Row
  /\ Gone \in Environments /\ Idle \in Reconciles
  /\ NoWorkflow \in Workflows /\ Absent \in Statuses
  /\ NoStateRequest \in StateRequest /\ NoState \in [exists : BOOLEAN, status : Statuses]
<1> USE ApiAssumption, ComponentAssumption
<1>1. NoDag \in Dags
  BY DEF NoDag, Dags
<1>2. NoPost \in Posts /\ NoPatch \in Patches /\ NoRow \in Row
  BY <1>1 DEF NoPost, Posts, NoPatch, Patches, NoRow, Row
<1>3. Gone \in Environments
  BY <1>1 DEF Gone, Environments
<1>4. Idle \in Reconciles
  BY <1>3 DEF Idle, Reconciles
<1>5. NoWorkflow \in Workflows
  BY DEF NoWorkflow, Workflows, NoCode, Code, Kinds
<1>6. Absent \in Statuses
  BY DEF Absent, Statuses, Status
<1>7. (CHOOSE c \in Component : TRUE) \in Component
  OBVIOUS
<1>8. NoStateRequest \in StateRequest
  BY <1>6, <1>7 DEF NoStateRequest, StateRequest, Status
<1>9. NoState \in [exists : BOOLEAN, status : Statuses]
  BY <1>6 DEF NoState, Absent
<1> QED
  BY <1>1, <1>2, <1>3, <1>4, <1>5, <1>6, <1>8, <1>9

LEMMA InitType == Init => TypeOK
<1> SUFFICES ASSUME Init PROVE TypeOK
  OBVIOUS
<1> USE Constants, ApiAssumption, ReconcilerAssumption DEF Init
<1>1. ApiTypeOK
  BY DEF ApiInit, ApiTypeOK
<1>2. ZLStateTypeOK
  BY DEF ZLStateInit, ZLStateTypeOK
<1>3. zl \in ZLs /\ tf \in Code
  BY DEF ZLs, Kinds, Code, NoCode
<1>4. queued \in BOOLEAN /\ asked \in BOOLEAN /\ lost \in BOOLEAN
  BY Zenon
<1>6. events \in 0..MaxEvents
  OBVIOUS
<1>5. env \in Environments /\ op \in Reconciles /\ wf \in Workflows
  OBVIOUS
<1> QED
  BY <1>1, <1>2, <1>3, <1>4, <1>5, <1>6 DEF TypeOK

\* The dag of a specification.
LEMMA DagType ==
  ASSUME NEW spec \in Specs \cup {NoSpec}
  PROVE  DagOf(spec) \in Dags
BY ApiAssumption DEF DagOf, Specs, NoSpec, Dags

LEMMA FlagsType ==
  ASSUME NEW o \in Reconciles, NEW b \in BOOLEAN
  PROVE  /\ [o EXCEPT !.fresh = b] \in Reconciles
         /\ [o EXCEPT !.old = b] \in Reconciles
         /\ [o EXCEPT !.moved = b] \in Reconciles
         /\ [o EXCEPT !.at = "tf", !.pushed = b] \in Reconciles
         /\ [o EXCEPT !.pushed = b, !.at = "patch"] \in Reconciles
         /\ [o EXCEPT !.pushed = b, !.at = "zlstate"] \in Reconciles
BY DEF Reconciles

LEMMA UsersType ==
  ASSUME TypeOK, Users
  PROVE  TypeOK'
<1> USE Constants, ReconcilerAssumption
<1>1. env' \in Environments
  <2>1. ASSUME NEW spec \in Specs, Apply(spec) PROVE env' \in Environments
    BY <2>1 DEF Apply, Environments, TypeOK, Gone
  <2>2. ASSUME NEW spec \in Specs, Edit(spec) PROVE env' \in Environments
    BY <2>2 DEF Edit, Environments, TypeOK
  <2>3. CASE Delete
    BY <2>3 DEF Delete, Environments, TypeOK
  <2> QED
    BY <2>1, <2>2, <2>3 DEF Users
<1>2. Act
  BY DEF Users, Apply, Edit, Delete
<1>3. op' \in Reconciles /\ queued' \in BOOLEAN /\ events' \in 0..MaxEvents
  <2>1. op' = [op EXCEPT !.fresh = op.at = "idle"] /\ queued'
    BY <1>2 DEF Act, Written
  <2>2. (op.at = "idle") \in BOOLEAN
    OBVIOUS
  <2>3. op' \in Reconciles
    BY <2>1, <2>2, FlagsType DEF TypeOK
  <2> QED
    BY <1>2, <2>3 DEF Act, Event, Written, TypeOK
<1> QED
  BY <1>1, <1>2, <1>3 DEF Act, TypeOK, api, zlstate, ApiTypeOK, ZLStateTypeOK

LEMMA PostStepType ==
  ASSUME ApiTypeOK, NEW p \in Posts, NEW q, SaveOrUpdate(p, q)
  PROVE  row' \in Row /\ components' \in SUBSET Component /\ q \in Posts
<1> USE Constants DEF ApiTypeOK
<1>1. CASE UpdateDag(p, q)
  BY <1>1 DEF UpdateDag, Posts, Row
<1>2. CASE BatchCreate(p, q)
  BY <1>2 DEF BatchCreate, Posts
<1>3. CASE BatchDelete(p, q)
  BY <1>3 DEF BatchDelete, Posts
<1> QED
  BY <1>1, <1>2, <1>3 DEF SaveOrUpdate

LEMMA ForgottenType ==
  ASSUME NEW p \in Posts
  PROVE  Forgotten(p) \in Posts
BY DEF Forgotten, Posts

\* The requests of the API keep its types.
LEMMA ApiType ==
  ASSUME ApiTypeOK, NEW dag \in Dags,
         \/ StartPost(dag) \/ PostStep \/ LateStep
         \/ ReadRow \/ SaveRow \/ StartPatch \/ CreateEnvRecon
  PROVE  ApiTypeOK'
<1> USE Constants DEF ApiTypeOK
<1>1. CASE StartPost(dag)
  <2>1. row' \in Row
    <3>1. [exists |-> TRUE, dag |-> dag] \in Row
      BY DEF Row
    <3> QED
      BY <1>1, <3>1 DEF StartPost, CreateEnv, FindByName
  <2>2. post' \in Posts
    BY <1>1 DEF StartPost, CreateEnv, FindByName, Posts, Dags
  <2> QED
    BY <1>1, <2>1, <2>2 DEF StartPost
<1>2. CASE PostStep
  BY <1>2, PostStepType, ForgottenType DEF PostStep
<1>3. CASE LateStep
  <2>1. crossed' \in BOOLEAN
    BY <1>3, Zenon DEF LateStep
  <2>2. row' \in Row /\ components' \in SUBSET Component /\ late' \in Posts
    BY <1>3, PostStepType DEF LateStep
  <2>3. post' \in Posts
    BY <1>3, ForgottenType DEF LateStep
  <2> QED
    BY <1>3, <2>1, <2>2, <2>3 DEF LateStep
<1>4. CASE ReadRow
  BY <1>4 DEF ReadRow
<1>5. CASE SaveRow
  <2>1. crossed' \in BOOLEAN
    BY <1>5, Zenon DEF SaveRow
  <2> QED
    BY <1>5, <2>1 DEF SaveRow
<1>6. CASE StartPatch
  BY <1>6 DEF StartPatch, Row, Patches
<1>7. CASE CreateEnvRecon
  BY <1>7 DEF CreateEnvRecon, Row, Patches
<1> QED
  BY <1>1, <1>2, <1>3, <1>4, <1>5, <1>6, <1>7

\* The requests of the state manager keep its types.
LEMMA ReadsType ==
  ASSUME ZLStateTypeOK, NEW k \in Client, NEW kind \in {"put", "upsert", "patch"},
         NEW c \in Component, NEW status \in Status, NEW read \in Statuses,
         NEW stale \in BOOLEAN, Reads(k, kind, c, status, read, stale)
  PROVE  ZLStateTypeOK'
<1>1. [kind |-> kind, component |-> c, status |-> status, read |-> read,
       stale |-> stale] \in StateRequest
  BY DEF StateRequest
<1> QED
  BY <1>1 DEF Reads, ZLStateTypeOK

LEMMA WriteType ==
  ASSUME ZLStateTypeOK, NEW k \in Client, Write(k)
  PROVE  ZLStateTypeOK'
<1> USE Constants DEF ZLStateTypeOK
<1> DEFINE r == requests[k]
<1>1. r \in StateRequest
  OBVIOUS
<1>2. Result(r) \in Statuses
  BY <1>1 DEF Result, StateRequest, Statuses
<1>3. object' \in [exists : BOOLEAN, status : Statuses]
  BY <1>2 DEF Write
<1>4. requests' \in [Client -> StateRequest]
  <2> SUFFICES ASSUME NEW j \in Client, j # k
               PROVE  [requests[j] EXCEPT !.stale = requests[j].kind # "none"]
                        \in StateRequest
    BY DEF Write
  <2>1. ASSUME NEW b \in BOOLEAN
        PROVE  [requests[j] EXCEPT !.stale = b] \in StateRequest
    BY <2>1 DEF StateRequest
  <2>2. (requests[j].kind # "none") \in BOOLEAN
    OBVIOUS
  <2> QED
    BY <2>1, <2>2
<1>5. told' \in Statuses
  <2>1. CASE r.stale
    BY <1>2, <2>1 DEF Write
  <2>2. CASE ~r.stale /\ r.kind = "patch"
    <3>1. told' = [told EXCEPT ![r.component] = r.status]
      BY <2>2 DEF Write
    <3> QED
      BY <1>1, <3>1 DEF StateRequest, Statuses
  <2>3. CASE ~r.stale /\ r.kind # "patch"
    <3>1. told' = [c \in Component |->
                     IF told[c] = "absent" THEN Result(r)[c] ELSE told[c]]
      BY <2>3 DEF Write
    <3> QED
      BY <1>2, <3>1 DEF Statuses
  <2> QED
    BY <2>1, <2>2, <2>3
<1> QED
  BY <1>3, <1>4, <1>5

LEMMA OperatorType ==
  ASSUME TypeOK, Operator \/ Patching \/ ReconcileCD
  PROVE  TypeOK'
<1> USE Constants, ComponentAssumption
<1>a. op.env \in Environments
  BY DEF TypeOK, Reconciles
<1>b. DagOf(op.env.spec) \in Dags
  BY <1>a, DagType DEF Environments
<1>c. ASSUME api' = api PROVE ApiTypeOK'
  BY <1>c DEF TypeOK, api, ApiTypeOK
<1>d. ASSUME zlstate' = zlstate PROVE ZLStateTypeOK'
  BY <1>d DEF TypeOK, zlstate, ZLStateTypeOK
<1>e. "operator" \in Client
  BY DEF Client
<1>1. CASE Get
  <2>1. [Idle EXCEPT !.at = AfterGet(env), !.env = env] \in Reconciles
    BY DEF TypeOK, Reconciles, AfterGet, AfterFinalizer, AfterStatus
  <2> QED
    BY <1>1, <1>c, <1>d, <2>1 DEF Get, TypeOK
<1>2. CASE HandleFinalizer
  <2> DEFINE new == [op.env EXCEPT !.finalizer = TRUE]
  <2>1. new \in Environments
    BY <1>a DEF Environments
  <2>2. [op EXCEPT !.at = AfterFinalizer(new), !.env = new] \in Reconciles
    <3> HIDE DEF new
    <3> QED
      BY <2>1 DEF TypeOK, Reconciles, AfterFinalizer, AfterStatus
  <2> HIDE DEF new
  <2>3. Update(new, AfterFinalizer(new))
    BY <1>2 DEF HandleFinalizer, new
  <2> QED
    BY <2>3, <1>c, <1>d, <2>1, <2>2 DEF Update, TypeOK
<1>3. CASE UpdateStatus
  <2> DEFINE new == [op.env EXCEPT !.status = DagOf(op.env.spec)]
  <2>1. new \in Environments
    BY <1>a, <1>b DEF Environments
  <2>2. [op EXCEPT !.at = AfterStatus(new), !.env = new] \in Reconciles
    <3> HIDE DEF new
    <3> QED
      BY <2>1 DEF TypeOK, Reconciles, AfterStatus
  <2> HIDE DEF new
  <2>3. Update(new, AfterStatus(new))
    BY <1>3 DEF UpdateStatus, new
  <2> QED
    BY <2>3, <1>c, <1>d, <2>1, <2>2 DEF Update, TypeOK
<1>4. CASE PostEnvironment
  <2>1. ApiTypeOK'
    BY <1>4, <1>b, ApiType DEF PostEnvironment, TypeOK
  <2>2. op' \in Reconciles
    BY <1>4 DEF PostEnvironment, Goto, TypeOK, Reconciles
  <2> QED
    BY <1>4, <1>d, <2>1, <2>2 DEF PostEnvironment, TypeOK
<1>5. CASE Posting
  <2>1. ApiTypeOK'
    BY <1>5, <1>b, ApiType DEF Posting, TypeOK
  <2>2. op' \in Reconciles
    BY <1>5 DEF Posting, TypeOK, Reconciles
  <2> QED
    BY <1>5, <1>d, <2>1, <2>2 DEF Posting, TypeOK
<1>6. CASE PushZL
  <2>1. zl' \in ZLs
    <3>1. op.env.spec.components \in SUBSET Component
      BY <1>a DEF Environments, Specs, NoSpec
    <3>2. (zl.app \/ ~Deleting) \in BOOLEAN
      OBVIOUS
    <3>3. ASSUME NEW b \in BOOLEAN, NEW k \in Kinds
          PROVE  [app |-> b, kind |-> k, tasks |-> op.env.spec.components] \in ZLs
      BY <3>1, <3>3 DEF ZLs
    <3>4. (IF Deleting \/ op.env.spec.teardown THEN "destroy" ELSE "deploy") \in Kinds
      BY DEF Kinds
    <3>5. WorkflowOfWorkflows \in ZLs
      BY <3>2, <3>3, <3>4 DEF WorkflowOfWorkflows
    <3> QED
      BY <1>6, <3>5 DEF PushZL
  <2>2. op' \in Reconciles
    <3>1. (zl' # zl) \in BOOLEAN
      OBVIOUS
    <3>2. op' = [op EXCEPT !.at = "tf", !.pushed = zl' # zl]
      BY <1>6 DEF PushZL
    <3> QED
      BY <3>1, <3>2, FlagsType DEF TypeOK
  <2>3. asked' \in BOOLEAN
    BY <1>6, Zenon DEF PushZL
  <2> QED
    BY <1>6, <1>c, <1>d, <2>1, <2>2, <2>3 DEF PushZL, TypeOK
<1>7. CASE PushTF
  <2>1. tf' \in Code
    <3>1. op.env.spec.code \in 0..MaxCode
      BY <1>a, ApiAssumption DEF Environments, Specs, NoSpec
    <3> QED
      BY <1>7, <3>1 DEF PushTF, Terraform, TypeOK, Code
  <2>2. op' \in Reconciles
    <3>1. (op.pushed \/ tf' # tf) \in BOOLEAN
      OBVIOUS
    <3>2. op' = [op EXCEPT !.pushed = op.pushed \/ tf' # tf,
                   !.at = IF op.pushed \/ tf' # tf THEN "patch" ELSE "zlstate"]
      BY <1>7 DEF PushTF
    <3>3. CASE op.pushed \/ tf' # tf
      <4>1. op' = [op EXCEPT !.pushed = op.pushed \/ tf' # tf, !.at = "patch"]
        BY <3>2, <3>3
      <4> QED
        BY <3>1, <4>1, FlagsType DEF TypeOK
    <3>4. CASE ~(op.pushed \/ tf' # tf)
      <4>1. op' = [op EXCEPT !.pushed = op.pushed \/ tf' # tf, !.at = "zlstate"]
        BY <3>2, <3>4
      <4> QED
        BY <3>1, <4>1, FlagsType DEF TypeOK
    <3> QED
      BY <3>3, <3>4
  <2>3. asked' \in BOOLEAN
    BY <1>7, Zenon DEF PushTF
  <2> QED
    BY <1>7, <1>c, <1>d, <2>1, <2>2, <2>3 DEF PushTF, TypeOK
<1>8. CASE PatchEnvironment
  <2>1. ApiTypeOK'
    BY <1>8, <1>b, ApiType DEF PatchEnvironment, TypeOK
  <2>2. op' \in Reconciles
    BY <1>8 DEF PatchEnvironment, Goto, TypeOK, Reconciles
  <2> QED
    BY <1>8, <1>d, <2>1, <2>2 DEF PatchEnvironment, TypeOK
<1>9. CASE PutZLState
  <2>1. Initial(op.env.spec.components) \in Statuses
    BY DEF Initial, Statuses, Status
  <2>2. ZLStateTypeOK'
    <3>1. (CHOOSE c \in Component : TRUE) \in Component /\ "absent" \in Status
      BY DEF Status
    <3> QED
      BY <1>9, <1>e, <2>1, <3>1, ReadsType DEF PutZLState, PutState, TypeOK
  <2>3. op' \in Reconciles
    BY <1>9 DEF PutZLState, Goto, TypeOK, Reconciles
  <2> QED
    BY <1>9, <1>c, <2>2, <2>3 DEF PutZLState, TypeOK
<1>10. CASE GetZLState
  <2>1. op.env.spec.components \in SUBSET Component
    BY <1>a DEF Environments, Specs, NoSpec
  <2>2. op' \in Reconciles
    BY <1>10, <2>1 DEF GetZLState, TypeOK, Reconciles
  <2> QED
    BY <1>10, <1>c, <1>d, <2>2 DEF GetZLState, TypeOK
<1>11. CASE \E c \in Component : PutComponent(c)
  <2>1. PICK c \in Component : PutComponent(c)
    BY <1>11
  <2>2. ZLStateTypeOK'
    <3>1. "not_provisioned" \in Status /\ object.status \in Statuses
      BY DEF Status, TypeOK, ZLStateTypeOK
    <3>2. op.old \in BOOLEAN
      BY DEF TypeOK, Reconciles
    <3> QED
      BY <1>e, <2>1, <3>1, <3>2, ReadsType
      DEF PutComponent, UpsertComponent, TypeOK
  <2>3. op' \in Reconciles
    BY <2>1 DEF PutComponent, TypeOK, Reconciles
  <2> QED
    BY <1>c, <2>1, <2>2, <2>3 DEF PutComponent, TypeOK
<1>12. CASE WriteOfOperator
  <2>1. ZLStateTypeOK'
    BY <1>12, <1>e, WriteType DEF WriteOfOperator, TypeOK
  <2>2. op' \in Reconciles
    BY <1>12 DEF WriteOfOperator, Goto, TypeOK, Reconciles
  <2> QED
    BY <1>12, <1>c, <2>1, <2>2 DEF WriteOfOperator, TypeOK
<1>13. CASE Finish
  BY <1>13, <1>c, <1>d DEF Finish, TypeOK
<1>14. CASE Refused
  <2>1. ApiTypeOK'
    BY <1>14 DEF Refused, Requeue, TypeOK, ApiTypeOK
  <2>2. ZLStateTypeOK'
    BY <1>14 DEF Refused, Requeue, TypeOK, ZLStateTypeOK
  <2>3. lost' \in BOOLEAN
    BY <1>14, Zenon DEF Refused, Requeue
  <2> QED
    BY <1>14, <2>1, <2>2, <2>3 DEF Refused, Requeue, TypeOK
<1>15. CASE Patching
  <2>1. ApiTypeOK'
    BY <1>15, <1>b, ApiType DEF Patching, TypeOK
  <2> QED
    BY <1>15, <1>d, <2>1 DEF Patching, TypeOK, operator
<1>16. CASE ReconcileCD
  <2>1. ApiTypeOK'
    BY <1>16 DEF ReconcileCD, TypeOK, ApiTypeOK
  <2>2. op' \in Reconciles
    BY <1>16 DEF ReconcileCD, TypeOK, Reconciles
  <2>3. asked' \in BOOLEAN /\ lost' \in BOOLEAN
    BY <1>16, Zenon DEF ReconcileCD
  <2> QED
    BY <1>16, <1>d, <2>1, <2>2, <2>3 DEF ReconcileCD, TypeOK
<1> QED
  BY <1>1, <1>2, <1>3, <1>4, <1>5, <1>6, <1>7, <1>8, <1>9, <1>10, <1>11,
     <1>12, <1>13, <1>14, <1>15, <1>16 DEF Operator

LEMMA OthersType ==
  ASSUME TypeOK, Others
  PROVE  TypeOK'
<1> USE Constants, ReconcilerAssumption
<1>c. ASSUME api' = api PROVE ApiTypeOK'
  BY <1>c DEF TypeOK, api, ApiTypeOK
<1>d. ASSUME zlstate' = zlstate PROVE ZLStateTypeOK'
  BY <1>d DEF TypeOK, zlstate, ZLStateTypeOK
<1>e. Event => events' \in 0..MaxEvents
  BY DEF Event, TypeOK
<1>1. CASE CreateWorkflow
  <2>1. wf' \in Workflows
    BY <1>1 DEF CreateWorkflow, Workflows, ZLs, TypeOK
  <2> QED
    BY <1>1, <1>c, <1>d, <2>1 DEF CreateWorkflow, TypeOK
<1>2. CASE \E c \in Component : Script(c)
  <2>1. PICK c \in Component : Script(c)
    BY <1>2
  <2> DEFINE status == IF wf.kind = "deploy" THEN "provisioned" ELSE "destroyed"
  <2>2. status \in Status /\ object.status \in Statuses /\ c \in Client
    BY DEF Status, TypeOK, ZLStateTypeOK, Client
  <2> HIDE DEF status
  <2>3. PatchComponent(c, c, status)
    BY <2>1 DEF Script, status
  <2>4. ZLStateTypeOK'
    BY <2>2, <2>3, ReadsType DEF PatchComponent, TypeOK
  <2> QED
    BY <1>c, <1>e, <2>1, <2>4 DEF Script, TypeOK, operator
<1>3. CASE WriteOfOther
  <2>1. ZLStateTypeOK'
    BY <1>3, WriteType DEF WriteOfOther, TypeOK, Client
  <2>2. (op.old \/ op.at \in {"components", "component"}) \in BOOLEAN
    OBVIOUS
  <2>3. op' = [op EXCEPT !.old = op.old \/ op.at \in {"components", "component"}]
    BY <1>3 DEF WriteOfOther
  <2>4. op' \in Reconciles
    BY <2>2, <2>3, FlagsType DEF TypeOK
  <2> QED
    BY <1>3, <1>c, <2>1, <2>4 DEF WriteOfOther, TypeOK
<1>4. CASE LatePost
  <2>1. ApiTypeOK'
    BY <1>4, ApiType DEF LatePost, TypeOK
  <2> QED
    BY <1>4, <1>d, <2>1 DEF LatePost, TypeOK, operator
<1>5. CASE OtherHandler
  <2>1. ApiTypeOK'
    BY <1>5, ApiType DEF OtherHandler, TypeOK
  <2> QED
    BY <1>5, <1>d, <1>e, <2>1 DEF OtherHandler, TypeOK, operator
<1>6. CASE OtherPush
  <2>1. op' \in Reconciles
    BY <1>6, FlagsType DEF OtherPush, TypeOK
  <2> QED
    BY <1>6, <1>c, <1>d, <1>e, <2>1 DEF OtherPush, TypeOK
<1>7. CASE Fault
  <2>1. ApiTypeOK'
    BY <1>7 DEF Fault, Requeue, TypeOK, ApiTypeOK
  <2>2. ZLStateTypeOK'
    <3>1. requests' \in [Client -> StateRequest]
      BY <1>7 DEF Fault, TypeOK, ZLStateTypeOK, Client
    <3> QED
      BY <1>7, <3>1 DEF Fault, Requeue, TypeOK, ZLStateTypeOK
  <2>3. lost' \in BOOLEAN
    BY <1>7, Zenon DEF Fault, Requeue
  <2> QED
    BY <1>7, <1>e, <2>1, <2>2, <2>3 DEF Fault, Requeue, TypeOK
<1> QED
  BY <1>1, <1>2, <1>3, <1>4, <1>5, <1>6, <1>7 DEF Others

LEMMA NextType == TypeOK /\ [Next]_vars => TypeOK'
<1> SUFFICES ASSUME TypeOK, [Next]_vars PROVE TypeOK'
  OBVIOUS
<1>1. CASE UNCHANGED vars
  BY <1>1 DEF vars, operator, api, zlstate, TypeOK, ApiTypeOK, ZLStateTypeOK
<1> QED
  BY <1>1, UsersType, OperatorType, OthersType DEF Next

\* The resource, the reconcile, the IL repositories, the API and the zLstate
\* keep their types, for any components, versions and events.
THEOREM TypeCorrect == Spec => []TypeOK
<1>1. Init => TypeOK
  BY InitType
<1>2. TypeOK /\ [Next]_vars => TypeOK'
  BY NextType
<1> QED
  BY <1>1, <1>2, PTL DEF Spec

------------------------------------------------------------------------------
(* Runs.                                                                   *)

LEMMA WillAskKept ==
  ASSUME TypeOK, WillAsk, [Next]_vars
  PROVE  WillAsk'
<1> USE DEF TypeOK, Reconciles, WillAsk
<1>1. CASE Users
  BY <1>1 DEF Users, Apply, Edit, Delete, Act, Written
<1>2. CASE Operator
  <2>1. CASE Get \/ HandleFinalizer \/ UpdateStatus
    BY <2>1 DEF Get, HandleFinalizer, UpdateStatus, Update
  <2>2. CASE PostEnvironment \/ Posting
    BY <2>2 DEF PostEnvironment, Posting, Goto
  <2>3. CASE PushZL
    BY <2>3 DEF PushZL
  <2>4. CASE PushTF
    BY <2>4 DEF PushTF
  <2>5. CASE PatchEnvironment
    BY <2>5 DEF PatchEnvironment, Goto
  <2>6. CASE PutZLState \/ GetZLState \/ (\E c \in Component : PutComponent(c))
               \/ WriteOfOperator \/ Finish
    BY <2>6 DEF PutZLState, GetZLState, PutComponent, WriteOfOperator, Finish, Goto
  <2>7. CASE Refused
    BY <2>7 DEF Refused, Requeue
  <2> QED
    BY <1>2, <2>1, <2>2, <2>3, <2>4, <2>5, <2>6, <2>7 DEF Operator
<1>3. CASE Patching
  BY <1>3 DEF Patching, operator
<1>4. CASE ReconcileCD
  BY <1>4 DEF ReconcileCD
<1>5. CASE Others
  BY <1>5 DEF Others, CreateWorkflow, Script, WriteOfOther, LatePost, OtherHandler,
     OtherPush, Fault, Requeue, operator
<1>6. CASE UNCHANGED vars
  BY <1>6 DEF vars, operator
<1> QED
  BY <1>1, <1>2, <1>3, <1>4, <1>5, <1>6 DEF Next

LEMMA CurrentKept ==
  ASSUME TypeOK, LastRunIsCurrent, [Next]_vars
  PROVE  LastRunIsCurrent'
<1> USE DEF LastRunIsCurrent
<1>1. CASE Users
  BY <1>1 DEF Users, Apply, Edit, Delete, Act
<1>2. CASE Operator
  <2>1. CASE Get \/ HandleFinalizer \/ UpdateStatus \/ PostEnvironment \/ Posting
    BY <2>1 DEF Get, HandleFinalizer, UpdateStatus, Update, PostEnvironment, Posting
  <2>2. CASE PushZL \/ PushTF
    BY <2>2 DEF PushZL, PushTF
  <2>3. CASE PatchEnvironment \/ PutZLState \/ GetZLState
               \/ (\E c \in Component : PutComponent(c))
               \/ WriteOfOperator \/ Finish
    BY <2>3 DEF PatchEnvironment, PutZLState, GetZLState, PutComponent,
       WriteOfOperator, Finish
  <2>4. CASE Refused
    BY <2>4 DEF Refused, Requeue
  <2> QED
    BY <1>2, <2>1, <2>2, <2>3, <2>4 DEF Operator
<1>3. CASE Patching
  BY <1>3 DEF Patching, operator
<1>4. CASE ReconcileCD
  BY <1>4 DEF ReconcileCD, NoWorkflow
<1>5. CASE CreateWorkflow
  BY <1>5 DEF CreateWorkflow
<1>6. CASE Others /\ ~CreateWorkflow
  BY <1>6 DEF Others, Script, WriteOfOther, LatePost, OtherHandler, OtherPush,
     Fault, Requeue, operator
<1>7. CASE UNCHANGED vars
  BY <1>7 DEF vars, operator
<1> QED
  BY <1>1, <1>2, <1>3, <1>4, <1>5, <1>6, <1>7 DEF Next

------------------------------------------------------------------------------
(* The resource.                                                           *)

LEMMA MarkedKept ==
  ASSUME TypeOK, Guarded, Marked, [Next]_vars
  PROVE  Marked'
<1> USE DEF TypeOK, Reconciles, Marked
<1>1. CASE Users
  BY <1>1 DEF Users, Apply, Edit, Delete, Act, Written
<1>2. CASE Operator
  <2>1. CASE Get
    BY <2>1 DEF Get, Idle, AfterGet, AfterFinalizer, AfterStatus,
       NeedsFinalizer, NeedsStatus, Environments, Guarded
  <2>2. CASE HandleFinalizer
    BY <2>2 DEF HandleFinalizer, Update, AfterFinalizer, AfterStatus, NeedsStatus,
       Environments
  <2>3. CASE UpdateStatus
    BY <2>3 DEF UpdateStatus, Update, AfterStatus, Environments
  <2>4. CASE PostEnvironment \/ Posting
    BY <2>4 DEF PostEnvironment, Posting, Goto
  <2>5. CASE PushZL \/ PushTF \/ PatchEnvironment
    BY <2>5 DEF PushZL, PushTF, PatchEnvironment, Goto
  <2>6. CASE PutZLState \/ GetZLState \/ (\E c \in Component : PutComponent(c))
               \/ WriteOfOperator
    BY <2>6 DEF PutZLState, GetZLState, PutComponent, WriteOfOperator, Goto
  <2>7. CASE Finish \/ Refused
    BY <2>7 DEF Finish, Refused, Requeue, Idle
  <2> QED
    BY <1>2, <2>1, <2>2, <2>3, <2>4, <2>5, <2>6, <2>7 DEF Operator
<1>3. CASE Patching
  BY <1>3 DEF Patching, operator
<1>4. CASE ReconcileCD
  BY <1>4 DEF ReconcileCD
<1>5. CASE Others
  BY <1>5 DEF Others, CreateWorkflow, Script, WriteOfOther, LatePost, OtherHandler,
     OtherPush, Fault, Requeue, Idle, operator
<1>6. CASE UNCHANGED vars
  BY <1>6 DEF vars, operator
<1> QED
  BY <1>1, <1>2, <1>3, <1>4, <1>5, <1>6 DEF Next

LEMMA ReadKept ==
  ASSUME TypeOK, Guarded, Read, [Next]_vars
  PROVE  Read'
<1> USE DEF TypeOK, Reconciles, Read
<1>1. CASE Users
  <2>1. Written
    BY <1>1 DEF Users, Apply, Edit, Delete, Act
  <2>2. op.at # "idle" /\ op.env.finalizer => env'.finalizer
    BY <1>1 DEF Users, Apply, Edit, Delete, Guarded, Environments
  <2>3. /\ op'.at = op.at /\ op'.env = op.env /\ queued'
        /\ op.at # "idle" => ~op'.fresh
    BY <2>1 DEF Written
  <2> QED
    BY <2>2, <2>3
<1>2. CASE Operator
  <2>1. CASE Get
    BY <2>1 DEF Get, Idle, Guarded, Environments
  <2>2. CASE HandleFinalizer
    BY <2>2 DEF HandleFinalizer, Update, Environments
  <2>3. CASE UpdateStatus
    BY <2>3 DEF UpdateStatus, Update, Environments
  <2>4. CASE PostEnvironment \/ Posting
    BY <2>4 DEF PostEnvironment, Posting, Goto
  <2>5. CASE PushZL \/ PushTF \/ PatchEnvironment
    BY <2>5 DEF PushZL, PushTF, PatchEnvironment, Goto
  <2>6. CASE PutZLState \/ GetZLState \/ (\E c \in Component : PutComponent(c))
               \/ WriteOfOperator
    BY <2>6 DEF PutZLState, GetZLState, PutComponent, WriteOfOperator, Goto
  <2>7. CASE Finish \/ Refused
    BY <2>7 DEF Finish, Refused, Requeue, Idle
  <2> QED
    BY <1>2, <2>1, <2>2, <2>3, <2>4, <2>5, <2>6, <2>7 DEF Operator
<1>3. CASE Patching
  BY <1>3 DEF Patching, operator
<1>4. CASE ReconcileCD
  BY <1>4 DEF ReconcileCD
<1>5. CASE Others
  BY <1>5 DEF Others, CreateWorkflow, Script, WriteOfOther, LatePost, OtherHandler,
     OtherPush, Fault, Requeue, Idle, operator
<1>6. CASE UNCHANGED vars
  BY <1>6 DEF vars, operator
<1> QED
  BY <1>1, <1>2, <1>3, <1>4, <1>5, <1>6 DEF Next

------------------------------------------------------------------------------
(* The IL repositories.                                                    *)

LEMMA PushedKept ==
  ASSUME TypeOK, Marked, Pushed, [Next]_vars
  PROVE  Pushed'
<1> USE DEF TypeOK, Reconciles, Pushed, ZLPushed, TFPushed, Deleting
<1>1. CASE Users
  BY <1>1 DEF Users, Apply, Edit, Delete, Act, Written
<1>2. CASE Operator
  <2>1. CASE Get
    BY <2>1 DEF Get, Idle, AfterGet, AfterFinalizer, AfterStatus
  <2>2. CASE HandleFinalizer \/ UpdateStatus
    BY <2>2 DEF HandleFinalizer, UpdateStatus, Update, AfterFinalizer, AfterStatus
  <2>4. CASE PostEnvironment \/ Posting
    BY <2>4 DEF PostEnvironment, Posting, Goto
  <2>5. CASE PushZL
    <3>1. zl' = WorkflowOfWorkflows /\ op'.at = "tf" /\ op'.env = op.env
      BY <2>5 DEF PushZL
    <3> QED
      BY <3>1 DEF WorkflowOfWorkflows
  <2>6. CASE PushTF
    <3>1. /\ zl' = zl /\ tf' = Terraform /\ op'.env = op.env
          /\ op.at = "tf" /\ op'.at \in {"patch", "zlstate"}
      BY <2>6 DEF PushTF
    <3>2. ~Deleting => \A c \in op.env.spec.components : tf'[c] = op.env.spec.code
      BY <3>1 DEF Terraform, Environments, Specs, NoSpec
    <3> QED
      BY <3>1, <3>2
  <2>7. CASE PatchEnvironment
    BY <2>7 DEF PatchEnvironment, Goto
  <2>8. CASE PutZLState \/ GetZLState \/ (\E c \in Component : PutComponent(c))
               \/ WriteOfOperator
    BY <2>8 DEF PutZLState, GetZLState, PutComponent, WriteOfOperator, Goto
  <2>9. CASE Finish \/ Refused
    BY <2>9 DEF Finish, Refused, Requeue, Idle
  <2> QED
    BY <1>2, <2>1, <2>2, <2>4, <2>5, <2>6, <2>7, <2>8, <2>9 DEF Operator
<1>3. CASE Patching
  BY <1>3 DEF Patching, operator
<1>4. CASE ReconcileCD
  BY <1>4 DEF ReconcileCD
<1>5. CASE Others
  BY <1>5 DEF Others, CreateWorkflow, Script, WriteOfOther, LatePost, OtherHandler,
     OtherPush, Fault, Requeue, Idle, operator
<1>6. CASE UNCHANGED vars
  BY <1>6 DEF vars, operator
<1> QED
  BY <1>1, <1>2, <1>3, <1>4, <1>5, <1>6 DEF Next

LEMMA GuardedKept ==
  ASSUME TypeOK, Guarded, Read, Marked, Pushed, [Next]_vars
  PROVE  Guarded'
<1> USE DEF TypeOK, Reconciles, Guarded
<1>1. CASE Users
  <2>1. zl' = zl
    BY <1>1 DEF Users, Apply, Edit, Delete, Act
  <2>2. CASE Delete
    BY <2>1, <2>2 DEF Delete, Gone, Environments
  <2>3. ASSUME NEW spec \in Specs, Apply(spec) \/ Edit(spec) PROVE Guarded'
    BY <2>1, <2>3 DEF Apply, Edit, Gone, Environments
  <2> QED
    BY <1>1, <2>2, <2>3 DEF Users
<1>2. CASE Operator
  <2>1. CASE Get
    BY <2>1 DEF Get
  <2>2. CASE HandleFinalizer
    <3>1. env' = [op.env EXCEPT !.finalizer = TRUE] /\ zl' = zl /\ op.env.phase = "live"
      BY <2>2 DEF HandleFinalizer, Update, Marked
    <3> QED
      BY <3>1 DEF Environments
  <2>3. CASE UpdateStatus
    <3>1. /\ env' = [op.env EXCEPT !.status = DagOf(op.env.spec)] /\ zl' = zl
          /\ op.env = env
      BY <2>3 DEF UpdateStatus, Update, Read
    <3> QED
      BY <3>1 DEF Environments
  <2>4. CASE PostEnvironment \/ Posting
    BY <2>4 DEF PostEnvironment, Posting
  <2>5. CASE PushZL
    <3>1. env' = env /\ env.finalizer
      BY <2>5 DEF PushZL, Read, Marked
    <3> QED
      BY <3>1, <2>5 DEF Read
  <2>6. CASE PushTF \/ PatchEnvironment
    BY <2>6 DEF PushTF, PatchEnvironment
  <2>7. CASE PutZLState \/ GetZLState \/ (\E c \in Component : PutComponent(c))
               \/ WriteOfOperator
    BY <2>7 DEF PutZLState, GetZLState, PutComponent, WriteOfOperator
  <2>8. CASE Finish
    <3>1. CASE Deleting
      BY <2>8, <3>1 DEF Finish, Gone, Pushed, ZLPushed
    <3>2. CASE ~Deleting
      BY <2>8, <3>2 DEF Finish
    <3> QED
      BY <3>1, <3>2
  <2>9. CASE Refused
    BY <2>9 DEF Refused, Requeue
  <2> QED
    BY <1>2, <2>1, <2>2, <2>3, <2>4, <2>5, <2>6, <2>7, <2>8, <2>9 DEF Operator
<1>3. CASE Patching
  BY <1>3 DEF Patching, operator
<1>4. CASE ReconcileCD
  BY <1>4 DEF ReconcileCD
<1>5. CASE Others
  BY <1>5 DEF Others, CreateWorkflow, Script, WriteOfOther, LatePost, OtherHandler,
     OtherPush, Fault, Requeue, operator
<1>6. CASE UNCHANGED vars
  BY <1>6 DEF vars, operator
<1> QED
  BY <1>1, <1>2, <1>3, <1>4, <1>5, <1>6 DEF Next

------------------------------------------------------------------------------
(* The API.                                                                *)

\* Steps of neither the API nor a POST.
LEMMA ApiUntouched ==
  ASSUME [Next]_vars, ~PostEnvironment, ~Posting, ~PatchEnvironment, ~Refused,
         ~Patching, ~ReconcileCD, ~LatePost, ~OtherHandler, ~Fault
  PROVE  UNCHANGED api
<1>1. CASE Users
  BY <1>1 DEF Users, Apply, Edit, Delete, Act
<1>2. CASE Operator
  BY <1>2 DEF Operator, Get, HandleFinalizer, UpdateStatus, Update, PushZL, PushTF,
     PutZLState, GetZLState, PutComponent, WriteOfOperator, Finish
<1>3. CASE Others
  BY <1>3 DEF Others, CreateWorkflow, Script, WriteOfOther, OtherPush
<1>4. CASE UNCHANGED vars
  BY <1>4 DEF vars
<1> QED
  BY <1>1, <1>2, <1>3, <1>4 DEF Next

LEMMA RowFirstKept ==
  ASSUME TypeOK, RowFirst, [Next]_vars
  PROVE  RowFirst'
<1> USE DEF TypeOK, ApiTypeOK, RowFirst
<1>0. ASSUME NEW p \in Posts, NEW q, SaveOrUpdate(p, q)
      PROVE  p.at # "none" /\ (row.exists => row'.exists)
  BY <1>0 DEF SaveOrUpdate, UpdateDag, BatchCreate, BatchDelete, Row
<1>1. CASE PostEnvironment
  BY <1>1 DEF PostEnvironment, StartPost, CreateEnv, FindByName
<1>2. CASE Posting
  <2>1. SaveOrUpdate(post, post')
    BY <1>2 DEF Posting, PostStep
  <2> QED
    BY <1>0, <2>1
<1>3. CASE PatchEnvironment
  BY <1>3 DEF PatchEnvironment, StartPatch
<1>4. CASE Refused
  BY <1>4 DEF Refused, Requeue, NoPost
<1>5. CASE Patching
  BY <1>5 DEF Patching, CreateEnvRecon
<1>6. CASE ReconcileCD
  BY <1>6 DEF ReconcileCD
<1>7. CASE LatePost
  <2>1. \/ SaveOrUpdate(late, late')
        \/ late.at # "none" /\ UNCHANGED row
    BY <1>7 DEF LatePost, LateStep, Duplicate
  <2> QED
    BY <1>0, <2>1
<1>8. CASE OtherHandler
  BY <1>8 DEF OtherHandler, ReadRow, SaveRow
<1>9. CASE Fault
  BY <1>9 DEF Fault, Requeue, NoPost
<1>10. CASE UNCHANGED api
  BY <1>10 DEF api
<1> QED
  BY <1>1, <1>2, <1>3, <1>4, <1>5, <1>6, <1>7, <1>8, <1>9, <1>10, ApiUntouched

\* A step of another actor that leaves the row, the components and the requests.
LEMMA SavedFrame ==
  ASSUME Saved, UNCHANGED <<row, components, post, patch, crossed>>,
         op'.at = op.at, op'.env = op.env
  PROVE  Saved'
BY DEF Saved, Deleting

LEMMA PostSaved ==
  ASSUME TypeOK, RowFirst, Marked, Saved, PostEnvironment
  PROVE  Saved'
<1> USE DEF TypeOK, ApiTypeOK, Reconciles, PostEnvironment, StartPost, Goto
<1> DEFINE dag == DagOf(op.env.spec)
<1>1. op'.at = "posting" /\ op'.env = op.env
  OBVIOUS
<1>2. CASE CreateEnv(dag)
  <2>1. /\ post' = [at |-> "insert", dag |-> dag, new |-> dag.components, missing |-> {}]
        /\ row' = [exists |-> TRUE, dag |-> dag]
        /\ components' = {}
    BY <1>2 DEF CreateEnv, RowFirst
  <2> HIDE DEF dag
  <2>2. /\ post'.at = "insert" /\ post'.dag = dag /\ post'.missing = {}
        /\ post'.new = dag.components /\ row'.dag = dag
    BY <2>1
  <2>3. (components' \cup post'.new) \ post'.missing = post'.dag.components
    BY <2>1, <2>2
  <2> QED
    BY <1>1, <2>1, <2>2, <2>3 DEF Saved, ZLPushed, dag
<1>3. CASE FindByName(dag)
  <2>1. /\ post' = [at |-> "save", dag |-> dag, new |-> dag.components \ components,
                    missing |-> components \ dag.components]
        /\ components' = components
    BY <1>3 DEF FindByName
  <2> HIDE DEF dag
  <2>2. /\ post'.at = "save" /\ post'.dag = dag
        /\ post'.missing = components \ dag.components
        /\ post'.new = dag.components \ components
    BY <2>1
  <2>3. (components' \cup post'.new) \ post'.missing = post'.dag.components
    BY <2>1, <2>2
  <2> QED
    BY <1>1, <2>1, <2>2, <2>3 DEF Saved, ZLPushed, dag
<1> QED
  BY <1>2, <1>3

LEMMA PostingSaved ==
  ASSUME TypeOK, Saved, Posting
  PROVE  Saved'
<1> USE DEF TypeOK, ApiTypeOK, Reconciles, Posting, PostStep
<1>0. op'.env = op.env /\ crossed' = crossed /\ post.dag = DagOf(op.env.spec)
  <2>1. post.at # "none"
    BY DEF SaveOrUpdate, UpdateDag, BatchCreate, BatchDelete
  <2> QED
    BY <2>1 DEF Saved
<1>1. CASE UpdateDag(post, post')
  <2>1. /\ post.at = "save" /\ post'.at = "insert" /\ row'.dag = post.dag
        /\ post'.dag = post.dag /\ post'.new = post.new /\ post'.missing = post.missing
        /\ op' = op /\ components' = components
    BY <1>1 DEF UpdateDag, Posts, Row
  <2> QED
    BY <1>0, <2>1 DEF Saved, ZLPushed
<1>2. CASE BatchCreate(post, post')
  <2>1. /\ post.at = "insert" /\ post'.at = "delete" /\ row' = row
        /\ post'.dag = post.dag /\ post'.missing = post.missing
        /\ op' = op /\ components' = components \cup post.new
    BY <1>2 DEF BatchCreate, Posts
  <2> QED
    BY <1>0, <2>1 DEF Saved, ZLPushed
<1>3. CASE BatchDelete(post, post')
  <2>1. /\ post.at = "delete" /\ post'.at = "none" /\ row' = row
        /\ op'.at = "zl" /\ components' = components \ post.missing
    BY <1>3 DEF BatchDelete, NoPost
  <2>2. crossed \/ components' = DagOf(op.env.spec).components
    BY <1>0, <2>1 DEF Saved
  <2>3. crossed \/ row'.dag = DagOf(op.env.spec)
    BY <1>0, <2>1 DEF Saved
  <2>4. DagOf(op.env.spec).components = op.env.spec.components
    BY DEF DagOf
  <2> QED
    BY <1>0, <2>1, <2>2, <2>3, <2>4 DEF Saved, ZLPushed
<1> QED
  BY <1>1, <1>2, <1>3 DEF SaveOrUpdate

LEMMA LateSaved ==
  ASSUME TypeOK, Saved, LatePost
  PROVE  Saved'
<1> USE DEF TypeOK, ApiTypeOK, LatePost, LateStep
<1>1. /\ op' = op /\ patch' = patch
      /\ post' = [post EXCEPT !.missing = @ \cap components']
  BY DEF operator, Forgotten
<1>2. /\ post'.at = post.at /\ post'.dag = post.dag /\ post'.new = post.new
      /\ post'.missing = post.missing \cap components'
  BY <1>1 DEF Posts
<1>3. CASE crossed'
  BY <1>1, <1>2, <1>3 DEF Saved
<1>4. CASE ~crossed'
  <2>1. ~crossed /\ row' = row /\ components' = components
    BY <1>4
  <2>2. post.at # "none" => post'.missing = post.missing
    BY <1>2, <2>1 DEF Saved
  <2> QED
    BY <1>1, <1>2, <2>1, <2>2 DEF Saved, Deleting
<1> QED
  BY <1>3, <1>4

LEMMA SavedKept ==
  ASSUME TypeOK, RowFirst, Marked, Saved, [Next]_vars
  PROVE  Saved'
<1> USE DEF TypeOK, Reconciles
<1>1. CASE Users
  BY <1>1, SavedFrame DEF Users, Apply, Edit, Delete, Act, Written, api
<1>2. CASE Get
  <2>1. /\ post'.at = "none" /\ op.at # "posting"
        /\ op'.at \in {"idle", "finalizer", "status", "post", "zl"}
        /\ op'.at = "zl" => op'.env.phase = "deleting"
    BY <1>2 DEF Get, Saved, Idle, AfterGet, AfterFinalizer, AfterStatus,
       Environments, api
  <2> QED
    BY <1>2, <2>1 DEF Get, Saved, Deleting, ZLPushed, api
<1>3. CASE HandleFinalizer \/ UpdateStatus
  <2>1. op.at \in {"finalizer", "status"} /\ op'.at \in {"status", "post"}
    BY <1>3 DEF HandleFinalizer, UpdateStatus, Update, AfterFinalizer, AfterStatus,
       Environments, Marked
  <2> QED
    BY <1>3, <2>1 DEF HandleFinalizer, UpdateStatus, Update, Saved, ZLPushed, api
<1>4. CASE PushZL
  BY <1>4 DEF PushZL, Saved, ZLPushed, Deleting, api
<1>5. CASE PushTF
  <2>1. op.at = "tf" /\ op'.at \in {"patch", "zlstate"} /\ op'.env = op.env
    BY <1>5 DEF PushTF
  <2> QED
    BY <1>5, <2>1 DEF PushTF, Saved, ZLPushed, Deleting, api
<1>6. CASE PatchEnvironment
  <2>1. /\ op.at = "patch" /\ op'.at = "patching" /\ op'.env = op.env
        /\ patch'.dag = row.dag
    BY <1>6 DEF PatchEnvironment, Goto, StartPatch
  <2> QED
    BY <1>6, <2>1 DEF PatchEnvironment, StartPatch, Saved, ZLPushed, Deleting
<1>7. CASE PutZLState \/ GetZLState \/ (\E c \in Component : PutComponent(c))
             \/ WriteOfOperator
  <2>1. /\ op.at \in {"zlstate", "putting", "components", "component"}
        /\ op'.at \in {"zlstate", "putting", "components", "component"}
        /\ op'.env = op.env
    BY <1>7 DEF PutZLState, GetZLState, PutComponent, WriteOfOperator, Goto
  <2>2. UNCHANGED api
    BY <1>7 DEF PutZLState, GetZLState, PutComponent, WriteOfOperator
  <2> QED
    BY <2>1, <2>2 DEF Saved, ZLPushed, Deleting, api
<1>8. CASE Finish \/ Refused \/ Fault
  <2>1. op'.at = "idle" /\ op.at # "idle"
    BY <1>8 DEF Finish, Refused, IsRefused, Fault, Requeue, Idle
  <2>2. post'.at = "none"
    BY <1>8 DEF Finish, Refused, Fault, NoPost, Saved, api
  <2> QED
    BY <2>1, <2>2 DEF Saved, ZLPushed
<1>9. CASE Patching
  BY <1>9 DEF Patching, CreateEnvRecon, operator, ApiTypeOK, Patches, Saved, Deleting
<1>10. CASE ReconcileCD
  <2>1. /\ op'.env = op.env /\ patch'.at = "none"
        /\ op'.at = op.at \/ (op.at = "patching" /\ op'.at = "zlstate")
    BY <1>10 DEF ReconcileCD, NoPatch
  <2> QED
    BY <1>10, <2>1 DEF ReconcileCD, Saved, ZLPushed, Deleting
<1>11. CASE OtherHandler
  <2>1. op' = op /\ UNCHANGED <<components, post, patch>>
    BY <1>11 DEF OtherHandler, ReadRow, SaveRow, operator
  <2>2. crossed' \/ (~crossed /\ row' = row)
    BY <1>11 DEF OtherHandler, ReadRow, SaveRow
  <2> QED
    BY <2>1, <2>2 DEF Saved, Deleting
<1>12. CASE CreateWorkflow \/ (\E c \in Component : Script(c)) \/ WriteOfOther
              \/ OtherPush
  <2>1. op'.at = op.at /\ op'.env = op.env
    BY <1>12 DEF CreateWorkflow, Script, WriteOfOther, OtherPush, operator
  <2>2. UNCHANGED api
    BY <1>12 DEF CreateWorkflow, Script, WriteOfOther, OtherPush
  <2> QED
    BY <2>1, <2>2, SavedFrame DEF api
<1>13. CASE UNCHANGED vars
  BY <1>13, SavedFrame DEF vars, operator, api
<1> QED
  BY <1>1, <1>2, <1>3, <1>4, <1>5, <1>6, <1>7, <1>8, <1>9, <1>10, <1>11, <1>12,
     <1>13, PostSaved, PostingSaved, LateSaved DEF Next, Operator, Others

------------------------------------------------------------------------------
(* The zLstate.                                                            *)

\* What a request writes is what its component has been told, and a request
\* that has read before is stale.
LEMMA WriteKept ==
  ASSUME ZLStateTypeOK, StatusIsKept, NEW k \in Client, Write(k),
         \A j \in Client : Current(requests[j]),
         ~object.exists => object.status = Absent
  PROVE  /\ StatusIsKept' /\ object'.exists
         /\ object'.status = Result(requests[k])
         /\ \A j \in Client : Current(requests[j])'
<1> DEFINE r == requests[k]
<1> USE DEF ZLStateTypeOK
<1>1. r \in StateRequest /\ Current(r) /\ r.kind # "none"
  BY DEF Write
<1>2. object' = [exists |-> TRUE, status |-> Result(r)]
  BY DEF Write
<1>3. Result(r) \in Statuses
  BY <1>1 DEF Result, StateRequest, Statuses
<1>4. told' = Result(r)
  <2> HIDE DEF r
  <2>1. CASE r.stale
    BY <2>1 DEF Write, r
  <2>2. CASE ~r.stale /\ r.kind = "patch"
    <3>1. told' = [told EXCEPT ![r.component] = r.status]
      BY <2>2 DEF Write, r
    <3>2. r.read = told
      BY <1>1, <2>2 DEF Current, StatusIsKept
    <3> QED
      BY <2>2, <3>1, <3>2 DEF Result
  <2>3. CASE ~r.stale /\ r.kind # "patch"
    <3>1. told' = [c \in Component |->
                     IF told[c] = "absent" THEN Result(r)[c] ELSE told[c]]
      BY <2>3 DEF Write, r
    <3>2. ASSUME NEW c \in Component
          PROVE  told[c] = "absent" \/ told[c] = Result(r)[c]
      <4>1. CASE r.kind = "put"
        BY <1>1, <2>3, <4>1 DEF Current, StatusIsKept, Absent
      <4>2. CASE r.kind = "upsert"
        <5>1. r.read = told /\ told[r.component] = "absent"
          BY <1>1, <2>3, <4>2 DEF Current, StatusIsKept
        <5> QED
          BY <1>1, <4>2, <5>1 DEF Result, StateRequest, Statuses
      <4> QED
        BY <1>1, <2>3, <4>1, <4>2 DEF StateRequest
    <3>3. told' = [c \in Component |-> Result(r)[c]]
      BY <3>1, <3>2
    <3> QED
      BY <1>3, <3>3 DEF Statuses
  <2> QED
    BY <2>1, <2>2, <2>3
<1>5. ASSUME NEW j \in Client PROVE Current(requests[j])'
  <2>1. CASE j = k
    <3>1. requests'[j] = NoStateRequest
      BY <2>1 DEF Write
    <3> QED
      BY <3>1 DEF Current, NoStateRequest
  <2>2. CASE j # k
    <3>1. requests'[j] = [requests[j] EXCEPT !.stale = requests[j].kind # "none"]
      BY <2>2 DEF Write
    <3>2. requests'[j].kind = requests[j].kind
      BY <3>1 DEF StateRequest
    <3>3. requests'[j].stale = (requests[j].kind # "none")
      BY <3>1 DEF StateRequest
    <3> QED
      BY <3>2, <3>3 DEF Current
  <2> QED
    BY <2>1, <2>2
<1> QED
  BY <1>2, <1>4, <1>5 DEF StatusIsKept

\* A request that has just read is about the object as it is.
LEMMA ReadsKept ==
  ASSUME ZLStateTypeOK, NEW k \in Client, NEW kind, NEW c, NEW status, NEW read,
         NEW stale, Reads(k, kind, c, status, read, stale),
         \A j \in Client : Current(requests[j]),
         ~stale /\ kind = "put" => ~object.exists,
         ~stale /\ kind # "put" => read = object.status,
         ~stale /\ kind = "upsert" => object.status[c] = "absent"
  PROVE  \A j \in Client : Current(requests[j])'
<1> SUFFICES ASSUME NEW j \in Client PROVE Current(requests[j])'
  OBVIOUS
<1>0. object' = object
  BY DEF Reads
<1>1. CASE j = k
  <2>1. requests'[j] = [kind |-> kind, component |-> c, status |-> status,
                        read |-> read, stale |-> stale]
    BY <1>1 DEF Reads, ZLStateTypeOK
  <2>2. /\ requests'[j].kind = kind /\ requests'[j].component = c
        /\ requests'[j].read = read /\ requests'[j].stale = stale
    BY <2>1
  <2> QED
    BY <1>0, <2>2 DEF Current
<1>2. CASE j # k
  BY <1>0, <1>2 DEF Reads, ZLStateTypeOK, Current
<1> QED
  BY <1>1, <1>2

\* A step that leaves the state manager alone and that is not one of the steps
\* of the operator with it.
LEMMA ZLFrame ==
  ASSUME ZLKept, StatusIsKept, UNCHANGED zlstate,
         \/ op'.at \notin {"components", "component"}
         \/ op'.at = op.at /\ op'.missing = op.missing /\ op'.old = op.old
  PROVE  ZLKept' /\ StatusIsKept'
BY DEF ZLKept, StatusIsKept, Current, zlstate

LEMMA OperatorZLKept ==
  ASSUME TypeOK, ZLKept, StatusIsKept, Operator
  PROVE  ZLKept' /\ StatusIsKept'
<1> USE ComponentAssumption DEF TypeOK, Reconciles
<1>0. "operator" \in Client
  BY DEF Client
<1>1. CASE Get
  BY <1>1, ZLFrame DEF Get, Idle, AfterGet, AfterFinalizer, AfterStatus
<1>2. CASE HandleFinalizer \/ UpdateStatus
  BY <1>2, ZLFrame DEF HandleFinalizer, UpdateStatus, Update, AfterFinalizer, AfterStatus
<1>3. CASE PostEnvironment \/ Posting \/ PatchEnvironment
  BY <1>3, ZLFrame DEF PostEnvironment, Posting, PatchEnvironment, Goto
<1>4. CASE PushZL
  BY <1>4, ZLFrame DEF PushZL
<1>5. CASE PushTF
  <2>1. op'.at \in {"patch", "zlstate"} /\ UNCHANGED zlstate
    BY <1>5 DEF PushTF
  <2> QED
    BY <2>1, ZLFrame
<1>6. CASE PutZLState
  <2>1. op'.at = "putting" /\ ~object.exists
    BY <1>6 DEF PutZLState, PutState, Goto
  <2>2. \A j \in Client : Current(requests[j])'
    BY <1>0, <1>6, <2>1, ReadsKept DEF PutZLState, PutState, ZLKept
  <2>3. UNCHANGED <<object, told>>
    BY <1>6 DEF PutZLState, PutState, Reads
  <2> QED
    BY <2>1, <2>2, <2>3 DEF ZLKept, StatusIsKept
<1>7. CASE GetZLState
  <2>1. /\ object.exists /\ op'.at = "components" /\ UNCHANGED zlstate
        /\ op'.missing = {c \in op.env.spec.components : object.status[c] = "absent"}
    BY <1>7 DEF GetZLState
  <2> QED
    BY <2>1 DEF ZLKept, StatusIsKept, Current, zlstate
<1>8. CASE \E c \in Component : PutComponent(c)
  <2>1. PICK c \in Component : PutComponent(c)
    BY <1>8
  <2>2. /\ op.at = "components" /\ c \in op.missing /\ op'.at = "component"
        /\ op'.missing = op.missing \ {c} /\ op'.old = op.old
        /\ Reads("operator", "upsert", c, "not_provisioned", object.status, op.old)
    BY <2>1 DEF PutComponent, UpsertComponent
  <2>3. ~op.old => object.status[c] = "absent"
    BY <2>2 DEF ZLKept
  <2>4. \A j \in Client : Current(requests[j])'
    BY <1>0, <2>2, <2>3, ReadsKept DEF ZLKept
  <2>5. /\ UNCHANGED <<object, told>>
        /\ requests'["operator"] =
             [kind |-> "upsert", component |-> c, status |-> "not_provisioned",
              read |-> object.status, stale |-> op.old]
    BY <1>0, <2>2 DEF Reads, ZLStateTypeOK
  <2>6. /\ requests'["operator"].kind = "upsert"
        /\ requests'["operator"].component = c
        /\ requests'["operator"].stale = op.old
    BY <2>5
  <2> QED
    BY <2>2, <2>4, <2>5, <2>6 DEF ZLKept, StatusIsKept
<1>9. CASE WriteOfOperator
  <2> DEFINE r == requests["operator"]
  <2>1. Write("operator") /\ op.at \in {"putting", "component"}
    BY <1>9 DEF WriteOfOperator
  <2>2. /\ StatusIsKept' /\ object'.exists /\ object'.status = Result(r)
        /\ \A j \in Client : Current(requests[j])'
    BY <1>0, <2>1, WriteKept DEF ZLKept
  <2>3. CASE op.at = "putting"
    <3>1. op'.at = "zlstate"
      BY <1>9, <2>3 DEF WriteOfOperator, Goto
    <3> QED
      BY <2>2, <3>1 DEF ZLKept
  <2>4. CASE op.at = "component"
    <3>1. op'.at = "components" /\ op'.missing = op.missing /\ op'.old = op.old
      BY <1>9, <2>4 DEF WriteOfOperator, Goto
    <3>2. ASSUME ~op.old, NEW c \in op.missing
          PROVE  object'.status[c] = "absent"
      <4>1. /\ r.kind = "upsert" /\ ~r.stale /\ r.component # c
            /\ object.status[c] = "absent"
        BY <2>4, <3>2 DEF ZLKept
      <4>2. r.read = object.status
        BY <1>0, <4>1 DEF ZLKept, Current
      <4>3. object'.status = [object.status EXCEPT ![r.component] = r.status]
        BY <2>2, <4>1, <4>2 DEF Result
      <4>4. object.status \in Statuses
        BY DEF ZLStateTypeOK
      <4> QED
        BY <4>1, <4>3, <4>4 DEF Statuses
    <3> QED
      BY <2>2, <3>1, <3>2 DEF ZLKept
  <2> QED
    BY <2>1, <2>3, <2>4
<1>10. CASE Finish
  BY <1>10, ZLFrame DEF Finish, Idle
<1>11. CASE Refused
  <2>1. op'.at = "idle" /\ UNCHANGED zlstate
    BY <1>11 DEF Refused, Requeue, Idle, zlstate
  <2> QED
    BY <2>1, ZLFrame
<1> QED
  BY <1>1, <1>2, <1>3, <1>4, <1>5, <1>6, <1>7, <1>8, <1>9, <1>10, <1>11 DEF Operator

LEMMA ZLKeptKept ==
  ASSUME TypeOK, ZLKept, StatusIsKept, [Next]_vars
  PROVE  ZLKept' /\ StatusIsKept'
<1> USE ComponentAssumption DEF TypeOK, Reconciles
<1>1. CASE Users
  BY <1>1, ZLFrame DEF Users, Apply, Edit, Delete, Act, Written
<1>2. CASE Patching \/ CreateWorkflow \/ LatePost \/ OtherHandler \/ OtherPush
  BY <1>2, ZLFrame DEF Patching, CreateWorkflow, LatePost, OtherHandler, OtherPush,
     operator
<1>3. CASE ReconcileCD
  <2>1. /\ UNCHANGED zlstate /\ op'.missing = op.missing /\ op'.old = op.old
        /\ op'.at = op.at \/ op'.at = "zlstate"
    BY <1>3 DEF ReconcileCD
  <2> QED
    BY <2>1, ZLFrame
<1>4. CASE \E c \in Component : Script(c)
  <2>1. PICK c \in Component : Script(c)
    BY <1>4
  <2>2. PICK status : Reads(c, "patch", c, status, object.status, FALSE)
    BY <2>1 DEF Script, PatchComponent
  <2>3. c \in Client /\ c # "operator"
    BY DEF Client
  <2>4. \A j \in Client : Current(requests[j])'
    BY <2>2, <2>3, ReadsKept DEF ZLKept
  <2>5. /\ UNCHANGED <<object, told, op>>
        /\ requests'["operator"] = requests["operator"]
    BY <2>1, <2>2, <2>3 DEF Script, Reads, operator, ZLStateTypeOK
  <2> QED
    BY <2>4, <2>5 DEF ZLKept, StatusIsKept
<1>5. CASE WriteOfOther
  <2>1. PICK k \in Component \cup {"late"} : Write(k)
    BY <1>5 DEF WriteOfOther
  <2>2. k \in Client /\ k # "operator" /\ "operator" \in Client
    BY DEF Client
  <2>3. /\ StatusIsKept' /\ object'.exists
        /\ \A j \in Client : Current(requests[j])'
    BY <2>1, <2>2, WriteKept DEF ZLKept
  <2>4. /\ op'.at = op.at /\ op'.missing = op.missing
        /\ op.at \in {"components", "component"} => op'.old
    BY <1>5 DEF WriteOfOther
  <2>5. /\ requests'["operator"].kind = requests["operator"].kind
        /\ requests'["operator"].component = requests["operator"].component
    BY <2>1, <2>2 DEF Write, ZLStateTypeOK, StateRequest
  <2> QED
    BY <2>3, <2>4, <2>5 DEF ZLKept
<1>6. CASE Fault
  <2>1. op'.at = "idle" /\ UNCHANGED <<object, told>>
    BY <1>6 DEF Fault, Requeue, Idle
  <2>2. ASSUME NEW j \in Client
        PROVE  requests'[j] \in {requests[j], requests["operator"], NoStateRequest}
    BY <1>6 DEF Fault, ZLStateTypeOK
  <2>3. "operator" \in Client
    BY DEF Client
  <2>4. \A j \in Client : Current(requests[j])'
    BY <2>1, <2>2, <2>3 DEF ZLKept, Current, NoStateRequest
  <2> QED
    BY <2>1, <2>4 DEF ZLKept, StatusIsKept
<1>7. CASE UNCHANGED vars
  BY <1>7, ZLFrame DEF vars, operator
<1> QED
  BY <1>1, <1>2, <1>3, <1>4, <1>5, <1>6, <1>7, OperatorZLKept DEF Next, Others

------------------------------------------------------------------------------
(* At rest.                                                                *)

\* A step that leaves an operator at rest.
LEMMA RestFrame ==
  ASSUME FollowsTheSpec, AtRest' => AtRest, UNCHANGED <<env, zl, tf>>,
         object.exists => object'.exists,
         ~crossed' => ~crossed /\ UNCHANGED <<row, components>>
  PROVE  FollowsTheSpec'
BY DEF FollowsTheSpec, AtRest

\* What the last reconcile brought about is true of the resource.
LEMMA FinishFollows ==
  ASSUME TypeOK, Read, Marked, Pushed, Saved, ZLKept, Finish
  PROVE  FollowsTheSpec'
<1> USE DEF TypeOK, Reconciles
<1>1. CASE Deleting
  BY <1>1 DEF Finish, FollowsTheSpec, AtRest
<1>2. CASE ~Deleting
  <2>1. op.at = "components" /\ UNCHANGED <<env, queued, zl, tf, api, zlstate>>
    BY <1>2 DEF Finish
  <2> SUFFICES ASSUME ~queued PROVE FollowsTheSpec'
    BY <2>1 DEF FollowsTheSpec, AtRest
  <2>2. op.env = env /\ env.phase = "live" /\ env.finalizer
    BY <1>2, <2>1 DEF Read, Marked, Deleting, Environments
  <2>3. env.spec.teardown \/ env.status = DagOf(env.spec)
    BY <2>1, <2>2 DEF Marked
  <2>4. /\ zl.app /\ zl.tasks = env.spec.components
        /\ zl.kind = IF env.spec.teardown THEN "destroy" ELSE "deploy"
    BY <1>2, <2>1, <2>2 DEF Pushed, ZLPushed, Deleting
  <2>5. zl = [app |-> TRUE, tasks |-> env.spec.components,
              kind |-> IF env.spec.teardown THEN "destroy" ELSE "deploy"]
    <3>1. zl = [app |-> zl.app, kind |-> zl.kind, tasks |-> zl.tasks] /\ zl.app \in BOOLEAN
      BY DEF ZLs
    <3> QED
      BY <2>4, <3>1
  <2>6. \A c \in env.spec.components : tf[c] = env.spec.code
    BY <1>2, <2>1, <2>2 DEF Pushed, ZLPushed, TFPushed
  <2>7. crossed \/ (row.dag = DagOf(env.spec) /\ components = env.spec.components)
    BY <1>2, <2>1, <2>2 DEF Saved, ZLPushed
  <2>8. object.exists
    BY <2>1 DEF ZLKept
  <2> QED
    BY <2>1, <2>2, <2>3, <2>5, <2>6, <2>7, <2>8 DEF FollowsTheSpec, api, zlstate
<1> QED
  BY <1>1, <1>2

LEMMA FollowsKept ==
  ASSUME TypeOK, Reconciled, ZLKept, StatusIsKept, FollowsTheSpec, [Next]_vars
  PROVE  FollowsTheSpec'
<1> USE DEF TypeOK, Reconciles
<1>1. CASE Users
  BY <1>1 DEF Users, Apply, Edit, Delete, Act, Written, FollowsTheSpec, AtRest
<1>2. CASE Get
  <2>1. CASE env.phase = "gone"
    BY <1>2, <2>1 DEF Get, FollowsTheSpec
  <2>2. CASE env.phase # "gone"
    BY <1>2, <2>2 DEF Get, Idle, AfterGet, AfterFinalizer, AfterStatus,
       FollowsTheSpec, AtRest
  <2> QED
    BY <2>1, <2>2
<1>3. CASE HandleFinalizer \/ UpdateStatus \/ Refused \/ Fault
  BY <1>3 DEF HandleFinalizer, UpdateStatus, Update, Refused, Fault, Requeue,
     FollowsTheSpec, AtRest
<1>4. CASE PostEnvironment \/ Posting \/ PatchEnvironment
  BY <1>4 DEF PostEnvironment, Posting, PatchEnvironment, Goto, FollowsTheSpec, AtRest
<1>5. CASE PushZL
  BY <1>5 DEF PushZL, FollowsTheSpec, AtRest
<1>6. CASE PushTF
  <2>1. op'.at \in {"patch", "zlstate"}
    BY <1>6 DEF PushTF
  <2> QED
    BY <2>1 DEF FollowsTheSpec, AtRest
<1>7. CASE PutZLState \/ GetZLState \/ (\E c \in Component : PutComponent(c))
             \/ WriteOfOperator
  <2>1. op'.at # "idle"
    BY <1>7 DEF PutZLState, GetZLState, PutComponent, WriteOfOperator, Goto
  <2> QED
    BY <2>1 DEF FollowsTheSpec, AtRest
<1>8. CASE Finish
  BY <1>8, FinishFollows DEF Reconciled
<1>9. CASE Patching
  BY <1>9, RestFrame DEF Patching, CreateEnvRecon, operator, zlstate, AtRest
<1>10. CASE ReconcileCD
  BY <1>10, RestFrame DEF ReconcileCD, zlstate, AtRest
<1>11. CASE CreateWorkflow \/ OtherPush
  BY <1>11, RestFrame DEF CreateWorkflow, OtherPush, api, zlstate, AtRest
<1>12. CASE \E c \in Component : Script(c)
  BY <1>12, RestFrame DEF Script, PatchComponent, Reads, operator, api, AtRest
<1>13. CASE WriteOfOther
  <2>1. object'.exists
    BY <1>13 DEF WriteOfOther, Write
  <2> QED
    BY <1>13, <2>1, RestFrame DEF WriteOfOther, api, AtRest
<1>14. CASE LatePost
  <2>1. ~crossed' => ~crossed /\ UNCHANGED <<row, components>>
    BY <1>14 DEF LatePost, LateStep
  <2> QED
    BY <1>14, <2>1, RestFrame DEF LatePost, operator, zlstate, AtRest
<1>15. CASE OtherHandler
  <2>1. ~crossed' => ~crossed /\ UNCHANGED <<row, components>>
    BY <1>15 DEF OtherHandler, ReadRow, SaveRow
  <2> QED
    BY <1>15, <2>1, RestFrame DEF OtherHandler, operator, zlstate, AtRest
<1>16. CASE UNCHANGED vars
  BY <1>16, RestFrame DEF vars, operator, api, zlstate, AtRest
<1> QED
  BY <1>1, <1>2, <1>3, <1>4, <1>5, <1>6, <1>7, <1>8, <1>9, <1>10, <1>11, <1>12,
     <1>13, <1>14, <1>15, <1>16 DEF Next, Operator, Others

------------------------------------------------------------------------------
(* The invariant and the theorems.                                         *)

LEMMA InitInv == Init => Inv
<1> SUFFICES ASSUME Init PROVE Inv
  OBVIOUS
<1> USE DEF Init, ApiInit, ZLStateInit
<1>1. TypeOK
  BY InitType
<1>2. Guarded /\ Read /\ Marked /\ Pushed
  BY DEF Guarded, Read, Marked, Pushed, Gone, Idle, ZLPushed, TFPushed
<1>3. WillAsk
  BY DEF WillAsk
<1>4. RowFirst /\ Saved
  BY DEF RowFirst, Saved, NoPost, NoPatch, Idle, ZLPushed
<1>5. FollowsTheSpec /\ LastRunIsCurrent /\ StatusIsKept
  BY DEF FollowsTheSpec, LastRunIsCurrent, StatusIsKept, Gone, NoWorkflow, NoState
<1>6. ZLKept
  BY DEF ZLKept, Current, NoState, NoStateRequest, Idle
<1> QED
  BY <1>1, <1>2, <1>3, <1>4, <1>5, <1>6 DEF Inv, Reconciled

LEMMA NextInv == Inv /\ [Next]_vars => Inv'
<1> SUFFICES ASSUME Inv, [Next]_vars PROVE Inv'
  OBVIOUS
<1> USE DEF Inv, Reconciled
<1>1. TypeOK'
  BY NextType
<1>2. Guarded' /\ Read' /\ Marked' /\ Pushed'
  BY GuardedKept, ReadKept, MarkedKept, PushedKept
<1>3. WillAsk' /\ RowFirst' /\ Saved'
  BY WillAskKept, RowFirstKept, SavedKept
<1>4. FollowsTheSpec' /\ LastRunIsCurrent' /\ ZLKept' /\ StatusIsKept'
  BY FollowsKept, CurrentKept, ZLKeptKept
<1> QED
  BY <1>1, <1>2, <1>3, <1>4

LEMMA Invariant == Spec => []Inv
<1>1. Init => Inv
  BY InitInv
<1>2. Inv /\ [Next]_vars => Inv'
  BY NextInv
<1> QED
  BY <1>1, <1>2, PTL DEF Spec

\* When the operator has nothing left to do, both IL repositories, the status,
\* the API and the zLstate are what the specification of the environment says,
\* after any number of edits, failures, crashes and requests that go on
\* (environment_controller.go:67-185, environment.controller.ts:48-100).
THEOREM RestFollowsTheSpec == Spec => []FollowsTheSpec
<1>1. Inv => FollowsTheSpec
  BY DEF Inv
<1> QED
  BY <1>1, Invariant, PTL

\* No push is left without its PATCH but by a reconcile that ended in between
\* (environment_controller.go:290-313).
THEOREM ChangesAreAskedFor == Spec => []EveryChangeIsAskedFor
<1>1. Inv => EveryChangeIsAskedFor
  BY DEF Inv, Reconciled, WillAsk, EveryChangeIsAskedFor, AtRest
<1> QED
  BY <1>1, Invariant, PTL

\* After the PATCH the workflow is one of both IL repositories as they are
\* (environment_controller.go:290-313, environment.controller.ts:228-266).
THEOREM RunsAreCurrent == Spec => []LastRunIsCurrent
<1>1. Inv => LastRunIsCurrent
  BY DEF Inv
<1> QED
  BY <1>1, Invariant, PTL

\* Reconciles and scripts keep each other's statuses, but for requests that
\* overlap (operations.go:14-35, s3.go:90-182).
THEOREM StatusesAreKept == Spec => []StatusIsKept
<1>1. Inv => StatusIsKept
  BY DEF Inv
<1> QED
  BY <1>1, Invariant, PTL

LEMMA GoneByDeletion ==
  ASSUME Inv, Next, env.phase # "gone", env'.phase = "gone"
  PROVE  IF env.finalizer
         THEN /\ zl.kind = "destroy" /\ zl.tasks = env.spec.components
              /\ asked \/ lost
         ELSE zl.kind # "deploy"
<1> USE DEF Inv, Reconciled, TypeOK, Reconciles
<1>1. CASE Users
  BY <1>1 DEF Users, Apply, Edit, Delete, Guarded, Environments, Gone
<1>2. CASE Finish
  <2>1. Deleting /\ op.fresh /\ op.at = "components"
    BY <1>2 DEF Finish
  <2>2. op.env = env /\ env.finalizer
    BY <2>1 DEF Read, Deleting
  <2>3. zl.kind = "destroy" /\ zl.tasks = env.spec.components
    BY <2>1, <2>2 DEF Pushed, ZLPushed
  <2>4. asked \/ lost
    BY <2>1 DEF WillAsk
  <2> QED
    BY <2>2, <2>3, <2>4
<1>3. CASE HandleFinalizer \/ UpdateStatus
  <2>1. op.env.phase = "live" /\ env'.phase = op.env.phase
    BY <1>3 DEF HandleFinalizer, UpdateStatus, Update, Marked, Environments
  <2> QED
    BY <2>1
<1>4. CASE Operator /\ ~Finish /\ ~HandleFinalizer /\ ~UpdateStatus
  BY <1>4 DEF Operator, Get, PostEnvironment, Posting, PushZL, PushTF,
     PatchEnvironment, PutZLState, GetZLState, PutComponent, WriteOfOperator,
     Refused, Requeue
<1>5. CASE Patching \/ ReconcileCD \/ Others
  BY <1>5 DEF Patching, ReconcileCD, Others, CreateWorkflow, Script, WriteOfOther,
     LatePost, OtherHandler, OtherPush, Fault, Requeue, operator
<1> QED
  BY <1>1, <1>2, <1>3, <1>4, <1>5 DEF Next

\* A resource leaves the cluster only after the workflow that destroys all its
\* components is in the ZL IL (environment_controller.go:440-492).
THEOREM DeletionTearsDown == Spec => GoesTornDown
<1>1. Inv /\ [Next]_vars =>
        [env.phase # "gone" /\ env'.phase = "gone" =>
           IF env.finalizer
           THEN /\ zl.kind = "destroy" /\ zl.tasks = env.spec.components
                /\ asked \/ lost
           ELSE zl.kind # "deploy"]_vars
  BY GoneByDeletion
<1> QED
  BY <1>1, Invariant, PTL DEF Spec, GoesTornDown

LEMMA RunIsOfPosted ==
  ASSUME Inv, Next, run' # run, op.at = "patching", ~Deleting
  PROVE  \/ crossed
         \/ /\ run'.dag.components = zl.tasks
            /\ \A c \in zl.tasks : tf[c] = run'.dag.code
<1> USE DEF Inv, Reconciled, TypeOK, ApiTypeOK
<1>1. CreateEnvRecon
  <2>1. UNCHANGED api => run' = run
    BY DEF api
  <2>2. ~PostEnvironment /\ ~Posting /\ ~PatchEnvironment
    BY DEF PostEnvironment, Posting, PatchEnvironment
  <2>3. Refused \/ ReconcileCD \/ LatePost \/ OtherHandler \/ Fault => run' = run
    BY DEF Refused, Requeue, ReconcileCD, LatePost, LateStep, OtherHandler,
       ReadRow, SaveRow, Fault
  <2> QED
    BY <2>1, <2>2, <2>3, ApiUntouched DEF Patching
<1>2. patch.at # "none" /\ run'.dag = patch.dag
  BY <1>1 DEF CreateEnvRecon
<1>3. crossed \/ patch.dag = DagOf(op.env.spec)
  BY <1>2 DEF Saved
<1>4. /\ zl.tasks = op.env.spec.components
      /\ \A c \in op.env.spec.components : tf[c] = op.env.spec.code
  BY DEF Pushed, ZLPushed, TFPushed
<1> QED
  BY <1>2, <1>3, <1>4 DEF DagOf

\* The run that the operator asks for has the components and the code that it
\* has pushed (environment_controller.go:335-362,
\* environment.controller.ts:228-243).
THEOREM RunsAreOfWhatWasPushed == Spec => RunIsOfWhatWasPushed
<1>1. Inv /\ [Next]_vars =>
        [run' # run /\ op.at = "patching" /\ ~Deleting =>
           \/ crossed
           \/ /\ run'.dag.components = zl.tasks
              /\ \A c \in zl.tasks : tf[c] = run'.dag.code]_vars
  BY RunIsOfPosted
<1> QED
  BY <1>1, Invariant, PTL DEF Spec, RunIsOfWhatWasPushed
==============================================================================
