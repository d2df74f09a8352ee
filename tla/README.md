# CloudKnit in TLA+

Specifications of CloudKnit: how a push to Git becomes a reconcile of an
environment, how a reconcile becomes infrastructure, what the API, the event
service and the pages then show of it, and who may see it. Every definition is
written from the code; `PROJECT.json` maps each one to the lines it stands for.
TLC checks small instances, TLAPS proves the theorems for all of them.

## The system

```
 GitHub (config repos) --clone--> GitReconciler --status write--> Environment
                                     ^ subscribe                    | event
 kubectl / Argo CD --Environment-->  EnvironmentReconciler <--------+
                                     | push        | POST, PATCH    | zLstate, events
                                     v             v                v
                              IL repositories     API          state manager,
                                     |             |  ^         event service
                                     +--> Argo CD <+  | status, cost     | SSE
                                            |         |                  v
                                            v         |  SSE         +--------+
                     workflow of workflows --> child--+ ------ BFF --| web UI |
                                                   \-> Terraform     +--------+
```

### Components

| Component | State | Operations | Hard about it | Correct when | Module |
|---|---|---|---|---|---|
| GitReconciler (`il-operator/controller/services/gitreconciler`) | a map from URL to struct (source, hash, subscribers), in memory, without a lock | `Start` (cron, one goroutine per tick), `reconcile`, `retryableUpdate`, `Subscribe`, `UnsubscribeAll`, `Remove` | ticks overlap; the worker changes what a tick ranges over; conflicts; a restart loses the map | a push reaches every environment built from the repository; a recorded hash is one the code was generated from | `GitReconciler` |
| EnvironmentReconciler (`environment_controller.go`, `generator.go`) | the Environment object, a work queue with one worker | finalizer, `updateStatus`, clone and subscribe, generate, POST, two pushes, PATCH, zLstate | a failure between two of ten steps, and a retry that sees less to do | at rest the IL, the API and the status are what the spec says | `EnvironmentReconciler`, with `EnvironmentApi` and `ZLState` |
| Workflow generator (`codegen/workflow`) | none: a function of the spec | tasks with dependencies, `is_destroy`, `skip_component` | both directions; precedence of protection | the DAG orders makes and destroys | `Provisioning` |
| Argo templates and scripts (`helm-charts/argo-workflow-templates`, `knitter/terraform-image/scripts`) | a workflow per run, a child per component, Terraform state | audit, plan, wait, apply, report | children outlive their run and overlap; unchecked exit codes | order, truth of the reported status, protection, approval | `Provisioning` |
| API (`api/src`): environments, history, approval, errors, costs | environment with its latest row, reconcile history, components, component reconciles | POST, PATCH, `newComponentReconciliation`, `approveWorkflow`, validation rows, cost roll-up, streams | requests of several awaits; listeners that save what they read before | the latest row is answered and true; one approval, one plan; errors, outcome and cost are shown | `Provisioning`, `EnvironmentApi`, `ReconcileHistory` |
| API: users and organizations | users, organizations, the join table | registration, creation, adding and removing members | read the whole list, save the whole list | a membership is of a user and an organization that exist | `Accounts` |
| BFF (`bff/src`) | session, cookies, the ArgoCD token in memory, the lock of its renewal | login, selection of the organization, proxies | state read before an await; a lock that a failure may keep | a mapped path is passed on only under an organization its user was in; who is in the organization that is selected is not told to sign in again | `Gateway` |
| State manager (`state-manager/app/zlstate`) | one JSON object per environment in S3 | put, upsert, patch | read-modify-write without a condition | no status is lost unless requests overlap | `ZLState` |
| Event service (`event-service/internal`) | events in MySQL, a broker of SSE clients | record, list, status, notify | bounded channels, one goroutine that waits for its clients | no gaps; what was shown last is what GET answers; no client stops the others | `EventService` |
| Web UI: environment builder | two objects per node, a text, refs | drag, edit, connect, delete, blueprint | closures of an earlier render; late answers | the text is that of the drawing | `EnvironmentBuilder`, `DependencyDiagram` |
| Web UI: environment page | store of streamed objects, effects, panel, listeners | open, select, stream, fetch | stream against fetch, answers out of order, effects that do not run again | at rest the page shows what the API has | `LiveView` |
| Validators, company and team controllers, Argo CD and GitHub calls, interpolator, secrets, internal-cli, cli, the other pages, charts, docs | | | | | not modelled, see `PROJECT.json` |

Components interact through shared objects rather than messages: the
Environment object (status writes queue its reconcile), the IL repositories,
the environment's latest row in the API, the component's last workflow, the
Terraform state, the session. Most hazards are a read of one of these that is
used later. `PROJECT.json` lists 40 of them, each with its line and the properties
that would notice it going wrong. Eight have no property: seven the code does not
guard against, so they can happen (the model has most of them, and the properties
beside them exempt what they spoil), and one is the approve button, which is not
modelled. Their notes say which.

## Modules

### GitReconciler

One variable per piece of state: `head` (GitHub), `live`, `deleting`,
`finalizer`, `spec`, `status`, `gitState` (the Environment objects), `queued`
and `worker` (the controller), `state` and `heap` (the map and the structs it
points to), `job` (the cron goroutines), `built` (what the last finished
reconcile was generated from). An action is a stretch of code between two
points where another goroutine or GitHub may act: `reconcile(wr)` is `Clone`,
`Compare`, `Fetch`, `UpdateGitState` or `UpdateFails`, `Mark`; the worker's
`Reconcile` is `StartReconcile`, `EnsureFinalizer`, `UpdateStatus`,
`CloneComponent` and `SubmitToGitReconciler` per component, `FinishReconcile`,
or for a deleted object `PostDeleteHook` and `RemoveFinalizer`.

A commit is a number; a force push that brings back an old hash is left out. The
subscribers are a set; what a concurrent `range` over the slice can notice of an
`append` or a `remove` is kept as a choice (`AppendSubscriber`, `UnsubscribeAll`). A
spec in `Teardown` does not write its status, so no second reconcile follows the one
in which its repositories were subscribed to. Go's detection of concurrent map
access ends the process: that is `Crash`. A component refers to the repository it
clones and the one it subscribes to, which differ for overlays. The deferred cleanup
that is nil after a failed clone, and the nil entry that `Remove` leaves, end the
process as in the code (`CallFails`, `PostDeleteHook`) or are recovered by cron
(`TickPanics`).

### Provisioning

One environment. `il` is the spec in the IL; `infra` and `serial` are what
Terraform has made and its state's serial; `row`, `latest`, `patch` are the API's
history and the PATCH requests; `live`, `run`, `task`, `child` are the
workflows; `comp`, `audit`, `approving`, `approved` the component side of the API.
The generator is four operators (`Dependencies`, `SkipComponent`,
`DestroyFlag`, `Valid`); the workflow of workflows `TriggerAudit`,
`InitComponent`, `RunComponent`, `EndComponent`, `FailComponent`, `EndAudit`,
`FailRun`; a child `PlanStarts` to `ReportApply` and `Fail`. A PATCH is four
steps, because it awaits four times.

Argo CD, Argo Workflows and Terraform are external: a DAG that refers to a
missing task or has a circle is refused, a failed task stops the scheduling of
new ones, a locked state or a stale saved plan makes the command fail, and Argo CD
creates the environment's workflow when it is missing and leaves it alone when it
is there. An approval resumes first (`Approve`) and then saves the component as it was
read before, status and last workflow (`ApproveStatus`). That a reconcile of a
component is approved once at most is a bound of the model, not a guard of the code.
Both IL repositories change at once (`Edit`). Row 0 and run 1 with
`live = 1` stand for what was there before. The guard on `component_status` in the
trigger template reads another file than `audit.sh` writes, so it always holds and
the model has no guard there.

### EnvironmentReconciler, EnvironmentApi, ZLState

One environment from the object to the PATCH. `EnvironmentReconciler` is the
worker's `Reconcile` step by step (read of the cache, finalizer, status, POST,
push of the app, push of the IL, PATCH, zLstate, deletion); it extends
`EnvironmentApi`, the POST statement by statement with the handlers that save the
whole row beside it, and `ZLState`, the object in S3 with its concurrent
read-modify-writes. A POST or a Put that timed out for the operator goes on at
the server. Only terraform components; the app YAML is one flag; reading the
cache and copying it are one step, and so are `findByName` and the creation of a
component. The PATCH first deletes the workflow of the cluster: when there is none,
or it is gone already, the PATCH fails (`Deletable`). The switch that turns the
finalizer off is not taken.

### ReconcileHistory

The rows of one environment as several requests read them, keep them over an
await and save them whole: PATCH (`CreateEnvRecon`, `UpdateById`), the errors of
the webhook (`ProcessInvalidRecon`, `ProcessValidRecon` with its copy of the last
row, query by query), the reports of a run, the costs of the components and the
listeners that react to a changed row. A row is a record of error, status, end and
cost. `raced` holds once a request has written back what another had changed;
the next PATCH, which makes a row, clears it. `clock` orders the ends of runs; no
two runs end in the same second.

### EventService

A POST from its time stamp to the broker's channel, the goroutine of the broker,
and for each client its channel, its handler and the goroutine that waits for the
connection to close. `created_at` has whole seconds, so events may tie. `raced`
holds a family whose latest event was overtaken, or stored and not streamed: dropped,
or of a POST that failed after the insert or in an insert that committed.

### Accounts, Gateway

`Accounts` is the API's side: users, organizations and memberships, statement by
statement with a failure between two of them. `Gateway` extends it with the BFF:
the session and the cookies of a browser, requests that hold a copy of the session
over their calls, the sessions with ArgoCD (`fresh`: not expired; `tokens`: with a
token, which a login may fail to give) with the lock of their renewal, and what the
services behind the proxies answer. A 401 of ArgoCD becomes a 500 (`OnProxyRes`), one
of Argo Workflows is passed on to the page, which then signs the user in again
(web, ApiClient.tsx:26). `granted` records which memberships a user was ever given,
`told` what the API has last answered about each, by a change or by a lookup.
Paths are those that the mappings of a route rewrite: proxy.ts:51 passes any other
path on as it came, under no organization of the BFF's, and no property is about those.

### DependencyDiagram, EnvironmentBuilder

`DependencyDiagram` is what the builder promises: nodes, arrows, and a text that
has the components and arrows of the drawing. `EnvironmentBuilder` is the page
with its two objects per node, the closures of the render in which they were made,
blueprints (any tree under the root) and the late answer about modules; it
implements the diagram. `derailed` holds from an edit through a closure of before
a blueprint until the next one.

### LiveView

The environment page: the store of environments and components, which takes
whatever comes last, be it an answer or a message; the effects of
`EnvironmentComponents` with their dependencies; the panel and its lists; the
listeners; and the API that saves, streams (before it commits) and answers requests
in any order. An object is the number of times it was saved, 0 for none. The page is
one record, `ui`, with the requests that are not answered yet: an answer takes its
data when the API reads (`Read`) and is handled later.
`DagAt[e]` and `RunDagAt[e]` are the components of an environment's DAG and of its
latest reconcile, version by version. A component that the DAG drops is deleted
(`BatchDelete`) and never comes back as the same row, which the assumption on
`DagAt` says; the store keeps it, as nothing is streamed.

`late`, `behind` and `revisited` record what the code does not repair: a list or a
view that a late answer has replaced, and a page that took components of the store
which match its DAG in number only; objects whose message was lost, or overtaken by
an older answer; a page that was entered again without its effect. The properties
exempt what these name, and nothing else but two cases that the code leaves open:
a dropped component may still be shown, and the page of an environment whose runs
have no components keeps loading, because the store's own zero components are as
many as there should be and are never emitted.

### Proof modules and model-checking modules

`XProofs` extends `X` and TLAPS. `MCX` gives names to the values of the constants, the
symmetry and the constraints.

## Runs

| Run | Instance | States | Shows |
|---|---|---|---|
| `git_ticks` | 2 environments, 2 overlapping ticks, 2 commits, an edit that creates an environment, or a teardown, a deletion, a crash or a failing call | 2,152,549 | `TypeOK`; `RecordedMeansGenerated`: a hash in a status was generated from, or a reconcile is due; `CalmIsNeverStranded`: without trouble, an environment that uses a settled repository and is not torn down is up to date or about to be reconciled |
| `git_deletes` | 2 environments, 1 tick, 2 commits, 2 deletions, fair | 269,764 | `DeletionCompletes`, through the panic on the nil entry; `PushReachesEveryEnvironment` as long as nothing is deleted; `GitStateNeverMovesBack` |
| `git_removed` | a deletion | | violates `NeverStranded`: one subscriber that is not found removes the whole repository |
| `prov_runs` | 2 components in a chain, 2 overlapping runs, up or down, 2 failures, fair | 42,426 | `InOrder`, `RowIsTrue`, `StatusIsTrue`, `LatestIsAnswered` |
| `prov_protected` | 2 terraform components and an argocd one that depends on them, 3 specs that all protect one, an edit, a failure, a lost clone, an approval | 1.49 million | `TypeOK`, `ProtectedSurvives`, `OneApprovalOnePlan`; a teardown is refused here |
| `prov_preview` | 1 component, 2 runs, 1 approval | | violates `AppliedIsApproved` |
| `tenancy` | 2 users of one browser, 2 organizations, 2 requests at a time, 2 in all, 1 failure, from every state of tables, session and cookie | 885,815 | `StaysInItsOrganizations`, `MembersExist`, `AnswersHold`, `LockHasOwner`, `LoginIsNeeded`, `ReauthOnlyWithoutOrganization` |
| `web_builder` | 3 components, 2 keystrokes, 2 arrows, a blueprint | 293,833 | `KeepsDiagram` (the refinement), `NamesFollowEdits`, `OnlyArrowsMakeCycles` |
| `il_reconcile` | up to 2 components, 2 versions of the code, 3 events (edits, deletions, failures, time-outs, pushes of others, saves, reports), fair | 434,261 | `FollowsTheSpec`, `EveryChangeIsAskedFor`, `LastRunIsCurrent`, `StatusIsKept`, `RunIsOfWhatWasPushed`, `GoesTornDown`, `Settles` |
| `api_history` | 2 patchers, 2 components, 2 errors, 4 requests in any interleaving | 1,098,707 | `ErrorsAreShown`, `OutcomeIsShown`, `CostIsTheSum` |
| `event_stream` | 2 posts in 2 families, 2 clients, 2 seconds, fair | 454,598 | `NoGaps`, `ShownIsLatest`, `EveryoneIsServed` |
| `web_live` | 2 environments, 3 components, 4 events of the user, the API and the connection | 1,477,061 | `ComponentsAreShown`, `PageIsLoaded`, `RunsAreListed`, `PanelIsOfSelected`, `ViewIsOfSelected` |

### Bounds

Two environments are enough for one to be delivered to while the other changes the
subscribers; two jobs for ticks that overlap; two structs for a repository that is
removed and subscribed to again while a job holds the old struct. Two runs are what
one PATCH makes of an environment that has a workflow, and every hazard of children
that outlive their run needs two. Two requests at a time are what every race of the
API and the BFF needs: one reads, the other writes, the first saves. Three
components make a cycle that is not a pair. Two versions of the code, or three of
an object, tell the state before a change from that after it and from that of a
late answer. `MaxCommits`, `MaxEdits`, `MaxDeletes`, `MaxCrashes`, `MaxFaults`,
`MaxLost`, `MaxApprovals`, `MaxRequests`, `MaxArrows`, `MaxLoads`, `MaxCode`,
`MaxVersion`, `MaxClock` and `MaxEvents` bound what the surroundings of the system
may do, never the code.

A run uses symmetry only without liveness, over sets whose members the module does
not tell apart. Three constraints cut a run short: `OneTrouble` (one crash,
deletion, edit or failing call; beside a teardown there is one tick and an
environment that stays, and a push comes after the edit), `MayRecover` (a derailed
page is followed while a blueprint can still come) and `MayBeAskedAgain` (what has
raced is followed while a PATCH can still clear it). The last two lose nothing that
is not proved: beyond them the properties hold by their hypotheses, except
`OnlyArrowsMakeCycles`, which is a theorem for all behaviours. Deadlock is not
checked where the bounded surroundings may stop and the system is then at rest, and
the cfg says so.

By hand, outside the listed runs, TLC has also completed: `git_ticks` with two
component names, an edit and no other trouble (1.61 million states);
`il_reconcile` with `MaxEvents = 4`, safety only (8.72 million); `event_stream`
with three events of one family (2.44 million); `prov_runs` with skipped,
protected and selectively destroyed components (6.53 million); `api_history`
without its constraint, with the inductive invariant (5.52 million). The inductive
invariant of `LiveView` was checked on the states of `web_live`, and on random
behaviours with up to 16 events.

### What a run leaves out

It is part of what it shows. `CalmIsNeverStranded` is about behaviours without a
crash, deletion or failing call, because it survives none of them: see the
divergences. It and `PushReachesEveryEnvironment` are about environments that are
not to be torn down: those are stranded by a push between their clone and their
subscription, as no status write queues them again. `GitStateNeverMovesBack` is
about one tick at a time: with two, an older one may finish after a newer one.
`prov_runs` has no edit and no lost clone in between: with one, `InOrder`,
`RowIsTrue` and `StatusIsTrue` fail (below); overlap and failures alone do not break
them, because a stale plan is refused.

`il_reconcile` leaves open what the code leaves open: a PATCH that fails or is lost
after the push, also because there is no workflow to delete, is never repaired
(`lost`); a row is reverted by a handler that saves all of it, or by a POST that
timed out (`crossed`); overlapping zLstate requests undo each other (`told`). The
run of a hard delete is of the DAG posted last; a removed component keeps its code
and is never destroyed; a hard delete of an environment that was edited just before
destroys tasks without code; zLstate is never cleared.

`api_history`: the save of a row cascades to its component reconciles, which is left
out; an errors POST and a report come one at a time; two listeners of a changed row
are one (`touch`). `event_stream` leaves out the data race on the number of clients.
`web_live` leaves out failing requests, team records, two identical requests at once
and what the page of all components lists. `prov_runs` has one PATCH, and so no two
that delete and sync at once. `tenancy` leaves out the values of tokens.

### Fairness

cron starts a tick each minute and a goroutine is not stopped: weak fairness of
each job. The controller's work queue is first in, first out, so a queued
environment is not passed over for ever: strong fairness of `StartReconcile`,
weak fairness of the worker's steps. Argo CD heals and Argo Workflows schedules
without end, and a PATCH that has begun is served: weak fairness of these. In
`il_reconcile` the operator requeues what failed, and a PATCH goes on at the server.
In `event_stream` the broker and the goroutines of a client go on, and a client
that is written to reads or leaves: one that does neither stops the stream of all,
which the fairness excludes and the hazards list. No user has to push, edit,
delete, approve or send a PATCH. `Gateway`, `ReconcileHistory`,
`EnvironmentBuilder` and `LiveView` state safety only, and no fairness.

## Proofs

Each theorem holds for every value of the constants that the `ASSUME`s of its
module admit: bounds that are numbers, constants of the right kind, `Patch` finite
where requests are counted, `Nil` and `Absent` different from addresses. TLC evaluates
these on every run. Where a theorem has a further hypothesis it is stated in the
theorem, and TLC refutes the statement without it.

| Theorem | Statement | Argument |
|---|---|---|
| `GitReconcilerProofs!TypeCorrect` | `[](TypeOK /\ Holds)` | a goroutine past `Clone` holds a struct, one in `update` an environment, a worker past `StartReconcile` an environment and in `submit` a component. Without `Holds`, `heap[job[j].wr]` has no type |
| `GitReconcilerProofs!RecordedGenerated` | `[]RecordedMeansGenerated` | what a job holds (`JobsBehind`) and what a status records (`StateBehind`) is never ahead of the repository; an environment that is neither queued nor with the worker was generated from at least what its status records (`Generated`), because every status write queues it and what the worker clones from then on is newer |
| `GitReconcilerProofs!NobodyIsStranded` | `[]CalmIsNeverStranded`, if no component clones another repository than it subscribes to | `CalmInv`: while nothing is deleted and nothing fails, no struct is dropped (`NothingGoes`, `MapKept`), code is never ahead of the repository (`CodeBehind`), whoever has a status is subscribed or about to be (`StatusSubscribed`), an environment with older code than a hash in the map is still to be delivered to by a job (`Delivering`), and when a job marks a hash everyone is covered (`Marked`): up to date, pending, or on the worker's way to a clone |
| `GitReconcilerProofs!RecordsMoveOn` | `GitStateNeverMovesBack`, if ticks do not overlap (`OneTick`) | no record is ahead of the commit that the tick has cloned of its repository (`JobsAhead`): it was as new as all records then (`StateBehind`), and only the tick itself writes records |
| `ProvisioningProofs!TypeCorrect` | `[]TypeOK` | inductive as it stands |
| `ProvisioningProofs!ProtectionHolds` | `ProtectedSurvives` | a child exists only for a task that is not skipped (`ChildHasRun`), so a saved plan of a component that all specs protect is never a destroy (`PlansSpare`) |
| `ProvisioningProofs!ApprovalsCounted` | `[]OneApprovalOnePlan` | by counting: a step that lets a plan go adds one run to `LetGo` and one reconcile to `Approvals`; other steps of a child keep or shrink `LetGo` |
| `ProvisioningProofs!RowsTellTheTruth` | `[]RowIsTrue`, if `Steady`: the spec is not edited and no clone is lost | infrastructure that has come to its target stays there: a plan saved before is stale, because the apply that made it so has moved the serial on, and a plan made since has no changes (`PlansMeet`). A task has then ended only where the target is reached for good (`TasksMeet`), and the audit reports after all tasks |
| `ProvisioningProofs!StatusesTellTheTruth` | `[]StatusIsTrue`, if `Steady` | a component that is about to be destroyed is no longer shown as provisioned when its child begins to plan, whichever of the overlapping runs that child is of (`StatusMeets`) |
| `ProvisioningProofs!MadeInOrder` | `InOrder`, if `Steady` and `Whole`: no spec skips a component or destroys one without a teardown | a task begins only when all it depends on is on target (`OrderMeets`), and by `PlansMeet` it is still there when the child applies |
| `GatewayProofs!GatewayTypeCorrect` | `[]GatewayTypeOK` | with what the requests hold over their calls |
| `GatewayProofs!RequestsStayInTheirOrganizations`, `MembershipsExist`, `LockAlwaysHasOwner`, `LoginOnlyWhenNeeded`, `AnswersAlwaysHold`, `ReauthOnlyWhenNotMember` | the invariants of `tenancy` and its action property | `granted` only grows, and every copy of a membership, in the session, in a request between two calls or in a list about to be saved, is of one that was granted (`SessionsKnown`, `RequestsKnown`, `CallsKnown`). A 401 comes from a lookup of the organization or from a service: who was told to be in it is still a member (`AnswersHold`), so the lookup finds it, and ArgoCD's own refusal has become a 500 |
| `EnvironmentReconcilerProofs!TypeCorrect` | `[]TypeOK` | with the places of the worker |
| `EnvironmentReconcilerProofs!RestFollowsTheSpec`, `ChangesAreAskedFor`, `RunsAreCurrent`, `StatusesAreKept` | the invariants of `il_reconcile` | one strengthening, `Reconciled`: what each place of the reconcile has already made true (`Read`, `Marked`, `Pushed`, `RowFirst`, `Saved`), and that whoever has pushed and not yet PATCHed will ask (`WillAsk`) |
| `EnvironmentReconcilerProofs!DeletionTearsDown`, `RunsAreOfWhatWasPushed` | its action properties | from the same invariant, action by action |
| `ReconcileHistoryProofs!TypeCorrect` | `[]TypeOK` | every id kept over an await is one of a row, and a POST that inserts has left room for its row (`Ranges`) |
| `ReconcileHistoryProofs!ErrorsAlwaysShown` | `[]ErrorsAreShown` | a row is known to its own request only until it becomes the latest (`PatchesAreFresh`, `NoticeIsFresh`), and the errors of a row never change (`ErrorsAreKept`) |
| `ReconcileHistoryProofs!OutcomeAlwaysShown` | `[]OutcomeIsShown` | the end that a report writes is later than that of all other rows (`EndsAreOver`, `ReportIsLatest`); so the row that a fix finds by its end is the one with the outcome, before and after a fix has copied it (`OutcomeHolds`) |
| `ReconcileHistoryProofs!CostAlwaysTheSum` | `[]CostIsTheSum` | the cost is the sum, or a listener holds it or has still to read (`CostHolds`) |
| `EventServiceProofs!TypeCorrect` | `[]TypeOK` | with at most one event in each channel |
| `EventServiceProofs!StreamsHaveNoGaps` | `[]NoGaps` | what a client has got, what its handler writes, what its channel holds and what the broker has for it are together what was broadcast since it was registered. Inductive once the broker sends to registered clients only, to each one once (`Ranges`), and a client not yet registered holds nothing (`Linked`) |
| `EventServiceProofs!ShownAlwaysLatest` | `[]ShownIsLatest` | what was stored was given to Notify, or is about to be (`Stored`); the last event of a family in the broker's channel, or else broadcast, is the latest one given to Notify unless the family has raced (`Answered`); and by `NoGaps` the last that a client got is the last that was broadcast |
| `EnvironmentBuilderProofs!BuilderTypeCorrect`, `NamesAreCurrent`, `CyclesAreDrawn` | `[]BuilderTypeOK`, `[]NamesFollowEdits`, `OnlyArrowsMakeCycles` | the two objects of a node and the closures that hold them (`Made`), and, unless derailed, one edge for each arrow (`Straight`) |
| `EnvironmentBuilderProofs!PageImplementsDiagram` | `Spec => KeepsDiagram`: the page implements `DependencyDiagram` | initial states map to initial states; each handler maps to a step of the diagram or to a stutter (`QuietStep`), the text by `TextIs`, its promise by `PromiseKept` |

| `LiveViewProofs!TypeCorrect` | `[]TypeOK` | with the effects that are set up (`PageOK`: a component that is shown is in the store and of the environment that is set up) and the selected component's workflow, which is the run that is shown (`SelectionOK`) |
| `LiveViewProofs!ComponentsAreShownHolds`, `PageIsLoadedHolds`, `RunsAreListedHolds`, `PanelIsOfSelectedHolds`, `ViewIsOfSelectedHolds` | the invariants of `web_live` | `Fine`: a version that the page or its store holds of an object is what was saved, or a message of the object is still to come, or it is in `behind`. The last message of an object under way is fine when it is delivered (`WireOK`), what an answer holds is fine or becomes overtaken when it is handled (`OvertakenKeeps`), and every other step keeps what is fine (`Keeps`). What the page does not hold yet is pending (`Shows`, `Lists`, `Panel`, `Views`), and where it takes the store's components instead, one that is missing there was dropped by a later DAG (`Gone`), as nothing that is held is of a version that never was (`Known`) |

The inductive invariants were checked with TLC before they were proved. They are
not invariants of the runs: each is stronger than the properties a reader cares
for, and the proof is the better check of it.

### Only model-checked

Liveness (fairness and ENABLED are out of the prover's reach):
`DeletionCompletes`, `PushReachesEveryEnvironment`, `LatestIsAnswered`,
`Settles`, `EveryoneIsServed`. Every invariant and every action property of a passing
run is proved, some under the hypotheses in the table. Type invariants that are
proved need no run. `NeverStranded` itself is violated (`git_removed`);
`CalmIsNeverStranded` is what holds. What a recursive definition computes for every
input could not be proved; no module has one.

## Where the code and its documents part

With a run:

- `git_removed`: `reconcile` removes the repository of a subscriber that is not
  found (reconciler.go:261); the others are not notified any more, against
  docs/policies/manual.md:3.
- `prov_preview`: an approval resumes the component's last workflow
  (reconciliation.controller.ts:295), which may not be the one that was looked at,
  against README.md:124.

Met while modelling, reproduced with TLC by changing one constant or hypothesis:

- `NeverStranded` with `MaxCrashes = 1`: after a restart the worker clones
  before it subscribes (codegen/terraform/generator.go:38 and :60), and a push in
  between is delivered to the subscribers there are and then marked.
- `NeverStranded` with `MaxFaults = 1`: a failing Get passes over the subscriber and
  the repository is marked (reconciler.go:265, :298).
- `NeverStranded` with `Repo = {r1, r2}`, `Ref <- OverlayRefs`: the overlay's
  repository is cloned but the module's is subscribed to (overlay.go:32, :84).
- `InOrder`, `RowIsTrue` and `StatusIsTrue` with `MaxEdits = 1` in `prov_runs`: a
  teardown is pushed while a child of the run before still has to apply; the child
  has no owner (workflow-trigger-template.yaml:156) and makes its component after
  the teardown has passed it.
- The same three with `MaxLost = 1`: a failed clone of the IL leaves an empty
  directory, whose destroy plan has no changes (run_terraform.sh:65).
- `InOrder` with specs that skip a component, such as two that protect `b`, one of
  them a teardown: the task of `b` ends at once and what `b` depends on is destroyed
  under it (workflow/generator.go:51). A selective destroy keeps the order of making.
- `LatestIsAnswered` with the constants of `prov_protected` and automatic approval:
  only terraform components get a task but all are depended on
  (workflow/generator.go:35), the DAG is refused, and the row stays initializing.

Read from the code, and what the models have instead of them:

- API history: a new row starts with cost 0 and an unchanged component cost emits
  nothing, so after a second reconcile the cost stays 0 (docs/policies/cost_estimates.md:11);
  `CostIsTheSum` asks for a change first. The cost event is emitted before
  the COMMIT (`raced`). A run that ends while the validation row is the latest
  leaves its errors in a row that is then "provisioned", and the fixed spec
  returns early (errors.service.ts:15-18); the operator's own updates post "valid"
  and erase errors that are shown.
- Costs of teams: inserting a row emits no cost event, so a team's total is stale
  (team.service.ts:105-117).
- Event service: for an event of a team the status is nil, and the request panics
  after the event is stored (events.go:112). The loop of a client's handler never
  ends.
- BFF: a rejected promise ends the process on a failing lookup or a registration
  without an answer; a null ArgoCD token is cached for three hours (proxy.ts:381);
  the proxy of `/reconciliation` keeps the e-mail of its first user
  (proxy.ts:435-438); the audit route is behind `router.all("*")`.
- Builder: a cycle whose two nodes are deleted leaves a self dependency, and
  deleting that node throws in `setEdge`; a deleted edge leaves its component
  listed; nodes without arrows are not in the text.
- Environment page: from an environment to the page of all and back, `resetRefs`
  runs but the effect on `environment?.id` does not, and the page stays loading
  until a component's event (EnvironmentComponents.tsx:44-47); on the page of all,
  an event of the former environment replaces the whole list; the card passes its
  name where the id is compared, so cards never select; removed components stay;
  a reconnect of the stream fetches nothing; late answers replace lists and leak
  listeners. The approve button keeps the list of an earlier render
  (ConfigWorkflowView.tsx:119-137), and this one is not modelled.

## Not modelled, and why

Hash reuse after a force push; the text of what is generated; calls to GitHub, AWS
and Argo CD beyond their outcomes; the validators, which are checks without state;
the company and team controllers, a create-or-update each; the totals of teams; the
Okta variant of the BFF, `patchOrganization` and the setup of a company; the status of
teams and the event lists of the event service; cli, internal-cli, charts, docs and
the other pages. The components of `PROJECT.json` say it one by one.

## Plan

1. A statement of `RowIsTrue` and `InOrder` that names the spec of the row's own run,
   so that an edit between two runs that do not overlap is within the hypotheses.
2. An abstract specification `Delivery` (a pushed change is asked for, and then
   provisioned or superseded) that `GitReconciler` and `EnvironmentReconciler`
   implement, and its step simulation.
3. The validators as operators: a spec they admit has a DAG that the generator
   keeps without circles.
