--------------------------- MODULE GitReconciler ---------------------------
(***************************************************************************)
(* The part of the IL operator that turns a push to a configuration        *)
(* repository into a reconcile of every environment that is built from it: *)
(*                                                                         *)
(*  - the GitReconciler (controller/services/gitreconciler): a map from    *)
(*    repository URL to a WatchedRepository, walked once a minute by a cron *)
(*    job, with no lock around it;                                         *)
(*  - the Environment objects in Kubernetes, whose status.gitState the job *)
(*    writes and whose every write queues a reconcile;                     *)
(*  - the single worker of the EnvironmentReconciler, which clones the     *)
(*    repositories an environment refers to and only then subscribes it.   *)
(*                                                                         *)
(* A commit is a number: a repository's history only grows, so a larger    *)
(* number is a later commit and 0 is the empty hash.                       *)
(***************************************************************************)
EXTENDS Naturals, FiniteSets

CONSTANTS
  Repo,         \* configuration repositories (URLs)
  Env,          \* names of Environment objects
  Ref,          \* components by what they refer to: the repository they clone
                \* and the one they subscribe the environment to
  Manifest,     \* the sets of components a user may give an environment
  Teardown,     \* those of specs with teardown: true
  Ptr,          \* addresses of WatchedRepository structs
  Job,          \* goroutines of the cron job; two of them are two ticks that
                \* overlap because the first takes more than a minute
  Nil,          \* the nil pointer
  Absent,       \* a URL that is not a key of the map
  FinalizerEnabled,  \* KubernetesDisableEnvironmentFinalizer # "true"
  MaxCommits,   \* bound on the commits of one repository
  MaxEdits,     \* bound on user edits of Environment objects
  MaxDeletes,   \* bound on user deletes of Environment objects
  MaxCrashes,   \* bound on operator crashes that the model injects
  MaxFaults     \* bound on transient failures of GitHub or Kubernetes calls

ASSUME RefAssumption ==
  /\ Repo # {}
  /\ \A c \in Ref : c.clone \in Repo /\ c.watch \in Repo
  /\ Manifest \subseteq (SUBSET Ref) \ {{}}
  /\ Teardown \subseteq Manifest
ASSUME PtrAssumption == Nil \notin Ptr /\ Absent \notin Ptr /\ Nil # Absent
ASSUME NilAssumption == Nil \notin Env /\ Nil \notin Ref
ASSUME BoundAssumption ==
  /\ MaxCommits \in Nat \ {0}
  /\ MaxEdits \in Nat
  /\ MaxDeletes \in Nat
  /\ MaxCrashes \in Nat
  /\ MaxFaults \in Nat
  /\ FinalizerEnabled \in BOOLEAN

VARIABLES
  head,       \* head[r]: the newest commit of r on GitHub
  live,       \* the Environment objects that exist
  deleting,   \* those with a deletionTimestamp
  finalizer,  \* those that carry the operator's finalizer
  spec,       \* spec[e]: the references of e's components
  status,     \* status[e]: the references recorded in status.components
  gitState,   \* gitState[e][r]: status.gitState[r].headCommitHash
  queued,     \* the environments in the controller's work queue
  state,      \* GitReconciler.state
  heap,       \* the WatchedRepository structs
  job,        \* per cron goroutine: where it is in reconcile(wr)
  worker,     \* the EnvironmentReconciler's worker
  built,      \* built[e][c]: the commit the last finished reconcile cloned
  edits, deletes, crashes, faults  \* what is used up of the four bounds

objects == <<live, deleting, finalizer, spec, status, gitState>>
budget  == <<edits, deletes, crashes, faults>>
vars == <<head, objects, queued, state, heap, job, worker, built, budget>>

Commit == 0..MaxCommits

-----------------------------------------------------------------------------
(* Local state of the two kinds of goroutine. *)

JobState ==
  [ pc     : {"idle", "walk", "compare", "deliver", "update"},
    repos  : SUBSET (Ptr \cup {Nil}), \* rest of the slice Repositories() made
    wr     : Ptr \cup {Nil},
    latest : Commit,                  \* latestHeadCommitHash
    subs   : SUBSET Env,              \* rest of the range over wr.Subscribers
    sub    : Env \cup {Nil},          \* the environment fetched for update
    fresh  : BOOLEAN,                 \* its resourceVersion is still current
    shrunk : BOOLEAN ]                \* remove() shortened the ranged slice

WorkerState ==
  [ pc    : {"idle", "finalizer", "status", "clone", "submit",
             "unsubscribe", "unfinalize"},
    env   : Env \cup {Nil},
    spec  : SUBSET Ref,
    left  : SUBSET Ref,
    cur   : Ref \cup {Nil},
    got   : [Ref -> Commit],
    fresh : BOOLEAN ]

WatchedRepository ==
  [ source : Repo, hash : Commit, subs : SUBSET Env ]

EmptyStruct ==
  [ source |-> CHOOSE r \in Repo : TRUE, hash |-> 0, subs |-> {} ]

IdleJob ==
  [ pc |-> "idle", repos |-> {}, wr |-> Nil, latest |-> 0, subs |-> {},
    sub |-> Nil, fresh |-> FALSE, shrunk |-> FALSE ]

IdleWorker ==
  [ pc |-> "idle", env |-> Nil, spec |-> {}, left |-> {}, cur |-> Nil,
    got |-> [c \in Ref |-> 0], fresh |-> FALSE ]

TypeOK ==
  /\ head \in [Repo -> Commit]
  /\ live \subseteq Env /\ deleting \subseteq Env /\ finalizer \subseteq Env
  /\ spec \in [Env -> SUBSET Ref] /\ status \in [Env -> SUBSET Ref]
  /\ gitState \in [Env -> [Repo -> Commit]]
  /\ queued \subseteq Env
  /\ state \in [Repo -> Ptr \cup {Nil, Absent}]
  /\ heap \in [Ptr -> WatchedRepository]
  /\ job \in [Job -> JobState]
  /\ worker \in WorkerState
  /\ built \in [Env -> [Ref -> Commit]]
  /\ edits \in 0..MaxEdits /\ deletes \in 0..MaxDeletes
  /\ crashes \in 0..MaxCrashes /\ faults \in 0..MaxFaults

(* A struct is garbage once neither the map nor a goroutine holds it. *)
Watched == {state[r] : r \in Repo} \cap Ptr
Held    == Watched \cup (UNION {job[j].repos \cup {job[j].wr} : j \in Job})
Free    == Ptr \ Held

(* A write to e by another party makes a copy of e in memory out of date,  *)
(* so that the next Update with that copy is an optimistic lock conflict.  *)
JobsAfterWrite(e) ==
  [j \in Job |-> IF job[j].sub = e THEN [job[j] EXCEPT !.fresh = FALSE]
                                   ELSE job[j]]
WorkerAfterWrite(e) ==
  IF worker.env = e THEN [worker EXCEPT !.fresh = FALSE] ELSE worker

Init ==
  /\ head = [r \in Repo |-> 1]
  /\ live \in SUBSET Env
  /\ deleting = {} /\ finalizer = {}
  /\ \E m \in [Env -> Manifest] :
       spec = [e \in Env |-> IF e \in live THEN m[e] ELSE {}]
  /\ status = [e \in Env |-> {}]
  /\ gitState = [e \in Env |-> [r \in Repo |-> 0]]
  /\ queued = live
  /\ state = [r \in Repo |-> Absent]
  /\ heap = [p \in Ptr |-> EmptyStruct]
  /\ job = [j \in Job |-> IdleJob]
  /\ worker = IdleWorker
  /\ built = [e \in Env |-> [c \in Ref |-> 0]]
  /\ edits = 0 /\ deletes = 0 /\ crashes = 0 /\ faults = 0

-----------------------------------------------------------------------------
(* GitHub and the users. *)

(* A push to a configuration repository. *)
Push(r) ==
  /\ head[r] < MaxCommits
  /\ head' = [head EXCEPT ![r] = @ + 1]
  /\ UNCHANGED <<objects, queued, state, heap, job, worker, built, budget>>

(* Any write of an Environment object makes an event that queues it. *)
Written(e) ==
  /\ queued' = queued \cup {e}
  /\ job' = JobsAfterWrite(e)

(* A user applies e with the components S: it is created or its spec edited. *)
Apply(e, S) ==
  /\ edits < MaxEdits /\ edits' = edits + 1
  /\ e \notin deleting /\ spec[e] # S
  /\ live' = live \cup {e}
  /\ spec' = [spec EXCEPT ![e] = S]
  /\ Written(e)
  /\ worker' = WorkerAfterWrite(e)
  /\ UNCHANGED <<head, deleting, finalizer, status, gitState, state, heap,
                 built, deletes, crashes, faults>>

(* The object leaves the API server, with its status. *)
Vanish(e) ==
  /\ live' = live \ {e}
  /\ deleting' = deleting \ {e}
  /\ finalizer' = finalizer \ {e}
  /\ spec' = [spec EXCEPT ![e] = {}]
  /\ status' = [status EXCEPT ![e] = {}]
  /\ gitState' = [gitState EXCEPT ![e] = [r \in Repo |-> 0]]
  /\ built' = [built EXCEPT ![e] = [c \in Ref |-> 0]]

(* A user deletes e: Kubernetes waits for the finalizer if e carries it. *)
Delete(e) ==
  /\ deletes < MaxDeletes /\ deletes' = deletes + 1
  /\ e \in live \ deleting
  /\ IF e \in finalizer
       THEN /\ deleting' = deleting \cup {e}
            /\ UNCHANGED <<live, finalizer, spec, status, gitState, built>>
       ELSE Vanish(e)
  /\ Written(e)
  /\ worker' = WorkerAfterWrite(e)
  /\ UNCHANGED <<head, state, heap, edits, crashes, faults>>

-----------------------------------------------------------------------------
(* The cron job: Start, Repositories and reconcile. *)

JobGoes(j, fields) == job' = [job EXCEPT ![j] = fields]

(* A tick, or a second one while the first still runs: Repositories()      *)
(* copies the values of the map into a slice.                              *)
Tick(j) ==
  /\ job[j].pc = "idle"
  /\ \E r \in Repo : state[r] # Absent
  /\ JobGoes(j, [IdleJob EXCEPT !.pc = "walk",
                                !.repos = {state[r] : r \in Repo} \ {Absent}])
  /\ UNCHANGED <<head, objects, queued, state, heap, worker, built, budget>>

(* The next repository of the slice: reconcile(wr) clones wr.Source.       *)
Clone(j) ==
  /\ job[j].pc = "walk"
  /\ \E p \in job[j].repos \ {Nil} :
       JobGoes(j, [job[j] EXCEPT !.pc = "compare", !.repos = @ \ {p},
                                 !.wr = p, !.latest = head[heap[p].source]])
  /\ UNCHANGED <<head, objects, queued, state, heap, worker, built, budget>>

(* The clone, or getting a token for it, fails: logged, next repository.   *)
CloneFails(j) ==
  /\ job[j].pc = "walk"
  /\ faults < MaxFaults /\ faults' = faults + 1
  /\ \E p \in job[j].repos \ {Nil} :
       JobGoes(j, [job[j] EXCEPT !.repos = @ \ {p}])
  /\ UNCHANGED <<head, objects, queued, state, heap, worker, built, edits,
                 deletes, crashes>>

(* A nil entry, left by Remove, is dereferenced: cron recovers the panic   *)
(* and the rest of the tick is lost.                                       *)
TickPanics(j) ==
  /\ job[j].pc = "walk" /\ Nil \in job[j].repos
  /\ JobGoes(j, IdleJob)
  /\ UNCHANGED <<head, objects, queued, state, heap, worker, built, budget>>

TickEnds(j) ==
  /\ job[j].pc = "walk" /\ job[j].repos = {}
  /\ JobGoes(j, IdleJob)
  /\ UNCHANGED <<head, objects, queued, state, heap, worker, built, budget>>

NextRepository(j) ==
  [IdleJob EXCEPT !.pc = "walk", !.repos = job[j].repos]

\* Mutant: the repository is marked before its subscribers are updated.
CompareMarksFirst(j) ==
  /\ job[j].pc = "compare"
  /\ heap' = [heap EXCEPT ![job[j].wr].hash = job[j].latest]
  /\ JobGoes(j, IF heap[job[j].wr].hash = job[j].latest
                  THEN NextRepository(j)
                  ELSE [job[j] EXCEPT !.pc = "deliver",
                                      !.subs = heap[job[j].wr].subs])
  /\ UNCHANGED <<head, objects, queued, state, worker, built, budget>>

(* wr.HeadCommitHash == latestHeadCommitHash: nothing to do. Otherwise the *)
(* range expression wr.Subscribers is evaluated.                           *)
Compare(j) ==
  /\ job[j].pc = "compare"
  /\ JobGoes(j, IF heap[job[j].wr].hash = job[j].latest
                  THEN NextRepository(j)
                  ELSE [job[j] EXCEPT !.pc = "deliver",
                                      !.subs = heap[job[j].wr].subs])
  /\ UNCHANGED <<head, objects, queued, state, heap, worker, built, budget>>

(* The loop over the subscribers is through: the repository is marked.     *)
Mark(j) ==
  /\ job[j].pc = "deliver" /\ job[j].subs = {}
  /\ heap' = [heap EXCEPT ![job[j].wr].hash = job[j].latest]
  /\ JobGoes(j, NextRepository(j))
  /\ UNCHANGED <<head, objects, queued, state, worker, built, budget>>

Delivered(j, e) == [job[j] EXCEPT !.subs = @ \ {e}]

(* Remove: the entry becomes nil, it is not deleted from the map. *)
Remove(r) == state' = [state EXCEPT ![r] = Nil]

(* The subscriber is gone: the whole repository is removed. *)
FetchNotFound(j) ==
  /\ job[j].pc = "deliver"
  /\ \E e \in job[j].subs \ live :
       /\ Remove(heap[job[j].wr].source)
       /\ JobGoes(j, Delivered(j, e))
  /\ UNCHANGED <<head, objects, queued, heap, worker, built, budget>>

(* Any other error of the Get is logged and the subscriber passed over. *)
FetchFails(j) ==
  /\ job[j].pc = "deliver"
  /\ faults < MaxFaults /\ faults' = faults + 1
  /\ \E e \in job[j].subs : JobGoes(j, Delivered(j, e))
  /\ UNCHANGED <<head, objects, queued, state, heap, worker, built, edits,
                 deletes, crashes>>

\* Mutant: a subscriber whose status has any hash of the repository is skipped.
FetchSkipsKnown(j) ==
  /\ job[j].pc = "deliver"
  /\ \E e \in job[j].subs \cap live :
       JobGoes(j, IF gitState[e][heap[job[j].wr].source] # 0
                    THEN Delivered(j, e)
                    ELSE [Delivered(j, e) EXCEPT !.pc = "update", !.sub = e,
                                                 !.fresh = TRUE])
  /\ UNCHANGED <<head, objects, queued, state, heap, worker, built, budget>>

(* The subscriber is fetched: skipped when its status already has the hash, *)
(* otherwise the copy in memory gets it.                                   *)
Fetch(j) ==
  /\ job[j].pc = "deliver"
  /\ \E e \in job[j].subs \cap live :
       JobGoes(j, IF gitState[e][heap[job[j].wr].source] = job[j].latest
                    THEN Delivered(j, e)
                    ELSE [Delivered(j, e) EXCEPT !.pc = "update", !.sub = e,
                                                 !.fresh = TRUE])
  /\ UNCHANGED <<head, objects, queued, state, heap, worker, built, budget>>

\* Mutant: the write takes the hash of the struct, not of the clone.
UpdateWritesOldHash(j) ==
  LET e == job[j].sub
      r == heap[job[j].wr].source
  IN /\ job[j].pc = "update" /\ job[j].fresh
     /\ gitState' = [gitState EXCEPT ![e][r] = heap[job[j].wr].hash]
     /\ queued' = queued \cup {e}
     /\ job' = [JobsAfterWrite(e) EXCEPT
                  ![j] = [job[j] EXCEPT !.pc = "deliver", !.sub = Nil,
                                        !.fresh = FALSE]]
     /\ worker' = WorkerAfterWrite(e)
     /\ UNCHANGED <<head, live, deleting, finalizer, spec, status, state, heap,
                    built, budget>>

(* retryableUpdate succeeds: the status write queues the environment. *)
UpdateGitState(j) ==
  LET e == job[j].sub
      r == heap[job[j].wr].source
  IN /\ job[j].pc = "update" /\ job[j].fresh
     /\ gitState' = [gitState EXCEPT ![e][r] = job[j].latest]
     /\ queued' = queued \cup {e}
     /\ job' = [JobsAfterWrite(e) EXCEPT
                  ![j] = [job[j] EXCEPT !.pc = "deliver", !.sub = Nil,
                                        !.fresh = FALSE]]
     /\ worker' = WorkerAfterWrite(e)
     /\ UNCHANGED <<head, live, deleting, finalizer, spec, status, state, heap,
                    built, budget>>

(* Otherwise reconcile returns the error before it marks the repository: a *)
(* conflict, because the three attempts write the same copy, or a failure  *)
(* that is not retried.                                                    *)
UpdateFails(j) ==
  /\ job[j].pc = "update"
  /\ IF job[j].fresh
       THEN faults < MaxFaults /\ faults' = faults + 1
       ELSE UNCHANGED faults
  /\ JobGoes(j, NextRepository(j))
  /\ UNCHANGED <<head, objects, queued, state, heap, worker, built, edits,
                 deletes, crashes>>

-----------------------------------------------------------------------------
(* The map: Subscribe and UnsubscribeAll, called by the worker while the   *)
(* cron goroutines range over the same slices. The subscribers are a set;  *)
(* of the slice behind them the model keeps what a concurrent range can    *)
(* observe.                                                                *)

Ranging(j, p) == job[j].wr = p /\ job[j].pc \in {"deliver", "update"}

(* An append after remove() reuses the last slot of the array: a loop that *)
(* ranges over the longer slice may visit e in place of another subscriber. *)
AppendSubscriber(p, e) ==
  /\ heap' = [heap EXCEPT ![p].subs = @ \cup {e}]
  /\ \E lost \in Env \cup {Nil} :
       job' = [j \in Job |->
                 IF e \notin heap[p].subs /\ Ranging(j, p) /\ job[j].shrunk
                      /\ lost \in job[j].subs
                   THEN [job[j] EXCEPT !.subs = (@ \ {lost}) \cup {e}]
                   ELSE job[j]]

Subscribe(r, e) ==
  \/ /\ state[r] \in Ptr
     /\ AppendSubscriber(state[r], e)
     /\ UNCHANGED state
  \/ /\ state[r] \notin Ptr
     /\ \E p \in Free :
          /\ state' = [state EXCEPT ![r] = p]
          /\ heap' = [heap EXCEPT ![p] =
                        [source |-> r, hash |-> 0, subs |-> {e}]]
     /\ UNCHANGED job

(* remove() overwrites the slot of e with the last subscriber and shortens *)
(* the slice: a loop that has not reached the slot does not visit e, one   *)
(* that ranges over an older array still does.                             *)
UnsubscribeAll(e) ==
  /\ heap' = [p \in Ptr |->
                IF p \in Watched THEN [heap[p] EXCEPT !.subs = @ \ {e}]
                                 ELSE heap[p]]
  /\ \E visited \in BOOLEAN :
       job' = [j \in Job |->
                 IF job[j].wr \in Watched /\ Ranging(j, job[j].wr)
                      /\ e \in heap[job[j].wr].subs
                   THEN [job[j] EXCEPT !.shrunk = TRUE,
                           !.subs = IF visited THEN @ ELSE @ \ {e}]
                   ELSE job[j]]

-----------------------------------------------------------------------------
(* The worker: Reconcile(e). *)

WorkerGoes(fields) == worker' = fields

StartReconcile(e) ==
  /\ worker.pc = "idle" /\ e \in queued
  /\ queued' = queued \ {e}
  /\ WorkerGoes(
       IF e \notin live THEN IdleWorker
       ELSE [IdleWorker EXCEPT
               !.pc = IF e \in deleting THEN "unsubscribe" ELSE "finalizer",
               !.env = e, !.spec = spec[e], !.left = spec[e], !.fresh = TRUE])
  /\ UNCHANGED <<head, objects, state, heap, job, built, budget>>

(* The operator process dies and is started again: the map is in memory,   *)
(* and the first List queues every environment.                            *)
Restart ==
  /\ state' = [r \in Repo |-> Absent]
  /\ heap' = [p \in Ptr |-> EmptyStruct]
  /\ job' = [j \in Job |-> IdleJob]
  /\ WorkerGoes(IdleWorker)
  /\ queued' = live

\* Mutants: the error is swallowed, and the worker is reset before it requeues.
ReconcileErrorSwallowed ==
  /\ WorkerGoes(IdleWorker)
  /\ UNCHANGED <<head, objects, queued, state, heap, job, built, edits, deletes,
                 crashes>>
RequeueAfterReset ==
  /\ queued' = queued \cup {IdleWorker.env}
  /\ WorkerGoes(IdleWorker)
  /\ UNCHANGED <<head, objects, state, heap, job, built, edits, deletes, crashes>>

(* Reconcile returns an error: the queue gets the environment back. *)
ReconcileFails ==
  /\ queued' = queued \cup {worker.env}
  /\ WorkerGoes(IdleWorker)
  /\ UNCHANGED <<head, objects, state, heap, job, built, edits, deletes, crashes>>

(* doReconcile writes the status of an environment whose components are not *)
(* those in its status, unless it is to be torn down.                      *)
StatusDirty ==
  worker.spec \notin Teardown /\ status[worker.env] # worker.spec

Conflict ==
  /\ ~worker.fresh
  /\ \/ worker.pc = "finalizer" /\ FinalizerEnabled
          /\ worker.env \notin finalizer
     \/ worker.pc = "status" /\ StatusDirty
     \/ worker.pc = "unfinalize"
  /\ ReconcileFails
  /\ UNCHANGED faults

(* A call of the reconcile fails: a clone, an API call, doReconcile in the *)
(* post-delete hook. After a failed clone of an overlay or of Argo CD apps *)
(* the deferred cleanup is a nil function, and its panic ends the process. *)
CallFails ==
  /\ worker.pc \in {"clone", "unsubscribe"}
  /\ faults < MaxFaults /\ faults' = faults + 1
  /\ \/ ReconcileFails
     \/ /\ worker.pc = "clone" /\ worker.left # {} /\ Restart
        /\ UNCHANGED <<head, objects, built, edits, deletes, crashes>>

(* handleFinalizer of an object that is not being deleted. *)
EnsureFinalizer ==
  /\ worker.pc = "finalizer"
  /\ WorkerGoes([worker EXCEPT !.pc = "status"])
  /\ \/ /\ ~FinalizerEnabled \/ worker.env \in finalizer
        /\ UNCHANGED <<finalizer, queued, job>>
     \/ /\ FinalizerEnabled /\ worker.env \notin finalizer /\ worker.fresh
        /\ finalizer' = finalizer \cup {worker.env}
        /\ Written(worker.env)
  /\ UNCHANGED <<head, live, deleting, spec, status, gitState, state, heap,
                 built, budget>>

(* updateStatus: the write of a changed spec queues the next reconcile. *)
UpdateStatus ==
  /\ worker.pc = "status"
  /\ WorkerGoes([worker EXCEPT !.pc = "clone"])
  /\ \/ ~StatusDirty /\ UNCHANGED <<status, queued, job>>
     \/ /\ StatusDirty /\ worker.fresh
        /\ status' = [status EXCEPT ![worker.env] = worker.spec]
        /\ Written(worker.env)
  /\ UNCHANGED <<head, live, deleting, finalizer, spec, gitState, state, heap,
                 built, budget>>

(* The code of one component: its repository is cloned and read ...        *)
CloneComponent ==
  /\ worker.pc = "clone"
  /\ \E c \in worker.left :
       WorkerGoes([worker EXCEPT !.pc = "submit", !.cur = c,
                                 !.got[c] = head[c.clone]])
  /\ UNCHANGED <<head, objects, queued, state, heap, job, built, budget>>

(* ... and afterwards submitToGitReconciler subscribes the environment.    *)
SubmitToGitReconciler ==
  /\ worker.pc = "submit"
  /\ Subscribe(worker.cur.watch, worker.env)
  /\ WorkerGoes([worker EXCEPT !.pc = "clone", !.cur = Nil,
                               !.left = @ \ {worker.cur}])
  /\ UNCHANGED <<head, objects, queued, built, budget>>

(* All components are generated: the IL is made of what was cloned. *)
FinishReconcile ==
  /\ worker.pc = "clone" /\ worker.left = {}
  /\ built' = IF worker.env \in live
                THEN [built EXCEPT ![worker.env] = worker.got]
                ELSE built
  /\ WorkerGoes(IdleWorker)
  /\ UNCHANGED <<head, objects, queued, state, heap, job, budget>>

Crash ==
  /\ crashes < MaxCrashes /\ crashes' = crashes + 1
  /\ Restart
  /\ UNCHANGED <<head, objects, built, edits, deletes, faults>>

\* Mutant: the reconcile returns at a nil entry, without an error.
PostDeleteHookReturns ==
  /\ worker.pc = "unsubscribe"
  /\ IF \E r \in Repo : state[r] = Nil
       THEN WorkerGoes(IdleWorker) /\ UNCHANGED <<heap, job>>
       ELSE /\ UnsubscribeAll(worker.env)
            /\ WorkerGoes([worker EXCEPT !.pc = "unfinalize"])
  /\ UNCHANGED <<head, objects, queued, state, built, budget>>

(* postDeleteHook: removeEnvironmentFromGitReconciler. A nil entry in the  *)
(* map is dereferenced, and nothing in the controller recovers the panic.  *)
PostDeleteHook ==
  /\ worker.pc = "unsubscribe"
  /\ IF \E r \in Repo : state[r] = Nil
       THEN Restart
       ELSE /\ UnsubscribeAll(worker.env)
            /\ WorkerGoes([worker EXCEPT !.pc = "unfinalize"])
            /\ UNCHANGED <<state, queued>>
  /\ UNCHANGED <<head, objects, built, budget>>

(* The finalizer is removed and the object goes. *)
RemoveFinalizer ==
  /\ worker.pc = "unfinalize" /\ worker.fresh
  /\ Vanish(worker.env)
  /\ Written(worker.env)
  /\ WorkerGoes(IdleWorker)
  /\ UNCHANGED <<head, state, heap, budget>>

-----------------------------------------------------------------------------
User ==
  \/ \E r \in Repo : Push(r)
  \/ \E e \in Env, S \in Manifest : Apply(e, S)
  \/ \E e \in Env : Delete(e)

Reconcile(j) ==
  \/ Tick(j) \/ Clone(j) \/ CloneFails(j) \/ TickPanics(j) \/ TickEnds(j)
  \/ Compare(j) \/ Mark(j)
  \/ FetchNotFound(j) \/ FetchFails(j) \/ Fetch(j)
  \/ UpdateGitState(j) \/ UpdateFails(j)

WorkerStep ==
  \/ Conflict \/ CallFails \/ EnsureFinalizer \/ UpdateStatus
  \/ CloneComponent \/ SubmitToGitReconciler \/ FinishReconcile
  \/ PostDeleteHook \/ RemoveFinalizer

Next ==
  \/ User
  \/ \E j \in Job : Reconcile(j)
  \/ \E e \in Env : StartReconcile(e)
  \/ WorkerStep
  \/ Crash

Spec == Init /\ [][Next]_vars

(* The cron job is started every minute and a goroutine runs on; the work  *)
(* queue is first in, first out, so no queued environment is passed over   *)
(* for ever.                                                               *)
Fairness ==
  /\ \A j \in Job : WF_vars(Reconcile(j))
  /\ \A e \in Env : SF_vars(StartReconcile(e))
  /\ WF_vars(WorkerStep)

FairSpec == Spec /\ Fairness

-----------------------------------------------------------------------------
(* Properties. *)

Pending(e) == e \in queued \/ worker.env = e

(* The next ticks will find nothing new in r: nobody watches it, or its     *)
(* struct is marked with the newest commit.                                *)
Settled(r) == state[r] \in Ptr => heap[state[r]].hash = head[r]

(* The environments that are to be kept up to date. One that is torn down   *)
(* may miss a push: no follow-up reconcile makes up for a commit between    *)
(* its clone and its subscription.                                         *)
Kept(e) == e \in live \ deleting /\ spec[e] \notin Teardown

(* A push reaches every environment that is built from the repository:     *)
(* once the git reconciler finds nothing new in a repository, every        *)
(* environment that refers to it either is about to be reconciled or was   *)
(* last generated from the newest commit. It relates the order clone then  *)
(* Subscribe in the worker, the order "deliver to all, then mark" in       *)
(* reconcile, and the follow-up reconcile that updateStatus causes, also   *)
(* when teardown is taken back.                                            *)
NeverStranded ==
  \A e \in Env : Kept(e) => \A c \in spec[e] :
    ~Pending(e) /\ Settled(c.clone) => built[e][c] = head[c.clone]

(* Nothing has been deleted, has crashed or has failed. *)
Calm == deletes = 0 /\ crashes = 0 /\ faults = 0

(* Without such trouble no environment is stranded, whatever the ticks,    *)
(* pushes, edits and conflicting writes; each of the three can strand one. *)
CalmIsNeverStranded == Calm => NeverStranded

(* The hash recorded in an environment's status never goes back to an      *)
(* older commit. It holds as long as ticks do not overlap: the optimistic  *)
(* lock orders the writes of one tick after each other.                    *)
GitStateNeverMovesBack ==
  [][\A e \in Env : \A r \in Repo :
       e \in live /\ e \in live' => gitState'[e][r] >= gitState[e][r]]_vars

(* The hash in an environment's status is a promise that its code was      *)
(* generated from that commit or a later one, unless a reconcile is still  *)
(* due. It survives conflicts, failing calls, crashes, deletions and       *)
(* overlapping ticks, and it is why reconcile may skip a subscriber whose  *)
(* status has the hash already.                                            *)
RecordedMeansGenerated ==
  \A e \in live \ deleting : \A c \in spec[e] :
    ~Pending(e) => built[e][c] >= gitState[e][c.clone]

Stale(e) == \E c \in spec[e] : built[e][c] # head[c.clone]

(* Every push ends in a reconcile of the environments that depend on it,    *)
(* unless an environment is deleted or a call fails.                        *)
PushReachesEveryEnvironment ==
  \A e \in Env :
    []<>(Kept(e) /\ deletes = 0 /\ faults = 0 => ~Stale(e))

(* An environment that is being deleted is finally gone, also when the     *)
(* post-delete hook meets a nil entry and takes the operator down.         *)
DeletionCompletes ==
  \A e \in Env : e \in deleting ~> e \notin deleting

=============================================================================
