------------------------ MODULE GitReconcilerProofs ------------------------
(***************************************************************************)
(* Proofs about GitReconciler, for every set of repositories,              *)
(* environments, references and cron goroutines and every bound.           *)
(*                                                                         *)
(* TypeOK is not inductive by itself: the actions of a goroutine that is   *)
(* in the middle of reconcile(wr), or of a reconcile, use the struct, the  *)
(* environment and the reference it is working on, so Holds says that it   *)
(* has them.                                                               *)
(***************************************************************************)
EXTENDS GitReconciler, TLAPS

JobHolds(rec) ==
  /\ rec.pc \in {"compare", "deliver", "update"} => rec.wr \in Ptr
  /\ rec.pc = "update" => rec.sub \in Env

Holds ==
  /\ \A j \in Job : JobHolds(job[j])
  /\ worker.pc = "idle" <=> worker.env = Nil
  /\ worker.pc = "submit" => worker.cur \in worker.left

TypeInv == TypeOK /\ Holds

-----------------------------------------------------------------------------
(* The records the actions start from. *)

LEMMA IdleTypes ==
  /\ 0 \in Commit /\ 1 \in Commit
  /\ IdleJob \in JobState /\ JobHolds(IdleJob)
  /\ IdleWorker \in WorkerState
  /\ EmptyStruct \in WatchedRepository
<1>1. 0 \in Commit /\ 1 \in Commit
  BY BoundAssumption DEF Commit
<1> QED
  BY <1>1, RefAssumption
  DEF IdleJob, JobState, JobHolds, IdleWorker, WorkerState, EmptyStruct,
      WatchedRepository

(* A write by another party leaves the copies in memory well formed. *)
LEMMA AfterWriteTypes ==
  ASSUME TypeInv, NEW e \in Env
  PROVE  /\ JobsAfterWrite(e) \in [Job -> JobState]
         /\ \A j \in Job : JobHolds(JobsAfterWrite(e)[j])
         /\ WorkerAfterWrite(e) \in WorkerState
         /\ WorkerAfterWrite(e).pc = worker.pc
         /\ WorkerAfterWrite(e).env = worker.env
         /\ WorkerAfterWrite(e).spec = worker.spec
         /\ WorkerAfterWrite(e).left = worker.left
         /\ WorkerAfterWrite(e).cur = worker.cur
         /\ WorkerAfterWrite(e).got = worker.got
<1>1. ASSUME NEW j \in Job
      PROVE  /\ [job[j] EXCEPT !.fresh = FALSE] \in JobState
             /\ JobHolds([job[j] EXCEPT !.fresh = FALSE])
  <2>1. job[j] \in JobState /\ JobHolds(job[j])
    BY DEF TypeInv, TypeOK, Holds
  <2>2. [job[j] EXCEPT !.fresh = FALSE] \in JobState
    BY <2>1 DEF JobState
  <2>3. JobHolds([job[j] EXCEPT !.fresh = FALSE])
    BY <2>1 DEF JobHolds, JobState
  <2> QED
    BY <2>2, <2>3
<1>2. /\ JobsAfterWrite(e) \in [Job -> JobState]
      /\ \A j \in Job : JobHolds(JobsAfterWrite(e)[j])
  BY <1>1 DEF TypeInv, TypeOK, Holds, JobsAfterWrite
<1>3. worker \in WorkerState /\ [worker EXCEPT !.fresh = FALSE] \in WorkerState
  BY DEF TypeInv, TypeOK, WorkerState
<1> QED
  BY <1>2, <1>3 DEF WorkerAfterWrite, WorkerState

(* Steps that change nothing but one goroutine's record. *)
LEMMA JobOnly ==
  ASSUME TypeInv, NEW j \in Job, NEW rec \in JobState, JobHolds(rec),
         JobGoes(j, rec),
         UNCHANGED <<head, objects, queued, worker, built, edits, deletes,
                     crashes>>,
         heap' \in [Ptr -> WatchedRepository],
         state' \in [Repo -> Ptr \cup {Nil, Absent}],
         faults' \in 0..MaxFaults
  PROVE  TypeInv'
<1>1. /\ job' \in [Job -> JobState]
      /\ \A k \in Job : JobHolds(job'[k])
  BY DEF TypeInv, TypeOK, Holds, JobGoes
<1>2. TypeOK'
  BY <1>1 DEF TypeInv, TypeOK, objects
<1>3. Holds'
  BY <1>1 DEF TypeInv, Holds, JobHolds
<1> QED
  BY <1>2, <1>3 DEF TypeInv

LEMMA VanishTypes ==
  ASSUME TypeOK, NEW e \in Env, Vanish(e)
  PROVE  /\ live' \subseteq Env /\ deleting' \subseteq Env
         /\ finalizer' \subseteq Env
         /\ spec' \in [Env -> SUBSET Ref] /\ status' \in [Env -> SUBSET Ref]
         /\ gitState' \in [Env -> [Repo -> Commit]]
         /\ built' \in [Env -> [Ref -> Commit]]
<1>1. /\ [r \in Repo |-> 0] \in [Repo -> Commit]
      /\ [c \in Ref |-> 0] \in [Ref -> Commit]
  BY IdleTypes
<1> QED
  BY <1>1 DEF TypeOK, Vanish

-----------------------------------------------------------------------------
(* Every step of a user keeps the types. *)
LEMMA UserTypes == TypeInv /\ User => TypeInv'
<1> SUFFICES ASSUME TypeInv, User PROVE TypeInv'
  OBVIOUS
<1> USE BoundAssumption, RefAssumption, AfterWriteTypes
<1>1. ASSUME NEW r \in Repo, Push(r) PROVE TypeInv'
  BY <1>1 DEF TypeInv, TypeOK, Holds, JobHolds, Push, objects, budget, Commit
<1>2. ASSUME NEW e \in Env, Written(e), worker' = WorkerAfterWrite(e)
      PROVE  /\ queued' \subseteq Env
             /\ job' \in [Job -> JobState]
             /\ worker' \in WorkerState
             /\ Holds'
  BY <1>2 DEF TypeInv, TypeOK, Holds, JobHolds, Written
<1>3. ASSUME NEW e \in Env, NEW S \in Manifest, Apply(e, S) PROVE TypeInv'
  BY <1>2, <1>3 DEF TypeInv, TypeOK, Apply
<1>4. ASSUME NEW e \in Env, Delete(e) PROVE TypeInv'
  <2>1. Written(e) /\ worker' = WorkerAfterWrite(e)
    BY <1>4 DEF Delete
  <2>2. CASE e \in finalizer
    BY <1>2, <1>4, <2>1, <2>2 DEF TypeInv, TypeOK, Delete
  <2>3. CASE e \notin finalizer
    <3>1. Vanish(e)
      BY <1>4, <2>3 DEF Delete
    <3> QED
      BY <1>2, <1>4, <2>1, <3>1, VanishTypes DEF TypeInv, TypeOK, Delete
  <2> QED
    BY <2>2, <2>3
<1> QED
  BY <1>1, <1>3, <1>4 DEF User

(* Every step of a cron goroutine keeps the types. *)
LEMMA ReconcileTypes ==
  ASSUME TypeInv, NEW j \in Job, Reconcile(j)
  PROVE  TypeInv'
<1>a. /\ job[j] \in JobState /\ JobHolds(job[j])
      /\ heap \in [Ptr -> WatchedRepository]
      /\ state \in [Repo -> Ptr \cup {Nil, Absent}]
      /\ faults \in 0..MaxFaults
      /\ head \in [Repo -> Commit]
  BY DEF TypeInv, TypeOK, Holds
<1>b. ASSUME faults < MaxFaults, faults' = faults + 1
      PROVE  faults' \in 0..MaxFaults
  BY <1>a, <1>b, BoundAssumption
<1>n. NextRepository(j) \in JobState /\ JobHolds(NextRepository(j))
  BY <1>a, IdleTypes DEF NextRepository, JobState, JobHolds, IdleJob
<1>d. ASSUME NEW e, job[j].pc = "deliver"
      PROVE  Delivered(j, e) \in JobState /\ JobHolds(Delivered(j, e))
  BY <1>a, <1>d DEF Delivered, JobState, JobHolds
<1> USE PtrAssumption, NilAssumption
<1>1. CASE Tick(j)
  <2> DEFINE rec == [IdleJob EXCEPT !.pc = "walk",
                       !.repos = {state[r] : r \in Repo} \ {Absent}]
  <2>1. {state[r] : r \in Repo} \ {Absent} \in SUBSET (Ptr \cup {Nil})
    BY <1>a
  <2>2. rec \in JobState /\ JobHolds(rec)
    BY <2>1, IdleTypes DEF JobState, JobHolds
  <2>3. JobGoes(j, rec)
    BY <1>1 DEF Tick
  <2> HIDE DEF rec
  <2> QED
    BY <1>1, <1>a, <2>2, <2>3, JobOnly DEF Tick, budget
<1>2. CASE Clone(j)
  <2>1. PICK p \in job[j].repos \ {Nil} :
          JobGoes(j, [job[j] EXCEPT !.pc = "compare", !.repos = @ \ {p},
                                    !.wr = p, !.latest = head[heap[p].source]])
    BY <1>2 DEF Clone
  <2> DEFINE rec == [job[j] EXCEPT !.pc = "compare", !.repos = @ \ {p},
                                   !.wr = p, !.latest = head[heap[p].source]]
  <2>2. p \in Ptr /\ head[heap[p].source] \in Commit
    BY <1>a DEF JobState, WatchedRepository
  <2>3. rec \in JobState /\ JobHolds(rec)
    BY <1>a, <2>2 DEF JobState, JobHolds
  <2>4. JobGoes(j, rec)
    BY <2>1
  <2> HIDE DEF rec
  <2> QED
    BY <1>2, <1>a, <2>3, <2>4, JobOnly DEF Clone, budget
<1>3. CASE CloneFails(j)
  <2>1. PICK p \in job[j].repos \ {Nil} :
          JobGoes(j, [job[j] EXCEPT !.repos = @ \ {p}])
    BY <1>3 DEF CloneFails
  <2> DEFINE rec == [job[j] EXCEPT !.repos = @ \ {p}]
  <2>2. rec \in JobState /\ JobHolds(rec)
    BY <1>a DEF JobState, JobHolds
  <2>3. JobGoes(j, rec)
    BY <2>1
  <2> HIDE DEF rec
  <2> QED
    BY <1>3, <1>a, <1>b, <2>2, <2>3, JobOnly DEF CloneFails
<1>4. CASE TickPanics(j)
  BY <1>4, <1>a, IdleTypes, JobOnly DEF TickPanics, budget
<1>5. CASE TickEnds(j)
  BY <1>5, <1>a, IdleTypes, JobOnly DEF TickEnds, budget
<1>6. CASE Compare(j)
  <2> DEFINE rec == [job[j] EXCEPT !.pc = "deliver",
                                   !.subs = heap[job[j].wr].subs]
  <2>1. job[j].wr \in Ptr
    BY <1>6, <1>a DEF Compare, JobHolds
  <2>2. rec \in JobState /\ JobHolds(rec)
    BY <1>a, <2>1 DEF JobState, JobHolds, WatchedRepository
  <2>3. JobGoes(j, rec) \/ JobGoes(j, NextRepository(j))
    BY <1>6 DEF Compare
  <2> HIDE DEF rec
  <2> QED
    BY <1>6, <1>a, <1>n, <2>2, <2>3, JobOnly DEF Compare, budget
<1>7. CASE Mark(j)
  <2>1. job[j].wr \in Ptr /\ job[j].latest \in Commit
    BY <1>7, <1>a DEF Mark, JobHolds, JobState
  <2>2. heap' \in [Ptr -> WatchedRepository]
    BY <1>7, <1>a, <2>1 DEF Mark, WatchedRepository
  <2> QED
    BY <1>7, <1>a, <1>n, <2>2, JobOnly DEF Mark, budget
<1>8. CASE FetchNotFound(j)
  <2>1. PICK e \in job[j].subs \ live :
          /\ Remove(heap[job[j].wr].source)
          /\ JobGoes(j, Delivered(j, e))
    BY <1>8 DEF FetchNotFound
  <2>2. state' \in [Repo -> Ptr \cup {Nil, Absent}]
    BY <1>a, <2>1 DEF Remove
  <2> QED
    BY <1>8, <1>a, <1>d, <2>1, <2>2, JobOnly DEF FetchNotFound, budget
<1>9. CASE FetchFails(j)
  BY <1>9, <1>a, <1>b, <1>d, JobOnly DEF FetchFails
<1>10. CASE Fetch(j)
  <2>1. PICK e \in job[j].subs \cap live :
          JobGoes(j, IF gitState[e][heap[job[j].wr].source] = job[j].latest
                       THEN Delivered(j, e)
                       ELSE [Delivered(j, e) EXCEPT !.pc = "update",
                                                    !.sub = e, !.fresh = TRUE])
    BY <1>10 DEF Fetch
  <2> DEFINE rec == [Delivered(j, e) EXCEPT !.pc = "update", !.sub = e,
                                            !.fresh = TRUE]
  <2>2. e \in Env /\ job[j].wr \in Ptr
    BY <1>10, <1>a DEF Fetch, JobState, JobHolds
  <2>3. rec \in JobState /\ JobHolds(rec)
    BY <1>10, <1>a, <1>d, <2>2 DEF Fetch, JobState, JobHolds, Delivered
  <2>4. JobGoes(j, rec) \/ JobGoes(j, Delivered(j, e))
    BY <2>1
  <2> HIDE DEF rec
  <2> QED
    BY <1>10, <1>a, <1>d, <2>3, <2>4, JobOnly DEF Fetch, budget
<1>11. CASE UpdateGitState(j)
  <2> DEFINE e == job[j].sub
             rec == [job[j] EXCEPT !.pc = "deliver", !.sub = Nil,
                                   !.fresh = FALSE]
  <2>1. e \in Env /\ job[j].wr \in Ptr /\ job[j].latest \in Commit
    BY <1>11, <1>a DEF UpdateGitState, JobHolds, JobState
  <2>2. rec \in JobState /\ JobHolds(rec)
    BY <1>a, <2>1 DEF JobState, JobHolds
  <2>3. /\ job' = [JobsAfterWrite(e) EXCEPT ![j] = rec]
        /\ worker' = WorkerAfterWrite(e)
        /\ queued' = queued \cup {e}
        /\ gitState' = [gitState EXCEPT ![e][heap[job[j].wr].source] =
                                          job[j].latest]
    BY <1>11 DEF UpdateGitState
  <2> HIDE DEF rec, e
  <2>4. /\ job' \in [Job -> JobState]
        /\ \A k \in Job : JobHolds(job'[k])
    BY <2>1, <2>2, <2>3, AfterWriteTypes
  <2>5. worker' \in WorkerState /\ Holds'
    BY <2>1, <2>3, <2>4, AfterWriteTypes DEF Holds, JobHolds, TypeInv
  <2>6. gitState' \in [Env -> [Repo -> Commit]]
    BY <2>1, <2>3 DEF TypeInv, TypeOK
  <2> QED
    BY <1>11, <2>1, <2>3, <2>4, <2>5, <2>6
    DEF TypeInv, TypeOK, UpdateGitState, budget
<1>12. CASE UpdateFails(j)
  BY <1>12, <1>a, <1>b, <1>n, JobOnly DEF UpdateFails
<1> QED
  BY <1>1, <1>2, <1>3, <1>4, <1>5, <1>6, <1>7, <1>8, <1>9, <1>10, <1>11,
     <1>12 DEF Reconcile

-----------------------------------------------------------------------------
(* Subscribe and UnsubscribeAll. *)
LEMMA SubscribeTypes ==
  ASSUME TypeInv, NEW r \in Repo, NEW e \in Env, Subscribe(r, e)
  PROVE  /\ state' \in [Repo -> Ptr \cup {Nil, Absent}]
         /\ heap' \in [Ptr -> WatchedRepository]
         /\ job' \in [Job -> JobState]
         /\ \A j \in Job : JobHolds(job'[j])
<1>a. /\ state \in [Repo -> Ptr \cup {Nil, Absent}]
      /\ heap \in [Ptr -> WatchedRepository]
      /\ job \in [Job -> JobState]
      /\ \A j \in Job : JobHolds(job[j])
  BY DEF TypeInv, TypeOK, Holds
<1>1. CASE state[r] \in Ptr
  <2>1. AppendSubscriber(state[r], e) /\ UNCHANGED state
    BY <1>1 DEF Subscribe
  <2>2. heap' \in [Ptr -> WatchedRepository]
    BY <1>1, <1>a, <2>1 DEF AppendSubscriber, WatchedRepository
  <2>3. PICK lost \in Env \cup {Nil} :
          job' = [j \in Job |->
                    IF e \notin heap[state[r]].subs /\ Ranging(j, state[r])
                         /\ job[j].shrunk /\ lost \in job[j].subs
                      THEN [job[j] EXCEPT !.subs = (@ \ {lost}) \cup {e}]
                      ELSE job[j]]
    BY <2>1 DEF AppendSubscriber
  <2>4. ASSUME NEW j \in Job
        PROVE  LET rec == [job[j] EXCEPT !.subs = (@ \ {lost}) \cup {e}]
               IN  rec \in JobState /\ JobHolds(rec)
    BY <1>a DEF JobState, JobHolds
  <2> QED
    BY <1>a, <2>1, <2>2, <2>3, <2>4
<1>2. CASE state[r] \notin Ptr
  <2>1. PICK p \in Free :
          /\ state' = [state EXCEPT ![r] = p]
          /\ heap' = [heap EXCEPT ![p] =
                        [source |-> r, hash |-> 0, subs |-> {e}]]
    BY <1>2 DEF Subscribe
  <2>2. p \in Ptr /\ UNCHANGED job
    BY <1>2 DEF Free, Subscribe
  <2>3. [source |-> r, hash |-> 0, subs |-> {e}] \in WatchedRepository
    BY IdleTypes DEF WatchedRepository
  <2> QED
    BY <1>a, <2>1, <2>2, <2>3
<1> QED
  BY <1>1, <1>2

LEMMA UnsubscribeAllTypes ==
  ASSUME TypeInv, NEW e \in Env, UnsubscribeAll(e)
  PROVE  /\ heap' \in [Ptr -> WatchedRepository]
         /\ job' \in [Job -> JobState]
         /\ \A j \in Job : JobHolds(job'[j])
<1>a. /\ heap \in [Ptr -> WatchedRepository]
      /\ job \in [Job -> JobState]
      /\ \A j \in Job : JobHolds(job[j])
  BY DEF TypeInv, TypeOK, Holds
<1>1. heap' \in [Ptr -> WatchedRepository]
  BY <1>a DEF UnsubscribeAll, WatchedRepository
<1>2. PICK visited \in BOOLEAN :
        job' = [j \in Job |->
                  IF job[j].wr \in Watched /\ Ranging(j, job[j].wr)
                       /\ e \in heap[job[j].wr].subs
                    THEN [job[j] EXCEPT !.shrunk = TRUE,
                            !.subs = IF visited THEN @ ELSE @ \ {e}]
                    ELSE job[j]]
  BY DEF UnsubscribeAll
<1>3. ASSUME NEW j \in Job
      PROVE  LET rec == [job[j] EXCEPT !.shrunk = TRUE,
                           !.subs = IF visited THEN @ ELSE @ \ {e}]
             IN  rec \in JobState /\ JobHolds(rec)
  BY <1>a DEF JobState, JobHolds
<1> QED
  BY <1>a, <1>1, <1>2, <1>3

LEMMA RestartTypes ==
  Restart => /\ state' \in [Repo -> Ptr \cup {Nil, Absent}]
             /\ heap' \in [Ptr -> WatchedRepository]
             /\ job' \in [Job -> JobState]
             /\ worker' = IdleWorker
             /\ Holds'
  BY IdleTypes, NilAssumption
  DEF Restart, WorkerGoes, Holds, JobHolds, IdleJob, IdleWorker

-----------------------------------------------------------------------------
(* Every step of the worker keeps the types. *)
LEMMA WorkerTypes ==
  ASSUME TypeInv, WorkerStep
  PROVE  TypeInv'
<1>a. /\ worker \in WorkerState
      /\ worker.pc = "idle" <=> worker.env = Nil
      /\ worker.pc = "submit" => worker.cur \in worker.left
  BY DEF TypeInv, TypeOK, Holds
<1>b. worker.pc # "idle" => worker.env \in Env
  BY <1>a DEF WorkerState
<1>c. ASSUME NEW e \in Env, Written(e)
      PROVE  /\ queued' \subseteq Env
             /\ job' \in [Job -> JobState]
             /\ \A j \in Job : JobHolds(job'[j])
  BY <1>c, AfterWriteTypes DEF Written, TypeInv, TypeOK
<1>f. ASSUME ReconcileFails, worker.env \in Env, faults' \in 0..MaxFaults
      PROVE  TypeInv'
  <2>1. Holds'
    BY <1>f DEF ReconcileFails, WorkerGoes, IdleWorker, TypeInv, Holds, JobHolds
  <2> QED
    BY <1>f, <2>1, IdleTypes
    DEF ReconcileFails, WorkerGoes, TypeInv, TypeOK, objects
<1> USE NilAssumption
<1>1. CASE Conflict
  BY <1>1, <1>b, <1>f DEF Conflict, TypeInv, TypeOK
<1>2. CASE CallFails
  <2>1. faults' \in 0..MaxFaults /\ worker.env \in Env
    BY <1>2, <1>b, BoundAssumption DEF CallFails, TypeInv, TypeOK
  <2>2. CASE ReconcileFails
    BY <1>f, <2>1, <2>2
  <2>3. CASE Restart /\ UNCHANGED <<head, objects, built, edits, deletes, crashes>>
    <3>1. queued' \subseteq Env
      BY <2>3 DEF Restart, TypeInv, TypeOK
    <3> QED
      BY <2>1, <2>3, <3>1, RestartTypes, IdleTypes
      DEF TypeInv, TypeOK, objects
  <2> QED
    BY <1>2, <2>2, <2>3 DEF CallFails
<1>3. CASE EnsureFinalizer
  <2>1. /\ worker' \in WorkerState /\ worker.env \in Env
        /\ worker'.pc = "status" /\ worker'.env = worker.env
    BY <1>3, <1>a, <1>b DEF EnsureFinalizer, WorkerGoes, WorkerState
  <2>2. /\ queued' \subseteq Env
        /\ job' \in [Job -> JobState]
        /\ \A j \in Job : JobHolds(job'[j])
        /\ finalizer' \subseteq Env
    BY <1>3, <1>c, <2>1 DEF EnsureFinalizer, TypeInv, TypeOK, Holds
  <2>3. Holds'
    BY <2>1, <2>2 DEF Holds, JobHolds
  <2> QED
    BY <1>3, <2>1, <2>2, <2>3 DEF EnsureFinalizer, TypeInv, TypeOK, budget
<1>4. CASE UpdateStatus
  <2>1. /\ worker' \in WorkerState /\ worker.env \in Env
        /\ worker'.pc = "clone" /\ worker'.env = worker.env
        /\ worker.spec \in SUBSET Ref
    BY <1>4, <1>a, <1>b DEF UpdateStatus, WorkerGoes, WorkerState
  <2>2. /\ queued' \subseteq Env
        /\ job' \in [Job -> JobState]
        /\ \A j \in Job : JobHolds(job'[j])
        /\ status' \in [Env -> SUBSET Ref]
    BY <1>4, <1>c, <2>1 DEF UpdateStatus, TypeInv, TypeOK, Holds
  <2>3. Holds'
    BY <2>1, <2>2 DEF Holds, JobHolds
  <2> QED
    BY <1>4, <2>1, <2>2, <2>3 DEF UpdateStatus, TypeInv, TypeOK, budget
<1>5. CASE CloneComponent
  <2>1. PICK c \in worker.left :
          worker' = [worker EXCEPT !.pc = "submit", !.cur = c,
                                   !.got[c] = head[c.clone]]
    BY <1>5 DEF CloneComponent, WorkerGoes
  <2>2. c \in Ref /\ head[c.clone] \in Commit /\ worker.env \in Env
    BY <1>5, <1>a, <1>b, RefAssumption
    DEF CloneComponent, WorkerState, TypeInv, TypeOK
  <2>3. /\ worker' \in WorkerState
        /\ worker'.pc = "submit" /\ worker'.env = worker.env
        /\ worker'.cur \in worker'.left
    BY <1>a, <2>1, <2>2 DEF WorkerState
  <2>4. Holds'
    BY <1>5, <2>2, <2>3 DEF CloneComponent, TypeInv, Holds, JobHolds
  <2> QED
    BY <1>5, <2>3, <2>4 DEF CloneComponent, TypeInv, TypeOK, objects, budget
<1>6. CASE SubmitToGitReconciler
  <2>1. worker.cur \in Ref /\ worker.env \in Env /\ worker.cur.watch \in Repo
    BY <1>6, <1>a, <1>b, RefAssumption DEF SubmitToGitReconciler, WorkerState
  <2>2. /\ worker' \in WorkerState
        /\ worker'.pc = "clone" /\ worker'.env = worker.env
    BY <1>6, <1>a DEF SubmitToGitReconciler, WorkerGoes, WorkerState
  <2>3. /\ state' \in [Repo -> Ptr \cup {Nil, Absent}]
        /\ heap' \in [Ptr -> WatchedRepository]
        /\ job' \in [Job -> JobState]
        /\ \A j \in Job : JobHolds(job'[j])
    BY <1>6, <2>1, SubscribeTypes DEF SubmitToGitReconciler
  <2>4. Holds'
    BY <2>1, <2>2, <2>3 DEF Holds, JobHolds
  <2> QED
    BY <1>6, <2>2, <2>3, <2>4
    DEF SubmitToGitReconciler, TypeInv, TypeOK, objects, budget
<1>7. CASE FinishReconcile
  <2>1. worker.env \in Env /\ worker.got \in [Ref -> Commit]
    BY <1>7, <1>a, <1>b DEF FinishReconcile, WorkerState
  <2>2. built' \in [Env -> [Ref -> Commit]]
    BY <1>7, <2>1 DEF FinishReconcile, TypeInv, TypeOK
  <2>3. Holds'
    BY <1>7 DEF FinishReconcile, WorkerGoes, IdleWorker, TypeInv, Holds, JobHolds
  <2> QED
    BY <1>7, <2>2, <2>3, IdleTypes
    DEF FinishReconcile, WorkerGoes, TypeInv, TypeOK, objects, budget
<1>8. CASE PostDeleteHook
  <2>1. CASE \E r \in Repo : state[r] = Nil
    <3>1. Restart
      BY <1>8, <2>1 DEF PostDeleteHook
    <3>2. queued' \subseteq Env
      BY <3>1 DEF Restart, TypeInv, TypeOK
    <3> QED
      BY <1>8, <3>1, <3>2, RestartTypes, IdleTypes
      DEF PostDeleteHook, TypeInv, TypeOK, objects, budget
  <2>2. CASE ~ \E r \in Repo : state[r] = Nil
    <3>1. /\ UnsubscribeAll(worker.env)
          /\ worker' = [worker EXCEPT !.pc = "unfinalize"]
          /\ worker.env \in Env
      BY <1>8, <1>b, <2>2 DEF PostDeleteHook, WorkerGoes
    <3>2. /\ worker' \in WorkerState
          /\ worker'.pc = "unfinalize" /\ worker'.env = worker.env
      BY <1>a, <3>1 DEF WorkerState
    <3>3. Holds'
      BY <3>1, <3>2, UnsubscribeAllTypes DEF Holds, JobHolds
    <3> QED
      BY <1>8, <2>2, <3>1, <3>2, <3>3, UnsubscribeAllTypes
      DEF PostDeleteHook, TypeInv, TypeOK, objects, budget
  <2> QED
    BY <2>1, <2>2
<1>9. CASE RemoveFinalizer
  <2>1. /\ worker.env \in Env /\ Vanish(worker.env) /\ Written(worker.env)
        /\ worker' = IdleWorker
    BY <1>9, <1>b DEF RemoveFinalizer, WorkerGoes
  <2>2. Holds'
    BY <1>c, <2>1 DEF IdleWorker, Holds, JobHolds
  <2> QED
    BY <1>9, <1>c, <2>1, <2>2, VanishTypes, IdleTypes
    DEF RemoveFinalizer, TypeInv, TypeOK, budget
<1> QED
  BY <1>1, <1>2, <1>3, <1>4, <1>5, <1>6, <1>7, <1>8, <1>9 DEF WorkerStep

LEMMA StartTypes ==
  ASSUME TypeInv, NEW e \in Env, StartReconcile(e)
  PROVE  TypeInv'
<1>1. spec[e] \in SUBSET Ref
  BY DEF TypeInv, TypeOK
<1>2. /\ worker' \in WorkerState
      /\ worker'.pc = "idle" <=> worker'.env = Nil
      /\ worker'.pc # "submit"
  BY <1>1, IdleTypes, NilAssumption
  DEF StartReconcile, WorkerGoes, IdleWorker, WorkerState
<1>3. Holds'
  BY <1>2 DEF StartReconcile, TypeInv, Holds, JobHolds
<1> QED
  BY <1>2, <1>3 DEF StartReconcile, TypeInv, TypeOK, objects, budget

LEMMA InitTypes == Init => TypeInv
<1> SUFFICES ASSUME Init PROVE TypeInv
  OBVIOUS
<1>1. TypeOK
  BY IdleTypes, RefAssumption, BoundAssumption DEF Init, TypeOK
<1>2. Holds
  BY IdleTypes DEF Init, Holds, IdleWorker
<1> QED
  BY <1>1, <1>2 DEF TypeInv

LEMMA NextTypes == TypeInv /\ [Next]_vars => TypeInv'
<1> SUFFICES ASSUME TypeInv, [Next]_vars PROVE TypeInv'
  OBVIOUS
<1>1. CASE Crash
  <2>1. crashes' \in 0..MaxCrashes
    BY <1>1, BoundAssumption DEF Crash, TypeInv, TypeOK
  <2>2. queued' \subseteq Env
    BY <1>1 DEF Crash, Restart, TypeInv, TypeOK
  <2> QED
    BY <1>1, <2>1, <2>2, RestartTypes, IdleTypes
    DEF Crash, TypeInv, TypeOK, objects
<1>2. CASE UNCHANGED vars
  BY <1>2 DEF vars, objects, budget, TypeInv, TypeOK, Holds, JobHolds
<1> QED
  BY <1>1, <1>2, UserTypes, ReconcileTypes, WorkerTypes, StartTypes DEF Next

(* Every variable of the operator's model keeps its type, and a goroutine  *)
(* that is inside reconcile(wr) or Reconcile has the struct, environment   *)
(* and reference it dereferences.                                          *)
THEOREM TypeCorrect == Spec => [](TypeOK /\ Holds)
<1>1. TypeInv => TypeOK /\ Holds
  BY DEF TypeInv
<1> QED
  BY <1>1, InitTypes, NextTypes, PTL DEF Spec

-----------------------------------------------------------------------------
(* RecordedMeansGenerated. It is not inductive: what makes it true is that *)
(* no hash is recorded that GitHub does not have yet, so that a clone made *)
(* after the record is at least as new, and that every write of a record   *)
(* queues the environment, so that a reconcile which started before the    *)
(* write is followed by another one.                                       *)

\* A goroutine holds a commit that its repository has.
JobsBehind ==
  \A j \in Job :
    job[j].pc \in {"compare", "deliver", "update"}
      => job[j].latest <= head[heap[job[j].wr].source]

\* The recorded hashes are commits that the repositories have.
StateBehind == \A e \in Env : \A r \in Repo : gitState[e][r] <= head[r]

\* What the worker has cloned of a component, and is done with.
Cloned(c) == c \notin worker.left \/ (worker.pc = "submit" /\ c = worker.cur)

\* The reconcile under way was started from the present spec, and what it
\* has cloned so far is as new as the records.
UnderWay(e) ==
  /\ worker.pc \in {"finalizer", "status", "clone", "submit"}
  /\ worker.pc \in {"finalizer", "status"} => worker.left = worker.spec
  /\ worker.spec = spec[e]
  /\ \A c \in spec[e] : Cloned(c) => worker.got[c] >= gitState[e][c.clone]

Finished(e) == \A c \in spec[e] : built[e][c] >= gitState[e][c.clone]

Generated ==
  \A e \in live \ deleting :
    e \notin queued => IF worker.env = e THEN UnderWay(e) ELSE Finished(e)

GenInv == JobsBehind /\ StateBehind /\ Generated

(* What the present records and clones say is still true after a step that *)
(* leaves the environment's record, spec and code and the worker's reconcile *)
(* alone, and takes nothing out of the queue.                              *)
LEMMA GeneratedFrame ==
  ASSUME TypeInv, Generated, queued \subseteq queued',
         UNCHANGED <<worker.pc, worker.env, worker.spec, worker.left,
                     worker.cur, worker.got>>,
         \A e \in live' \ deleting' : e \notin queued' =>
           /\ e \in live \ deleting
           /\ spec'[e] = spec[e] /\ gitState'[e] = gitState[e]
           /\ built'[e] = built[e]
  PROVE  Generated'
<1> SUFFICES ASSUME NEW e \in live' \ deleting', e \notin queued'
             PROVE  (IF worker.env = e THEN UnderWay(e) ELSE Finished(e))'
  BY DEF Generated
<1>1. /\ e \in live \ deleting /\ e \notin queued
      /\ spec'[e] = spec[e] /\ gitState'[e] = gitState[e]
      /\ built'[e] = built[e]
  OBVIOUS
<1>2. IF worker.env = e THEN UnderWay(e) ELSE Finished(e)
  BY <1>1 DEF Generated
<1> QED
  BY <1>1, <1>2 DEF UnderWay, Finished, Cloned

(* Structs that a goroutine works on keep their source. *)
LEMMA JobsBehindFrame ==
  ASSUME TypeInv, TypeInv', JobsBehind,
         \A r \in Repo : head[r] <= head'[r],
         \A j \in Job : job'[j].pc \in {"compare", "deliver", "update"} =>
           /\ job[j].pc \in {"compare", "deliver", "update"}
           /\ job'[j].wr = job[j].wr /\ job'[j].latest = job[j].latest
           /\ heap'[job[j].wr].source = heap[job[j].wr].source
  PROVE  JobsBehind'
<1> SUFFICES ASSUME NEW j \in Job,
                    job'[j].pc \in {"compare", "deliver", "update"}
             PROVE  job'[j].latest <= head'[heap'[job'[j].wr].source]
  BY DEF JobsBehind
<1>1. /\ job[j].latest <= head[heap[job[j].wr].source]
      /\ job[j].wr \in Ptr /\ job[j].latest \in Commit
  BY DEF JobsBehind, TypeInv, TypeOK, Holds, JobHolds, JobState
<1>2. heap[job[j].wr].source \in Repo
  BY <1>1 DEF TypeInv, TypeOK, WatchedRepository
<1>3. /\ head[heap[job[j].wr].source] \in Nat
      /\ head'[heap[job[j].wr].source] \in Nat
  BY <1>2 DEF TypeInv, TypeOK, Commit
<1> QED
  BY <1>1, <1>2, <1>3 DEF Commit

(* A write by another party changes nothing but "fresh". *)
LEMMA AfterWriteKeeps ==
  ASSUME TypeInv, NEW e \in Env
  PROVE  \A j \in Job :
           /\ JobsAfterWrite(e)[j].pc = job[j].pc
           /\ JobsAfterWrite(e)[j].wr = job[j].wr
           /\ JobsAfterWrite(e)[j].latest = job[j].latest
  BY DEF TypeInv, TypeOK, JobState, JobsAfterWrite

\* Of the objects, a step changes e only; if it changes e's record, it clears it.
WritesOnly(e) ==
  /\ \A d \in Env \ {e} :
       /\ d \in live' => d \in live
       /\ d \in deleting => d \in deleting'
       /\ spec'[d] = spec[d] /\ built'[d] = built[d]
       /\ gitState'[d] = gitState[d]
  /\ gitState'[e] = gitState[e] \/ gitState'[e] = [r \in Repo |-> 0]

LEMMA WriteGenerates ==
  ASSUME TypeInv, TypeInv', GenInv, NEW e \in Env, Written(e),
         worker' = WorkerAfterWrite(e), WritesOnly(e), UNCHANGED <<head, heap>>
  PROVE  GenInv'
<1>1. JobsBehind'
  <2>1. \A r \in Repo : head[r] <= head'[r]
    BY DEF TypeInv, TypeOK, Commit
  <2> QED
    BY <2>1, AfterWriteKeeps, JobsBehindFrame DEF Written, GenInv
<1>2. StateBehind'
  <2> SUFFICES ASSUME NEW d \in Env, NEW r \in Repo
               PROVE  gitState'[d][r] <= head[r]
    BY DEF StateBehind
  <2>1. head[r] \in Nat /\ gitState[d][r] <= head[r]
    BY DEF GenInv, StateBehind, TypeInv, TypeOK, Commit
  <2>2. gitState'[d] = gitState[d] \/ gitState'[d] = [q \in Repo |-> 0]
    BY DEF WritesOnly
  <2> QED
    BY <2>1, <2>2
<1>3. Generated'
  <2>1. UNCHANGED <<worker.pc, worker.env, worker.spec, worker.left,
                    worker.cur, worker.got>>
    BY AfterWriteTypes
  <2>2. ASSUME NEW d \in live' \ deleting', d \notin queued'
        PROVE  /\ d \in live \ deleting
               /\ spec'[d] = spec[d] /\ gitState'[d] = gitState[d]
               /\ built'[d] = built[d]
    <3>1. d \in Env \ {e}
      BY <2>2 DEF Written, TypeInv, TypeOK
    <3> QED
      BY <2>2, <3>1 DEF WritesOnly
  <2>3. queued \subseteq queued'
    BY DEF Written
  <2> QED
    BY <2>1, <2>2, <2>3, GeneratedFrame DEF GenInv
<1> QED
  BY <1>1, <1>2, <1>3 DEF GenInv

LEMMA VanishWrites ==
  ASSUME TypeInv, NEW e \in Env, Vanish(e)
  PROVE  WritesOnly(e)
  BY DEF TypeInv, TypeOK, Vanish, WritesOnly

LEMMA UserGenerates ==
  ASSUME TypeInv, TypeInv', GenInv, User
  PROVE  GenInv'
<1>1. ASSUME NEW r \in Repo, Push(r) PROVE GenInv'
  <2>1. \A q \in Repo : /\ head[q] <= head'[q]
                       /\ head[q] \in Nat /\ head'[q] \in Nat
    BY <1>1 DEF Push, TypeInv, TypeOK, Commit
  <2>2. JobsBehind'
    BY <1>1, <2>1, JobsBehindFrame DEF Push, GenInv
  <2>3. StateBehind'
    BY <1>1, <2>1 DEF Push, GenInv, StateBehind, TypeInv, TypeOK, objects, Commit
  <2>4. Generated'
    BY <1>1, GeneratedFrame DEF Push, GenInv, objects
  <2> QED
    BY <2>2, <2>3, <2>4 DEF GenInv
<1>2. ASSUME NEW e \in Env, NEW S \in Manifest, Apply(e, S) PROVE GenInv'
  <2>1. WritesOnly(e)
    BY <1>2 DEF Apply, WritesOnly, TypeInv, TypeOK
  <2> QED
    BY <1>2, <2>1, WriteGenerates DEF Apply
<1>3. ASSUME NEW e \in Env, Delete(e) PROVE GenInv'
  <2>1. WritesOnly(e)
    <3>1. CASE e \in finalizer
      BY <1>3, <3>1 DEF Delete, WritesOnly, TypeInv, TypeOK
    <3>2. CASE e \notin finalizer
      BY <1>3, <3>2, VanishWrites DEF Delete
    <3> QED
      BY <3>1, <3>2
  <2> QED
    BY <1>3, <2>1, WriteGenerates DEF Delete
<1> QED
  BY <1>1, <1>2, <1>3 DEF User

(* Steps that change no object and only one goroutine's record. *)
LEMMA JobOnlyGenerates ==
  ASSUME TypeInv, TypeInv', GenInv, NEW j \in Job, NEW rec \in JobState,
         JobGoes(j, rec),
         \A p \in Ptr : heap'[p].source = heap[p].source,
         UNCHANGED <<head, objects, queued, worker, built>>,
         rec.pc \in {"compare", "deliver", "update"} =>
           \/ rec.latest <= head[heap[rec.wr].source]
           \/ /\ job[j].pc \in {"compare", "deliver", "update"}
              /\ rec.wr = job[j].wr /\ rec.latest = job[j].latest
  PROVE  GenInv'
<1>1. JobsBehind'
  <2> SUFFICES ASSUME NEW k \in Job,
                      job'[k].pc \in {"compare", "deliver", "update"}
               PROVE  job'[k].latest <= head[heap'[job'[k].wr].source]
    BY DEF JobsBehind
  <2>1. job'[k].wr \in Ptr
    BY DEF TypeInv, Holds, JobHolds
  <2>2. job'[k] = IF k = j THEN rec ELSE job[k]
    BY DEF JobGoes, TypeInv, TypeOK
  <2>3. job'[k].latest <= head[heap[job'[k].wr].source]
    BY <2>2 DEF GenInv, JobsBehind
  <2> QED
    BY <2>1, <2>3
<1>2. StateBehind'
  BY DEF GenInv, StateBehind, objects
<1>3. Generated'
  BY GeneratedFrame DEF GenInv, objects
<1> QED
  BY <1>1, <1>2, <1>3 DEF GenInv

LEMMA ReconcileGenerates ==
  ASSUME TypeInv, TypeInv', GenInv, NEW j \in Job, Reconcile(j)
  PROVE  GenInv'
<1>a. /\ job[j] \in JobState /\ JobHolds(job[j])
      /\ job' \in [Job -> JobState]
  BY DEF TypeInv, TypeOK, Holds
<1>b. ASSUME UNCHANGED heap
      PROVE  \A p \in Ptr : heap'[p].source = heap[p].source
  BY <1>b
<1>g. ASSUME NEW rec, JobGoes(j, rec) PROVE rec \in JobState
  BY <1>a, <1>g DEF JobGoes, TypeInv, TypeOK
<1>n. NextRepository(j).pc = "walk" /\ IdleJob.pc = "idle"
  BY DEF NextRepository, IdleJob
<1>1. CASE Tick(j) \/ CloneFails(j) \/ TickPanics(j) \/ TickEnds(j)
             \/ UpdateFails(j)
  <2>1. PICK rec : JobGoes(j, rec) /\ rec.pc \in {"walk", "idle"}
    <3>1. CASE Tick(j)
      <4>1. [IdleJob EXCEPT !.pc = "walk",
               !.repos = {state[r] : r \in Repo} \ {Absent}].pc = "walk"
        BY DEF IdleJob
      <4> QED
        BY <3>1, <4>1 DEF Tick
    <3>2. CASE CloneFails(j)
      BY <3>2, <1>a DEF CloneFails, JobState
    <3>3. CASE TickPanics(j) \/ TickEnds(j) \/ UpdateFails(j)
      BY <3>3, <1>n DEF TickPanics, TickEnds, UpdateFails
    <3> QED
      BY <1>1, <3>1, <3>2, <3>3
  <2>2. UNCHANGED <<head, objects, queued, worker, built, heap>>
    BY <1>1 DEF Tick, CloneFails, TickPanics, TickEnds, UpdateFails
  <2> QED
    BY <1>b, <1>g, <2>1, <2>2, JobOnlyGenerates
<1>2. CASE Clone(j)
  <2>1. PICK p \in job[j].repos \ {Nil} :
          JobGoes(j, [job[j] EXCEPT !.pc = "compare", !.repos = @ \ {p},
                                    !.wr = p, !.latest = head[heap[p].source]])
    BY <1>2 DEF Clone
  <2> DEFINE rec == [job[j] EXCEPT !.pc = "compare", !.repos = @ \ {p},
                                   !.wr = p, !.latest = head[heap[p].source]]
  <2>2. p \in Ptr
    BY <1>a DEF JobState
  <2>3. head[heap[p].source] \in Nat
    BY <2>2 DEF TypeInv, TypeOK, WatchedRepository, Commit
  <2>4. rec.wr = p /\ rec.latest = head[heap[p].source]
    BY <1>a DEF JobState
  <2>5. JobGoes(j, rec)
    BY <2>1
  <2> HIDE DEF rec
  <2>6. rec.latest <= head[heap[rec.wr].source]
    BY <2>3, <2>4
  <2> QED
    BY <1>2, <1>b, <1>g, <2>5, <2>6, JobOnlyGenerates DEF Clone
<1>3. CASE Compare(j) \/ Mark(j) \/ FetchNotFound(j) \/ FetchFails(j) \/ Fetch(j)
  <2>1. PICK rec : /\ JobGoes(j, rec)
                   /\ \/ rec.pc = "walk"
                      \/ rec.wr = job[j].wr /\ rec.latest = job[j].latest
    <3>1. CASE Compare(j)
      <4>1. LET rec == [job[j] EXCEPT !.pc = "deliver",
                                      !.subs = heap[job[j].wr].subs]
            IN  rec.wr = job[j].wr /\ rec.latest = job[j].latest
        BY <1>a DEF JobState
      <4> QED
        BY <3>1, <4>1, <1>n DEF Compare
    <3>2. CASE Mark(j)
      BY <3>2, <1>n DEF Mark
    <3>d. \A e : /\ Delivered(j, e).wr = job[j].wr
                 /\ Delivered(j, e).latest = job[j].latest
      BY <1>a DEF Delivered, JobState
    <3>3. CASE FetchNotFound(j)
      BY <3>3, <3>d DEF FetchNotFound
    <3>4. CASE FetchFails(j)
      BY <3>4, <3>d DEF FetchFails
    <3>5. CASE Fetch(j)
      <4>1. \A e : LET rec == [Delivered(j, e) EXCEPT !.pc = "update", !.sub = e,
                                                      !.fresh = TRUE]
                   IN  rec.wr = job[j].wr /\ rec.latest = job[j].latest
        BY <1>a DEF Delivered, JobState
      <4> QED
        BY <3>5, <3>d, <4>1 DEF Fetch
    <3> QED
      BY <1>3, <3>1, <3>2, <3>3, <3>4, <3>5
  <2>2. /\ UNCHANGED <<head, objects, queued, worker, built>>
        /\ job[j].pc \in {"compare", "deliver", "update"}
    BY <1>3 DEF Compare, Mark, FetchNotFound, FetchFails, Fetch
  <2>3. \A p \in Ptr : heap'[p].source = heap[p].source
    <3>1. CASE Mark(j)
      BY <3>1 DEF Mark, TypeInv, TypeOK, WatchedRepository
    <3> QED
      BY <1>3, <3>1 DEF Compare, FetchNotFound, FetchFails, Fetch
  <2> QED
    BY <1>g, <2>1, <2>2, <2>3, JobOnlyGenerates
<1>4. CASE UpdateGitState(j)
  <2> DEFINE e == job[j].sub
             r == heap[job[j].wr].source
  <2>1. e \in Env /\ job[j].wr \in Ptr
    BY <1>4, <1>a DEF UpdateGitState, JobHolds
  <2>2. r \in Repo /\ job[j].latest <= head[r]
    BY <1>4, <2>1
    DEF UpdateGitState, GenInv, JobsBehind, TypeInv, TypeOK, WatchedRepository
  <2>3. /\ gitState' = [gitState EXCEPT ![e][r] = job[j].latest]
        /\ queued' = queued \cup {e}
        /\ worker' = WorkerAfterWrite(e)
        /\ UNCHANGED <<head, heap, live, deleting, spec, built>>
    BY <1>4 DEF UpdateGitState
  <2>4. \A k \in Job : /\ job'[k].pc \in {"compare", "deliver", "update"}
                           => job[k].pc \in {"compare", "deliver", "update"}
                      /\ job'[k].wr = job[k].wr
                      /\ job'[k].latest = job[k].latest
    <3>1. job' = [JobsAfterWrite(e) EXCEPT
                    ![j] = [job[j] EXCEPT !.pc = "deliver", !.sub = Nil,
                                          !.fresh = FALSE]]
      BY <1>4 DEF UpdateGitState
    <3>2. job[j].pc = "update"
      BY <1>4 DEF UpdateGitState
    <3> HIDE DEF e
    <3> QED
      BY <1>a, <2>1, <3>1, <3>2, AfterWriteKeeps, AfterWriteTypes DEF JobState
  <2> HIDE DEF e, r
  <2>5. JobsBehind'
    <3>1. \A q \in Repo : head[q] <= head'[q]
      BY <2>3 DEF TypeInv, TypeOK, Commit
    <3> QED
      BY <2>3, <2>4, <3>1, JobsBehindFrame DEF GenInv
  <2>6. StateBehind'
    BY <2>1, <2>2, <2>3 DEF GenInv, StateBehind, TypeInv, TypeOK
  <2>7. Generated'
    <3>1. UNCHANGED <<worker.pc, worker.env, worker.spec, worker.left,
                      worker.cur, worker.got>>
      BY <2>1, <2>3, AfterWriteTypes
    <3>2. \A d \in live' \ deleting' : d \notin queued' =>
            d \in live \ deleting /\ gitState'[d] = gitState[d]
      BY <2>1, <2>3 DEF TypeInv, TypeOK
    <3> QED
      BY <2>3, <3>1, <3>2, GeneratedFrame DEF GenInv
  <2> QED
    BY <2>5, <2>6, <2>7 DEF GenInv
<1> QED
  BY <1>1, <1>2, <1>3, <1>4 DEF Reconcile

(* Steps of the worker that leave the git reconciler and the records alone. *)
LEMMA RecordsKept ==
  ASSUME TypeInv, TypeInv', GenInv, UNCHANGED <<head, gitState>>,
         \A j \in Job : job'[j].pc \in {"compare", "deliver", "update"} =>
           /\ job[j].pc \in {"compare", "deliver", "update"}
           /\ job'[j].wr = job[j].wr /\ job'[j].latest = job[j].latest
           /\ heap'[job[j].wr].source = heap[job[j].wr].source
  PROVE  JobsBehind' /\ StateBehind'
<1>1. \A r \in Repo : head[r] <= head'[r]
  BY DEF TypeInv, TypeOK, Commit
<1>2. JobsBehind'
  BY <1>1, JobsBehindFrame DEF GenInv
<1>3. StateBehind'
  BY DEF GenInv, StateBehind
<1> QED
  BY <1>2, <1>3

(* A reconcile that is given up is repeated. *)
LEMMA FailsGenerates ==
  ASSUME TypeInv, TypeInv', GenInv,
         ReconcileFails, worker.env \in Env
  PROVE  GenInv'
<1>1. JobsBehind' /\ StateBehind'
  BY RecordsKept DEF ReconcileFails, objects
<1>2. Generated'
  <2> SUFFICES ASSUME NEW e \in live' \ deleting', e \notin queued'
               PROVE  (IF worker.env = e THEN UnderWay(e) ELSE Finished(e))'
    BY DEF Generated
  <2>1. /\ e \in live \ deleting /\ e \notin queued /\ e # worker.env
        /\ spec'[e] = spec[e] /\ gitState'[e] = gitState[e]
        /\ built'[e] = built[e]
    BY DEF ReconcileFails, objects
  <2>2. Finished(e)
    BY <2>1 DEF GenInv, Generated
  <2>3. worker'.env = Nil /\ e \in Env
    BY <2>1 DEF ReconcileFails, WorkerGoes, IdleWorker, TypeInv, TypeOK
  <2> QED
    BY <2>1, <2>2, <2>3, NilAssumption DEF Finished
<1> QED
  BY <1>1, <1>2 DEF GenInv

LEMMA RestartGenerates ==
  ASSUME TypeInv, TypeInv', GenInv, Restart, UNCHANGED <<head, objects, built>>
  PROVE  GenInv'
<1>1. \A j \in Job : job'[j].pc = "idle"
  BY DEF Restart, IdleJob
<1>2. JobsBehind' /\ StateBehind'
  BY <1>1, RecordsKept DEF objects
<1>3. Generated'
  BY DEF Restart, Generated, objects
<1> QED
  BY <1>2, <1>3 DEF GenInv

(* The worker goes on with its reconcile. *)
LEMMA WorkerGoesOn ==
  ASSUME TypeInv, TypeInv', GenInv,
         UNCHANGED <<head, live, deleting, spec, gitState, built>>,
         queued \subseteq queued', worker.env \in Env,
         UNCHANGED <<worker.env, worker.spec>>,
         \A j \in Job : job'[j].pc \in {"compare", "deliver", "update"} =>
           /\ job[j].pc \in {"compare", "deliver", "update"}
           /\ job'[j].wr = job[j].wr /\ job'[j].latest = job[j].latest
           /\ heap'[job[j].wr].source = heap[job[j].wr].source,
         worker.env \in live \ deleting /\ worker.env \notin queued'
           /\ UnderWay(worker.env) => UnderWay(worker.env)'
  PROVE  GenInv'
<1>1. JobsBehind' /\ StateBehind'
  BY RecordsKept
<1>2. Generated'
  <2> SUFFICES ASSUME NEW e \in live' \ deleting', e \notin queued'
               PROVE  (IF worker.env = e THEN UnderWay(e) ELSE Finished(e))'
    BY DEF Generated
  <2>1. e \in live \ deleting /\ e \notin queued
    OBVIOUS
  <2>2. CASE worker.env = e
    BY <2>1, <2>2 DEF GenInv, Generated
  <2>3. CASE worker.env # e
    BY <2>1, <2>3 DEF GenInv, Generated, Finished
  <2> QED
    BY <2>2, <2>3
<1> QED
  BY <1>1, <1>2 DEF GenInv

(* The map changes under the goroutines, but not what they hold. *)
LEMMA SubscribeKeeps ==
  ASSUME TypeInv, NEW r, NEW e, Subscribe(r, e)
  PROVE  \A j \in Job :
           job'[j].pc \in {"compare", "deliver", "update"} =>
             /\ job[j].pc \in {"compare", "deliver", "update"}
             /\ job'[j].wr = job[j].wr /\ job'[j].latest = job[j].latest
             /\ heap'[job[j].wr].source = heap[job[j].wr].source
<1>a. /\ heap \in [Ptr -> WatchedRepository]
      /\ job \in [Job -> JobState]
      /\ \A j \in Job : JobHolds(job[j])
  BY DEF TypeInv, TypeOK, Holds
<1>b. \A j \in Job : job[j].pc \in {"compare", "deliver", "update"}
                     => job[j].wr \in Ptr
  BY <1>a DEF JobHolds
<1>1. CASE state[r] \in Ptr
  <2>1. AppendSubscriber(state[r], e)
    BY <1>1 DEF Subscribe
  <2>2. \A p \in Ptr : heap'[p].source = heap[p].source
    BY <1>1, <1>a, <2>1 DEF AppendSubscriber, WatchedRepository
  <2>3. PICK lost \in Env \cup {Nil} :
          job' = [j \in Job |->
                    IF e \notin heap[state[r]].subs /\ Ranging(j, state[r])
                         /\ job[j].shrunk /\ lost \in job[j].subs
                      THEN [job[j] EXCEPT !.subs = (@ \ {lost}) \cup {e}]
                      ELSE job[j]]
    BY <2>1 DEF AppendSubscriber
  <2>4. \A j \in Job : /\ job'[j].pc = job[j].pc /\ job'[j].wr = job[j].wr
                      /\ job'[j].latest = job[j].latest
    BY <1>a, <2>3 DEF JobState
  <2> QED
    BY <1>b, <2>2, <2>4
<1>2. CASE state[r] \notin Ptr
  <2>1. PICK p \in Free :
          heap' = [heap EXCEPT ![p] =
                     [source |-> r, hash |-> 0, subs |-> {e}]]
    BY <1>2 DEF Subscribe
  <2>2. UNCHANGED job
    BY <1>2 DEF Subscribe
  <2>3. \A j \in Job : job[j].wr # p
    BY DEF Free, Held
  <2> QED
    BY <1>a, <1>b, <2>1, <2>2, <2>3
<1> QED
  BY <1>1, <1>2

LEMMA UnsubscribeAllKeeps ==
  ASSUME TypeInv, NEW e, UnsubscribeAll(e)
  PROVE  \A j \in Job :
           job'[j].pc \in {"compare", "deliver", "update"} =>
             /\ job[j].pc \in {"compare", "deliver", "update"}
             /\ job'[j].wr = job[j].wr /\ job'[j].latest = job[j].latest
             /\ heap'[job[j].wr].source = heap[job[j].wr].source
<1>a. /\ heap \in [Ptr -> WatchedRepository]
      /\ job \in [Job -> JobState]
      /\ \A j \in Job : JobHolds(job[j])
  BY DEF TypeInv, TypeOK, Holds
<1>1. \A p \in Ptr : heap'[p].source = heap[p].source
  BY <1>a DEF UnsubscribeAll, WatchedRepository
<1>2. PICK visited \in BOOLEAN :
        job' = [j \in Job |->
                  IF job[j].wr \in Watched /\ Ranging(j, job[j].wr)
                       /\ e \in heap[job[j].wr].subs
                    THEN [job[j] EXCEPT !.shrunk = TRUE,
                            !.subs = IF visited THEN @ ELSE @ \ {e}]
                    ELSE job[j]]
  BY DEF UnsubscribeAll
<1>3. \A j \in Job : /\ job'[j].pc = job[j].pc /\ job'[j].wr = job[j].wr
                    /\ job'[j].latest = job[j].latest
  BY <1>a, <1>2 DEF JobState
<1> QED
  BY <1>a, <1>1, <1>3 DEF JobHolds

LEMMA WorkerGenerates ==
  ASSUME TypeInv, TypeInv', GenInv, WorkerStep
  PROVE  GenInv'
<1>a. /\ worker \in WorkerState /\ worker' \in WorkerState
      /\ worker.pc = "idle" <=> worker.env = Nil
      /\ worker.pc = "submit" => worker.cur \in worker.left
  BY DEF TypeInv, TypeOK, Holds
<1>b. worker.pc # "idle" => worker.env \in Env
  BY <1>a DEF WorkerState
<1>c. ASSUME NEW e \in Env, Written(e), UNCHANGED heap
      PROVE  /\ queued \subseteq queued' /\ e \in queued'
             /\ \A j \in Job :
                  job'[j].pc \in {"compare", "deliver", "update"} =>
                    /\ job[j].pc \in {"compare", "deliver", "update"}
                    /\ job'[j].wr = job[j].wr /\ job'[j].latest = job[j].latest
                    /\ heap'[job[j].wr].source = heap[job[j].wr].source
  BY <1>c, AfterWriteKeeps DEF Written
<1>1. CASE Conflict
  BY <1>1, <1>b, FailsGenerates DEF Conflict
<1>2. CASE CallFails
  <2>1. CASE ReconcileFails
    BY <1>2, <1>b, <2>1, FailsGenerates DEF CallFails
  <2>2. CASE Restart /\ UNCHANGED <<head, objects, built, edits, deletes, crashes>>
    BY <2>2, RestartGenerates
  <2> QED
    BY <1>2, <2>1, <2>2 DEF CallFails
<1>3. CASE EnsureFinalizer \/ UpdateStatus
  <2>1. /\ worker.pc \in {"finalizer", "status"}
        /\ worker' = [worker EXCEPT !.pc = "status"]
              \/ worker' = [worker EXCEPT !.pc = "clone"]
        /\ UNCHANGED <<head, live, deleting, spec, gitState, built, heap>>
        /\ UNCHANGED <<queued, job>> \/ Written(worker.env)
    BY <1>3 DEF EnsureFinalizer, UpdateStatus, WorkerGoes
  <2>2. /\ UNCHANGED <<worker.env, worker.spec, worker.left, worker.got>>
        /\ worker'.pc \in {"status", "clone"}
    BY <1>a, <2>1 DEF WorkerState
  <2>3. UnderWay(worker.env) => UnderWay(worker.env)'
    BY <2>1, <2>2 DEF UnderWay, Cloned
  <2> QED
    BY <1>b, <1>c, <2>1, <2>2, <2>3, WorkerGoesOn
<1>4. CASE CloneComponent
  <2>1. PICK c \in worker.left :
          worker' = [worker EXCEPT !.pc = "submit", !.cur = c,
                                   !.got[c] = head[c.clone]]
    BY <1>4 DEF CloneComponent, WorkerGoes
  <2>2. /\ UNCHANGED <<worker.env, worker.spec, worker.left>>
        /\ worker'.pc = "submit" /\ worker'.cur = c /\ worker.pc = "clone"
        /\ worker'.got = [worker.got EXCEPT ![c] = head[c.clone]]
        /\ c \in Ref /\ worker.got \in [Ref -> Commit]
    BY <1>4, <1>a, <2>1 DEF CloneComponent, WorkerState
  <2>3. /\ UNCHANGED <<head, live, deleting, spec, gitState, built, heap,
                       queued, job>>
        /\ worker.env \in Env
    BY <1>4, <1>b DEF CloneComponent, objects
  <2>4. ASSUME UnderWay(worker.env) PROVE UnderWay(worker.env)'
    <3>1. ASSUME NEW d \in spec[worker.env], Cloned(d)'
          PROVE  worker'.got[d] >= gitState[worker.env][d.clone]
      <4>1. d \in Ref
        BY <2>3, <3>1 DEF TypeInv, TypeOK
      <4>2. CASE d = c
        <5>1. c.clone \in Repo
          BY <2>2, RefAssumption
        <5>2. /\ gitState[worker.env][c.clone] <= head[c.clone]
              /\ gitState[worker.env][c.clone] \in Nat /\ head[c.clone] \in Nat
          BY <2>3, <5>1 DEF GenInv, StateBehind, TypeInv, TypeOK, Commit
        <5> QED
          BY <2>2, <4>2, <5>2
      <4>3. CASE d # c
        <5>1. Cloned(d)
          BY <2>2, <3>1, <4>3 DEF Cloned
        <5>2. worker.got[d] >= gitState[worker.env][d.clone]
          BY <2>4, <3>1, <5>1 DEF UnderWay
        <5> QED
          BY <2>2, <4>1, <4>3, <5>2
      <4> QED
        BY <4>2, <4>3
    <3> QED
      BY <2>2, <2>3, <2>4, <3>1 DEF UnderWay
  <2> QED
    BY <2>2, <2>3, <2>4, WorkerGoesOn
<1>5. CASE SubmitToGitReconciler
  <2>1. /\ worker.pc = "submit" /\ worker.env \in Env
        /\ worker' = [worker EXCEPT !.pc = "clone", !.cur = Nil,
                                    !.left = @ \ {worker.cur}]
        /\ UNCHANGED <<head, live, deleting, spec, gitState, built, queued>>
        /\ Subscribe(worker.cur.watch, worker.env)
    BY <1>5, <1>b DEF SubmitToGitReconciler, WorkerGoes, objects
  <2>2. /\ UNCHANGED <<worker.env, worker.spec, worker.got>>
        /\ worker'.pc = "clone"
        /\ worker'.left = worker.left \ {worker.cur}
    BY <1>a, <2>1 DEF WorkerState
  <2>3. UnderWay(worker.env) => UnderWay(worker.env)'
    BY <2>1, <2>2 DEF UnderWay, Cloned
  <2>4. \A j \in Job :
          job'[j].pc \in {"compare", "deliver", "update"} =>
            /\ job[j].pc \in {"compare", "deliver", "update"}
            /\ job'[j].wr = job[j].wr /\ job'[j].latest = job[j].latest
            /\ heap'[job[j].wr].source = heap[job[j].wr].source
    BY <2>1, SubscribeKeeps
  <2> QED
    BY <2>1, <2>2, <2>3, <2>4, WorkerGoesOn
<1>6. CASE FinishReconcile
  <2>1. /\ worker.pc = "clone" /\ worker.left = {} /\ worker.env \in Env
        /\ worker'.env = Nil
        /\ UNCHANGED <<head, live, deleting, spec, gitState, queued, heap, job>>
        /\ built' = IF worker.env \in live
                      THEN [built EXCEPT ![worker.env] = worker.got]
                      ELSE built
    BY <1>6, <1>b DEF FinishReconcile, WorkerGoes, IdleWorker, objects
  <2>2. JobsBehind' /\ StateBehind'
    BY <2>1, RecordsKept
  <2>3. Generated'
    <3> SUFFICES ASSUME NEW e \in live' \ deleting', e \notin queued'
                 PROVE  (IF worker.env = e THEN UnderWay(e) ELSE Finished(e))'
      BY DEF Generated
    <3>1. e \in live \ deleting /\ e \notin queued /\ e \in Env
      BY <2>1 DEF TypeInv, TypeOK
    <3>2. CASE e = worker.env
      <4>1. built'[e] = worker.got
        BY <2>1, <3>1, <3>2 DEF TypeInv, TypeOK
      <4>2. UnderWay(e)
        BY <3>1, <3>2 DEF GenInv, Generated
      <4>3. \A c \in spec[e] : Cloned(c)
        BY <2>1 DEF Cloned
      <4>4. \A c \in spec[e] : worker.got[c] >= gitState[e][c.clone]
        BY <4>2, <4>3 DEF UnderWay
      <4> QED
        BY <2>1, <3>1, <4>1, <4>4, NilAssumption DEF Finished
    <3>3. CASE e # worker.env
      <4>1. built'[e] = built[e]
        BY <2>1, <3>3 DEF TypeInv, TypeOK
      <4>2. Finished(e)
        BY <3>1, <3>3 DEF GenInv, Generated
      <4> QED
        BY <2>1, <3>1, <4>1, <4>2, NilAssumption DEF Finished
    <3> QED
      BY <3>2, <3>3
  <2> QED
    BY <2>2, <2>3 DEF GenInv
<1>7. CASE PostDeleteHook
  <2>1. CASE \E r \in Repo : state[r] = Nil
    BY <1>7, <2>1, RestartGenerates DEF PostDeleteHook
  <2>2. CASE ~ \E r \in Repo : state[r] = Nil
    <3>1. /\ worker.pc = "unsubscribe" /\ worker.env \in Env
          /\ UnsubscribeAll(worker.env)
          /\ worker' = [worker EXCEPT !.pc = "unfinalize"]
          /\ UNCHANGED <<head, live, deleting, spec, gitState, built, queued>>
      BY <1>7, <1>b, <2>2 DEF PostDeleteHook, WorkerGoes, objects
    <3>2. UNCHANGED <<worker.env, worker.spec>>
      BY <1>a, <3>1 DEF WorkerState
    <3>3. ~UnderWay(worker.env)
      BY <3>1 DEF UnderWay
    <3>4. \A j \in Job :
            job'[j].pc \in {"compare", "deliver", "update"} =>
              /\ job[j].pc \in {"compare", "deliver", "update"}
              /\ job'[j].wr = job[j].wr /\ job'[j].latest = job[j].latest
              /\ heap'[job[j].wr].source = heap[job[j].wr].source
      BY <3>1, UnsubscribeAllKeeps
    <3> QED
      BY <3>1, <3>2, <3>3, <3>4, WorkerGoesOn
  <2> QED
    BY <2>1, <2>2
<1>8. CASE RemoveFinalizer
  <2>1. /\ Vanish(worker.env) /\ Written(worker.env) /\ worker.env \in Env
        /\ worker'.env = Nil /\ UNCHANGED <<head, heap>>
    BY <1>8, <1>b DEF RemoveFinalizer, WorkerGoes, IdleWorker
  <2>2. WritesOnly(worker.env)
    BY <2>1, VanishWrites
  <2>3. JobsBehind'
    <3>1. \A r \in Repo : head[r] <= head'[r]
      BY <2>1 DEF TypeInv, TypeOK, Commit
    <3> QED
      BY <1>c, <2>1, <3>1, JobsBehindFrame DEF GenInv
  <2>4. StateBehind'
    <3> SUFFICES ASSUME NEW d \in Env, NEW r \in Repo
                 PROVE  gitState'[d][r] <= head[r]
      BY <2>1 DEF StateBehind
    <3>1. head[r] \in Nat /\ gitState[d][r] <= head[r]
      BY DEF GenInv, StateBehind, TypeInv, TypeOK, Commit
    <3>2. gitState'[d] = gitState[d] \/ gitState'[d] = [q \in Repo |-> 0]
      BY <2>2 DEF WritesOnly
    <3> QED
      BY <3>1, <3>2
  <2>5. Generated'
    <3> SUFFICES ASSUME NEW e \in live' \ deleting', e \notin queued'
                 PROVE  (IF worker.env = e THEN UnderWay(e) ELSE Finished(e))'
      BY DEF Generated
    <3>1. e \in Env \ {worker.env} /\ e \notin queued
      BY <2>1 DEF Written, TypeInv, TypeOK
    <3>2. /\ e \in live \ deleting
          /\ spec'[e] = spec[e] /\ gitState'[e] = gitState[e]
          /\ built'[e] = built[e]
      BY <2>2, <3>1 DEF WritesOnly
    <3>3. Finished(e)
      BY <3>1, <3>2 DEF GenInv, Generated
    <3> QED
      BY <2>1, <3>1, <3>2, <3>3, NilAssumption DEF Finished
  <2> QED
    BY <2>3, <2>4, <2>5 DEF GenInv
<1> QED
  BY <1>1, <1>2, <1>3, <1>4, <1>5, <1>6, <1>7, <1>8 DEF WorkerStep

LEMMA StartGenerates ==
  ASSUME TypeInv, TypeInv', GenInv, NEW e \in Env, StartReconcile(e)
  PROVE  GenInv'
<1>1. /\ worker.env = Nil /\ queued' = queued \ {e}
      /\ UNCHANGED <<head, live, deleting, spec, gitState, built, heap, job>>
      /\ worker' = IF e \notin live THEN IdleWorker
                   ELSE [IdleWorker EXCEPT
                           !.pc = IF e \in deleting THEN "unsubscribe"
                                                   ELSE "finalizer",
                           !.env = e, !.spec = spec[e], !.left = spec[e],
                           !.fresh = TRUE]
  BY DEF StartReconcile, WorkerGoes, objects, TypeInv, Holds
<1>2. JobsBehind' /\ StateBehind'
  BY <1>1, RecordsKept
<1>3. Generated'
  <2> SUFFICES ASSUME NEW d \in live' \ deleting', d \notin queued'
               PROVE  (IF worker.env = d THEN UnderWay(d) ELSE Finished(d))'
    BY DEF Generated
  <2>1. d \in live \ deleting /\ d \in Env
    BY <1>1 DEF TypeInv, TypeOK
  <2>2. CASE d = e
    <3>1. /\ worker'.env = e /\ worker'.pc = "finalizer"
          /\ worker'.spec = spec[e] /\ worker'.left = spec[e]
      BY <1>1, <2>1, <2>2 DEF IdleWorker
    <3> QED
      BY <1>1, <2>2, <3>1 DEF UnderWay, Cloned
  <2>3. CASE d # e
    <3>1. worker'.env # d /\ worker.env # d
      BY <1>1, <2>1, <2>3, NilAssumption DEF IdleWorker
    <3>2. Finished(d)
      BY <1>1, <2>1, <2>3, <3>1 DEF GenInv, Generated
    <3> QED
      BY <1>1, <3>1, <3>2 DEF Finished
  <2> QED
    BY <2>2, <2>3
<1> QED
  BY <1>2, <1>3 DEF GenInv

LEMMA InitGenerates == Init => GenInv
<1> SUFFICES ASSUME Init PROVE GenInv
  OBVIOUS
<1>1. JobsBehind
  BY DEF Init, JobsBehind, IdleJob
<1>2. StateBehind
  BY DEF Init, StateBehind
<1>3. Generated
  BY DEF Init, Generated
<1> QED
  BY <1>1, <1>2, <1>3 DEF GenInv

LEMMA NextGenerates == TypeInv /\ TypeInv' /\ GenInv /\ [Next]_vars => GenInv'
<1> SUFFICES ASSUME TypeInv, TypeInv', GenInv, [Next]_vars PROVE GenInv'
  OBVIOUS
<1>1. CASE Crash
  BY <1>1, RestartGenerates DEF Crash
<1>2. CASE UNCHANGED vars
  BY <1>2 DEF vars, objects, GenInv, JobsBehind, StateBehind, Generated,
              UnderWay, Cloned, Finished
<1> QED
  BY <1>1, <1>2, UserGenerates, ReconcileGenerates, WorkerGenerates,
     StartGenerates DEF Next

(* The hash recorded in an environment's status is never ahead of the      *)
(* commits its code was generated from, unless a reconcile is due: for any *)
(* number of environments, repositories and overlapping ticks, through     *)
(* crashes, deletions, conflicts and failing calls.                        *)
THEOREM RecordedGenerated == Spec => []RecordedMeansGenerated
<1>1. TypeInv /\ GenInv => RecordedMeansGenerated
  <2> SUFFICES ASSUME TypeInv, GenInv, NEW e \in live \ deleting,
                      NEW c \in spec[e], ~Pending(e)
               PROVE  built[e][c] >= gitState[e][c.clone]
    BY DEF RecordedMeansGenerated
  <2> QED
    BY DEF Pending, GenInv, Generated, Finished
<1>2. Spec => [](TypeOK /\ Holds)
  BY TypeCorrect
<1>3. Spec => []TypeInv
  BY <1>2, PTL DEF TypeInv
<1>4. Init => GenInv
  BY InitGenerates
<1>5. TypeInv /\ TypeInv' /\ GenInv /\ [Next]_vars => GenInv'
  BY NextGenerates
<1> QED
  BY <1>1, <1>3, <1>4, <1>5, PTL DEF Spec

-----------------------------------------------------------------------------
(* GitStateNeverMovesBack. A tick compares a commit that it has cloned some *)
(* time ago, so what is needed is that no record has moved past it since:   *)
(* only the tick itself moves records on, if no other tick overlaps.        *)

OneTick == \A j, k \in Job : j = k

\* What a tick has cloned is at least as new as every record of its repository.
JobsAhead ==
  \A j \in Job :
    job[j].pc \in {"compare", "deliver", "update"}
      => \A e \in Env : gitState[e][heap[job[j].wr].source] <= job[j].latest

\* No goroutine has changed what it works on, and no record has grown.
KeepsAhead ==
  /\ \A j \in Job : job'[j].pc \in {"compare", "deliver", "update"} =>
       /\ job[j].pc \in {"compare", "deliver", "update"}
       /\ job'[j].wr = job[j].wr /\ job'[j].latest = job[j].latest
       /\ heap'[job[j].wr].source = heap[job[j].wr].source
  /\ \A e \in Env :
       gitState'[e] = gitState[e] \/ gitState'[e] = [r \in Repo |-> 0]

LEMMA AheadFrame ==
  ASSUME TypeInv, TypeInv', JobsAhead, KeepsAhead
  PROVE  JobsAhead'
<1> SUFFICES ASSUME NEW j \in Job,
                    job'[j].pc \in {"compare", "deliver", "update"},
                    NEW e \in Env
             PROVE  gitState'[e][heap'[job'[j].wr].source] <= job'[j].latest
  BY DEF JobsAhead
<1>1. /\ job[j].pc \in {"compare", "deliver", "update"}
      /\ job'[j].wr = job[j].wr /\ job'[j].latest = job[j].latest
      /\ heap'[job[j].wr].source = heap[job[j].wr].source
  BY DEF KeepsAhead
<1>2. /\ gitState[e][heap[job[j].wr].source] <= job[j].latest
      /\ job[j].wr \in Ptr /\ job[j].latest \in Nat
  BY <1>1 DEF JobsAhead, TypeInv, TypeOK, Holds, JobHolds, JobState, Commit
<1>3. heap[job[j].wr].source \in Repo
  BY <1>2 DEF TypeInv, TypeOK, WatchedRepository
<1>4. gitState'[e] = gitState[e] \/ gitState'[e] = [r \in Repo |-> 0]
  BY DEF KeepsAhead
<1> QED
  BY <1>1, <1>2, <1>3, <1>4

LEMMA InitAhead == Init => JobsAhead
<1> SUFFICES ASSUME Init PROVE JobsAhead
  OBVIOUS
<1>1. job = [j \in Job |-> IdleJob] /\ IdleJob.pc = "idle"
  BY DEF Init, IdleJob
<1>2. \A j \in Job : job[j].pc = "idle"
  BY <1>1
<1> QED
  BY <1>2 DEF JobsAhead

LEMMA UserKeepsAhead == TypeInv /\ User => KeepsAhead
<1> SUFFICES ASSUME TypeInv, User PROVE KeepsAhead
  OBVIOUS
<1>1. ASSUME NEW r \in Repo, Push(r) PROVE KeepsAhead
  BY <1>1 DEF Push, objects, KeepsAhead
<1>2. ASSUME NEW e \in Env, NEW S \in Manifest, Apply(e, S) PROVE KeepsAhead
  BY <1>2, AfterWriteKeeps DEF Apply, Written, KeepsAhead
<1>3. ASSUME NEW e \in Env, Delete(e) PROVE KeepsAhead
  <2>1. \A d \in Env :
          gitState'[d] = gitState[d] \/ gitState'[d] = [r \in Repo |-> 0]
    BY <1>3 DEF Delete, Vanish, TypeInv, TypeOK
  <2> QED
    BY <1>3, <2>1, AfterWriteKeeps DEF Delete, Written, KeepsAhead
<1> QED
  BY <1>1, <1>2, <1>3 DEF User

LEMMA WorkerKeepsAhead == TypeInv /\ WorkerStep => KeepsAhead
<1> SUFFICES ASSUME TypeInv, WorkerStep PROVE KeepsAhead
  OBVIOUS
<1>1. worker.pc # "idle" => worker.env \in Env
  BY DEF TypeInv, TypeOK, Holds, WorkerState
<1>2. ASSUME NEW e \in Env, Written(e) \/ UNCHANGED job, UNCHANGED <<heap, gitState>>
      PROVE  KeepsAhead
  BY <1>2, AfterWriteKeeps DEF Written, KeepsAhead
<1>3. ASSUME Restart, UNCHANGED gitState PROVE KeepsAhead
  BY <1>3 DEF Restart, IdleJob, KeepsAhead
<1>4. CASE Conflict \/ CallFails
  BY <1>3, <1>4
  DEF Conflict, CallFails, ReconcileFails, objects, KeepsAhead
<1>5. CASE EnsureFinalizer \/ UpdateStatus
  BY <1>1, <1>2, <1>5 DEF EnsureFinalizer, UpdateStatus
<1>6. CASE CloneComponent \/ FinishReconcile
  BY <1>6 DEF CloneComponent, FinishReconcile, objects, KeepsAhead
<1>7. CASE SubmitToGitReconciler
  BY <1>7, SubscribeKeeps DEF SubmitToGitReconciler, objects, KeepsAhead
<1>8. CASE PostDeleteHook
  BY <1>3, <1>8, UnsubscribeAllKeeps DEF PostDeleteHook, objects, KeepsAhead
<1>9. CASE RemoveFinalizer
  <2>1. worker.env \in Env /\ Written(worker.env) /\ Vanish(worker.env)
        /\ UNCHANGED heap
    BY <1>1, <1>9 DEF RemoveFinalizer
  <2>2. \A d \in Env :
          gitState'[d] = gitState[d] \/ gitState'[d] = [r \in Repo |-> 0]
    BY <2>1 DEF Vanish, TypeInv, TypeOK
  <2> QED
    BY <2>1, <2>2, AfterWriteKeeps DEF Written, KeepsAhead
<1> QED
  BY <1>4, <1>5, <1>6, <1>7, <1>8, <1>9 DEF WorkerStep

\* The steps of a tick between two writes.
LEMMA ReconcileAhead ==
  ASSUME TypeInv, TypeInv', GenInv, JobsAhead, OneTick, NEW j \in Job, Reconcile(j)
  PROVE  JobsAhead'
<1>a. /\ job[j] \in JobState /\ JobHolds(job[j])
      /\ \A k \in Job : k = j
  BY DEF TypeInv, TypeOK, Holds, OneTick
<1>n. NextRepository(j).pc = "walk" /\ IdleJob.pc = "idle"
  BY DEF NextRepository, IdleJob
<1>g. ASSUME NEW rec, JobGoes(j, rec) PROVE job'[j] = rec
  BY <1>g DEF JobGoes, TypeInv, TypeOK
<1>1. CASE Tick(j) \/ CloneFails(j) \/ TickPanics(j) \/ TickEnds(j)
             \/ UpdateFails(j)
  <2>1. PICK rec : JobGoes(j, rec) /\ rec.pc \in {"walk", "idle"}
    <3>1. CASE Tick(j)
      <4>1. [IdleJob EXCEPT !.pc = "walk",
               !.repos = {state[r] : r \in Repo} \ {Absent}].pc = "walk"
        BY DEF IdleJob
      <4> QED
        BY <3>1, <4>1 DEF Tick
    <3>2. CASE CloneFails(j)
      BY <3>2, <1>a DEF CloneFails, JobState
    <3>3. CASE TickPanics(j) \/ TickEnds(j) \/ UpdateFails(j)
      BY <3>3, <1>n DEF TickPanics, TickEnds, UpdateFails
    <3> QED
      BY <1>1, <3>1, <3>2, <3>3
  <2> QED
    BY <1>a, <1>g, <2>1 DEF JobsAhead
<1>2. CASE Clone(j)
  <2>1. PICK p \in job[j].repos \ {Nil} :
          JobGoes(j, [job[j] EXCEPT !.pc = "compare", !.repos = @ \ {p},
                                    !.wr = p, !.latest = head[heap[p].source]])
    BY <1>2 DEF Clone
  <2>2. p \in Ptr /\ heap[p].source \in Repo
    BY <1>a DEF JobState, TypeInv, TypeOK, WatchedRepository
  <2>3. job'[j].wr = p /\ job'[j].latest = head[heap[p].source]
    BY <1>a, <1>g, <2>1 DEF JobState
  <2>4. heap' = heap /\ gitState' = gitState
    BY <1>2 DEF Clone, objects
  <2>5. \A e \in Env : gitState[e][heap[p].source] <= head[heap[p].source]
    BY <2>2 DEF GenInv, StateBehind
  <2> QED
    BY <1>a, <2>3, <2>4, <2>5 DEF JobsAhead
<1>3. CASE Compare(j) \/ Mark(j) \/ FetchNotFound(j) \/ FetchFails(j) \/ Fetch(j)
  <2>1. PICK rec : /\ JobGoes(j, rec)
                   /\ \/ rec.pc = "walk"
                      \/ rec.wr = job[j].wr /\ rec.latest = job[j].latest
    <3>1. CASE Compare(j)
      <4>1. LET rec == [job[j] EXCEPT !.pc = "deliver",
                                      !.subs = heap[job[j].wr].subs]
            IN  rec.wr = job[j].wr /\ rec.latest = job[j].latest
        BY <1>a DEF JobState
      <4> QED
        BY <3>1, <4>1, <1>n DEF Compare
    <3>2. CASE Mark(j)
      BY <3>2, <1>n DEF Mark
    <3>d. \A e : /\ Delivered(j, e).wr = job[j].wr
                 /\ Delivered(j, e).latest = job[j].latest
      BY <1>a DEF Delivered, JobState
    <3>3. CASE FetchNotFound(j)
      BY <3>3, <3>d DEF FetchNotFound
    <3>4. CASE FetchFails(j)
      BY <3>4, <3>d DEF FetchFails
    <3>5. CASE Fetch(j)
      <4>1. \A e : LET rec == [Delivered(j, e) EXCEPT !.pc = "update", !.sub = e,
                                                      !.fresh = TRUE]
                   IN  rec.wr = job[j].wr /\ rec.latest = job[j].latest
        BY <1>a DEF Delivered, JobState
      <4> QED
        BY <3>5, <3>d, <4>1 DEF Fetch
    <3> QED
      BY <1>3, <3>1, <3>2, <3>3, <3>4, <3>5
  <2>2. /\ gitState' = gitState
        /\ job[j].pc \in {"compare", "deliver", "update"}
        /\ job[j].wr \in Ptr
    BY <1>3, <1>a
    DEF Compare, Mark, FetchNotFound, FetchFails, Fetch, objects, JobHolds
  <2>3. \A p \in Ptr : heap'[p].source = heap[p].source
    <3>1. CASE Mark(j)
      BY <3>1 DEF Mark, TypeInv, TypeOK, WatchedRepository
    <3> QED
      BY <1>3, <3>1 DEF Compare, FetchNotFound, FetchFails, Fetch
  <2>4. job'[j] = rec
    BY <1>g, <2>1
  <2>5. KeepsAhead
    BY <1>a, <2>1, <2>2, <2>3, <2>4 DEF KeepsAhead
  <2> QED
    BY <2>5, AheadFrame
<1>4. CASE UpdateGitState(j)
  <2>1. PICK e \in Env, r \in Repo : e = job[j].sub /\ r = heap[job[j].wr].source
    BY <1>4, <1>a
    DEF UpdateGitState, JobHolds, TypeInv, TypeOK, WatchedRepository
  <2>2. /\ gitState' = [gitState EXCEPT ![e][r] = job[j].latest]
        /\ heap' = heap /\ job[j].pc = "update"
        /\ job' = [JobsAfterWrite(e) EXCEPT
                     ![j] = [job[j] EXCEPT !.pc = "deliver", !.sub = Nil,
                                           !.fresh = FALSE]]
    BY <1>4, <2>1 DEF UpdateGitState
  <2>3. job'[j].wr = job[j].wr /\ job'[j].latest = job[j].latest
    BY <1>a, <2>2, AfterWriteTypes DEF JobState
  <2>4. \A d \in Env : gitState[d][r] <= job[j].latest
    BY <2>1, <2>2 DEF JobsAhead
  <2>5. job[j].latest \in Nat
    BY <1>a DEF JobState, Commit
  <2>6. \A d \in Env : gitState'[d][r] <= job[j].latest
    BY <2>1, <2>2, <2>4, <2>5 DEF TypeInv, TypeOK
  <2> QED
    BY <1>a, <2>1, <2>2, <2>3, <2>6 DEF JobsAhead
<1> QED
  BY <1>1, <1>2, <1>3, <1>4 DEF Reconcile

LEMMA NextAhead ==
  ASSUME OneTick
  PROVE  TypeInv /\ TypeInv' /\ GenInv /\ JobsAhead /\ [Next]_vars => JobsAhead'
<1> SUFFICES ASSUME TypeInv, TypeInv', GenInv, JobsAhead, [Next]_vars
             PROVE  JobsAhead'
  OBVIOUS
<1>1. ASSUME NEW e \in Env, StartReconcile(e) PROVE KeepsAhead
  BY <1>1 DEF StartReconcile, objects, KeepsAhead
<1>2. CASE Crash
  BY <1>2, AheadFrame DEF Crash, Restart, IdleJob, objects, KeepsAhead
<1>3. CASE UNCHANGED vars
  BY <1>3, AheadFrame DEF vars, objects, KeepsAhead
<1> QED
  BY <1>1, <1>2, <1>3, UserKeepsAhead, WorkerKeepsAhead, ReconcileAhead, AheadFrame
  DEF Next

LEMMA StepMovesOn ==
  ASSUME TypeInv, JobsAhead, [Next]_vars, NEW e \in Env, NEW r \in Repo,
         e \in live, e \in live'
  PROVE  gitState'[e][r] >= gitState[e][r]
<1>a. gitState[e][r] \in Nat
  BY DEF TypeInv, TypeOK, Commit
<1>1. CASE gitState' = gitState
  BY <1>a, <1>1
<1>2. ASSUME NEW d \in Env, Vanish(d) PROVE gitState'[e][r] >= gitState[e][r]
  BY <1>a, <1>2 DEF Vanish, TypeInv, TypeOK
<1>3. ASSUME NEW j \in Job, UpdateGitState(j)
      PROVE  gitState'[e][r] >= gitState[e][r]
  <2>1. PICK d \in Env, q \in Repo : d = job[j].sub /\ q = heap[job[j].wr].source
    BY <1>3
    DEF UpdateGitState, JobHolds, TypeInv, TypeOK, Holds, WatchedRepository
  <2>2. gitState' = [gitState EXCEPT ![d][q] = job[j].latest]
        /\ gitState[d][q] <= job[j].latest
    BY <1>3, <2>1 DEF UpdateGitState, JobsAhead
  <2>3. job[j].latest \in Nat /\ gitState[d][q] \in Nat
    BY DEF TypeInv, TypeOK, JobState, Commit
  <2> QED
    BY <1>a, <2>2, <2>3 DEF TypeInv, TypeOK
<1>4. CASE User
  BY <1>1, <1>2, <1>4 DEF User, Push, Apply, Delete, objects
<1>5. ASSUME NEW j \in Job, Reconcile(j) PROVE gitState'[e][r] >= gitState[e][r]
  BY <1>1, <1>3, <1>5
  DEF Reconcile, Tick, Clone, CloneFails, TickPanics, TickEnds, Compare, Mark,
      FetchNotFound, FetchFails, Fetch, UpdateFails, objects
<1>6. CASE WorkerStep
  <2>1. RemoveFinalizer => worker.env \in Env
    BY DEF RemoveFinalizer, TypeInv, TypeOK, Holds, WorkerState
  <2> QED
    BY <1>1, <1>2, <1>6, <2>1
    DEF WorkerStep, Conflict, CallFails, ReconcileFails, EnsureFinalizer,
        UpdateStatus, CloneComponent, SubmitToGitReconciler, FinishReconcile,
        PostDeleteHook, RemoveFinalizer, objects
<1>7. CASE Crash \/ UNCHANGED vars \/ \E d \in Env : StartReconcile(d)
  BY <1>1, <1>7 DEF Crash, StartReconcile, vars, objects
<1> QED
  BY <1>4, <1>5, <1>6, <1>7 DEF Next

(* The hash recorded in an environment's status never goes back to an      *)
(* older commit if ticks do not overlap: for any number of environments,   *)
(* repositories and pushes, through edits, deletions, crashes, conflicts   *)
(* and failing calls. Two ticks that overlap move it back.                 *)
THEOREM RecordsMoveOn ==
  ASSUME OneTick
  PROVE  Spec => GitStateNeverMovesBack
<1>1. Spec => [](TypeOK /\ Holds)
  BY TypeCorrect
<1>2. Spec => []TypeInv
  BY <1>1, PTL DEF TypeInv
<1>3. Init => GenInv /\ JobsAhead
  BY InitGenerates, InitAhead
<1>4. TypeInv /\ TypeInv' /\ GenInv /\ JobsAhead /\ [Next]_vars
        => GenInv' /\ JobsAhead'
  BY NextGenerates, NextAhead
<1>5. TypeInv /\ JobsAhead /\ [Next]_vars =>
        [\A e \in Env : \A r \in Repo :
           e \in live /\ e \in live' => gitState'[e][r] >= gitState[e][r]]_vars
  BY StepMovesOn
<1> QED
  BY <1>2, <1>3, <1>4, <1>5, PTL DEF Spec, GitStateNeverMovesBack

-----------------------------------------------------------------------------
(* CalmIsNeverStranded. NeverStranded speaks of the moment at which a       *)
(* repository is settled; what leads there is that a subscriber is covered *)
(* at every moment for the commit its repository is marked with (Marked),  *)
(* and, while a goroutine delivers, is still to be visited or covered for  *)
(* the commit that is delivered (Delivering). Fetch may skip a subscriber  *)
(* because of GenInv. Who subscribes to a struct that is marked already is *)
(* queued: the write of its status was before (StatusSubscribed). Only an  *)
(* environment that is to be torn down subscribes without that write. The  *)
(* rest says that the map only grows while nothing is deleted or fails.    *)

\* No component has an overlay from a repository it does not subscribe to.
SameRepository == \A c \in Ref : c.clone = c.watch

\* No environment goes, so that every subscriber is there.
NothingGoes ==
  /\ deleting = {}
  /\ \A p \in Ptr : heap[p].subs \subseteq live
  /\ \A j \in Job : job[j].subs \subseteq live /\ ~job[j].shrunk
  /\ worker.pc \notin {"unsubscribe", "unfinalize"}
  /\ worker.env \in live \cup {Nil}
  /\ \A e \in Env \ live : status[e] = {}

\* No struct leaves the map.
MapKept ==
  /\ \A r \in Repo : state[r] # Nil
  /\ \A r \in Repo : state[r] \in Ptr => heap[state[r]].source = r
  /\ \A j \in Job :
       /\ job[j].repos \subseteq Watched
       /\ job[j].pc \in {"compare", "deliver", "update"} => job[j].wr \in Watched

\* What is marked, cloned or built are commits that the repository has.
CodeBehind ==
  /\ \A p \in Watched : heap[p].hash <= head[heap[p].source]
  /\ \A c \in Ref : /\ worker.got[c] <= head[c.clone]
                    /\ \A e \in Env : built[e][c] <= head[c.clone]

Subscribed(e, r) == state[r] \in Ptr /\ e \in heap[state[r]].subs

\* An environment is subscribed for the components in its status, or the worker
\* is about to do so, and the write of the status has queued it again.
StatusSubscribed ==
  /\ worker.left \subseteq worker.spec
  /\ worker.pc \in {"finalizer", "status"} => worker.left = worker.spec
  /\ worker.pc \in {"clone", "submit"} =>
       status[worker.env] = worker.spec \/ worker.spec \in Teardown
  /\ \A e \in live : \A c \in status[e] :
       \/ Subscribed(e, c.watch)
       \/ /\ worker.env = e /\ worker.pc \in {"clone", "submit"}
          /\ c \in worker.left /\ e \in queued
  /\ \A e \in live \ queued :
       worker.env = e \/ status[e] = spec[e] \/ spec[e] \in Teardown

\* The code of e is from commit l of r or a later one, or will be, or e is to be
\* torn down.
Covered(e, r, l) ==
  \/ e \in queued
  \/ spec[e] \in Teardown
  \/ /\ worker.env = e
     /\ \A c \in worker.spec : c.clone = r /\ Cloned(c) => worker.got[c] >= l
  \/ /\ worker.env # e
     /\ \A c \in spec[e] : c.clone = r => built[e][c] >= l

\* A goroutine has still to visit a subscriber, or it is covered.
Delivering ==
  \A j \in Job : job[j].pc \in {"deliver", "update"} =>
    \A e \in heap[job[j].wr].subs :
      \/ e \in job[j].subs
      \/ job[j].pc = "update" /\ job[j].sub = e
      \/ Covered(e, heap[job[j].wr].source, job[j].latest)

\* The subscribers of a struct are covered for the commit it is marked with.
Marked ==
  \A p \in Watched : \A e \in heap[p].subs :
    Covered(e, heap[p].source, heap[p].hash)

CalmInv ==
  /\ NothingGoes /\ MapKept /\ CodeBehind
  /\ StatusSubscribed /\ Delivering /\ Marked

-----------------------------------------------------------------------------
LEMMA InitCalm == Init => CalmInv
<1> SUFFICES ASSUME Init PROVE CalmInv
  OBVIOUS
<1> USE PtrAssumption, NilAssumption
<1>1. Watched = {}
  BY DEF Init, Watched
<1>2. NothingGoes
  BY DEF Init, NothingGoes, EmptyStruct, IdleJob, IdleWorker
<1>3. MapKept
  BY DEF Init, MapKept, IdleJob
<1>4. CodeBehind
  BY <1>1, RefAssumption DEF Init, CodeBehind, IdleWorker
<1>5. StatusSubscribed
  <2>1. status = [e \in Env |-> {}] /\ live \subseteq Env /\ queued = live
        /\ worker = IdleWorker
    BY DEF Init
  <2> QED
    BY <2>1 DEF StatusSubscribed, IdleWorker
<1>6. Delivering /\ Marked
  BY <1>1 DEF Init, Delivering, Marked, IdleJob
<1> QED
  BY <1>2, <1>3, <1>4, <1>5, <1>6 DEF CalmInv

(* A commit that covers an environment still does after the step. *)
CoverKept ==
  \A e \in live : \A r \in Repo : \A l \in Commit :
    l <= head[r] /\ Covered(e, r, l) => Covered(e, r, l)'

\* The goroutines go on as they are, or with one subscriber queued.
JobsAlike ==
  \A j \in Job :
    /\ job'[j].pc \in {"deliver", "update"} => job[j].pc \in {"deliver", "update"}
    /\ job'[j].pc = "compare" => job[j].pc = "compare"
    /\ job'[j].wr = job[j].wr /\ job'[j].latest = job[j].latest
    /\ job'[j].repos = job[j].repos /\ job'[j].subs = job[j].subs
    /\ job'[j].shrunk = job[j].shrunk
    /\ job[j].pc = "update" =>
         \/ job'[j].pc = "update" /\ job'[j].sub = job[j].sub
         \/ job[j].sub \in queued'

LEMMA AfterWriteAlike ==
  ASSUME TypeInv, NEW e \in Env
  PROVE  /\ \A j \in Job :
              LET new == JobsAfterWrite(e)[j] IN
              /\ new.pc = job[j].pc /\ new.wr = job[j].wr
              /\ new.latest = job[j].latest /\ new.repos = job[j].repos
              /\ new.subs = job[j].subs /\ new.shrunk = job[j].shrunk
              /\ new.sub = job[j].sub
         /\ job' = job \/ job' = JobsAfterWrite(e) => JobsAlike
<1>1. ASSUME NEW j \in Job
      PROVE  LET new == JobsAfterWrite(e)[j] IN
              /\ new.pc = job[j].pc /\ new.wr = job[j].wr
              /\ new.latest = job[j].latest /\ new.repos = job[j].repos
              /\ new.subs = job[j].subs /\ new.shrunk = job[j].shrunk
              /\ new.sub = job[j].sub
  BY DEF TypeInv, TypeOK, JobState, JobsAfterWrite
<1> QED
  BY <1>1 DEF JobsAlike

LEMMA WatchedTypes ==
  ASSUME TypeInv
  PROVE  /\ Watched \subseteq Ptr
         /\ \A p \in Ptr : /\ heap[p].source \in Repo /\ heap[p].hash \in Commit
                           /\ heap[p].subs \subseteq Env
         /\ \A p \in Watched : \E r \in Repo : state[r] = p
  BY DEF TypeInv, TypeOK, Watched, WatchedRepository

(* Steps of users and of the worker that leave the map and the structs. *)
LEMMA AlikeFrame ==
  ASSUME TypeInv, TypeInv', GenInv, CalmInv, JobsAlike, CoverKept,
         UNCHANGED <<state, heap, deleting>>, live \subseteq live',
         worker'.pc \notin {"unsubscribe", "unfinalize"},
         worker'.env \in live' \cup {Nil},
         \A e \in Env \ live' : status'[e] = {}
  PROVE  NothingGoes' /\ MapKept' /\ Delivering' /\ Marked'
<1>1. NothingGoes'
  BY DEF CalmInv, NothingGoes, JobsAlike
<1>2. Watched' = Watched
  BY DEF Watched
<1>3. MapKept'
  BY <1>2 DEF CalmInv, MapKept, JobsAlike
<1>4. Marked'
  <2> SUFFICES ASSUME NEW p \in Watched, NEW e \in heap[p].subs
               PROVE  Covered(e, heap[p].source, heap[p].hash)'
    BY <1>2 DEF Marked
  <2>1. e \in live /\ heap[p].source \in Repo /\ heap[p].hash \in Commit
    BY WatchedTypes DEF CalmInv, NothingGoes
  <2>2. /\ heap[p].hash <= head[heap[p].source]
        /\ Covered(e, heap[p].source, heap[p].hash)
    BY DEF CalmInv, CodeBehind, Marked
  <2>3. PICK r \in Repo, l \in Commit : r = heap[p].source /\ l = heap[p].hash
    BY <2>1
  <2>4. Covered(e, r, l)'
    BY <2>1, <2>2, <2>3 DEF CoverKept
  <2> QED
    BY <2>3, <2>4 DEF Covered
<1>5. Delivering'
  <2> SUFFICES ASSUME NEW j \in Job, job'[j].pc \in {"deliver", "update"},
                      NEW e \in heap[job[j].wr].subs,
                      e \notin job[j].subs,
                      ~(job'[j].pc = "update" /\ job'[j].sub = e)
               PROVE  Covered(e, heap[job[j].wr].source, job[j].latest)'
    BY DEF Delivering, JobsAlike
  <2>0. job[j].pc \in {"deliver", "update"}
    BY DEF JobsAlike
  <2>q. CASE job[j].pc = "update" /\ job[j].sub = e
    BY <2>q DEF JobsAlike, Covered
  <2>n. CASE ~(job[j].pc = "update" /\ job[j].sub = e)
    <3>1. job[j].wr \in Ptr /\ job[j].latest \in Commit
      BY <2>0 DEF TypeInv, TypeOK, Holds, JobHolds, JobState
    <3>2. e \in live /\ heap[job[j].wr].source \in Repo
      BY <3>1, WatchedTypes DEF CalmInv, NothingGoes
    <3>3. /\ job[j].latest <= head[heap[job[j].wr].source]
          /\ Covered(e, heap[job[j].wr].source, job[j].latest)
      BY <2>0, <2>n DEF CalmInv, Delivering, GenInv, JobsBehind
    <3>4. PICK r \in Repo, l \in Commit :
            r = heap[job[j].wr].source /\ l = job[j].latest
      BY <3>1, <3>2
    <3>5. Covered(e, r, l)'
      BY <3>2, <3>3, <3>4 DEF CoverKept
    <3> QED
      BY <3>4, <3>5 DEF Covered, JobsAlike
  <2> QED
    BY <2>q, <2>n
<1> QED
  BY <1>1, <1>3, <1>4, <1>5

LEMMA CoverFrame ==
  ASSUME TypeInv, queued \subseteq queued',
         UNCHANGED <<worker.env, worker.spec, worker.got>>,
         \A c \in Ref : Cloned(c)' => Cloned(c),
         \A e \in live : e \notin queued' =>
           spec'[e] = spec[e] /\ built'[e] = built[e]
  PROVE  CoverKept
<1>1. worker.spec \subseteq Ref
  BY DEF TypeInv, TypeOK, WorkerState
<1> QED
  BY <1>1 DEF CoverKept, Covered

LEMMA StatusFrame ==
  ASSUME TypeInv, TypeInv', CalmInv, queued \subseteq queued',
         \A e \in Env : \A r \in Repo : Subscribed(e, r) => Subscribed(e, r)',
         UNCHANGED <<status, worker.pc, worker.env, worker.spec, worker.left>>,
         \A e \in live' \ queued' : e \in live /\ spec'[e] = spec[e]
  PROVE  StatusSubscribed'
<1>1. ASSUME NEW e \in live', NEW c \in status[e]
      PROVE  \/ Subscribed(e, c.watch)'
             \/ /\ worker.env = e /\ worker.pc \in {"clone", "submit"}
                /\ c \in worker.left /\ e \in queued'
  <2>1. e \in live /\ e \in Env /\ c \in Ref
    BY <1>1 DEF TypeInv, TypeOK, CalmInv, NothingGoes
  <2>2. c.watch \in Repo
    BY <2>1, RefAssumption
  <2> QED
    BY <2>1, <2>2 DEF CalmInv, StatusSubscribed
<1> QED
  BY <1>1 DEF CalmInv, StatusSubscribed

LEMMA SubscribedFrame ==
  UNCHANGED <<state, heap>> =>
    \A e \in Env : \A r \in Repo : Subscribed(e, r) => Subscribed(e, r)'
  BY DEF Subscribed

-----------------------------------------------------------------------------
(* The steps of users. *)
LEMMA PushCalm ==
  ASSUME TypeInv, TypeInv', GenInv, CalmInv, NEW r \in Repo, Push(r)
  PROVE  CalmInv'
<1>1. UNCHANGED <<objects, queued, state, heap, job, worker, built>>
  BY DEF Push
<1>2. \A q \in Repo : head[q] <= head'[q] /\ head[q] \in Nat /\ head'[q] \in Nat
  BY DEF Push, TypeInv, TypeOK, Commit
<1>3. CoverKept
  BY <1>1, CoverFrame DEF objects, Cloned
<1>4. JobsAlike
  BY <1>1, AfterWriteAlike DEF JobsAlike
<1>5. NothingGoes' /\ MapKept' /\ Delivering' /\ Marked'
  BY <1>1, <1>3, <1>4, AlikeFrame DEF objects, CalmInv, NothingGoes
<1>6. StatusSubscribed'
  BY <1>1, StatusFrame, SubscribedFrame DEF objects
<1>7. CodeBehind'
  <2>1. ASSUME NEW p \in Watched PROVE heap[p].hash <= head'[heap[p].source]
    <3>1. heap[p].source \in Repo /\ heap[p].hash \in Commit
      BY WatchedTypes
    <3>2. heap[p].hash <= head[heap[p].source]
      BY DEF CalmInv, CodeBehind
    <3> QED
      BY <1>2, <3>1, <3>2 DEF Commit
  <2>2. ASSUME NEW c \in Ref
        PROVE  /\ worker.got[c] <= head'[c.clone]
               /\ \A e \in Env : built[e][c] <= head'[c.clone]
    <3>1. c.clone \in Repo
      BY RefAssumption
    <3>2. worker.got[c] \in Nat /\ \A e \in Env : built[e][c] \in Nat
      BY DEF TypeInv, TypeOK, WorkerState, Commit
    <3> QED
      BY <1>2, <3>1, <3>2 DEF CalmInv, CodeBehind
  <2> QED
    BY <1>1, <2>1, <2>2 DEF CodeBehind, Watched
<1> QED
  BY <1>5, <1>6, <1>7 DEF CalmInv

LEMMA ApplyCalm ==
  ASSUME TypeInv, TypeInv', GenInv, CalmInv,
         NEW e \in Env, NEW S \in Manifest, Apply(e, S)
  PROVE  CalmInv'
<1>1. /\ UNCHANGED <<head, deleting, status, state, heap, built>>
      /\ live' = live \cup {e} /\ spec' = [spec EXCEPT ![e] = S]
      /\ queued' = queued \cup {e} /\ job' = JobsAfterWrite(e)
      /\ worker' = WorkerAfterWrite(e)
  BY DEF Apply, Written
<1>2. UNCHANGED <<worker.pc, worker.env, worker.spec, worker.left, worker.cur,
                  worker.got>>
  BY <1>1, AfterWriteTypes
<1>3. \A d \in Env : d # e => spec'[d] = spec[d]
  BY <1>1 DEF TypeInv, TypeOK
<1>4. CoverKept
  <2>1. \A d \in live : d \in Env
    BY DEF TypeInv, TypeOK
  <2> QED
    BY <1>1, <1>2, <1>3, <2>1, CoverFrame DEF Cloned
<1>5. JobsAlike
  BY <1>1, AfterWriteAlike
<1>6. NothingGoes' /\ MapKept' /\ Delivering' /\ Marked'
  BY <1>1, <1>2, <1>4, <1>5, AlikeFrame DEF CalmInv, NothingGoes
<1>7. StatusSubscribed'
  <2>1. \A d \in live' \ queued' : d \in live /\ d \in Env /\ d # e
    BY <1>1 DEF TypeInv, TypeOK
  <2> QED
    BY <1>1, <1>2, <1>3, <2>1, StatusFrame, SubscribedFrame
<1>8. CodeBehind'
  BY <1>1, <1>2 DEF CalmInv, CodeBehind, Watched
<1> QED
  BY <1>6, <1>7, <1>8 DEF CalmInv

-----------------------------------------------------------------------------
(* The steps of the cron goroutines: one goroutine, and the mark of a struct. *)
LEMMA JobStepCalm ==
  ASSUME TypeInv, TypeInv', GenInv, CalmInv,
         NEW j \in Job, NEW rec \in JobState, JobGoes(j, rec),
         UNCHANGED <<head, objects, queued, worker, built, state>>,
         \A p \in Ptr : heap'[p].source = heap[p].source
                       /\ heap'[p].subs = heap[p].subs,
         \A p \in Watched :
           \/ heap'[p].hash = heap[p].hash
           \/ /\ heap'[p].hash <= head[heap[p].source]
              /\ \A e \in heap[p].subs :
                   Covered(e, heap[p].source, heap'[p].hash),
         rec.subs \subseteq live, ~rec.shrunk, rec.repos \subseteq Watched,
         rec.pc \in {"compare", "deliver", "update"} => rec.wr \in Watched,
         rec.pc \in {"deliver", "update"} =>
           \A e \in heap[rec.wr].subs :
             \/ e \in rec.subs
             \/ rec.pc = "update" /\ rec.sub = e
             \/ Covered(e, heap[rec.wr].source, rec.latest)
  PROVE  CalmInv'
<1>1. \A k \in Job : job'[k] = IF k = j THEN rec ELSE job[k]
  BY DEF JobGoes, TypeInv, TypeOK
<1>2. Watched' = Watched /\ Watched \subseteq Ptr
  BY DEF Watched
<1>3. NothingGoes'
  BY <1>1 DEF CalmInv, NothingGoes, objects
<1>4. MapKept'
  BY <1>1, <1>2 DEF CalmInv, MapKept
<1>5. CodeBehind'
  BY <1>2 DEF CalmInv, CodeBehind
<1>6. StatusSubscribed'
  <2>1. \A e \in Env : \A r \in Repo : Subscribed(e, r) => Subscribed(e, r)'
    BY DEF Subscribed
  <2> QED
    BY <2>1, StatusFrame DEF objects
<1>7. ASSUME NEW e, NEW r, NEW l, Covered(e, r, l) PROVE Covered(e, r, l)'
  BY <1>7 DEF Covered, Cloned, objects
<1>8. Marked'
  <2> SUFFICES ASSUME NEW p \in Watched, NEW e \in heap[p].subs
               PROVE  Covered(e, heap[p].source, heap[p].hash)'
    BY <1>2 DEF Marked
  <2>1. Covered(e, heap[p].source, heap'[p].hash)
    BY DEF CalmInv, Marked
  <2>2. PICK r, l : r = heap[p].source /\ l = heap'[p].hash
    OBVIOUS
  <2>3. Covered(e, r, l)'
    BY <1>7, <2>1, <2>2
  <2> QED
    BY <1>2, <2>2, <2>3 DEF Covered
<1>9. Delivering'
  <2> SUFFICES ASSUME NEW k \in Job, job'[k].pc \in {"deliver", "update"},
                      NEW e \in heap'[job'[k].wr].subs, e \notin job'[k].subs,
                      ~(job'[k].pc = "update" /\ job'[k].sub = e)
               PROVE  Covered(e, heap[job[k].wr].source, job[k].latest)'
    BY DEF Delivering
  <2>1. job'[k].wr \in Ptr
    BY DEF TypeInv, Holds, JobHolds
  <2>2. Covered(e, heap[job'[k].wr].source, job'[k].latest)
    BY <1>1, <2>1 DEF CalmInv, Delivering
  <2>3. PICK r, l : r = heap[job'[k].wr].source /\ l = job'[k].latest
    OBVIOUS
  <2>4. Covered(e, r, l)'
    BY <1>7, <2>2, <2>3
  <2> QED
    BY <2>1, <2>3, <2>4 DEF Covered
<1> QED
  BY <1>3, <1>4, <1>5, <1>6, <1>8, <1>9 DEF CalmInv

LEMMA ReconcileCalm ==
  ASSUME TypeInv, TypeInv', GenInv, CalmInv, faults' = 0,
         NEW j \in Job, Reconcile(j)
  PROVE  CalmInv'
<1>a. /\ job[j] \in JobState /\ JobHolds(job[j])
      /\ job[j].repos \subseteq Watched
      /\ job[j].pc \in {"compare", "deliver", "update"} => job[j].wr \in Watched
      /\ job[j].subs \subseteq live /\ ~job[j].shrunk
      /\ Watched \subseteq Ptr
  BY WatchedTypes DEF TypeInv, TypeOK, Holds, CalmInv, MapKept, NothingGoes
<1>f. faults \in Nat
  BY DEF TypeInv, TypeOK
<1>n. /\ NextRepository(j) \in JobState /\ NextRepository(j).pc = "walk"
      /\ NextRepository(j).subs = {} /\ ~NextRepository(j).shrunk
      /\ NextRepository(j).repos \subseteq Watched
  BY <1>a, IdleTypes DEF NextRepository, IdleJob, JobState
<1>i. /\ IdleJob \in JobState /\ IdleJob.pc = "idle"
      /\ IdleJob.subs = {} /\ ~IdleJob.shrunk /\ IdleJob.repos = {}
  BY IdleTypes DEF IdleJob
<1> USE PtrAssumption, NilAssumption
<1>1. CASE Tick(j)
  <2> DEFINE rec == [IdleJob EXCEPT !.pc = "walk",
                       !.repos = {state[r] : r \in Repo} \ {Absent}]
  <2>1. {state[r] : r \in Repo} \ {Absent} \subseteq Watched
    BY DEF CalmInv, MapKept, TypeInv, TypeOK, Watched
  <2>2. /\ rec \in JobState /\ rec.pc = "walk" /\ rec.subs = {} /\ ~rec.shrunk
        /\ rec.repos \subseteq Watched
    BY <1>a, <1>i, <2>1 DEF IdleJob, JobState
  <2>3. JobGoes(j, rec) /\ UNCHANGED heap
    BY <1>1 DEF Tick
  <2> HIDE DEF rec
  <2> QED
    BY <1>1, <2>2, <2>3, JobStepCalm DEF Tick
<1>2. CASE Clone(j)
  <2>1. PICK p \in job[j].repos \ {Nil} :
          JobGoes(j, [job[j] EXCEPT !.pc = "compare", !.repos = @ \ {p},
                                    !.wr = p, !.latest = head[heap[p].source]])
    BY <1>2 DEF Clone
  <2> DEFINE rec == [job[j] EXCEPT !.pc = "compare", !.repos = @ \ {p},
                                   !.wr = p, !.latest = head[heap[p].source]]
  <2>2. p \in Watched /\ head[heap[p].source] \in Commit
    BY <1>a DEF TypeInv, TypeOK, WatchedRepository
  <2>3. /\ rec \in JobState /\ rec.pc = "compare" /\ rec.wr = p
        /\ rec.subs = job[j].subs /\ ~rec.shrunk
        /\ rec.repos \subseteq job[j].repos
    BY <1>a, <2>2 DEF JobState
  <2>4. JobGoes(j, rec) /\ UNCHANGED heap
    BY <1>2, <2>1 DEF Clone
  <2> HIDE DEF rec
  <2> QED
    BY <1>2, <1>a, <2>2, <2>3, <2>4, JobStepCalm DEF Clone
<1>3. CASE CloneFails(j) \/ FetchFails(j)
  BY <1>3, <1>f DEF CloneFails, FetchFails
<1>4. CASE TickPanics(j)
  BY <1>4, <1>a DEF TickPanics
<1>5. CASE TickEnds(j)
  BY <1>5, <1>i, JobStepCalm DEF TickEnds
<1>6. CASE Compare(j)
  <2> DEFINE rec == [job[j] EXCEPT !.pc = "deliver",
                                   !.subs = heap[job[j].wr].subs]
  <2>1. job[j].wr \in Watched /\ job[j].wr \in Ptr
    BY <1>6, <1>a DEF Compare
  <2>2. heap[job[j].wr].subs \in SUBSET Env /\ heap[job[j].wr].subs \subseteq live
    BY <2>1, WatchedTypes DEF CalmInv, NothingGoes
  <2>3. /\ rec \in JobState /\ rec.wr = job[j].wr /\ ~rec.shrunk
        /\ rec.subs = heap[job[j].wr].subs /\ rec.repos = job[j].repos
    BY <1>a, <2>2 DEF JobState
  <2>4. JobGoes(j, rec) \/ JobGoes(j, NextRepository(j))
    BY <1>6 DEF Compare
  <2>5. UNCHANGED heap
    BY <1>6 DEF Compare
  <2> HIDE DEF rec
  <2>6. CASE JobGoes(j, rec)
    BY <1>6, <1>a, <2>1, <2>2, <2>3, <2>5, <2>6, JobStepCalm DEF Compare
  <2>7. CASE JobGoes(j, NextRepository(j))
    BY <1>6, <1>n, <2>5, <2>7, JobStepCalm DEF Compare
  <2> QED
    BY <2>4, <2>6, <2>7
<1>7. CASE Mark(j)
  <2> DEFINE w == job[j].wr
  <2>1. /\ w \in Watched /\ w \in Ptr /\ job[j].latest \in Commit
        /\ heap[w] \in WatchedRepository
    BY <1>7, <1>a DEF Mark, JobState, TypeInv, TypeOK
  <2>2. heap' = [heap EXCEPT ![w].hash = job[j].latest]
    BY <1>7 DEF Mark
  <2>3. /\ \A p \in Ptr : /\ heap'[p].source = heap[p].source
                          /\ heap'[p].subs = heap[p].subs
        /\ \A p \in Ptr : p # w => heap'[p].hash = heap[p].hash
        /\ heap'[w].hash = job[j].latest
    BY <2>1, <2>2 DEF TypeInv, TypeOK, WatchedRepository
  <2>4. job[j].latest <= head[heap[w].source]
    BY <1>7 DEF Mark, GenInv, JobsBehind
  <2>5. \A e \in heap[w].subs : Covered(e, heap[w].source, job[j].latest)
    BY <1>7 DEF Mark, CalmInv, Delivering
  <2> HIDE DEF w
  <2>6. \A p \in Watched :
          \/ heap'[p].hash = heap[p].hash
          \/ /\ heap'[p].hash <= head[heap[p].source]
             /\ \A e \in heap[p].subs :
                  Covered(e, heap[p].source, heap'[p].hash)
    BY <1>a, <2>3, <2>4, <2>5
  <2> QED
    BY <1>7, <1>n, <2>3, <2>6, JobStepCalm DEF Mark
<1>8. CASE FetchNotFound(j)
  BY <1>8, <1>a DEF FetchNotFound
<1>9. CASE Fetch(j)
  <2>1. PICK e \in job[j].subs \cap live :
          JobGoes(j, IF gitState[e][heap[job[j].wr].source] = job[j].latest
                       THEN Delivered(j, e)
                       ELSE [Delivered(j, e) EXCEPT !.pc = "update",
                                                    !.sub = e, !.fresh = TRUE])
    BY <1>9 DEF Fetch
  <2> DEFINE rec == [Delivered(j, e) EXCEPT !.pc = "update", !.sub = e,
                                            !.fresh = TRUE]
             r == heap[job[j].wr].source
  <2>2. /\ job[j].pc = "deliver" /\ UNCHANGED heap
        /\ job[j].wr \in Watched /\ e \in Env
    BY <1>9, <1>a DEF Fetch, JobState
  <2>3. /\ Delivered(j, e) \in JobState /\ Delivered(j, e).wr = job[j].wr
        /\ Delivered(j, e).pc = "deliver"
        /\ Delivered(j, e).subs = job[j].subs \ {e}
        /\ Delivered(j, e).repos = job[j].repos /\ ~Delivered(j, e).shrunk
        /\ Delivered(j, e).latest = job[j].latest
    BY <1>a, <2>2 DEF Delivered, JobState
  <2>4. /\ rec \in JobState /\ rec.wr = job[j].wr /\ rec.pc = "update"
        /\ rec.sub = e /\ rec.subs = job[j].subs \ {e}
        /\ rec.repos = job[j].repos /\ ~rec.shrunk
        /\ rec.latest = job[j].latest
    BY <2>2, <2>3 DEF JobState
  <2>5. \A d \in heap[job[j].wr].subs :
          d \in job[j].subs \/ Covered(d, r, job[j].latest)
    BY <2>2 DEF CalmInv, Delivering
  <2>6. ASSUME gitState[e][r] = job[j].latest PROVE Covered(e, r, job[j].latest)
    <3>1. e \in live \ deleting
      BY DEF CalmInv, NothingGoes
    <3>2. CASE e \notin queued /\ worker.env = e
      BY <2>6, <3>1, <3>2 DEF GenInv, Generated, UnderWay, Covered
    <3>3. CASE e \notin queued /\ worker.env # e
      BY <2>6, <3>1, <3>3 DEF GenInv, Generated, Finished, Covered
    <3> QED
      BY <3>2, <3>3 DEF Covered
  <2>7. IF gitState[e][r] = job[j].latest THEN JobGoes(j, Delivered(j, e))
                                          ELSE JobGoes(j, rec)
    BY <2>1
  <2>8. UNCHANGED <<head, objects, queued, worker, built, state>>
    BY <1>9 DEF Fetch
  <2> HIDE DEF rec
  <2>9. CASE gitState[e][r] = job[j].latest
    BY <1>a, <2>2, <2>3, <2>5, <2>6, <2>7, <2>8, <2>9, JobStepCalm
  <2>10. CASE gitState[e][r] # job[j].latest
    BY <1>a, <2>2, <2>4, <2>5, <2>7, <2>8, <2>10, JobStepCalm
  <2> QED
    BY <2>9, <2>10
<1>10. CASE UpdateGitState(j)
  <2> DEFINE e == job[j].sub
             rec == [job[j] EXCEPT !.pc = "deliver", !.sub = Nil,
                                   !.fresh = FALSE]
  <2>1. e \in Env /\ job[j].pc = "update"
    BY <1>10, <1>a DEF UpdateGitState, JobHolds
  <2>2. /\ job' = [JobsAfterWrite(e) EXCEPT ![j] = rec]
        /\ worker' = WorkerAfterWrite(e) /\ queued' = queued \cup {e}
        /\ UNCHANGED <<head, live, deleting, spec, status, state, heap, built>>
    BY <1>10 DEF UpdateGitState
  <2>3. /\ rec.pc = "deliver" /\ rec.wr = job[j].wr
        /\ rec.latest = job[j].latest /\ rec.repos = job[j].repos
        /\ rec.subs = job[j].subs /\ rec.shrunk = job[j].shrunk
    BY <1>a DEF JobState
  <2> HIDE DEF rec, e
  <2>4. UNCHANGED <<worker.pc, worker.env, worker.spec, worker.left,
                    worker.cur, worker.got>>
    BY <2>1, <2>2, AfterWriteTypes
  <2>5. JobsAlike
    <3>1. ASSUME NEW k \in Job, k # j
          PROVE  /\ job'[k].pc = job[k].pc /\ job'[k].wr = job[k].wr
                 /\ job'[k].latest = job[k].latest
                 /\ job'[k].repos = job[k].repos /\ job'[k].subs = job[k].subs
                 /\ job'[k].shrunk = job[k].shrunk /\ job'[k].sub = job[k].sub
      BY <2>1, <2>2, <3>1, AfterWriteAlike, AfterWriteTypes
    <3>2. job'[j] = rec
      BY <2>1, <2>2, AfterWriteTypes
    <3>3. job[j].sub \in queued'
      BY <2>2 DEF e
    <3>4. /\ job'[j].pc = "deliver" /\ job'[j].wr = job[j].wr
          /\ job'[j].latest = job[j].latest /\ job'[j].repos = job[j].repos
          /\ job'[j].subs = job[j].subs /\ job'[j].shrunk = job[j].shrunk
      BY <2>3, <3>2
    <3> QED
      BY <2>1, <3>1, <3>3, <3>4 DEF JobsAlike
  <2>6. CoverKept
    BY <2>2, <2>4, CoverFrame DEF Cloned
  <2>7. NothingGoes' /\ MapKept' /\ Delivering' /\ Marked'
    BY <2>2, <2>4, <2>5, <2>6, AlikeFrame DEF CalmInv, NothingGoes
  <2>8. StatusSubscribed'
    BY <2>2, <2>4, StatusFrame, SubscribedFrame
  <2>9. CodeBehind'
    BY <2>2, <2>4 DEF CalmInv, CodeBehind, Watched
  <2> QED
    BY <2>7, <2>8, <2>9 DEF CalmInv
<1>11. CASE UpdateFails(j)
  BY <1>11, <1>n, JobStepCalm DEF UpdateFails
<1> QED
  BY <1>1, <1>2, <1>3, <1>4, <1>5, <1>6, <1>7, <1>8, <1>9, <1>10, <1>11
  DEF Reconcile

-----------------------------------------------------------------------------
(* The steps of the worker. *)
LEMMA StartCalm ==
  ASSUME TypeInv, TypeInv', GenInv, CalmInv, NEW e \in Env, StartReconcile(e)
  PROVE  CalmInv'
<1>1. /\ worker.env = Nil /\ worker.pc = "idle" /\ queued' = queued \ {e}
      /\ UNCHANGED <<head, objects, state, heap, job, built>>
      /\ worker' = IF e \notin live THEN IdleWorker
                   ELSE [IdleWorker EXCEPT
                           !.pc = IF e \in deleting THEN "unsubscribe"
                                                   ELSE "finalizer",
                           !.env = e, !.spec = spec[e], !.left = spec[e],
                           !.fresh = TRUE]
  BY DEF StartReconcile, WorkerGoes, TypeInv, Holds
<1>2. UNCHANGED <<live, deleting, spec, status>> /\ live \subseteq Env
  BY <1>1 DEF objects, TypeInv, TypeOK
<1>3. IF e \in live
      THEN /\ worker'.pc = "finalizer" /\ worker'.env = e
           /\ worker'.spec = spec[e] /\ worker'.left = spec[e]
           /\ worker'.got = [c \in Ref |-> 0]
      ELSE /\ worker'.pc = "idle" /\ worker'.env = Nil
           /\ worker'.spec = {} /\ worker'.left = {}
           /\ worker'.got = [c \in Ref |-> 0]
  BY <1>1 DEF IdleWorker, CalmInv, NothingGoes
<1>4. CoverKept
  <2> SUFFICES ASSUME NEW d \in live, NEW r \in Repo, NEW l \in Commit,
                      Covered(d, r, l)
               PROVE  Covered(d, r, l)'
    BY DEF CoverKept
  <2>1. CASE d = e
    BY <1>2, <1>3, <2>1 DEF Covered, Cloned
  <2>2. CASE d # e
    <3>1. worker.env # d /\ worker'.env # d
      BY <1>1, <1>2, <1>3, <2>2, NilAssumption
    <3> QED
      BY <1>1, <1>2, <2>2, <3>1 DEF Covered
  <2> QED
    BY <2>1, <2>2
<1>5. JobsAlike
  BY <1>1, AfterWriteAlike DEF JobsAlike
<1>6. NothingGoes' /\ MapKept' /\ Delivering' /\ Marked'
  BY <1>1, <1>2, <1>3, <1>4, <1>5, AlikeFrame DEF CalmInv, NothingGoes
<1>7. StatusSubscribed'
  <2>1. ASSUME NEW d \in live, NEW c \in status[d] PROVE Subscribed(d, c.watch)'
    BY <1>1, <2>1 DEF CalmInv, StatusSubscribed, Subscribed
  <2>2. ASSUME NEW d \in live \ queued'
        PROVE  worker'.env = d \/ status[d] = spec[d] \/ spec[d] \in Teardown
    <3>1. d # e => worker.env # d
      BY <1>1, <1>2, NilAssumption
    <3> QED
      BY <1>1, <1>3, <2>2, <3>1 DEF CalmInv, StatusSubscribed
  <2> QED
    BY <1>2, <1>3, <2>1, <2>2 DEF StatusSubscribed
<1>8. CodeBehind'
  <2>1. \A c \in Ref : worker'.got[c] <= head[c.clone]
    BY <1>3, RefAssumption DEF TypeInv, TypeOK, Commit
  <2> QED
    BY <1>1, <2>1 DEF CalmInv, CodeBehind, Watched
<1> QED
  BY <1>6, <1>7, <1>8 DEF CalmInv

LEMMA ConflictCalm ==
  ASSUME TypeInv, TypeInv', GenInv, CalmInv, Conflict
  PROVE  CalmInv'
<1>1. /\ worker.pc \in {"finalizer", "status"} /\ worker.env \in live
      /\ worker' = IdleWorker /\ queued' = queued \cup {worker.env}
      /\ UNCHANGED <<head, live, deleting, spec, status, state, heap, job, built>>
  BY DEF Conflict, ReconcileFails, WorkerGoes, objects, CalmInv, NothingGoes,
         TypeInv, Holds
<1>2. /\ worker'.pc = "idle" /\ worker'.env = Nil /\ worker'.left = {}
      /\ worker'.spec = {} /\ worker'.got = [c \in Ref |-> 0]
      /\ Nil \notin live /\ live \subseteq Env
  BY <1>1, NilAssumption DEF IdleWorker, TypeInv, TypeOK
<1>3. CoverKept
  BY <1>1, <1>2 DEF CoverKept, Covered
<1>4. JobsAlike
  BY <1>1, AfterWriteAlike DEF JobsAlike
<1>5. NothingGoes' /\ MapKept' /\ Delivering' /\ Marked'
  BY <1>1, <1>2, <1>3, <1>4, AlikeFrame DEF CalmInv, NothingGoes
<1>6. StatusSubscribed'
  <2>1. ASSUME NEW d \in live, NEW c \in status[d] PROVE Subscribed(d, c.watch)'
    BY <1>1, <2>1 DEF CalmInv, StatusSubscribed, Subscribed
  <2>2. ASSUME NEW d \in live \ queued'
        PROVE  status[d] = spec[d] \/ spec[d] \in Teardown
    BY <1>1, <2>2 DEF CalmInv, StatusSubscribed
  <2> QED
    BY <1>1, <1>2, <2>1, <2>2 DEF StatusSubscribed
<1>7. CodeBehind'
  <2>1. \A c \in Ref : worker'.got[c] <= head[c.clone]
    BY <1>2, RefAssumption DEF TypeInv, TypeOK, Commit
  <2> QED
    BY <1>1, <2>1 DEF CalmInv, CodeBehind, Watched
<1> QED
  BY <1>5, <1>6, <1>7 DEF CalmInv

LEMMA EnsureFinalizerCalm ==
  ASSUME TypeInv, TypeInv', GenInv, CalmInv, EnsureFinalizer
  PROVE  CalmInv'
<1>1. /\ worker.pc = "finalizer" /\ worker.env \in live /\ worker.env \in Env
      /\ worker' = [worker EXCEPT !.pc = "status"]
      /\ queued \subseteq queued'
      /\ job' = job \/ job' = JobsAfterWrite(worker.env)
      /\ UNCHANGED <<head, live, deleting, spec, status, state, heap, built>>
  BY NilAssumption
  DEF EnsureFinalizer, Written, WorkerGoes, CalmInv, NothingGoes, TypeInv, TypeOK,
      Holds
<1>2. /\ worker'.pc = "status"
      /\ UNCHANGED <<worker.env, worker.spec, worker.left, worker.got>>
  BY <1>1 DEF TypeInv, TypeOK, WorkerState
<1>3. CoverKept
  BY <1>1, <1>2, CoverFrame DEF Cloned
<1>4. JobsAlike
  BY <1>1, AfterWriteAlike
<1>5. NothingGoes' /\ MapKept' /\ Delivering' /\ Marked'
  BY <1>1, <1>2, <1>3, <1>4, AlikeFrame DEF CalmInv, NothingGoes
<1>6. StatusSubscribed'
  <2>1. ASSUME NEW d \in live, NEW c \in status[d] PROVE Subscribed(d, c.watch)'
    BY <1>1, <2>1 DEF CalmInv, StatusSubscribed, Subscribed
  <2> QED
    BY <1>1, <1>2, <2>1 DEF CalmInv, StatusSubscribed
<1>7. CodeBehind'
  BY <1>1, <1>2 DEF CalmInv, CodeBehind, Watched
<1> QED
  BY <1>5, <1>6, <1>7 DEF CalmInv

LEMMA UpdateStatusCalm ==
  ASSUME TypeInv, TypeInv', GenInv, CalmInv, UpdateStatus
  PROVE  CalmInv'
<1> DEFINE e == worker.env
<1>1. /\ worker.pc = "status" /\ e \in live /\ e \in Env
      /\ worker' = [worker EXCEPT !.pc = "clone"]
      /\ queued \subseteq queued'
      /\ job' = job \/ job' = JobsAfterWrite(e)
      /\ UNCHANGED <<head, live, deleting, spec, state, heap, built>>
      /\ \/ /\ status' = status
            /\ status[e] = worker.spec \/ worker.spec \in Teardown
         \/ status' = [status EXCEPT ![e] = worker.spec] /\ e \in queued'
  BY NilAssumption
  DEF UpdateStatus, StatusDirty, Written, WorkerGoes, CalmInv, NothingGoes, TypeInv, TypeOK,
      Holds
<1>2. /\ worker'.pc = "clone"
      /\ UNCHANGED <<worker.env, worker.spec, worker.left, worker.got>>
  BY <1>1 DEF TypeInv, TypeOK, WorkerState
<1>3. CoverKept
  BY <1>1, <1>2, CoverFrame DEF Cloned
<1>4. JobsAlike
  BY <1>1, AfterWriteAlike
<1>s. /\ status'[e] = worker.spec \/ worker.spec \in Teardown
      /\ \A d \in Env : d # e => status'[d] = status[d]
      /\ status' = status \/ (status'[e] = worker.spec /\ e \in queued')
  BY <1>1 DEF TypeInv, TypeOK
<1> HIDE DEF e
<1>5. NothingGoes' /\ MapKept' /\ Delivering' /\ Marked'
  BY <1>1, <1>2, <1>3, <1>4, <1>s, AlikeFrame DEF CalmInv, NothingGoes
<1>6. StatusSubscribed'
  <2>1. ASSUME NEW d \in live, NEW c \in status[d] PROVE Subscribed(d, c.watch)'
    BY <1>1, <2>1 DEF CalmInv, StatusSubscribed, Subscribed
  <2>2. ASSUME NEW d \in live, NEW c \in status'[d]
        PROVE  \/ Subscribed(d, c.watch)'
               \/ worker'.env = d /\ c \in worker'.left /\ d \in queued'
    <3>1. CASE status'[d] = status[d]
      BY <2>1, <2>2, <3>1
    <3>2. CASE status'[d] # status[d]
      <4>1. d = e /\ e \in queued' /\ c \in worker.spec
        BY <1>s, <2>2, <3>2 DEF TypeInv, TypeOK
      <4>2. worker.left = worker.spec
        BY <1>1 DEF CalmInv, StatusSubscribed
      <4> QED
        BY <1>2, <4>1, <4>2 DEF e
    <3> QED
      BY <3>1, <3>2
  <2>3. ASSUME NEW d \in live \ queued'
        PROVE  worker'.env = d \/ status'[d] = spec[d] \/ spec[d] \in Teardown
    BY <1>1, <1>2, <1>s, <2>3 DEF CalmInv, StatusSubscribed, TypeInv, TypeOK, e
  <2>4. /\ status'[worker'.env] = worker'.spec \/ worker'.spec \in Teardown
        /\ worker'.left \subseteq worker'.spec
    BY <1>2, <1>s DEF CalmInv, StatusSubscribed, e
  <2> QED
    BY <1>1, <1>2, <2>2, <2>3, <2>4 DEF StatusSubscribed
<1>7. CodeBehind'
  BY <1>1, <1>2 DEF CalmInv, CodeBehind, Watched
<1> QED
  BY <1>5, <1>6, <1>7 DEF CalmInv

LEMMA CloneComponentCalm ==
  ASSUME TypeInv, TypeInv', GenInv, CalmInv, CloneComponent
  PROVE  CalmInv'
<1>1. PICK c \in worker.left :
        worker' = [worker EXCEPT !.pc = "submit", !.cur = c,
                                 !.got[c] = head[c.clone]]
  BY DEF CloneComponent, WorkerGoes
<1>2. /\ worker.pc = "clone" /\ worker'.pc = "submit" /\ worker'.cur = c
      /\ UNCHANGED <<worker.env, worker.spec, worker.left>>
      /\ worker.got \in [Ref -> Commit] /\ c \in Ref /\ c.clone \in Repo
      /\ worker.spec \subseteq Ref
  BY <1>1, RefAssumption DEF CloneComponent, TypeInv, TypeOK, WorkerState
<1>3. /\ worker'.got[c] = head[c.clone]
      /\ \A d \in Ref : d # c => worker'.got[d] = worker.got[d]
  BY <1>1, <1>2 DEF TypeInv, TypeOK, WorkerState
<1>4. UNCHANGED <<head, live, deleting, spec, status, queued, state, heap, job,
                  built>>
  BY DEF CloneComponent, objects
<1>5. CoverKept
  <2> SUFFICES ASSUME NEW e \in live, NEW r \in Repo, NEW l \in Commit,
                      l <= head[r], Covered(e, r, l)
               PROVE  Covered(e, r, l)'
    BY DEF CoverKept
  <2>1. ASSUME NEW d \in worker.spec, d.clone = r, Cloned(d)',
               \A b \in worker.spec : b.clone = r /\ Cloned(b) => worker.got[b] >= l
        PROVE  worker'.got[d] >= l
    <3>1. CASE d = c
      <4>1. head[r] \in Nat /\ l \in Nat
        BY DEF TypeInv, TypeOK, Commit
      <4> QED
        BY <1>3, <2>1, <3>1, <4>1
    <3>2. CASE d # c
      BY <1>2, <1>3, <2>1, <3>2 DEF Cloned
    <3> QED
      BY <3>1, <3>2
  <2> QED
    BY <1>2, <1>4, <2>1 DEF Covered
<1>6. JobsAlike
  BY <1>4 DEF JobsAlike
<1>7. NothingGoes' /\ MapKept' /\ Delivering' /\ Marked'
  BY <1>2, <1>4, <1>5, <1>6, AlikeFrame DEF CalmInv, NothingGoes
<1>8. StatusSubscribed'
  BY <1>2, <1>4 DEF CalmInv, StatusSubscribed, Subscribed
<1>9. CodeBehind'
  <2>1. \A d \in Ref : worker'.got[d] <= head[d.clone]
    <3>1. head[c.clone] <= head[c.clone]
      BY <1>2 DEF TypeInv, TypeOK, Commit
    <3>2. \A d \in Ref : worker.got[d] <= head[d.clone]
      BY DEF CalmInv, CodeBehind
    <3> QED
      BY <1>3, <3>1, <3>2
  <2> QED
    BY <1>4, <2>1 DEF CalmInv, CodeBehind, Watched
<1> QED
  BY <1>7, <1>8, <1>9 DEF CalmInv

LEMMA FinishCalm ==
  ASSUME TypeInv, TypeInv', GenInv, CalmInv, FinishReconcile
  PROVE  CalmInv'
<1> DEFINE e == worker.env
<1>1. /\ worker.pc = "clone" /\ worker.left = {} /\ e \in live /\ e \in Env
      /\ worker' = IdleWorker /\ built' = [built EXCEPT ![e] = worker.got]
      /\ UNCHANGED <<head, live, deleting, spec, status, queued, state, heap,
                     job>>
  BY NilAssumption
  DEF FinishReconcile, WorkerGoes, objects, CalmInv, NothingGoes, TypeInv,
      TypeOK, Holds
<1>2. /\ worker'.pc = "idle" /\ worker'.env = Nil /\ worker'.left = {}
      /\ worker'.spec = {} /\ worker'.got = [c \in Ref |-> 0]
      /\ Nil \notin live /\ live \subseteq Env
  BY <1>1, NilAssumption DEF IdleWorker, TypeInv, TypeOK
<1>3. built'[e] = worker.got /\ \A d \in Env : d # e => built'[d] = built[d]
  BY <1>1 DEF TypeInv, TypeOK
<1>4. e \notin queued => worker.spec = spec[e]
  BY <1>1 DEF CalmInv, NothingGoes, GenInv, Generated, UnderWay
<1> HIDE DEF e
<1>5. CoverKept
  <2> SUFFICES ASSUME NEW d \in live, NEW r \in Repo, NEW l \in Commit,
                      Covered(d, r, l)
               PROVE  Covered(d, r, l)'
    BY DEF CoverKept
  <2>1. CASE d = e
    BY <1>1, <1>2, <1>3, <1>4, <2>1 DEF Covered, Cloned, e
  <2>2. CASE d # e
    BY <1>1, <1>2, <1>3, <2>2 DEF Covered, e
  <2> QED
    BY <2>1, <2>2
<1>6. JobsAlike
  BY <1>1 DEF JobsAlike
<1>7. NothingGoes' /\ MapKept' /\ Delivering' /\ Marked'
  BY <1>1, <1>2, <1>5, <1>6, AlikeFrame DEF CalmInv, NothingGoes
<1>8. StatusSubscribed'
  <2>1. ASSUME NEW d \in live, NEW c \in status[d] PROVE Subscribed(d, c.watch)'
    BY <1>1, <2>1 DEF CalmInv, StatusSubscribed, Subscribed
  <2>2. ASSUME NEW d \in live \ queued'
        PROVE  status[d] = spec[d] \/ spec[d] \in Teardown
    BY <1>1, <1>4, <2>2 DEF CalmInv, StatusSubscribed, e
  <2> QED
    BY <1>1, <1>2, <2>1, <2>2 DEF StatusSubscribed
<1>9. CodeBehind'
  <2>1. \A c \in Ref : worker'.got[c] <= head[c.clone]
    BY <1>2, RefAssumption DEF TypeInv, TypeOK, Commit
  <2>2. \A c \in Ref : \A d \in Env : built'[d][c] <= head[c.clone]
    BY <1>3 DEF CalmInv, CodeBehind
  <2> QED
    BY <1>1, <2>1, <2>2 DEF CalmInv, CodeBehind, Watched
<1> QED
  BY <1>7, <1>8, <1>9 DEF CalmInv

LEMMA SubmitCalm ==
  ASSUME TypeInv, TypeInv', GenInv, CalmInv, SubmitToGitReconciler
  PROVE  CalmInv'
<1>0. PICK e, r : e = worker.env /\ r = worker.cur.watch
  OBVIOUS
<1>1. /\ worker.pc = "submit" /\ e \in live /\ e \in Env
      /\ worker.cur \in worker.left /\ worker.cur \in Ref /\ r \in Repo
      /\ worker' = [worker EXCEPT !.pc = "clone", !.cur = Nil,
                                  !.left = @ \ {worker.cur}]
      /\ Subscribe(r, e)
      /\ UNCHANGED <<head, live, deleting, spec, status, queued, built>>
  BY <1>0, NilAssumption, RefAssumption
  DEF SubmitToGitReconciler, WorkerGoes, objects, CalmInv, NothingGoes, TypeInv,
      TypeOK, Holds, WorkerState
<1>2. /\ worker'.pc = "clone" /\ worker'.left = worker.left \ {worker.cur}
      /\ UNCHANGED <<worker.env, worker.spec, worker.got>>
  BY <1>1 DEF TypeInv, TypeOK, WorkerState
<1>3. CoverKept
  BY <1>1, <1>2, CoverFrame DEF Cloned
<1>4. Subscribed(e, r) \/ e \in queued \/ spec[e] \in Teardown
  <2>1. CASE status[e] = worker.spec
    BY <1>0, <1>1, <2>1 DEF CalmInv, StatusSubscribed
  <2>2. CASE worker.spec \in Teardown
    BY <1>0, <1>1, <2>2 DEF CalmInv, NothingGoes, GenInv, Generated, UnderWay
  <2> QED
    BY <1>0, <1>1, <2>1, <2>2 DEF CalmInv, StatusSubscribed
<1>w. worker.got \in [Ref -> Commit] /\ worker.spec \subseteq Ref
  BY DEF TypeInv, TypeOK, WorkerState
<1>5. ASSUME Subscribed(e, r)',
             \A d \in Env : \A q \in Repo : Subscribed(d, q) => Subscribed(d, q)'
      PROVE  StatusSubscribed'
  <2>1. ASSUME NEW d \in live, NEW c \in status[d]
        PROVE  \/ Subscribed(d, c.watch)'
               \/ /\ worker.env = d /\ c \in worker'.left /\ d \in queued
    <3>1. d \in Env /\ c \in Ref
      BY DEF TypeInv, TypeOK
    <3>2. c.watch \in Repo
      BY <3>1, RefAssumption
    <3>3. CASE Subscribed(d, c.watch)
      BY <1>5, <3>1, <3>2, <3>3
    <3>4. CASE worker.env = d /\ c = worker.cur
      BY <1>0, <1>5, <3>4
    <3>5. CASE worker.env = d /\ c # worker.cur /\ c \in worker.left /\ d \in queued
      BY <1>2, <3>5
    <3> QED
      BY <3>3, <3>4, <3>5 DEF CalmInv, StatusSubscribed
  <2> QED
    BY <1>1, <1>2, <2>1 DEF CalmInv, StatusSubscribed
<1>6. CASE state[r] \in Ptr
  <2> DEFINE p == state[r]
  <2>1. AppendSubscriber(p, e) /\ UNCHANGED state
    BY <1>1, <1>6 DEF Subscribe
  <2>2. /\ p \in Ptr /\ p \in Watched /\ heap[p] \in WatchedRepository
        /\ heap' = [heap EXCEPT ![p].subs = @ \cup {e}]
    BY <1>1, <1>6, <2>1 DEF AppendSubscriber, Watched, TypeInv, TypeOK
  <2>3. UNCHANGED job
    BY <2>1 DEF AppendSubscriber, CalmInv, NothingGoes, TypeInv, TypeOK
  <2> HIDE DEF p
  <2>4. /\ \A q \in Ptr : /\ heap'[q].source = heap[q].source
                          /\ heap'[q].hash = heap[q].hash
                          /\ q # p => heap'[q].subs = heap[q].subs
        /\ heap'[p].subs = heap[p].subs \cup {e}
    BY <2>2 DEF TypeInv, TypeOK, WatchedRepository
  <2>5. Watched' = Watched /\ Watched \subseteq Ptr
    BY <2>1 DEF Watched
  <2>6. NothingGoes'
    BY <1>1, <1>2, <2>3, <2>4 DEF CalmInv, NothingGoes
  <2>7. MapKept'
    BY <2>1, <2>3, <2>4, <2>5 DEF CalmInv, MapKept
  <2>8. CodeBehind'
    BY <1>1, <1>2, <2>4, <2>5 DEF CalmInv, CodeBehind
  <2>9. StatusSubscribed'
    <3>1. \A d \in Env : \A q \in Repo : Subscribed(d, q) => Subscribed(d, q)'
      BY <2>1, <2>4 DEF Subscribed
    <3>2. Subscribed(e, r)'
      BY <1>6, <2>1, <2>4 DEF Subscribed, p
    <3> QED
      BY <1>5, <3>1, <3>2
  <2>10. ASSUME NEW q \in Ptr, NEW d \in heap'[q].subs, d \notin heap[q].subs
         PROVE  d = e /\ (e \in queued \/ spec[e] \in Teardown)
    BY <1>1, <1>4, <2>4, <2>10 DEF Subscribed, p
  <2>11. Marked'
    <3> SUFFICES ASSUME NEW q \in Watched, NEW d \in heap'[q].subs
                 PROVE  Covered(d, heap[q].source, heap[q].hash)'
      BY <2>5 DEF Marked
    <3>1. CASE d \notin heap[q].subs
      BY <1>1, <2>5, <2>10, <3>1 DEF Covered
    <3>2. CASE d \in heap[q].subs
      <4>1. q \in Ptr /\ d \in live
        BY <2>5, <3>2 DEF CalmInv, NothingGoes
      <4>2. PICK s \in Repo, l \in Commit : s = heap[q].source /\ l = heap[q].hash
        BY <4>1, WatchedTypes
      <4>3. l <= head[s] /\ Covered(d, s, l)
        BY <3>2, <4>2 DEF CalmInv, CodeBehind, Marked
      <4>4. Covered(d, s, l)'
        BY <1>3, <4>1, <4>3 DEF CoverKept
      <4> QED
        BY <2>4, <4>1, <4>2, <4>4 DEF Covered
    <3> QED
      BY <3>1, <3>2
  <2>12. Delivering'
    <3> SUFFICES ASSUME NEW j \in Job, job[j].pc \in {"deliver", "update"},
                        NEW d \in heap'[job[j].wr].subs, d \notin job[j].subs,
                        ~(job[j].pc = "update" /\ job[j].sub = d)
                 PROVE  Covered(d, heap[job[j].wr].source, job[j].latest)'
      BY <2>3 DEF Delivering
    <3> DEFINE q == job[j].wr
    <3>0. q \in Ptr /\ job[j].latest \in Commit
      BY DEF TypeInv, TypeOK, Holds, JobHolds, JobState
    <3>1. CASE d \notin heap[q].subs
      BY <1>1, <2>10, <3>0, <3>1 DEF Covered
    <3>2. CASE d \in heap[q].subs
      <4>1. d \in live
        BY <3>0, <3>2 DEF CalmInv, NothingGoes
      <4>2. PICK s \in Repo, l \in Commit : s = heap[q].source /\ l = job[j].latest
        BY <3>0, WatchedTypes
      <4>3. l <= head[s] /\ Covered(d, s, l)
        BY <3>2, <4>2 DEF CalmInv, Delivering, GenInv, JobsBehind
      <4>4. Covered(d, s, l)'
        BY <1>3, <4>1, <4>3 DEF CoverKept
      <4> QED
        BY <2>3, <2>4, <3>0, <4>2, <4>4 DEF Covered
    <3> QED
      BY <3>1, <3>2
  <2> QED
    BY <2>6, <2>7, <2>8, <2>9, <2>11, <2>12 DEF CalmInv
<1>7. CASE state[r] \notin Ptr
  <2>1. PICK p \in Free :
          /\ state' = [state EXCEPT ![r] = p]
          /\ heap' = [heap EXCEPT ![p] =
                        [source |-> r, hash |-> 0, subs |-> {e}]]
    BY <1>1, <1>7 DEF Subscribe
  <2>2. p \in Ptr /\ p \notin Watched /\ UNCHANGED job
    BY <1>1, <1>7 DEF Free, Held, Subscribe
  <2>3. /\ \A q \in Ptr : q # p => heap'[q] = heap[q]
        /\ heap'[p].source = r /\ heap'[p].hash = 0 /\ heap'[p].subs = {e}
    BY <2>1, <2>2 DEF TypeInv, TypeOK
  <2>4. /\ \A q \in Repo : q # r => state'[q] = state[q]
        /\ state'[r] = p
    BY <1>1, <2>1 DEF TypeInv, TypeOK
  <2>5. /\ Watched' = Watched \cup {p} /\ Watched \subseteq Ptr
        /\ \A q \in Repo : state[q] # p
    BY <1>1, <1>7, <2>2, <2>4 DEF Watched
  <2>6. NothingGoes'
    BY <1>1, <1>2, <2>2, <2>3 DEF CalmInv, NothingGoes
  <2>7. MapKept'
    BY <1>1, <2>2, <2>3, <2>4, <2>5, PtrAssumption DEF CalmInv, MapKept
  <2>8. CodeBehind'
    <3>1. head[r] \in Nat
      BY <1>1 DEF TypeInv, TypeOK, Commit
    <3> QED
      BY <1>1, <1>2, <2>2, <2>3, <2>5, <3>1 DEF CalmInv, CodeBehind
  <2>9. StatusSubscribed'
    <3>1. \A d \in Env : \A q \in Repo : Subscribed(d, q) => Subscribed(d, q)'
      BY <1>7, <2>2, <2>3, <2>4, <2>5 DEF Subscribed
    <3>2. Subscribed(e, r)'
      BY <2>2, <2>3, <2>4 DEF Subscribed
    <3> QED
      BY <1>5, <3>1, <3>2
  <2>10. Marked'
    <3> SUFFICES ASSUME NEW q \in Watched', NEW d \in heap'[q].subs
                 PROVE  Covered(d, heap[q].source, heap[q].hash)'
      BY DEF Marked
    <3>1. CASE q = p
      <4>1. d = worker'.env
        BY <1>0, <1>2, <2>3, <3>1
      <4>2. \A c \in worker'.spec : worker'.got[c] >= 0
        BY <1>2, <1>w DEF Commit
      <4> QED
        BY <2>3, <3>1, <4>1, <4>2 DEF Covered
    <3>2. CASE q # p
      <4>1. q \in Watched /\ q \in Ptr /\ d \in heap[q].subs /\ d \in live
        BY <2>3, <2>5, <3>2 DEF CalmInv, NothingGoes
      <4>2. PICK s \in Repo, l \in Commit : s = heap[q].source /\ l = heap[q].hash
        BY <4>1, WatchedTypes
      <4>3. l <= head[s] /\ Covered(d, s, l)
        BY <4>1, <4>2 DEF CalmInv, CodeBehind, Marked
      <4>4. Covered(d, s, l)'
        BY <1>3, <4>1, <4>3 DEF CoverKept
      <4> QED
        BY <2>3, <3>2, <4>1, <4>2, <4>4 DEF Covered
    <3> QED
      BY <3>1, <3>2
  <2>11. Delivering'
    <3> SUFFICES ASSUME NEW j \in Job, job[j].pc \in {"deliver", "update"},
                        NEW d \in heap'[job[j].wr].subs, d \notin job[j].subs,
                        ~(job[j].pc = "update" /\ job[j].sub = d)
                 PROVE  Covered(d, heap[job[j].wr].source, job[j].latest)'
      BY <2>2 DEF Delivering
    <3> DEFINE q == job[j].wr
    <3>1. q \in Watched /\ q \in Ptr /\ q # p /\ job[j].latest \in Commit
      BY <2>2, <2>5 DEF CalmInv, MapKept, TypeInv, TypeOK, JobState
    <3>2. d \in heap[q].subs /\ d \in live
      BY <2>3, <3>1 DEF CalmInv, NothingGoes
    <3>3. PICK s \in Repo, l \in Commit : s = heap[q].source /\ l = job[j].latest
      BY <3>1, WatchedTypes
    <3>4. l <= head[s] /\ Covered(d, s, l)
      BY <3>2, <3>3 DEF CalmInv, Delivering, GenInv, JobsBehind
    <3>5. Covered(d, s, l)'
      BY <1>3, <3>2, <3>4 DEF CoverKept
    <3> QED
      BY <2>2, <2>3, <3>1, <3>3, <3>5 DEF Covered
  <2> QED
    BY <2>6, <2>7, <2>8, <2>9, <2>10, <2>11 DEF CalmInv
<1> QED
  BY <1>6, <1>7

LEMMA NextCalm ==
  TypeInv /\ TypeInv' /\ GenInv /\ (Calm => CalmInv) /\ [Next]_vars
    => (Calm => CalmInv)'
<1> SUFFICES ASSUME TypeInv, TypeInv', GenInv, Calm => CalmInv, [Next]_vars, Calm'
             PROVE  CalmInv'
  OBVIOUS
<1>b. /\ deletes \in Nat /\ crashes \in Nat /\ faults \in Nat
      /\ deletes' = 0 /\ crashes' = 0 /\ faults' = 0
  BY DEF TypeInv, TypeOK, Calm
<1>1. CASE Crash
  BY <1>1, <1>b DEF Crash
<1>2. CASE UNCHANGED vars
  <2>1. CalmInv
    BY <1>2 DEF vars, budget, Calm
  <2> QED
    BY <1>2, <2>1
    DEF vars, objects, CalmInv, NothingGoes, MapKept, CodeBehind,
        StatusSubscribed, Delivering, Marked, Covered, Cloned, Subscribed, Watched
<1>3. CASE User
  <2>1. ASSUME NEW r \in Repo, Push(r) PROVE CalmInv'
    BY <2>1, PushCalm DEF Push, budget, Calm
  <2>2. ASSUME NEW e \in Env, NEW S \in Manifest, Apply(e, S) PROVE CalmInv'
    BY <2>2, ApplyCalm DEF Apply, Calm
  <2>3. ASSUME NEW e \in Env, Delete(e) PROVE CalmInv'
    BY <1>b, <2>3 DEF Delete
  <2> QED
    BY <1>3, <2>1, <2>2, <2>3 DEF User
<1>4. ASSUME NEW j \in Job, Reconcile(j) PROVE CalmInv'
  <2>1. deletes' = deletes /\ crashes' = crashes
        /\ (faults' = faults \/ faults' = faults + 1)
    BY <1>4 DEF Reconcile, Tick, Clone, CloneFails, TickPanics, TickEnds, Compare,
                Mark, FetchNotFound, FetchFails, Fetch, UpdateGitState,
                UpdateFails, budget
  <2>2. Calm
    BY <1>b, <2>1 DEF Calm
  <2> QED
    BY <1>4, <1>b, <2>2, ReconcileCalm
<1>5. ASSUME NEW e \in Env, StartReconcile(e) PROVE CalmInv'
  BY <1>5, StartCalm DEF StartReconcile, budget, Calm
<1>6. CASE WorkerStep
  <2>1. CASE CallFails
    BY <1>b, <2>1 DEF CallFails
  <2>2. CASE ~CallFails
    <3>1. UNCHANGED <<deletes, crashes, faults>>
      BY <1>6, <2>2
      DEF WorkerStep, Conflict, ReconcileFails, EnsureFinalizer, UpdateStatus,
          CloneComponent, SubmitToGitReconciler, FinishReconcile,
          PostDeleteHook, RemoveFinalizer, budget
    <3>2. CalmInv
      BY <3>1 DEF Calm
    <3>3. ~PostDeleteHook /\ ~RemoveFinalizer
      BY <3>2 DEF CalmInv, NothingGoes, PostDeleteHook, RemoveFinalizer
    <3> QED
      BY <1>6, <2>2, <3>2, <3>3, ConflictCalm, EnsureFinalizerCalm,
         UpdateStatusCalm, CloneComponentCalm, SubmitCalm, FinishCalm
      DEF WorkerStep
  <2> QED
    BY <2>1, <2>2
<1> QED
  BY <1>1, <1>2, <1>3, <1>4, <1>5, <1>6 DEF Next

(* When no component reads a repository other than the one it subscribes   *)
(* to, nothing has been deleted and no call has failed, then every push    *)
(* reaches every environment that is not to be torn down, for any number   *)
(* of environments, repositories and overlapping ticks, and whatever is    *)
(* pushed, edited or written in between.                                   *)
THEOREM NobodyIsStranded ==
  ASSUME SameRepository
  PROVE  Spec => []CalmIsNeverStranded
<1>1. TypeInv /\ (Calm => CalmInv) => CalmIsNeverStranded
  <2> SUFFICES ASSUME TypeInv, CalmInv, NEW e \in live \ deleting,
                      spec[e] \notin Teardown,
                      NEW c \in spec[e], ~Pending(e), Settled(c.clone)
               PROVE  built[e][c] = head[c.clone]
    BY DEF CalmIsNeverStranded, NeverStranded, Kept
  <2>1. /\ e \in Env /\ c \in Ref /\ e \notin queued /\ worker.env # e
        /\ c.clone \in Repo /\ c.watch = c.clone
    BY RefAssumption DEF TypeInv, TypeOK, Pending, SameRepository
  <2> DEFINE p == state[c.clone]
  <2>2. p \in Ptr /\ e \in heap[p].subs
    BY <2>1 DEF CalmInv, StatusSubscribed, Subscribed
  <2>3. /\ p \in Watched /\ heap[p].source = c.clone
        /\ heap[p].hash = head[c.clone]
    BY <2>1, <2>2 DEF Watched, CalmInv, MapKept, Settled
  <2>4. built[e][c] >= head[c.clone]
    BY <2>1, <2>2, <2>3 DEF CalmInv, Marked, Covered
  <2>5. built[e][c] <= head[c.clone]
    BY <2>1 DEF CalmInv, CodeBehind
  <2>6. built[e][c] \in Nat /\ head[c.clone] \in Nat
    BY <2>1 DEF TypeInv, TypeOK, Commit
  <2> QED
    BY <2>4, <2>5, <2>6
<1>2. Spec => [](TypeOK /\ Holds)
  BY TypeCorrect
<1>3. Spec => []TypeInv
  BY <1>2, PTL DEF TypeInv
<1>4. Init => GenInv /\ (Calm => CalmInv)
  BY InitGenerates, InitCalm
<1>5. TypeInv /\ TypeInv' /\ GenInv /\ [Next]_vars => GenInv'
  BY NextGenerates
<1>6. TypeInv /\ TypeInv' /\ GenInv /\ (Calm => CalmInv) /\ [Next]_vars
        => (Calm => CalmInv)'
  BY NextCalm
<1> QED
  BY <1>1, <1>3, <1>4, <1>5, <1>6, PTL DEF Spec

=============================================================================
