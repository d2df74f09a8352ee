--------------------------- MODULE ReconcileHistory ---------------------------
(***************************************************************************)
(* The history that the API keeps of one environment: a row for every run  *)
(* that was asked for and for every change of the errors in its            *)
(* specification. The environment points to the row that users see.        *)
(*                                                                         *)
(* Rows and pointer are written by requests and listeners that read first  *)
(* and save later: PATCH (a run), the errors POST of the operator's        *)
(* validating webhook, the reports of the run's scripts, and the listeners *)
(* of the cost of a component and of a changed row. A save writes every    *)
(* column that differs from what the request has read and changed: it may  *)
(* write back what another has replaced. An event is emitted before the    *)
(* transaction of its save commits, so that a listener may read too early. *)
(***************************************************************************)
EXTENDS Integers, Sequences, FiniteSets

CONSTANTS
  Component,
  Error,         \* lists of the errors in a specification
  Patcher,       \* who asks for runs: the operator and users
  MaxEvents      \* bound on PATCHes, errors POSTs and costs

ASSUME HistoryAssumption ==
  MaxEvents \in Nat \ {0} /\ IsFiniteSet(Component) /\ "valid" \notin Error

VARIABLES
  rows,      \* the environment reconciles, in the order they were inserted
  latest,    \* latestEnvRecon: the row the environment points to, 0 for none
  cost,      \* estimatedCost of each component, -1 for a destroyed one
  patch,     \* patch[p]: the row that a PATCH will make the latest, 0 for none
  notice,    \* the errors POST under way
  report,    \* the report of a script under way
  run,       \* the run: "due" once asked for, "on" once it has reported
  put,       \* put[c]: the cost that a PUT is about to commit, or None
  recost,    \* recost[c]: the listener of the cost of c
  touch,     \* the listener of changed rows
  told, outcome,   \* what the last POST of errors and the last run have said
  repriced,  \* a cost has changed since the pointer was written
  raced,     \* a request has written what was no longer so, see Races
  clock,     \* the time of the last end of a row
  events

vars == <<rows, latest, cost, patch, notice, report, run, put, recost, touch,
          told, outcome, repriced, raced, clock, events>>

Outcomes == {"provisioned", "provision_failed"}
Statuses == Outcomes \cup {"initializing", "provisioning", "validation_failed"}
Costs == {-1, 1}
None == 0            \* for costs
Valid == "valid"     \* an errorMessage that is null

Ids == 0..MaxEvents
Rows == [status : Statuses, ended : Nat, error : Error \cup {Valid},
         cost : 0..Cardinality(Component)]

NewRow == [status |-> "initializing", ended |-> 0, error |-> Valid, cost |-> 0]

Notices == [at : {"none", "find", "insert", "save"}, row : Rows, id : Ids]
NoNotice == [at |-> "none", row |-> NewRow, id |-> 0]
Saves == [at : {"none", "read", "save"}, row : Rows, id : Ids]
NoSave == [at |-> "none", row |-> NewRow, id |-> 0]
Touches == [due : BOOLEAN, at : {"none", "save"}, id : Ids]
NoTouch == [due |-> FALSE, at |-> "none", id |-> 0]

TypeOK ==
  /\ rows \in Seq(Rows) /\ Len(rows) <= MaxEvents /\ latest \in 0..Len(rows)
  /\ cost \in [Component -> Costs \cup {None}]
  /\ patch \in [Patcher -> Ids]
  /\ notice \in Notices /\ report \in Saves /\ run \in {"none", "due", "on"}
  /\ put \in [Component -> Costs \cup {None}]
  /\ recost \in [Component -> Saves] /\ touch \in Touches
  /\ told \in Error \cup {Valid} /\ outcome \in Outcomes \cup {"none"}
  /\ repriced \in BOOLEAN /\ raced \in BOOLEAN /\ clock \in Nat
  /\ events \in 0..MaxEvents

Init ==
  /\ rows = <<>> /\ latest = 0
  /\ cost = [c \in Component |-> None] /\ put = [c \in Component |-> None]
  /\ patch = [p \in Patcher |-> 0]
  /\ notice = NoNotice /\ report = NoSave /\ run = "none"
  /\ recost = [c \in Component |-> NoSave] /\ touch = NoTouch
  /\ told = Valid /\ outcome = "none"
  /\ repriced = FALSE /\ raced = FALSE /\ clock = 0 /\ events = 0

Event == events < MaxEvents /\ events' = events + 1

\* endDateTime: no two ends are in the same second.
Tick == clock' = clock + 1

Quiet ==
  /\ \A p \in Patcher : patch[p] = 0
  /\ notice.at = "none" /\ report.at = "none"
  /\ \A c \in Component : put[c] = None /\ recost[c].at = "none"
  /\ ~touch.due /\ touch.at = "none"

------------------------------------------------------------------------------
(* PATCH with isReconcile.                                                 *)

CreateEnvRecon(p) ==
  /\ patch[p] = 0
  /\ Event
  /\ rows' = Append(rows, NewRow)
  /\ patch' = [patch EXCEPT ![p] = Len(rows')]
  /\ UNCHANGED <<latest, cost, notice, report, run, put, recost, touch, told,
                 outcome, repriced, raced, clock>>

\* updateById, and reconcileCD: the workflow runs anew. What raced before does
\* not matter for the new row, unless a newer one has been shown.
UpdateById(p) ==
  /\ patch[p] # 0
  /\ latest' = patch[p] /\ patch' = [patch EXCEPT ![p] = 0]
  /\ run' = "due" /\ outcome' = "none" /\ told' = Valid /\ repriced' = FALSE
  /\ raced' = (patch[p] < latest)
  /\ UNCHANGED <<rows, cost, notice, report, put, recost, touch, clock,
                 events>>

------------------------------------------------------------------------------
(* POST errors.                                                            *)

\* Mutant of SameErrors: any failed validation is taken for this one.
AlreadyFailed(e) == latest # 0 /\ rows[latest].status = "validation_failed"

SameErrors(e) == latest # 0 /\ rows[latest].error = e

ProcessInvalidRecon(e) ==
  /\ notice.at = "none"
  /\ Event
  /\ IF SameErrors(e)
     THEN notice' = notice /\ told' = e
     ELSE /\ notice' = [at |-> "insert", id |-> 0,
                        row |-> [NewRow EXCEPT !.status = "validation_failed",
                                               !.error = e]]
          /\ told' = told
  /\ UNCHANGED <<rows, latest, cost, patch, report, run, put, recost, touch,
                 outcome, repriced, raced, clock>>

\* All well when the latest row is not of a failed validation.
ProcessValidRecon ==
  /\ notice.at = "none"
  /\ Event
  /\ IF latest # 0 /\ rows[latest].status = "validation_failed"
     THEN notice' = [NoNotice EXCEPT !.at = "find"] /\ told' = told
     ELSE notice' = notice /\ told' = Valid
  /\ UNCHANGED <<rows, latest, cost, patch, report, run, put, recost, touch,
                 outcome, repriced, raced, clock>>

Candidates == {i \in DOMAIN rows : rows[i].status # "validation_failed"}

\* Mutant of LatestNonValidation: the order of the ends is turned round.
EarliestNonValidation ==
  {i \in Candidates : \A j \in Candidates : rows[i].ended <= rows[j].ended}

\* A row that has not ended comes last.
LatestNonValidation ==
  {i \in Candidates : \A j \in Candidates : rows[i].ended >= rows[j].ended}

GetLatestNonValidationErrorRec ==
  /\ notice.at = "find"
  /\ IF Candidates = {}
     THEN notice' = NoNotice /\ told' = Valid
     ELSE /\ \E i \in LatestNonValidation :
               notice' = [at |-> "insert", id |-> 0,
                          row |-> [NewRow EXCEPT !.status = rows[i].status,
                                                 !.cost = rows[i].cost]]
          /\ told' = told
  /\ UNCHANGED <<rows, latest, cost, patch, report, run, put, recost, touch,
                 outcome, repriced, raced, clock, events>>

GetNewEnvRecon ==
  /\ notice.at = "insert"
  /\ Tick
  /\ rows' = Append(rows, [notice.row EXCEPT !.ended = clock'])
  /\ notice' = [notice EXCEPT !.at = "save", !.id = Len(rows')]
  /\ UNCHANGED <<latest, cost, patch, report, run, put, recost, touch, told,
                 outcome, repriced, raced, events>>

\* Races: a newer row has become the latest.
MergeAndSaveEnv ==
  /\ notice.at = "save"
  /\ latest' = notice.id /\ notice' = NoNotice
  /\ told' = notice.row.error /\ repriced' = FALSE
  /\ raced' = (raced \/ notice.id < latest)
  /\ UNCHANGED <<rows, cost, patch, report, run, put, recost, touch, outcome,
                 clock, events>>

------------------------------------------------------------------------------
(* The save of a row that was read before: it writes all its columns, and  *)
(* emits an event when one of them differs.                                *)

SaveRow(id, row) ==
  /\ rows' = [rows EXCEPT ![id] = row]
  /\ touch' = [touch EXCEPT !.due = @ \/ rows' # rows]

\* The script reads the id of the latest row, then the clock, and posts its
\* status to the row.
GetLatestEnvReconId(status) ==
  /\ report.at = "none" /\ latest # 0
  /\ IF status = "provisioning"
     THEN run = "due" /\ run' = "on" /\ clock' = clock
     ELSE /\ run = "on" /\ run' = "none" /\ Tick
          /\ \A c \in Component : put[c] = None
  /\ report' = [at |-> "read", id |-> latest,
                row |-> [NewRow EXCEPT !.status = status,
                           !.ended = IF status \in Outcomes THEN clock' ELSE 0]]
  /\ UNCHANGED <<rows, latest, cost, patch, notice, put, recost, touch, told,
                 outcome, repriced, raced, events>>

GetEnvRecon ==
  /\ report.at = "read"
  /\ report' = [report EXCEPT !.at = "save",
       !.row = [rows[report.id] EXCEPT
                  !.status = report.row.status,
                  !.ended = IF report.row.status \in Outcomes
                            THEN report.row.ended ELSE @]]
  /\ UNCHANGED <<rows, latest, cost, patch, notice, run, put, recost, touch,
                 told, outcome, repriced, raced, clock, events>>

\* Races: another row has become the latest, a column goes back, or a fix has
\* copied an earlier status.
UpdateEnvRecon ==
  /\ report.at = "save"
  /\ SaveRow(report.id, report.row)
  /\ report' = NoSave
  /\ outcome' = IF run = "none" THEN report.row.status ELSE outcome
  /\ raced' = \/ raced
              \/ report.id # latest
              \/ report.row.cost # rows[report.id].cost
              \/ notice.at \in {"insert", "save"} /\ notice.row.error = Valid
  /\ UNCHANGED <<latest, cost, patch, notice, run, put, recost, told, repriced,
                 clock, events>>

------------------------------------------------------------------------------
(* Costs.                                                                  *)

\* A script of the run: PUT of a component. The event is emitted before the
\* commit, and only when the cost has changed.
UpdateComponent(c, v) ==
  /\ run = "on" /\ put[c] = None /\ recost[c].at = "none" /\ v # cost[c]
  /\ Event
  /\ put' = [put EXCEPT ![c] = v]
  /\ recost' = [recost EXCEPT ![c].at = "read"]
  /\ UNCHANGED <<rows, latest, cost, patch, notice, report, run, touch, told,
                 outcome, repriced, raced, clock>>

\* Races: the listener has read the old cost.
CommitComponent(c) ==
  /\ put[c] # None
  /\ cost' = [cost EXCEPT ![c] = put[c]] /\ put' = [put EXCEPT ![c] = None]
  /\ repriced' = TRUE
  /\ raced' = (raced \/ recost[c].at # "read")
  /\ UNCHANGED <<rows, latest, patch, notice, report, run, recost, touch, told,
                 outcome, clock, events>>

\* Mutant of Total: the mark of a destroyed component is counted.
SumOfAll == Cardinality({c \in Component : cost[c] # None})

\* Each component costs 1.
Total == Cardinality({c \in Component : cost[c] > 0})

\* compCostUpdateListener: findById with the components and the latest row.
CompCostUpdateListener(c) ==
  /\ recost[c].at = "read" /\ latest # 0
  /\ recost' = [recost EXCEPT ![c] =
       [at |-> "save", id |-> latest, row |-> [rows[latest] EXCEPT !.cost = Total]]]
  /\ UNCHANGED <<rows, latest, cost, patch, notice, report, run, put, touch,
                 told, outcome, repriced, raced, clock, events>>

\* Races: another row has become the latest, a column goes back, or a cost has
\* changed since.
UpdateCost(c) ==
  /\ recost[c].at = "save"
  /\ LET id == recost[c].id
     IN  /\ SaveRow(id, recost[c].row)
         /\ raced' = \/ raced
                     \/ id # latest
                     \/ recost[c].row # [rows[id] EXCEPT !.cost = Total]
  /\ recost' = [recost EXCEPT ![c] = NoSave]
  /\ UNCHANGED <<latest, cost, patch, notice, report, run, put, told, outcome,
                 repriced, clock, events>>

------------------------------------------------------------------------------
(* envReconEnvUpdateListener and envReconCostUpdateListener: the date of   *)
(* the environment, with its pointer as it was read.                       *)

EnvReconUpdateListener ==
  /\ touch.due /\ touch.at = "none"
  /\ touch' = [due |-> FALSE, at |-> "save", id |-> latest]
  /\ UNCHANGED <<rows, latest, cost, patch, notice, report, run, put, recost,
                 told, outcome, repriced, raced, clock, events>>

\* Races: the pointer goes back.
SaveDate ==
  /\ touch.at = "save"
  /\ latest' = touch.id
  /\ touch' = [touch EXCEPT !.at = "none", !.id = 0]
  /\ raced' = (raced \/ touch.id # latest)
  /\ UNCHANGED <<rows, cost, patch, notice, report, run, put, recost, told,
                 outcome, repriced, clock, events>>

Next ==
  \/ \E p \in Patcher : CreateEnvRecon(p) \/ UpdateById(p)
  \/ (\E e \in Error : ProcessInvalidRecon(e)) \/ ProcessValidRecon
  \/ GetLatestNonValidationErrorRec \/ GetNewEnvRecon \/ MergeAndSaveEnv
  \/ \E s \in {"provisioning"} \cup Outcomes : GetLatestEnvReconId(s)
  \/ GetEnvRecon \/ UpdateEnvRecon
  \/ \E c \in Component :
       \/ \E v \in Costs : UpdateComponent(c, v)
       \/ CommitComponent(c) \/ CompCostUpdateListener(c) \/ UpdateCost(c)
  \/ EnvReconUpdateListener \/ SaveDate

Spec == Init /\ [][Next]_vars

------------------------------------------------------------------------------
(* Properties: of what users see once nothing is under way and no request  *)
(* has raced with another since the last PATCH.                            *)

AtRest == Quiet /\ run = "none" /\ ~raced /\ latest # 0

\* The errors of the specification that were posted last are those of the
\* latest row, also after a run that was under way has ended
\* (errors.service.ts:45-76).
ErrorsAreShown == AtRest /\ told # Valid => rows[latest].error = told

\* Once a run has ended, the latest row has its outcome and an end: whatever
\* was invalid meanwhile and is valid again, whichever row the script found,
\* and whichever row the fix was copied from (errors.service.ts:14-43,
\* reconciliation.service.ts:357-372).
OutcomeIsShown ==
  AtRest /\ outcome # "none" =>
    /\ rows[latest].ended # 0
    /\ rows[latest].status = outcome
         \/ (told # Valid /\ rows[latest].status = "validation_failed")

\* The cost of the latest row is that of the components that are not
\* destroyed, if one has changed since the row became the latest
\* (environment.controller.ts:283-298, reconciliation.service.ts:454-469).
CostIsTheSum ==
  AtRest /\ repriced =>
    rows[latest].cost = Cardinality({c \in Component : cost[c] = 1})
=============================================================================
