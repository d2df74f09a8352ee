----------------------- MODULE ReconcileHistoryProofs -----------------------
(***************************************************************************)
(* What ReconcileHistory promises, for any components, errors, patchers    *)
(* and number of events.                                                   *)
(***************************************************************************)
EXTENDS ReconcileHistory, FiniteSetTheorems, SequenceTheorems, TLAPS

\* Every id that is kept somewhere is one of a row, and there is room for the
\* row that a POST of errors is about to insert.
Ranges ==
  /\ Len(rows) + (IF notice.at \in {"find", "insert"} THEN 1 ELSE 0) <= events
  /\ \A p \in Patcher : patch[p] \in 0..Len(rows)
  /\ notice.at = "save" => notice.id \in 1..Len(rows)
  /\ report.at # "none" => report.id \in 1..Len(rows)
  /\ \A c \in Component : recost[c].at = "save" => recost[c].id \in 1..Len(rows)
  /\ touch.at = "save" => touch.id \in 0..Len(rows)

\* Nobody but its request knows of the row yet.
Fresh(id) ==
  /\ id # latest
  /\ report.at # "none" => report.id # id
  /\ \A c \in Component : recost[c].at = "save" => recost[c].id # id
  /\ touch.at = "save" => touch.id # id

\* The row of a PATCH and the row of a POST of errors are their own until they
\* become the latest.
PatchesAreFresh ==
  /\ \A p \in Patcher : patch[p] # 0 => Fresh(patch[p])
  /\ \A p, q \in Patcher : patch[p] # 0 /\ p # q => patch[p] # patch[q]
NoticeIsFresh ==
  notice.at = "save" =>
    Fresh(notice.id) /\ \A p \in Patcher : patch[p] # notice.id

\* The row of a POST of errors is as the POST has made it.
NoticeIsKept ==
  /\ notice.at \in {"insert", "save"} /\ notice.row.error # Valid =>
       notice.row.status = "validation_failed"
  /\ notice.at = "save" =>
       /\ rows[notice.id].error = notice.row.error
       /\ rows[notice.id].status = notice.row.status
       /\ rows[notice.id].ended # 0

\* The errors of a row never change.
ErrorsAreKept ==
  /\ report.at = "save" => report.row.error = rows[report.id].error
  /\ \A c \in Component :
       recost[c].at = "save" => recost[c].row.error = rows[recost[c].id].error

\* Nothing has ended later than the clock.
EndsAreOver ==
  /\ \A i \in DOMAIN rows : rows[i].ended <= clock
  /\ report.at # "none" =>
       /\ report.row.ended <= clock
       /\ report.row.status \in Outcomes => report.row.ended # 0
  /\ \A c \in Component : recost[c].at = "save" => recost[c].row.ended <= clock

\* The outcome is that of the last report of a run that has ended.
OutcomeIsOver ==
  /\ run # "none" => outcome = "none"
  /\ outcome # "none" => report.at = "none"
  /\ run = "none" /\ report.at # "none" => report.row.status \in Outcomes

ErrorsHold == ~raced /\ told # Valid => latest # 0 /\ rows[latest].error = told

Copies == notice.at \in {"insert", "save"} /\ notice.row.error = Valid

\* A report of an end is later than that of every other row, until a fix inserts
\* a row of its own.
ReportIsLatest ==
  ~raced /\ report.at # "none" /\ report.row.status \in Outcomes
         /\ report.id = latest /\ ~(Copies /\ notice.at = "save") =>
    \A j \in Candidates : j # latest => rows[j].ended < report.row.ended

\* The outcome is shown, and it is what a fix copies.
OutcomeHolds ==
  ~raced /\ outcome # "none" =>
    /\ latest # 0 /\ rows[latest].ended # 0
    /\ \/ rows[latest].status = outcome
       \/ told # Valid /\ rows[latest].status = "validation_failed"
    /\ Copies => notice.row.status = outcome
    /\ \E i \in Candidates :
         /\ rows[i].ended # 0 /\ rows[i].status = outcome
         /\ \A j \in Candidates :
              rows[j].ended >= rows[i].ended => rows[j].status = outcome

\* The cost is the sum, or a listener will make it so.
CostHolds ==
  ~raced /\ repriced =>
    \/ latest # 0 => rows[latest].cost = Total
    \/ \E c \in Component :
         \/ recost[c].at = "read"
         \/ recost[c].at = "save" /\ recost[c].id = latest
              /\ recost[c].row.cost = Total

Inv ==
  /\ TypeOK /\ Ranges
  /\ PatchesAreFresh /\ NoticeIsFresh /\ NoticeIsKept /\ ErrorsAreKept
  /\ EndsAreOver /\ OutcomeIsOver
  /\ ErrorsHold /\ ReportIsLatest /\ OutcomeHolds /\ CostHolds

------------------------------------------------------------------------------
(* Rows.                                                                   *)

LEMMA NewRowIsRow == NewRow \in Rows
BY FS_EmptySet, FS_CardinalityType, HistoryAssumption DEF NewRow, Rows, Statuses, Valid

LEMMA TotalIsCost == Total \in 0..Cardinality(Component)
<1>1. {c \in Component : cost[c] > 0} \subseteq Component
  OBVIOUS
<1> QED
  BY <1>1, HistoryAssumption, FS_Subset, FS_CardinalityType DEF Total

LEMMA Grows ==
  ASSUME TypeOK, NEW r \in Rows, rows' = Append(rows, r)
  PROVE  /\ rows' \in Seq(Rows) /\ Len(rows) \in Nat /\ Len(rows') = Len(rows) + 1
         /\ DOMAIN rows = 1..Len(rows) /\ DOMAIN rows' = 1..(Len(rows) + 1)
         /\ \A i \in 1..Len(rows) : rows'[i] = rows[i]
         /\ rows'[Len(rows) + 1] = r
<1>1. rows \in Seq(Rows)
  BY DEF TypeOK
<1> QED
  BY <1>1, AppendProperties, LenProperties

LEMMA Changes ==
  ASSUME TypeOK, NEW id \in 1..Len(rows), NEW r \in Rows, rows' = [rows EXCEPT ![id] = r]
  PROVE  /\ rows' \in Seq(Rows) /\ Len(rows) \in Nat /\ Len(rows') = Len(rows)
         /\ DOMAIN rows = 1..Len(rows) /\ DOMAIN rows' = 1..Len(rows)
         /\ \A i \in 1..Len(rows) : rows'[i] = IF i = id THEN r ELSE rows[i]
<1>1. rows \in Seq(Rows)
  BY DEF TypeOK
<1> QED
  BY <1>1, ExceptSeq, LenProperties

LEMMA RowType == ASSUME TypeOK, NEW i \in 1..Len(rows) PROVE rows[i] \in Rows
<1>1. rows \in Seq(Rows)
  BY DEF TypeOK
<1> QED
  BY <1>1, ElementOfSeq

------------------------------------------------------------------------------
(* Types.                                                                  *)

LEMMA InitType == Init => TypeOK
<1> SUFFICES ASSUME Init PROVE TypeOK
  OBVIOUS
<1>1. NewRow \in Rows /\ MaxEvents \in Nat \ {0}
  BY NewRowIsRow, HistoryAssumption
<1>2. rows \in Seq(Rows) /\ Len(rows) = 0
  BY DEF Init
<1>3. notice \in Notices
  BY <1>1 DEF Init, Notices, NoNotice, Ids
<1>4. report \in Saves /\ recost \in [Component -> Saves]
  BY <1>1 DEF Init, Saves, NoSave, Ids
<1>5. cost \in [Component -> Costs \cup {None}] /\ put = cost
  BY DEF Init, None
<1>6. touch \in Touches /\ patch \in [Patcher -> Ids]
  BY <1>1 DEF Init, Touches, NoTouch, Ids
<1>7. repriced \in BOOLEAN /\ raced \in BOOLEAN
  BY DEF Init
<1> QED
  BY <1>1, <1>2, <1>3, <1>4, <1>5, <1>6, <1>7 DEF Init, TypeOK, Valid

LEMMA CreateEnvReconType ==
  ASSUME TypeOK, Ranges, NEW p \in Patcher, CreateEnvRecon(p)
  PROVE  TypeOK' /\ Ranges'
<1> USE DEF TypeOK, Ranges, Ids
<1>1. rows' = Append(rows, NewRow) /\ NewRow \in Rows /\ MaxEvents \in Nat
  BY NewRowIsRow, HistoryAssumption DEF CreateEnvRecon
<1>2. /\ rows' \in Seq(Rows) /\ Len(rows) \in Nat /\ Len(rows') = Len(rows) + 1
  BY <1>1, Grows
<1> QED
  BY <1>1, <1>2 DEF CreateEnvRecon, Event

LEMMA UpdateByIdType ==
  ASSUME TypeOK, Ranges, NEW p \in Patcher, UpdateById(p)
  PROVE  TypeOK' /\ Ranges'
<1>1. MaxEvents \in Nat /\ Len(rows) \in Nat
  BY HistoryAssumption, LenProperties DEF TypeOK
<1>2. raced' \in BOOLEAN /\ repriced' \in BOOLEAN
  <2>1. (patch[p] < latest) \in BOOLEAN
    BY <1>1 DEF TypeOK, Ids
  <2> QED
    BY <2>1 DEF UpdateById
<1>3. patch' \in [Patcher -> Ids] /\ \A q \in Patcher : patch'[q] \in 0..Len(rows)
  BY <1>1 DEF TypeOK, Ranges, Ids, UpdateById
<1>4. latest' \in 0..Len(rows)
  BY DEF UpdateById, Ranges
<1>5. TypeOK'
  BY <1>1, <1>2, <1>3, <1>4 DEF TypeOK, UpdateById, Valid
<1>6. Ranges'
  BY <1>3 DEF Ranges, UpdateById
<1> QED
  BY <1>5, <1>6

LEMMA ProcessInvalidReconType ==
  ASSUME TypeOK, Ranges, NEW e \in Error, ProcessInvalidRecon(e)
  PROVE  TypeOK' /\ Ranges'
<1>1. MaxEvents \in Nat /\ Len(rows) \in Nat /\ NewRow \in Rows
  BY HistoryAssumption, LenProperties, NewRowIsRow DEF TypeOK
<1>2. [NewRow EXCEPT !.status = "validation_failed", !.error = e] \in Rows
  BY <1>1 DEF Rows, Statuses
<1>3. notice' \in Notices
  BY <1>1, <1>2 DEF ProcessInvalidRecon, TypeOK, Notices, Ids
<1> QED
  BY <1>1, <1>3 DEF TypeOK, Ranges, Ids, ProcessInvalidRecon, Event

LEMMA ProcessValidReconType ==
  ASSUME TypeOK, Ranges, ProcessValidRecon PROVE TypeOK' /\ Ranges'
<1>1. MaxEvents \in Nat /\ Len(rows) \in Nat /\ NewRow \in Rows
  BY HistoryAssumption, LenProperties, NewRowIsRow DEF TypeOK
<1>2. notice' \in Notices
  BY <1>1 DEF ProcessValidRecon, TypeOK, Notices, NoNotice, Ids
<1> QED
  BY <1>1, <1>2 DEF TypeOK, Ranges, Ids, ProcessValidRecon, NoNotice, Event

LEMMA GetLatestType ==
  ASSUME TypeOK, Ranges, GetLatestNonValidationErrorRec PROVE TypeOK' /\ Ranges'
<1>1. MaxEvents \in Nat /\ Len(rows) \in Nat /\ NewRow \in Rows
  BY HistoryAssumption, LenProperties, NewRowIsRow DEF TypeOK
<1>2. notice' \in Notices /\ notice'.at \in {"none", "insert"}
  <2>1. CASE Candidates = {}
    BY <1>1, <2>1 DEF GetLatestNonValidationErrorRec, Notices, NoNotice, Ids
  <2>2. CASE Candidates # {}
    <3>1. PICK i \in LatestNonValidation :
            notice' = [at |-> "insert", id |-> 0,
                       row |-> [NewRow EXCEPT !.status = rows[i].status,
                                              !.cost = rows[i].cost]]
      BY <2>2 DEF GetLatestNonValidationErrorRec
    <3>2. i \in 1..Len(rows)
      BY LenProperties DEF LatestNonValidation, Candidates, TypeOK
    <3>3. rows[i] \in Rows
      BY <3>2, RowType
    <3>4. [NewRow EXCEPT !.status = rows[i].status, !.cost = rows[i].cost] \in Rows
      BY <1>1, <3>3 DEF Rows
    <3> QED
      BY <1>1, <3>1, <3>4 DEF Notices, Ids
  <2> QED
    BY <2>1, <2>2
<1>3. told' \in Error \cup {Valid}
  BY DEF GetLatestNonValidationErrorRec, TypeOK
<1>4. notice.at = "find" /\ notice'.at # "save"
  BY <1>2 DEF GetLatestNonValidationErrorRec
<1>5. TypeOK'
  BY <1>1, <1>2, <1>3 DEF TypeOK, GetLatestNonValidationErrorRec
<1>6. Ranges'
  <2>1. Len(rows) + 1 <= events /\ events \in Nat
    BY <1>1, <1>4 DEF Ranges, TypeOK
  <2>2. Len(rows) + (IF notice'.at \in {"find", "insert"} THEN 1 ELSE 0) <= events
    BY <1>1, <2>1
  <2> QED
    BY <1>4, <2>2 DEF Ranges, GetLatestNonValidationErrorRec
<1> QED
  BY <1>5, <1>6

LEMMA GetNewEnvReconType ==
  ASSUME TypeOK, Ranges, GetNewEnvRecon PROVE TypeOK' /\ Ranges'
<1>1. MaxEvents \in Nat /\ clock' = clock + 1 /\ clock' \in Nat
  BY HistoryAssumption DEF GetNewEnvRecon, Tick, TypeOK
<1>2. [notice.row EXCEPT !.ended = clock'] \in Rows
  BY <1>1 DEF TypeOK, Notices, Rows
<1>3. /\ rows' \in Seq(Rows) /\ Len(rows) \in Nat /\ Len(rows') = Len(rows) + 1
  BY <1>2, Grows DEF GetNewEnvRecon
<1>4. notice' \in Notices /\ notice'.at = "save" /\ notice'.id = Len(rows')
  <2>1. Len(rows') \in Ids
    BY <1>1, <1>3 DEF GetNewEnvRecon, TypeOK, Ids, Ranges
  <2> QED
    BY <2>1 DEF GetNewEnvRecon, TypeOK, Notices
<1> QED
  BY <1>1, <1>3, <1>4 DEF TypeOK, Ranges, Ids, GetNewEnvRecon

LEMMA MergeAndSaveEnvType ==
  ASSUME TypeOK, Ranges, MergeAndSaveEnv PROVE TypeOK' /\ Ranges'
<1>1. MaxEvents \in Nat /\ Len(rows) \in Nat /\ NewRow \in Rows
  BY HistoryAssumption, LenProperties, NewRowIsRow DEF TypeOK
<1>2. notice' \in Notices /\ notice'.at = "none"
  BY <1>1 DEF MergeAndSaveEnv, Notices, NoNotice, Ids
<1>3. notice.row.error \in Error \cup {Valid}
  BY DEF TypeOK, Notices, Rows
<1>4. raced' \in BOOLEAN /\ repriced' \in BOOLEAN
  BY DEF MergeAndSaveEnv
<1>5. latest' \in 0..Len(rows)
  BY <1>1 DEF Ranges, MergeAndSaveEnv
<1>6. TypeOK'
  BY <1>1, <1>2, <1>3, <1>4, <1>5 DEF TypeOK, MergeAndSaveEnv
<1>7. Ranges'
  BY <1>1, <1>2 DEF Ranges, TypeOK, Ids, MergeAndSaveEnv
<1> QED
  BY <1>6, <1>7

LEMMA GetLatestEnvReconIdType ==
  ASSUME TypeOK, Ranges, NEW s \in {"provisioning"} \cup Outcomes, GetLatestEnvReconId(s)
  PROVE  TypeOK' /\ Ranges'
<1>1. MaxEvents \in Nat /\ Len(rows) \in Nat /\ NewRow \in Rows
  BY HistoryAssumption, LenProperties, NewRowIsRow DEF TypeOK
<1>2. clock' \in Nat /\ run' \in {"none", "on"}
  BY DEF GetLatestEnvReconId, Tick, TypeOK
<1>3. [NewRow EXCEPT !.status = s,
                     !.ended = IF s \in Outcomes THEN clock' ELSE 0] \in Rows
  BY <1>1, <1>2 DEF Rows, Statuses
<1>4. report' \in Saves /\ report'.at = "read" /\ report'.id = latest
  BY <1>1, <1>3 DEF GetLatestEnvReconId, TypeOK, Saves, Ids
<1>5. latest \in 1..Len(rows)
  BY <1>1 DEF GetLatestEnvReconId, TypeOK
<1>6. TypeOK'
  BY <1>1, <1>2, <1>4 DEF TypeOK, GetLatestEnvReconId
<1>7. Ranges'
  BY <1>4, <1>5 DEF Ranges, GetLatestEnvReconId
<1> QED
  BY <1>6, <1>7

LEMMA GetEnvReconType ==
  ASSUME TypeOK, Ranges, GetEnvRecon PROVE TypeOK' /\ Ranges'
<1> DEFINE row == [rows[report.id] EXCEPT
                     !.status = report.row.status,
                     !.ended = IF report.row.status \in Outcomes
                               THEN report.row.ended ELSE @]
<1>1. report.id \in 1..Len(rows) /\ report.row \in Rows /\ report.id \in Ids
  BY DEF GetEnvRecon, Ranges, TypeOK, Saves
<1>2. rows[report.id] \in Rows
  BY <1>1, RowType
<1>3. row \in Rows
  BY <1>1, <1>2 DEF Rows
<1>4. report' = [report EXCEPT !.at = "save", !.row = row]
  BY DEF GetEnvRecon
<1>5. report' \in Saves /\ report'.id = report.id
  BY <1>3, <1>4 DEF TypeOK, Saves
<1>6. TypeOK'
  BY <1>5 DEF TypeOK, GetEnvRecon
<1>7. Ranges'
  BY <1>1, <1>5 DEF Ranges, GetEnvRecon
<1> QED
  BY <1>6, <1>7

LEMMA UpdateEnvReconType ==
  ASSUME TypeOK, Ranges, OutcomeIsOver, UpdateEnvRecon PROVE TypeOK' /\ Ranges'
<1>1. report.id \in 1..Len(rows) /\ report.row \in Rows
  BY DEF UpdateEnvRecon, Ranges, TypeOK, Saves
<1>2. rows' \in Seq(Rows) /\ Len(rows') = Len(rows)
  BY <1>1, Changes DEF UpdateEnvRecon, SaveRow
<1>3. touch' \in Touches /\ touch'.at = touch.at /\ touch'.id = touch.id
  BY DEF UpdateEnvRecon, SaveRow, TypeOK, Touches
<1>4. report' \in Saves /\ report'.at = "none"
  BY NewRowIsRow, HistoryAssumption DEF UpdateEnvRecon, NoSave, Saves, Ids
<1>5. outcome' \in Outcomes \cup {"none"}
  BY DEF UpdateEnvRecon, TypeOK, OutcomeIsOver
<1>6. raced' \in BOOLEAN
  BY DEF UpdateEnvRecon, TypeOK
<1>7. TypeOK'
  BY <1>2, <1>3, <1>4, <1>5, <1>6 DEF TypeOK, UpdateEnvRecon
<1>8. Ranges'
  BY <1>2, <1>3, <1>4 DEF Ranges, UpdateEnvRecon
<1> QED
  BY <1>7, <1>8

LEMMA UpdateComponentType ==
  ASSUME TypeOK, Ranges, NEW c \in Component, NEW v \in Costs, UpdateComponent(c, v)
  PROVE  TypeOK' /\ Ranges'
<1>1. MaxEvents \in Nat /\ Len(rows) \in Nat
  BY HistoryAssumption, LenProperties DEF TypeOK
<1>2. recost' = [recost EXCEPT ![c].at = "read"] /\ recost \in [Component -> Saves]
  BY DEF UpdateComponent, TypeOK
<1>3. /\ recost' \in [Component -> Saves]
      /\ \A d \in Component : recost'[d].at = "save" => recost'[d] = recost[d]
  BY <1>2 DEF Saves
<1>4. put' \in [Component -> Costs \cup {None}]
  BY DEF UpdateComponent, TypeOK
<1>5. events' \in 0..MaxEvents /\ events' = events + 1
  BY <1>1 DEF UpdateComponent, Event, TypeOK
<1>6. TypeOK'
  BY <1>3, <1>4, <1>5 DEF TypeOK, UpdateComponent
<1>7. Ranges'
  BY <1>1, <1>3, <1>5 DEF TypeOK, Ranges, UpdateComponent
<1> QED
  BY <1>6, <1>7

LEMMA CommitComponentType ==
  ASSUME TypeOK, Ranges, NEW c \in Component, CommitComponent(c)
  PROVE  TypeOK' /\ Ranges'
<1>1. cost' \in [Component -> Costs \cup {None}] /\ put' \in [Component -> Costs \cup {None}]
  BY DEF CommitComponent, TypeOK
<1>2. raced' \in BOOLEAN /\ repriced' \in BOOLEAN
  BY DEF CommitComponent, TypeOK
<1>3. TypeOK'
  BY <1>1, <1>2 DEF TypeOK, CommitComponent
<1>4. Ranges'
  BY DEF Ranges, CommitComponent
<1> QED
  BY <1>3, <1>4

LEMMA CompCostUpdateListenerType ==
  ASSUME TypeOK, Ranges, NEW c \in Component, CompCostUpdateListener(c)
  PROVE  TypeOK' /\ Ranges'
<1>1. latest \in 1..Len(rows) /\ latest \in Ids
  BY HistoryAssumption, LenProperties DEF CompCostUpdateListener, TypeOK, Ids
<1>2. rows[latest] \in Rows
  BY <1>1, RowType
<1>3. [rows[latest] EXCEPT !.cost = Total] \in Rows
  BY <1>2, TotalIsCost DEF Rows
<1> DEFINE save == [at |-> "save", id |-> latest,
                    row |-> [rows[latest] EXCEPT !.cost = Total]]
<1>4. save \in Saves /\ save.id = latest
  BY <1>1, <1>3 DEF Saves
<1>5. recost' = [recost EXCEPT ![c] = save]
  BY DEF CompCostUpdateListener
<1> HIDE DEF save
<1>6. /\ recost' \in [Component -> Saves]
      /\ \A d \in Component : recost'[d] = IF d = c THEN save ELSE recost[d]
  BY <1>4, <1>5 DEF TypeOK
<1>7. TypeOK'
  BY <1>6 DEF TypeOK, CompCostUpdateListener
<1>8. Ranges'
  BY <1>1, <1>4, <1>6 DEF Ranges, CompCostUpdateListener
<1> QED
  BY <1>7, <1>8

LEMMA UpdateCostType ==
  ASSUME TypeOK, Ranges, NEW c \in Component, UpdateCost(c)
  PROVE  TypeOK' /\ Ranges'
<1>1. recost[c].id \in 1..Len(rows) /\ recost[c].row \in Rows
  BY DEF UpdateCost, Ranges, TypeOK, Saves
<1>2. rows' \in Seq(Rows) /\ Len(rows') = Len(rows)
  BY <1>1, Changes DEF UpdateCost, SaveRow
<1>3. touch' \in Touches /\ touch'.at = touch.at /\ touch'.id = touch.id
  BY DEF UpdateCost, SaveRow, TypeOK, Touches
<1>4. NoSave \in Saves /\ NoSave.at = "none"
  BY NewRowIsRow, HistoryAssumption DEF NoSave, Saves, Ids
<1>5. /\ recost' \in [Component -> Saves]
      /\ \A d \in Component : recost'[d] = IF d = c THEN NoSave ELSE recost[d]
  BY <1>4 DEF UpdateCost, TypeOK
<1>6. raced' \in BOOLEAN
  BY DEF UpdateCost, TypeOK
<1>7. TypeOK'
  BY <1>2, <1>3, <1>5, <1>6 DEF TypeOK, UpdateCost
<1>8. Ranges'
  BY <1>2, <1>3, <1>4, <1>5 DEF Ranges, UpdateCost
<1> QED
  BY <1>7, <1>8

LEMMA EnvReconUpdateListenerType ==
  ASSUME TypeOK, Ranges, EnvReconUpdateListener PROVE TypeOK' /\ Ranges'
<1>1. latest \in Ids /\ latest \in 0..Len(rows)
  BY HistoryAssumption, LenProperties DEF TypeOK, Ids
<1>2. touch' \in Touches /\ touch'.id = latest
  BY <1>1 DEF EnvReconUpdateListener, Touches
<1>3. TypeOK'
  BY <1>2 DEF TypeOK, EnvReconUpdateListener
<1>4. Ranges'
  BY <1>1, <1>2 DEF Ranges, EnvReconUpdateListener
<1> QED
  BY <1>3, <1>4

LEMMA SaveDateType ==
  ASSUME TypeOK, Ranges, SaveDate PROVE TypeOK' /\ Ranges'
<1>1. touch' \in Touches /\ touch'.at = "none"
  <2>1. 0 \in Ids
    BY HistoryAssumption DEF Ids
  <2> QED
    BY <2>1 DEF SaveDate, TypeOK, Touches
<1>2. raced' \in BOOLEAN /\ latest' \in 0..Len(rows)
  BY DEF SaveDate, TypeOK, Ranges
<1>3. TypeOK'
  BY <1>1, <1>2 DEF TypeOK, SaveDate
<1>4. Ranges'
  BY <1>1 DEF Ranges, SaveDate
<1> QED
  BY <1>3, <1>4

------------------------------------------------------------------------------
(* What each invariant needs of the steps that can disturb it.             *)

\* The two saves of a row, with the row that they save.
LEMMA ReportSaves ==
  ASSUME TypeOK, Ranges, UpdateEnvRecon
  PROVE  /\ report.id \in 1..Len(rows) /\ report.row \in Rows /\ Len(rows) \in Nat
         /\ DOMAIN rows = 1..Len(rows) /\ DOMAIN rows' = 1..Len(rows)
         /\ \A i \in 1..Len(rows) :
              rows'[i] = IF i = report.id THEN report.row ELSE rows[i]
         /\ touch'.at = touch.at /\ touch'.id = touch.id
         /\ report'.at = "none"
<1>1. report.id \in 1..Len(rows) /\ report.row \in Rows
  BY DEF UpdateEnvRecon, Ranges, TypeOK, Saves
<1>2. rows' = [rows EXCEPT ![report.id] = report.row]
  BY DEF UpdateEnvRecon, SaveRow
<1>3. touch'.at = touch.at /\ touch'.id = touch.id
  BY DEF UpdateEnvRecon, SaveRow, TypeOK, Touches
<1>4. report'.at = "none"
  BY DEF UpdateEnvRecon, NoSave
<1> QED
  BY <1>1, <1>2, <1>3, <1>4, Changes

LEMMA CostSaves ==
  ASSUME TypeOK, Ranges, NEW c \in Component, UpdateCost(c)
  PROVE  /\ recost[c].id \in 1..Len(rows) /\ recost[c].row \in Rows /\ Len(rows) \in Nat
         /\ DOMAIN rows = 1..Len(rows) /\ DOMAIN rows' = 1..Len(rows)
         /\ \A i \in 1..Len(rows) :
              rows'[i] = IF i = recost[c].id THEN recost[c].row ELSE rows[i]
         /\ touch'.at = touch.at /\ touch'.id = touch.id
         /\ \A d \in Component : recost'[d].at = "save" =>
              d # c /\ recost'[d] = recost[d]
<1>1. recost[c].id \in 1..Len(rows) /\ recost[c].row \in Rows
  BY DEF UpdateCost, Ranges, TypeOK, Saves
<1>2. rows' = [rows EXCEPT ![recost[c].id] = recost[c].row]
  BY DEF UpdateCost, SaveRow
<1>3. touch'.at = touch.at /\ touch'.id = touch.id
  BY DEF UpdateCost, SaveRow, TypeOK, Touches
<1>4. recost \in [Component -> Saves] /\ recost' = [recost EXCEPT ![c] = NoSave]
  BY DEF UpdateCost, TypeOK
<1>5. \A d \in Component : recost'[d].at = "save" => d # c /\ recost'[d] = recost[d]
  BY <1>4 DEF NoSave
<1> QED
  BY <1>1, <1>2, <1>3, <1>5, Changes

LEMMA CostIsRead ==
  ASSUME TypeOK, NEW c \in Component, CompCostUpdateListener(c)
  PROVE  /\ latest \in 1..Len(rows) /\ rows[latest] \in Rows
         /\ \A d \in Component : recost'[d] =
              IF d = c THEN [at |-> "save", id |-> latest,
                             row |-> [rows[latest] EXCEPT !.cost = Total]]
              ELSE recost[d]
<1>1. latest \in 1..Len(rows)
  BY LenProperties DEF CompCostUpdateListener, TypeOK
<1>2. recost \in [Component -> Saves]
  BY DEF TypeOK
<1> QED
  BY <1>1, <1>2, RowType DEF CompCostUpdateListener

LEMMA CostIsDue ==
  ASSUME TypeOK, NEW c \in Component, NEW v \in Costs, UpdateComponent(c, v)
  PROVE  /\ \A d \in Component : recost'[d].at = "save" => recost'[d] = recost[d]
         /\ recost'[c].at = "read"
         /\ \A d \in Component : recost[d].at # "none" => recost'[d] = recost[d]
<1>1. recost \in [Component -> Saves] /\ recost' = [recost EXCEPT ![c].at = "read"]
  BY DEF UpdateComponent, TypeOK
<1>2. recost[c].at = "none" /\ recost[c] \in Saves
  BY <1>1 DEF UpdateComponent
<1>3. recost'[c].at = "read" /\ \A d \in Component \ {c} : recost'[d] = recost[d]
  BY <1>1, <1>2 DEF Saves
<1> QED
  BY <1>2, <1>3

LEMMA Inserts ==
  ASSUME TypeOK, GetNewEnvRecon
  PROVE  /\ Len(rows) \in Nat /\ Len(rows') = Len(rows) + 1
         /\ DOMAIN rows = 1..Len(rows) /\ DOMAIN rows' = 1..(Len(rows) + 1)
         /\ \A i \in 1..Len(rows) : rows'[i] = rows[i]
         /\ rows'[Len(rows) + 1] = [notice.row EXCEPT !.ended = clock']
         /\ notice.row \in Rows /\ clock \in Nat /\ clock' = clock + 1
         /\ notice' = [notice EXCEPT !.at = "save", !.id = Len(rows) + 1]
         /\ notice'.at = "save" /\ notice'.id = Len(rows) + 1
         /\ notice'.row = notice.row
<1>1. notice.row \in Rows /\ clock \in Nat /\ clock' = clock + 1
  BY DEF GetNewEnvRecon, Tick, TypeOK, Notices
<1>2. [notice.row EXCEPT !.ended = clock'] \in Rows
  BY <1>1 DEF Rows
<1>3. /\ Len(rows) \in Nat /\ Len(rows') = Len(rows) + 1
      /\ DOMAIN rows = 1..Len(rows) /\ DOMAIN rows' = 1..(Len(rows) + 1)
      /\ \A i \in 1..Len(rows) : rows'[i] = rows[i]
      /\ rows'[Len(rows) + 1] = [notice.row EXCEPT !.ended = clock']
  BY <1>2, Grows DEF GetNewEnvRecon
<1>4. notice \in Notices /\ notice' = [notice EXCEPT !.at = "save", !.id = Len(rows) + 1]
  BY <1>3 DEF GetNewEnvRecon, TypeOK
<1>5. /\ notice'.at = "save" /\ notice'.id = Len(rows) + 1
      /\ notice'.row = notice.row
  BY <1>4 DEF Notices
<1> QED
  BY <1>1, <1>3, <1>4, <1>5

LEMMA Creates ==
  ASSUME TypeOK, NEW p \in Patcher, CreateEnvRecon(p)
  PROVE  /\ Len(rows) \in Nat /\ Len(rows') = Len(rows) + 1
         /\ DOMAIN rows = 1..Len(rows) /\ DOMAIN rows' = 1..(Len(rows) + 1)
         /\ \A i \in 1..Len(rows) : rows'[i] = rows[i]
         /\ rows'[Len(rows) + 1] = NewRow
         /\ \A q \in Patcher :
              patch'[q] = IF q = p THEN Len(rows) + 1 ELSE patch[q]
<1>1. /\ Len(rows) \in Nat /\ Len(rows') = Len(rows) + 1
      /\ DOMAIN rows = 1..Len(rows) /\ DOMAIN rows' = 1..(Len(rows) + 1)
      /\ \A i \in 1..Len(rows) : rows'[i] = rows[i]
      /\ rows'[Len(rows) + 1] = NewRow
  BY NewRowIsRow, Grows DEF CreateEnvRecon
<1> QED
  BY <1>1 DEF CreateEnvRecon, TypeOK

\* A fix copies a row, or there is none to copy.
LEMMA FixIsFound ==
  ASSUME TypeOK, GetLatestNonValidationErrorRec
  PROVE  \/ notice'.at = "none" /\ Candidates = {} /\ told' = Valid
         \/ /\ notice'.at = "insert" /\ notice'.row.error = Valid /\ told' = told
            /\ Candidates # {}
            /\ \E i \in LatestNonValidation :
                 i \in 1..Len(rows) /\ notice'.row.status = rows[i].status
<1>1. CASE Candidates = {}
  BY <1>1 DEF GetLatestNonValidationErrorRec, NoNotice
<1>2. CASE Candidates # {}
  <2>1. PICK i \in LatestNonValidation :
          notice' = [at |-> "insert", id |-> 0,
                     row |-> [NewRow EXCEPT !.status = rows[i].status,
                                            !.cost = rows[i].cost]]
    BY <1>2 DEF GetLatestNonValidationErrorRec
  <2>2. i \in 1..Len(rows)
    BY LenProperties DEF LatestNonValidation, Candidates, TypeOK
  <2>3. notice'.at = "insert" /\ notice'.row.error = Valid
        /\ notice'.row.status = rows[i].status
    BY <2>1 DEF NewRow
  <2>4. told' = told
    BY <1>2 DEF GetLatestNonValidationErrorRec
  <2> QED
    BY <1>2, <2>2, <2>3, <2>4
<1> QED
  BY <1>1, <1>2

LEMMA ReportIsRead ==
  ASSUME TypeOK, Ranges, GetEnvRecon
  PROVE  /\ report.at = "read" /\ report'.at = "save" /\ report'.id = report.id
         /\ report.id \in 1..Len(rows) /\ rows[report.id] \in Rows
         /\ report.row \in Rows
         /\ report'.row.status = report.row.status
         /\ report'.row.error = rows[report.id].error
         /\ report'.row.ended = IF report.row.status \in Outcomes
                                THEN report.row.ended ELSE rows[report.id].ended
<1> DEFINE row == [rows[report.id] EXCEPT
                     !.status = report.row.status,
                     !.ended = IF report.row.status \in Outcomes
                               THEN report.row.ended ELSE @]
<1>1. report.id \in 1..Len(rows) /\ report.row \in Rows /\ report \in Saves
  BY DEF GetEnvRecon, Ranges, TypeOK, Saves
<1>2. rows[report.id] \in Rows
  BY <1>1, RowType
<1>3. /\ row.status = report.row.status /\ row.error = rows[report.id].error
      /\ row.ended = IF report.row.status \in Outcomes
                     THEN report.row.ended ELSE rows[report.id].ended
  BY <1>2 DEF Rows
<1>4. report.at = "read" /\ report' = [report EXCEPT !.at = "save", !.row = row]
  BY DEF GetEnvRecon
<1> HIDE DEF row
<1>5. report'.row = row /\ report'.at = "save" /\ report'.id = report.id
  BY <1>1, <1>4 DEF Saves
<1> QED
  BY <1>1, <1>2, <1>3, <1>4, <1>5

LEMMA NextOver ==
  ASSUME TypeOK, Ranges, OutcomeIsOver, Next PROVE OutcomeIsOver'
<1>1. ASSUME NEW s \in {"provisioning"} \cup Outcomes, GetLatestEnvReconId(s)
      PROVE  OutcomeIsOver'
  <2>1. report'.row.status = s /\ report.at = "none" /\ run \in {"due", "on"}
    BY <1>1 DEF GetLatestEnvReconId, NewRow
  <2>2. outcome' = "none"
    BY <1>1, <2>1 DEF OutcomeIsOver, GetLatestEnvReconId
  <2> QED
    BY <1>1, <2>1, <2>2 DEF OutcomeIsOver, GetLatestEnvReconId
<1>2. CASE GetEnvRecon
  BY <1>2, ReportIsRead DEF OutcomeIsOver, GetEnvRecon
<1>3. CASE UpdateEnvRecon
  BY <1>3 DEF OutcomeIsOver, UpdateEnvRecon, NoSave
<1>4. ASSUME NEW p \in Patcher, UpdateById(p) PROVE OutcomeIsOver'
  BY <1>4 DEF OutcomeIsOver, UpdateById
<1>5. CASE UNCHANGED <<run, outcome, report>>
  BY <1>5 DEF OutcomeIsOver
<1> QED
  BY <1>1, <1>2, <1>3, <1>4, <1>5
     DEF Next, CreateEnvRecon, ProcessInvalidRecon, ProcessValidRecon,
         GetLatestNonValidationErrorRec, GetNewEnvRecon, MergeAndSaveEnv,
         UpdateComponent, CommitComponent, CompCostUpdateListener, UpdateCost,
         EnvReconUpdateListener, SaveDate

LEMMA NextEnds ==
  ASSUME TypeOK, Ranges, EndsAreOver, Next PROVE EndsAreOver'
<1> USE DEF EndsAreOver
<1>1. ASSUME NEW p \in Patcher, CreateEnvRecon(p) PROVE EndsAreOver'
  <2>1. NewRow.ended = 0 /\ clock \in Nat
    BY DEF NewRow, TypeOK
  <2> QED
    BY <1>1, <2>1, Creates DEF CreateEnvRecon
<1>2. CASE GetNewEnvRecon
  <2>1. [notice.row EXCEPT !.ended = clock'].ended = clock'
    BY <1>2, Inserts DEF Rows
  <2>2. \A i \in DOMAIN rows' : rows'[i].ended <= clock'
    <3> SUFFICES ASSUME NEW i \in DOMAIN rows' PROVE rows'[i].ended <= clock'
      OBVIOUS
    <3>1. CASE i \in 1..Len(rows)
      <4>1. rows[i] \in Rows /\ rows'[i] = rows[i] /\ rows[i].ended <= clock
        BY <1>2, <3>1, Inserts, RowType
      <4>2. clock \in Nat /\ clock' = clock + 1
        BY <1>2, Inserts
      <4>3. rows[i].ended \in Nat
        BY <4>1 DEF Rows
      <4> QED
        BY <4>1, <4>2, <4>3
    <3>2. CASE i = Len(rows) + 1
      <4>1. rows'[i] = [notice.row EXCEPT !.ended = clock']
        BY <1>2, <3>2, Inserts
      <4>2. rows'[i].ended = clock'
        BY <2>1, <4>1
      <4>3. clock' \in Nat
        BY <1>2, Inserts
      <4> QED
        BY <4>2, <4>3
    <3> QED
      BY <1>2, <3>1, <3>2, Inserts
  <2>3. report.at # "none" => report.row.ended <= clock'
    BY <1>2, Inserts DEF TypeOK, Saves, Rows
  <2>4. \A c \in Component : recost[c].at = "save" => recost[c].row.ended <= clock'
    BY <1>2, Inserts DEF TypeOK, Saves, Rows
  <2> QED
    BY <1>2, <2>2, <2>3, <2>4 DEF GetNewEnvRecon
<1>3. ASSUME NEW s \in {"provisioning"} \cup Outcomes, GetLatestEnvReconId(s)
      PROVE  EndsAreOver'
  <2>1. /\ clock \in Nat /\ clock' \in Nat /\ clock <= clock'
        /\ s \in Outcomes => clock' # 0
    BY <1>3 DEF GetLatestEnvReconId, Tick, TypeOK, Outcomes
  <2>2. /\ report'.row.status = s
        /\ report'.row.ended = IF s \in Outcomes THEN clock' ELSE 0
    BY <1>3 DEF GetLatestEnvReconId, NewRow
  <2>3. \A i \in DOMAIN rows : rows[i].ended <= clock'
    <3> SUFFICES ASSUME NEW i \in DOMAIN rows PROVE rows[i].ended <= clock'
      OBVIOUS
    <3>1. rows[i] \in Rows
      BY RowType, LenProperties DEF TypeOK
    <3> QED
      BY <2>1, <3>1 DEF Rows
  <2>4. \A c \in Component : recost[c].at = "save" => recost[c].row.ended <= clock'
    BY <2>1 DEF TypeOK, Saves, Rows
  <2> QED
    BY <1>3, <2>1, <2>2, <2>3, <2>4 DEF GetLatestEnvReconId
<1>4. CASE GetEnvRecon
  <2>1. report.id \in DOMAIN rows
    BY <1>4, ReportIsRead, LenProperties DEF TypeOK
  <2> QED
    BY <1>4, <2>1, ReportIsRead DEF GetEnvRecon
<1>5. CASE UpdateEnvRecon
  <2>1. report.at = "save"
    BY <1>5 DEF UpdateEnvRecon
  <2> QED
    BY <1>5, <2>1, ReportSaves DEF UpdateEnvRecon
<1>6. ASSUME NEW c \in Component, CompCostUpdateListener(c) PROVE EndsAreOver'
  <2>1. [rows[latest] EXCEPT !.cost = Total].ended = rows[latest].ended
    BY <1>6, CostIsRead DEF Rows
  <2>2. latest \in DOMAIN rows
    BY <1>6, CostIsRead, LenProperties DEF TypeOK
  <2> QED
    BY <1>6, <2>1, <2>2, CostIsRead DEF CompCostUpdateListener
<1>7. ASSUME NEW c \in Component, UpdateCost(c) PROVE EndsAreOver'
  <2>1. recost[c].at = "save"
    BY <1>7 DEF UpdateCost
  <2>2. \A i \in DOMAIN rows' : rows'[i].ended <= clock
    BY <1>7, <2>1, CostSaves
  <2>3. \A d \in Component : recost'[d].at = "save" => recost'[d].row.ended <= clock
    BY <1>7, CostSaves
  <2> QED
    BY <1>7, <2>2, <2>3 DEF UpdateCost
<1>8. ASSUME NEW c \in Component, NEW v \in Costs, UpdateComponent(c, v)
      PROVE  EndsAreOver'
  BY <1>8, CostIsDue DEF UpdateComponent
<1>9. CASE UNCHANGED <<rows, clock, report, recost>>
  BY <1>9
<1> QED
  BY <1>1, <1>2, <1>3, <1>4, <1>5, <1>6, <1>7, <1>8, <1>9
     DEF Next, UpdateById, ProcessInvalidRecon, ProcessValidRecon,
         GetLatestNonValidationErrorRec, MergeAndSaveEnv, CommitComponent,
         EnvReconUpdateListener, SaveDate

LEMMA NextErrors ==
  ASSUME TypeOK, Ranges, ErrorsAreKept, Next PROVE ErrorsAreKept'
<1> USE DEF ErrorsAreKept
<1>1. ASSUME NEW p \in Patcher, CreateEnvRecon(p) PROVE ErrorsAreKept'
  BY <1>1, Creates DEF CreateEnvRecon, Ranges
<1>2. CASE GetNewEnvRecon
  BY <1>2, Inserts DEF GetNewEnvRecon, Ranges
<1>3. ASSUME NEW s \in {"provisioning"} \cup Outcomes, GetLatestEnvReconId(s)
      PROVE  ErrorsAreKept'
  BY <1>3 DEF GetLatestEnvReconId
<1>4. CASE GetEnvRecon
  BY <1>4, ReportIsRead DEF GetEnvRecon
<1>5. CASE UpdateEnvRecon
  <2>1. report.at = "save"
    BY <1>5 DEF UpdateEnvRecon
  <2> QED
    BY <1>5, <2>1, ReportSaves DEF UpdateEnvRecon, Ranges
<1>6. ASSUME NEW c \in Component, CompCostUpdateListener(c) PROVE ErrorsAreKept'
  <2>1. [rows[latest] EXCEPT !.cost = Total].error = rows[latest].error
    BY <1>6, CostIsRead DEF Rows
  <2> QED
    BY <1>6, <2>1, CostIsRead DEF CompCostUpdateListener
<1>7. ASSUME NEW c \in Component, UpdateCost(c) PROVE ErrorsAreKept'
  <2>1. recost[c].at = "save"
    BY <1>7 DEF UpdateCost
  <2>2. rows'[recost[c].id].error = rows[recost[c].id].error
    BY <1>7, <2>1, CostSaves
  <2>3. \A i \in 1..Len(rows) : rows'[i].error = rows[i].error
    BY <1>7, <2>2, CostSaves
  <2>4. report.at = "save" => report.row.error = rows'[report.id].error
    BY <2>3 DEF Ranges
  <2>5. ASSUME NEW d \in Component, recost'[d].at = "save"
        PROVE  recost'[d].row.error = rows'[recost'[d].id].error
    <3>1. recost'[d] = recost[d] /\ recost[d].at = "save"
      BY <1>7, <2>5, CostSaves
    <3> QED
      BY <2>3, <3>1 DEF Ranges
  <2> QED
    BY <1>7, <2>4, <2>5 DEF UpdateCost
<1>8. ASSUME NEW c \in Component, NEW v \in Costs, UpdateComponent(c, v)
      PROVE  ErrorsAreKept'
  BY <1>8, CostIsDue DEF UpdateComponent
<1>9. CASE UNCHANGED <<rows, report, recost>>
  BY <1>9
<1> QED
  BY <1>1, <1>2, <1>3, <1>4, <1>5, <1>6, <1>7, <1>8, <1>9
     DEF Next, UpdateById, ProcessInvalidRecon, ProcessValidRecon,
         GetLatestNonValidationErrorRec, MergeAndSaveEnv, CommitComponent,
         EnvReconUpdateListener, SaveDate

\* A row that nobody knows of becomes known only as the latest.
LEMMA StaysFresh ==
  ASSUME TypeOK, Ranges, Next, NEW id, Fresh(id), latest' # id
  PROVE  Fresh(id)'
<1> USE DEF Fresh
<1>1. ASSUME NEW s \in {"provisioning"} \cup Outcomes, GetLatestEnvReconId(s)
      PROVE  Fresh(id)'
  BY <1>1 DEF GetLatestEnvReconId
<1>2. CASE GetEnvRecon
  BY <1>2, ReportIsRead DEF GetEnvRecon
<1>3. CASE UpdateEnvRecon
  BY <1>3, ReportSaves DEF UpdateEnvRecon
<1>4. ASSUME NEW c \in Component, CompCostUpdateListener(c) PROVE Fresh(id)'
  BY <1>4, CostIsRead DEF CompCostUpdateListener
<1>5. ASSUME NEW c \in Component, UpdateCost(c) PROVE Fresh(id)'
  <2>1. \A d \in Component : recost'[d].at = "save" => recost'[d].id # id
    BY <1>5, CostSaves
  <2>2. touch'.at = "save" => touch'.id # id
    BY <1>5, CostSaves
  <2> QED
    BY <1>5, <2>1, <2>2 DEF UpdateCost
<1>6. ASSUME NEW c \in Component, NEW v \in Costs, UpdateComponent(c, v)
      PROVE  Fresh(id)'
  BY <1>6, CostIsDue DEF UpdateComponent
<1>7. CASE EnvReconUpdateListener
  BY <1>7 DEF EnvReconUpdateListener
<1>8. CASE SaveDate
  BY <1>8 DEF SaveDate, TypeOK, Touches
<1>9. CASE UNCHANGED <<report, recost, touch>>
  BY <1>9
<1> QED
  BY <1>1, <1>2, <1>3, <1>4, <1>5, <1>6, <1>7, <1>8, <1>9
     DEF Next, CreateEnvRecon, UpdateById, ProcessInvalidRecon, ProcessValidRecon,
         GetLatestNonValidationErrorRec, GetNewEnvRecon, MergeAndSaveEnv,
         CommitComponent

LEMMA NextIsFresh ==
  ASSUME TypeOK, Ranges PROVE Fresh(Len(rows) + 1)
<1>1. Len(rows) \in Nat
  BY LenProperties DEF TypeOK
<1> QED
  BY <1>1 DEF TypeOK, Ranges, Fresh

LEMMA NextFresh ==
  ASSUME TypeOK, Ranges, PatchesAreFresh, NoticeIsFresh, Next
  PROVE  PatchesAreFresh' /\ NoticeIsFresh'
<1>0. \A id : Fresh(id) /\ latest' # id => Fresh(id)'
  BY StaysFresh
<1>1. ASSUME NEW p \in Patcher, CreateEnvRecon(p)
      PROVE  PatchesAreFresh' /\ NoticeIsFresh'
  <2>1. Fresh(Len(rows) + 1) /\ latest' = latest /\ notice' = notice
    BY <1>1, NextIsFresh DEF CreateEnvRecon
  <2>2. PICK new : new = Len(rows) + 1
    OBVIOUS
  <2>3. Fresh(new)' /\ Fresh(new)
    BY <1>0, <2>1, <2>2 DEF Fresh
  <2>4. \A q \in Patcher : patch'[q] = IF q = p THEN new ELSE patch[q]
    BY <1>1, <2>2, Creates
  <2>5. \A q \in Patcher : patch[q] # new
    BY <1>1, <2>2, Creates DEF Ranges
  <2>6. \A q \in Patcher : patch[q] # 0 => Fresh(patch[q]) /\ patch[q] # latest
    BY DEF PatchesAreFresh, Fresh
  <2>7. ASSUME NEW q \in Patcher, patch'[q] # 0 PROVE Fresh(patch[q])'
    <3>1. PICK id : id = patch'[q]
      OBVIOUS
    <3>2. Fresh(id)'
      BY <1>0, <2>1, <2>3, <2>4, <2>6, <2>7, <3>1
    <3> QED
      BY <3>1, <3>2 DEF Fresh
  <2>8. PatchesAreFresh'
    BY <2>4, <2>5, <2>7 DEF PatchesAreFresh
  <2>9. NoticeIsFresh'
    <3> SUFFICES ASSUME notice.at = "save" PROVE NoticeIsFresh'
      BY <2>1 DEF NoticeIsFresh
    <3>1. PICK id : id = notice.id
      OBVIOUS
    <3>2. Fresh(id) /\ id # latest /\ id # new
      BY <1>1, <2>2, <3>1, Creates DEF NoticeIsFresh, Fresh, Ranges
    <3>3. Fresh(id)'
      BY <1>0, <2>1, <3>2
    <3> QED
      BY <2>1, <2>4, <3>1, <3>2, <3>3 DEF NoticeIsFresh, Fresh
  <2> QED
    BY <2>8, <2>9
<1>2. CASE GetNewEnvRecon
  <2>1. Fresh(Len(rows) + 1) /\ latest' = latest /\ patch' = patch
    BY <1>2, NextIsFresh DEF GetNewEnvRecon
  <2>2. PICK new : new = Len(rows) + 1
    OBVIOUS
  <2>3. Fresh(new)' /\ notice'.id = new
    BY <1>0, <1>2, <2>1, <2>2, Inserts DEF Fresh
  <2>4. \A q \in Patcher : patch[q] # new
    BY <1>2, <2>2, Inserts DEF Ranges
  <2>5. NoticeIsFresh'
    BY <2>1, <2>3, <2>4 DEF NoticeIsFresh, Fresh
  <2>6. ASSUME NEW q \in Patcher, patch'[q] # 0 PROVE Fresh(patch[q])'
    <3>1. PICK id : id = patch[q]
      OBVIOUS
    <3>2. Fresh(id) /\ id # latest
      BY <2>1, <2>6, <3>1 DEF PatchesAreFresh, Fresh
    <3>3. Fresh(id)'
      BY <1>0, <2>1, <3>2
    <3> QED
      BY <2>1, <3>1, <3>3 DEF Fresh
  <2> QED
    BY <2>1, <2>5, <2>6 DEF PatchesAreFresh
<1>3. ASSUME UNCHANGED notice \/ notice'.at # "save",
             \A q \in Patcher : patch'[q] \in {0, patch[q]},
             \A q \in Patcher : patch'[q] # 0 => patch[q] # latest',
             notice'.at = "save" => notice.id # latest'
      PROVE  PatchesAreFresh' /\ NoticeIsFresh'
  <2>1. ASSUME NEW q \in Patcher, patch'[q] # 0 PROVE Fresh(patch[q])'
    <3>1. PICK id : id = patch[q]
      OBVIOUS
    <3>2. Fresh(id) /\ id # latest' /\ patch'[q] = id
      BY <1>3, <2>1, <3>1 DEF PatchesAreFresh
    <3>3. Fresh(id)'
      BY <1>0, <3>2
    <3> QED
      BY <3>2, <3>3 DEF Fresh
  <2>2. PatchesAreFresh'
    BY <1>3, <2>1 DEF PatchesAreFresh
  <2>3. NoticeIsFresh'
    <3> SUFFICES ASSUME notice'.at = "save" PROVE NoticeIsFresh'
      BY DEF NoticeIsFresh
    <3>1. PICK id : id = notice.id
      OBVIOUS
    <3>2. Fresh(id) /\ id # latest' /\ notice' = notice
      BY <1>3, <3>1 DEF NoticeIsFresh
    <3>3. Fresh(id)'
      BY <1>0, <3>2
    <3>4. \A q \in Patcher : patch'[q] # id
      <4>1. id # 0 /\ \A q \in Patcher : patch[q] # id
        BY <3>1, <3>2 DEF NoticeIsFresh, Ranges
      <4> QED
        BY <1>3, <4>1
    <3> QED
      BY <3>1, <3>2, <3>3, <3>4 DEF NoticeIsFresh, Fresh
  <2> QED
    BY <2>2, <2>3
<1>4. ASSUME NEW p \in Patcher, UpdateById(p)
      PROVE  PatchesAreFresh' /\ NoticeIsFresh'
  <2>1. latest' = patch[p] /\ notice' = notice /\ patch[p] # 0
    BY <1>4 DEF UpdateById
  <2>2. \A q \in Patcher : patch'[q] = IF q = p THEN 0 ELSE patch[q]
    BY <1>4 DEF UpdateById, TypeOK
  <2>3. \A q \in Patcher : patch'[q] # 0 => patch[q] # latest'
    BY <2>1, <2>2 DEF PatchesAreFresh
  <2>4. notice'.at = "save" => notice.id # latest'
    BY <2>1 DEF NoticeIsFresh
  <2> QED
    BY <1>3, <2>1, <2>2, <2>3, <2>4
<1>5. CASE MergeAndSaveEnv
  <2>1. latest' = notice.id /\ notice.at = "save" /\ notice'.at = "none" /\ patch' = patch
    BY <1>5 DEF MergeAndSaveEnv, NoNotice
  <2>2. \A q \in Patcher : patch[q] # latest'
    BY <2>1 DEF NoticeIsFresh
  <2> QED
    BY <1>3, <2>1, <2>2
<1>6. CASE SaveDate
  <2>1. latest' = touch.id /\ touch.at = "save" /\ notice' = notice /\ patch' = patch
    BY <1>6 DEF SaveDate
  <2>2. \A q \in Patcher : patch'[q] # 0 => patch[q] # latest'
    BY <2>1 DEF PatchesAreFresh, Fresh
  <2>3. notice'.at = "save" => notice.id # latest'
    BY <2>1 DEF NoticeIsFresh, Fresh
  <2> QED
    BY <1>3, <2>1, <2>2, <2>3
<1>7. ASSUME UNCHANGED <<latest, patch>>, UNCHANGED notice \/ notice'.at # "save"
      PROVE  PatchesAreFresh' /\ NoticeIsFresh'
  <2>1. \A q \in Patcher : patch'[q] # 0 => patch[q] # latest'
    BY <1>7 DEF PatchesAreFresh, Fresh
  <2>2. notice'.at = "save" => notice.id # latest'
    BY <1>7 DEF NoticeIsFresh, Fresh
  <2> QED
    BY <1>3, <1>7, <2>1, <2>2
<1>8. CASE GetLatestNonValidationErrorRec
  <2>1. notice'.at # "save"
    BY <1>8, FixIsFound
  <2> QED
    BY <1>7, <1>8, <2>1 DEF GetLatestNonValidationErrorRec
<1>9. ASSUME NEW e \in Error, ProcessInvalidRecon(e)
      PROVE  PatchesAreFresh' /\ NoticeIsFresh'
  <2>1. notice'.at # "save"
    BY <1>9 DEF ProcessInvalidRecon
  <2> QED
    BY <1>7, <1>9, <2>1 DEF ProcessInvalidRecon
<1>10. CASE ProcessValidRecon
  <2>1. notice'.at # "save"
    BY <1>10 DEF ProcessValidRecon, NoNotice
  <2> QED
    BY <1>7, <1>10, <2>1 DEF ProcessValidRecon
<1> QED
  BY <1>1, <1>2, <1>4, <1>5, <1>6, <1>7, <1>8, <1>9, <1>10
     DEF Next, GetLatestEnvReconId, GetEnvRecon, UpdateEnvRecon, UpdateComponent,
         CommitComponent, CompCostUpdateListener, UpdateCost, EnvReconUpdateListener

LEMMA NextNotice ==
  ASSUME TypeOK, Ranges, NoticeIsFresh, NoticeIsKept, Next PROVE NoticeIsKept'
<1> USE DEF NoticeIsKept
<1>1. ASSUME NEW p \in Patcher, CreateEnvRecon(p) PROVE NoticeIsKept'
  BY <1>1, Creates DEF CreateEnvRecon, Ranges
<1>2. CASE GetNewEnvRecon
  <2>1. /\ [notice.row EXCEPT !.ended = clock'].status = notice.row.status
        /\ [notice.row EXCEPT !.ended = clock'].error = notice.row.error
        /\ [notice.row EXCEPT !.ended = clock'].ended = clock'
    BY <1>2, Inserts DEF Rows
  <2>2. clock' # 0 /\ notice.at = "insert"
    BY <1>2, Inserts DEF GetNewEnvRecon
  <2>3. rows'[notice'.id] = [notice.row EXCEPT !.ended = clock']
    BY <1>2, Inserts
  <2> QED
    BY <1>2, <2>1, <2>2, <2>3, Inserts
<1>3. CASE GetLatestNonValidationErrorRec
  BY <1>3, FixIsFound
<1>4. ASSUME NEW e \in Error, ProcessInvalidRecon(e) PROVE NoticeIsKept'
  <2>1. CASE SameErrors(e)
    BY <1>4, <2>1 DEF ProcessInvalidRecon
  <2>2. CASE ~SameErrors(e)
    <3> DEFINE row == [NewRow EXCEPT !.status = "validation_failed", !.error = e]
    <3>1. row.status = "validation_failed"
      BY DEF NewRow
    <3>2. notice' = [at |-> "insert", id |-> 0, row |-> row]
      BY <1>4, <2>2 DEF ProcessInvalidRecon
    <3> HIDE DEF row
    <3> QED
      BY <3>1, <3>2
  <2> QED
    BY <2>1, <2>2
<1>5. CASE ProcessValidRecon
  BY <1>5 DEF ProcessValidRecon, NoNotice
<1>6. CASE MergeAndSaveEnv
  BY <1>6 DEF MergeAndSaveEnv, NoNotice
<1>7. CASE UpdateEnvRecon
  <2>1. notice.at = "save" => notice.id # report.id /\ notice.id \in 1..Len(rows)
    BY <1>7 DEF NoticeIsFresh, Fresh, UpdateEnvRecon, Ranges
  <2> QED
    BY <1>7, <2>1, ReportSaves DEF UpdateEnvRecon
<1>8. ASSUME NEW c \in Component, UpdateCost(c) PROVE NoticeIsKept'
  <2>1. notice.at = "save" => notice.id # recost[c].id /\ notice.id \in 1..Len(rows)
    BY <1>8 DEF NoticeIsFresh, Fresh, UpdateCost, Ranges
  <2>2. notice.at = "save" => rows'[notice.id] = rows[notice.id]
    BY <1>8, <2>1, CostSaves
  <2> QED
    BY <1>8, <2>2 DEF UpdateCost
<1>9. CASE UNCHANGED <<rows, notice>>
  BY <1>9
<1> QED
  BY <1>1, <1>2, <1>3, <1>4, <1>5, <1>6, <1>7, <1>8, <1>9
     DEF Next, UpdateById, GetLatestEnvReconId, GetEnvRecon, UpdateComponent,
         CommitComponent, CompCostUpdateListener, EnvReconUpdateListener, SaveDate

------------------------------------------------------------------------------
(* The three promises.                                                     *)

\* A step that does not race leaves the latest row, makes another one the
\* latest, or changes what a request has meant to change.
LEMMA NextErrorsHold ==
  ASSUME TypeOK, Ranges, NoticeIsKept, ErrorsAreKept, ErrorsHold, Next
  PROVE  ErrorsHold'
<1> USE DEF ErrorsHold
<1>0. latest # 0 => latest \in 1..Len(rows)
  BY LenProperties DEF TypeOK
<1>1. ASSUME NEW p \in Patcher, CreateEnvRecon(p) PROVE ErrorsHold'
  BY <1>0, <1>1, Creates DEF CreateEnvRecon
<1>2. CASE GetNewEnvRecon
  BY <1>0, <1>2, Inserts DEF GetNewEnvRecon
<1>3. ASSUME NEW p \in Patcher, UpdateById(p) PROVE ErrorsHold'
  BY <1>3 DEF UpdateById
<1>4. ASSUME NEW e \in Error, ProcessInvalidRecon(e) PROVE ErrorsHold'
  BY <1>4 DEF ProcessInvalidRecon, SameErrors
<1>5. CASE ProcessValidRecon
  BY <1>5 DEF ProcessValidRecon
<1>6. CASE GetLatestNonValidationErrorRec
  BY <1>6 DEF GetLatestNonValidationErrorRec
<1>7. CASE MergeAndSaveEnv
  BY <1>7 DEF MergeAndSaveEnv, NoticeIsKept, Ranges
<1>8. CASE UpdateEnvRecon
  BY <1>0, <1>8, ReportSaves DEF UpdateEnvRecon, ErrorsAreKept
<1>9. ASSUME NEW c \in Component, UpdateCost(c) PROVE ErrorsHold'
  <2>1. recost[c].at = "save"
    BY <1>9 DEF UpdateCost
  <2>2. recost[c].row.error = rows[recost[c].id].error
    BY <2>1 DEF ErrorsAreKept
  <2>3. \A i \in 1..Len(rows) :
          rows'[i] = IF i = recost[c].id THEN recost[c].row ELSE rows[i]
    BY <1>9, CostSaves
  <2>4. latest # 0 => rows'[latest].error = rows[latest].error
    BY <1>0, <2>2, <2>3
  <2>5. UNCHANGED <<latest, told>> /\ (~raced' => ~raced)
    BY <1>9 DEF UpdateCost
  <2> QED
    BY <2>4, <2>5
<1>10. CASE SaveDate
  BY <1>10 DEF SaveDate
<1>11. ASSUME NEW c \in Component, CommitComponent(c) PROVE ErrorsHold'
  BY <1>11 DEF CommitComponent
<1>12. CASE UNCHANGED <<rows, latest, told, raced>>
  BY <1>12
<1> QED
  BY <1>1, <1>2, <1>3, <1>4, <1>5, <1>6, <1>7, <1>8, <1>9, <1>10, <1>11, <1>12
     DEF Next, GetLatestEnvReconId, GetEnvRecon, UpdateComponent,
         CompCostUpdateListener, EnvReconUpdateListener

LEMMA NextReport ==
  ASSUME TypeOK, Ranges, PatchesAreFresh, NoticeIsFresh, NoticeIsKept, EndsAreOver,
         ReportIsLatest, Next
  PROVE  ReportIsLatest'
<1> DEFINE Due == ~raced /\ report.at # "none" /\ report.row.status \in Outcomes
                    /\ report.id = latest /\ ~(Copies /\ notice.at = "save")
<1>0. /\ \A j : j \in Candidates <=>
             j \in DOMAIN rows /\ rows[j].status # "validation_failed"
      /\ DOMAIN rows = 1..Len(rows) /\ Len(rows) \in Nat
  BY LenProperties DEF Candidates, TypeOK
<1>1. ASSUME NEW p \in Patcher, CreateEnvRecon(p) PROVE ReportIsLatest'
  <2> SUFFICES ASSUME Due', NEW j \in Candidates', j # latest'
               PROVE  rows'[j].ended < report'.row.ended
    BY DEF ReportIsLatest, Copies
  <2>1. /\ Due /\ latest' = latest /\ report' = report
        /\ report.row.ended \in Nat /\ report.row.ended # 0
    BY <1>1 DEF CreateEnvRecon, Copies, EndsAreOver, TypeOK, Saves, Rows
  <2>2. CASE j = Len(rows) + 1
    BY <1>1, <2>1, <2>2, Creates DEF NewRow
  <2>3. CASE j # Len(rows) + 1
    <3>1. j \in 1..Len(rows) /\ rows'[j] = rows[j] /\ j \in Candidates
      BY <1>0, <1>1, <2>3, Creates DEF Candidates
    <3> QED
      BY <2>1, <3>1 DEF ReportIsLatest
  <2> QED
    BY <2>2, <2>3
<1>2. CASE GetNewEnvRecon
  <2> SUFFICES ASSUME Due', NEW j \in Candidates', j # latest'
               PROVE  rows'[j].ended < report'.row.ended
    BY DEF ReportIsLatest, Copies
  <2>1. notice.at = "insert" /\ notice'.row = notice.row /\ notice'.at = "save"
    BY <1>2, Inserts DEF GetNewEnvRecon
  <2>2. Due /\ latest' = latest /\ report' = report
    BY <1>2, <2>1 DEF GetNewEnvRecon, Copies
  <2>3. notice.row.status = "validation_failed"
    BY <2>1 DEF NoticeIsKept, Copies
  <2>4. CASE j = Len(rows) + 1
    <3>1. rows'[j].status = "validation_failed"
      BY <1>2, <2>3, <2>4, Inserts DEF Rows
    <3> QED
      BY <3>1 DEF Candidates
  <2>5. CASE j # Len(rows) + 1
    <3>1. j \in 1..Len(rows) /\ rows'[j] = rows[j] /\ j \in Candidates
      BY <1>0, <1>2, <2>5, Inserts DEF Candidates
    <3> QED
      BY <2>2, <3>1 DEF ReportIsLatest
  <2> QED
    BY <2>4, <2>5
<1>3. ASSUME NEW s \in {"provisioning"} \cup Outcomes, GetLatestEnvReconId(s)
      PROVE  ReportIsLatest'
  <2> SUFFICES ASSUME s \in Outcomes, NEW j \in Candidates
               PROVE  rows[j].ended < report'.row.ended
    <3>1. report'.row.status = s
      BY <1>3 DEF GetLatestEnvReconId, NewRow
    <3> QED
      BY <1>3, <3>1 DEF GetLatestEnvReconId, ReportIsLatest, Candidates
  <2>1. report'.row.ended = clock' /\ clock' = clock + 1 /\ clock \in Nat
    BY <1>3 DEF GetLatestEnvReconId, NewRow, Outcomes, Tick, TypeOK
  <2>2. j \in 1..Len(rows) /\ rows[j].ended <= clock
    BY <1>0 DEF EndsAreOver
  <2>3. rows[j].ended \in Nat
    BY <2>2, RowType DEF Rows
  <2> QED
    BY <2>1, <2>2, <2>3
<1>4. CASE GetEnvRecon
  BY <1>4, ReportIsRead DEF GetEnvRecon, ReportIsLatest, Candidates, Copies
<1>5. CASE UpdateEnvRecon
  BY <1>5, ReportSaves DEF ReportIsLatest
<1>6. ASSUME NEW c \in Component, UpdateCost(c) PROVE ReportIsLatest'
  <2> SUFFICES ASSUME Due', NEW j \in Candidates', j # latest'
               PROVE  rows'[j].ended < report'.row.ended
    BY DEF ReportIsLatest, Copies
  <2>1. Due /\ latest' = latest /\ report' = report /\ recost[c].id = latest
    BY <1>6 DEF UpdateCost, Copies
  <2>2. j \in 1..Len(rows) /\ rows'[j] = rows[j]
    BY <1>6, <2>1, CostSaves DEF Candidates
  <2>3. j \in Candidates
    BY <1>0, <2>2 DEF Candidates
  <2> QED
    BY <2>1, <2>2, <2>3 DEF ReportIsLatest
<1>7. ASSUME NEW p \in Patcher, UpdateById(p) PROVE ReportIsLatest'
  <2>1. report.at # "none" => report.id # latest'
    BY <1>7 DEF UpdateById, PatchesAreFresh, Fresh
  <2> QED
    BY <1>7, <2>1 DEF UpdateById, ReportIsLatest
<1>8. CASE MergeAndSaveEnv
  <2>1. report.at # "none" => report.id # latest'
    BY <1>8 DEF MergeAndSaveEnv, NoticeIsFresh, Fresh
  <2> QED
    BY <1>8, <2>1 DEF MergeAndSaveEnv, ReportIsLatest
<1>9. ASSUME UNCHANGED <<rows, report, latest>>, raced' \/ raced' = raced,
             notice' = notice \/ notice.at # "save"
      PROVE  ReportIsLatest'
  BY <1>9 DEF ReportIsLatest, Candidates, Copies
<1>10. CASE SaveDate
  BY <1>10 DEF SaveDate, ReportIsLatest, Candidates, Copies
<1>11. CASE GetLatestNonValidationErrorRec
  BY <1>9, <1>11 DEF GetLatestNonValidationErrorRec
<1>12. ASSUME NEW e \in Error, ProcessInvalidRecon(e) PROVE ReportIsLatest'
  BY <1>9, <1>12 DEF ProcessInvalidRecon
<1>13. CASE ProcessValidRecon
  BY <1>9, <1>13 DEF ProcessValidRecon
<1>14. ASSUME NEW c \in Component, CommitComponent(c) PROVE ReportIsLatest'
  <2>1. raced' \/ raced' = raced
    BY <1>14 DEF CommitComponent, TypeOK
  <2> QED
    BY <1>9, <1>14, <2>1 DEF CommitComponent
<1> QED
  BY <1>1, <1>2, <1>3, <1>4, <1>5, <1>6, <1>7, <1>8, <1>9, <1>10, <1>11, <1>12, <1>13, <1>14
     DEF Next, UpdateComponent, CompCostUpdateListener, EnvReconUpdateListener

LEMMA NextOutcomeHolds ==
  ASSUME TypeOK, Ranges, NoticeIsFresh, NoticeIsKept, EndsAreOver, OutcomeIsOver,
         ReportIsLatest, OutcomeHolds, Next
  PROVE  OutcomeHolds'
<1> DEFINE Shown == /\ latest # 0 /\ rows[latest].ended # 0
                    /\ \/ rows[latest].status = outcome
                       \/ told # Valid /\ rows[latest].status = "validation_failed"
           Copied == Copies => notice.row.status = outcome
           Kept == \E i \in Candidates :
                     /\ rows[i].ended # 0 /\ rows[i].status = outcome
                     /\ \A j \in Candidates :
                          rows[j].ended >= rows[i].ended => rows[j].status = outcome
<1>0. /\ \A j : j \in Candidates <=>
             j \in DOMAIN rows /\ rows[j].status # "validation_failed"
      /\ DOMAIN rows = 1..Len(rows) /\ Len(rows) \in Nat
      /\ latest # 0 => latest \in 1..Len(rows)
  BY LenProperties DEF Candidates, TypeOK
<1>1. ASSUME ~raced, outcome # "none" PROVE Shown /\ Copied /\ Kept
  BY <1>1 DEF OutcomeHolds
<1>2. ASSUME ~raced' /\ outcome' # "none" => Shown' /\ Copied' /\ Kept'
      PROVE  OutcomeHolds'
  BY <1>2 DEF OutcomeHolds
<1>3. ASSUME NEW p \in Patcher, CreateEnvRecon(p) PROVE OutcomeHolds'
  <2> SUFFICES ASSUME ~raced, outcome # "none" PROVE Shown' /\ Copied' /\ Kept'
    BY <1>2, <1>3 DEF CreateEnvRecon
  <2>1. /\ latest' = latest /\ told' = told /\ outcome' = outcome /\ notice' = notice
    BY <1>3 DEF CreateEnvRecon
  <2>2. Shown'
    BY <1>0, <1>1, <1>3, <2>1, Creates
  <2>3. Copied'
    BY <1>1, <2>1 DEF Copies
  <2>4. PICK i \in Candidates :
          /\ rows[i].ended # 0 /\ rows[i].status = outcome
          /\ \A j \in Candidates :
               rows[j].ended >= rows[i].ended => rows[j].status = outcome
    BY <1>1
  <2>5. i \in 1..Len(rows) /\ rows'[i] = rows[i] /\ i \in Candidates'
    BY <1>0, <1>3, Creates DEF Candidates
  <2>6. rows[i].ended \in Nat
    BY <2>5, RowType DEF Rows
  <2>7. ASSUME NEW j \in Candidates', rows'[j].ended >= rows'[i].ended
        PROVE  rows'[j].status = outcome'
    <3>1. CASE j = Len(rows) + 1
      BY <1>3, <2>4, <2>5, <2>6, <2>7, <3>1, Creates DEF NewRow
    <3>2. CASE j # Len(rows) + 1
      <4>1. j \in 1..Len(rows) /\ rows'[j] = rows[j] /\ j \in Candidates
        BY <1>0, <1>3, <3>2, Creates DEF Candidates
      <4> QED
        BY <2>1, <2>4, <2>5, <2>7, <4>1
    <3> QED
      BY <3>1, <3>2
  <2>8. Kept'
    BY <2>1, <2>4, <2>5, <2>7
  <2> QED
    BY <2>2, <2>3, <2>8
<1>4. CASE GetNewEnvRecon
  <2> SUFFICES ASSUME ~raced, outcome # "none" PROVE Shown' /\ Copied' /\ Kept'
    BY <1>2, <1>4 DEF GetNewEnvRecon
  <2>1. /\ latest' = latest /\ told' = told /\ outcome' = outcome
        /\ notice.at = "insert"
    BY <1>4 DEF GetNewEnvRecon
  <2>2. Shown'
    BY <1>0, <1>1, <1>4, <2>1, Inserts
  <2>3. Copied'
    BY <1>1, <1>4, <2>1, Inserts DEF Copies
  <2>4. PICK i \in Candidates :
          /\ rows[i].ended # 0 /\ rows[i].status = outcome
          /\ \A j \in Candidates :
               rows[j].ended >= rows[i].ended => rows[j].status = outcome
    BY <1>1
  <2>5. i \in 1..Len(rows) /\ rows'[i] = rows[i] /\ i \in Candidates'
    BY <1>0, <1>4, Inserts DEF Candidates
  <2>6. rows'[Len(rows) + 1].status = notice.row.status
    BY <1>4, Inserts DEF Rows
  <2>7. notice.row.error # Valid => notice.row.status = "validation_failed"
    BY <2>1 DEF NoticeIsKept
  <2>8. notice.row.error = Valid => notice.row.status = outcome
    BY <1>1, <2>1 DEF Copies
  <2>9. ASSUME NEW j \in Candidates', rows'[j].ended >= rows'[i].ended
        PROVE  rows'[j].status = outcome'
    <3>1. CASE j = Len(rows) + 1
      BY <2>1, <2>6, <2>7, <2>8, <3>1 DEF Candidates
    <3>2. CASE j # Len(rows) + 1
      <4>1. j \in 1..Len(rows) /\ rows'[j] = rows[j] /\ j \in Candidates
        BY <1>0, <1>4, <3>2, Inserts DEF Candidates
      <4> QED
        BY <2>1, <2>4, <2>5, <2>9, <4>1
    <3> QED
      BY <3>1, <3>2
  <2>10. Kept'
    BY <2>1, <2>4, <2>5, <2>9
  <2> QED
    BY <2>2, <2>3, <2>10
<1>5. CASE UpdateEnvRecon
  <2> SUFFICES ASSUME ~raced', outcome' # "none" PROVE Shown' /\ Copied' /\ Kept'
    BY <1>2
  <2>1. /\ ~raced /\ report.id = latest /\ ~Copies
        /\ report.at = "save" /\ latest' = latest /\ notice' = notice
    BY <1>5 DEF UpdateEnvRecon, Copies
  <2>2. run = "none" /\ outcome' = report.row.status
    BY <1>5, <2>1 DEF UpdateEnvRecon, OutcomeIsOver
  <2>3. report.row.status \in Outcomes /\ report.row.ended # 0
    BY <2>1, <2>2 DEF OutcomeIsOver, EndsAreOver
  <2>4. \A j \in Candidates : j # latest => rows[j].ended < report.row.ended
    BY <2>1, <2>3 DEF ReportIsLatest
  <2>5. latest \in 1..Len(rows) /\ rows'[latest] = report.row
    BY <1>5, <2>1, ReportSaves
  <2>6. Shown' /\ Copied'
    BY <1>0, <2>1, <2>2, <2>3, <2>5 DEF Copies
  <2>7. latest \in Candidates'
    BY <1>5, <2>3, <2>5, ReportSaves DEF Candidates, Outcomes
  <2>8. ASSUME NEW j \in Candidates', rows'[j].ended >= rows'[latest].ended
        PROVE  rows'[j].status = outcome'
    <3>1. CASE j = latest
      BY <2>2, <2>5, <3>1
    <3>2. CASE j # latest
      <4>1. j \in 1..Len(rows) /\ rows'[j] = rows[j]
        BY <1>5, <2>1, <3>2, ReportSaves DEF Candidates
      <4>2. j \in Candidates
        BY <1>0, <4>1 DEF Candidates
      <4>3. rows[j].ended < report.row.ended
        BY <2>4, <3>2, <4>2
      <4>4. rows[j].ended \in Nat /\ report.row.ended \in Nat
        BY <1>5, <4>1, ReportSaves, RowType DEF Rows
      <4> QED
        BY <2>5, <2>8, <4>1, <4>3, <4>4
    <3> QED
      BY <3>1, <3>2
  <2>9. Kept'
    BY <2>2, <2>3, <2>5, <2>7, <2>8
  <2> QED
    BY <2>6, <2>9
<1>6. ASSUME NEW c \in Component, UpdateCost(c) PROVE OutcomeHolds'
  <2> SUFFICES ASSUME ~raced', outcome # "none" PROVE Shown' /\ Copied' /\ Kept'
    BY <1>2, <1>6 DEF UpdateCost
  <2>1. /\ ~raced /\ recost[c].id = latest
        /\ recost[c].row = [rows[latest] EXCEPT !.cost = Total]
        /\ latest' = latest /\ told' = told /\ outcome' = outcome /\ notice' = notice
    BY <1>6 DEF UpdateCost
  <2>2. rows[latest] \in Rows
    BY <1>6, <2>1, CostSaves, RowType
  <2>3. recost[c].row.status = rows[latest].status /\ recost[c].row.ended = rows[latest].ended
    BY <2>1, <2>2 DEF Rows
  <2>4. \A i \in 1..Len(rows) : rows'[i].status = rows[i].status /\ rows'[i].ended = rows[i].ended
    BY <1>6, <2>1, <2>3, CostSaves
  <2>5. Candidates' = Candidates
    BY <1>6, <2>4, CostSaves DEF Candidates
  <2>6. \A i \in Candidates : i \in 1..Len(rows)
    BY <1>0
  <2>7. Shown' /\ Copied'
    BY <1>0, <1>1, <2>1, <2>4 DEF Copies
  <2>8. Kept'
    BY <1>1, <2>1, <2>4, <2>5, <2>6
  <2> QED
    BY <2>7, <2>8
<1>7. ASSUME NEW p \in Patcher, UpdateById(p) PROVE OutcomeHolds'
  BY <1>2, <1>7 DEF UpdateById
<1>8. CASE MergeAndSaveEnv
  <2> SUFFICES ASSUME ~raced, outcome # "none" PROVE Shown' /\ Copied' /\ Kept'
    BY <1>2, <1>8 DEF MergeAndSaveEnv
  <2>1. /\ latest' = notice.id /\ told' = notice.row.error /\ outcome' = outcome
        /\ rows' = rows /\ notice.at = "save" /\ notice'.at = "none"
    BY <1>8 DEF MergeAndSaveEnv, NoNotice
  <2>2. notice.id # 0 /\ rows[notice.id].status = notice.row.status
        /\ rows[notice.id].ended # 0
    BY <2>1 DEF NoticeIsKept, Ranges
  <2>3. notice.row.error # Valid => notice.row.status = "validation_failed"
    BY <2>1 DEF NoticeIsKept
  <2>4. notice.row.error = Valid => notice.row.status = outcome
    BY <1>1, <2>1 DEF Copies
  <2>5. Shown' /\ Copied'
    BY <2>1, <2>2, <2>3, <2>4 DEF Copies
  <2>6. Kept'
    BY <1>1, <2>1 DEF Candidates
  <2> QED
    BY <2>5, <2>6
<1>9. CASE GetLatestNonValidationErrorRec
  <2> SUFFICES ASSUME ~raced, outcome # "none" PROVE Shown' /\ Copied' /\ Kept'
    BY <1>2, <1>9 DEF GetLatestNonValidationErrorRec
  <2>1. UNCHANGED <<rows, latest, outcome>>
    BY <1>9 DEF GetLatestNonValidationErrorRec
  <2>2. PICK m \in Candidates :
          /\ rows[m].ended # 0 /\ rows[m].status = outcome
          /\ \A j \in Candidates :
               rows[j].ended >= rows[m].ended => rows[j].status = outcome
    BY <1>1
  <2>3. /\ notice'.at = "insert" /\ told' = told
        /\ \E i \in LatestNonValidation : notice'.row.status = rows[i].status
    BY <1>9, FixIsFound
  <2>4. notice'.row.status = outcome
    BY <2>2, <2>3 DEF LatestNonValidation
  <2>5. Shown' /\ Copied'
    BY <1>1, <2>1, <2>3, <2>4 DEF Copies
  <2>6. Kept'
    BY <1>1, <2>1 DEF Candidates
  <2> QED
    BY <2>5, <2>6
<1>10. ASSUME NEW e \in Error, ProcessInvalidRecon(e) PROVE OutcomeHolds'
  <2> SUFFICES ASSUME ~raced, outcome # "none" PROVE Shown' /\ Copied' /\ Kept'
    BY <1>2, <1>10 DEF ProcessInvalidRecon
  <2>1. UNCHANGED <<rows, latest, outcome>> /\ told' \in {told, e} /\ e # Valid
    BY <1>10, HistoryAssumption DEF ProcessInvalidRecon, Valid
  <2>2. Copies' => Copies /\ notice' = notice
    <3>1. CASE SameErrors(e)
      BY <1>10, <3>1 DEF ProcessInvalidRecon, Copies
    <3>2. CASE ~SameErrors(e)
      <4> DEFINE row == [NewRow EXCEPT !.status = "validation_failed", !.error = e]
      <4>1. row.error = e
        BY DEF NewRow
      <4>2. notice' = [at |-> "insert", id |-> 0, row |-> row]
        BY <1>10, <3>2 DEF ProcessInvalidRecon
      <4> HIDE DEF row
      <4> QED
        BY <2>1, <4>1, <4>2 DEF Copies
    <3> QED
      BY <3>1, <3>2
  <2>3. Shown'
    BY <1>1, <2>1
  <2>4. Copied' /\ Kept'
    BY <1>1, <2>1, <2>2 DEF Candidates
  <2> QED
    BY <2>3, <2>4
<1>11. CASE ProcessValidRecon
  <2> SUFFICES ASSUME ~raced, outcome # "none" PROVE Shown' /\ Copied' /\ Kept'
    BY <1>2, <1>11 DEF ProcessValidRecon
  <2>1. /\ UNCHANGED <<rows, latest, outcome>>
        /\ told' # told => rows[latest].status # "validation_failed"
    BY <1>1, <1>11 DEF ProcessValidRecon
  <2>2. Copies' => Copies /\ notice' = notice
    BY <1>11 DEF ProcessValidRecon, NoNotice, Copies
  <2>3. Shown'
    BY <1>1, <2>1
  <2>4. Copied' /\ Kept'
    BY <1>1, <2>1, <2>2 DEF Candidates
  <2> QED
    BY <2>3, <2>4
<1>12. ASSUME UNCHANGED <<rows, latest, outcome, told, notice>>, raced' \/ raced' = raced
       PROVE  OutcomeHolds'
  BY <1>12 DEF OutcomeHolds, Candidates, Copies
<1>13. CASE SaveDate
  <2> SUFFICES ASSUME ~raced' PROVE OutcomeHolds'
    BY <1>2
  <2>1. ~raced /\ latest' = latest
    BY <1>13 DEF SaveDate
  <2>2. raced' = raced
    BY <2>1, <1>13 DEF SaveDate, TypeOK
  <2> QED
    BY <1>12, <1>13, <2>1, <2>2 DEF SaveDate
<1>14. ASSUME NEW c \in Component, CommitComponent(c) PROVE OutcomeHolds'
  <2>1. raced' \/ raced' = raced
    BY <1>14 DEF CommitComponent, TypeOK
  <2> QED
    BY <1>12, <1>14, <2>1 DEF CommitComponent
<1> QED
  BY <1>3, <1>4, <1>5, <1>6, <1>7, <1>8, <1>9, <1>10, <1>11, <1>12, <1>13, <1>14
     DEF Next, GetLatestEnvReconId, GetEnvRecon, UpdateComponent,
         CompCostUpdateListener, EnvReconUpdateListener

LEMMA NextCostHolds == ASSUME TypeOK, Ranges, CostHolds, Next PROVE CostHolds'
<1> DEFINE Summed == latest # 0 => rows[latest].cost = Total
           Read(c) == recost[c].at = "read"
           Due(c) == recost[c].at = "save" /\ recost[c].id = latest
                       /\ recost[c].row.cost = Total
<1>0. /\ latest # 0 => latest \in 1..Len(rows)
      /\ \A c \in Component : recost[c] \in Saves
  BY LenProperties DEF TypeOK
<1>1. ASSUME ~raced, repriced PROVE Summed \/ \E c \in Component : Read(c) \/ Due(c)
  BY <1>1 DEF CostHolds
<1>2. ASSUME ~raced' /\ repriced' => Summed' \/ \E c \in Component : (Read(c) \/ Due(c))'
      PROVE  CostHolds'
  BY <1>2 DEF CostHolds
\* The rows, but not the cost of the latest, may change.
<1>3. ASSUME ~raced, repriced,
             latest' = latest, UNCHANGED <<cost, recost>>,
             latest # 0 => rows'[latest].cost = rows[latest].cost
      PROVE  Summed' \/ \E c \in Component : (Read(c) \/ Due(c))'
  <2>1. Total' = Total
    BY <1>3 DEF Total
  <2>2. CASE Summed
    BY <1>3, <2>1, <2>2
  <2>3. CASE \E c \in Component : Read(c) \/ Due(c)
    BY <1>3, <2>1, <2>3
  <2> QED
    BY <1>1, <1>3, <2>2, <2>3
<1>4. ASSUME NEW p \in Patcher, CreateEnvRecon(p) PROVE CostHolds'
  <2> SUFFICES ASSUME ~raced, repriced
               PROVE  Summed' \/ \E c \in Component : (Read(c) \/ Due(c))'
    BY <1>2, <1>4 DEF CreateEnvRecon
  <2>1. latest # 0 => rows'[latest] = rows[latest]
    BY <1>0, <1>4, Creates
  <2> QED
    BY <1>3, <1>4, <2>1 DEF CreateEnvRecon
<1>5. CASE GetNewEnvRecon
  <2> SUFFICES ASSUME ~raced, repriced
               PROVE  Summed' \/ \E c \in Component : (Read(c) \/ Due(c))'
    BY <1>2, <1>5 DEF GetNewEnvRecon
  <2>1. latest # 0 => rows'[latest] = rows[latest]
    BY <1>0, <1>5, Inserts
  <2> QED
    BY <1>3, <1>5, <2>1 DEF GetNewEnvRecon
<1>6. ASSUME ~repriced' PROVE CostHolds'
  BY <1>6 DEF CostHolds
<1>7. CASE UpdateEnvRecon
  <2> SUFFICES ASSUME ~raced', repriced'
               PROVE  Summed' \/ \E c \in Component : (Read(c) \/ Due(c))'
    BY <1>2
  <2>1. /\ ~raced /\ repriced /\ report.id = latest
        /\ report.row.cost = rows[latest].cost
    BY <1>7 DEF UpdateEnvRecon
  <2>2. rows'[latest] = report.row
    BY <1>7, <2>1, ReportSaves
  <2> QED
    BY <1>3, <1>7, <2>1, <2>2 DEF UpdateEnvRecon
<1>8. ASSUME NEW c \in Component, NEW v \in Costs, UpdateComponent(c, v)
      PROVE  CostHolds'
  <2>1. Read(c)'
    BY <1>8, CostIsDue
  <2> QED
    BY <1>2, <2>1
<1>9. ASSUME NEW c \in Component, CommitComponent(c) PROVE CostHolds'
  <2> SUFFICES ASSUME ~raced' PROVE Read(c)'
    BY <1>2
  <2> QED
    BY <1>9 DEF CommitComponent
<1>10. ASSUME NEW c \in Component, CompCostUpdateListener(c) PROVE CostHolds'
  <2>1. Total' = Total /\ latest' = latest
    BY <1>10 DEF CompCostUpdateListener, Total
  <2>2. [rows[latest] EXCEPT !.cost = Total].cost = Total
    BY <1>10, CostIsRead DEF Rows
  <2>3. /\ recost'[c].at = "save" /\ recost'[c].id = latest
        /\ recost'[c].row = [rows[latest] EXCEPT !.cost = Total]
    BY <1>10, CostIsRead
  <2>4. recost'[c].row.cost = Total
    BY <2>2, <2>3
  <2>5. Due(c)'
    BY <2>1, <2>3, <2>4
  <2> QED
    BY <1>2, <2>5
<1>11. ASSUME NEW c \in Component, UpdateCost(c) PROVE CostHolds'
  <2> SUFFICES ASSUME ~raced' PROVE Summed'
    BY <1>2
  <2>1. recost[c].id = latest /\ recost[c].row = [rows[latest] EXCEPT !.cost = Total]
    BY <1>11 DEF UpdateCost
  <2>2. latest \in 1..Len(rows) /\ rows[latest] \in Rows
    BY <1>11, <2>1, CostSaves, RowType
  <2>3. recost[c].row.cost = Total
    BY <2>1, <2>2 DEF Rows
  <2>4. rows'[latest] = recost[c].row
    BY <1>11, <2>1, <2>2, CostSaves
  <2>5. Total' = Total /\ latest' = latest
    BY <1>11 DEF UpdateCost, Total
  <2> QED
    BY <2>3, <2>4, <2>5
<1>12. CASE SaveDate
  <2> SUFFICES ASSUME ~raced', repriced'
               PROVE  Summed' \/ \E c \in Component : (Read(c) \/ Due(c))'
    BY <1>2
  <2>1. ~raced /\ repriced /\ latest' = latest
    BY <1>12 DEF SaveDate
  <2> QED
    BY <1>3, <1>12, <2>1 DEF SaveDate
<1>13. ASSUME UNCHANGED <<rows, latest, cost, recost, repriced, raced>>
       PROVE  CostHolds'
  BY <1>13 DEF CostHolds, Total
<1>14. ASSUME NEW p \in Patcher, UpdateById(p) PROVE CostHolds'
  BY <1>6, <1>14 DEF UpdateById
<1>15. CASE MergeAndSaveEnv
  BY <1>6, <1>15 DEF MergeAndSaveEnv
<1> QED
  BY <1>4, <1>5, <1>7, <1>8, <1>9, <1>10, <1>11, <1>12, <1>13, <1>14, <1>15
     DEF Next, ProcessInvalidRecon, ProcessValidRecon, GetLatestNonValidationErrorRec,
         GetLatestEnvReconId, GetEnvRecon, EnvReconUpdateListener

------------------------------------------------------------------------------
(* The invariant.                                                          *)

LEMMA NextType ==
  ASSUME TypeOK, Ranges, OutcomeIsOver, Next PROVE TypeOK' /\ Ranges'
<1>1. ASSUME NEW p \in Patcher, CreateEnvRecon(p) \/ UpdateById(p)
      PROVE  TypeOK' /\ Ranges'
  BY <1>1, CreateEnvReconType, UpdateByIdType
<1>2. ASSUME NEW e \in Error, ProcessInvalidRecon(e) PROVE TypeOK' /\ Ranges'
  BY <1>2, ProcessInvalidReconType
<1>3. CASE \/ ProcessValidRecon \/ GetLatestNonValidationErrorRec
           \/ GetNewEnvRecon \/ MergeAndSaveEnv
  BY <1>3, ProcessValidReconType, GetLatestType, GetNewEnvReconType, MergeAndSaveEnvType
<1>4. ASSUME NEW s \in {"provisioning"} \cup Outcomes, GetLatestEnvReconId(s)
      PROVE  TypeOK' /\ Ranges'
  BY <1>4, GetLatestEnvReconIdType
<1>5. CASE GetEnvRecon \/ UpdateEnvRecon
  BY <1>5, GetEnvReconType, UpdateEnvReconType
<1>6. ASSUME NEW c \in Component, NEW v \in Costs, UpdateComponent(c, v)
      PROVE  TypeOK' /\ Ranges'
  BY <1>6, UpdateComponentType
<1>7. ASSUME NEW c \in Component,
             CommitComponent(c) \/ CompCostUpdateListener(c) \/ UpdateCost(c)
      PROVE  TypeOK' /\ Ranges'
  BY <1>7, CommitComponentType, CompCostUpdateListenerType, UpdateCostType
<1>8. CASE EnvReconUpdateListener \/ SaveDate
  BY <1>8, EnvReconUpdateListenerType, SaveDateType
<1> QED
  BY <1>1, <1>2, <1>3, <1>4, <1>5, <1>6, <1>7, <1>8 DEF Next

LEMMA InitInv == Init => Inv
<1> SUFFICES ASSUME Init PROVE Inv
  OBVIOUS
<1>1. TypeOK
  BY InitType
<1>2. Len(rows) = 0 /\ DOMAIN rows = {}
  BY DEF Init
<1>3. Ranges
  BY <1>2 DEF Init, Ranges, NoNotice, NoSave, NoTouch
<1>4. PatchesAreFresh /\ NoticeIsFresh /\ NoticeIsKept /\ ErrorsAreKept
  BY DEF Init, PatchesAreFresh, NoticeIsFresh, NoticeIsKept, ErrorsAreKept, NoNotice, NoSave
<1>5. EndsAreOver /\ OutcomeIsOver
  BY <1>2 DEF Init, EndsAreOver, OutcomeIsOver, NoSave
<1>6. ErrorsHold /\ ReportIsLatest /\ OutcomeHolds /\ CostHolds
  BY DEF Init, ErrorsHold, ReportIsLatest, OutcomeHolds, CostHolds, NoSave
<1> QED
  BY <1>1, <1>3, <1>4, <1>5, <1>6 DEF Inv

LEMMA NextInv == Inv /\ [Next]_vars => Inv'
<1> SUFFICES ASSUME Inv, [Next]_vars PROVE Inv'
  OBVIOUS
<1>1. CASE Next
  <2>1. TypeOK' /\ Ranges'
    BY <1>1, NextType DEF Inv
  <2>2. PatchesAreFresh' /\ NoticeIsFresh' /\ NoticeIsKept' /\ ErrorsAreKept'
    BY <1>1, NextFresh, NextNotice, NextErrors DEF Inv
  <2>3. EndsAreOver' /\ OutcomeIsOver'
    BY <1>1, NextEnds, NextOver DEF Inv
  <2>4. ErrorsHold' /\ ReportIsLatest' /\ OutcomeHolds' /\ CostHolds'
    BY <1>1, NextErrorsHold, NextReport, NextOutcomeHolds, NextCostHolds DEF Inv
  <2> QED
    BY <2>1, <2>2, <2>3, <2>4 DEF Inv
<1>2. CASE UNCHANGED vars
  <2> USE <1>2 DEF vars
  <2>1. TypeOK' /\ Ranges'
    BY DEF Inv, TypeOK, Ranges
  <2>2. PatchesAreFresh' /\ NoticeIsFresh' /\ NoticeIsKept' /\ ErrorsAreKept'
    BY DEF Inv, PatchesAreFresh, NoticeIsFresh, NoticeIsKept, ErrorsAreKept, Fresh
  <2>3. EndsAreOver' /\ OutcomeIsOver'
    BY DEF Inv, EndsAreOver, OutcomeIsOver
  <2>4. ErrorsHold' /\ ReportIsLatest' /\ OutcomeHolds' /\ CostHolds'
    BY DEF Inv, ErrorsHold, ReportIsLatest, OutcomeHolds, CostHolds, Copies,
           Candidates, Total
  <2> QED
    BY <2>1, <2>2, <2>3, <2>4 DEF Inv
<1> QED
  BY <1>1, <1>2

LEMMA Invariance == Spec => []Inv
BY InitInv, NextInv, PTL DEF Spec

------------------------------------------------------------------------------
(* The theorems.                                                           *)

\* Whatever requests and listeners read and save, in whatever order, the
\* history stays one: there are no rows but those inserted, and the
\* environment points to one of them (reconciliation.service.ts).
THEOREM TypeCorrect == Spec => []TypeOK
<1>1. Inv => TypeOK
  BY DEF Inv
<1> QED
  BY <1>1, Invariance, PTL

\* The errors of the specification that were posted last are those of the
\* latest row, whatever else was written to it meanwhile: no save of a row that
\* was read before brings other errors back (errors.service.ts:45-76).
THEOREM ErrorsAlwaysShown == Spec => []ErrorsAreShown
<1>1. Inv => ErrorsAreShown
  BY DEF Inv, ErrorsHold, ErrorsAreShown, AtRest
<1> QED
  BY <1>1, Invariance, PTL

\* A run that has ended is shown with its outcome and an end, also when its
\* specification was found invalid and then valid again while it was reporting:
\* the row of the fix copies the status of the latest row that was not invalid
\* (errors.service.ts:14-43, reconciliation.service.ts:357-372).
THEOREM OutcomeAlwaysShown == Spec => []OutcomeIsShown
<1>1. Inv => OutcomeIsShown
  BY DEF Inv, OutcomeHolds, OutcomeIsShown, AtRest
<1> QED
  BY <1>1, Invariance, PTL

\* Once a cost has changed and nothing has raced, the latest row has the sum of
\* the costs of the components that are not destroyed: the last listener to
\* save has read them all (reconciliation.service.ts:454-469).
THEOREM CostAlwaysTheSum == Spec => []CostIsTheSum
<1>1. Inv => CostIsTheSum
  <2> SUFFICES ASSUME Inv, AtRest, repriced
               PROVE  rows[latest].cost = Cardinality({c \in Component : cost[c] = 1})
    BY DEF CostIsTheSum
  <2>1. \A c \in Component : cost[c] \in {-1, 0, 1}
    BY DEF Inv, TypeOK, Costs, None
  <2>2. {c \in Component : cost[c] > 0} = {c \in Component : cost[c] = 1}
    BY <2>1
  <2>3. \A c \in Component : recost[c].at = "none"
    BY DEF AtRest, Quiet
  <2>4. rows[latest].cost = Total
    BY <2>3 DEF Inv, CostHolds, AtRest
  <2> QED
    BY <2>2, <2>4 DEF Total
<1> QED
  BY <1>1, Invariance, PTL
=============================================================================
