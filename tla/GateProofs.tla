----------------------------- MODULE GateProofs -----------------------------
(***************************************************************************)
(* The approval gate, proved of Desk: nothing leaves without a persisted   *)
(* approval, nothing counts as delivered before it is everywhere, and no   *)
(* record is written for a row that is not there.  And Desk implements the *)
(* abstract gate: every step of it is one of ReviewGate or a stutter.      *)
(* What the scanner concluded reaches the gate too: a run whose documents  *)
(* were not clean is never presented as an ordinary one.                   *)
(***************************************************************************)
EXTENDS DeskProofs

-----------------------------------------------------------------------------
(* Decisions are not taken back *)

\* A step deletes the run or keeps every decision, and every record, it had.
LEMMA NothingIsTakenBack ==
    ASSUME TypeInv, [Next]_vars, exists'
    PROVE  exists /\ decisions \subseteq decisions' /\ records \subseteq records'
<1>s. ASSUME UNCHANGED storeVars
      PROVE  exists /\ decisions \subseteq decisions' /\ records \subseteq records'
    BY <1>s DEF storeVars
<1>1. CASE WorkerMoves
    BY <1>1, <1>s
       DEF WorkerMoves, WorkerStep, Execute, AppendEvent, CommitTier, CommitStatus,
           RefuseToSpend, RecordBudgetStop, SetStatus, MarkNodeComplete, SetIntegrityTier,
           SaveRecommendation
<1>2. CASE WorkerDies
    BY <1>2, <1>s DEF WorkerDies, WorkerCrash
<1>3. CASE Reconciles
    BY <1>3, <1>s
       DEF Reconciles, ReconcileStep, FindStale, AppendRecoveryEvent, MarkInterrupted,
           MarkNodeComplete
<1>4. CASE Removes
    BY <1>4, <1>s DEF Removes, RemovalStep, CheckDelete, CheckPurge, RemoveRun, DeleteRun
<1>5. ASSUME NEW r \in Reviewer, Reviews(r)
      PROVE  exists /\ decisions \subseteq decisions' /\ records \subseteq records'
    <2>1. CASE OpenPage(r) \/ Submit(r) \/ Refuse(r) \/ ReviewerCrash(r) \/ WriteIsStale(r)
        BY <1>s, <2>1 DEF OpenPage, Submit, Refuse, ReviewerCrash, WriteIsStale
    <2>2. CASE WriteRow(r)
        BY <2>2 DEF WriteRow, UpdateRun
    <2>3. CASE InsertDecision(r)
        BY <1>s, <2>3 DEF InsertDecision, SaveDecision
    <2>4. CASE StoreRecomputed(r)
        BY <2>4 DEF StoreRecomputed, SaveRecommendation
    <2> QED BY <1>5, <2>1, <2>2, <2>3, <2>4 DEF Reviews, ReviewStep, SubmissionStep
<1>6. ASSUME NEW d \in Deliverer, Delivers(d)
      PROVE  exists /\ decisions \subseteq decisions' /\ records \subseteq records'
    <2>1. CASE ListApproved(d) \/ LoadState(d) \/ ListPending(d) \/ GateApproved(d)
                 \/ GateRetry(d) \/ BuildPayload(d) \/ SkipUnhealthy(d)
        BY <1>s, <2>1
           DEF ListApproved, LoadState, ListPending, GateApproved, GateRetry, BuildPayload,
               SkipUnhealthy
    <2>2. CASE SendCsv(d) \/ ReadKeys(d) \/ AppendRow(d) \/ Conclude(d)
                 \/ AppendDeliverEvent(d) \/ ConcludeRetry(d)
        BY <1>s, <2>2
           DEF SendCsv, ReadKeys, AppendRow, Conclude, AppendDeliverEvent, ConcludeRetry
    <2>3. CASE Record(d)
        BY <1>s, <2>3 DEF Record, RecordDelivery
    <2>4. CASE WriteCard(d)
        BY <1>s, <2>4 DEF WriteCard, AddCard
    <2>5. CASE CommitDelivery(d)
        BY <2>5 DEF CommitDelivery, SetStatus, MarkNodeComplete
    <2>6. CASE MarkDelivered(d)
        BY <2>6 DEF MarkDelivered, SetStatus
    <2> QED BY <1>6, <2>1, <2>2, <2>3, <2>4, <2>5, <2>6 DEF Delivers, PassStep
<1>7. ASSUME NEW d \in Deliverer, DelivererDies(d)
      PROVE  exists /\ decisions \subseteq decisions' /\ records \subseteq records'
    BY <1>7, <1>s DEF DelivererDies, DelivererCrash
<1>8. CASE SinksRebuilt
    BY <1>8, <1>s DEF SinksRebuilt, RebuildSinks
<1>9. CASE UNCHANGED vars
    BY <1>9, <1>s DEF vars, storeVars
<1> QED BY <1>1, <1>2, <1>3, <1>4, <1>5, <1>6, <1>7, <1>8, <1>9 DEF Next

-----------------------------------------------------------------------------
(* Who sends *)

\* The places from which a pass may still write to a destination.
Sending == {"build", "send", "append", "record"}

\* What a step of the passes does to the destinations, to the cards and to the
\* places of the passes; everybody else leaves them alone.
OthersStep == UNCHANGED << demo, passVars, rows, cards >>

DeliveryStep(d) == Delivers(d) \/ DelivererDies(d)

LEMMA OnlyPassesSend ==
    ASSUME [Next]_vars, \A d \in Deliverer : ~DeliveryStep(d)
    PROVE  OthersStep
<1>s. ASSUME UNCHANGED storeVars PROVE cards' = cards
    BY <1>s DEF storeVars
<1>v. ASSUME UNCHANGED deliveryVars PROVE UNCHANGED << demo, passVars, rows >>
    BY <1>v DEF deliveryVars, sinkVars
<1>1. CASE WorkerMoves
    <2>1. cards' = cards
        BY <1>1, <1>s
           DEF WorkerMoves, WorkerStep, Execute, AppendEvent, CommitTier, CommitStatus,
               RefuseToSpend, RecordBudgetStop, SetStatus, MarkNodeComplete,
               SetIntegrityTier, SaveRecommendation
    <2> QED BY <1>1, <1>v, <2>1 DEF WorkerMoves, OthersStep
<1>2. CASE WorkerDies
    BY <1>2, <1>s, <1>v DEF WorkerDies, WorkerCrash, OthersStep
<1>3. CASE Reconciles
    BY <1>3, <1>s, <1>v
       DEF Reconciles, ReconcileStep, FindStale, AppendRecoveryEvent, MarkInterrupted,
           MarkNodeComplete, OthersStep
<1>4. CASE Removes
    BY <1>4, <1>s, <1>v
       DEF Removes, RemovalStep, CheckDelete, CheckPurge, RemoveRun, DeleteRun, OthersStep
<1>5. ASSUME NEW r \in Reviewer, Reviews(r) PROVE OthersStep
    <2>1. cards' = cards
        BY <1>5, <1>s
           DEF Reviews, ReviewStep, SubmissionStep, OpenPage, Submit, Refuse, ReviewerCrash,
               WriteIsStale, WriteRow, UpdateRun, InsertDecision, SaveDecision,
               StoreRecomputed, SaveRecommendation
    <2> QED BY <1>5, <1>v, <2>1 DEF Reviews, OthersStep
<1>6. CASE SinksRebuilt
    BY <1>6, <1>s DEF SinksRebuilt, RebuildSinks, OthersStep
<1>7. CASE UNCHANGED vars
    BY <1>7, <1>s, <1>v DEF vars, storeVars, OthersStep
<1> QED BY <1>1, <1>2, <1>3, <1>4, <1>5, <1>6, <1>7 DEF Next, DeliveryStep

LEMMA LatestIsAnApproval == LatestApproves => Approved
    BY DEF LatestApproves, IsLatest, Approved

\* A pass comes to a place from which it may send through the gate only, writes
\* only from such a place, and makes a card of an approved run only.
LEMMA PassesGoThroughTheGate ==
    ASSUME NEW d \in Deliverer, TypeInv, DeliveryStep(d)
    PROVE  /\ \A c \in Deliverer \ {d} : dpc'[c] = dpc[c]
           /\ dpc'[d] \in Sending => dpc[d] \in Sending \/ Approved
           /\ rows' = rows \/ dpc[d] \in Sending
           /\ cards' = cards \/ Approved
<1> DEFINE Goal == /\ \A c \in Deliverer \ {d} : dpc'[c] = dpc[c]
                   /\ dpc'[d] \in Sending => dpc[d] \in Sending \/ Approved
                   /\ rows' = rows \/ dpc[d] \in Sending
                   /\ cards' = cards \/ Approved
<1>t. dpc \in [Deliverer -> DelivererPC]
    BY DEF TypeInv, TypeOK, DeliveryTypeOK
<1>s. ASSUME UNCHANGED storeVars PROVE cards' = cards
    BY <1>s DEF storeVars
<1>v. ASSUME UNCHANGED sinkVars PROVE rows' = rows
    BY <1>v DEF sinkVars
<1>1. CASE ListApproved(d) \/ LoadState(d) \/ ListPending(d)
    BY <1>1, <1>t, <1>s, <1>v DEF ListApproved, LoadState, ListPending, EndPass, Goto, Sending
<1>2. CASE GateApproved(d) \/ GateRetry(d)
    BY <1>2, <1>t, <1>s, <1>v, LatestIsAnApproval
       DEF GateApproved, GateRetry, GateOpen, EndPass, Goto, Sending
<1>3. CASE BuildPayload(d) \/ SkipUnhealthy(d)
    BY <1>3, <1>t, <1>s, <1>v DEF BuildPayload, SkipUnhealthy, Goto, Sending
<1>4. CASE SendCsv(d) \/ ReadKeys(d)
    BY <1>4, <1>t, <1>s DEF SendCsv, ReadKeys, Answered, Goto, Sending
<1>5. CASE AppendRow(d)
    BY <1>5, <1>t, <1>s DEF AppendRow, TryAgain, Answered, Goto, Sending
<1>6. CASE Record(d)
    BY <1>6, <1>t, <1>s, <1>v DEF Record, RecordDelivery, EndPass, Goto, Sending
<1>7. CASE Conclude(d) \/ ConcludeRetry(d)
    BY <1>7, <1>t, <1>s, <1>v DEF Conclude, ConcludeRetry, EndPass, Goto, Sending
<1>8. CASE WriteCard(d)
    BY <1>8, <1>t, <1>s, <1>v, LatestIsAnApproval DEF WriteCard, AddCard, Goto, Sending
<1>9. CASE AppendDeliverEvent(d)
    BY <1>9, <1>t, <1>s, <1>v DEF AppendDeliverEvent, EndPass, Goto, Sending
<1>10. CASE CommitDelivery(d)
    BY <1>10, <1>t, <1>v
       DEF CommitDelivery, SetStatus, MarkNodeComplete, EndPass, Goto, Sending
<1>11. CASE MarkDelivered(d)
    BY <1>11, <1>t, <1>v DEF MarkDelivered, SetStatus, EndPass, Goto, Sending
<1>12. CASE DelivererCrash(d)
    BY <1>12, <1>t, <1>s DEF DelivererCrash, EndPass, Goto, Sending
<1> QED BY <1>1, <1>2, <1>3, <1>4, <1>5, <1>6, <1>7, <1>8, <1>9, <1>10, <1>11, <1>12
        DEF DeliveryStep, Delivers, DelivererDies, PassStep

-----------------------------------------------------------------------------
(* The approval gate *)

\* The gate is passed once and believed until the pass ends: that an approval
\* still stands where a pass may send is what makes ApprovalGate inductive.
Standing == exists => \A d \in Deliverer : dpc[d] \in Sending => Approved

GateInv == ApprovalGate /\ Standing

LEMMA InitGate == Init => GateInv
    BY DEF Init, StoreInit, DeliveryInit, GateInv, ApprovalGate, Standing, Sending

LEMMA NextGate == TypeInv /\ GateInv /\ [Next]_vars => GateInv'
<1> SUFFICES ASSUME TypeInv, GateInv, [Next]_vars, exists' PROVE GateInv'
    BY DEF GateInv, ApprovalGate, Standing
<1>1. exists /\ (Approved => Approved')
    BY NothingIsTakenBack DEF Approved
<1>2. ASSUME NEW d \in Deliverer, DeliveryStep(d) PROVE GateInv'
    <2>1. /\ \A c \in Deliverer \ {d} : dpc'[c] = dpc[c]
          /\ dpc'[d] \in Sending => dpc[d] \in Sending \/ Approved
          /\ rows' = rows \/ dpc[d] \in Sending
          /\ cards' = cards \/ Approved
        BY <1>2, PassesGoThroughTheGate
    <2>2. Standing'
        BY <1>1, <2>1 DEF GateInv, Standing
    <2>3. ApprovalGate'
        BY <1>1, <2>1 DEF GateInv, Standing, ApprovalGate
    <2> QED BY <2>2, <2>3 DEF GateInv
<1>3. CASE \A d \in Deliverer : ~DeliveryStep(d)
    <2>1. dpc' = dpc /\ rows' = rows /\ cards' = cards
        BY <1>3, OnlyPassesSend DEF OthersStep, passVars
    <2> QED BY <1>1, <2>1 DEF GateInv, Standing, ApprovalGate
<1> QED BY <1>2, <1>3

\* However many reviewers, passes, crashes and deletions interleave, no
\* destination holds a row, and no calibration card exists, of a run for which no
\* approval was persisted.
THEOREM NothingLeavesUnapproved == Spec => []ApprovalGate
<1>1. Init => TypeInv /\ GateInv
    BY InitType, InitGate
<1>2. TypeInv /\ GateInv /\ [Next]_vars => (TypeInv /\ GateInv)'
    BY NextType, NextGate
<1>3. GateInv => ApprovalGate
    BY DEF GateInv
<1> QED BY <1>1, <1>2, <1>3, PTL DEF Spec

-----------------------------------------------------------------------------
(* A record for every row, a row for every record *)

\* A pass about to record a success holds the row it is about to record.
AnswerHasRow ==
    \A d \in Deliverer : dpc[d] = "record" /\ dok[d] => rows[NextSink(d)] # << >>

RecordInv == RecordHasRow /\ AnswerHasRow

\* Rows are only ever added.
LEMMA PutKeepsRows ==
    ASSUME NEW d \in Deliverer, NEW s \in Sink, DeliveryTypeOK, Put(d, s)
    PROVE  rows'[s] # << >> /\ \A t \in Sink : rows[t] # << >> => rows'[t] # << >>
<1>1. rows[s] \in Seq(Payload) /\ dpayload[d] \in Payload
    BY DEF DeliveryTypeOK
<1>2. Append(rows[s], dpayload[d]) # << >>
    BY <1>1
<1> QED BY <1>2 DEF DeliveryTypeOK, Put

LEMMA RowsAreKept ==
    ASSUME NEW d \in Deliverer, TypeInv, DeliveryStep(d)
    PROVE  \A t \in Sink : rows[t] # << >> => rows'[t] # << >>
<1>t. DeliveryTypeOK
    BY DEF TypeInv, TypeOK
<1>1. CASE rows' = rows
    BY <1>1
<1>2. CASE rows' # rows
    <2>1. SendCsv(d) \/ AppendRow(d)
        BY <1>2
           DEF DeliveryStep, Delivers, DelivererDies, PassStep, DelivererCrash, ListApproved,
               LoadState, ListPending, GateApproved, GateRetry, BuildPayload, SkipUnhealthy,
               ReadKeys, Record, Conclude, WriteCard, AppendDeliverEvent, CommitDelivery,
               ConcludeRetry, MarkDelivered, sinkVars
    <2>2. CASE SendCsv(d)
        BY <1>t, <1>2, <2>2, PutKeepsRows, DeliveryAssumption DEF SendCsv
    <2>3. CASE AppendRow(d)
        <3>1. NextSink(d) \in Sink
            BY <1>t, <2>3, NextSinkIsToDo DEF AppendRow, TypeInv, SinkInHand
        <3> QED BY <1>t, <1>2, <2>3, <3>1, PutKeepsRows DEF AppendRow
    <2> QED BY <2>1, <2>2, <2>3
<1> QED BY <1>1, <1>2

\* A pass comes to record a success only with the row in place.
LEMMA SuccessHasRow ==
    ASSUME NEW d \in Deliverer, TypeInv, DeliveryStep(d), dpc'[d] = "record", dok'[d]
    PROVE  dtodo' = dtodo /\ rows'[NextSink(d)] # << >>
<1>t. DeliveryTypeOK
    BY DEF TypeInv, TypeOK
<1>1. SendCsv(d) \/ ReadKeys(d) \/ AppendRow(d)
    BY <1>t
       DEF DeliveryStep, Delivers, DelivererDies, PassStep, DelivererCrash, ListApproved,
           LoadState, ListPending, GateApproved, GateRetry, BuildPayload, SkipUnhealthy,
           Record, Conclude, WriteCard, AppendDeliverEvent, CommitDelivery,
           ConcludeRetry, MarkDelivered, Goto, EndPass, DeliveryTypeOK
<1>2. CASE SendCsv(d)
    BY <1>t, <1>2, PutKeepsRows, DeliveryAssumption DEF SendCsv, Answered, DeliveryTypeOK
<1>3. CASE ReadKeys(d)
    BY <1>t, <1>3 DEF ReadKeys, Answered, Goto, DeliveryTypeOK
<1>4. CASE AppendRow(d)
    <2>1. NextSink(d) \in Sink
        BY <1>t, <1>4, NextSinkIsToDo DEF AppendRow, TypeInv, SinkInHand
    <2>2. Put(d, NextSink(d))
        BY <1>t, <1>4 DEF AppendRow, TryAgain, Answered, Goto, DeliveryTypeOK
    <2> QED BY <1>t, <1>4, <2>1, <2>2, PutKeepsRows DEF AppendRow
<1> QED BY <1>1, <1>2, <1>3, <1>4

\* What a pass keeps in memory is its own.
LEMMA PassesAreSeparate ==
    ASSUME NEW d \in Deliverer, NEW c \in Deliverer \ {d}, TypeInv, DeliveryStep(d)
    PROVE  /\ demo' = demo
           /\ dpc'[c] = dpc[c] /\ dok'[c] = dok[c] /\ dtodo'[c] = dtodo[c]
           /\ dbad'[c] = dbad[c] /\ dstatus'[c] = dstatus[c] /\ dresult'[c] = dresult[c]
<1> DEFINE Own == /\ demo' = demo
                  /\ dpc'[c] = dpc[c] /\ dok'[c] = dok[c] /\ dtodo'[c] = dtodo[c]
                  /\ dbad'[c] = dbad[c] /\ dstatus'[c] = dstatus[c] /\ dresult'[c] = dresult[c]
<1>t. /\ dpc \in [Deliverer -> DelivererPC] /\ dok \in [Deliverer -> BOOLEAN]
      /\ dtodo \in [Deliverer -> SUBSET Sink] /\ dbad \in [Deliverer -> BOOLEAN]
      /\ dstatus \in [Deliverer -> Status]
      /\ dresult \in [Deliverer -> {"OK", "DEGRADED", "FAILED"}]
    BY DEF TypeInv, TypeOK, DeliveryTypeOK
<1>e. ASSUME EndPass(d), UNCHANGED demo PROVE Own
    BY <1>t, <1>e DEF EndPass, Goto
<1>1. CASE ListApproved(d) \/ LoadState(d) \/ ListPending(d)
    BY <1>t, <1>e, <1>1 DEF ListApproved, LoadState, ListPending, Goto
<1>2. CASE GateApproved(d)
    BY <1>t, <1>2 DEF GateApproved, Goto
<1>3. CASE GateRetry(d)
    BY <1>t, <1>e, <1>3 DEF GateRetry, Goto
<1>4. CASE BuildPayload(d) \/ SkipUnhealthy(d)
    BY <1>t, <1>4 DEF BuildPayload, SkipUnhealthy, Goto
<1>5. CASE SendCsv(d)
    BY <1>t, <1>5 DEF SendCsv, Answered, Goto
<1>6. CASE ReadKeys(d)
    BY <1>t, <1>6 DEF ReadKeys, Answered, Goto
<1>7. CASE AppendRow(d)
    BY <1>t, <1>7 DEF AppendRow, TryAgain, Answered, Goto
<1>8. CASE Record(d)
    BY <1>t, <1>e, <1>8 DEF Record, Goto
<1>9. CASE Conclude(d) \/ WriteCard(d)
    BY <1>t, <1>9 DEF Conclude, WriteCard, Goto
<1>10. CASE AppendDeliverEvent(d) \/ ConcludeRetry(d)
    BY <1>t, <1>e, <1>10 DEF AppendDeliverEvent, ConcludeRetry, Goto
<1>11. CASE CommitDelivery(d) \/ MarkDelivered(d) \/ DelivererCrash(d)
    BY <1>e, <1>11 DEF CommitDelivery, MarkDelivered, DelivererCrash
<1> QED BY <1>1, <1>2, <1>3, <1>4, <1>5, <1>6, <1>7, <1>8, <1>9, <1>10, <1>11
        DEF DeliveryStep, Delivers, DelivererDies, PassStep

\* A record is added by the pass that holds the answer, and by nothing else.
LEMMA OnlyAnswersAreRecorded ==
    ASSUME TypeInv, [Next]_vars
    PROVE  \/ records' \subseteq records
           \/ \E d \in Deliverer : /\ dpc[d] = "record" /\ dok[d]
                                  /\ records' = records \cup {NextSink(d)}
<1>s. ASSUME UNCHANGED storeVars PROVE records' = records
    BY <1>s DEF storeVars
<1>1. CASE WorkerMoves \/ WorkerDies
    BY <1>1, <1>s
       DEF WorkerMoves, WorkerDies, WorkerStep, WorkerCrash, Execute, AppendEvent, CommitTier,
           CommitStatus, RefuseToSpend, RecordBudgetStop, SetStatus, MarkNodeComplete,
           SetIntegrityTier, SaveRecommendation
<1>2. CASE Reconciles
    BY <1>2, <1>s
       DEF Reconciles, ReconcileStep, FindStale, AppendRecoveryEvent, MarkInterrupted,
           MarkNodeComplete
<1>3. CASE Removes
    BY <1>3, <1>s DEF Removes, RemovalStep, CheckDelete, CheckPurge, RemoveRun, DeleteRun
<1>4. ASSUME NEW r \in Reviewer, Reviews(r) PROVE records' = records
    BY <1>4, <1>s
       DEF Reviews, ReviewStep, SubmissionStep, OpenPage, Submit, Refuse, ReviewerCrash,
           WriteIsStale, WriteRow, UpdateRun, InsertDecision, SaveDecision,
           StoreRecomputed, SaveRecommendation
<1>5. ASSUME NEW d \in Deliverer, DeliveryStep(d)
      PROVE  \/ records' = records
             \/ dpc[d] = "record" /\ dok[d] /\ records' = records \cup {NextSink(d)}
    <2>1. CASE Record(d)
        BY <2>1, <1>s DEF Record, RecordDelivery
    <2>2. CASE WriteCard(d)
        BY <2>2, <1>s DEF WriteCard, AddCard
    <2>3. CASE CommitDelivery(d) \/ MarkDelivered(d)
        BY <2>3 DEF CommitDelivery, MarkDelivered, SetStatus, MarkNodeComplete
    <2>4. CASE ~(Record(d) \/ WriteCard(d) \/ CommitDelivery(d) \/ MarkDelivered(d))
        BY <1>5, <1>s, <2>4
           DEF DeliveryStep, Delivers, DelivererDies, PassStep, DelivererCrash, ListApproved,
               LoadState, ListPending, GateApproved, GateRetry, BuildPayload, SkipUnhealthy,
               SendCsv, ReadKeys, AppendRow, Conclude, AppendDeliverEvent, ConcludeRetry
    <2> QED BY <2>1, <2>2, <2>3, <2>4
<1>6. CASE SinksRebuilt \/ UNCHANGED vars
    BY <1>6, <1>s DEF SinksRebuilt, RebuildSinks, vars, storeVars
<1> QED BY <1>1, <1>2, <1>3, <1>4, <1>5, <1>6 DEF Next, DeliveryStep

LEMMA InitRecord == Init => RecordInv
    BY DEF Init, StoreInit, DeliveryInit, RecordInv, RecordHasRow, AnswerHasRow

LEMMA NextRecord == TypeInv /\ RecordInv /\ [Next]_vars => RecordInv'
<1> SUFFICES ASSUME TypeInv, RecordInv, [Next]_vars PROVE RecordInv'
    OBVIOUS
<1>1. \A t \in Sink : rows[t] # << >> => rows'[t] # << >>
    <2>1. CASE \A d \in Deliverer : ~DeliveryStep(d)
        BY <2>1, OnlyPassesSend DEF OthersStep
    <2> QED BY <2>1, RowsAreKept
<1>2. records \subseteq Sink
    BY DEF TypeInv, TypeOK, StoreTypeOK
<1>3. RecordHasRow'
    <2>1. CASE records' \subseteq records
        BY <1>1, <1>2, <2>1 DEF RecordInv, RecordHasRow
    <2>2. ASSUME NEW d \in Deliverer, dpc[d] = "record", dok[d],
                 records' = records \cup {NextSink(d)}
          PROVE  RecordHasRow'
        <3>1. NextSink(d) \in Sink
            BY <2>2, NextSinkIsToDo DEF TypeInv, TypeOK, SinkInHand
        <3>2. rows[NextSink(d)] # << >>
            BY <2>2 DEF RecordInv, AnswerHasRow
        <3> QED BY <1>1, <1>2, <2>2, <3>1, <3>2 DEF RecordInv, RecordHasRow
    <2> QED BY <2>1, <2>2, OnlyAnswersAreRecorded
<1>4. ASSUME NEW c \in Deliverer, dpc'[c] = "record", dok'[c]
      PROVE  rows'[NextSink(c)'] # << >>
    <2>1. CASE DeliveryStep(c)
        <3>1. dtodo' = dtodo /\ rows'[NextSink(c)] # << >>
            BY <1>4, <2>1, SuccessHasRow
        <3> QED BY <3>1 DEF NextSink
    <2>2. CASE ~DeliveryStep(c)
        <3>1. dpc[c] = "record" /\ dok[c] /\ dtodo'[c] = dtodo[c]
            <4>1. CASE \A d \in Deliverer : ~DeliveryStep(d)
                BY <1>4, <4>1, OnlyPassesSend DEF OthersStep, passVars
            <4>2. ASSUME NEW d \in Deliverer, DeliveryStep(d)
                  PROVE  dpc[c] = "record" /\ dok[c] /\ dtodo'[c] = dtodo[c]
                BY <1>4, <2>2, <4>2, PassesAreSeparate
            <4> QED BY <4>1, <4>2
        <3>2. NextSink(c)' = NextSink(c)
            BY <3>1 DEF NextSink
        <3>3. NextSink(c) \in Sink
            BY <3>1, NextSinkIsToDo DEF TypeInv, TypeOK, SinkInHand
        <3> QED BY <1>1, <3>1, <3>2, <3>3 DEF RecordInv, AnswerHasRow
    <2> QED BY <2>1, <2>2
<1> QED BY <1>3, <1>4 DEF RecordInv, AnswerHasRow

\* A retry leaves out the destinations with a record: that each of them really
\* holds the run is what makes leaving them out safe.
THEOREM RecordsAreTrue == Spec => []RecordHasRow
<1>1. Init => TypeInv /\ RecordInv
    BY InitType, InitRecord
<1>2. TypeInv /\ RecordInv /\ [Next]_vars => (TypeInv /\ RecordInv)'
    BY NextType, NextRecord
<1>3. RecordInv => RecordHasRow
    BY DEF RecordInv
<1> QED BY <1>1, <1>2, <1>3, PTL DEF Spec

-----------------------------------------------------------------------------
(* Delivered means everywhere *)

\* The worker never takes a run to DELIVERED.
WorkerNeverDelivers == wstatus # "DELIVERED" /\ wresult.proposed # "DELIVERED"

\* The passes the gate let through, which hold a status it lets through.
ThroughTheGate(d) ==
    \/ dpc[d] \in Sending \cup {"card", "mark"}
    \/ dpc[d] \in {"event", "commit"} /\ dresult[d] # "FAILED"

GateStatus(d) == ThroughTheGate(d) => dstatus[d] \in DELIVERY_PREDECESSORS

\* A pass nothing has gone wrong in has records for all it has dealt with.
Accounted(d) == dpc[d] \in Sending /\ ~dbad[d] => Sink \ dtodo[d] \subseteq records

\* A pass about to close the run has records for all.
Finished(d) ==
    \/ dpc[d] \in {"card", "mark"}
    \/ dpc[d] \in {"event", "commit"} /\ dresult[d] = "OK" /\ ~demo

ReadyToClose(d) == Finished(d) => records = Sink

ClosingInv ==
    /\ DeliveredEverywhere
    /\ WorkerNeverDelivers
    /\ \A d \in Deliverer : GateStatus(d)
    /\ exists => \A d \in Deliverer : Accounted(d) /\ ReadyToClose(d)

LEMMA InitClosing == Init => ClosingInv
    BY DEF Init, StoreInit, WorkerInit, NoResult, DeliveryInit, ClosingInv, DeliveredEverywhere,
           WorkerNeverDelivers, GateStatus, ThroughTheGate, Accounted, ReadyToClose, Finished,
           Sending

LEMMA NextWorker ==
    ASSUME TypeInv, WorkerNeverDelivers, [Next]_vars
    PROVE  WorkerNeverDelivers'
<1>t. WorkerTypeOK /\ Node \in WorkerNode
    BY PipelineNodes DEF TypeInv, TypeOK, WorkerTypeOK, Node
<1>u. ASSUME UNCHANGED workerVars PROVE WorkerNeverDelivers'
    BY <1>u DEF workerVars, WorkerNeverDelivers
<1>e. ASSUME NEW pc \in WorkerPC, Stop(pc) PROVE WorkerNeverDelivers'
    BY <1>e DEF Stop, NoResult, WorkerNeverDelivers
<1>1. ASSUME NEW kind \in NodeStatus, Execute(kind) PROVE WorkerNeverDelivers'
    <2>1. ProposedBy(Node, kind) # "DELIVERED"
        BY <1>t, TableTypes DEF ProposedBy
    <2> QED BY <1>1, <2>1 DEF Execute, WorkerNeverDelivers
<1>2. CASE AppendEvent \/ CommitTier \/ RefuseToSpend \/ RecordBudgetStop \/ WorkerCrash
    BY <1>2, <1>e
       DEF AppendEvent, CommitTier, RefuseToSpend, RecordBudgetStop, WorkerCrash, WorkerPC,
           WorkerNeverDelivers
<1>3. CASE CommitStatus
    <2> DEFINE next == NextStatus(Node, wresult.kind = "FAILED", wresult.proposed, wstatus)
    <2>1. next # "DELIVERED"
        BY <1>t, TableTypes DEF NextStatus, WorkerNeverDelivers
    <2>2. Stop("ended") \/ (wstatus' = next /\ wresult' = NoResult)
        BY <1>3 DEF CommitStatus
    <2> QED BY <1>e, <2>1, <2>2 DEF WorkerNeverDelivers, NoResult, WorkerPC
<1> QED BY <1>u, <1>1, <1>2, <1>3
        DEF Next, WorkerMoves, WorkerDies, WorkerStep, Reconciles, Removes, Reviews, Delivers,
            DelivererDies, SinksRebuilt, vars

\* What a pass knows of itself stays true over its own steps.
LEMMA OwnGateStatus ==
    ASSUME NEW d \in Deliverer, TypeInv, GateStatus(d), DeliveryStep(d)
    PROVE  GateStatus(d)'
<1>t. DeliveryTypeOK
    BY DEF TypeInv, TypeOK
<1>e. ASSUME EndPass(d) PROVE GateStatus(d)'
    BY <1>t, <1>e DEF EndPass, Goto, GateStatus, ThroughTheGate, Sending, DeliveryTypeOK
<1> USE DEF GateStatus, ThroughTheGate, Sending, Goto, DeliveryTypeOK
<1>1. CASE ListApproved(d) \/ LoadState(d) \/ ListPending(d)
    BY <1>t, <1>e, <1>1 DEF ListApproved, LoadState, ListPending
<1>2. CASE GateApproved(d)
    BY <1>t, <1>2 DEF GateApproved, GateOpen
<1>3. CASE GateRetry(d)
    BY <1>t, <1>e, <1>3 DEF GateRetry, GateOpen
<1>4. CASE BuildPayload(d) \/ SkipUnhealthy(d)
    BY <1>t, <1>4 DEF BuildPayload, SkipUnhealthy
<1>5. CASE SendCsv(d) \/ ReadKeys(d)
    BY <1>t, <1>5 DEF SendCsv, ReadKeys, Answered
<1>6. CASE AppendRow(d)
    BY <1>t, <1>6 DEF AppendRow, TryAgain, Answered
<1>7. CASE Record(d)
    BY <1>t, <1>e, <1>7 DEF Record
<1>8. CASE Conclude(d)
    BY <1>t, <1>8 DEF Conclude
<1>9. CASE WriteCard(d)
    BY <1>t, <1>9 DEF WriteCard
<1>10. CASE AppendDeliverEvent(d) \/ ConcludeRetry(d)
    BY <1>t, <1>e, <1>10 DEF AppendDeliverEvent, ConcludeRetry
<1>11. CASE CommitDelivery(d) \/ MarkDelivered(d) \/ DelivererCrash(d)
    BY <1>e, <1>11 DEF CommitDelivery, MarkDelivered, DelivererCrash
<1> QED BY <1>1, <1>2, <1>3, <1>4, <1>5, <1>6, <1>7, <1>8, <1>9, <1>10, <1>11
        DEF DeliveryStep, Delivers, DelivererDies, PassStep

LEMMA OwnAccount ==
    ASSUME NEW d \in Deliverer, TypeInv, exists, records \subseteq records',
           Accounted(d), DeliveryStep(d)
    PROVE  Accounted(d)'
<1>t. DeliveryTypeOK /\ records \subseteq Sink
    BY DEF TypeInv, TypeOK, StoreTypeOK
<1>e. ASSUME EndPass(d) PROVE Accounted(d)'
    BY <1>t, <1>e DEF EndPass, Goto, Accounted, Sending, DeliveryTypeOK
<1> USE DEF Accounted, Sending, Goto, DeliveryTypeOK
<1>1. CASE ListApproved(d) \/ LoadState(d) \/ ListPending(d)
    BY <1>t, <1>e, <1>1 DEF ListApproved, LoadState, ListPending
<1>2. CASE GateApproved(d)
    BY <1>t, <1>2 DEF GateApproved
<1>3. CASE GateRetry(d)
    BY <1>t, <1>e, <1>3 DEF GateRetry, Outstanding
<1>4. CASE BuildPayload(d)
    BY <1>t, <1>4 DEF BuildPayload
<1>5. CASE SkipUnhealthy(d)
    BY <1>t, <1>5 DEF SkipUnhealthy
<1>6. CASE SendCsv(d) \/ ReadKeys(d)
    BY <1>t, <1>6 DEF SendCsv, ReadKeys, Answered
<1>7. CASE AppendRow(d)
    BY <1>t, <1>7 DEF AppendRow, TryAgain, Answered
<1>8. CASE Record(d)
    <2>1. /\ dtodo'[d] = dtodo[d] \ {NextSink(d)}
          /\ dbad'[d] = (dbad[d] \/ ~dok[d])
          /\ dok[d] => records' = records \cup {NextSink(d)}
          /\ dpc[d] = "record"
        BY <1>t, <1>8 DEF Record, RecordDelivery
    <2> QED BY <2>1
<1>9. CASE Conclude(d) \/ WriteCard(d)
    BY <1>t, <1>9 DEF Conclude, WriteCard
<1>10. CASE AppendDeliverEvent(d) \/ ConcludeRetry(d)
    BY <1>t, <1>e, <1>10 DEF AppendDeliverEvent, ConcludeRetry
<1>11. CASE CommitDelivery(d) \/ MarkDelivered(d) \/ DelivererCrash(d)
    BY <1>e, <1>11 DEF CommitDelivery, MarkDelivered, DelivererCrash
<1> QED BY <1>1, <1>2, <1>3, <1>4, <1>5, <1>6, <1>7, <1>8, <1>9, <1>10, <1>11
        DEF DeliveryStep, Delivers, DelivererDies, PassStep

LEMMA OwnReadiness ==
    ASSUME NEW d \in Deliverer, TypeInv, exists, records \subseteq records',
           records' \subseteq Sink, Accounted(d), ReadyToClose(d), DeliveryStep(d)
    PROVE  ReadyToClose(d)'
<1>t. DeliveryTypeOK /\ records \subseteq Sink
    BY DEF TypeInv, TypeOK, StoreTypeOK
<1>e. ASSUME EndPass(d) PROVE ReadyToClose(d)'
    BY <1>t, <1>e DEF EndPass, Goto, ReadyToClose, Finished, DeliveryTypeOK
<1> USE DEF ReadyToClose, Finished, Goto, DeliveryTypeOK
<1>1. CASE ListApproved(d) \/ LoadState(d) \/ ListPending(d)
    BY <1>t, <1>e, <1>1 DEF ListApproved, LoadState, ListPending
<1>2. CASE GateApproved(d)
    BY <1>t, <1>2 DEF GateApproved
<1>3. CASE GateRetry(d)
    BY <1>t, <1>e, <1>3 DEF GateRetry, Outstanding
<1>4. CASE BuildPayload(d) \/ SkipUnhealthy(d)
    BY <1>t, <1>4 DEF BuildPayload, SkipUnhealthy
<1>5. CASE SendCsv(d) \/ ReadKeys(d)
    BY <1>t, <1>5 DEF SendCsv, ReadKeys, Answered
<1>6. CASE AppendRow(d)
    BY <1>t, <1>6 DEF AppendRow, TryAgain, Answered
<1>7. CASE Record(d)
    BY <1>t, <1>e, <1>7 DEF Record
<1>8. CASE Conclude(d)
    <2>1. dtodo[d] = {} /\ dpc[d] = "send"
        BY <1>8 DEF Conclude
    <2>2. dpc'[d] = "card" => ~dbad[d]
        BY <1>t, <1>8 DEF Conclude
    <2>3. dpc'[d] # "card" => dpc'[d] = "event" /\ dresult'[d] # "OK"
        BY <1>t, <1>8 DEF Conclude
    <2> QED BY <1>t, <2>1, <2>2, <2>3 DEF Accounted, Sending
<1>9. CASE WriteCard(d)
    BY <1>t, <1>9 DEF WriteCard
<1>10. CASE AppendDeliverEvent(d)
    BY <1>t, <1>e, <1>10 DEF AppendDeliverEvent
<1>11. CASE ConcludeRetry(d)
    BY <1>t, <1>e, <1>11 DEF ConcludeRetry, Accounted, Sending
<1>12. CASE CommitDelivery(d) \/ MarkDelivered(d) \/ DelivererCrash(d)
    BY <1>e, <1>12 DEF CommitDelivery, MarkDelivered, DelivererCrash
<1> QED BY <1>1, <1>2, <1>3, <1>4, <1>5, <1>6, <1>7, <1>8, <1>9, <1>10, <1>11, <1>12
        DEF DeliveryStep, Delivers, DelivererDies, PassStep

LEMMA WorkerStatusIsNotDelivered ==
    ASSUME TypeInv, WorkerNeverDelivers, WorkerMoves
    PROVE  status' = status \/ status' # "DELIVERED"
<1>t. Node \in WorkerNode
    BY PipelineNodes DEF TypeInv, TypeOK, WorkerTypeOK, Node
<1>1. CASE CommitStatus
    <2> DEFINE next == NextStatus(Node, wresult.kind = "FAILED", wresult.proposed, wstatus)
    <2>1. next # "DELIVERED"
        BY <1>t, TableTypes DEF NextStatus, WorkerNeverDelivers
    <2>2. status' = status \/ status' = next
        BY <1>1 DEF CommitStatus, SetStatus, MarkNodeComplete
    <2> QED BY <2>1, <2>2
<1>2. CASE RecordBudgetStop
    BY <1>2 DEF RecordBudgetStop, SetStatus
<1>3. CASE AppendEvent \/ RefuseToSpend \/ CommitTier \/ \E kind \in NodeStatus : Execute(kind)
    BY <1>3
       DEF AppendEvent, RefuseToSpend, CommitTier, Execute, SetIntegrityTier,
           SaveRecommendation, storeVars
<1> QED BY <1>1, <1>2, <1>3 DEF WorkerMoves, WorkerStep

\* A commit says DELIVERED only of a package every destination took.
LEMMA CommitIsHonest ==
    ASSUME NEW d \in Deliverer, TypeInv, exists, GateStatus(d), ReadyToClose(d),
           CommitDelivery(d), status' = "DELIVERED"
    PROVE  Finished(d) /\ records = Sink
<1> DEFINE next == NextStatus("DELIVER", dresult[d] = "FAILED", DeliverProposes(d), dstatus[d])
<1>t. dresult[d] \in {"OK", "DEGRADED", "FAILED"}
    BY DEF TypeInv, TypeOK, DeliveryTypeOK
<1>1. dpc[d] = "commit" /\ next = "DELIVERED"
    BY DEF CommitDelivery, SetStatus, MarkNodeComplete
<1>2. CASE dresult[d] = "FAILED"
    BY <1>1, <1>2 DEF NextStatus, FailureStatus
<1>3. CASE dresult[d] = "DEGRADED"
    <2>1. dstatus[d] \in {"APPROVED", "DELIVERY_PENDING_RETRY"}
        BY <1>1, <1>3 DEF GateStatus, ThroughTheGate, DELIVERY_PREDECESSORS
    <2>2. DeliverProposes(d) = "DELIVERY_PENDING_RETRY"
        BY <1>3 DEF DeliverProposes
    <2>3. CanTransition("APPROVED", "DELIVERY_PENDING_RETRY")
        <3>1. ALLOWED["APPROVED"] = {"DELIVERED", "DELIVERY_PENDING_RETRY"}
            BY DEF ALLOWED
        <3> QED BY <3>1 DEF CanTransition
    <2> QED BY <1>1, <1>3, <2>1, <2>2, <2>3 DEF NextStatus
<1>4. CASE dresult[d] = "OK" /\ demo
    <2>1. dstatus[d] \in {"APPROVED", "DELIVERY_PENDING_RETRY"}
        BY <1>1, <1>4 DEF GateStatus, ThroughTheGate, DELIVERY_PREDECESSORS
    <2>2. DeliverProposes(d) = dstatus[d]
        BY <1>4 DEF DeliverProposes
    <2> QED BY <1>1, <1>4, <2>1, <2>2 DEF NextStatus
<1>5. CASE dresult[d] = "OK" /\ ~demo
    BY <1>1, <1>5 DEF ReadyToClose, Finished
<1> QED BY <1>t, <1>2, <1>3, <1>4, <1>5

LEMMA OnlyReadyPassesClose ==
    ASSUME TypeInv, ClosingInv, [Next]_vars, exists, exists', status' = "DELIVERED"
    PROVE  status = "DELIVERED" \/ records = Sink
<1>s. ASSUME UNCHANGED storeVars PROVE status = "DELIVERED"
    BY <1>s DEF storeVars
<1>1. CASE WorkerMoves
    BY <1>1, WorkerStatusIsNotDelivered DEF ClosingInv
<1>2. CASE WorkerDies
    BY <1>2, <1>s DEF WorkerDies, WorkerCrash
<1>3. CASE Reconciles
    BY <1>3, <1>s
       DEF Reconciles, ReconcileStep, FindStale, AppendRecoveryEvent, MarkInterrupted,
           MarkNodeComplete
<1>4. CASE Removes
    BY <1>4, <1>s DEF Removes, RemovalStep, CheckDelete, CheckPurge, RemoveRun, DeleteRun
<1>5. ASSUME NEW r \in Reviewer, Reviews(r) PROVE status = "DELIVERED"
    <2>1. CASE WriteRow(r)
        <3>1. rdraft[r].action \in Action
            BY DEF TypeInv, TypeOK, ReviewTypeOK, Decision
        <3>2. NEXT_STATUS[rdraft[r].action] # "DELIVERED"
            BY <3>1 DEF NEXT_STATUS, Action
        <3> QED BY <2>1, <3>2 DEF WriteRow, UpdateRun
    <2>2. CASE ~WriteRow(r)
        BY <1>5, <1>s, <2>2
           DEF Reviews, ReviewStep, SubmissionStep, OpenPage, Submit, Refuse, ReviewerCrash,
               WriteIsStale, InsertDecision, SaveDecision, StoreRecomputed, SaveRecommendation
    <2> QED BY <2>1, <2>2
<1>6. ASSUME NEW d \in Deliverer, DeliveryStep(d) PROVE status = "DELIVERED" \/ records = Sink
    <2>1. CASE CommitDelivery(d)
        BY <2>1, CommitIsHonest DEF ClosingInv
    <2>2. CASE MarkDelivered(d)
        BY <2>2 DEF MarkDelivered, ClosingInv, ReadyToClose, Finished
    <2>3. CASE Record(d) \/ WriteCard(d)
        BY <2>3, <1>s DEF Record, RecordDelivery, WriteCard, AddCard
    <2>4. CASE ~(Record(d) \/ WriteCard(d) \/ CommitDelivery(d) \/ MarkDelivered(d))
        BY <1>6, <1>s, <2>4
           DEF DeliveryStep, Delivers, DelivererDies, PassStep, DelivererCrash, ListApproved,
               LoadState, ListPending, GateApproved, GateRetry, BuildPayload, SkipUnhealthy,
               SendCsv, ReadKeys, AppendRow, Conclude, AppendDeliverEvent, ConcludeRetry
    <2> QED BY <2>1, <2>2, <2>3, <2>4
<1>7. CASE SinksRebuilt \/ UNCHANGED vars
    BY <1>7, <1>s DEF SinksRebuilt, RebuildSinks, vars, storeVars
<1> QED BY <1>1, <1>2, <1>3, <1>4, <1>5, <1>6, <1>7 DEF Next, DeliveryStep

LEMMA NextClosing == TypeInv /\ ClosingInv /\ [Next]_vars => ClosingInv'
<1> SUFFICES ASSUME TypeInv, ClosingInv, [Next]_vars PROVE ClosingInv'
    OBVIOUS
<1>r. records' \subseteq Sink
    BY NextType DEF TypeInv, TypeOK, StoreTypeOK
<1>1. WorkerNeverDelivers'
    BY NextWorker DEF ClosingInv
<1>2. ASSUME exists'
      PROVE  exists /\ records \subseteq records'
    BY <1>2, NothingIsTakenBack
<1>3. DeliveredEverywhere'
    <2> SUFFICES ASSUME exists', status' = "DELIVERED" PROVE records' = Sink
        BY DEF DeliveredEverywhere
    <2>1. records = Sink
        BY <1>2, OnlyReadyPassesClose DEF ClosingInv, DeliveredEverywhere
    <2> QED BY <1>r, <1>2, <2>1
<1>4. ASSUME NEW c \in Deliverer, ~DeliveryStep(c)
      PROVE  /\ dpc'[c] = dpc[c] /\ dtodo'[c] = dtodo[c] /\ dbad'[c] = dbad[c]
             /\ dstatus'[c] = dstatus[c] /\ dresult'[c] = dresult[c] /\ demo' = demo
    <2>1. CASE \A d \in Deliverer : ~DeliveryStep(d)
        BY <2>1, OnlyPassesSend DEF OthersStep, passVars
    <2>2. ASSUME NEW d \in Deliverer, DeliveryStep(d)
          PROVE  /\ dpc'[c] = dpc[c] /\ dtodo'[c] = dtodo[c] /\ dbad'[c] = dbad[c]
                 /\ dstatus'[c] = dstatus[c] /\ dresult'[c] = dresult[c] /\ demo' = demo
        BY <1>4, <2>2, PassesAreSeparate
    <2> QED BY <2>1, <2>2
<1>5. ASSUME NEW c \in Deliverer PROVE GateStatus(c)'
    <2>1. CASE DeliveryStep(c)
        BY <2>1, OwnGateStatus DEF ClosingInv
    <2>2. CASE ~DeliveryStep(c)
        BY <1>4, <2>2 DEF ClosingInv, GateStatus, ThroughTheGate
    <2> QED BY <2>1, <2>2
<1>6. ASSUME exists', NEW c \in Deliverer PROVE Accounted(c)' /\ ReadyToClose(c)'
    <2>1. exists /\ records \subseteq records' /\ Accounted(c) /\ ReadyToClose(c)
        BY <1>2, <1>6 DEF ClosingInv
    <2>2. CASE DeliveryStep(c)
        BY <1>r, <2>1, <2>2, OwnAccount, OwnReadiness
    <2>3. CASE ~DeliveryStep(c)
        <3>1. Accounted(c)'
            BY <1>4, <2>1, <2>3 DEF Accounted
        <3>2. ReadyToClose(c)'
            BY <1>4, <1>r, <2>1, <2>3 DEF ReadyToClose, Finished
        <3> QED BY <3>1, <3>2
    <2> QED BY <2>2, <2>3
<1> QED BY <1>1, <1>3, <1>5, <1>6 DEF ClosingInv

\* A run is called delivered only with a record of every destination, across
\* partial failures, crashes between any two writes, retries and passes that run
\* at the same time.
THEOREM DeliveredMeansEverywhere == Spec => []DeliveredEverywhere
<1>1. Init => TypeInv /\ ClosingInv
    BY InitType, InitClosing
<1>2. TypeInv /\ ClosingInv /\ [Next]_vars => (TypeInv /\ ClosingInv)'
    BY NextType, NextClosing
<1>3. ClosingInv => DeliveredEverywhere
    BY DEF ClosingInv
<1> QED BY <1>1, <1>2, <1>3, PTL DEF Spec

-----------------------------------------------------------------------------
(* The refinement: Desk implements ReviewGate.  The initial states map to the   *)
(* abstract initial state, and every step of the worker, of a reviewer, of a     *)
(* housekeeping job or of a pass maps to an abstract step or to a stutter.       *)

\* The abstract variables, as Desk gives them.
Open == \E d \in Deliverer : MaySend(d)

Sent == {s \in Sink : rows[s] # << >>}

Closed == exists /\ status = "DELIVERED"

-----------------------------------------------------------------------------
(* Everybody but the passes *)

\* What a step of anybody but a pass may do to what the gate sees: nothing; one
\* more decision; a status other than DELIVERED; or the end of the run.
OutsideStep ==
    \/ UNCHANGED << exists, status, decisions >>
    \/ UNCHANGED << exists, status >> /\ decisions \subseteq decisions'
    \/ UNCHANGED << exists, decisions >> /\ status' # "DELIVERED"
    \/ exists' = FALSE /\ decisions' = {}

LEMMA OthersStayOutside ==
    ASSUME TypeInv, WorkerNeverDelivers, [Next]_vars, \A d \in Deliverer : ~DeliveryStep(d)
    PROVE  OutsideStep
<1>s. ASSUME UNCHANGED storeVars PROVE OutsideStep
    BY <1>s DEF storeVars, OutsideStep
<1>1. CASE WorkerMoves
    <2>1. UNCHANGED << exists, decisions >>
        BY <1>1
           DEF WorkerMoves, WorkerStep, Execute, AppendEvent, CommitTier, CommitStatus,
               RefuseToSpend, RecordBudgetStop, SetStatus, MarkNodeComplete,
               SetIntegrityTier, SaveRecommendation, storeVars
    <2>2. status' = status \/ status' # "DELIVERED"
        BY <1>1, WorkerStatusIsNotDelivered
    <2> QED BY <2>1, <2>2 DEF OutsideStep
<1>2. CASE WorkerDies
    BY <1>2, <1>s DEF WorkerDies, WorkerCrash
<1>3. CASE Reconciles
    BY <1>3, <1>s
       DEF Reconciles, ReconcileStep, FindStale, AppendRecoveryEvent, MarkInterrupted,
           MarkNodeComplete, OutsideStep
<1>4. CASE Removes
    BY <1>4, <1>s
       DEF Removes, RemovalStep, CheckDelete, CheckPurge, RemoveRun, DeleteRun, OutsideStep
<1>5. ASSUME NEW r \in Reviewer, Reviews(r) PROVE OutsideStep
    <2>1. CASE WriteRow(r)
        <3>1. rdraft[r].action \in Action
            BY DEF TypeInv, TypeOK, ReviewTypeOK, Decision
        <3>2. NEXT_STATUS[rdraft[r].action] # "DELIVERED"
            BY <3>1 DEF NEXT_STATUS, Action
        <3> QED BY <2>1, <3>2 DEF WriteRow, UpdateRun, OutsideStep
    <2>2. CASE InsertDecision(r)
        BY <1>s, <2>2 DEF InsertDecision, SaveDecision, OutsideStep
    <2>3. CASE StoreRecomputed(r)
        BY <2>3 DEF StoreRecomputed, SaveRecommendation, OutsideStep
    <2>4. CASE OpenPage(r) \/ Submit(r) \/ Refuse(r) \/ ReviewerCrash(r) \/ WriteIsStale(r)
        BY <1>s, <2>4 DEF OpenPage, Submit, Refuse, ReviewerCrash, WriteIsStale
    <2> QED BY <1>5, <2>1, <2>2, <2>3, <2>4 DEF Reviews, ReviewStep, SubmissionStep
<1>6. CASE SinksRebuilt \/ UNCHANGED vars
    BY <1>6, <1>s DEF SinksRebuilt, RebuildSinks, vars, storeVars
<1> QED BY <1>1, <1>2, <1>3, <1>4, <1>5, <1>6 DEF Next, DeliveryStep

LEMMA OutsideMaps ==
    ASSUME OutsideStep, UNCHANGED << demo, passVars, rows >>
    PROVE  [Gate!GateNext]_(Gate!gateVars)
<1>1. Open' = Open /\ Sent' = Sent
    BY DEF passVars, Open, Sent, MaySend
<1>2. CASE UNCHANGED << exists, status, decisions >>
    BY <1>1, <1>2 DEF Gate!gateVars, Open, Sent, Approved
<1>3. CASE UNCHANGED << exists, status >> /\ decisions \subseteq decisions'
    <2>1. Approved' = Approved \/ Approved' = TRUE
        BY <1>3 DEF Approved
    <2> QED BY <1>1, <1>3, <2>1
            DEF Gate!GateNext, Gate!Approve, Gate!gateVars, Open, Sent
<1>4. CASE UNCHANGED << exists, decisions >> /\ status' # "DELIVERED"
    <2>1. Approved' = Approved
        BY <1>4 DEF Approved
    <2> QED BY <1>1, <1>4, <2>1
            DEF Gate!GateNext, Gate!Reopen, Gate!gateVars, Open, Sent
<1>5. CASE exists' = FALSE /\ decisions' = {}
    <2>1. Approved' = FALSE
        BY <1>5 DEF Approved
    <2> QED BY <1>1, <1>5, <2>1
            DEF Gate!GateNext, Gate!Withdraw, Gate!gateVars, Open, Sent
<1> QED BY <1>2, <1>3, <1>4, <1>5 DEF OutsideStep

-----------------------------------------------------------------------------
(* The passes *)

\* One pass moves at a time, so the gate is open after a step of d if d may send
\* then, or if another pass might already.
LEMMA OthersKeepTheGate ==
    ASSUME NEW d \in Deliverer, TypeInv, DeliveryStep(d)
    PROVE  \A c \in Deliverer \ {d} : MaySend(c)' = MaySend(c)
<1> SUFFICES ASSUME NEW c \in Deliverer \ {d} PROVE MaySend(c)' = MaySend(c)
    OBVIOUS
<1>1. demo' = demo /\ dpc'[c] = dpc[c] /\ dresult'[c] = dresult[c]
    BY PassesAreSeparate
<1> QED BY <1>1 DEF MaySend

\* Until it commits, a pass leaves the run alone.  It comes to where it may send
\* under an approval only, or adds a row while it may send.
PassMove(d) ==
    \/ rows' = rows /\ (MaySend(d)' => MaySend(d) \/ Approved)
    \/ MaySend(d) /\ MaySend(d)' /\ \E s \in Sink : Put(d, s)

LEMMA PassesLeaveTheRun ==
    ASSUME NEW d \in Deliverer, DeliveryStep(d), ~CommitDelivery(d), ~MarkDelivered(d)
    PROVE  UNCHANGED << exists, status, decisions >>
<1>s. ASSUME UNCHANGED storeVars PROVE UNCHANGED << exists, status, decisions >>
    BY <1>s DEF storeVars
<1>1. CASE Record(d) \/ WriteCard(d)
    BY <1>1, <1>s DEF Record, RecordDelivery, WriteCard, AddCard
<1>2. CASE ~(Record(d) \/ WriteCard(d))
    BY <1>2, <1>s
       DEF DeliveryStep, Delivers, DelivererDies, PassStep, DelivererCrash, ListApproved,
           LoadState, ListPending, GateApproved, GateRetry, BuildPayload, SkipUnhealthy,
           SendCsv, ReadKeys, AppendRow, Conclude, AppendDeliverEvent, ConcludeRetry
<1> QED BY <1>1, <1>2

LEMMA PassesMove ==
    ASSUME NEW d \in Deliverer, TypeInv, DeliveryStep(d)
    PROVE  PassMove(d)
<1>t. DeliveryTypeOK
    BY DEF TypeInv, TypeOK
<1>v. ASSUME UNCHANGED sinkVars PROVE rows' = rows
    BY <1>v DEF sinkVars
<1>e. ASSUME EndPass(d), rows' = rows PROVE PassMove(d)
    BY <1>t, <1>e DEF EndPass, Goto, PassMove, MaySend, DeliveryTypeOK
<1> USE DEF PassMove, MaySend, Goto, DeliveryTypeOK
<1>1. CASE ListApproved(d) \/ LoadState(d) \/ ListPending(d)
    BY <1>t, <1>e, <1>v, <1>1 DEF ListApproved, LoadState, ListPending
<1>2. CASE GateApproved(d)
    BY <1>t, <1>v, <1>2, LatestIsAnApproval DEF GateApproved, GateOpen
<1>3. CASE GateRetry(d)
    BY <1>t, <1>e, <1>v, <1>3, LatestIsAnApproval DEF GateRetry, GateOpen
<1>4. CASE BuildPayload(d) \/ SkipUnhealthy(d)
    BY <1>t, <1>v, <1>4 DEF BuildPayload, SkipUnhealthy
<1>5. CASE SendCsv(d)
    BY <1>t, <1>5, DeliveryAssumption DEF SendCsv, Answered
<1>6. CASE ReadKeys(d)
    BY <1>t, <1>6 DEF ReadKeys, Answered
<1>7. CASE AppendRow(d)
    <2>1. NextSink(d) \in Sink
        BY <1>t, <1>7, NextSinkIsToDo DEF AppendRow, TypeInv, SinkInHand
    <2>2. MaySend(d) /\ MaySend(d)'
        BY <1>t, <1>7 DEF AppendRow, TryAgain, Answered
    <2>3. rows' = rows \/ Put(d, NextSink(d))
        BY <1>7 DEF AppendRow
    <2> QED BY <2>1, <2>2, <2>3
<1>8. CASE Record(d)
    BY <1>t, <1>e, <1>v, <1>8 DEF Record
<1>9. CASE Conclude(d) \/ WriteCard(d)
    BY <1>t, <1>v, <1>9 DEF Conclude, WriteCard
<1>10. CASE AppendDeliverEvent(d) \/ ConcludeRetry(d)
    BY <1>t, <1>e, <1>v, <1>10 DEF AppendDeliverEvent, ConcludeRetry
<1>11. CASE CommitDelivery(d) \/ MarkDelivered(d) \/ DelivererCrash(d)
    BY <1>e, <1>v, <1>11 DEF CommitDelivery, MarkDelivered, DelivererCrash
<1> QED BY <1>1, <1>2, <1>3, <1>4, <1>5, <1>6, <1>7, <1>8, <1>9, <1>10, <1>11
        DEF DeliveryStep, Delivers, DelivererDies, PassStep

LEMMA PutSends ==
    ASSUME NEW d \in Deliverer, NEW s \in Sink, DeliveryTypeOK, Put(d, s)
    PROVE  Sent' = Sent \cup {s}
<1>1. rows'[s] # << >>
    BY PutKeepsRows
<1>2. \A t \in Sink \ {s} : rows'[t] = rows[t]
    BY DEF DeliveryTypeOK, Put
<1> QED BY <1>1, <1>2 DEF Sent

\* A step of a pass that leaves the run alone.
LEMMA MovesMap ==
    ASSUME NEW d \in Deliverer, TypeInv, DeliveryStep(d), ~CommitDelivery(d), ~MarkDelivered(d)
    PROVE  [Gate!GateNext]_(Gate!gateVars)
<1>1. Approved' = Approved /\ Closed' = Closed
    BY PassesLeaveTheRun DEF Approved, Closed
<1>2. \A c \in Deliverer \ {d} : MaySend(c)' = MaySend(c)
    BY OthersKeepTheGate
<1>3. CASE rows' = rows /\ (MaySend(d)' => MaySend(d) \/ Approved)
    <2>1. Sent' = Sent
        BY <1>3 DEF Sent
    <2>2. CASE MaySend(d)' /\ ~MaySend(d)
        <3>1. Approved /\ Open'
            BY <1>3, <2>2 DEF Open
        <3> QED BY <1>1, <2>1, <3>1
                DEF Gate!GateNext, Gate!OpenPass, Open, Sent, Closed
    <2>3. CASE ~(MaySend(d)' /\ ~MaySend(d))
        <3>1. Open' = Open \/ Open' = FALSE
            BY <1>2, <2>3 DEF Open
        <3> QED BY <1>1, <2>1, <3>1
                DEF Gate!GateNext, Gate!EndOfPass, Gate!gateVars, Open, Sent, Closed
    <2> QED BY <2>2, <2>3
<1>4. ASSUME NEW s \in Sink, MaySend(d), MaySend(d)', Put(d, s)
      PROVE  Gate!GateNext
    <2>1. Sent' = Sent \cup {s}
        BY <1>4, PutSends DEF TypeInv, TypeOK
    <2>2. Open /\ Open'
        BY <1>4 DEF Open
    <2> QED BY <1>1, <2>1, <2>2 DEF Gate!GateNext, Gate!Send, Open, Sent, Closed
<1> QED BY <1>3, <1>4, PassesMove DEF PassMove

\* A pass that ends, and writes the run's status as it does.
LEMMA EndsMap ==
    ASSUME NEW d \in Deliverer, TypeInv, RecordInv, ClosingInv, DeliveryStep(d),
           CommitDelivery(d) \/ MarkDelivered(d)
    PROVE  [Gate!GateNext]_(Gate!gateVars)
<1>1. UNCHANGED << exists, decisions, rows >>
    BY DEF CommitDelivery, MarkDelivered, SetStatus, MarkNodeComplete, sinkVars
<1>2. Approved' = Approved /\ Sent' = Sent
    BY <1>1 DEF Approved, Sent
<1>3. ~MaySend(d)'
    BY DEF CommitDelivery, MarkDelivered, EndPass, Goto, MaySend, TypeInv, TypeOK, DeliveryTypeOK
<1>4. Open' = Open \/ Open' = FALSE
    BY <1>3, OthersKeepTheGate DEF Open
<1>5. CASE Closed' = Closed
    BY <1>2, <1>4, <1>5 DEF Gate!GateNext, Gate!EndOfPass, Gate!gateVars, Open, Sent, Closed
<1>6. CASE Closed' = FALSE
    BY <1>2, <1>4, <1>6 DEF Gate!GateNext, Gate!Reopen, Open, Sent, Closed
<1>7. CASE Closed'
    <2>1. exists /\ status' = "DELIVERED"
        BY <1>1, <1>7 DEF Closed
    <2>2. Finished(d) /\ records = Sink
        <3>1. CASE CommitDelivery(d)
            BY <2>1, <3>1, CommitIsHonest DEF ClosingInv
        <3>2. CASE MarkDelivered(d)
            BY <2>1, <3>2 DEF MarkDelivered, ClosingInv, ReadyToClose, Finished
        <3> QED BY <3>1, <3>2
    <2>3. Open
        BY <2>2 DEF Open, Finished, MaySend
    <2>4. Sent = Sink
        BY <2>2 DEF RecordInv, RecordHasRow, Sent
    <2> QED BY <1>2, <1>4, <1>7, <2>3, <2>4
            DEF Gate!GateNext, Gate!Close, Open, Sent, Closed
<1> QED BY <1>5, <1>6, <1>7 DEF Closed

-----------------------------------------------------------------------------
(* The refinement *)

LEMMA InitMaps == Init => Gate!GateInit
    BY DEF Init, StoreInit, DeliveryInit, Gate!GateInit, MaySend, Approved

LEMMA NextMaps ==
    TypeInv /\ RecordInv /\ ClosingInv /\ [Next]_vars => [Gate!GateNext]_(Gate!gateVars)
<1> SUFFICES ASSUME TypeInv, RecordInv, ClosingInv, [Next]_vars
             PROVE  [Gate!GateNext]_(Gate!gateVars)
    OBVIOUS
<1>1. CASE \A d \in Deliverer : ~DeliveryStep(d)
    <2>1. OutsideStep
        BY <1>1, OthersStayOutside DEF ClosingInv
    <2>2. UNCHANGED << demo, passVars, rows >>
        BY <1>1, OnlyPassesSend DEF OthersStep
    <2> QED BY <2>1, <2>2, OutsideMaps
<1>2. ASSUME NEW d \in Deliverer, DeliveryStep(d)
      PROVE  [Gate!GateNext]_(Gate!gateVars)
    BY <1>2, MovesMap, EndsMap
<1> QED BY <1>1, <1>2

\* Every behaviour of the desk is one the abstract gate allows: a package goes out
\* only in a pass opened under an approval, nothing sent is taken back, and the
\* run is closed only by a pass, and only with the package everywhere.
THEOREM DeskImplementsTheGate == Spec => GateRefinement
<1>1. Init => TypeInv /\ RecordInv /\ ClosingInv
    BY InitType, InitRecord, InitClosing
<1>2. TypeInv /\ RecordInv /\ ClosingInv /\ [Next]_vars => (TypeInv /\ RecordInv /\ ClosingInv)'
    BY NextType, NextRecord, NextClosing
<1> QED BY <1>1, <1>2, InitMaps, NextMaps, PTL DEF Spec, GateRefinement, Gate!GateSpec

-----------------------------------------------------------------------------
(* What was not clean is never ordinary *)

Live == wpc \notin {"ended", "dead"}

\* Somebody has seen the raised tier: the row shows it, or a reviewer's copy,
\* about to be written back, does.
Seen == tier # "CLEAN" \/ \E r \in Reviewer : rpc[r] = "write" /\ rcopy[r].tier # "CLEAN"

\* A worker that is alive knows of it.
WorkerKnows == wtier # "CLEAN" \/ (wpc = "status" /\ wresult.tier # "CLEAN")

Remembered == exists /\ Live /\ Seen => WorkerKnows

\* The run is put in front of a reviewer by the worker's last step.
NotYetReady == exists /\ Live => status # "READY_FOR_REVIEW"

\* The gate is reached in a status from which both its proposals are legal.
AtReview == wpos = 10 => wstatus \in {"COMPOSED", "NEEDS_REVIEW"}

\* Only SANITIZE changes the tier, and it runs once.
Scanned == wtier # "CLEAN" => wpos > 4

\* What is known of the result being committed.
InHand ==
    wpc \in {"event", "tier", "status"} =>
        /\ wpos # 4 => wresult.tier = wtier
        /\ wpos = 9 => wresult.proposed = "COMPOSED"
        /\ wpos # 10 => wresult.proposed # "READY_FOR_REVIEW"
        /\ wpos = 10 /\ wtier # "CLEAN" => wresult.proposed = "NEEDS_REVIEW"

FlagInv ==
    /\ UncleanIsFlagged
    /\ Remembered
    /\ NotYetReady
    /\ AtReview
    /\ Scanned
    /\ InHand

LEMMA PipelinePlaces ==
    ASSUME WorkerTypeOK
    PROVE  /\ wpos \in 1 .. 10
           /\ Node = "SANITIZE" <=> wpos = 4
           /\ Node = "COMPOSE" <=> wpos = 9
           /\ Node = "REVIEW" <=> wpos = 10
           /\ Node \in WorkerNode
<1>1. wpos \in 1 .. 10
    BY PipelineNodes DEF WorkerTypeOK
<1>2. Node \in WorkerNode
    BY <1>1, PipelineNodes DEF Node
<1> QED BY <1>1, <1>2 DEF Node, PIPELINE

LEMMA InitFlag == Init => FlagInv
    BY DEF Init, StoreInit, WorkerInit, NoResult, ReviewInit, FlagInv, UncleanIsFlagged,
           Remembered, Live, Seen, NotYetReady, AtReview, Scanned, InHand

-----------------------------------------------------------------------------
(* Everybody but the worker *)

\* The others keep what has been seen, or less, and never make a run ready.
LEMMA OthersNeverMakeReady ==
    ASSUME TypeInv, ClosingInv, [Next]_vars, ~WorkerMoves, exists'
    PROVE  /\ exists
           /\ Seen' => Seen
           /\ status' # "READY_FOR_REVIEW" \/ (status' = status /\ tier' = tier)
<1> DEFINE Goal == /\ exists
                   /\ Seen' => Seen
                   /\ status' # "READY_FOR_REVIEW" \/ (status' = status /\ tier' = tier)
<1>x. exists
    BY NothingIsTakenBack
<1>s. ASSUME UNCHANGED storeVars, UNCHANGED << rpc, rcopy >> PROVE Goal
    BY <1>s, <1>x DEF storeVars, Seen
<1>1. CASE WorkerDies
    BY <1>1, <1>s DEF WorkerDies, WorkerCrash, reviewVars
<1>2. CASE Reconciles
    BY <1>2, <1>s, <1>x
       DEF Reconciles, ReconcileStep, FindStale, AppendRecoveryEvent, MarkInterrupted,
           MarkNodeComplete, reviewVars, Seen
<1>3. CASE Removes
    BY <1>3, <1>s
       DEF Removes, RemovalStep, CheckDelete, CheckPurge, RemoveRun, DeleteRun, reviewVars
<1>4. ASSUME NEW r \in Reviewer, Reviews(r) PROVE Goal
    <2>t. rpc \in [Reviewer -> ReviewerPC] /\ rcopy \in [Reviewer -> RowCopy]
        BY DEF TypeInv, TypeOK, ReviewTypeOK
    <2>1. CASE OpenPage(r) \/ Refuse(r) \/ ReviewerCrash(r) \/ WriteIsStale(r)
        <3>1. status' = status /\ tier' = tier
            BY <2>1 DEF OpenPage, Refuse, ReviewerCrash, WriteIsStale, storeVars
        <3>2. \A q \in Reviewer : rpc'[q] = "write" => rpc[q] = "write" /\ rcopy'[q] = rcopy[q]
            BY <2>t, <2>1 DEF OpenPage, Refuse, ReviewerCrash, WriteIsStale, Leave
        <3> QED BY <1>x, <3>1, <3>2 DEF Seen
    <2>2. CASE Submit(r)
        <3>1. status' = status /\ tier' = tier
            BY <2>2 DEF Submit, storeVars
        <3>2. \A q \in Reviewer : rpc'[q] = "write" /\ q # r
                                    => rpc[q] = "write" /\ rcopy'[q] = rcopy[q]
            BY <2>t, <2>2 DEF Submit
        <3>3. rcopy'[r].tier = tier
            BY <2>t, <2>2 DEF Submit
        <3> QED BY <1>x, <3>1, <3>2, <3>3 DEF Seen
    <2>3. CASE WriteRow(r)
        <3>1. tier' = rcopy[r].tier /\ rpc[r] = "write" /\ rcopy' = rcopy
            BY <2>3 DEF WriteRow, UpdateRun
        <3>2. \A q \in Reviewer : rpc'[q] = "write" => rpc[q] = "write"
            BY <2>t, <2>3 DEF WriteRow
        <3>3. rdraft[r].action \in Action
            BY DEF TypeInv, TypeOK, ReviewTypeOK, Decision
        <3>4. NEXT_STATUS[rdraft[r].action] # "READY_FOR_REVIEW"
            BY <3>3 DEF NEXT_STATUS, Action
        <3>5. status' # "READY_FOR_REVIEW"
            BY <2>3, <3>4 DEF WriteRow, UpdateRun
        <3> QED BY <1>x, <3>1, <3>2, <3>5 DEF Seen
    <2>4. CASE InsertDecision(r) \/ StoreRecomputed(r)
        <3>1. status' = status /\ tier' = tier
            BY <2>4
               DEF InsertDecision, StoreRecomputed, SaveDecision, SaveRecommendation, storeVars
        <3>2. \A q \in Reviewer : rpc'[q] = "write" => rpc[q] = "write" /\ rcopy'[q] = rcopy[q]
            BY <2>t, <2>4 DEF InsertDecision, StoreRecomputed, Leave
        <3> QED BY <1>x, <3>1, <3>2 DEF Seen
    <2> QED BY <1>4, <2>1, <2>2, <2>3, <2>4 DEF Reviews, ReviewStep, SubmissionStep
<1>5. ASSUME NEW d \in Deliverer, DeliveryStep(d) PROVE Goal
    <2>1. UNCHANGED << rpc, rcopy >>
        BY <1>5 DEF DeliveryStep, Delivers, DelivererDies, reviewVars
    <2>2. CASE CommitDelivery(d)
        <3> DEFINE next ==
                NextStatus("DELIVER", dresult[d] = "FAILED", DeliverProposes(d), dstatus[d])
        <3>1. dresult[d] # "FAILED" => dstatus[d] \in {"APPROVED", "DELIVERY_PENDING_RETRY"}
            BY <2>2
               DEF CommitDelivery, ClosingInv, GateStatus, ThroughTheGate, DELIVERY_PREDECESSORS
        <3>2. next # "READY_FOR_REVIEW"
            BY <3>1 DEF NextStatus, DeliverProposes, FailureStatus, SuccessStatus
        <3>3. tier' = tier /\ status' \in {status, next} /\ (exists => status' = next)
            BY <2>2 DEF CommitDelivery, SetStatus, MarkNodeComplete
        <3> QED BY <1>x, <2>1, <3>2, <3>3 DEF Seen
    <2>3. CASE MarkDelivered(d)
        BY <1>x, <2>1, <2>3 DEF MarkDelivered, SetStatus, Seen
    <2>4. CASE Record(d) \/ WriteCard(d)
        <3>1. status' = status /\ tier' = tier
            BY <2>4 DEF Record, RecordDelivery, WriteCard, AddCard, storeVars
        <3> QED BY <1>x, <2>1, <3>1 DEF Seen
    <2>5. CASE ~(Record(d) \/ WriteCard(d) \/ CommitDelivery(d) \/ MarkDelivered(d))
        BY <1>5, <1>s, <2>1, <2>5
           DEF DeliveryStep, Delivers, DelivererDies, PassStep, DelivererCrash, ListApproved,
               LoadState, ListPending, GateApproved, GateRetry, BuildPayload, SkipUnhealthy,
               SendCsv, ReadKeys, AppendRow, Conclude, AppendDeliverEvent, ConcludeRetry
    <2> QED BY <2>2, <2>3, <2>4, <2>5
<1>6. CASE SinksRebuilt \/ UNCHANGED vars
    BY <1>6, <1>s DEF SinksRebuilt, RebuildSinks, vars, storeVars, reviewVars
<1> QED BY <1>1, <1>2, <1>3, <1>4, <1>5, <1>6 DEF Next, DeliveryStep

\* Their steps leave the worker's memory alone, unless it is gone.
LEMMA OthersLeaveTheWorker ==
    ASSUME [Next]_vars, ~WorkerMoves
    PROVE  UNCHANGED workerVars \/ Stop("dead")
    BY DEF Next, WorkerDies, WorkerCrash, Reconciles, Removes, Reviews, Delivers, DelivererDies,
           SinksRebuilt, vars

LEMMA OthersKeepFlags ==
    ASSUME TypeInv, ClosingInv, FlagInv, [Next]_vars, ~WorkerMoves
    PROVE  FlagInv'
<1>1. ASSUME exists'
      PROVE  /\ exists
             /\ Seen' => Seen
             /\ status' # "READY_FOR_REVIEW" \/ (status' = status /\ tier' = tier)
    BY <1>1, OthersNeverMakeReady
<1>2. UncleanIsFlagged'
    BY <1>1 DEF UncleanIsFlagged, FlagInv
<1>3. CASE UNCHANGED workerVars
    <2>1. Remembered' /\ NotYetReady'
        BY <1>1, <1>3 DEF workerVars, Remembered, NotYetReady, Live, WorkerKnows, FlagInv
    <2>2. AtReview' /\ Scanned' /\ InHand'
        BY <1>3 DEF workerVars, AtReview, Scanned, InHand, FlagInv
    <2> QED BY <1>2, <2>1, <2>2 DEF FlagInv
<1>4. CASE Stop("dead")
    BY <1>2, <1>4
       DEF Stop, NoResult, FlagInv, Remembered, NotYetReady, Live, AtReview, Scanned, InHand
<1> QED BY <1>3, <1>4, OthersLeaveTheWorker

-----------------------------------------------------------------------------
(* The worker *)

\* A worker that has stopped owes nothing but the status it left.
LEMMA StopKeepsFlags ==
    ASSUME NEW pc \in {"ended", "dead"}, Stop(pc), UncleanIsFlagged'
    PROVE  FlagInv'
    BY DEF Stop, NoResult, FlagInv, Remembered, NotYetReady, Live, AtReview, Scanned, InHand

\* A commit makes a run ready only at REVIEW, and of a tier known to be clean.
LEMMA ReadyIsClean ==
    ASSUME WorkerTypeOK, FlagInv, wpc = "status",
           NextStatus(Node, wresult.kind = "FAILED", wresult.proposed, wstatus)
               = "READY_FOR_REVIEW"
    PROVE  wpos = 10 /\ wtier = "CLEAN" /\ wresult.tier = "CLEAN"
<1>1. wpos \in 1 .. 10 /\ Node \in WorkerNode /\ (Node = "REVIEW" <=> wpos = 10)
    BY PipelinePlaces
<1>2. FailureStatus[Node] # "READY_FOR_REVIEW"
    BY <1>1 DEF FailureStatus, WorkerNode
<1>3. Node # "REVIEW" => SuccessStatus[Node] # "READY_FOR_REVIEW"
    BY <1>1 DEF SuccessStatus, WorkerNode
<1>4. wpos = 10
    BY <1>1, <1>2, <1>3 DEF NextStatus, FlagInv, InHand
<1>5. wresult.tier = wtier
    BY <1>4 DEF FlagInv, InHand
<1>6. CASE wtier # "CLEAN"
    <2>1. wresult.proposed = "NEEDS_REVIEW"
        BY <1>4, <1>6 DEF FlagInv, InHand
    <2>2. wstatus \in {"COMPOSED", "NEEDS_REVIEW"}
        BY <1>4 DEF FlagInv, AtReview
    <2>3. CanTransition("COMPOSED", "NEEDS_REVIEW")
        <3>1. ALLOWED["COMPOSED"] = {"READY_FOR_REVIEW", "NEEDS_REVIEW"}
            BY DEF ALLOWED
        <3> QED BY <3>1 DEF CanTransition
    <2> QED BY <1>2, <2>1, <2>2, <2>3 DEF NextStatus
<1> QED BY <1>4, <1>5, <1>6

LEMMA ExecuteKeepsFlags ==
    ASSUME TypeInv, FlagInv, NEW kind \in NodeStatus, Execute(kind), UNCHANGED reviewVars
    PROVE  FlagInv'
<1>t. WorkerTypeOK
    BY DEF TypeInv, TypeOK
<1>p. /\ wpos \in 1 .. 10
      /\ Node = "SANITIZE" <=> wpos = 4
      /\ Node = "COMPOSE" <=> wpos = 9
      /\ Node = "REVIEW" <=> wpos = 10
      /\ Node \in WorkerNode
    BY <1>t, PipelinePlaces
<1>1. /\ wpc = "execute" /\ wpc' = "event"
      /\ wpos' = wpos /\ wstatus' = wstatus /\ wtier' = wtier
      /\ wresult'.proposed = ProposedBy(Node, kind)
      /\ wresult'.tier \in TiersOf(Node, kind)
    BY DEF Execute
<1>2. exists' = exists /\ status' = status /\ tier' = tier /\ Seen' = Seen
    BY DEF Execute, SaveRecommendation, storeVars, reviewVars, Seen
<1>3. Remembered' /\ NotYetReady' /\ UncleanIsFlagged' /\ AtReview' /\ Scanned'
    BY <1>1, <1>2
       DEF FlagInv, Remembered, NotYetReady, UncleanIsFlagged, AtReview, Scanned, Live, WorkerKnows
<1>4. wpos # 4 => wresult'.tier = wtier
    BY <1>1, <1>p DEF TiersOf
<1>5. /\ wpos = 9 => ProposedBy(Node, kind) = "COMPOSED"
      /\ wpos # 10 => ProposedBy(Node, kind) # "READY_FOR_REVIEW"
      /\ wpos = 10 /\ wtier # "CLEAN" => ProposedBy(Node, kind) = "NEEDS_REVIEW"
    <2>1. Node # "REVIEW" => SuccessStatus[Node] # "READY_FOR_REVIEW"
        BY <1>p DEF SuccessStatus, WorkerNode
    <2>2. SuccessStatus["COMPOSE"] = "COMPOSED"
        BY DEF SuccessStatus
    <2> QED BY <1>p, <2>1, <2>2 DEF ProposedBy, Flagged
<1>6. InHand'
    BY <1>1, <1>4, <1>5 DEF InHand
<1> QED BY <1>3, <1>6 DEF FlagInv

LEMMA CommitKeepsFlags ==
    ASSUME TypeInv, FlagInv, CommitStatus, UNCHANGED reviewVars
    PROVE  FlagInv'
<1> DEFINE next == NextStatus(Node, wresult.kind = "FAILED", wresult.proposed, wstatus)
<1>t. WorkerTypeOK
    BY DEF TypeInv, TypeOK
<1>p. /\ wpos \in 1 .. 10
      /\ Node = "COMPOSE" <=> wpos = 9
      /\ Node = "REVIEW" <=> wpos = 10
      /\ Node \in WorkerNode
    BY <1>t, PipelinePlaces
<1>1. wpc = "status" /\ exists' = exists /\ tier' = tier /\ (exists => status' = next)
    BY DEF CommitStatus, SetStatus, MarkNodeComplete
<1>2. Seen' = Seen
    BY <1>1 DEF Seen, reviewVars
<1>3. next = "READY_FOR_REVIEW" => wpos = 10 /\ wtier = "CLEAN" /\ wresult.tier = "CLEAN"
    BY <1>t, <1>1, ReadyIsClean
<1>4. UncleanIsFlagged'
    <2> SUFFICES ASSUME exists, next = "READY_FOR_REVIEW" PROVE tier = "CLEAN"
        BY <1>1 DEF UncleanIsFlagged
    <2>1. ~WorkerKnows
        BY <1>3 DEF WorkerKnows
    <2> QED BY <1>1, <2>1 DEF FlagInv, Remembered, Live, Seen
<1>5. CASE Stop("ended")
    BY <1>4, <1>5, StopKeepsFlags
<1>6. CASE Node # "REVIEW" /\ wpc' = "execute" /\ wpos' = wpos + 1 /\ wstatus' = next
             /\ wtier' = wresult.tier
    <2>1. NotYetReady'
        BY <1>p, <1>1, <1>3, <1>6 DEF NotYetReady
    <2>2. Remembered'
        BY <1>1, <1>2, <1>6 DEF FlagInv, Remembered, Live, WorkerKnows, Scanned, InHand
    <2>3. Scanned'
        BY <1>p, <1>1, <1>6 DEF FlagInv, Scanned, InHand
    <2>4. AtReview'
        <3> SUFFICES ASSUME wpos = 9 PROVE next \in {"COMPOSED", "NEEDS_REVIEW"}
            BY <1>p, <1>6 DEF AtReview
        <3>1. wresult.proposed = "COMPOSED"
            BY <1>1 DEF FlagInv, InHand
        <3> QED BY <1>p, <3>1 DEF NextStatus, SuccessStatus, FailureStatus
    <2>5. InHand'
        BY <1>6 DEF InHand
    <2> QED BY <1>4, <2>1, <2>2, <2>3, <2>4, <2>5 DEF FlagInv
<1> QED BY <1>5, <1>6 DEF CommitStatus

LEMMA WorkerKeepsFlags == TypeInv /\ FlagInv /\ WorkerMoves => FlagInv'
<1> SUFFICES ASSUME TypeInv, FlagInv, WorkerMoves PROVE FlagInv'
    OBVIOUS
<1>r. UNCHANGED << rpc, rcopy >> /\ UNCHANGED reviewVars
    BY DEF WorkerMoves, reviewVars
<1>1. ASSUME NEW kind \in NodeStatus, Execute(kind) PROVE FlagInv'
    BY <1>1, <1>r, ExecuteKeepsFlags
<1>2. CASE AppendEvent \/ RefuseToSpend
    <2>1. exists' = exists /\ status' = status /\ tier' = tier
        BY <1>2 DEF AppendEvent, RefuseToSpend, storeVars
    <2>2. UncleanIsFlagged'
        BY <2>1 DEF FlagInv, UncleanIsFlagged
    <2>3. CASE Stop("dead")
        BY <2>2, <2>3, StopKeepsFlags
    <2>4. CASE ~Stop("dead")
        <3>1. /\ wpos' = wpos /\ wstatus' = wstatus /\ wtier' = wtier /\ wresult' = wresult
              /\ wpc \in {"event", "execute"}
              /\ wpc' \in {"event", "tier", "status"} => wpc = "event"
              /\ wpc' \notin {"ended", "dead"}
            BY <1>2, <2>4 DEF AppendEvent, RefuseToSpend
        <3>2. Seen' = Seen
            BY <1>r, <2>1 DEF Seen
        <3>3. Remembered' /\ NotYetReady'
            BY <2>1, <3>1, <3>2 DEF FlagInv, Remembered, NotYetReady, Live, WorkerKnows
        <3>4. AtReview' /\ Scanned' /\ InHand'
            BY <3>1 DEF FlagInv, AtReview, Scanned, InHand
        <3> QED BY <2>2, <3>3, <3>4 DEF FlagInv
    <2> QED BY <2>3, <2>4
<1>3. CASE CommitTier
    <2>1. /\ wpos' = wpos /\ wstatus' = wstatus /\ wtier' = wtier /\ wresult' = wresult
          /\ wpc = "tier" /\ wpc' = "status"
          /\ exists' = exists /\ status' = status
          /\ tier' \in {tier, wresult.tier} /\ (exists => tier' = wresult.tier)
        BY <1>3 DEF CommitTier, SetIntegrityTier
    <2>2. NotYetReady' /\ UncleanIsFlagged'
        BY <2>1 DEF FlagInv, NotYetReady, UncleanIsFlagged, Live
    <2>3. Remembered'
        <3>1. Seen' /\ exists => Seen \/ wresult.tier # "CLEAN"
            BY <1>r, <2>1 DEF Seen
        <3> QED BY <2>1, <3>1 DEF FlagInv, Remembered, Live, WorkerKnows
    <2>4. AtReview' /\ Scanned' /\ InHand'
        BY <2>1 DEF FlagInv, AtReview, Scanned, InHand
    <2> QED BY <2>2, <2>3, <2>4 DEF FlagInv
<1>4. CASE CommitStatus
    BY <1>4, <1>r, CommitKeepsFlags
<1>5. CASE RecordBudgetStop
    <2>1. UncleanIsFlagged'
        BY <1>5 DEF RecordBudgetStop, SetStatus, FlagInv, UncleanIsFlagged
    <2> QED BY <1>5, <2>1, StopKeepsFlags DEF RecordBudgetStop
<1> QED BY <1>1, <1>2, <1>3, <1>4, <1>5 DEF WorkerMoves, WorkerStep

\* Whichever nodes failed or degraded, whoever else wrote the row meanwhile, a run
\* whose tier was raised is not presented to a reviewer as an ordinary one.
THEOREM UncleanIsNeverOrdinary == Spec => []UncleanIsFlagged
<1>1. Init => TypeInv /\ ClosingInv /\ FlagInv
    BY InitType, InitClosing, InitFlag
<1>2. TypeInv /\ ClosingInv /\ FlagInv /\ [Next]_vars => (TypeInv /\ ClosingInv /\ FlagInv)'
    BY NextType, NextClosing, WorkerKeepsFlags, OthersKeepFlags
<1>3. FlagInv => UncleanIsFlagged
    BY DEF FlagInv
<1> QED BY <1>1, <1>2, <1>3, PTL DEF Spec

=============================================================================
