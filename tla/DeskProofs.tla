----------------------------- MODULE DeskProofs -----------------------------
(***************************************************************************)
(* Theorems about Desk, for any number of reviewers, of delivery passes,   *)
(* of destinations and of faults.                                          *)
(***************************************************************************)
EXTENDS Desk, TLAPS

-----------------------------------------------------------------------------
(* The tables *)

LEMMA StatusNames ==
    Status = {"CREATED", "INTAKE_OK", "EXTRACTED", "SANITIZED", "STRUCTURED",
              "CALIBRATED", "ASSESSED", "AGGREGATED", "COMPOSED",
              "READY_FOR_REVIEW", "NEEDS_REVIEW", "QUARANTINED",
              "MANUAL_REVIEW_REQUIRED", "NEEDS_INFO", "APPROVED",
              "DELIVERY_PENDING_RETRY", "INTERRUPTED", "REJECTED", "DELIVERED",
              "FAILED_TERMINAL"}
    BY DEF Status, ALLOWED

LEMMA TableTypes ==
    /\ \A n \in WorkerNode \cup {"DELIVER"} :
          SuccessStatus[n] \in Status /\ FailureStatus[n] \in Status
    /\ \A n \in WorkerNode :
          SuccessStatus[n] # "DELIVERED" /\ FailureStatus[n] # "DELIVERED"
    BY StatusNames DEF SuccessStatus, FailureStatus, WorkerNode

LEMMA PipelineNodes ==
    /\ Len(PIPELINE) = 10
    /\ \A i \in 1 .. 10 : PIPELINE[i] \in WorkerNode
    /\ PIPELINE[10] = "REVIEW"
    BY DEF PIPELINE, WorkerNode

-----------------------------------------------------------------------------
(* The store: each transaction keeps the types *)

LEMMA StoreStutter == StoreTypeOK /\ UNCHANGED storeVars => StoreTypeOK'
    BY DEF StoreTypeOK, storeVars

LEMMA SetStatusType ==
    ASSUME NEW to \in Status, StoreTypeOK, SetStatus(to)
    PROVE  StoreTypeOK'
    BY DEF StoreTypeOK, SetStatus

LEMMA MarkNodeCompleteType ==
    ASSUME NEW node \in NodeName, NEW to \in Status, StoreTypeOK, MarkNodeComplete(node, to)
    PROVE  StoreTypeOK'
    BY DEF StoreTypeOK, MarkNodeComplete

LEMMA SetIntegrityTierType ==
    ASSUME NEW to \in Tier, StoreTypeOK, SetIntegrityTier(to)
    PROVE  StoreTypeOK'
    BY DEF StoreTypeOK, SetIntegrityTier

LEMMA SaveRecommendationType ==
    ASSUME NEW of \in Recommendation, StoreTypeOK, SaveRecommendation(of)
    PROVE  StoreTypeOK'
    BY DEF StoreTypeOK, SaveRecommendation

LEMMA DeleteRunType == ASSUME StoreTypeOK, DeleteRun PROVE StoreTypeOK'
<1>1. /\ exists' \in BOOLEAN /\ status' \in Status /\ version' \in Nat
      /\ finished' \in BOOLEAN /\ tier' \in Tier /\ rec' \in Recommendation
    BY StatusNames DEF DeleteRun, Tier, Recommendation
<1>2. /\ completed' \subseteq NodeName /\ decisions' \subseteq Decision
      /\ records' \subseteq Sink /\ cards' \in Nat
    BY DEF DeleteRun, StoreTypeOK
<1> QED BY <1>1, <1>2 DEF StoreTypeOK

-----------------------------------------------------------------------------
(* The worker *)

LEMMA NoResultType == NoResult \in Result
    BY StatusNames DEF NoResult, Result, NodeStatus, Tier

LEMMA StopType == ASSUME NEW pc \in WorkerPC, Stop(pc) PROVE WorkerTypeOK'
<1>1. NoResult \in Result
    BY NoResultType
<1>2. 1 \in 1 .. Len(PIPELINE) /\ "CREATED" \in Status /\ "CLEAN" \in Tier
    BY PipelineNodes, StatusNames DEF Tier
<1> QED BY <1>1, <1>2 DEF Stop, WorkerTypeOK

\* A status the worker takes up is one of the table's.
LEMMA NextStatusType ==
    ASSUME NEW node \in WorkerNode \cup {"DELIVER"}, NEW failed \in BOOLEAN,
           NEW proposed \in Status, NEW current \in Status
    PROVE  NextStatus(node, failed, proposed, current) \in Status
    BY TableTypes DEF NextStatus

LEMMA WorkerStepType ==
    ASSUME StoreTypeOK, WorkerTypeOK, WorkerStep
    PROVE  StoreTypeOK' /\ WorkerTypeOK'
<1>n. Node \in WorkerNode
    BY PipelineNodes DEF Node, WorkerTypeOK
<1>1. ASSUME NEW kind \in NodeStatus, Execute(kind) PROVE StoreTypeOK' /\ WorkerTypeOK'
    <2>1. PICK t \in TiersOf(Node, kind), o \in SpendingOf(Node, kind),
               f \in FlagsOf(Node, kind) :
             /\ wresult' = [kind |-> kind, tier |-> t, proposed |-> ProposedBy(Node, kind)]
             /\ wover' = o
             /\ wflag' = f
        BY <1>1 DEF Execute
    <2>2. t \in Tier
        BY DEF TiersOf, WorkerTypeOK, Tier, NodeStatus
    <2>3. o \in BOOLEAN
        BY DEF SpendingOf, WorkerTypeOK
    <2>4. f \in BOOLEAN
        BY DEF FlagsOf, WorkerTypeOK
    <2>5. ProposedBy(Node, kind) \in Status
        BY <1>n, StatusNames, TableTypes DEF ProposedBy
    <2>6. WorkerTypeOK'
        BY <1>1, <2>1, <2>2, <2>3, <2>4, <2>5 DEF Execute, WorkerTypeOK, WorkerPC, Result
    <2>7. StoreTypeOK'
        BY <1>1, SaveRecommendationType, StoreStutter DEF Execute, Recommendation
    <2> QED BY <2>6, <2>7
<1>2. CASE AppendEvent
    <2>1. StoreTypeOK'
        BY <1>2, StoreStutter DEF AppendEvent
    <2>2. WorkerTypeOK'
        BY <1>2, StopType DEF AppendEvent, WorkerTypeOK, WorkerPC
    <2> QED BY <2>1, <2>2
<1>3. CASE CommitTier
    <2>1. StoreTypeOK'
        BY <1>3, SetIntegrityTierType DEF CommitTier, WorkerTypeOK, Result
    <2>2. WorkerTypeOK'
        BY <1>3 DEF CommitTier, WorkerTypeOK, WorkerPC
    <2> QED BY <2>1, <2>2
<1>4. CASE CommitStatus
    <2> DEFINE failed == wresult.kind = "FAILED"
               next   == NextStatus(Node, failed, wresult.proposed, wstatus)
    <2>1. next \in Status
        BY <1>n, NextStatusType DEF WorkerTypeOK, Result
    <2>2. StoreTypeOK'
        BY <1>4, <1>n, <2>1, SetStatusType, MarkNodeCompleteType DEF CommitStatus, NodeName
    <2>3. CASE Stop("ended")
        BY <2>2, <2>3, StopType DEF WorkerPC
    <2>4. CASE ~Stop("ended")
        <3>1. /\ Node # "REVIEW"
              /\ wpc' = "execute"
              /\ wpos' = wpos + 1
              /\ wstatus' = next
              /\ wtier' = wresult.tier
              /\ wflag' = (wflag \/ wresult.kind = "DEGRADED")
              /\ wresult' = NoResult
              /\ wover' = wover
            BY <1>4, <2>4 DEF CommitStatus
        <3>2. wpos' \in 1 .. Len(PIPELINE)
            BY <3>1, PipelineNodes DEF Node, WorkerTypeOK
        <3>3. wresult' \in Result
            BY <3>1, NoResultType
        <3>4. wtier' \in Tier
            BY <3>1 DEF WorkerTypeOK, Result
        <3> QED BY <2>1, <2>2, <3>1, <3>2, <3>3, <3>4 DEF WorkerTypeOK, WorkerPC
    <2> QED BY <2>3, <2>4
<1>5. CASE RefuseToSpend
    <2>1. StoreTypeOK'
        BY <1>5, StoreStutter DEF RefuseToSpend
    <2>2. WorkerTypeOK'
        BY <1>5, StopType DEF RefuseToSpend, WorkerTypeOK, WorkerPC
    <2> QED BY <2>1, <2>2
<1>6. CASE RecordBudgetStop
    BY <1>6, StopType, SetStatusType, StatusNames DEF RecordBudgetStop, WorkerPC
<1> QED BY <1>1, <1>2, <1>3, <1>4, <1>5, <1>6 DEF WorkerStep

LEMMA WorkerCrashType ==
    ASSUME StoreTypeOK, WorkerTypeOK, WorkerCrash
    PROVE  StoreTypeOK' /\ WorkerTypeOK'
    BY StopType, StoreStutter DEF WorkerCrash, WorkerPC

-----------------------------------------------------------------------------
(* The housekeeping jobs *)

LEMMA ReconcileStepType ==
    ASSUME NEW quiet \in BOOLEAN, StoreTypeOK, HousekeepingTypeOK, ReconcileStep(quiet)
    PROVE  StoreTypeOK' /\ HousekeepingTypeOK'
<1>1. CASE FindStale(quiet)
    BY <1>1, StoreStutter DEF FindStale, HousekeepingTypeOK
<1>2. CASE AppendRecoveryEvent
    BY <1>2, StoreStutter DEF AppendRecoveryEvent, HousekeepingTypeOK
<1>3. CASE MarkInterrupted
    BY <1>3, StatusNames, MarkNodeCompleteType
       DEF MarkInterrupted, HousekeepingTypeOK, NodeName
<1> QED BY <1>1, <1>2, <1>3 DEF ReconcileStep

LEMMA RemovalStepType ==
    ASSUME StoreTypeOK, HousekeepingTypeOK, RemovalStep
    PROVE  StoreTypeOK' /\ HousekeepingTypeOK'
<1>1. CASE CheckDelete
    BY <1>1, StoreStutter DEF CheckDelete, HousekeepingTypeOK
<1>2. CASE CheckPurge
    BY <1>2, StoreStutter DEF CheckPurge, HousekeepingTypeOK
<1>3. CASE RemoveRun
    BY <1>3, DeleteRunType DEF RemoveRun, HousekeepingTypeOK
<1> QED BY <1>1, <1>2, <1>3 DEF RemovalStep

-----------------------------------------------------------------------------
(* The reviewers *)

LEMMA LeaveType ==
    ASSUME NEW r \in Reviewer, ReviewTypeOK, Leave(r)
    PROVE  ReviewTypeOK'
<1>1. NoDraft(r) \in Decision
    BY DEF NoDraft, Decision, Action
<1>2. NoCopy \in RowCopy
    BY DEF NoCopy, RowCopy, Tier
<1> QED BY <1>1, <1>2 DEF ReviewTypeOK, Leave, ReviewerPC

LEMMA ReviewStepType ==
    ASSUME NEW r \in Reviewer, StoreTypeOK, ReviewTypeOK, ReviewStep(r)
    PROVE  StoreTypeOK' /\ ReviewTypeOK'
<1>1. CASE OpenPage(r)
    BY <1>1, StoreStutter DEF OpenPage, ReviewTypeOK, ReviewerPC, StoreTypeOK
<1>2. CASE Submit(r)
    <2>1. PICK action \in Action, overridden \in BOOLEAN, expected \in {rpage[r], version} :
             /\ rdraft' = [rdraft EXCEPT ![r] = [version |-> version, action |-> action,
                                                 by |-> r, overridden |-> overridden]]
             /\ rexpected' = [rexpected EXCEPT ![r] = expected]
        BY <1>2 DEF Submit
    <2>2. [version |-> version, action |-> action, by |-> r, overridden |-> overridden]
             \in Decision
        BY DEF Decision, StoreTypeOK
    <2>3. expected \in Nat
        BY DEF StoreTypeOK, ReviewTypeOK
    <2>4. [completed |-> completed, tier |-> tier] \in RowCopy
        BY DEF RowCopy, StoreTypeOK
    <2>5. StoreTypeOK'
        BY <1>2, StoreStutter DEF Submit
    <2> QED BY <1>2, <2>1, <2>2, <2>3, <2>4, <2>5 DEF Submit, ReviewTypeOK, ReviewerPC
<1>3. CASE Refuse(r)
    BY <1>3, LeaveType, StoreStutter DEF Refuse
<1>4. CASE WriteRow(r)
    <2>1. rdraft[r].action \in Action
        BY DEF ReviewTypeOK, Decision
    <2>2. NEXT_STATUS[rdraft[r].action] \in Status
        BY <2>1, StatusNames DEF NEXT_STATUS, Action
    <2>3. rcopy[r].completed \subseteq NodeName /\ rcopy[r].tier \in Tier
        BY DEF ReviewTypeOK, RowCopy
    <2>4. StoreTypeOK'
        BY <1>4, <2>2, <2>3 DEF WriteRow, UpdateRun, StoreTypeOK
    <2>5. ReviewTypeOK'
        BY <1>4 DEF WriteRow, ReviewTypeOK, ReviewerPC
    <2> QED BY <2>4, <2>5
<1>5. CASE WriteIsStale(r)
    BY <1>5, LeaveType, StoreStutter DEF WriteIsStale
<1>6. CASE InsertDecision(r)
    <2>1. StoreTypeOK'
        BY <1>6, StoreStutter DEF InsertDecision, SaveDecision, StoreTypeOK, ReviewTypeOK
    <2>2. ReviewTypeOK'
        BY <1>6, LeaveType DEF InsertDecision, ReviewTypeOK, ReviewerPC
    <2> QED BY <2>1, <2>2
<1>7. CASE StoreRecomputed(r)
    BY <1>7, LeaveType, SaveRecommendationType DEF StoreRecomputed, Recommendation
<1>8. CASE ReviewerCrash(r)
    BY <1>8, LeaveType, StoreStutter DEF ReviewerCrash
<1> QED BY <1>1, <1>2, <1>3, <1>4, <1>5, <1>6, <1>7, <1>8 DEF ReviewStep, SubmissionStep

-----------------------------------------------------------------------------
(* The delivery passes *)

\* A pass that waits for a sink's answer has a sink it is waiting for.  Without
\* it the types are not inductive: a record would be written for no sink.
SinkInHand == \A d \in Deliverer : dpc[d] \in {"append", "record"} => dtodo[d] # {}

DeliveryInv == DeliveryTypeOK /\ SinkInHand

LEMMA NextSinkIsToDo ==
    ASSUME NEW d \in Deliverer, DeliveryTypeOK, dtodo[d] # {}
    PROVE  NextSink(d) \in dtodo[d] /\ NextSink(d) \in Sink
<1>1. dtodo[d] \subseteq Sink
    BY DEF DeliveryTypeOK
<1>2. NextSink(d) \in dtodo[d]
    BY DEF NextSink
<1> QED BY <1>1, <1>2

LEMMA NoPayloadType == NoPayload \in Payload
    BY DEF NoPayload, Payload, Recommendation

LEMMA EndPassType ==
    ASSUME NEW d \in Deliverer, DeliveryInv, EndPass(d), UNCHANGED demo, UNCHANGED sinkVars
    PROVE  DeliveryInv'
<1>1. DeliveryTypeOK'
    BY NoPayloadType, StatusNames
       DEF DeliveryInv, DeliveryTypeOK, EndPass, Goto, sinkVars, DelivererPC
<1>2. SinkInHand'
    BY DEF DeliveryInv, DeliveryTypeOK, SinkInHand, EndPass, Goto
<1> QED BY <1>1, <1>2 DEF DeliveryInv

LEMMA ListingType ==
    ASSUME NEW d \in Deliverer, StoreTypeOK, DeliveryInv,
           ListApproved(d) \/ LoadState(d) \/ ListPending(d)
    PROVE  StoreTypeOK' /\ DeliveryInv'
<1>1. CASE ListApproved(d)
    <2>1. DeliveryTypeOK'
        BY <1>1 DEF ListApproved, Goto, DeliveryInv, DeliveryTypeOK, DelivererPC, sinkVars
    <2>2. SinkInHand'
        BY <1>1 DEF ListApproved, Goto, DeliveryInv, DeliveryTypeOK, SinkInHand
    <2> QED BY <1>1, <2>1, <2>2, StoreStutter DEF ListApproved, DeliveryInv
<1>2. CASE LoadState(d)
    <2>1. CASE exists /\ status \notin TERMINAL
        <3>1. DeliveryTypeOK'
            BY <1>2, <2>1, StatusNames
               DEF LoadState, Goto, DeliveryInv, DeliveryTypeOK, DelivererPC, sinkVars, StoreTypeOK
        <3>2. SinkInHand'
            BY <1>2, <2>1 DEF LoadState, Goto, DeliveryInv, DeliveryTypeOK, SinkInHand
        <3> QED BY <1>2, <3>1, <3>2, StoreStutter DEF LoadState, DeliveryInv
    <2>2. CASE ~(exists /\ status \notin TERMINAL)
        BY <1>2, <2>2, EndPassType, StoreStutter DEF LoadState
    <2> QED BY <2>1, <2>2
<1>3. CASE ListPending(d)
    <2>1. DeliveryTypeOK'
        BY <1>3
           DEF ListPending, Goto, DeliveryInv, DeliveryTypeOK, DelivererPC, sinkVars, StoreTypeOK
    <2>2. SinkInHand'
        BY <1>3 DEF ListPending, Goto, DeliveryInv, DeliveryTypeOK, SinkInHand
    <2> QED BY <1>3, <2>1, <2>2, StoreStutter DEF ListPending, DeliveryInv
<1> QED BY <1>1, <1>2, <1>3

LEMMA GateType ==
    ASSUME NEW d \in Deliverer, StoreTypeOK, DeliveryInv,
           GateApproved(d) \/ GateRetry(d) \/ BuildPayload(d)
    PROVE  StoreTypeOK' /\ DeliveryInv'
<1>1. CASE GateApproved(d)
    <2>a. dtodo' \in [Deliverer -> SUBSET Sink]
        BY <1>1 DEF GateApproved, DeliveryInv, DeliveryTypeOK
    <2>b. dresult' \in [Deliverer -> {"OK", "DEGRADED", "FAILED"}]
        BY <1>1 DEF GateApproved, DeliveryInv, DeliveryTypeOK
    <2>c. dpc' \in [Deliverer -> DelivererPC]
        BY <1>1 DEF GateApproved, Goto, DeliveryInv, DeliveryTypeOK, DelivererPC
    <2>1. DeliveryTypeOK'
        BY <1>1, <2>a, <2>b, <2>c DEF GateApproved, DeliveryInv, DeliveryTypeOK, sinkVars
    <2>2. SinkInHand'
        BY <1>1 DEF GateApproved, Goto, DeliveryInv, DeliveryTypeOK, SinkInHand
    <2> QED BY <1>1, <2>1, <2>2, StoreStutter DEF GateApproved, DeliveryInv
<1>2. CASE GateRetry(d)
    <2>1. CASE EndPass(d)
        BY <1>2, <2>1, EndPassType, StoreStutter DEF GateRetry
    <2>2. CASE ~EndPass(d)
        <3>a. Outstanding \subseteq Sink
            BY DEF Outstanding
        <3>b. dtodo' \in [Deliverer -> SUBSET Sink]
            BY <1>2, <2>2, <3>a DEF GateRetry, DeliveryInv, DeliveryTypeOK
        <3>c. dpc' \in [Deliverer -> DelivererPC]
            BY <1>2, <2>2 DEF GateRetry, Goto, DeliveryInv, DeliveryTypeOK, DelivererPC
        <3>1. DeliveryTypeOK'
            BY <1>2, <2>2, <3>b, <3>c DEF GateRetry, DeliveryInv, DeliveryTypeOK, sinkVars
        <3>2. SinkInHand'
            BY <1>2, <2>2 DEF GateRetry, Goto, DeliveryInv, DeliveryTypeOK, SinkInHand
        <3> QED BY <1>2, <3>1, <3>2, StoreStutter DEF GateRetry, DeliveryInv
    <2> QED BY <2>1, <2>2
<1>3. CASE BuildPayload(d)
    <2>1. PICK p \in Payload : dpayload' = [dpayload EXCEPT ![d] = p]
        <3>1. rec \in Recommendation
            BY DEF StoreTypeOK
        <3>2. CASE decisions = {} /\ dpayload' = [dpayload EXCEPT ![d] = [by |-> "nobody", rec |-> rec]]
            <4>1. [by |-> "nobody", rec |-> rec] \in Payload
                BY <3>1 DEF Payload
            <4> QED BY <3>2, <4>1
        <3>3. CASE \E e \in decisions :
                IsLatest(e) /\ dpayload' = [dpayload EXCEPT ![d] = [by |-> e.by, rec |-> rec]]
            <4>1. PICK e \in decisions : dpayload' = [dpayload EXCEPT ![d] = [by |-> e.by, rec |-> rec]]
                BY <3>3
            <4>2. e.by \in Reviewer
                BY DEF StoreTypeOK, Decision
            <4>3. [by |-> e.by, rec |-> rec] \in Payload
                BY <3>1, <4>2 DEF Payload
            <4> QED BY <4>1, <4>3
        <3> QED BY <1>3, <3>2, <3>3 DEF BuildPayload
    <2>2. DeliveryTypeOK'
        BY <1>3, <2>1 DEF BuildPayload, Goto, DeliveryInv, DeliveryTypeOK, DelivererPC, sinkVars
    <2>3. SinkInHand'
        BY <1>3 DEF BuildPayload, Goto, DeliveryInv, DeliveryTypeOK, SinkInHand
    <2> QED BY <1>3, <2>2, <2>3, StoreStutter DEF BuildPayload, DeliveryInv
<1> QED BY <1>1, <1>2, <1>3

LEMMA PutType ==
    ASSUME NEW d \in Deliverer, NEW s \in Sink, DeliveryTypeOK, Put(d, s)
    PROVE  rows' \in [Sink -> Seq(Payload)]
<1>1. dpayload[d] \in Payload /\ rows[s] \in Seq(Payload)
    BY DEF DeliveryTypeOK
<1>2. Append(rows[s], dpayload[d]) \in Seq(Payload)
    BY <1>1
<1> QED BY <1>2 DEF DeliveryTypeOK, Put

LEMMA AnsweredType ==
    ASSUME NEW d \in Deliverer, NEW ok \in BOOLEAN, DeliveryInv, dtodo[d] # {},
           dtodo' = dtodo, Answered(d, ok)
    PROVE  /\ dok' \in [Deliverer -> BOOLEAN]
           /\ dtries' \in [Deliverer -> Nat]
           /\ dpc' \in [Deliverer -> DelivererPC]
           /\ SinkInHand'
    BY DEF Answered, Goto, DeliveryInv, DeliveryTypeOK, SinkInHand, DelivererPC

LEMMA TryAgainType ==
    ASSUME NEW d \in Deliverer, DeliveryInv, dtodo[d] # {}, dtodo' = dtodo, TryAgain(d)
    PROVE  /\ dok' \in [Deliverer -> BOOLEAN]
           /\ dtries' \in [Deliverer -> Nat]
           /\ dpc' \in [Deliverer -> DelivererPC]
           /\ SinkInHand'
<1>1. CASE Answered(d, FALSE)
    BY <1>1, AnsweredType
<1>2. CASE dtries' = [dtries EXCEPT ![d] = @ + 1] /\ UNCHANGED << dpc, dok >>
    BY <1>2 DEF DeliveryInv, DeliveryTypeOK, SinkInHand
<1> QED BY <1>1, <1>2 DEF TryAgain

LEMMA SendType ==
    ASSUME NEW d \in Deliverer, StoreTypeOK, DeliveryInv,
           SkipUnhealthy(d) \/ SendCsv(d) \/ ReadKeys(d) \/ AppendRow(d)
    PROVE  StoreTypeOK' /\ DeliveryInv'
<1>1. CASE SkipUnhealthy(d)
    <2>1. dtodo' \in [Deliverer -> SUBSET Sink] /\ dbad' \in [Deliverer -> BOOLEAN]
        BY <1>1 DEF SkipUnhealthy, DeliveryInv, DeliveryTypeOK
    <2>2. DeliveryTypeOK'
        BY <1>1, <2>1 DEF SkipUnhealthy, DeliveryInv, DeliveryTypeOK, sinkVars
    <2>3. SinkInHand'
        BY <1>1 DEF SkipUnhealthy, DeliveryInv, DeliveryTypeOK, SinkInHand
    <2> QED BY <1>1, <2>2, <2>3, StoreStutter DEF SkipUnhealthy, DeliveryInv
<1>2. CASE SendCsv(d)
    <2>1. dtodo[d] # {} /\ dtodo' = dtodo
        BY <1>2 DEF SendCsv
    <2>2. rows' \in [Sink -> Seq(Payload)]
        BY <1>2, PutType, DeliveryAssumption DEF SendCsv, DeliveryInv, DeliveryTypeOK
    <2>3. \E ok \in BOOLEAN : Answered(d, ok)
        BY <1>2 DEF SendCsv
    <2>a. faults' = faults \/ faults' = faults + 1
        BY <1>2 DEF SendCsv, Fault
    <2>4. faults' \in Nat
        BY <2>a DEF DeliveryInv, DeliveryTypeOK
    <2>5. /\ dok' \in [Deliverer -> BOOLEAN]
          /\ dtries' \in [Deliverer -> Nat]
          /\ dpc' \in [Deliverer -> DelivererPC]
          /\ SinkInHand'
        BY <2>1, <2>3, AnsweredType
    <2>6. DeliveryTypeOK'
        BY <1>2, <2>2, <2>4, <2>5 DEF SendCsv, DeliveryInv, DeliveryTypeOK
    <2> QED BY <1>2, <2>5, <2>6, StoreStutter DEF SendCsv, DeliveryInv
<1>3. CASE ReadKeys(d)
    <2>1. dtodo[d] # {} /\ dtodo' = dtodo /\ rows' = rows
        BY <1>3 DEF ReadKeys
    <2>a. /\ faults' = faults \/ faults' = faults + 1
          /\ healthy' = healthy \/ healthy' = healthy \ {NextSink(d)}
        BY <1>3 DEF ReadKeys, Fault
    <2>2. healthy' \subseteq Sink /\ faults' \in Nat
        BY <2>a DEF DeliveryInv, DeliveryTypeOK
    <2>3. \/ \E ok \in BOOLEAN : Answered(d, ok)
          \/ Goto(d, "append") /\ UNCHANGED << dok, dtries >>
        BY <1>3 DEF ReadKeys
    <2>4. /\ dok' \in [Deliverer -> BOOLEAN]
          /\ dtries' \in [Deliverer -> Nat]
          /\ dpc' \in [Deliverer -> DelivererPC]
          /\ SinkInHand'
        <3>1. CASE \E ok \in BOOLEAN : Answered(d, ok)
            BY <2>1, <3>1, AnsweredType
        <3>2. CASE Goto(d, "append") /\ UNCHANGED << dok, dtries >>
            BY <2>1, <3>2 DEF Goto, DeliveryInv, DeliveryTypeOK, SinkInHand, DelivererPC
        <3> QED BY <2>3, <3>1, <3>2
    <2>5. DeliveryTypeOK'
        BY <1>3, <2>1, <2>2, <2>4 DEF ReadKeys, DeliveryInv, DeliveryTypeOK
    <2> QED BY <1>3, <2>4, <2>5, StoreStutter DEF ReadKeys, DeliveryInv
<1>4. CASE AppendRow(d)
    <2>1. dtodo[d] # {} /\ dtodo' = dtodo
        BY <1>4 DEF AppendRow, DeliveryInv, SinkInHand
    <2>2. rows' \in [Sink -> Seq(Payload)]
        BY <1>4, <2>1, PutType, NextSinkIsToDo DEF AppendRow, DeliveryInv, DeliveryTypeOK
    <2>a. /\ faults' = faults \/ faults' = faults + 1
          /\ healthy' = healthy \/ healthy' = healthy \ {NextSink(d)}
        BY <1>4 DEF AppendRow, Fault
    <2>3. healthy' \subseteq Sink /\ faults' \in Nat
        BY <2>a DEF DeliveryInv, DeliveryTypeOK
    <2>4. TryAgain(d) \/ \E ok \in BOOLEAN : Answered(d, ok)
        BY <1>4 DEF AppendRow
    <2>5. /\ dok' \in [Deliverer -> BOOLEAN]
          /\ dtries' \in [Deliverer -> Nat]
          /\ dpc' \in [Deliverer -> DelivererPC]
          /\ SinkInHand'
        BY <2>1, <2>4, AnsweredType, TryAgainType
    <2>6. DeliveryTypeOK'
        BY <1>4, <2>2, <2>3, <2>5 DEF AppendRow, DeliveryInv, DeliveryTypeOK
    <2> QED BY <1>4, <2>5, <2>6, StoreStutter DEF AppendRow, DeliveryInv
<1> QED BY <1>1, <1>2, <1>3, <1>4

LEMMA RecordType ==
    ASSUME NEW d \in Deliverer, StoreTypeOK, DeliveryInv, Record(d)
    PROVE  StoreTypeOK' /\ DeliveryInv'
<1>1. dtodo[d] # {}
    BY DEF Record, DeliveryInv, SinkInHand
<1>2. NextSink(d) \in Sink
    BY <1>1, NextSinkIsToDo DEF DeliveryInv
<1>3. StoreTypeOK'
    BY <1>2, StoreStutter DEF Record, RecordDelivery, StoreTypeOK
<1>4. CASE exists
    <2>a. /\ dtodo' = [dtodo EXCEPT ![d] = @ \ {NextSink(d)}]
          /\ dgood' = [dgood EXCEPT ![d] = @ \/ dok[d]]
          /\ dbad' = [dbad EXCEPT ![d] = @ \/ ~dok[d]]
          /\ dpc' = [dpc EXCEPT ![d] = "send"]
        BY <1>4 DEF Record, Goto
    <2>1. dtodo' \in [Deliverer -> SUBSET Sink]
        BY <2>a DEF DeliveryInv, DeliveryTypeOK
    <2>2. dgood' \in [Deliverer -> BOOLEAN] /\ dbad' \in [Deliverer -> BOOLEAN]
        BY <2>a DEF DeliveryInv, DeliveryTypeOK
    <2>3. dpc' \in [Deliverer -> DelivererPC]
        BY <2>a DEF DeliveryInv, DeliveryTypeOK, DelivererPC
    <2>4. DeliveryTypeOK'
        BY <1>4, <2>1, <2>2, <2>3 DEF Record, DeliveryInv, DeliveryTypeOK, sinkVars
    <2>5. SinkInHand'
        BY <1>4 DEF Record, Goto, DeliveryInv, DeliveryTypeOK, SinkInHand
    <2> QED BY <1>3, <2>4, <2>5 DEF DeliveryInv
<1>5. CASE ~exists
    BY <1>3, <1>5, EndPassType DEF Record
<1> QED BY <1>4, <1>5

LEMMA ConcludeType ==
    ASSUME NEW d \in Deliverer, StoreTypeOK, DeliveryInv,
           Conclude(d) \/ WriteCard(d) \/ AppendDeliverEvent(d)
    PROVE  StoreTypeOK' /\ DeliveryInv'
<1>1. CASE Conclude(d)
    <2>1. dresult' \in [Deliverer -> {"OK", "DEGRADED", "FAILED"}]
        <3>1. \E v \in {"OK", "DEGRADED", "FAILED"} : dresult' = [dresult EXCEPT ![d] = v]
            BY <1>1 DEF Conclude
        <3> QED BY <3>1 DEF DeliveryInv, DeliveryTypeOK
    <2>2. dpc' \in [Deliverer -> DelivererPC]
        <3>1. \E pc \in {"event", "card"} : dpc' = [dpc EXCEPT ![d] = pc]
            BY <1>1 DEF Conclude, Goto
        <3> QED BY <3>1 DEF DeliveryInv, DeliveryTypeOK, DelivererPC
    <2>3. DeliveryTypeOK'
        BY <1>1, <2>1, <2>2 DEF Conclude, DeliveryInv, DeliveryTypeOK, sinkVars
    <2>4. SinkInHand'
        BY <1>1 DEF Conclude, Goto, DeliveryInv, DeliveryTypeOK, SinkInHand
    <2> QED BY <1>1, <2>3, <2>4, StoreStutter DEF Conclude, DeliveryInv
<1>2. CASE WriteCard(d)
    <2>1. StoreTypeOK'
        BY <1>2, StoreStutter DEF WriteCard, AddCard, StoreTypeOK
    <2>2. DeliveryTypeOK'
        BY <1>2 DEF WriteCard, Goto, DeliveryInv, DeliveryTypeOK, DelivererPC, sinkVars
    <2>3. SinkInHand'
        BY <1>2 DEF WriteCard, Goto, DeliveryInv, DeliveryTypeOK, SinkInHand
    <2> QED BY <2>1, <2>2, <2>3 DEF DeliveryInv
<1>3. CASE AppendDeliverEvent(d)
    <2>1. CASE exists
        <3>1. DeliveryTypeOK'
            BY <1>3, <2>1
               DEF AppendDeliverEvent, Goto, DeliveryInv, DeliveryTypeOK, DelivererPC, sinkVars
        <3>2. SinkInHand'
            BY <1>3, <2>1 DEF AppendDeliverEvent, Goto, DeliveryInv, DeliveryTypeOK, SinkInHand
        <3> QED BY <1>3, <3>1, <3>2, StoreStutter DEF AppendDeliverEvent, DeliveryInv
    <2>2. CASE ~exists
        BY <1>3, <2>2, EndPassType, StoreStutter DEF AppendDeliverEvent
    <2> QED BY <2>1, <2>2
<1> QED BY <1>1, <1>2, <1>3

LEMMA ClosingType ==
    ASSUME NEW d \in Deliverer, StoreTypeOK, DeliveryInv,
           CommitDelivery(d) \/ ConcludeRetry(d) \/ MarkDelivered(d)
    PROVE  StoreTypeOK' /\ DeliveryInv'
<1>1. CASE CommitDelivery(d)
    <2> DEFINE failed == dresult[d] = "FAILED"
               next   == NextStatus("DELIVER", failed, DeliverProposes(d), dstatus[d])
    <2>1. dstatus[d] \in Status
        BY DEF DeliveryInv, DeliveryTypeOK
    <2>2. DeliverProposes(d) \in Status
        BY <2>1, StatusNames DEF DeliverProposes
    <2>3. next \in Status
        BY <2>1, <2>2, NextStatusType
    <2>4. SetStatus(next) \/ MarkNodeComplete("DELIVER", next)
        BY <1>1 DEF CommitDelivery
    <2>5. StoreTypeOK'
        BY <2>3, <2>4, SetStatusType, MarkNodeCompleteType DEF NodeName
    <2> QED BY <1>1, <2>5, EndPassType DEF CommitDelivery
<1>2. CASE ConcludeRetry(d)
    <2>1. CASE EndPass(d)
        BY <1>2, <2>1, EndPassType, StoreStutter DEF ConcludeRetry
    <2>2. CASE ~EndPass(d)
        <3>1. DeliveryTypeOK'
            BY <1>2, <2>2
               DEF ConcludeRetry, Goto, DeliveryInv, DeliveryTypeOK, DelivererPC, sinkVars
        <3>2. SinkInHand'
            BY <1>2, <2>2 DEF ConcludeRetry, Goto, DeliveryInv, DeliveryTypeOK, SinkInHand
        <3> QED BY <1>2, <3>1, <3>2, StoreStutter DEF ConcludeRetry, DeliveryInv
    <2> QED BY <2>1, <2>2
<1>3. CASE MarkDelivered(d)
    BY <1>3, EndPassType, SetStatusType, StatusNames DEF MarkDelivered
<1> QED BY <1>1, <1>2, <1>3

LEMMA DelivererCrashType ==
    ASSUME NEW d \in Deliverer, StoreTypeOK, DeliveryInv, DelivererCrash(d)
    PROVE  StoreTypeOK' /\ DeliveryInv'
<1>1. DeliveryTypeOK'
    <2>1. faults' \in Nat
        BY DEF DelivererCrash, Fault, DeliveryInv, DeliveryTypeOK
    <2> QED BY <2>1, NoPayloadType, StatusNames
            DEF DelivererCrash, EndPass, Goto, DeliveryInv, DeliveryTypeOK, DelivererPC
<1>2. SinkInHand'
    BY DEF DelivererCrash, EndPass, Goto, DeliveryInv, DeliveryTypeOK, SinkInHand
<1> QED BY <1>1, <1>2, StoreStutter DEF DelivererCrash, DeliveryInv

LEMMA RebuildSinksType ==
    ASSUME StoreTypeOK, DeliveryInv, RebuildSinks
    PROVE  StoreTypeOK' /\ DeliveryInv'
<1>1. DeliveryTypeOK'
    BY DEF RebuildSinks, passVars, DeliveryInv, DeliveryTypeOK
<1>2. SinkInHand'
    BY DEF RebuildSinks, passVars, DeliveryInv, SinkInHand
<1> QED BY <1>1, <1>2, StoreStutter DEF RebuildSinks, DeliveryInv

-----------------------------------------------------------------------------
(* Type correctness of the desk *)

TypeInv == TypeOK /\ SinkInHand

LEMMA InitType == Init => TypeInv
<1> SUFFICES ASSUME Init PROVE TypeInv
    OBVIOUS
<1>1. StoreTypeOK
    BY StatusNames DEF Init, StoreInit, StoreTypeOK, Tier, Recommendation
<1>2. WorkerTypeOK
    <2>1. 1 \in 1 .. Len(PIPELINE) /\ "CREATED" \in Status /\ "CLEAN" \in Tier
        BY PipelineNodes, StatusNames DEF Tier
    <2> QED BY <2>1, NoResultType DEF Init, WorkerInit, WorkerTypeOK, WorkerPC
<1>3. HousekeepingTypeOK
    BY DEF Init, HousekeepingInit, HousekeepingTypeOK
<1>4. ReviewTypeOK
    <2>1. \A r \in Reviewer : NoDraft(r) \in Decision
        BY DEF NoDraft, Decision, Action
    <2>2. NoCopy \in RowCopy
        BY DEF NoCopy, RowCopy, Tier
    <2> QED BY <2>1, <2>2 DEF Init, ReviewInit, ReviewTypeOK, ReviewerPC
<1>5. DeliveryTypeOK
    <2>1. demo \in BOOLEAN
        BY DeliveryAssumption DEF Init, DeliveryInit
    <2>2. rows \in [Sink -> Seq(Payload)] /\ healthy \subseteq Sink /\ faults \in Nat
        BY DEF Init, DeliveryInit
    <2>3. "CREATED" \in Status /\ {} \in SUBSET Sink
        BY StatusNames
    <2> QED BY <2>1, <2>2, <2>3, NoPayloadType
            DEF Init, DeliveryInit, DeliveryTypeOK, DelivererPC
<1>6. SinkInHand
    BY DEF Init, DeliveryInit, SinkInHand
<1> QED BY <1>1, <1>2, <1>3, <1>4, <1>5, <1>6 DEF TypeInv, TypeOK

LEMMA NextType == TypeInv /\ [Next]_vars => TypeInv'
<1> SUFFICES ASSUME TypeInv, [Next]_vars PROVE TypeInv'
    OBVIOUS
<1> USE DEF TypeInv, TypeOK
<1>w. ASSUME UNCHANGED workerVars PROVE WorkerTypeOK'
    BY <1>w DEF workerVars, WorkerTypeOK
<1>h. ASSUME UNCHANGED housekeepingVars PROVE HousekeepingTypeOK'
    BY <1>h DEF housekeepingVars, HousekeepingTypeOK
<1>r. ASSUME UNCHANGED reviewVars PROVE ReviewTypeOK'
    BY <1>r DEF reviewVars, ReviewTypeOK
<1>d. ASSUME UNCHANGED deliveryVars PROVE DeliveryInv'
    BY <1>d DEF deliveryVars, passVars, sinkVars, DeliveryInv, DeliveryTypeOK, SinkInHand
<1>i. DeliveryInv
    BY DEF DeliveryInv
<1>1. CASE WorkerMoves
    BY <1>1, <1>h, <1>r, <1>d, WorkerStepType DEF WorkerMoves, DeliveryInv
<1>2. CASE WorkerDies
    BY <1>2, <1>h, <1>r, <1>d, WorkerCrashType DEF WorkerDies, DeliveryInv
<1>3. CASE Reconciles
    <2>1. Quiet \in BOOLEAN
        BY DEF Quiet
    <2> QED BY <1>3, <1>w, <1>r, <1>d, <2>1, ReconcileStepType DEF Reconciles, DeliveryInv
<1>4. CASE Removes
    BY <1>4, <1>w, <1>r, <1>d, RemovalStepType DEF Removes, DeliveryInv
<1>5. ASSUME NEW r \in Reviewer, Reviews(r) PROVE TypeInv'
    BY <1>5, <1>w, <1>h, <1>d, ReviewStepType DEF Reviews, DeliveryInv
<1>6. ASSUME NEW d \in Deliverer, Delivers(d) PROVE TypeInv'
    <2>1. PassStep(d)
        BY <1>6 DEF Delivers
    <2>2. StoreTypeOK' /\ DeliveryInv'
        BY <1>i, <2>1, ListingType, GateType, SendType, RecordType, ConcludeType, ClosingType
           DEF PassStep
    <2> QED BY <1>6, <1>w, <1>h, <1>r, <2>2 DEF Delivers, DeliveryInv
<1>7. ASSUME NEW d \in Deliverer, DelivererDies(d) PROVE TypeInv'
    BY <1>7, <1>i, <1>w, <1>h, <1>r, DelivererCrashType DEF DelivererDies, DeliveryInv
<1>8. CASE SinksRebuilt
    BY <1>8, <1>i, <1>w, <1>h, <1>r, RebuildSinksType DEF SinksRebuilt, DeliveryInv
<1>9. CASE UNCHANGED vars
    BY <1>9, <1>w, <1>h, <1>r, <1>d, StoreStutter DEF vars, DeliveryInv, storeVars
<1> QED BY <1>1, <1>2, <1>3, <1>4, <1>5, <1>6, <1>7, <1>8, <1>9 DEF Next

\* Every variable of the desk keeps to the values the code can give it, whatever
\* the interleaving of the worker, the jobs, the reviewers and the passes.
THEOREM TypeCorrect == Spec => []TypeOK
<1>1. TypeInv => TypeOK
    BY DEF TypeInv
<1> QED BY <1>1, InitType, NextType, PTL DEF Spec

=============================================================================
