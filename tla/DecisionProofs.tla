--------------------------- MODULE DecisionProofs ---------------------------
(***************************************************************************)
(* What a decision is worth, proved of Desk: no write of the row loses     *)
(* what somebody else committed to it, a run is decided once, its status   *)
(* says how, and a destination is given it once and once more at most for  *)
(* each fault.                                                             *)
(***************************************************************************)
EXTENDS GateProofs, FiniteSetTheorems

-----------------------------------------------------------------------------
(* While the worker has the run to itself *)

\* The worker is alive and has not failed COMPOSE, which lets a reviewer in
\* before the reviewer gate.
AloneAtWork == Live /\ (wpos <= 9 \/ "COMPOSE" \notin Exceptional)

\* The statuses in which somebody but the worker takes the run up, or nobody does.
Handed == REVIEWABLE \cup DELIVERY_PREDECESSORS \cup TERMINAL

\* Until then nobody has opened, decided or listed the run.
Untouched ==
    exists /\ AloneAtWork =>
        /\ status \notin Handed
        /\ decisions = {}
        /\ \A r \in Reviewer : rpc[r] = "away"
        /\ \A d \in Deliverer : dpc[d] = "idle"

\* What is known of the result being committed, beyond InHand.
PlainResult ==
    wpc \in {"event", "tier", "status"} =>
        /\ wpos # 10 => wresult.proposed \notin Handed
        /\ wresult.proposed # "INTERRUPTED"
        /\ Node \notin Exceptional => wresult.kind = "OK"

\* Only SANITIZE commits a tier, over one that is clean.
Unscanned == wpos < 4 \/ (wpos = 4 /\ wpc # "status")

ScannedOnce ==
    /\ wpc = "tier" => wpos = 4
    /\ exists /\ Live /\ Unscanned => tier = "CLEAN"

\* A reviewer whose write the version will let through holds the row as it is.
CopyIsCurrent(r) ==
    /\ rpc[r] = "open" => rpage[r] <= version
    /\ rpc[r] = "write" =>
          /\ rexpected[r] <= rdraft[r].version
          /\ rdraft[r].version <= version
          /\ rdraft[r].version = version =>
                /\ status \in REVIEWABLE
                /\ rcopy[r].completed = completed
                /\ rcopy[r].tier = tier

CopyInv ==
    /\ Untouched
    /\ PlainResult
    /\ ScannedOnce
    /\ exists => \A r \in Reviewer : CopyIsCurrent(r)

LEMMA HandedNames ==
    /\ Handed = {"READY_FOR_REVIEW", "NEEDS_REVIEW", "QUARANTINED", "APPROVED",
                 "DELIVERY_PENDING_RETRY", "REJECTED", "DELIVERED", "FAILED_TERMINAL"}
    /\ TERMINAL = {"REJECTED", "DELIVERED", "FAILED_TERMINAL"}
<1>1. TERMINAL = {"REJECTED", "DELIVERED", "FAILED_TERMINAL"}
    BY StatusNames DEF TERMINAL, ALLOWED
<1> QED BY <1>1 DEF Handed, REVIEWABLE, DELIVERY_PREDECESSORS

LEMMA InitCopy == Init => CopyInv
    BY HandedNames
       DEF Init, StoreInit, WorkerInit, NoResult, ReviewInit, DeliveryInit, CopyInv, Untouched,
           PlainResult, ScannedOnce, CopyIsCurrent

\* What a worker still alone commits to the row hands the run to nobody.
LEMMA CommitHandsToNobody ==
    ASSUME WorkerTypeOK, PlainResult, wpc = "status", wpos <= 9,
           wresult.kind # "FAILED" \/ Node \in NotRequired,
           wpos = 9 => "COMPOSE" \notin Exceptional
    PROVE  NextStatus(Node, wresult.kind = "FAILED", wresult.proposed, wstatus) \notin Handed
<1>p. /\ wpos \in 1 .. 10 /\ Node \in WorkerNode
      /\ Node = "COMPOSE" <=> wpos = 9
      /\ Node = "REVIEW" <=> wpos = 10
    BY PipelinePlaces
<1>1. CASE wresult.kind = "FAILED"
    <2>1. Node \in {"STRUCTURE", "CALIBRATE"}
        BY <1>p, <1>1 DEF PlainResult, NotRequired, WorkerNode
    <2>2. FailureStatus[Node] \notin Handed
        BY <2>1, HandedNames DEF FailureStatus
    <2> QED BY <1>1, <2>2 DEF NextStatus
<1>2. CASE wresult.kind # "FAILED"
    <2>1. wresult.proposed \notin Handed
        BY <1>p DEF PlainResult
    <2>2. SuccessStatus[Node] \notin Handed
        BY <1>p, HandedNames DEF SuccessStatus, WorkerNode
    <2> QED BY <1>2, <2>1, <2>2 DEF NextStatus
<1> QED BY <1>1, <1>2

\* What the worker's writes do to the row.
LEMMA WorkerWrites ==
    ASSUME TypeInv, WorkerMoves
    PROVE  /\ exists' = exists /\ decisions' = decisions /\ records' = records
           /\ version' = version => UNCHANGED << status, completed >>
           /\ version' = version \/ version' = version + 1
           /\ tier' = tier \/ wpc = "tier"
           /\ completed \subseteq completed'
           /\ UNCHANGED << rpc, rpage, rdraft, rexpected, rcopy, dpc, cpc >>
<1>o. UNCHANGED << rpc, rpage, rdraft, rexpected, rcopy, dpc, cpc >>
    BY DEF WorkerMoves, reviewVars, deliveryVars, passVars, housekeepingVars
<1>v. version \in Nat
    BY DEF TypeInv, TypeOK, StoreTypeOK
<1>1. ASSUME NEW kind \in NodeStatus, Execute(kind)
      PROVE  UNCHANGED << exists, status, version, completed, tier, decisions, records >>
    BY <1>1 DEF Execute, SaveRecommendation, storeVars
<1>2. CASE AppendEvent \/ RefuseToSpend
    BY <1>o, <1>2 DEF AppendEvent, RefuseToSpend, storeVars
<1>3. CASE CommitTier
    BY <1>o, <1>3 DEF CommitTier, SetIntegrityTier
<1>4. CASE CommitStatus
    BY <1>o, <1>v, <1>4 DEF CommitStatus, SetStatus, MarkNodeComplete
<1>5. CASE RecordBudgetStop
    BY <1>o, <1>v, <1>5 DEF RecordBudgetStop, SetStatus
<1> QED BY <1>o, <1>1, <1>2, <1>3, <1>4, <1>5 DEF WorkerMoves, WorkerStep

LEMMA WorkerKeepsUntouched ==
    ASSUME TypeInv, CopyInv, WorkerMoves
    PROVE  Untouched'
<1> SUFFICES ASSUME exists', AloneAtWork' PROVE Untouched'
    BY DEF Untouched
<1>t. WorkerTypeOK
    BY DEF TypeInv, TypeOK
<1>p. wpos \in 1 .. 10 /\ (Node = "REVIEW" <=> wpos = 10)
    BY <1>t, PipelinePlaces
<1>1. /\ exists /\ decisions' = decisions
      /\ UNCHANGED << rpc, dpc >>
    BY WorkerWrites
<1>2. ASSUME wpos' = wpos, wpc \notin {"ended", "dead"}, status' = status PROVE Untouched'
    BY <1>1, <1>2 DEF CopyInv, Untouched, AloneAtWork, Live
<1>3. ASSUME NEW kind \in NodeStatus, Execute(kind) PROVE Untouched'
    BY <1>2, <1>3 DEF Execute, SaveRecommendation, storeVars
<1>4. CASE AppendEvent \/ RefuseToSpend
    BY <1>2, <1>4 DEF AppendEvent, RefuseToSpend, storeVars, Stop, AloneAtWork, Live
<1>5. CASE CommitTier
    BY <1>2, <1>5 DEF CommitTier, SetIntegrityTier
<1>6. CASE CommitStatus
    <2> DEFINE next == NextStatus(Node, wresult.kind = "FAILED", wresult.proposed, wstatus)
    <2>1. wpc = "status" /\ status' = next
        BY <1>1, <1>6 DEF CommitStatus, SetStatus, MarkNodeComplete
    <2>2. /\ Node # "REVIEW" /\ wpos' = wpos + 1
          /\ wresult.kind # "FAILED" \/ Node \in NotRequired
        BY <1>6 DEF CommitStatus, Stop, AloneAtWork, Live
    <2>3. AloneAtWork /\ wpos <= 9 /\ (wpos = 9 => "COMPOSE" \notin Exceptional)
        BY <1>p, <2>1, <2>2 DEF AloneAtWork, Live
    <2>4. next \notin Handed
        BY <1>t, <2>1, <2>2, <2>3, CommitHandsToNobody DEF CopyInv
    <2> QED BY <1>1, <2>1, <2>3, <2>4 DEF CopyInv, Untouched
<1>7. CASE RecordBudgetStop
    BY <1>7 DEF RecordBudgetStop, Stop, AloneAtWork, Live
<1> QED BY <1>3, <1>4, <1>5, <1>6, <1>7 DEF WorkerMoves, WorkerStep

LEMMA WorkerKeepsResult ==
    ASSUME TypeInv, FlagInv, CopyInv, WorkerMoves
    PROVE  PlainResult' /\ ScannedOnce'
<1>t. WorkerTypeOK
    BY DEF TypeInv, TypeOK
<1>p. /\ wpos \in 1 .. 10 /\ Node \in WorkerNode
      /\ (Node = "REVIEW" <=> wpos = 10)
    BY <1>t, PipelinePlaces
<1>1. exists' = exists
    BY WorkerWrites
<1>e. ASSUME NEW pc \in {"ended", "dead"}, Stop(pc) PROVE PlainResult' /\ ScannedOnce'
    BY <1>e DEF Stop, PlainResult, ScannedOnce, Live
<1>2. ASSUME NEW kind \in NodeStatus, Execute(kind) PROVE PlainResult' /\ ScannedOnce'
    <2>1. /\ wpc = "execute" /\ wpc' = "event" /\ wpos' = wpos /\ Node' = Node
          /\ wresult'.proposed = ProposedBy(Node, kind) /\ wresult'.kind = kind
          /\ kind \in Kinds(Node) /\ tier' = tier
        BY <1>2 DEF Execute, SaveRecommendation, storeVars, Node
    <2>2. /\ wpos # 10 => ProposedBy(Node, kind) \notin Handed
          /\ ProposedBy(Node, kind) # "INTERRUPTED"
        <3>1. /\ Node # "REVIEW" => SuccessStatus[Node] \notin Handed
              /\ SuccessStatus[Node] # "INTERRUPTED"
            BY <1>p, HandedNames DEF SuccessStatus, WorkerNode
        <3> QED BY <1>p, <3>1, HandedNames DEF ProposedBy
    <2>3. Node \notin Exceptional => kind = "OK"
        BY <2>1 DEF Kinds
    <2>4. PlainResult'
        BY <2>1, <2>2, <2>3 DEF PlainResult
    <2>5. ScannedOnce'
        BY <1>1, <2>1 DEF CopyInv, ScannedOnce, Unscanned, Live
    <2> QED BY <2>4, <2>5
<1>3. CASE AppendEvent
    <2>1. CASE Stop("dead")
        BY <1>e, <2>1
    <2>2. CASE ~Stop("dead")
        <3>1. /\ wpc = "event" /\ wpos' = wpos /\ wresult' = wresult /\ tier' = tier
              /\ wpc' \in {"tier", "status"}
              /\ wpc' = "tier" => wresult.tier # wtier
            BY <1>3, <2>2 DEF AppendEvent, storeVars
        <3>2. PlainResult'
            BY <3>1 DEF CopyInv, PlainResult, Node
        <3>3. wpc' = "tier" => wpos' = 4
            BY <3>1 DEF FlagInv, InHand
        <3>4. ScannedOnce'
            BY <1>1, <3>1, <3>3 DEF CopyInv, ScannedOnce, Unscanned, Live
        <3> QED BY <3>2, <3>4
    <2> QED BY <2>1, <2>2
<1>4. CASE CommitTier
    <2>1. wpc = "tier" /\ wpc' = "status" /\ wpos' = wpos /\ wresult' = wresult
        BY <1>4 DEF CommitTier
    <2>2. wpos = 4
        BY <2>1 DEF CopyInv, ScannedOnce
    <2> QED BY <2>1, <2>2 DEF CopyInv, PlainResult, ScannedOnce, Unscanned, Node
<1>5. CASE CommitStatus
    <2>1. CASE Stop("ended")
        BY <1>e, <2>1
    <2>2. CASE ~Stop("ended")
        <3>1. /\ wpc = "status" /\ wpc' = "execute" /\ wpos' = wpos + 1 /\ tier' = tier
            BY <1>5, <2>2 DEF CommitStatus, SetStatus, MarkNodeComplete
        <3> QED BY <1>p, <1>1, <3>1 DEF CopyInv, PlainResult, ScannedOnce, Unscanned, Live
    <2> QED BY <2>1, <2>2
<1>6. CASE RefuseToSpend
    <2>1. CASE Stop("dead")
        BY <1>e, <2>1
    <2>2. CASE ~Stop("dead")
        BY <1>1, <1>6, <2>2
           DEF RefuseToSpend, storeVars, CopyInv, PlainResult, ScannedOnce, Unscanned, Live
    <2> QED BY <2>1, <2>2
<1>7. CASE RecordBudgetStop
    BY <1>7, <1>e DEF RecordBudgetStop
<1> QED BY <1>2, <1>3, <1>4, <1>5, <1>6, <1>7 DEF WorkerMoves, WorkerStep

LEMMA WorkerKeepsCopies ==
    ASSUME TypeInv, CopyInv, WorkerMoves, exists', NEW r \in Reviewer
    PROVE  CopyIsCurrent(r)'
<1>t. /\ version \in Nat /\ rpage[r] \in Nat /\ rexpected[r] \in Nat
      /\ rdraft[r].version \in Nat
    BY DEF TypeInv, TypeOK, StoreTypeOK, ReviewTypeOK, Decision
<1>1. /\ exists
      /\ version' = version => UNCHANGED << status, completed >>
      /\ version' = version \/ version' = version + 1
      /\ tier' = tier \/ wpc = "tier"
      /\ UNCHANGED << rpc, rpage, rdraft, rexpected, rcopy >>
    BY WorkerWrites
<1>2. CASE tier' = tier
    BY <1>t, <1>1, <1>2 DEF CopyInv, CopyIsCurrent
<1>3. CASE wpc = "tier"
    <2>1. AloneAtWork
        BY <1>3 DEF CopyInv, ScannedOnce, AloneAtWork, Live
    <2> QED BY <1>1, <2>1 DEF CopyInv, Untouched, CopyIsCurrent
<1> QED BY <1>1, <1>2, <1>3

-----------------------------------------------------------------------------
(* The others *)

\* A reviewer acts on a run that has been handed over.
LEMMA ActionsNeedReview ==
    ASSUME NEW action \in Action, status \in Status, CanTransition(status, NEXT_STATUS[action])
    PROVE  status \in REVIEWABLE
<1>1. NEXT_STATUS[action] \in {"APPROVED", "REJECTED", "NEEDS_INFO"}
    BY DEF NEXT_STATUS, Action
<1>2. ASSUME NEW from \in Status \ REVIEWABLE
      PROVE  ALLOWED[from] \cap {"APPROVED", "REJECTED", "NEEDS_INFO"} = {}
    BY <1>2, StatusNames DEF ALLOWED, REVIEWABLE
<1> QED BY <1>1, <1>2 DEF CanTransition

\* What a reviewer's step does to the row, and that it is nobody else's.
LEMMA ReviewerWrites ==
    ASSUME TypeInv, NEW r \in Reviewer, Reviews(r)
    PROVE  /\ UNCHANGED << exists, records, workerVars, housekeepingVars, deliveryVars >>
           /\ rpc[r] = "away" => status \in REVIEWABLE
           /\ ~WriteRow(r) => UNCHANGED << status, version, completed, tier >>
           /\ WriteRow(r) => version' = version + 1 /\ decisions' = decisions
           /\ decisions' = decisions \/ (rpc[r] = "save" /\ decisions' = decisions \cup {rdraft[r]})
           /\ \A q \in Reviewer \ {r} :
                 /\ rpc'[q] = rpc[q] /\ rpage'[q] = rpage[q] /\ rdraft'[q] = rdraft[q]
                 /\ rexpected'[q] = rexpected[q] /\ rcopy'[q] = rcopy[q]
<1> DEFINE Goal == /\ UNCHANGED << exists, records, workerVars, housekeepingVars, deliveryVars >>
                   /\ rpc[r] = "away" => status \in REVIEWABLE
                   /\ ~WriteRow(r) => UNCHANGED << status, version, completed, tier >>
                   /\ WriteRow(r) => version' = version + 1 /\ decisions' = decisions
                   /\ \/ decisions' = decisions
                      \/ rpc[r] = "save" /\ decisions' = decisions \cup {rdraft[r]}
                   /\ \A q \in Reviewer \ {r} :
                        /\ rpc'[q] = rpc[q] /\ rpage'[q] = rpage[q] /\ rdraft'[q] = rdraft[q]
                        /\ rexpected'[q] = rexpected[q] /\ rcopy'[q] = rcopy[q]
<1>t. /\ rpc \in [Reviewer -> ReviewerPC] /\ rpage \in [Reviewer -> Nat]
      /\ rdraft \in [Reviewer -> Decision] /\ rexpected \in [Reviewer -> Nat]
      /\ rcopy \in [Reviewer -> RowCopy]
    BY DEF TypeInv, TypeOK, ReviewTypeOK
<1>o. UNCHANGED << workerVars, housekeepingVars, deliveryVars >>
    BY DEF Reviews
<1>1. CASE OpenPage(r) \/ Submit(r)
    BY <1>t, <1>o, <1>1 DEF OpenPage, Submit, WriteRow, storeVars
<1>2. CASE Refuse(r) \/ WriteIsStale(r) \/ ReviewerCrash(r)
    BY <1>t, <1>o, <1>2 DEF Refuse, WriteIsStale, ReviewerCrash, WriteRow, Leave, storeVars
<1>3. CASE WriteRow(r)
    BY <1>t, <1>o, <1>3 DEF WriteRow, UpdateRun
<1>4. CASE InsertDecision(r) \/ StoreRecomputed(r)
    BY <1>t, <1>o, <1>4
       DEF InsertDecision, StoreRecomputed, SaveDecision, SaveRecommendation, WriteRow, Leave,
           storeVars
<1> QED BY <1>1, <1>2, <1>3, <1>4 DEF Reviews, ReviewStep, SubmissionStep

\* What a step of a pass does to the row.
LEMMA DelivererWrites ==
    ASSUME TypeInv, NEW d \in Deliverer, DeliveryStep(d)
    PROVE  /\ UNCHANGED << exists, tier, decisions, workerVars, housekeepingVars, reviewVars >>
           /\ completed \subseteq completed'
           /\ dpc[d] = "idle" => status \in DELIVERY_PREDECESSORS
           /\ \/ UNCHANGED << status, version, completed >>
              \/ version' = version + 1 /\ (CommitDelivery(d) \/ MarkDelivered(d))
<1>o. UNCHANGED << workerVars, housekeepingVars, reviewVars >>
    BY DEF DeliveryStep, Delivers, DelivererDies
<1>1. CASE CommitDelivery(d)
    BY <1>o, <1>1 DEF CommitDelivery, SetStatus, MarkNodeComplete
<1>2. CASE MarkDelivered(d)
    BY <1>o, <1>2 DEF MarkDelivered, SetStatus
<1>3. CASE Record(d) \/ WriteCard(d)
    BY <1>o, <1>3 DEF Record, RecordDelivery, WriteCard, AddCard, storeVars
<1>4. CASE ListApproved(d) \/ ListPending(d)
    BY <1>o, <1>4 DEF ListApproved, ListPending, DELIVERY_PREDECESSORS, storeVars
<1>5. CASE DelivererCrash(d) \/ LoadState(d) \/ GateApproved(d) \/ GateRetry(d) \/ BuildPayload(d)
             \/ SkipUnhealthy(d) \/ SendCsv(d) \/ ReadKeys(d) \/ AppendRow(d) \/ Conclude(d)
             \/ AppendDeliverEvent(d) \/ ConcludeRetry(d)
    BY <1>o, <1>5
       DEF DelivererCrash, LoadState, GateApproved, GateRetry, BuildPayload, SkipUnhealthy,
           SendCsv, ReadKeys, AppendRow, Conclude, AppendDeliverEvent, ConcludeRetry, storeVars
<1> QED BY <1>1, <1>2, <1>3, <1>4, <1>5 DEF DeliveryStep, Delivers, DelivererDies, PassStep

\* The rest is nobody's: it interrupts the run, removes it, or leaves it as it is.
NobodysStep ==
    /\ ~WorkerMoves
    /\ \A r \in Reviewer : ~Reviews(r)
    /\ \A d \in Deliverer : ~DeliveryStep(d)

LEMMA NobodyWrites ==
    ASSUME TypeInv, [Next]_vars, NobodysStep
    PROVE  \/ ~exists' /\ decisions' = {} /\ UNCHANGED << reviewVars, deliveryVars >>
           \/ /\ UNCHANGED << exists, tier, decisions, records, reviewVars >>
              /\ UNCHANGED << demo, passVars, rows, faults >>
              /\ completed \subseteq completed'
              /\ \/ UNCHANGED << status, version, completed >>
                 \/ /\ version' = version + 1
                    /\ cpc = "mark" /\ exists /\ status' = "INTERRUPTED"
<1>1. CASE WorkerDies
    BY <1>1 DEF WorkerDies, WorkerCrash, storeVars, deliveryVars, sinkVars
<1>2. CASE Reconciles
    BY <1>2
       DEF Reconciles, ReconcileStep, FindStale, AppendRecoveryEvent, MarkInterrupted,
           MarkNodeComplete, storeVars, deliveryVars, sinkVars
<1>3. CASE Removes
    BY <1>3
       DEF Removes, RemovalStep, CheckDelete, CheckPurge, RemoveRun, DeleteRun, storeVars,
           deliveryVars, sinkVars
<1>4. CASE SinksRebuilt
    BY <1>4 DEF SinksRebuilt, RebuildSinks, storeVars
<1>5. CASE UNCHANGED vars
    BY <1>5 DEF vars, storeVars, deliveryVars, sinkVars
<1> QED BY <1>1, <1>2, <1>3, <1>4, <1>5 DEF Next, NobodysStep, DeliveryStep

\* While the worker has the run to itself nobody else takes a step on it.
LEMMA NobodyElseActs ==
    ASSUME TypeInv, Untouched, exists, AloneAtWork
    PROVE  /\ \A r \in Reviewer : ~Reviews(r)
           /\ \A d \in Deliverer : ~DeliveryStep(d)
    BY ReviewerWrites, DelivererWrites DEF Untouched, Handed

LEMMA OthersKeepUntouched ==
    ASSUME TypeInv, CopyInv, [Next]_vars, ~WorkerMoves
    PROVE  Untouched' /\ PlainResult' /\ ScannedOnce'
<1>x. exists' => exists
    BY NothingIsTakenBack
<1>1. CASE Stop("dead")
    BY <1>1 DEF Stop, Untouched, AloneAtWork, Live, PlainResult, ScannedOnce
<1>2. CASE UNCHANGED workerVars
    <2>1. ASSUME exists', AloneAtWork
          PROVE  /\ status' \notin Handed /\ tier' = tier /\ decisions' = {}
                 /\ UNCHANGED << rpc, dpc >>
        <3>1. exists /\ Untouched
            BY <1>x, <2>1 DEF CopyInv
        <3>2. NobodysStep
            BY <2>1, <3>1, NobodyElseActs DEF NobodysStep
        <3>3. "INTERRUPTED" \notin Handed
            BY HandedNames
        <3> QED BY <2>1, <3>1, <3>2, <3>3, NobodyWrites DEF Untouched, reviewVars, passVars
    <2>2. AloneAtWork' = AloneAtWork
        BY <1>2 DEF workerVars, AloneAtWork, Live
    <2>3. Untouched'
        BY <1>x, <2>1, <2>2 DEF CopyInv, Untouched
    <2>4. PlainResult'
        BY <1>2 DEF workerVars, CopyInv, PlainResult, Node
    <2>5. ScannedOnce'
        <3>1. Live /\ Unscanned => AloneAtWork
            <4>1. wpos \in 1 .. 10
                BY PipelinePlaces DEF TypeInv, TypeOK
            <4> QED BY <4>1 DEF Unscanned, AloneAtWork
        <3> QED BY <1>2, <1>x, <2>1, <3>1
                DEF workerVars, CopyInv, ScannedOnce, Unscanned, Live
    <2> QED BY <2>3, <2>4, <2>5
<1> QED BY <1>1, <1>2, OthersLeaveTheWorker

\* A submission takes its copy and the version of it in one read.
LEMMA OwnCopy ==
    ASSUME TypeInv, NEW r \in Reviewer, Reviews(r), exists, CopyIsCurrent(r)
    PROVE  CopyIsCurrent(r)'
<1>t. /\ rpc \in [Reviewer -> ReviewerPC] /\ rpage \in [Reviewer -> Nat]
      /\ rdraft \in [Reviewer -> Decision] /\ rexpected \in [Reviewer -> Nat]
      /\ rcopy \in [Reviewer -> RowCopy] /\ version \in Nat /\ status \in Status
    BY DEF TypeInv, TypeOK, StoreTypeOK, ReviewTypeOK
<1>1. CASE OpenPage(r)
    BY <1>t, <1>1 DEF OpenPage, CopyIsCurrent, storeVars
<1>2. CASE Submit(r)
    <2>1. PICK action \in Action, overridden \in BOOLEAN, expected \in {rpage[r], version} :
             /\ CanTransition(status, NEXT_STATUS[action])
             /\ rdraft' = [rdraft EXCEPT ![r] = [version |-> version, action |-> action,
                                                 by |-> r, overridden |-> overridden]]
             /\ rexpected' = [rexpected EXCEPT ![r] = expected]
        BY <1>2 DEF Submit
    <2>2. status \in REVIEWABLE
        BY <1>t, <2>1, ActionsNeedReview
    <2>3. rdraft'[r].version = version /\ rexpected'[r] = expected
        BY <1>t, <2>1
    <2>4. expected <= version /\ rpc[r] = "open"
        BY <1>2, <1>t DEF Submit, CopyIsCurrent
    <2>5. rcopy'[r] = [completed |-> completed, tier |-> tier] /\ rpc'[r] = "write"
        BY <1>t, <1>2 DEF Submit
    <2>6. UNCHANGED << status, version, completed, tier >>
        BY <1>2 DEF Submit, storeVars
    <2> QED BY <1>t, <2>2, <2>3, <2>4, <2>5, <2>6 DEF CopyIsCurrent
<1>3. CASE Refuse(r) \/ WriteIsStale(r) \/ ReviewerCrash(r) \/ StoreRecomputed(r)
    BY <1>t, <1>3
       DEF Refuse, WriteIsStale, ReviewerCrash, StoreRecomputed, Leave, CopyIsCurrent
<1>4. CASE WriteRow(r) \/ InsertDecision(r)
    BY <1>t, <1>4 DEF WriteRow, InsertDecision, Leave, CopyIsCurrent
<1> QED BY <1>1, <1>2, <1>3, <1>4 DEF Reviews, ReviewStep, SubmissionStep

\* A copy stays current, or its version is behind.
LEMMA CopyStaysOrIsBehind ==
    ASSUME TypeInv, NEW q \in Reviewer, CopyIsCurrent(q),
           \/ UNCHANGED << status, version, completed, tier >>
           \/ version' = version + 1,
           /\ rpc'[q] = rpc[q] /\ rpage'[q] = rpage[q] /\ rdraft'[q] = rdraft[q]
           /\ rexpected'[q] = rexpected[q] /\ rcopy'[q] = rcopy[q]
    PROVE  CopyIsCurrent(q)'
<1>t. /\ version \in Nat /\ rpage[q] \in Nat /\ rexpected[q] \in Nat
      /\ rdraft[q].version \in Nat
    BY DEF TypeInv, TypeOK, StoreTypeOK, ReviewTypeOK, Decision
<1> QED BY <1>t DEF CopyIsCurrent

LEMMA OthersKeepCopies ==
    ASSUME TypeInv, CopyInv, [Next]_vars, ~WorkerMoves, exists', NEW q \in Reviewer
    PROVE  CopyIsCurrent(q)'
<1>x. exists /\ CopyIsCurrent(q)
    BY NothingIsTakenBack DEF CopyInv
<1>1. ASSUME NEW r \in Reviewer, Reviews(r) PROVE CopyIsCurrent(q)'
    <2>1. CASE q = r
        BY <1>x, <1>1, <2>1, OwnCopy
    <2>2. CASE q # r
        BY <1>x, <1>1, <2>2, ReviewerWrites, CopyStaysOrIsBehind
    <2> QED BY <2>1, <2>2
<1>2. ASSUME NEW d \in Deliverer, DeliveryStep(d) PROVE CopyIsCurrent(q)'
    BY <1>x, <1>2, DelivererWrites, CopyStaysOrIsBehind DEF reviewVars
<1>3. CASE NobodysStep
    BY <1>x, <1>3, NobodyWrites, CopyStaysOrIsBehind DEF reviewVars
<1> QED BY <1>1, <1>2, <1>3 DEF NobodysStep

LEMMA NextCopy == TypeInv /\ FlagInv /\ CopyInv /\ [Next]_vars => CopyInv'
<1> SUFFICES ASSUME TypeInv, FlagInv, CopyInv, [Next]_vars PROVE CopyInv'
    OBVIOUS
<1>1. CASE WorkerMoves
    BY <1>1, WorkerKeepsUntouched, WorkerKeepsResult, WorkerKeepsCopies DEF CopyInv
<1>2. CASE ~WorkerMoves
    BY <1>2, OthersKeepUntouched, OthersKeepCopies DEF CopyInv
<1> QED BY <1>1, <1>2

-----------------------------------------------------------------------------
(* No write of the row loses what was committed to it *)

\* A write the version lets through puts back what is there.
LEMMA WriteIsCurrent ==
    ASSUME TypeInv, CopyInv, NEW r \in Reviewer, WriteRow(r)
    PROVE  /\ exists /\ status \in REVIEWABLE
           /\ rcopy[r].completed = completed /\ rcopy[r].tier = tier
<1>t. /\ version \in Nat /\ rexpected[r] \in Nat /\ rdraft[r].version \in Nat
    BY DEF TypeInv, TypeOK, StoreTypeOK, ReviewTypeOK, Decision
<1>1. exists /\ rpc[r] = "write" /\ rexpected[r] = version
    BY DEF WriteRow, VersionMatches
<1> QED BY <1>t, <1>1 DEF CopyInv, CopyIsCurrent

LEMMA StepLosesNothing ==
    ASSUME TypeInv, CopyInv, [Next]_vars, exists'
    PROVE  /\ completed \subseteq completed'
           /\ tier # "CLEAN" => tier' = tier
<1>x. exists
    BY NothingIsTakenBack
<1>1. CASE WorkerMoves
    <2>1. completed \subseteq completed' /\ (tier' = tier \/ wpc = "tier")
        BY <1>1, WorkerWrites
    <2>2. wpc = "tier" => tier = "CLEAN"
        BY <1>x DEF CopyInv, ScannedOnce, Unscanned, Live
    <2> QED BY <2>1, <2>2
<1>2. ASSUME NEW r \in Reviewer, Reviews(r)
      PROVE  completed \subseteq completed' /\ tier' = tier
    <2>1. CASE WriteRow(r)
        BY <2>1, WriteIsCurrent DEF WriteRow, UpdateRun
    <2>2. CASE ~WriteRow(r)
        BY <1>2, <2>2, ReviewerWrites
    <2> QED BY <2>1, <2>2
<1>3. ASSUME NEW d \in Deliverer, DeliveryStep(d)
      PROVE  completed \subseteq completed' /\ tier' = tier
    BY <1>3, DelivererWrites
<1>4. CASE NobodysStep
    BY <1>4, NobodyWrites
<1> QED BY <1>1, <1>2, <1>3, <1>4 DEF NobodysStep

\* A submission writes back a whole copy of the row, and the scanner's write of
\* the tier leaves the version alone: still no node is unmarked and no raised tier
\* is lowered, because nobody has a copy while the scanner may still write.
THEOREM NothingCommittedIsLost == Spec => NoLostWork
<1>1. Init => TypeInv /\ ClosingInv /\ FlagInv /\ CopyInv
    BY InitType, InitClosing, InitFlag, InitCopy
<1>2. TypeInv /\ ClosingInv /\ FlagInv /\ CopyInv /\ [Next]_vars
        => (TypeInv /\ ClosingInv /\ FlagInv /\ CopyInv)'
    BY NextType, NextClosing, WorkerKeepsFlags, OthersKeepFlags, NextCopy
<1>3. TypeInv /\ CopyInv /\ [Next]_vars
        => [exists' => /\ completed \subseteq completed'
                       /\ tier # "CLEAN" => tier' = tier]_vars
    BY StepLosesNothing
<1> QED BY <1>1, <1>2, <1>3, PTL DEF Spec, NoLostWork

-----------------------------------------------------------------------------
(* A run is decided once *)

\* The decisions taken, stored or about to be.
Answers == decisions \cup {rdraft[r] : r \in {q \in Reviewer : rpc[q] = "save"}}

PassUnderWay == \E d \in Deliverer : dpc[d] # "idle"

\* The statuses a decision may leave the run in.
Outcomes == [APPROVE      |-> {"APPROVED", "DELIVERY_PENDING_RETRY", "DELIVERED"},
             REJECT       |-> {"REJECTED"},
             REQUEST_INFO |-> {"NEEDS_INFO"}]

\* A run that has been answered, or is being sent, cannot be acted on again; and
\* while it is sent its one answer is an approval.
AnsweredOnce ==
    exists =>
        /\ Answers # {} \/ PassUnderWay => status \notin REVIEWABLE
        /\ \A e, f \in Answers : e = f
        /\ \A e \in Answers : status \in Outcomes[e.action] \cup {"INTERRUPTED"}
        /\ PassUnderWay => \A e \in Answers : e.action = "APPROVE"

DecisionInv == AnsweredOnce /\ (~exists => decisions = {})

\* COMPOSE is the one node whose failure hands the run over while the worker goes
\* on: its REVIEW puts the status back under a decision taken meanwhile.
ComposeIsSafe == "COMPOSE" \notin Exceptional

LEMMA AnswersAreDecisions == TypeInv => Answers \subseteq Decision
    BY DEF TypeInv, TypeOK, StoreTypeOK, ReviewTypeOK, Answers

LEMMA InitDecision == Init => DecisionInv
    BY DEF Init, StoreInit, ReviewInit, DeliveryInit, DecisionInv, AnsweredOnce, Answers,
           PassUnderWay, REVIEWABLE

\* The worker is gone before anybody answers.
LEMMA WorkerKeepsDecisions ==
    ASSUME ComposeIsSafe, TypeInv, CopyInv, DecisionInv, WorkerMoves
    PROVE  DecisionInv'
<1>1. exists' = exists /\ decisions' = decisions /\ UNCHANGED << rpc, rdraft, dpc >>
    BY WorkerWrites
<1>2. AloneAtWork
    BY DEF ComposeIsSafe, AloneAtWork, Live, WorkerMoves, WorkerStep, Execute, AppendEvent,
           CommitTier, CommitStatus, RefuseToSpend, RecordBudgetStop
<1>3. exists => Answers = {} /\ ~PassUnderWay
    BY <1>2 DEF CopyInv, Untouched, Answers, PassUnderWay
<1>4. exists' => Answers' = {} /\ ~PassUnderWay'
    BY <1>1, <1>3 DEF Answers, PassUnderWay
<1> QED BY <1>1, <1>4 DEF DecisionInv, AnsweredOnce

LEMMA ReviewersKeepDecisions ==
    ASSUME TypeInv, CopyInv, DecisionInv, NEW r \in Reviewer, Reviews(r)
    PROVE  DecisionInv'
<1>t. /\ rpc \in [Reviewer -> ReviewerPC] /\ rdraft \in [Reviewer -> Decision]
      /\ rdraft[r].action \in Action
    BY DEF TypeInv, TypeOK, ReviewTypeOK, Decision
<1>o. exists' = exists /\ dpc' = dpc
    BY ReviewerWrites DEF deliveryVars, passVars
<1>p. PassUnderWay' = PassUnderWay
    BY <1>o DEF PassUnderWay
<1>q. \A q \in Reviewer \ {r} : rpc'[q] = rpc[q] /\ rdraft'[q] = rdraft[q]
    BY ReviewerWrites
<1>1. CASE WriteRow(r)
    <2>1. exists /\ status \in REVIEWABLE
        BY <1>1, WriteIsCurrent
    <2>2. Answers = {} /\ ~PassUnderWay
        BY <2>1 DEF DecisionInv, AnsweredOnce
    <2>3. decisions' = {} /\ rdraft' = rdraft /\ status' = NEXT_STATUS[rdraft[r].action]
        BY <1>1, <2>2 DEF WriteRow, UpdateRun, Answers
    <2>4. \A q \in Reviewer \ {r} : rpc'[q] # "save"
        BY <1>q, <2>2 DEF Answers
    <2>5. \A e \in Answers' : e = rdraft[r]
        BY <2>3, <2>4 DEF Answers
    <2>6. status' \in Outcomes[rdraft[r].action] /\ status' \notin REVIEWABLE
        BY <1>t, <2>3 DEF NEXT_STATUS, Outcomes, Action, REVIEWABLE
    <2> QED BY <1>o, <1>p, <2>1, <2>2, <2>5, <2>6 DEF DecisionInv, AnsweredOnce
<1>2. CASE ~WriteRow(r)
    <2>1. status' = status
        BY <1>2, ReviewerWrites
    <2>2. decisions' \subseteq Answers /\ (~exists => decisions' = decisions)
        <3>1. CASE decisions' = decisions
            BY <3>1 DEF Answers
        <3>2. CASE decisions' # decisions
            <4>1. rpc[r] = "save" /\ decisions' = decisions \cup {rdraft[r]}
                BY <3>2, ReviewerWrites
            <4>2. exists
                BY <3>2, <4>1
                   DEF Reviews, ReviewStep, SubmissionStep, OpenPage, Submit, Refuse,
                       ReviewerCrash, WriteRow, WriteIsStale, InsertDecision,
                       StoreRecomputed, storeVars
            <4> QED BY <4>1, <4>2 DEF Answers
        <3> QED BY <3>1, <3>2
    <2>3. rpc'[r] = "save" => rpc[r] = "save" /\ rdraft'[r] = rdraft[r]
        BY <1>t, <1>2
           DEF Reviews, ReviewStep, SubmissionStep, OpenPage, Submit, Refuse, ReviewerCrash,
               WriteIsStale, InsertDecision, StoreRecomputed, Leave
    <2>4. Answers' \subseteq Answers
        BY <1>q, <2>2, <2>3 DEF Answers
    <2> QED BY <1>o, <1>p, <2>1, <2>2, <2>4 DEF DecisionInv, AnsweredOnce
<1> QED BY <1>1, <1>2

\* Whatever a pass commits is a way an approved run may end.
LEMMA PassesCommitOutcomes ==
    ASSUME TypeInv, ClosingInv, exists, NEW d \in Deliverer, CommitDelivery(d) \/ MarkDelivered(d)
    PROVE  status' \in Outcomes.APPROVE /\ dpc[d] # "idle"
<1>1. CASE CommitDelivery(d)
    <2>1. /\ dpc[d] = "commit"
          /\ status' = NextStatus("DELIVER", dresult[d] = "FAILED", DeliverProposes(d), dstatus[d])
        BY <1>1 DEF CommitDelivery, SetStatus, MarkNodeComplete
    <2>2. dresult[d] # "FAILED" => dstatus[d] \in {"APPROVED", "DELIVERY_PENDING_RETRY"}
        BY <2>1 DEF ClosingInv, GateStatus, ThroughTheGate, DELIVERY_PREDECESSORS
    <2> QED BY <2>1, <2>2 DEF NextStatus, DeliverProposes, FailureStatus, SuccessStatus, Outcomes
<1>2. CASE MarkDelivered(d)
    BY <1>2 DEF MarkDelivered, SetStatus, Outcomes
<1> QED BY <1>1, <1>2

LEMMA PassesKeepDecisions ==
    ASSUME TypeInv, ClosingInv, DecisionInv, NEW d \in Deliverer, DeliveryStep(d)
    PROVE  DecisionInv'
<1>1. /\ UNCHANGED << exists, decisions, reviewVars >>
      /\ dpc[d] = "idle" => status \in DELIVERY_PREDECESSORS
      /\ status' = status \/ CommitDelivery(d) \/ MarkDelivered(d)
    BY DelivererWrites
<1>2. Answers' = Answers
    BY <1>1 DEF Answers, reviewVars
<1>3. \A e \in Answers : e.action \in Action
    BY AnswersAreDecisions DEF Decision
<1> SUFFICES ASSUME exists PROVE AnsweredOnce'
    BY <1>1 DEF DecisionInv, AnsweredOnce
<1>4. \A e \in Answers : e.action = "APPROVE"
    <2>1. CASE dpc[d] = "idle"
        <3> SUFFICES ASSUME NEW e \in Answers PROVE e.action = "APPROVE"
            OBVIOUS
        <3>1. status \in {"APPROVED", "DELIVERY_PENDING_RETRY"}
            BY <1>1, <2>1 DEF DELIVERY_PREDECESSORS
        <3>2. status \in Outcomes[e.action] \cup {"INTERRUPTED"}
            BY DEF DecisionInv, AnsweredOnce
        <3> QED BY <1>3, <3>1, <3>2 DEF Outcomes, Action
    <2>2. CASE dpc[d] # "idle"
        BY <2>2 DEF DecisionInv, AnsweredOnce, PassUnderWay
    <2> QED BY <2>1, <2>2
<1>5. status' \notin REVIEWABLE /\ \A e \in Answers : status' \in Outcomes[e.action] \cup {"INTERRUPTED"}
    <2>1. CASE status' = status
        <3>1. status \notin REVIEWABLE
            BY <1>1 DEF DecisionInv, AnsweredOnce, PassUnderWay, DELIVERY_PREDECESSORS, REVIEWABLE
        <3> QED BY <2>1, <3>1 DEF DecisionInv, AnsweredOnce
    <2>2. CASE status' # status
        <3>1. status' \in Outcomes.APPROVE
            BY <1>1, <2>2, PassesCommitOutcomes
        <3>2. status' \notin REVIEWABLE
            BY <3>1 DEF Outcomes, REVIEWABLE
        <3> QED BY <1>4, <3>1, <3>2
    <2> QED BY <2>1, <2>2
<1> QED BY <1>2, <1>4, <1>5 DEF DecisionInv, AnsweredOnce

LEMMA NobodyKeepsDecisions ==
    ASSUME TypeInv, DecisionInv, [Next]_vars, NobodysStep
    PROVE  DecisionInv'
<1>1. CASE ~exists' /\ decisions' = {}
    BY <1>1 DEF DecisionInv, AnsweredOnce
<1>2. CASE /\ UNCHANGED << exists, decisions, reviewVars, passVars >>
           /\ status' = status \/ status' = "INTERRUPTED"
    <2>1. Answers' = Answers /\ PassUnderWay' = PassUnderWay
        BY <1>2 DEF Answers, PassUnderWay, reviewVars, passVars
    <2> QED BY <1>2, <2>1 DEF DecisionInv, AnsweredOnce, REVIEWABLE
<1> QED BY <1>1, <1>2, NobodyWrites

LEMMA NextDecision ==
    TypeInv /\ ClosingInv /\ CopyInv /\ (ComposeIsSafe => DecisionInv) /\ [Next]_vars
        => (ComposeIsSafe => DecisionInv)'
<1> SUFFICES ASSUME ComposeIsSafe, TypeInv, ClosingInv, CopyInv, DecisionInv, [Next]_vars
             PROVE  DecisionInv'
    BY DEF ComposeIsSafe
<1>1. CASE WorkerMoves
    BY <1>1, WorkerKeepsDecisions
<1>2. ASSUME NEW r \in Reviewer, Reviews(r) PROVE DecisionInv'
    BY <1>2, ReviewersKeepDecisions
<1>3. ASSUME NEW d \in Deliverer, DeliveryStep(d) PROVE DecisionInv'
    BY <1>3, PassesKeepDecisions
<1>4. CASE NobodysStep
    BY <1>4, NobodyKeepsDecisions
<1> QED BY <1>1, <1>2, <1>3, <1>4 DEF NobodysStep

\* Everything above, under one name.
DeskInv == TypeInv /\ ClosingInv /\ FlagInv /\ CopyInv /\ (ComposeIsSafe => DecisionInv)

LEMMA InitDesk == Init => DeskInv
    BY InitType, InitClosing, InitFlag, InitCopy, InitDecision DEF DeskInv

LEMMA NextDesk == DeskInv /\ [Next]_vars => DeskInv'
<1> SUFFICES ASSUME DeskInv, [Next]_vars PROVE DeskInv'
    OBVIOUS
<1>1. TypeInv' /\ ClosingInv' /\ CopyInv' /\ (ComposeIsSafe => DecisionInv)'
    BY NextType, NextClosing, NextCopy, NextDecision DEF DeskInv
<1>2. FlagInv'
    BY WorkerKeepsFlags, OthersKeepFlags DEF DeskInv
<1> QED BY <1>1, <1>2 DEF DeskInv

\* Of any number of reviewers racing over the same page one decides: the version
\* refuses the others, and nothing reopens the run, whichever jobs run, worker or
\* passes die.
THEOREM DecidedOnce == Spec => [](ComposeIsSafe => OneDecision)
<1>1. DecisionInv => OneDecision
    <2> SUFFICES ASSUME DecisionInv PROVE OneDecision
        OBVIOUS
    <2>1. \A e, f \in decisions : e = f
        BY DEF DecisionInv, AnsweredOnce, Answers
    <2>2. CASE decisions = {}
        BY <2>2, FS_EmptySet DEF OneDecision
    <2>3. ASSUME NEW e \in decisions PROVE OneDecision
        <3>1. decisions = {e}
            BY <2>1
        <3>2. Cardinality({e}) = 1
            BY FS_Singleton
        <3> QED BY <3>1, <3>2 DEF OneDecision
    <2> QED BY <2>2, <2>3
<1>2. DeskInv => (ComposeIsSafe => OneDecision)
    BY <1>1 DEF DeskInv
<1> QED BY <1>2, InitDesk, NextDesk, PTL DEF Spec

-----------------------------------------------------------------------------
(* The decision and the status *)

\* Nothing but reconciliation interrupts a run.
NeverInterrupted ==
    "reconcile" \notin Jobs => cpc = "idle" /\ (exists => status # "INTERRUPTED")

LEMMA InitNeverInterrupted == Init => NeverInterrupted
    BY DEF Init, StoreInit, HousekeepingInit, NeverInterrupted

LEMMA NextNeverInterrupted == DeskInv /\ NeverInterrupted /\ [Next]_vars => NeverInterrupted'
<1> SUFFICES ASSUME DeskInv, NeverInterrupted, [Next]_vars, "reconcile" \notin Jobs
             PROVE  cpc' = "idle" /\ (exists' => status' # "INTERRUPTED")
    BY DEF NeverInterrupted
<1>i. TypeInv /\ ClosingInv /\ CopyInv
    BY DEF DeskInv
<1>x. exists' => exists
    BY <1>i, NothingIsTakenBack
<1>c. cpc = "idle" /\ (exists => status # "INTERRUPTED")
    BY DEF NeverInterrupted
<1>1. CASE WorkerMoves
    <2>t. Node \in WorkerNode /\ WorkerTypeOK
        BY <1>i, PipelinePlaces DEF TypeInv, TypeOK
    <2>1. CASE CommitStatus
        <3>1. wresult.proposed # "INTERRUPTED"
            BY <1>i, <2>1 DEF CommitStatus, CopyInv, PlainResult
        <3>2. SuccessStatus[Node] # "INTERRUPTED" /\ FailureStatus[Node] # "INTERRUPTED"
            BY <2>t DEF SuccessStatus, FailureStatus, WorkerNode
        <3>3. NextStatus(Node, wresult.kind = "FAILED", wresult.proposed, wstatus) # "INTERRUPTED"
            BY <3>1, <3>2 DEF NextStatus
        <3>4. exists => status'
                  = NextStatus(Node, wresult.kind = "FAILED", wresult.proposed, wstatus)
            BY <2>1 DEF CommitStatus, SetStatus, MarkNodeComplete
        <3> QED BY <1>1, <1>c, <1>x, <3>3, <3>4 DEF WorkerMoves, housekeepingVars
    <2>2. CASE ~CommitStatus
        <3>1. status' = status \/ (exists => status' = "MANUAL_REVIEW_REQUIRED")
            BY <1>1, <2>2
               DEF WorkerMoves, WorkerStep, Execute, AppendEvent, CommitTier, RefuseToSpend,
                   RecordBudgetStop, SetStatus, SetIntegrityTier, SaveRecommendation, storeVars
        <3> QED BY <1>1, <1>c, <1>x, <3>1 DEF WorkerMoves, housekeepingVars
    <2> QED BY <2>1, <2>2
<1>2. ASSUME NEW r \in Reviewer, Reviews(r)
      PROVE  cpc' = "idle" /\ (exists' => status' # "INTERRUPTED")
    <2>1. cpc' = "idle" /\ (status' = status \/ WriteRow(r))
        BY <1>i, <1>2, <1>c, ReviewerWrites DEF housekeepingVars
    <2>2. WriteRow(r) => status' # "INTERRUPTED"
        <3>1. rdraft[r].action \in Action
            BY <1>i DEF TypeInv, TypeOK, ReviewTypeOK, Decision
        <3> QED BY <3>1 DEF WriteRow, UpdateRun, NEXT_STATUS, Action
    <2> QED BY <1>c, <1>x, <2>1, <2>2
<1>3. ASSUME NEW d \in Deliverer, DeliveryStep(d)
      PROVE  cpc' = "idle" /\ (exists' => status' # "INTERRUPTED")
    <2>1. /\ cpc' = "idle"
          /\ status' = status \/ CommitDelivery(d) \/ MarkDelivered(d)
        BY <1>i, <1>3, <1>c, DelivererWrites DEF housekeepingVars
    <2>2. exists /\ (CommitDelivery(d) \/ MarkDelivered(d)) => status' \in Outcomes.APPROVE
        BY <1>i, PassesCommitOutcomes
    <2> QED BY <1>c, <1>x, <2>1, <2>2 DEF Outcomes
<1>4. CASE NobodysStep
    <2>1. cpc' = "idle"
        BY <1>4, <1>c
           DEF Next, NobodysStep, DeliveryStep, WorkerDies, Reconciles, ReconcileStep, FindStale,
               AppendRecoveryEvent, MarkInterrupted, Removes, RemovalStep, CheckDelete,
               CheckPurge, RemoveRun, SinksRebuilt, housekeepingVars, vars
    <2>2. exists' => status' = status
        BY <1>i, <1>4, <1>c, NobodyWrites
    <2> QED BY <1>c, <1>x, <2>1, <2>2
<1> QED BY <1>1, <1>2, <1>3, <1>4 DEF NobodysStep

\* An answered run that nothing interrupted is where its answer leaves it.
LEMMA OutcomeIsOfTheDecision ==
    ASSUME TypeInv, DecisionInv, exists => status # "INTERRUPTED"
    PROVE  DecisionMatchesStatus
<1> SUFFICES ASSUME exists, NEW e \in decisions
             PROVE  status \in CASE e.action = "APPROVE" ->
                                       {"APPROVED", "DELIVERY_PENDING_RETRY", "DELIVERED"}
                                [] e.action = "REJECT"       -> {"REJECTED"}
                                [] e.action = "REQUEST_INFO" -> {"NEEDS_INFO"}
    BY DEF DecisionMatchesStatus
<1>1. status \in Outcomes[e.action]
    BY DEF DecisionInv, AnsweredOnce, Answers
<1>2. e.action \in Action
    BY DEF TypeInv, TypeOK, StoreTypeOK, Decision
<1>3. CASE e.action = "APPROVE"
    <2>1. status \in {"APPROVED", "DELIVERY_PENDING_RETRY", "DELIVERED"}
        BY <1>1, <1>3 DEF Outcomes
    <2> QED BY <1>3, <2>1, Zenon
<1>4. CASE e.action = "REJECT"
    <2>1. status \in {"REJECTED"}
        BY <1>1, <1>4 DEF Outcomes
    <2> QED BY <1>4, <2>1, Zenon
<1>5. CASE e.action = "REQUEST_INFO"
    <2>1. status \in {"NEEDS_INFO"}
        BY <1>1, <1>5 DEF Outcomes
    <2> QED BY <1>5, <2>1, Zenon
<1> QED BY <1>2, <1>3, <1>4, <1>5 DEF Action

\* The decision rows and the status column are written by separate transactions
\* and tell one story at every step between them, deletion included, as long as
\* reconciliation, which looks at neither, is not run.
THEOREM StatusTellsTheDecision ==
    Spec => [](ComposeIsSafe /\ "reconcile" \notin Jobs => DecisionMatchesStatus)
<1>1. DeskInv /\ NeverInterrupted
        => (ComposeIsSafe /\ "reconcile" \notin Jobs => DecisionMatchesStatus)
    BY OutcomeIsOfTheDecision DEF DeskInv, NeverInterrupted
<1> QED BY <1>1, InitDesk, NextDesk, InitNeverInterrupted, NextNeverInterrupted, PTL DEF Spec

-----------------------------------------------------------------------------
(* Terminal means terminal, for one pass at a time *)

OnePass == \A c, d \in Deliverer : c = d

\* The conditions under which nothing ends a run that has ended.
Undisturbed == ComposeIsSafe /\ "reconcile" \notin Jobs /\ OnePass

\* A pass has only its own run, and the run is still to be delivered.
StillOpen == exists /\ PassUnderWay => status \in DELIVERY_PREDECESSORS

EndInv == NeverInterrupted /\ (Undisturbed => StillOpen)

LEMMA InitEnd == Init => EndInv
    BY InitNeverInterrupted DEF Init, DeliveryInit, EndInv, StillOpen, PassUnderWay

\* A commit or a mark ends the pass.
LEMMA ClosingEndsThePass ==
    ASSUME TypeInv, NEW d \in Deliverer, CommitDelivery(d) \/ MarkDelivered(d)
    PROVE  dpc'[d] = "idle"
    BY DEF TypeInv, TypeOK, DeliveryTypeOK, CommitDelivery, MarkDelivered, EndPass, Goto

LEMMA NextStillOpen ==
    ASSUME Undisturbed, DeskInv, NeverInterrupted, StillOpen, [Next]_vars
    PROVE  StillOpen'
<1>i. TypeInv /\ ClosingInv /\ CopyInv /\ DecisionInv
    BY DEF DeskInv, Undisturbed
<1>x. exists' => exists
    BY <1>i, NothingIsTakenBack
<1>1. CASE WorkerMoves
    <2>1. exists => ~PassUnderWay
        BY <1>i, <1>1
           DEF CopyInv, Untouched, PassUnderWay, Undisturbed, ComposeIsSafe, AloneAtWork, Live,
               WorkerMoves, WorkerStep, Execute, AppendEvent, CommitTier, CommitStatus,
               RefuseToSpend, RecordBudgetStop
    <2>2. dpc' = dpc
        BY <1>i, <1>1, WorkerWrites
    <2> QED BY <1>x, <2>1, <2>2 DEF StillOpen, PassUnderWay
<1>2. ASSUME NEW r \in Reviewer, Reviews(r) PROVE StillOpen'
    <2>1. dpc' = dpc /\ (~WriteRow(r) => status' = status)
        BY <1>i, <1>2, ReviewerWrites DEF deliveryVars, passVars
    <2>2. WriteRow(r) => exists /\ ~PassUnderWay
        BY <1>i, WriteIsCurrent DEF DecisionInv, AnsweredOnce
    <2> QED BY <1>x, <2>1, <2>2 DEF StillOpen, PassUnderWay
<1>3. ASSUME NEW d \in Deliverer, DeliveryStep(d) PROVE StillOpen'
    <2>1. \A c \in Deliverer : c = d
        BY DEF Undisturbed, OnePass
    <2>2. /\ dpc[d] = "idle" => status \in DELIVERY_PREDECESSORS
          /\ status' = status \/ CommitDelivery(d) \/ MarkDelivered(d)
        BY <1>i, <1>3, DelivererWrites
    <2>3. CASE status' = status
        <3>1. exists => status \in DELIVERY_PREDECESSORS
            BY <2>1, <2>2 DEF StillOpen, PassUnderWay
        <3> QED BY <1>x, <2>3, <3>1 DEF StillOpen
    <2>4. CASE CommitDelivery(d) \/ MarkDelivered(d)
        <3>1. dpc'[d] = "idle"
            BY <1>i, <2>4, ClosingEndsThePass
        <3> QED BY <2>1, <3>1 DEF StillOpen, PassUnderWay
    <2> QED BY <2>2, <2>3, <2>4
<1>4. CASE NobodysStep
    <2>1. exists' => status' = status /\ dpc' = dpc
        BY <1>i, <1>4, <1>x, NobodyWrites
           DEF NeverInterrupted, Undisturbed, passVars, deliveryVars
    <2> QED BY <1>x, <2>1 DEF StillOpen, PassUnderWay
<1> QED BY <1>1, <1>2, <1>3, <1>4 DEF NobodysStep

LEMMA NextEnd == DeskInv /\ EndInv /\ [Next]_vars => EndInv'
<1> SUFFICES ASSUME DeskInv, EndInv, [Next]_vars PROVE EndInv'
    OBVIOUS
<1>1. NeverInterrupted'
    BY NextNeverInterrupted DEF EndInv
<1>2. Undisturbed => StillOpen'
    BY NextStillOpen DEF EndInv
<1> QED BY <1>1, <1>2 DEF EndInv, Undisturbed, ComposeIsSafe, OnePass

LEMMA EndedRunStaysSo ==
    ASSUME Undisturbed, DeskInv, EndInv, [Next]_vars, exists', status \in TERMINAL
    PROVE  status' = status
<1>i. TypeInv /\ ClosingInv /\ CopyInv /\ DecisionInv /\ StillOpen /\ NeverInterrupted
    BY DEF DeskInv, EndInv, Undisturbed
<1>x. exists
    BY <1>i, NothingIsTakenBack
<1>t. status \in {"REJECTED", "DELIVERED", "FAILED_TERMINAL"}
    BY HandedNames
<1>1. ~WorkerMoves
    BY <1>i, <1>x
       DEF CopyInv, Untouched, Handed, Undisturbed, ComposeIsSafe, AloneAtWork, Live,
           WorkerMoves, WorkerStep, Execute, AppendEvent, CommitTier, CommitStatus,
           RefuseToSpend, RecordBudgetStop
<1>2. ASSUME NEW r \in Reviewer, Reviews(r) PROVE status' = status
    <2>1. ~WriteRow(r)
        BY <1>i, <1>t, WriteIsCurrent DEF REVIEWABLE
    <2> QED BY <1>i, <1>2, <2>1, ReviewerWrites
<1>3. ASSUME NEW d \in Deliverer, DeliveryStep(d) PROVE status' = status
    <2>1. ~(CommitDelivery(d) \/ MarkDelivered(d))
        BY <1>i, <1>x, <1>t
           DEF StillOpen, PassUnderWay, DELIVERY_PREDECESSORS, CommitDelivery, MarkDelivered
    <2> QED BY <1>i, <1>3, <2>1, DelivererWrites
<1>4. CASE NobodysStep
    BY <1>i, <1>4, NobodyWrites DEF NeverInterrupted, Undisturbed
<1> QED BY <1>1, <1>2, <1>3, <1>4 DEF NobodysStep

\* The state machine's promise, which no write asks it about: what keeps a run
\* that has ended where it is are the version, the gate's status and the order of
\* the writes, and they do so for one pass at a time.  With two, or with
\* reconciliation, they do not.
THEOREM EndedIsEnded ==
    Spec => [][ Undisturbed => (exists' /\ status \in TERMINAL => status' = status) ]_vars
<1>1. DeskInv /\ EndInv /\ [Next]_vars
        => [ Undisturbed => (exists' /\ status \in TERMINAL => status' = status) ]_vars
    BY EndedRunStaysSo
<1> QED BY <1>1, InitDesk, NextDesk, InitEnd, NextEnd, PTL DEF Spec

-----------------------------------------------------------------------------
(* A row for a fault *)

\* A retry is not of an approved run, a demo sends nothing, and nothing is
\* appended to the CSV file by the way of the sheets.
InOrder(d) ==
    /\ dpc[d] = "idle" => dkind[d] = "approved"
    /\ demo => dpc[d] \notin Sending \cup {"card", "mark"}
    /\ dpc[d] = "append" => NextSink(d) # CsvSink
    /\ exists /\ dkind[d] = "retry" => status # "APPROVED"

\* The pass has written the CSV file and is about to say so.
Recording(d) == dpc[d] = "record" /\ dok[d] /\ NextSink(d) = CsvSink

\* The CSV file has a record, and the pass is past it.
BehindCsv(d) ==
    /\ exists => CsvSink \in records
    /\ exists /\ dpc[d] = "idle" => status # "APPROVED"
    /\ dpc[d] # "load"
    /\ dpc[d] = "gate" => dkind[d] = "retry"
    /\ dpc[d] \in Sending => CsvSink \notin dtodo[d]

\* Only a fault can add another row: the CSV file is never read back, and owes it
\* to the record; the sheets are.
IsSpent(s) ==
    IF s = CsvSink
    THEN \A d \in Deliverer : Recording(d) \/ BehindCsv(d)
    ELSE rows[s] # << >> /\ \A d \in Deliverer : dpc[d] = "append" => NextSink(d) # s

RowBound(s) == Len(rows[s]) <= faults \/ (Len(rows[s]) = faults + 1 /\ IsSpent(s))

RowInv ==
    /\ demo => \A s \in Sink : rows[s] = << >>
    /\ \A d \in Deliverer : InOrder(d)
    /\ \A s \in Sink : RowBound(s)

LEMMA InitRow == Init => RowInv
<1> SUFFICES ASSUME Init PROVE RowInv
    OBVIOUS
<1>1. \A s \in Sink : rows[s] = << >> /\ Len(rows[s]) = 0
    BY DEF Init, DeliveryInit
<1>2. faults = 0
    BY DEF Init, DeliveryInit
<1>3. \A d \in Deliverer : InOrder(d)
    BY DEF Init, DeliveryInit, InOrder, Sending
<1> QED BY <1>1, <1>2, <1>3 DEF RowInv, RowBound

\* Once a run is answered or being sent, only a pass changes its status, but for
\* an interruption.
LEMMA OthersDoNotApprove ==
    ASSUME ComposeIsSafe, DeskInv, [Next]_vars, exists', Answers # {} \/ PassUnderWay,
           \A d \in Deliverer : ~DeliveryStep(d)
    PROVE  exists /\ records \subseteq records' /\ (status' = status \/ status' = "INTERRUPTED")
<1>i. TypeInv /\ ClosingInv /\ CopyInv /\ DecisionInv
    BY DEF DeskInv
<1>x. exists /\ records \subseteq records'
    BY <1>i, NothingIsTakenBack
<1>1. ~WorkerMoves
    BY <1>i, <1>x
       DEF CopyInv, Untouched, Answers, PassUnderWay, ComposeIsSafe, AloneAtWork, Live,
           WorkerMoves, WorkerStep, Execute, AppendEvent, CommitTier, CommitStatus,
           RefuseToSpend, RecordBudgetStop
<1>2. ASSUME NEW r \in Reviewer, Reviews(r) PROVE status' = status
    <2>1. ~WriteRow(r)
        BY <1>i, <1>x, WriteIsCurrent DEF DecisionInv, AnsweredOnce
    <2> QED BY <1>i, <1>2, <2>1, ReviewerWrites
<1>3. CASE NobodysStep
    BY <1>i, <1>3, NobodyWrites
<1> QED BY <1>x, <1>1, <1>2, <1>3 DEF NobodysStep

\* What everybody but the passes leaves alone.
LEMMA OthersKeepSinks ==
    ASSUME TypeInv, [Next]_vars, \A d \in Deliverer : ~DeliveryStep(d)
    PROVE  UNCHANGED << demo, passVars, rows, faults >>
<1>1. CASE WorkerMoves
    BY <1>1 DEF WorkerMoves, deliveryVars, sinkVars
<1>2. ASSUME NEW r \in Reviewer, Reviews(r) PROVE UNCHANGED << demo, passVars, rows, faults >>
    BY <1>2 DEF Reviews, deliveryVars, sinkVars
<1>3. CASE NobodysStep
    BY <1>3, NobodyWrites DEF deliveryVars, sinkVars
<1> QED BY <1>1, <1>2, <1>3 DEF NobodysStep

LEMMA OthersKeepRowInv ==
    ASSUME ComposeIsSafe, DeskInv, GateInv, RowInv, [Next]_vars,
           \A d \in Deliverer : ~DeliveryStep(d)
    PROVE  RowInv'
<1>u. UNCHANGED << demo, passVars, rows, faults >>
    BY OthersKeepSinks DEF DeskInv
<1>t. /\ CsvSink \in Sink /\ faults \in Nat
      /\ \A s \in Sink : rows[s] \in Seq(Payload)
    BY DeliveryAssumption DEF DeskInv, TypeInv, TypeOK, DeliveryTypeOK
<1>1. ASSUME NEW d \in Deliverer PROVE InOrder(d)'
    <2>1. ASSUME exists', dkind[d] = "retry" PROVE status' # "APPROVED"
        <3>1. PassUnderWay
            BY <2>1 DEF RowInv, InOrder, PassUnderWay
        <3>2. exists /\ (status' = status \/ status' = "INTERRUPTED")
            BY <2>1, <3>1, OthersDoNotApprove
        <3> QED BY <2>1, <3>2 DEF RowInv, InOrder
    <2>2. NextSink(d)' = NextSink(d)
        BY <1>u DEF passVars, NextSink
    <2> QED BY <1>u, <2>1, <2>2 DEF RowInv, InOrder, passVars
<1>2. ASSUME NEW s \in Sink PROVE RowBound(s)'
    <2>1. CASE Len(rows[s]) <= faults
        BY <1>u, <2>1 DEF RowBound
    <2>2. CASE Len(rows[s]) = faults + 1 /\ IsSpent(s) /\ s # CsvSink
        <3>1. IsSpent(s)'
            BY <1>u, <2>2 DEF IsSpent, passVars, NextSink
        <3> QED BY <1>u, <2>2, <3>1 DEF RowBound
    <2>3. CASE Len(rows[s]) = faults + 1 /\ IsSpent(s) /\ s = CsvSink
        <3>1. rows[CsvSink] # << >>
            BY <1>t, <2>3
        <3>2. ASSUME exists'
              PROVE  exists /\ records \subseteq records'
                     /\ (status' = status \/ status' = "INTERRUPTED")
            <4>1. exists
                BY <3>2, NothingIsTakenBack DEF DeskInv
            <4>2. Answers # {}
                BY <1>t, <3>1, <4>1 DEF GateInv, ApprovalGate, Approved, Answers
            <4> QED BY <3>2, <4>2, OthersDoNotApprove
        <3>3. ASSUME NEW d \in Deliverer PROVE Recording(d)' \/ BehindCsv(d)'
            <4>1. Recording(d) \/ BehindCsv(d)
                BY <2>3 DEF IsSpent
            <4>2. CASE Recording(d)
                BY <1>u, <4>2 DEF passVars, Recording, NextSink
            <4>3. CASE BehindCsv(d)
                BY <1>u, <3>2, <4>3 DEF passVars, BehindCsv
            <4> QED BY <4>1, <4>2, <4>3
        <3>4. IsSpent(s)'
            BY <2>3, <3>3 DEF IsSpent
        <3> QED BY <1>u, <2>3, <3>4 DEF RowBound
    <2> QED BY <2>1, <2>2, <2>3 DEF RowInv, RowBound
<1> QED BY <1>u, <1>1, <1>2 DEF RowInv

-----------------------------------------------------------------------------
(* The pass itself *)

LEMMA OwnOrder ==
    ASSUME TypeInv, NEW d \in Deliverer, DeliveryStep(d), InOrder(d)
    PROVE  InOrder(d)'
<1>t. DeliveryTypeOK
    BY DEF TypeInv, TypeOK
<1>w. /\ exists' = exists
      /\ status' = status \/ CommitDelivery(d) \/ MarkDelivered(d)
    BY DelivererWrites
<1>e. ASSUME EndPass(d), UNCHANGED demo PROVE InOrder(d)'
    BY <1>t, <1>e DEF EndPass, Goto, InOrder, Sending, DeliveryTypeOK
<1>s. dpc[d] \notin {"commit", "mark"} => status' = status
    BY <1>w DEF CommitDelivery, MarkDelivered
<1> USE DEF InOrder, Sending, Goto, DeliveryTypeOK
<1>1. CASE ListApproved(d)
    BY <1>t, <1>w, <1>s, <1>1 DEF ListApproved
<1>2. CASE LoadState(d)
    BY <1>t, <1>w, <1>s, <1>e, <1>2 DEF LoadState
<1>3. CASE ListPending(d)
    BY <1>t, <1>w, <1>s, <1>3 DEF ListPending
<1>4. CASE GateApproved(d)
    BY <1>t, <1>w, <1>s, <1>4 DEF GateApproved
<1>5. CASE GateRetry(d)
    BY <1>t, <1>w, <1>s, <1>e, <1>5 DEF GateRetry
<1>6. CASE BuildPayload(d) \/ SkipUnhealthy(d)
    BY <1>t, <1>w, <1>s, <1>6 DEF BuildPayload, SkipUnhealthy
<1>7. CASE SendCsv(d)
    BY <1>t, <1>w, <1>s, <1>7 DEF SendCsv, Answered
<1>8. CASE ReadKeys(d)
    <2>1. NextSink(d) # CsvSink /\ NextSink(d)' = NextSink(d)
        BY <1>8 DEF ReadKeys, NextSink
    <2> QED BY <1>t, <1>w, <1>s, <1>8, <2>1 DEF ReadKeys, Answered
<1>9. CASE AppendRow(d)
    <2>1. NextSink(d)' = NextSink(d)
        BY <1>9 DEF AppendRow, NextSink
    <2> QED BY <1>t, <1>w, <1>s, <1>9, <2>1 DEF AppendRow, TryAgain, Answered
<1>10. CASE Record(d)
    BY <1>t, <1>w, <1>s, <1>e, <1>10 DEF Record
<1>11. CASE Conclude(d) \/ WriteCard(d)
    BY <1>t, <1>w, <1>s, <1>11 DEF Conclude, WriteCard
<1>12. CASE AppendDeliverEvent(d) \/ ConcludeRetry(d)
    BY <1>t, <1>w, <1>s, <1>e, <1>12 DEF AppendDeliverEvent, ConcludeRetry
<1>13. CASE CommitDelivery(d) \/ MarkDelivered(d) \/ DelivererCrash(d)
    BY <1>e, <1>13 DEF CommitDelivery, MarkDelivered, DelivererCrash
<1> QED BY <1>1, <1>2, <1>3, <1>4, <1>5, <1>6, <1>7, <1>8, <1>9, <1>10, <1>11, <1>12, <1>13
        DEF DeliveryStep, Delivers, DelivererDies, PassStep

\* A step adds at most one row, to the sink in hand, and is answered or pays a fault.
LEMMA PutsOne ==
    ASSUME TypeInv, NEW d \in Deliverer, DeliveryStep(d), InOrder(d), NEW s \in Sink
    PROVE  /\ faults' \in {faults, faults + 1}
           /\ \/ rows'[s] = rows[s]
              \/ /\ Len(rows'[s]) = Len(rows[s]) + 1 /\ dtodo'[d] = dtodo[d] /\ NextSink(d) = s
                 /\ dtodo[d] # {}
                 /\ dpc[d] = IF s = CsvSink THEN "send" ELSE "append"
                 /\ faults' = faults => dpc'[d] = "record" /\ dok'[d]
<1>t. DeliveryTypeOK /\ SinkInHand
    BY DEF TypeInv, TypeOK
<1>l. Len(Append(rows[s], dpayload[d])) = Len(rows[s]) + 1
    BY <1>t DEF DeliveryTypeOK
<1>n. faults \in Nat /\ faults + 1 # faults
    BY <1>t DEF DeliveryTypeOK
<1>1. CASE SendCsv(d)
    BY <1>t, <1>l, <1>n, <1>1 DEF SendCsv, Put, Fault, Answered, Goto, DeliveryTypeOK
<1>2. CASE AppendRow(d)
    <2>1. dpc[d] = "append" /\ NextSink(d) # CsvSink /\ dtodo' = dtodo /\ dtodo[d] # {}
        BY <1>t, <1>2 DEF AppendRow, InOrder, SinkInHand
    <2>2. /\ faults' \in {faults, faults + 1}
          /\ \/ rows' = rows
             \/ /\ Put(d, NextSink(d))
                /\ faults' = faults => dpc'[d] = "record" /\ dok'[d]
        BY <1>t, <1>n, <1>2 DEF AppendRow, Fault, Answered, Goto, DeliveryTypeOK
    <2> QED BY <1>t, <1>l, <2>1, <2>2 DEF Put, DeliveryTypeOK
<1>3. CASE ~(SendCsv(d) \/ AppendRow(d))
    BY <1>3
       DEF DeliveryStep, Delivers, DelivererDies, PassStep, DelivererCrash, ListApproved,
           LoadState, ListPending, GateApproved, GateRetry, BuildPayload, SkipUnhealthy,
           ReadKeys, Record, Conclude, WriteCard, AppendDeliverEvent, CommitDelivery,
           ConcludeRetry, MarkDelivered, sinkVars, Fault
<1> QED BY <1>1, <1>2, <1>3

\* The sheet that holds the run is not appended to again: its keys are read first.
LEMMA OwnSheet ==
    ASSUME TypeInv, NEW d \in Deliverer, DeliveryStep(d), NEW s \in Sink \ {CsvSink},
           rows[s] # << >>, dpc[d] = "append" => NextSink(d) # s, dpc'[d] = "append"
    PROVE  NextSink(d)' # s
<1>t. DeliveryTypeOK
    BY DEF TypeInv, TypeOK
<1>1. ReadKeys(d) \/ AppendRow(d)
    BY <1>t
       DEF DeliveryStep, Delivers, DelivererDies, PassStep, DelivererCrash, ListApproved,
           LoadState, ListPending, GateApproved, GateRetry, BuildPayload, SkipUnhealthy,
           SendCsv, Answered, Record, Conclude, WriteCard, AppendDeliverEvent, CommitDelivery,
           ConcludeRetry, MarkDelivered, Goto, EndPass, DeliveryTypeOK
<1>2. NextSink(d)' = NextSink(d)
    <2>1. dtodo' = dtodo
        BY <1>1 DEF ReadKeys, AppendRow
    <2> QED BY <2>1 DEF NextSink
<1>3. CASE ReadKeys(d)
    BY <1>t, <1>2, <1>3 DEF ReadKeys, Answered, Goto, DeliveryTypeOK
<1>4. CASE AppendRow(d)
    BY <1>2, <1>4 DEF AppendRow
<1> QED BY <1>1, <1>3, <1>4

\* The CSV file that holds the run is not written again: the node comes to it once,
\* and a retry leaves it out for its record.
LEMMA OwnSpent ==
    ASSUME TypeInv, DecisionInv, NEW d \in Deliverer, DeliveryStep(d), InOrder(d), ~demo,
           faults' = faults, exists => records \subseteq records',
           Recording(d) \/ BehindCsv(d)
    PROVE  (Recording(d) \/ BehindCsv(d))'
<1>t. DeliveryTypeOK /\ SinkInHand /\ faults \in Nat /\ CsvSink \in Sink
    BY DeliveryAssumption DEF TypeInv, TypeOK, DeliveryTypeOK
<1>w. /\ exists' = exists
      /\ status' = status \/ CommitDelivery(d) \/ MarkDelivered(d)
    BY DelivererWrites
<1>s. dpc[d] \notin {"commit", "mark"} => status' = status
    BY <1>w DEF CommitDelivery, MarkDelivered
<1>n. dpc[d] \in Sending /\ dtodo[d] # {} /\ ~Recording(d) => NextSink(d) # CsvSink
    BY <1>t, NextSinkIsToDo DEF BehindCsv
<1>f. ~Fault
    BY <1>t DEF Fault
<1> USE DEF Sending, Goto, DeliveryTypeOK
<1>e. ASSUME EndPass(d), exists => CsvSink \in records /\ status' # "APPROVED"
      PROVE  BehindCsv(d)'
    BY <1>t, <1>w, <1>e DEF EndPass, BehindCsv
<1>1. CASE ListApproved(d) \/ LoadState(d)
    BY <1>1 DEF ListApproved, LoadState, Recording, BehindCsv
<1>2. CASE ListPending(d)
    BY <1>t, <1>w, <1>s, <1>2 DEF ListPending, Recording, BehindCsv
<1>3. CASE GateApproved(d)
    BY <1>t, <1>w, <1>s, <1>3 DEF GateApproved, Recording, BehindCsv
<1>4. CASE GateRetry(d)
    <2>1. dpc[d] = "gate" /\ dkind[d] = "retry" /\ status' = status
        BY <1>s, <1>4 DEF GateRetry
    <2>2. BehindCsv(d)
        BY <2>1 DEF Recording
    <2>3. CASE EndPass(d)
        BY <1>e, <2>1, <2>2, <2>3 DEF BehindCsv, InOrder
    <2>4. CASE GateOpen(d) /\ ~EndPass(d)
        <3>1. exists
            BY <2>4 DEF GateOpen, LatestApproves, DecisionInv
        <3>2. /\ dtodo'[d] = Sink \ records /\ dpc'[d] \in {"mark", "build"}
            BY <1>t, <1>4, <2>4 DEF GateRetry, Outstanding
        <3> QED BY <1>w, <2>2, <3>1, <3>2 DEF BehindCsv
    <2> QED BY <1>4, <2>3, <2>4 DEF GateRetry
<1>5. CASE BuildPayload(d) \/ SkipUnhealthy(d)
    BY <1>t, <1>w, <1>s, <1>5 DEF BuildPayload, SkipUnhealthy, Recording, BehindCsv
<1>6. CASE SendCsv(d)
    BY <1>n, <1>6 DEF SendCsv, Recording
<1>7. CASE ReadKeys(d)
    BY <1>t, <1>w, <1>s, <1>7 DEF ReadKeys, Answered, Recording, BehindCsv
<1>8. CASE AppendRow(d)
    BY <1>t, <1>w, <1>s, <1>8 DEF AppendRow, TryAgain, Answered, Recording, BehindCsv
<1>9. CASE Record(d)
    <2>1. CASE ~exists
        BY <1>e, <1>9, <2>1 DEF Record
    <2>2. CASE exists
        <3>1. /\ dpc'[d] = "send" /\ dtodo'[d] = dtodo[d] \ {NextSink(d)}
              /\ dok[d] => records' = records \cup {NextSink(d)}
            BY <1>t, <1>9, <2>2 DEF Record, RecordDelivery
        <3>2. CsvSink \in records' /\ CsvSink \notin dtodo'[d]
            BY <1>9, <2>2, <3>1 DEF Record, Recording, BehindCsv
        <3> QED BY <3>1, <3>2 DEF BehindCsv
    <2> QED BY <2>1, <2>2
<1>10. CASE Conclude(d) \/ WriteCard(d)
    BY <1>t, <1>w, <1>s, <1>10 DEF Conclude, WriteCard, Recording, BehindCsv
<1>11. CASE AppendDeliverEvent(d)
    <2>1. CASE ~exists
        BY <1>e, <1>11, <2>1 DEF AppendDeliverEvent
    <2>2. CASE exists
        BY <1>t, <1>w, <1>s, <1>11, <2>2 DEF AppendDeliverEvent, Recording, BehindCsv
    <2> QED BY <2>1, <2>2
<1>12. CASE ConcludeRetry(d)
    <2>1. dpc[d] = "send" /\ dkind[d] = "retry" /\ status' = status
        BY <1>s, <1>12 DEF ConcludeRetry
    <2>2. BehindCsv(d)
        BY <2>1 DEF Recording
    <2>3. CASE EndPass(d)
        BY <1>e, <2>1, <2>2, <2>3 DEF BehindCsv, InOrder
    <2>4. CASE ~EndPass(d)
        BY <1>t, <1>w, <1>s, <1>12, <2>2, <2>4 DEF ConcludeRetry, BehindCsv
    <2> QED BY <2>3, <2>4
<1>13. CASE CommitDelivery(d)
    <2>1. /\ dpc[d] = "commit" /\ EndPass(d)
          /\ exists => status'
                = NextStatus("DELIVER", dresult[d] = "FAILED", DeliverProposes(d), dstatus[d])
        BY <1>13 DEF CommitDelivery, SetStatus, MarkNodeComplete
    <2>2. exists => status' # "APPROVED"
        BY <2>1 DEF NextStatus, DeliverProposes, FailureStatus, SuccessStatus
    <2> QED BY <1>e, <2>1, <2>2 DEF Recording, BehindCsv
<1>14. CASE MarkDelivered(d)
    BY <1>e, <1>14 DEF MarkDelivered, SetStatus, Recording, BehindCsv
<1>15. CASE DelivererCrash(d)
    BY <1>f, <1>15 DEF DelivererCrash
<1> QED BY <1>1, <1>2, <1>3, <1>4, <1>5, <1>6, <1>7, <1>8, <1>9, <1>10, <1>11, <1>12, <1>13,
           <1>14, <1>15
        DEF DeliveryStep, Delivers, DelivererDies, PassStep

\* One step of the one pass keeps the bound of one sink.
LEMMA PassKeepsBound ==
    ASSUME OnePass, ComposeIsSafe, DeskInv, RowInv, [Next]_vars,
           NEW d \in Deliverer, DeliveryStep(d), NEW s \in Sink
    PROVE  RowBound(s)'
<1>t. /\ TypeInv /\ DecisionInv /\ DeliveryTypeOK /\ InOrder(d)
      /\ faults \in Nat /\ rows[s] \in Seq(Payload) /\ Len(rows[s]) \in Nat
    BY DEF DeskInv, RowInv, TypeInv, TypeOK, DeliveryTypeOK
<1>o. \A c \in Deliverer : c = d
    BY DEF OnePass
<1>p. /\ faults' \in {faults, faults + 1}
      /\ \/ rows'[s] = rows[s]
         \/ /\ Len(rows'[s]) = Len(rows[s]) + 1 /\ dtodo'[d] = dtodo[d] /\ NextSink(d) = s
            /\ dtodo[d] # {}
            /\ dpc[d] = IF s = CsvSink THEN "send" ELSE "append"
            /\ faults' = faults => dpc'[d] = "record" /\ dok'[d]
    BY <1>t, PutsOne
<1>1. CASE rows'[s] = rows[s]
    <2>1. CASE Len(rows[s]) <= faults \/ faults' = faults + 1
        BY <1>t, <1>p, <1>1, <2>1 DEF RowInv, RowBound
    <2>2. CASE Len(rows[s]) = faults + 1 /\ IsSpent(s) /\ faults' = faults
        <3>1. rows[s] # << >>
            BY <1>t, <2>2
        <3>2. ~demo
            BY <3>1 DEF RowInv
        <3>3. exists => records \subseteq records'
            <4>1. exists' = exists
                BY <1>t, DelivererWrites
            <4> QED BY <1>t, <4>1, NothingIsTakenBack
        <3>4. IsSpent(s)'
            <4>1. CASE s = CsvSink
                <5>1. Recording(d) \/ BehindCsv(d)
                    BY <2>2, <4>1 DEF IsSpent
                <5>2. (Recording(d) \/ BehindCsv(d))'
                    BY <1>t, <2>2, <3>2, <3>3, <5>1, OwnSpent
                <5> QED BY <1>o, <4>1, <5>2 DEF IsSpent
            <4>2. CASE s # CsvSink
                <5>1. dpc[d] = "append" => NextSink(d) # s
                    BY <2>2, <4>2 DEF IsSpent
                <5>2. dpc'[d] = "append" => NextSink(d)' # s
                    BY <1>t, <3>1, <4>2, <5>1, OwnSheet
                <5> QED BY <1>o, <1>1, <3>1, <4>2, <5>2 DEF IsSpent
            <4> QED BY <4>1, <4>2
        <3> QED BY <1>1, <2>2, <3>4 DEF RowBound
    <2> QED BY <1>p, <2>1, <2>2 DEF RowInv, RowBound
<1>2. CASE rows'[s] # rows[s]
    <2>1. NextSink(d) = s /\ dtodo[d] # {} /\ dpc[d] = IF s = CsvSink THEN "send" ELSE "append"
        BY <1>p, <1>2
    <2>2. ~IsSpent(s)
        <3>1. CASE s = CsvSink
            <4>1. CsvSink \in dtodo[d]
                BY <1>t, <2>1, <3>1, NextSinkIsToDo
            <4> QED BY <2>1, <3>1, <4>1 DEF IsSpent, Recording, BehindCsv, Sending
        <3>2. CASE s # CsvSink
            BY <2>1, <3>2 DEF IsSpent
        <3> QED BY <3>1, <3>2
    <2>3. Len(rows[s]) <= faults
        BY <2>2 DEF RowInv, RowBound
    <2>4. CASE faults' = faults + 1
        BY <1>t, <1>p, <1>2, <2>3, <2>4 DEF RowBound
    <2>5. CASE faults' = faults
        <3>1. dpc'[d] = "record" /\ dok'[d] /\ NextSink(d)' = s
            BY <1>p, <1>2, <2>1, <2>5 DEF NextSink
        <3>2. Len(rows'[s]) = Len(rows[s]) + 1
            BY <1>p, <1>2
        <3>3. rows'[s] # << >>
            BY <1>t, <3>2
        <3>4. IsSpent(s)'
            BY <1>o, <3>1, <3>3 DEF IsSpent, Recording
        <3> QED BY <1>t, <2>3, <2>5, <3>2, <3>4 DEF RowBound
    <2> QED BY <1>p, <2>4, <2>5
<1> QED BY <1>1, <1>2

LEMMA DemoIsSettled ==
    ASSUME NEW d \in Deliverer, DeliveryStep(d)
    PROVE  demo' = demo
    BY DEF DeliveryStep, Delivers, DelivererDies, PassStep, DelivererCrash, ListApproved,
           LoadState, ListPending, GateApproved, GateRetry, BuildPayload, SkipUnhealthy,
           SendCsv, ReadKeys, AppendRow, Record, Conclude, WriteCard, AppendDeliverEvent,
           CommitDelivery, ConcludeRetry, MarkDelivered

LEMMA NextGateOfDesk == DeskInv /\ GateInv /\ [Next]_vars => GateInv'
    BY NextGate DEF DeskInv

LEMMA NextRow ==
    /\ DeskInv /\ GateInv /\ (OnePass /\ ComposeIsSafe => RowInv) /\ [Next]_vars
    => (OnePass /\ ComposeIsSafe => RowInv)'
<1> SUFFICES ASSUME OnePass, ComposeIsSafe, DeskInv, GateInv, RowInv, [Next]_vars
             PROVE  RowInv'
    BY DEF OnePass, ComposeIsSafe
<1>1. ASSUME NEW d \in Deliverer, DeliveryStep(d) PROVE RowInv'
    <2>1. TypeInv /\ InOrder(d)
        BY DEF DeskInv, RowInv
    <2>2. \A c \in Deliverer : c = d
        BY DEF OnePass
    <2>3. \A c \in Deliverer : InOrder(c)'
        BY <1>1, <2>1, <2>2, OwnOrder
    <2>4. \A s \in Sink : RowBound(s)'
        BY <1>1, PassKeepsBound
    <2>5. ASSUME demo', NEW s \in Sink PROVE rows'[s] = << >>
        <3>1. demo /\ rows[s] = << >>
            BY <1>1, <2>1, <2>5, DemoIsSettled DEF RowInv
        <3>2. dpc[d] \notin {"send", "append"}
            BY <2>1, <3>1 DEF InOrder, Sending
        <3>3. rows'[s] = rows[s]
            BY <1>1, <2>1, <3>2, PutsOne
        <3> QED BY <3>1, <3>3
    <2> QED BY <2>3, <2>4, <2>5 DEF RowInv
<1>2. CASE \A d \in Deliverer : ~DeliveryStep(d)
    BY <1>2, OthersKeepRowInv
<1> QED BY <1>1, <1>2

\* With one process sending, a destination is given a run once, and once more at
\* most for each thing that went wrong: a retry, a restart, a deletion in the
\* middle of a pass, another decision on a stale page add nothing by themselves.
THEOREM OnceAndOnceMorePerFault ==
    Spec => [](OnePass /\ ComposeIsSafe => OneRowPerFault)
<1>1. Init => (OnePass /\ ComposeIsSafe => RowInv)
    BY InitRow
<1>2. DeskInv /\ (OnePass /\ ComposeIsSafe => RowInv)
        => (OnePass /\ ComposeIsSafe => OneRowPerFault)
    <2> SUFFICES ASSUME DeskInv, RowInv PROVE OneRowPerFault
        OBVIOUS
    <2>1. ASSUME NEW s \in Sink PROVE Len(rows[s]) <= 1 + faults
        <3>1. Len(rows[s]) \in Nat /\ faults \in Nat
            BY DEF DeskInv, TypeInv, TypeOK, DeliveryTypeOK
        <3> QED BY <3>1 DEF RowInv, RowBound
    <2> QED BY <2>1 DEF OneRowPerFault
<1> QED BY <1>1, <1>2, InitDesk, NextDesk, InitGate, NextGateOfDesk, NextRow, PTL DEF Spec

=============================================================================
