-------------------------------- MODULE Desk --------------------------------
(***************************************************************************)
(* The whole desk for one run: the worker, the housekeeping jobs, the      *)
(* reviewers and the delivery passes, interleaved over the rows of         *)
(* RunStore.  What the system promises about a run is stated here.         *)
(***************************************************************************)
EXTENDS Runner, Housekeeping, Review, Delivery, FiniteSets

vars == << storeVars, workerVars, housekeepingVars, reviewVars, deliveryVars >>

Init ==
    /\ StoreInit
    /\ WorkerInit
    /\ HousekeepingInit
    /\ ReviewInit
    /\ DeliveryInit

\* The run has no recent event: its worker is inside a node (a model call, a
\* laptop asleep), or gone.
Quiet == wpc \in {"execute", "event", "ended", "dead"}

WorkerMoves == WorkerStep /\ UNCHANGED << housekeepingVars, reviewVars, deliveryVars >>

WorkerDies == WorkerCrash /\ UNCHANGED << housekeepingVars, reviewVars, deliveryVars >>

Reconciles == ReconcileStep(Quiet) /\ UNCHANGED << workerVars, reviewVars, deliveryVars >>

Removes == RemovalStep /\ UNCHANGED << workerVars, reviewVars, deliveryVars >>

Reviews(r) == ReviewStep(r) /\ UNCHANGED << workerVars, housekeepingVars, deliveryVars >>

Delivers(d) == PassStep(d) /\ UNCHANGED << workerVars, housekeepingVars, reviewVars >>

DelivererDies(d) ==
    DelivererCrash(d) /\ UNCHANGED << workerVars, housekeepingVars, reviewVars >>

SinksRebuilt == RebuildSinks /\ UNCHANGED << workerVars, housekeepingVars, reviewVars >>

Next ==
    \/ WorkerMoves
    \/ WorkerDies
    \/ Reconciles
    \/ Removes
    \/ \E r \in Reviewer : Reviews(r)
    \/ \E d \in Deliverer : Delivers(d) \/ DelivererDies(d)
    \/ SinksRebuilt

Spec == Init /\ [][Next]_vars

(***************************************************************************)
(* Fairness.  A worker thread that is alive keeps running; reconciliation  *)
(* is run again at every start; a submission is one request and runs to    *)
(* its end; delivery passes are asked for again, by a schedule or a        *)
(* button, and each runs to its end; sinks are rebuilt at the next start.  *)
(* Opening a page, deciding, deleting and every crash or fault are never   *)
(* owed.                                                                   *)
(***************************************************************************)
Submits(r) == SubmissionStep(r) /\ UNCHANGED << workerVars, housekeepingVars, deliveryVars >>

Fairness ==
    /\ WF_vars(WorkerMoves)
    /\ WF_vars(Reconciles)
    /\ \A r \in Reviewer : WF_vars(Submits(r))
    /\ \A d \in Deliverer : WF_vars(Delivers(d))
    /\ WF_vars(SinksRebuilt)

FairSpec == Spec /\ Fairness

-----------------------------------------------------------------------------
(* Safety *)

\* Every variable keeps to the values the code can give it.
TypeOK ==
    /\ StoreTypeOK
    /\ WorkerTypeOK
    /\ HousekeepingTypeOK
    /\ ReviewTypeOK
    /\ DeliveryTypeOK

Approved == \E e \in decisions : e.action = "APPROVE"

\* The approval gate (deliver.py refuse_reason): whatever pass sent it and
\* whatever the status column said, no destination holds a row of a run for
\* which no approval was ever persisted, and no calibration card was made of it.
ApprovalGate ==
    exists /\ (cards > 0 \/ \E s \in Sink : rows[s] # << >>) => Approved

\* "Delivery means everywhere it was meant to go" (deliver.py): a run is called
\* delivered only once every sink has a record saying so, across partial
\* failures, crashes, retries and concurrent passes.
DeliveredEverywhere == exists /\ status = "DELIVERED" => records = Sink

\* A record saying DELIVERED is never written for a row that is not there, so
\* that a retry may skip that sink.
RecordHasRow == \A s \in records : rows[s] # << >>

\* A run whose documents were not clean never reaches a reviewer as an ordinary
\* one (review.py reasons_to_flag), whichever nodes failed or degraded since.
UncleanIsFlagged == exists /\ tier # "CLEAN" => status # "READY_FOR_REVIEW"

\* While nothing can reopen a decided run, two reviewers racing over the same
\* page leave one decision (submit_review.py: a stale write is refused).
OneDecision == Cardinality(decisions) <= 1

\* The decision rows and the status column tell the same story, although they
\* are written by separate transactions.
DecisionMatchesStatus ==
    exists => \A e \in decisions :
        status \in CASE e.action = "APPROVE" ->
                            {"APPROVED", "DELIVERY_PENDING_RETRY", "DELIVERED"}
                     [] e.action = "REJECT"       -> {"REJECTED"}
                     [] e.action = "REQUEST_INFO" -> {"NEEDS_INFO"}

\* A run reaches a reviewer as an ordinary one only with every node behind it: a
\* node that failed and was continued past degrades the run (registry.py Node).
FailedNodeIsFlagged ==
    exists /\ status = "READY_FOR_REVIEW" => NODES_BEFORE_REVIEW \subseteq completed

\* With one process sending, a destination is given the run once, and once more
\* at most for each fault along the way (retry_deliveries.py: only the sinks
\* that failed are retried).
OneRowPerFault == \A s \in Sink : Len(rows[s]) <= 1 + faults

-----------------------------------------------------------------------------
(* What a step may never do *)

\* No write of the row loses what another process committed to it: a node
\* marked complete stays so, and so does a tier the scanner raised
\* (repositories.py update writes back a whole copy of the row).
NoLostWork ==
    [][ exists' => /\ completed \subseteq completed'
                   /\ tier # "CLEAN" => tier' = tier ]_vars

\* "Terminal means terminal" (state_machine.py).
TerminalIsFinal == [][ exists' /\ status \in TERMINAL => status' = status ]_vars

\* "Never touches a run a reviewer could still act on" (recovery.py).
ReconcileSparesReviewable ==
    [][ MarkInterrupted /\ exists => status \notin REVIEWABLE ]_vars

-----------------------------------------------------------------------------
(* The desk implements the gate *)

\* The passes that are through the gate and may still send or close the run.
MaySend(d) ==
    \/ dpc[d] \in {"build", "send", "append", "record", "card", "mark"}
    \/ dpc[d] \in {"event", "commit"} /\ dresult[d] # "FAILED" /\ ~demo

Gate == INSTANCE ReviewGate WITH
            Destination <- Sink,
            approved    <- Approved,
            open        <- \E d \in Deliverer : MaySend(d),
            sent        <- {s \in Sink : rows[s] # << >>},
            closed      <- exists /\ status = "DELIVERED"

\* Every behaviour of the desk is one ReviewGate allows: nothing is sent but by
\* a pass opened under a persisted approval, nothing is closed but when the
\* package is everywhere (deliver.py, retry_deliveries.py).
GateRefinement == Gate!GateSpec

-----------------------------------------------------------------------------
(* Liveness *)

\* No run stays in a working state for ever, whatever dies (repositories.py
\* find_stale: a run left processing is a queue entry nobody can clear).
WorkingRunIsCleared ==
    (exists /\ status \in IN_FLIGHT) ~> (~exists \/ status \notin IN_FLIGHT)

\* An approval that was persisted is delivered in the end, when the faults of
\* the destinations come to an end (deliver.py: saved, retried, nothing lost).
ApprovedIsDelivered ==
    (exists /\ ~demo /\ Approved) ~> (~exists \/ status = "DELIVERED")

\* A run that reconciliation interrupted is resumed (recovery.py, and
\* repositories.py find_stale: from which they resume at the last committed
\* node).
InterruptedResumes ==
    (exists /\ status = "INTERRUPTED") ~> (~exists \/ status # "INTERRUPTED")

=============================================================================
