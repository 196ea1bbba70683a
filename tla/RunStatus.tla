----------------------------- MODULE RunStatus -----------------------------
(***************************************************************************)
(* The statuses of a run and the moves between them, and the nodes of the  *)
(* pipeline with the status each one leaves behind.                        *)
(*                                                                         *)
(* domain/state_machine.py and pipeline/registry.py are tables, and they   *)
(* are modelled as tables: functions from names to names.                  *)
(***************************************************************************)
EXTENDS Naturals, Sequences

-----------------------------------------------------------------------------
(* domain/state_machine.py *)

\* The permitted moves of a run.
ALLOWED ==
    [ CREATED                |-> {"INTAKE_OK", "FAILED_TERMINAL"},
      INTAKE_OK              |-> {"EXTRACTED", "FAILED_TERMINAL"},
      EXTRACTED              |-> {"SANITIZED", "FAILED_TERMINAL"},
      SANITIZED              |-> {"STRUCTURED", "QUARANTINED"},
      STRUCTURED             |-> {"CALIBRATED"},
      CALIBRATED             |-> {"ASSESSED"},
      ASSESSED               |-> {"AGGREGATED", "MANUAL_REVIEW_REQUIRED"},
      AGGREGATED             |-> {"COMPOSED"},
      COMPOSED               |-> {"READY_FOR_REVIEW", "NEEDS_REVIEW"},
      READY_FOR_REVIEW       |-> {"APPROVED", "REJECTED", "NEEDS_INFO"},
      NEEDS_REVIEW           |-> {"APPROVED", "REJECTED", "NEEDS_INFO"},
      QUARANTINED            |-> {"NEEDS_REVIEW", "REJECTED"},
      MANUAL_REVIEW_REQUIRED |-> {"NEEDS_REVIEW"},
      NEEDS_INFO             |-> {"CREATED"},
      APPROVED               |-> {"DELIVERED", "DELIVERY_PENDING_RETRY"},
      DELIVERY_PENDING_RETRY |-> {"DELIVERED"},
      INTERRUPTED            |-> {"CREATED"},
      REJECTED               |-> {},
      DELIVERED              |-> {},
      FAILED_TERMINAL        |-> {} ]

Status == DOMAIN ALLOWED

CanTransition(from, to) == to \in ALLOWED[from]

\* States from which nothing proceeds.
TERMINAL == {s \in Status : ALLOWED[s] = {}}

\* Fault: a run waiting for a retry is forgotten.
FAULT_APPROVED_ONLY == {"APPROVED"}

\* The only states from which a run may enter DELIVERED.
DELIVERY_PREDECESSORS == {"APPROVED", "DELIVERY_PENDING_RETRY"}

\* States the pipeline itself moves a run through.
IN_FLIGHT == {"CREATED", "INTAKE_OK", "EXTRACTED", "SANITIZED", "STRUCTURED",
              "CALIBRATED", "ASSESSED", "AGGREGATED", "COMPOSED"}

\* States a reviewer can open and act on.
REVIEWABLE == {"READY_FOR_REVIEW", "NEEDS_REVIEW", "QUARANTINED"}

-----------------------------------------------------------------------------
(* pipeline/registry.py *)

\* Fault: the gate is left out of the sequence.
FAULT_NO_REVIEW == << "CONFIG", "INTAKE", "EXTRACT", "SANITIZE", "STRUCTURE",
                      "CALIBRATE", "ASSESS", "AGGREGATE", "COMPOSE" >>

\* The nodes up to the reviewer gate, in order.  DELIVER, the eleventh, runs
\* in a delivery pass and never in the worker, which stops after REVIEW.
PIPELINE == << "CONFIG", "INTAKE", "EXTRACT", "SANITIZE", "STRUCTURE",
               "CALIBRATE", "ASSESS", "AGGREGATE", "COMPOSE", "REVIEW" >>

WorkerNode == {"CONFIG", "INTAKE", "EXTRACT", "SANITIZE", "STRUCTURE",
               "CALIBRATE", "ASSESS", "AGGREGATE", "COMPOSE", "REVIEW"}

NODES_BEFORE_REVIEW == WorkerNode \ {"REVIEW"}

SuccessStatus ==
    [ CONFIG    |-> "CREATED",    INTAKE    |-> "INTAKE_OK",
      EXTRACT   |-> "EXTRACTED",  SANITIZE  |-> "SANITIZED",
      STRUCTURE |-> "STRUCTURED", CALIBRATE |-> "CALIBRATED",
      ASSESS    |-> "ASSESSED",   AGGREGATE |-> "AGGREGATED",
      COMPOSE   |-> "COMPOSED",   REVIEW    |-> "READY_FOR_REVIEW",
      DELIVER   |-> "DELIVERED" ]

FailureStatus ==
    [ CONFIG    |-> "FAILED_TERMINAL", INTAKE    |-> "FAILED_TERMINAL",
      EXTRACT   |-> "FAILED_TERMINAL", SANITIZE  |-> "QUARANTINED",
      STRUCTURE |-> "MANUAL_REVIEW_REQUIRED",
      CALIBRATE |-> "CALIBRATED",
      ASSESS    |-> "MANUAL_REVIEW_REQUIRED",
      AGGREGATE |-> "MANUAL_REVIEW_REQUIRED",
      COMPOSE   |-> "NEEDS_REVIEW",    REVIEW    |-> "NEEDS_REVIEW",
      DELIVER   |-> "DELIVERY_PENDING_RETRY" ]

\* The nodes whose failure the run continues past.
NotRequired == {"STRUCTURE", "CALIBRATE", "COMPOSE", "DELIVER"}

\* Fault: what the node asks for is not looked at.
FaultDeclaredStatus(node, failed, proposed, current) ==
    IF failed THEN FailureStatus[node] ELSE SuccessStatus[node]

\* runner.py _next_status: a status the node proposes and the state machine
\* forbids is ignored in favour of the declared one.
NextStatus(node, failed, proposed, current) ==
    IF failed THEN FailureStatus[node]
    ELSE IF proposed = current \/ CanTransition(current, proposed)
         THEN proposed
         ELSE SuccessStatus[node]

=============================================================================
