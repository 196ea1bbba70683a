------------------------------- MODULE Runner -------------------------------
(***************************************************************************)
(* The worker: application/runner.py driving one run from CONFIG to the    *)
(* reviewer gate.                                                          *)
(*                                                                         *)
(* A step of the loop is a node call (Execute) and then the writes of      *)
(* _commit_node, which are separate transactions: the event row, the       *)
(* integrity tier when it changed, the status.  Other processes may run,   *)
(* and this one may die, between any two of them.                          *)
(*                                                                         *)
(* What a node computes is abstracted to what the loop and the reviewer    *)
(* gate can tell apart: how it finished, the tier SANITIZE gave, whether   *)
(* something asks for a closer look, whether the budget is now spent.      *)
(***************************************************************************)
EXTENDS RunStore

CONSTANT Exceptional     \* the nodes that may end other than plainly OK

ASSUME ExceptionalAssumption == Exceptional \subseteq WorkerNode

VARIABLES
    wpc,        \* where the worker is
    wpos,       \* the position in PIPELINE of the node at hand
    wstatus,    \* state.status: the status in memory, not the row's
    wtier,      \* state.integrity_tier
    wflag,      \* state has a reason to flag the run, see reasons_to_flag
    wover,      \* the budget guard no longer allows the run
    wresult     \* the NodeResult being committed

workerVars == << wpc, wpos, wstatus, wtier, wflag, wover, wresult >>

WorkerPC == {"execute", "event", "tier", "status", "stop", "ended", "dead"}

NodeStatus == {"OK", "DEGRADED", "FAILED"}

Result == [kind : NodeStatus, tier : Tier, proposed : Status]

WorkerTypeOK ==
    /\ wpc \in WorkerPC
    /\ wpos \in 1 .. Len(PIPELINE)
    /\ wstatus \in Status
    /\ wtier \in Tier
    /\ wflag \in BOOLEAN
    /\ wover \in BOOLEAN
    /\ wresult \in Result

NoResult == [kind |-> "OK", tier |-> "CLEAN", proposed |-> "CREATED"]

WorkerInit ==
    /\ wpc = "execute"
    /\ wpos = 1
    /\ wstatus = "CREATED"
    /\ wtier = "CLEAN"
    /\ wflag = FALSE
    /\ wover = FALSE
    /\ wresult = NoResult

Node == PIPELINE[wpos]

\* What a worker that has stopped, or died, had in memory is gone.
Stop(pc) ==
    /\ wpc' = pc
    /\ wpos' = 1
    /\ wstatus' = "CREATED"
    /\ wtier' = "CLEAN"
    /\ wflag' = FALSE
    /\ wover' = FALSE
    /\ wresult' = NoResult

-----------------------------------------------------------------------------
(* What a node may return. *)

\* How each node's own code can end.
ConfigEnds    == {"OK", "FAILED"}
IntakeEnds    == {"OK", "FAILED"}
ExtractEnds   == {"OK", "DEGRADED", "FAILED"}
SanitizeEnds  == {"OK", "DEGRADED", "FAILED"}
StructureEnds == {"OK", "DEGRADED", "FAILED"}
CalibrateEnds == {"OK", "DEGRADED"}
AssessEnds    == {"OK", "DEGRADED", "FAILED"}
AggregateEnds == {"OK", "FAILED"}
ComposeEnds   == {"OK", "DEGRADED", "FAILED"}
ReviewEnds    == {"OK"}

Ends ==
    [ CONFIG    |-> ConfigEnds,    INTAKE    |-> IntakeEnds,
      EXTRACT   |-> ExtractEnds,   SANITIZE  |-> SanitizeEnds,
      STRUCTURE |-> StructureEnds, CALIBRATE |-> CalibrateEnds,
      ASSESS    |-> AssessEnds,    AGGREGATE |-> AggregateEnds,
      COMPOSE   |-> ComposeEnds,   REVIEW    |-> ReviewEnds ]

\* _execute turns any exception into FAILED, so every node can fail.
Kinds(node) ==
    IF node \in Exceptional THEN Ends[node] \cup {"FAILED"} ELSE {"OK"}

\* SANITIZE halts on QUARANTINE by failing; it also fails, with the tier as it
\* was, when there is nothing to scan or a scanner raises.
TiersOf(node, kind) ==
    IF node # "SANITIZE" THEN {wtier}
    ELSE CASE kind = "OK"       -> {"CLEAN"}
           [] kind = "DEGRADED" -> {"SUSPECT"}
           [] kind = "FAILED"   -> {"QUARANTINE", wtier}

\* Only ASSESS records spending; once the ceiling is crossed it leaves the
\* criteria that remain unassessed and degrades.
SpendingOf(node, kind) ==
    IF node # "ASSESS" \/ node \notin Exceptional THEN {wover}
    ELSE IF kind = "DEGRADED" THEN {TRUE} ELSE BOOLEAN

\* ASSESS may have removed a quotation that is not in the document; AGGREGATE's
\* recommendation may ask for a human or hold a contradiction.
FlagsOf(node, kind) ==
    IF node \in {"ASSESS", "AGGREGATE"} \cap Exceptional /\ kind # "FAILED"
    THEN {wflag, TRUE} ELSE {wflag}

\* reasons_to_flag, of a run that has a recommendation.
Flagged == wflag \/ wtier # "CLEAN"

ProposedBy(node, kind) ==
    CASE node = "ASSESS" /\ kind = "DEGRADED" -> "MANUAL_REVIEW_REQUIRED"
      [] node = "REVIEW" /\ Flagged           -> "NEEDS_REVIEW"
      [] OTHER                                -> SuccessStatus[node]

-----------------------------------------------------------------------------
(* The loop of run() *)

\* One node call.  AGGREGATE stores its recommendation itself, before the
\* runner commits anything.
Execute(kind) ==
    /\ wpc = "execute"
    /\ wstatus \notin TERMINAL
    /\ ~wover
    /\ kind \in Kinds(Node)
    /\ \E t \in TiersOf(Node, kind), o \in SpendingOf(Node, kind), f \in FlagsOf(Node, kind) :
          /\ wresult' = [kind |-> kind, tier |-> t, proposed |-> ProposedBy(Node, kind)]
          /\ wover' = o
          /\ wflag' = f
    /\ wpc' = "event"
    /\ UNCHANGED << wpos, wstatus, wtier >>
    /\ IF Node = "AGGREGATE" /\ kind = "OK"
       THEN SaveRecommendation("pipeline")
       ELSE UNCHANGED storeVars

\* _commit_node, first transaction: the event row.  It raises when the run has
\* been deleted, and nothing catches that before the batch.
AppendEvent ==
    /\ wpc = "event"
    /\ \/ ~exists /\ Stop("dead")
       \/ /\ exists
          /\ wpc' = IF wresult.tier # wtier THEN "tier" ELSE "status"
          /\ UNCHANGED << wpos, wstatus, wtier, wflag, wover, wresult >>
    /\ UNCHANGED storeVars

\* _commit_node, the transaction that is skipped when the tier did not change.
CommitTier ==
    /\ wpc = "tier"
    /\ SetIntegrityTier(wresult.tier)
    /\ wpc' = "status"
    /\ UNCHANGED << wpos, wstatus, wtier, wflag, wover, wresult >>

\* _commit_node, last transaction, and the loop's own decision to go on: a
\* failed required node breaks it, and so does REVIEW, the node to stop after.
CommitStatus ==
    LET failed == wresult.kind = "FAILED"
        next   == NextStatus(Node, failed, wresult.proposed, wstatus)
    IN  /\ wpc = "status"
        /\ IF failed THEN SetStatus(next) ELSE MarkNodeComplete(Node, next)
        /\ \/ /\ \/ failed /\ Node \notin NotRequired
                 \/ Node = "REVIEW"
              /\ Stop("ended")
           \/ /\ ~failed \/ Node \in NotRequired
              /\ Node # "REVIEW"
              /\ wpc' = "execute"
              /\ wpos' = wpos + 1
              /\ wstatus' = next
              /\ wtier' = wresult.tier
              /\ wflag' = (wflag \/ wresult.kind = "DEGRADED")
              /\ wresult' = NoResult
              /\ UNCHANGED wover

\* The circuit breaker before a node: the event row ...
RefuseToSpend ==
    /\ wpc = "execute"
    /\ wstatus \notin TERMINAL
    /\ wover
    /\ \/ ~exists /\ Stop("dead")
       \/ /\ exists
          /\ wpc' = "stop"
          /\ UNCHANGED << wpos, wstatus, wtier, wflag, wover, wresult >>
    /\ UNCHANGED storeVars

\* ... and the status.
RecordBudgetStop ==
    /\ wpc = "stop"
    /\ SetStatus("MANUAL_REVIEW_REQUIRED")
    /\ Stop("ended")

\* The process is killed: what was in memory is gone, the rows stay.
WorkerCrash ==
    /\ wpc \notin {"ended", "dead"}
    /\ Stop("dead")
    /\ UNCHANGED storeVars

WorkerStep ==
    \/ \E kind \in NodeStatus : Execute(kind)
    \/ AppendEvent
    \/ CommitTier
    \/ CommitStatus
    \/ RefuseToSpend
    \/ RecordBudgetStop

=============================================================================
