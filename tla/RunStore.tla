------------------------------ MODULE RunStore ------------------------------
(***************************************************************************)
(* The rows the database keeps for one run, and the single-statement       *)
(* writes the repositories offer on them.                                  *)
(*                                                                         *)
(* Each operator below is one transaction of                               *)
(* infrastructure/storage/sqlite/repositories.py.  The processes of the    *)
(* other modules interleave between them, never inside them:               *)
(* write_transaction takes the write lock with BEGIN IMMEDIATE.            *)
(***************************************************************************)
EXTENDS RunStatus

CONSTANT Reviewer,      \* the people with a review page open
         Sink           \* the configured destinations

VARIABLES
    exists,      \* the runs row has not been deleted
    status,      \* runs.status
    version,     \* runs.version, the optimistic lock
    completed,   \* runs.completed_nodes, order left out
    finished,    \* runs.finished_at is set
    tier,        \* runs.integrity_tier
    rec,         \* runs.recommendation: who computed the stored one
    decisions,   \* the reviews rows of the run
    records,     \* the sinks with a deliveries row saying DELIVERED
    cards        \* how many calibration cards were made from the run

storeVars == << exists, status, version, completed, finished, tier, rec,
                decisions, records, cards >>

Tier == {"CLEAN", "SUSPECT", "QUARANTINE"}

\* Either nothing, or the pipeline's, or the one a reviewer's overrides gave.
Recommendation == {"none", "pipeline"} \cup Reviewer

Action == {"APPROVE", "REJECT", "REQUEST_INFO"}

Decision == [version : Nat, action : Action, by : Reviewer, overridden : BOOLEAN]

NodeName == WorkerNode \cup {"DELIVER", "RECOVERY"}

\* What the type of the store is.
StoreTypeOK ==
    /\ exists \in BOOLEAN
    /\ status \in Status
    /\ version \in Nat
    /\ completed \subseteq NodeName
    /\ finished \in BOOLEAN
    /\ tier \in Tier
    /\ rec \in Recommendation
    /\ decisions \subseteq Decision
    /\ records \subseteq Sink
    /\ cards \in Nat

\* A run as process_candidate has just created it.
StoreInit ==
    /\ exists = TRUE
    /\ status = "CREATED"
    /\ version = 0
    /\ completed = {}
    /\ finished = FALSE
    /\ tier = "CLEAN"
    /\ rec = "none"
    /\ decisions = {}
    /\ records = {}
    /\ cards = 0

-----------------------------------------------------------------------------

\* An UPDATE of a row that has been deleted matches nothing and changes nothing.
SetStatus(to) ==
    /\ status' = IF exists THEN to ELSE status
    /\ version' = IF exists THEN version + 1 ELSE version
    /\ UNCHANGED << exists, completed, finished, tier, rec, decisions, records, cards >>

MarkNodeComplete(node, to) ==
    /\ status' = IF exists THEN to ELSE status
    /\ completed' = IF exists THEN completed \cup {node} ELSE completed
    /\ version' = IF exists THEN version + 1 ELSE version
    /\ UNCHANGED << exists, finished, tier, rec, decisions, records, cards >>

\* The one write of the row that leaves the version alone.
SetIntegrityTier(to) ==
    /\ tier' = IF exists THEN to ELSE tier
    /\ UNCHANGED << exists, status, version, completed, finished, rec, decisions, records, cards >>

SaveRecommendation(of) ==
    /\ rec' = IF exists THEN of ELSE rec
    /\ UNCHANGED << exists, status, version, completed, finished, tier, decisions, records, cards >>

\* Fault: the update does not compare the version.
FaultAnyVersion(expected) == exists

\* SqliteRunRepository.update writes the caller's whole copy of the row.  It is
\* refused (StaleRunVersion) unless VersionMatches.
VersionMatches(expected) == exists /\ version = expected

UpdateRun(copy) ==
    /\ status' = copy.status
    /\ completed' = copy.completed
    /\ finished' = copy.finished
    /\ tier' = copy.tier
    /\ version' = version + 1
    /\ UNCHANGED << exists, rec, decisions, records, cards >>

\* The inserts below raise on the foreign key once the run is gone: their
\* callers test exists and follow the exception otherwise.
SaveDecision(decision) ==
    /\ decisions' = decisions \cup {decision}
    /\ UNCHANGED << exists, status, version, completed, finished, tier, rec, records, cards >>

RecordDelivery(sink) ==
    /\ records' = records \cup {sink}
    /\ UNCHANGED << exists, status, version, completed, finished, tier, rec, decisions, cards >>

AddCard ==
    /\ cards' = cards + 1
    /\ UNCHANGED << exists, status, version, completed, finished, tier, rec, decisions, records >>

\* Deleting a run cascades to every dependent row; a calibration card does not
\* depend on the run it came from.  The columns of a row that is gone have no
\* value; the model gives them those of a new run.
DeleteRun ==
    /\ exists' = FALSE
    /\ status' = "CREATED"
    /\ version' = 0
    /\ completed' = {}
    /\ finished' = FALSE
    /\ tier' = "CLEAN"
    /\ rec' = "none"
    /\ decisions' = {}
    /\ records' = {}
    /\ UNCHANGED cards

-----------------------------------------------------------------------------

\* get_for_run: ORDER BY decided_at DESC LIMIT 1.  decided_at is taken before
\* the compare-and-swap on the version and two decisions never hold the same
\* version, so the newest row is the one with the highest version.
IsLatest(d) ==
    /\ d \in decisions
    /\ \A e \in decisions : e.version <= d.version

LatestApproves == \E d \in decisions : IsLatest(d) /\ d.action = "APPROVE"

\* The statuses find_stale leaves out.
NeverStale == {"DELIVERED", "REJECTED", "FAILED_TERMINAL", "READY_FOR_REVIEW",
               "NEEDS_REVIEW", "QUARANTINED", "NEEDS_INFO", "APPROVED",
               "MANUAL_REVIEW_REQUIRED", "INTERRUPTED"}

\* Fault: the query joins the events of a run and so misses one that has none.
FaultStartedOnly == exists /\ ~finished /\ completed # {} /\ status \notin NeverStale

\* find_stale, but for the age of the run's last event.
StaleCandidate == exists /\ ~finished /\ status \notin NeverStale

=============================================================================
