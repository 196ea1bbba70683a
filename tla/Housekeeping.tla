---------------------------- MODULE Housekeeping ----------------------------
(***************************************************************************)
(* The two jobs that act on runs nobody is looking at: reconciliation      *)
(* (application/recovery.py), called at start-up by the command line and   *)
(* by the web process, and again by the latter whenever an administrator   *)
(* saves a setting; and removal (use_cases/delete_run.py, purge.py).       *)
(*                                                                         *)
(* Both read a run, decide, and write in later transactions.               *)
(***************************************************************************)
EXTENDS RunStore

CONSTANT Jobs            \* the jobs an instance lets run

ASSUME JobsAssumption == Jobs \subseteq {"reconcile", "remove"}

VARIABLES
    cpc,         \* where the reconciler is
    apc          \* where the removal of the run is

housekeepingVars == << cpc, apc >>

HousekeepingTypeOK ==
    /\ cpc \in {"idle", "event", "mark"}
    /\ apc \in {"idle", "remove"}

HousekeepingInit ==
    /\ cpc = "idle"
    /\ apc = "idle"

-----------------------------------------------------------------------------
(* application/recovery.py *)

\* find_stale returned the run: quiet says its last event is old enough.
FindStale(quiet) ==
    /\ "reconcile" \in Jobs
    /\ cpc = "idle"
    /\ StaleCandidate
    /\ quiet
    /\ cpc' = "event"
    /\ UNCHANGED apc
    /\ UNCHANGED storeVars

\* The RECOVERY event; it raises, and reconciliation with it, when the run has
\* been deleted meanwhile.
AppendRecoveryEvent ==
    /\ cpc = "event"
    /\ cpc' = IF exists THEN "mark" ELSE "idle"
    /\ UNCHANGED apc
    /\ UNCHANGED storeVars

\* Unconditional: the status read by find_stale is not looked at again.
MarkInterrupted ==
    /\ cpc = "mark"
    /\ MarkNodeComplete("RECOVERY", "INTERRUPTED")
    /\ cpc' = "idle"
    /\ UNCHANGED apc

ReconcileStep(quiet) == FindStale(quiet) \/ AppendRecoveryEvent \/ MarkInterrupted

-----------------------------------------------------------------------------
(* use_cases/delete_run.py and purge.py *)

\* delete_run refuses a run in flight (and a sample, which the model leaves to
\* chance).
CheckDelete ==
    /\ "remove" \in Jobs
    /\ apc = "idle"
    /\ exists
    /\ status \notin IN_FLIGHT
    /\ apc' = "remove"
    /\ UNCHANGED cpc
    /\ UNCHANGED storeVars

\* purge takes runs that finished before its cutoff, whatever their status.
CheckPurge ==
    /\ "remove" \in Jobs
    /\ apc = "idle"
    /\ exists
    /\ finished
    /\ apc' = "remove"
    /\ UNCHANGED cpc
    /\ UNCHANGED storeVars

\* remove_run: the row and everything that cascades from it.
RemoveRun ==
    /\ apc = "remove"
    /\ DeleteRun
    /\ apc' = "idle"
    /\ UNCHANGED cpc

RemovalStep == CheckDelete \/ CheckPurge \/ RemoveRun

=============================================================================
