------------------------------ MODULE Delivery ------------------------------
(***************************************************************************)
(* Sending a decided run: the DELIVER node (pipeline/deliver.py) inside a  *)
(* pass over the approved runs (use_cases/deliver_approved.py), and the    *)
(* pass that finishes what a first one left (use_cases/                    *)
(* retry_deliveries.py).                                                   *)
(*                                                                         *)
(* A Deliverer is a process able to make passes: the web process's POST    *)
(* /api/deliveries handler, a second request of it, the command line.      *)
(* Nothing serialises them (AdvisoryLock is used by no caller).            *)
(*                                                                         *)
(* The destinations are outside src/'s database: rows[s] is what was       *)
(* appended to s, which a deletion of the run does not take back.          *)
(***************************************************************************)
EXTENDS RunStore

CONSTANTS
    Deliverer,       \* the processes that make delivery passes
    DemoModes,       \* the values of settings.demo_mode an instance looks at
    CsvSink,         \* the sink that is always there, and always first
    MaxFaults,       \* bound: how many faults of a sink or a pass an instance sees
    MaxVersion       \* bound: demo mode's passes, which change nothing but the version

ASSUME DeliveryAssumption ==
    /\ DemoModes \subseteq BOOLEAN
    /\ CsvSink \in Sink
    /\ MaxFaults \in Nat
    /\ MaxVersion \in Nat

VARIABLES
    demo,        \* settings.demo_mode: no sinks are built, nothing is sent
    dpc,         \* where each pass is
    dkind,       \* "approved" or "retry"
    dstatus,     \* state.status, as the pass read it
    dtodo,       \* the sinks the pass has still to try
    dok,         \* the result of the sink being tried
    dgood,       \* some sink took the package
    dbad,        \* some sink did not
    dpayload,    \* the payload, built once per pass
    dtries,      \* append attempts made on the sink being tried
    dresult,     \* how the DELIVER node ended
    rows,        \* what each sink holds for the run
    healthy,     \* the sinks no failure has disabled
    faults       \* how many faults have happened

passVars == << dpc, dkind, dstatus, dtodo, dok, dgood, dbad, dpayload, dtries, dresult >>
sinkVars == << rows, healthy, faults >>
deliveryVars == << demo, passVars, sinkVars >>

DelivererPC ==
    {"idle", "load", "gate", "build", "send", "append", "record", "card",
     "event", "commit", "mark"}

\* with_retries makes at most this many attempts.
MAX_ATTEMPTS == 3

\* The part of a payload the properties tell apart: whose decision it carries,
\* and whose recommendation its derivation and criterion states come from.
Payload == [by : Reviewer \cup {"nobody"}, rec : Recommendation]

NoPayload == [by |-> "nobody", rec |-> "none"]

DeliveryTypeOK ==
    /\ demo \in BOOLEAN
    /\ dpc \in [Deliverer -> DelivererPC]
    /\ dkind \in [Deliverer -> {"approved", "retry"}]
    /\ dstatus \in [Deliverer -> Status]
    /\ dtodo \in [Deliverer -> SUBSET Sink]
    /\ dok \in [Deliverer -> BOOLEAN]
    /\ dgood \in [Deliverer -> BOOLEAN]
    /\ dbad \in [Deliverer -> BOOLEAN]
    /\ dpayload \in [Deliverer -> Payload]
    /\ dtries \in [Deliverer -> Nat]
    /\ dresult \in [Deliverer -> {"OK", "DEGRADED", "FAILED"}]
    /\ rows \in [Sink -> Seq(Payload)]
    /\ healthy \subseteq Sink
    /\ faults \in Nat

DeliveryInit ==
    /\ demo \in DemoModes
    /\ dpc = [d \in Deliverer |-> "idle"]
    /\ dkind = [d \in Deliverer |-> "approved"]
    /\ dstatus = [d \in Deliverer |-> "CREATED"]
    /\ dtodo = [d \in Deliverer |-> {}]
    /\ dok = [d \in Deliverer |-> FALSE]
    /\ dgood = [d \in Deliverer |-> FALSE]
    /\ dbad = [d \in Deliverer |-> FALSE]
    /\ dpayload = [d \in Deliverer |-> NoPayload]
    /\ dtries = [d \in Deliverer |-> 0]
    /\ dresult = [d \in Deliverer |-> "OK"]
    /\ rows = [s \in Sink |-> << >>]
    /\ healthy = Sink
    /\ faults = 0

Goto(d, pc) == dpc' = [dpc EXCEPT ![d] = pc]

\* A pass that has ended keeps nothing.
EndPass(d) ==
    /\ Goto(d, "idle")
    /\ dkind' = [dkind EXCEPT ![d] = "approved"]
    /\ dstatus' = [dstatus EXCEPT ![d] = "CREATED"]
    /\ dtodo' = [dtodo EXCEPT ![d] = {}]
    /\ dok' = [dok EXCEPT ![d] = FALSE]
    /\ dgood' = [dgood EXCEPT ![d] = FALSE]
    /\ dbad' = [dbad EXCEPT ![d] = FALSE]
    /\ dpayload' = [dpayload EXCEPT ![d] = NoPayload]
    /\ dtries' = [dtries EXCEPT ![d] = 0]
    /\ dresult' = [dresult EXCEPT ![d] = "OK"]

-----------------------------------------------------------------------------
(* Which runs a pass takes. *)

\* deliver_approved lists the APPROVED runs.
ListApproved(d) ==
    /\ dpc[d] = "idle"
    /\ exists
    /\ status = "APPROVED"
    /\ demo => version < MaxVersion
    /\ Goto(d, "load")
    /\ UNCHANGED << demo, dkind, dstatus, dtodo, dok, dgood, dbad, dpayload, dtries, dresult >>
    /\ UNCHANGED sinkVars /\ UNCHANGED storeVars

\* state_for_resume reads the row again; run() leaves a terminal run alone.
LoadState(d) ==
    /\ dpc[d] = "load"
    /\ IF exists /\ status \notin TERMINAL
       THEN /\ Goto(d, "gate")
            /\ dstatus' = [dstatus EXCEPT ![d] =
                              IF status = "INTERRUPTED" THEN "CREATED" ELSE status]
            /\ UNCHANGED << dkind, dtodo, dok, dgood, dbad, dpayload, dtries, dresult >>
       ELSE EndPass(d)
    /\ UNCHANGED demo
    /\ UNCHANGED sinkVars /\ UNCHANGED storeVars

\* retry_deliveries works from the rows its own listing returned.
ListPending(d) ==
    /\ dpc[d] = "idle"
    /\ exists
    /\ status = "DELIVERY_PENDING_RETRY"
    /\ Goto(d, "gate")
    /\ dkind' = [dkind EXCEPT ![d] = "retry"]
    /\ dstatus' = [dstatus EXCEPT ![d] = status]
    /\ UNCHANGED << demo, dtodo, dok, dgood, dbad, dpayload, dtries, dresult >>
    /\ UNCHANGED sinkVars /\ UNCHANGED storeVars

-----------------------------------------------------------------------------
(* The approval gate, and what is sent. *)

\* Fault: the status column alone is believed.
FaultStatusIsEnough(d) == dstatus[d] \in DELIVERY_PREDECESSORS

\* refuse_reason: the status in memory, and a persisted approval.
GateOpen(d) == dstatus[d] \in DELIVERY_PREDECESSORS /\ LatestApproves

\* The node's own path through the gate.
GateApproved(d) ==
    /\ dpc[d] = "gate"
    /\ dkind[d] = "approved"
    /\ \/ /\ ~GateOpen(d)
          /\ dresult' = [dresult EXCEPT ![d] = "FAILED"]
          /\ Goto(d, "event")
          /\ dtodo' = dtodo
       \/ /\ GateOpen(d) /\ demo
          /\ dresult' = [dresult EXCEPT ![d] = "OK"]
          /\ Goto(d, "event")
          /\ dtodo' = dtodo
       \/ /\ GateOpen(d) /\ ~demo
          /\ dresult' = dresult
          /\ Goto(d, "build")
          /\ dtodo' = [dtodo EXCEPT ![d] = Sink]
    /\ UNCHANGED << demo, dkind, dstatus, dok, dgood, dbad, dpayload, dtries >>
    /\ UNCHANGED sinkVars /\ UNCHANGED storeVars

\* Fault: a retry starts over.
FaultEverySink == Sink

\* The sinks no row says DELIVERED for.
Outstanding == Sink \ records

\* The retry's: the same gate, then only the sinks outstanding.
GateRetry(d) ==
    /\ dpc[d] = "gate"
    /\ dkind[d] = "retry"
    /\ \/ /\ ~GateOpen(d) \/ demo
          /\ EndPass(d)
       \/ /\ GateOpen(d) /\ ~demo
          /\ dtodo' = [dtodo EXCEPT ![d] = Outstanding]
          /\ Goto(d, IF Outstanding = {} THEN "mark" ELSE "build")
          /\ UNCHANGED << dkind, dstatus, dok, dgood, dbad, dpayload, dtries, dresult >>
    /\ UNCHANGED demo
    /\ UNCHANGED sinkVars /\ UNCHANGED storeVars

\* build_payload reads the recommendation and the decision; both may have gone,
\* with the run, since the gate.
BuildPayload(d) ==
    /\ dpc[d] = "build"
    /\ \/ decisions = {} /\ dpayload' = [dpayload EXCEPT ![d] = [by |-> "nobody", rec |-> rec]]
       \/ \E e \in decisions :
             IsLatest(e) /\ dpayload' = [dpayload EXCEPT ![d] = [by |-> e.by, rec |-> rec]]
    /\ Goto(d, "send")
    /\ UNCHANGED << demo, dkind, dstatus, dtodo, dok, dgood, dbad, dtries, dresult >>
    /\ UNCHANGED sinkVars /\ UNCHANGED storeVars

-----------------------------------------------------------------------------
(* One sink after another. *)

\* The sinks are tried in a fixed order; build_sinks puts the CSV file first.
NextSink(d) ==
    IF CsvSink \in dtodo[d] THEN CsvSink ELSE CHOOSE s \in dtodo[d] : TRUE

\* A sink disabled earlier is not attempted, and leaves no record.
SkipUnhealthy(d) ==
    /\ dpc[d] = "send"
    /\ dtodo[d] # {}
    /\ NextSink(d) \notin healthy
    /\ dtodo' = [dtodo EXCEPT ![d] = @ \ {NextSink(d)}]
    /\ dbad' = [dbad EXCEPT ![d] = TRUE]
    /\ UNCHANGED << demo, dpc, dkind, dstatus, dok, dgood, dpayload, dtries, dresult >>
    /\ UNCHANGED sinkVars /\ UNCHANGED storeVars

Fault == faults < MaxFaults /\ faults' = faults + 1

\* Fault: a failure is taken for a success.
FaultAlwaysSuccess(d, ok) ==
    /\ dok' = [dok EXCEPT ![d] = TRUE]
    /\ dtries' = [dtries EXCEPT ![d] = 0]
    /\ Goto(d, "record")

\* What the sink answered is known; the record of it is the next step.
Answered(d, ok) ==
    /\ dok' = [dok EXCEPT ![d] = ok]
    /\ dtries' = [dtries EXCEPT ![d] = 0]
    /\ Goto(d, "record")

Put(d, s) == rows' = [rows EXCEPT ![s] = Append(@, dpayload[d])]

\* CsvSink.deliver appends a row, or the disk refuses it.
SendCsv(d) ==
    /\ dpc[d] = "send"
    /\ dtodo[d] # {}
    /\ NextSink(d) = CsvSink
    /\ CsvSink \in healthy
    /\ \/ Put(d, CsvSink) /\ Answered(d, TRUE) /\ UNCHANGED faults
       \/ Fault /\ Answered(d, FALSE) /\ UNCHANGED rows
    /\ UNCHANGED healthy
    /\ UNCHANGED << demo, dkind, dstatus, dtodo, dgood, dbad, dpayload, dresult >>
    /\ UNCHANGED storeVars

\* deliver_batch reads the key column before it appends: a run that is already
\* there is a success.  A read that keeps failing is a failed delivery, and one
\* refused for its credentials or its configuration disables the sink.
ReadKeys(d) ==
    /\ dpc[d] = "send"
    /\ dtodo[d] # {}
    /\ NextSink(d) # CsvSink
    /\ NextSink(d) \in healthy
    /\ \/ /\ rows[NextSink(d)] # << >>
          /\ Answered(d, TRUE)
          /\ UNCHANGED << healthy, faults >>
       \/ /\ rows[NextSink(d)] = << >>
          /\ Goto(d, "append")
          /\ UNCHANGED << dok, dtries, healthy, faults >>
       \/ /\ Fault
          /\ Answered(d, FALSE)
          /\ healthy' \in {healthy, healthy \ {NextSink(d)}}
    /\ UNCHANGED rows
    /\ UNCHANGED << demo, dkind, dstatus, dtodo, dgood, dbad, dpayload, dresult >>
    /\ UNCHANGED storeVars

\* An attempt worth repeating has failed; the last one is the answer.
TryAgain(d) ==
    IF dtries[d] + 1 < MAX_ATTEMPTS
    THEN dtries' = [dtries EXCEPT ![d] = @ + 1] /\ UNCHANGED << dpc, dok >>
    ELSE Answered(d, FALSE)

\* One attempt of with_retries(append): it works; it works and the answer is
\* lost, which reads as a transient failure; it is refused for now; it is
\* refused for good, with or without disabling the sink.
AppendRow(d) ==
    /\ dpc[d] = "append"
    /\ \/ Put(d, NextSink(d)) /\ Answered(d, TRUE) /\ UNCHANGED << healthy, faults >>
       \/ Put(d, NextSink(d)) /\ Fault /\ TryAgain(d) /\ UNCHANGED healthy
       \/ Fault /\ TryAgain(d) /\ UNCHANGED << rows, healthy >>
       \/ /\ Fault /\ Answered(d, FALSE) /\ UNCHANGED rows
          /\ healthy' \in {healthy, healthy \ {NextSink(d)}}
    /\ UNCHANGED << demo, dkind, dstatus, dtodo, dgood, dbad, dpayload, dresult >>
    /\ UNCHANGED storeVars

\* deliveries.record, whatever the answer.  With the run deleted it raises: out
\* of the node into the event row that raises too, or out of the retry.
Record(d) ==
    /\ dpc[d] = "record"
    /\ IF exists
       THEN /\ IF dok[d] THEN RecordDelivery(NextSink(d)) ELSE UNCHANGED storeVars
            /\ dtodo' = [dtodo EXCEPT ![d] = @ \ {NextSink(d)}]
            /\ dgood' = [dgood EXCEPT ![d] = @ \/ dok[d]]
            /\ dbad' = [dbad EXCEPT ![d] = @ \/ ~dok[d]]
            /\ Goto(d, "send")
            /\ UNCHANGED << dkind, dstatus, dok, dpayload, dtries, dresult >>
       ELSE /\ EndPass(d)
            /\ UNCHANGED storeVars
    /\ UNCHANGED demo /\ UNCHANGED sinkVars

-----------------------------------------------------------------------------
(* Every sink has been tried. *)

\* The DELIVER node's verdict.
Conclude(d) ==
    /\ dpc[d] = "send"
    /\ dtodo[d] = {}
    /\ dkind[d] = "approved"
    /\ \/ /\ ~dgood[d]
          /\ dresult' = [dresult EXCEPT ![d] = "FAILED"]
          /\ Goto(d, "event")
       \/ /\ dgood[d] /\ dbad[d]
          /\ dresult' = [dresult EXCEPT ![d] = "DEGRADED"]
          /\ Goto(d, "event")
       \/ /\ dgood[d] /\ ~dbad[d]
          /\ dresult' = [dresult EXCEPT ![d] = "OK"]
          /\ Goto(d, "card")
    /\ UNCHANGED << demo, dkind, dstatus, dtodo, dok, dgood, dbad, dpayload, dtries >>
    /\ UNCHANGED sinkVars /\ UNCHANGED storeVars

\* _write_calibration_card: from an approval only, and never a reason to fail.
\* Without an embedder, an embedding or a recommendation there is no card.
WriteCard(d) ==
    /\ dpc[d] = "card"
    /\ \/ LatestApproves /\ rec # "none" /\ AddCard
       \/ UNCHANGED storeVars
    /\ Goto(d, "event")
    /\ UNCHANGED << demo, dkind, dstatus, dtodo, dok, dgood, dbad, dpayload, dtries, dresult >>
    /\ UNCHANGED sinkVars

\* _commit_node, as in Runner: the event row, which raises on a deleted run ...
AppendDeliverEvent(d) ==
    /\ dpc[d] = "event"
    /\ IF exists
       THEN /\ Goto(d, "commit")
            /\ UNCHANGED << dkind, dstatus, dtodo, dok, dgood, dbad, dpayload, dtries, dresult >>
       ELSE EndPass(d)
    /\ UNCHANGED demo
    /\ UNCHANGED sinkVars /\ UNCHANGED storeVars

\* Fault: a package that some sinks did not take counts as delivered.
FaultPartlyIsDelivered(d) == IF demo THEN dstatus[d] ELSE "DELIVERED"

\* What the node asks for: in demo mode, the status it was given.
DeliverProposes(d) ==
    IF dresult[d] = "DEGRADED" THEN "DELIVERY_PENDING_RETRY"
    ELSE IF demo THEN dstatus[d]
    ELSE "DELIVERED"

\* ... and the status.
CommitDelivery(d) ==
    LET failed == dresult[d] = "FAILED"
        next   == NextStatus("DELIVER", failed, DeliverProposes(d), dstatus[d])
    IN  /\ dpc[d] = "commit"
        /\ IF failed THEN SetStatus(next) ELSE MarkNodeComplete("DELIVER", next)
        /\ EndPass(d)
        /\ UNCHANGED demo /\ UNCHANGED sinkVars

\* The end of a retry that sent what was outstanding, or of one that did not.
ConcludeRetry(d) ==
    /\ dpc[d] = "send"
    /\ dtodo[d] = {}
    /\ dkind[d] = "retry"
    /\ IF dbad[d]
       THEN EndPass(d)
       ELSE /\ Goto(d, "mark")
            /\ UNCHANGED << dkind, dstatus, dtodo, dok, dgood, dbad, dpayload, dtries, dresult >>
    /\ UNCHANGED demo
    /\ UNCHANGED sinkVars /\ UNCHANGED storeVars

\* _mark_delivered.
MarkDelivered(d) ==
    /\ dpc[d] = "mark"
    /\ SetStatus("DELIVERED")
    /\ EndPass(d)
    /\ UNCHANGED demo /\ UNCHANGED sinkVars

\* The process dies in the middle of a pass.
DelivererCrash(d) ==
    /\ dpc[d] # "idle"
    /\ Fault
    /\ EndPass(d)
    /\ UNCHANGED << demo, rows, healthy >>
    /\ UNCHANGED storeVars

\* New settings, or a new process: the sinks are built again.
RebuildSinks ==
    /\ healthy # Sink
    /\ healthy' = Sink
    /\ UNCHANGED << demo, passVars, rows, faults >>
    /\ UNCHANGED storeVars

PassStep(d) ==
    \/ ListApproved(d) \/ LoadState(d) \/ ListPending(d)
    \/ GateApproved(d) \/ GateRetry(d) \/ BuildPayload(d)
    \/ SkipUnhealthy(d) \/ SendCsv(d) \/ ReadKeys(d) \/ AppendRow(d) \/ Record(d)
    \/ Conclude(d) \/ WriteCard(d) \/ AppendDeliverEvent(d) \/ CommitDelivery(d)
    \/ ConcludeRetry(d) \/ MarkDelivered(d)

=============================================================================
