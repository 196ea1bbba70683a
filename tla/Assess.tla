------------------------------- MODULE Assess -------------------------------
(***************************************************************************)
(* The model calls of one run and what is written down about them: the     *)
(* thread pool of the ASSESS node (pipeline/assess.py), the client stack   *)
(* each thread calls (infrastructure/models/), the budget guard            *)
(* (application/budget.py) and the one function that records a call        *)
(* (application/accounting.py).  SANITIZE, STRUCTURE and COMPOSE call the  *)
(* same client and record nothing: here they are calls that leave the guard *)
(* and the books alone.                                                    *)
(*                                                                         *)
(* A criterion is its position in the rubric; each has a task of the pool. *)
(* `billed' and `unsaid' are history variables: what the provider charged  *)
(* ASSESS, and the part of it the client stack never told its caller of.   *)
(***************************************************************************)
EXTENDS Routing, FiniteSets, Sequences

CONSTANTS
    NumCriteria,      \* the rubric has the criteria 1..NumCriteria
    HighStakes,       \* those of a kind in START_STRONG_FOR
    Concurrencies,    \* the values of settings.assess_concurrency looked at
    Policies,         \* the routing policies looked at
    GuardCap,         \* settings.max_escalations_per_candidate
    MaxTokens,        \* the most one request may be billed, in tokens
    CallTokens,       \* what a request the model answered may be billed
    MaxUnsaid,        \* bound: the tokens refusals may lose during ASSESS
    MaxSideCalls      \* bound: calls of one node other than ASSESS

Criterion == 1..NumCriteria

ASSUME AssessAssumption ==
    /\ NumCriteria \in Nat \ {0}
    /\ HighStakes \subseteq Criterion
    /\ Concurrencies \subseteq Nat
    /\ Policies \subseteq PolicyId
    /\ GuardCap \in Nat
    /\ MaxTokens \in Nat
    /\ CallTokens \subseteq 0..MaxTokens
    /\ MaxUnsaid \in Nat
    /\ MaxSideCalls \in Nat \ {0}

VARIABLES
    setting,       \* settings.assess_concurrency
    policy,        \* settings.routing_policy_id
    phase,         \* the node the run is in, or how it ended
    sidecalls,     \* calls made so far by a node other than ASSESS
    task,          \* the pool's task of each criterion
    tokens,        \* guard: input_tokens + output_tokens
    escalations,   \* guard: escalations
    ledger,        \* llm_calls: the tokens of the run's rows
    totals,        \* runs: total_input_tokens + total_output_tokens
    billed,        \* history: the tokens the provider charged ASSESS
    unsaid,        \* history: those of them that no caller was told of
    saved          \* how many criteria's assessments are in the database

settings == << setting, policy >>
guard == << tokens, escalations >>
books == << ledger, totals >>
history == << billed, unsaid >>
vars == << settings, phase, sidecalls, task, guard, books, history, saved >>

\* The nodes that call a model, in the pipeline's order.
CallingNode == << "SANITIZE", "STRUCTURE", "ASSESS", "COMPOSE" >>
Phase == {CallingNode[i] : i \in DOMAIN CallingNode} \cup {"done", "stopped", "failed"}
SideNode == {"SANITIZE", "STRUCTURE", "COMPOSE"}

TaskPC == {"queued", "call", "count", "store", "ledger", "totals",
           "route", "cap", "done", "raised"}
Reason == {"none", "budget_ceiling", "model_unavailable", "repair_failed"}

\* A CriterionOutcome, as far as routing and the properties tell two apart.
Outcome == [tier : Tier, reason : Reason, confidence : Confidence, invalid : BOOLEAN]

Unassessed(reason, tier) ==
    [tier |-> tier, reason |-> reason, confidence |-> "none", invalid |-> FALSE]

\* What a task carries from one step to the next: where it is, the attempt and
\* its tier, the tokens the client reported and whether they bought an answer,
\* the counter it has read and not yet written, and the outcome so far.
Task == [pc : TaskPC, attempt : {0, 1}, tier : Tier, reported : Nat,
         ok : BOOLEAN, seen : Nat, outcome : Outcome]

NewTask == [pc |-> "queued", attempt |-> 0, tier |-> "CHEAP", reported |-> 0,
            ok |-> FALSE, seen |-> 0, outcome |-> Unassessed("model_unavailable", "CHEAP")]

TypeOK ==
    /\ setting \in Concurrencies
    /\ policy \in Policies
    /\ phase \in Phase
    /\ sidecalls \in 0..MaxSideCalls
    /\ task \in [Criterion -> Task]
    /\ \A n \in {tokens, escalations, ledger, totals, billed, unsaid} : n \in Nat
    /\ saved \in 0..NumCriteria

Init ==
    /\ setting \in Concurrencies
    /\ policy \in Policies
    /\ phase = "SANITIZE"
    /\ sidecalls = 0
    /\ task = [c \in Criterion |-> NewTask]
    /\ tokens = 0 /\ escalations = 0 /\ ledger = 0 /\ totals = 0
    /\ billed = 0 /\ unsaid = 0
    /\ saved = 0

-----------------------------------------------------------------------------
(* The client stack: ResponseCache over RepairingClient over the provider. *)

\* What one structured_generate may do: what was billed, what its result
\* reports, and whether the caller got a parsed answer, a refusal it expects
\* (ModelUnavailable) or an exception it does not.
Reply(result, paid, told) == [result |-> result, paid |-> paid, told |-> told]

\* An answer another run left in the cache costs nothing.
FromCache == {Reply("ok", 0, 0)}

\* The first request is refused: before the model was run, or after it when the
\* provider declines the document and says so in a response it bills.
Refused == {Reply(r, t, 0) : r \in {"unavailable", "raised"}, t \in CallTokens \cup {0}}

Accepted == {Reply("ok", t, t) : t \in CallTokens}

\* The first answer did not validate, and the one repair did, did not either, or
\* was refused: the first answer's usage goes with the exception.
Repaired ==
    {Reply(r, t + u, t + u) : r \in {"ok", "invalid"}, t \in CallTokens, u \in CallTokens}
        \cup {Reply(r, t + u, 0) : r \in {"unavailable", "raised"},
                                   t \in CallTokens, u \in CallTokens \cup {0}}

StructuredGenerate == FromCache \cup Refused \cup Accepted \cup Repaired

-----------------------------------------------------------------------------
(* The guard. *)

\* A bug of the kind Allows could have: the ceiling itself is let through.
FaultCeilingIncluded(t) == t <= TokenCeiling

\* BudgetGuard.allows; no cost ceiling is ever configured.
Allows(t) == t < TokenCeiling

\* A bug of the kind MayEscalate could have: one more than the cap.
FaultCapIncluded(n) == n <= GuardCap

MayEscalate(n) == n < GuardCap

-----------------------------------------------------------------------------
(* The nodes other than ASSESS, and the guard the runner asks before each. *)

\* A bug of the kind SideLimit could have: the fallback asks again.
FAULT_ASKS_AGAIN == IF phase = "COMPOSE" THEN 2 ELSE MaxSideCalls

\* COMPOSE asks once; SANITIZE once a finding, STRUCTURE once a chunk.
SideLimit == IF phase = "COMPOSE" THEN 1 ELSE MaxSideCalls

\* A node asks a model, and what the call consumed is recorded nowhere.
\* STRUCTURE gives up at the first refusal; an exception nobody expects fails
\* the node, and SANITIZE is one the run needs.
SideCall ==
    /\ phase \in SideNode
    /\ sidecalls < SideLimit
    /\ \E reply \in StructuredGenerate :
        /\ sidecalls' = IF reply.result = "raised" \/ (phase = "STRUCTURE" /\ reply.result = "unavailable")
                            THEN SideLimit
                            ELSE sidecalls + 1
        /\ phase' = IF reply.result = "raised" /\ phase = "SANITIZE" THEN "failed" ELSE phase
    /\ UNCHANGED << settings, task, guard, books, history, saved >>

NodeAfter(n) ==
    LET i == CHOOSE j \in DOMAIN CallingNode : CallingNode[j] = n IN
    IF i = Len(CallingNode) THEN "done" ELSE CallingNode[i + 1]

\* runner.run: the guard is asked between two nodes.
Advance ==
    /\ phase' = IF Allows(tokens) \/ NodeAfter(phase) = "done" THEN NodeAfter(phase) ELSE "stopped"
    /\ sidecalls' = 0

SideNodeEnds ==
    /\ phase \in SideNode
    /\ Advance
    /\ UNCHANGED << settings, task, guard, books, history, saved >>

-----------------------------------------------------------------------------
(* The thread pool.  Tasks are taken in the order they were submitted. *)

\* A bug of the kind PoolSize could have: the setting as it is.
FAULT_NO_FLOOR == setting

PoolSize == IF setting < 1 THEN 1 ELSE setting

Running(c) == task[c].pc \notin {"queued", "done", "raised"}

\* A worker of the pool is free for the first task still queued.
NextTask(c) ==
    /\ phase = "ASSESS"
    /\ task[c].pc = "queued"
    /\ \A d \in 1..(c - 1) : task[d].pc # "queued"
    /\ Cardinality({d \in Criterion : Running(d)}) < PoolSize

At(c, pc) == phase = "ASSESS" /\ task[c].pc = pc

Becomes(c, t) == task' = [task EXCEPT ![c] = t]

RequestOf(c) ==
    LET t == task[c] IN
    [kind |-> IF c \in HighStakes THEN "high_stakes" ELSE "standard",
     attempt |-> IF t.pc = "queued" THEN 0 ELSE 1,
     confidence |-> t.outcome.confidence,
     invalid |-> t.outcome.invalid,
     repair_failed |-> t.outcome.reason = "repair_failed",
     used |-> tokens, escalations |-> escalations]

\* A task that is over keeps why its criterion is unassessed, if it is, and
\* whether it was escalated (its attempt).
Over(c, reason) ==
    [NewTask EXCEPT !.pc = "done", !.attempt = task[c].attempt,
                    !.outcome = Unassessed(reason, "CHEAP")]

\* _assess_one: no call once the ceiling is reached; otherwise the first attempt,
\* on the tier the policy gives it.
Begin(c) ==
    /\ NextTask(c)
    /\ Becomes(c, IF Allows(tokens)
                    THEN [NewTask EXCEPT !.pc = "call", !.tier = SelectedTier(policy, RequestOf(c))]
                    ELSE Over(c, "budget_ceiling"))
    /\ UNCHANGED << settings, phase, sidecalls, guard, books, history, saved >>

\* After an attempt.  The outcome of the second replaces the first's, whatever
\* it is; the first may be routed again.
Concluded(c, outcome) ==
    IF task[c].attempt = 1
        THEN Over(c, outcome.reason)
        ELSE [NewTask EXCEPT !.pc = "route", !.tier = task[c].tier, !.outcome = outcome]

\* _attempt, up to the answer.  A refusal is not recorded; its outcome names the
\* cheap tier whichever was asked.
Call(c) ==
    /\ At(c, "call")
    /\ \E reply \in StructuredGenerate :
        /\ billed' = billed + reply.paid
        /\ unsaid' = unsaid + (reply.paid - reply.told)
        /\ unsaid' <= MaxUnsaid
        /\ Becomes(c,
              CASE reply.result = "unavailable" ->
                        Concluded(c, Unassessed("model_unavailable", "CHEAP"))
                [] reply.result = "raised" -> [NewTask EXCEPT !.pc = "raised"]
                [] OTHER -> [task[c] EXCEPT !.pc = "count", !.reported = reply.told,
                                            !.ok = reply.result = "ok"])
    /\ UNCHANGED << settings, phase, sidecalls, guard, books, saved >>

\* A bug of the kind Count could have: only an answer that validated is counted.
FaultCountAnswers(c) ==
    /\ At(c, "count")
    /\ tokens' = IF task[c].ok THEN tokens + task[c].reported ELSE tokens
    /\ Becomes(c, [task[c] EXCEPT !.pc = "store", !.seen = escalations])
    /\ UNCHANGED << settings, phase, sidecalls, escalations, books, history, saved >>

\* BudgetGuard.record: the tokens are added in one step of the interpreter; the
\* escalations are read before int() is called and written after it returns,
\* and another thread may run in between.
Count(c) ==
    /\ At(c, "count")
    /\ tokens' = tokens + task[c].reported
    /\ Becomes(c, [task[c] EXCEPT !.pc = "store", !.seen = escalations])
    /\ UNCHANGED << settings, phase, sidecalls, escalations, books, history, saved >>

Store(c) ==
    /\ At(c, "store")
    /\ escalations' = task[c].seen + task[c].attempt
    /\ Becomes(c, [task[c] EXCEPT !.pc = "ledger", !.seen = 0])
    /\ UNCHANGED << settings, phase, sidecalls, tokens, books, history, saved >>

\* record_call's two writes, in their order; either may fail, and the exception
\* ends the task.
Ledger(c) ==
    /\ At(c, "ledger")
    /\ ledger' = ledger + task[c].reported
    /\ Becomes(c, [task[c] EXCEPT !.pc = "totals"])
    /\ UNCHANGED << settings, phase, sidecalls, guard, totals, history, saved >>

\* What came back is judged once it is recorded: an answer that never validated,
\* or evidence whose spans were found or were not.
Judgements(c) ==
    IF task[c].ok
        THEN {[tier |-> task[c].tier, reason |-> "none", confidence |-> f, invalid |-> i] :
                 f \in Confidence, i \in BOOLEAN}
        ELSE {Unassessed("repair_failed", task[c].tier)}

\* Judging an answer that validated may raise: _item_from builds the Provenance
\* outside its try, and one whose last page comes before its first is refused.
Judged(c) ==
    \/ \E outcome \in Judgements(c) : Becomes(c, Concluded(c, outcome))
    \/ task[c].ok /\ Becomes(c, [NewTask EXCEPT !.pc = "raised"])

\* A bug of the kind AddUsage could have: a failed parse is no usage of the run.
FaultUsageOfAnswers(c) ==
    /\ At(c, "totals")
    /\ totals' = IF task[c].ok THEN totals + task[c].reported ELSE totals
    /\ Judged(c)
    /\ UNCHANGED << settings, phase, sidecalls, guard, ledger, history, saved >>

\* SqliteRunRepository.add_usage adds in SQL, so no thread's figure is lost.
AddUsage(c) ==
    /\ At(c, "totals")
    /\ totals' = totals + task[c].reported
    /\ Judged(c)
    /\ UNCHANGED << settings, phase, sidecalls, guard, ledger, history, saved >>

WriteFails(c) ==
    /\ At(c, "ledger") \/ At(c, "totals")
    /\ Becomes(c, [NewTask EXCEPT !.pc = "raised"])
    /\ UNCHANGED << settings, phase, sidecalls, guard, books, history, saved >>

\* The policy is asked again, with what the first attempt showed.
Route(c) ==
    /\ At(c, "route")
    /\ Becomes(c,
            IF SelectedTier(policy, RequestOf(c)) = "STRONG" /\ task[c].outcome.tier # "STRONG"
                THEN [task[c] EXCEPT !.pc = "cap"]
                ELSE Over(c, task[c].outcome.reason))
    /\ UNCHANGED << settings, phase, sidecalls, guard, books, history, saved >>

\* ... and the guard, a step later: what it counted is not reserved by asking.
Cap(c) ==
    /\ At(c, "cap")
    /\ Becomes(c, IF MayEscalate(escalations)
                    THEN [task[c] EXCEPT !.pc = "call", !.attempt = 1, !.tier = "STRONG"]
                    ELSE Over(c, task[c].outcome.reason))
    /\ UNCHANGED << settings, phase, sidecalls, guard, books, history, saved >>

TaskStep(c) ==
    \/ Begin(c) \/ Call(c) \/ Count(c) \/ Store(c) \/ Ledger(c) \/ AddUsage(c)
    \/ WriteFails(c) \/ Route(c) \/ Cap(c)

-----------------------------------------------------------------------------
(* The node waits for every task, then writes the outcomes in rubric order. *)

Settled == \A c \in Criterion : task[c].pc \in {"done", "raised"}
SomeRaised == \E c \in Criterion : task[c].pc = "raised"

\* One criterion's rows: its evidence, what was rejected of it, its assessment.
Persist ==
    /\ phase = "ASSESS" /\ Settled /\ ~SomeRaised
    /\ saved < NumCriteria
    /\ saved' = saved + 1
    /\ UNCHANGED << settings, phase, sidecalls, task, guard, books, history >>

\* A task's exception comes out of the pool once all have ended; a failed write
\* comes out of the node at once.  ASSESS is a node the run needs.
NodeFails ==
    /\ phase = "ASSESS" /\ Settled
    /\ SomeRaised \/ saved < NumCriteria
    /\ phase' = "failed"
    /\ UNCHANGED << settings, sidecalls, task, guard, books, history, saved >>

NodeEnds ==
    /\ phase = "ASSESS" /\ Settled /\ ~SomeRaised
    /\ saved = NumCriteria
    /\ Advance
    /\ UNCHANGED << settings, task, guard, books, history, saved >>

AssessNode == (\E c \in Criterion : TaskStep(c)) \/ Persist \/ NodeFails \/ NodeEnds

Next == SideCall \/ SideNodeEnds \/ AssessNode

Spec == Init /\ [][Next]_vars

\* A call comes back or times out, and the workers of a pool and the thread that
\* waits for them run on the same interpreter, which starves none of them.
Fairness ==
    /\ \A c \in Criterion : WF_vars(TaskStep(c))
    /\ WF_vars(Persist \/ NodeFails \/ NodeEnds)
    /\ WF_vars(SideNodeEnds)

FairSpec == Spec /\ Fairness

-----------------------------------------------------------------------------
(* Properties. *)

\* The most one structured_generate may cost: an answer and its repair.
MaxCall == 2 * MaxTokens

\* The most the guard may hold while it still lets a call through.
LastAllowed == IF TokenCeiling < 1 THEN 0 ELSE TokenCeiling - 1

\* Between the question and the count a thread has at most one call to record
\* that no gate stands before, so a ceiling is passed by one call a worker at
\* most, repairs included, whatever the policy (budget.py's allows, assess.py's
\* _assess_one).
CeilingOvershoot == tokens <= LastAllowed + PoolSize * MaxCall

\* The guard, the ledger and the run's totals are written in that order, and
\* once ASSESS has ended without a failure all three say the same, which is what
\* accounting.py exists for: a failed write can only leave a later one behind.
BooksAgree ==
    /\ tokens >= ledger /\ ledger >= totals
    /\ phase \in {"COMPOSE", "done"} => tokens = ledger /\ ledger = totals

\* The tokens reported to the tasks at these places, one by one: each is a task and
\* its number in the report.
Reported(places) ==
    UNION {{c} \X (1..task[c].reported) : c \in {d \in Criterion : task[d].pc \in places}}

\* What ASSESS was billed for is in the guard, on its way there, or was lost by
\* the client stack with the exception of a refusal: an answer that never
\* validated is paid for and counted all the same.
PaidIsCounted == billed = tokens + Cardinality(Reported({"count"})) + unsaid

\* With one worker, the cap on escalations holds of those a model answered: a
\* refused one is not recorded and uses none of the cap (budget.py's
\* may_escalate).  With more workers each may pass the question before another
\* has counted, and the last to store may overwrite what others counted.
Answered == {c \in Criterion : /\ task[c].attempt = 1 /\ task[c].pc = "done"
                               /\ task[c].outcome.reason # "model_unavailable"}
AloneCapHolds == PoolSize = 1 => Cardinality(Answered) <= GuardCap /\ escalations <= GuardCap

\* Whatever the setting says, the node ends: every task is taken, every call
\* comes back, and the pool drains.
AssessEnds == phase = "ASSESS" ~> phase # "ASSESS"

=============================================================================
