----------------------------- MODULE Operations -----------------------------
(***************************************************************************)
(* What a deployment is told about itself: the price list in force         *)
(* (admin.py, factory.py, infrastructure/models/pricing.py), what a run    *)
(* costs by it (accounting.py, the run's totals) and the panels of the     *)
(* operations page (infrastructure/observability/metrics_sql.py).          *)
(*                                                                         *)
(* A price is a number for PER tokens; money is a whole number of the      *)
(* smallest unit kept.  A time is a number of ticks, Day of them to a day. *)
(***************************************************************************)
EXTENDS Integers, Sequences, FiniteSets, SequencesExt, FiniteSetsExt

CONSTANTS
    PER,        \* the tokens a price is quoted for
    Day         \* ticks to a day

ASSUME OperationsAssumption == PER \in Nat \ {0} /\ Day \in Nat \ {0}

-----------------------------------------------------------------------------
(* The price list. *)

ModelTier == {"CHEAP", "STRONG"}

Absent == -1    \* no price, and no cost
Junk == -2      \* what was typed is not a number, or is below zero

\* save_settings: every value is checked before any is written.
SaveSettings(stored, changes) ==
    IF \E name \in DOMAIN changes : changes[name] = Junk THEN stored
    ELSE [name \in DOMAIN stored |-> IF name \in DOMAIN changes THEN changes[name] ELSE stored[name]]

Configured(price) == price.input # Absent /\ price.output # Absent

\* A bug of the kind PricingFor could have: a tier without a price of the admin
\* page's takes the file's.
FaultTierByTier(stored, file) ==
    [tier \in ModelTier |->
        LET typed == [input |-> stored[<< tier, "input" >>], output |-> stored[<< tier, "output" >>], cached |-> Absent]
        IN  IF Configured(typed) THEN typed ELSE file[tier]]

\* pricing_for: the admin page's prices if any tier has both of its, else the
\* file's.  The page has no rate for cached tokens.
PricingFor(stored, file) ==
    LET typed == [tier \in ModelTier |-> [input |-> stored[<< tier, "input" >>],
                                          output |-> stored[<< tier, "output" >>], cached |-> Absent]]
    IN  IF \E tier \in ModelTier : Configured(typed[tier]) THEN typed ELSE file

-----------------------------------------------------------------------------
(* What a run costs. *)

RoundHalfUp(n, unit) == (2 * n + unit) \div (2 * unit)

\* cost_of.  Cached tokens that have no rate of their own are charged nothing.
CostOf(price, call) ==
    LET billable == Max({call.input - call.cached, 0})
        cached == IF price.cached = Absent THEN 0 ELSE call.cached * price.cached
    IN  IF ~Configured(price) THEN Absent
        ELSE RoundHalfUp(billable * price.input + call.output * price.output + cached, PER)

\* add_usage: what is not known is not added, to a total that may be known.
AddCost(total, cost) ==
    IF cost = Absent THEN total ELSE (IF total = Absent THEN 0 ELSE total) + cost

RunCost(calls, pricing) ==
    FoldLeft(LAMBDA total, call : AddCost(total, CostOf(pricing[call.tier], call)), Absent, calls)

\* cost_by_policy, of one policy's runs: SUM leaves NULL out, and a mean is over
\* all of them.
CostOfRuns(runs, pricing) ==
    [candidates |-> Len(runs),
     total |-> FoldLeft(LAMBDA total, calls : AddCost(total, RunCost(calls, pricing)), Absent, runs)]

\* format_cost: a figure, or that there is none.
Shown(cost) == IF cost = Absent THEN << >> ELSE << cost >>

-----------------------------------------------------------------------------
(* The panels of runs.  A table is a set of rows, or a sequence where two may  *)
(* be alike.                                                                  *)

Never == -1     \* no time, nothing given

\* Nearest rank, rounded as Python does, to the even one of two.
RoundHalfEven(n, unit) ==
    LET down == n \div unit
        rest == 2 * (n % unit)
    IN  IF rest < unit THEN down ELSE IF rest > unit THEN down + 1 ELSE down + (down % 2)

Percentile(values, hundredths) ==
    LET ordered == SetToSortSeq({<< values[k], k >> : k \in DOMAIN values},
                                LAMBDA a, b : a[1] < b[1] \/ (a[1] = b[1] /\ a[2] < b[2]))
        index == Min({RoundHalfEven(hundredths * (Len(values) - 1), 100), Len(values) - 1})
    IN  ordered[index + 1][1]

\* A stored time is a text with a T between the day and the hour and the one it
\* is compared with has a blank there, which is less: on the same day the stored
\* one is the later, whatever the hour.
TextBefore(time, cutoff) == time \div Day < cutoff \div Day

\* runs_by_status counts the runs of the last days by the status they have.
RunsByStatus(rows, now, days) ==
    LET recent == {r \in rows : ~TextBefore(r.started, now - Max({days, 1}) * Day)}
    IN  [s \in {r.status : r \in recent} |-> Cardinality({r \in recent : r.status = s})]

\* Statuses no run is stuck in.
SETTLED == {"READY_FOR_REVIEW", "NEEDS_REVIEW", "NEEDS_INFO", "QUARANTINED", "APPROVED",
            "REJECTED", "DELIVERED", "FAILED_TERMINAL"}

\* A bug of the kind StuckRuns could have: only what has been assessed can stop.
FaultReadOnly(rows, now, ticks) ==
    {r \in rows : /\ r.finished = Never
                  /\ r.status \notin SETTLED \cup {"CREATED", "INTAKE_OK"}
                  /\ TextBefore(r.started, now - ticks)}

StuckRuns(rows, now, ticks) ==
    {r \in rows : r.finished = Never /\ r.status \notin SETTLED /\ TextBefore(r.started, now - ticks)}

\* find_stale asks the same of the last event, of fewer statuses, as times.
FindStale(rows, now, ticks) ==
    {r \in rows : /\ r.finished = Never
                  /\ r.status \notin SETTLED \cup {"MANUAL_REVIEW_REQUIRED", "INTERRUPTED"}
                  /\ r.last < now - ticks}

-----------------------------------------------------------------------------
(* What is measured: a median and a high percentile of how many. *)

Spread(values) ==
    IF values = << >> THEN [count |-> 0]
    ELSE [count |-> Len(values), p50 |-> Percentile(values, 50), p95 |-> Percentile(values, 95)]

\* run_latency, of runs a decision has closed: the wait for the reviewer is in it.
RunLatency(runs, now, days) ==
    LET closed == SelectSeq(runs, LAMBDA r : r.finished # Never /\ ~TextBefore(r.started, now - Max({days, 1}) * Day))
    IN  Spread([k \in DOMAIN closed |-> closed[k].finished - closed[k].started])

-----------------------------------------------------------------------------
(* What is counted.  A rate is so many of so many, or nothing. *)

Rate(n, of) == IF of = 0 THEN << >> ELSE << [n |-> n, of |-> of] >>

\* GROUP BY: how many rows there are of each kind.
Tally(kinds) == [kind \in Range(kinds) |-> Cardinality({k \in DOMAIN kinds : kinds[k] = kind})]

\* The row of `assessments' a criterion leaves, from what it was read as.
AssessmentRow(reading) ==
    [escalated |-> reading.second # "none",
     trigger   |-> IF reading.second # "none" THEN reading.trigger ELSE "none",
     changed   |-> reading.second # "none" /\ reading.first # reading.second]

\* escalation_by_trigger: how often each made a criterion be read again, and how
\* often that changed the answer.
EscalationByTrigger(assessments) ==
    LET again == SelectSeq(assessments, LAMBDA a : a.escalated /\ a.trigger # "none")
        fired(t) == {k \in DOMAIN again : again[k].trigger = t}
    IN  [t \in {a.trigger : a \in Range(again)} |->
            [escalations |-> Cardinality(fired(t)),
             changed |-> Cardinality({k \in fired(t) : again[k].changed})]]

EscalationRate(assessments) ==
    Rate(Len(SelectSeq(assessments, LAMBDA a : a.escalated)), Len(assessments))

\* review_effort, of every review there was.
ReviewEffort(reviews) == Spread([k \in DOMAIN reviews |-> reviews[k].seconds])

\* The row of `runs' after its reviews: save overwrites the count with the last's.
OverrideCount(reviews) == IF reviews = << >> THEN Never ELSE Len(Last(reviews).overrides)

\* override_rate, of the runs that have a decision.
OverrideRate(runs) ==
    LET decided == SelectSeq([k \in DOMAIN runs |-> OverrideCount(runs[k])], LAMBDA n : n # Never)
    IN  [rate |-> Rate(Len(SelectSeq(decided, LAMBDA n : n > 0)), Len(decided)),
         overrides |-> FoldLeft(LAMBDA total, n : total + n, 0, decided)]

\* override_reasons, of the overrides of every review.
OverrideReasons(reviews) == Tally(FlattenSeq([k \in DOMAIN reviews |-> reviews[k].overrides]))

TrustDistribution(reviews) ==
    Tally(SelectSeq([k \in DOMAIN reviews |-> reviews[k].trust], LAMBDA t : t # Never))

=============================================================================
