------------------------------- MODULE Rules -------------------------------
(***************************************************************************)
(* From evidence to a recommendation: what a rubric may say                *)
(* (domain/contracts/rubric.py), the state a criterion resolves to         *)
(* (domain/rules/resolve.py), the band those states make                   *)
(* (domain/rules/aggregate.py), the two callers of that function           *)
(* (pipeline/aggregate.py and use_cases/recompute_recommendation.py), and  *)
(* what the contracts refuse.                                              *)
(*                                                                         *)
(* A criterion is its position in the rubric.  Points, cutoffs and the     *)
(* coverage gate are parts of Scale, and a quotient is compared by cross   *)
(* multiplication, so nothing is rounded here as floats are.  Reasons are  *)
(* a set: the order they are shown in is left out, and so are the          *)
(* sentences of the derivation.                                            *)
(***************************************************************************)
EXTENDS Integers, Sequences, FiniteSets, SequencesExt, FiniteSetsExt

CONSTANT Scale      \* the whole of a score, of a coverage and of a criterion's points

ASSUME RulesAssumption == Scale \in Nat \ {0}

EvidenceState == {"SUPPORTED", "CONTRADICTED", "INSUFFICIENT_EVIDENCE"}
CriterionState == {"MET", "PARTIAL", "NOT_MET", "CONTRADICTED", "INSUFFICIENT_EVIDENCE"}
SCORING_STATES == CriterionState \ {"INSUFFICIENT_EVIDENCE"}
Band == {"ADVANCE", "ADVANCE_WITH_RESERVATIONS", "HOLD", "DECLINE",
         "INSUFFICIENT_INFORMATION", "MANUAL_REVIEW_REQUIRED"}
GATE_BANDS == {"INSUFFICIENT_INFORMATION", "MANUAL_REVIEW_REQUIRED"}
Kind == {"STANDARD", "HIGH_STAKES", "BLOCKER"}
SpanVerdict == {"VALID_EXACT", "VALID_NORMALIZED", "VALID_FUZZY_OCR", "INVALID_NOT_FOUND",
                "INVALID_OFFSET_MISMATCH", "INVALID_WRONG_DOCUMENT", "NOT_APPLICABLE"}
VALID_SPAN_VALIDATIONS == {"VALID_EXACT", "VALID_NORMALIZED", "VALID_FUZZY_OCR"}

-----------------------------------------------------------------------------
(* The rubric. *)

\* Criterion's validators; the points are given for the four scoring states.
CriterionAccepted(c) ==
    /\ c.weight \in 1..10
    /\ c.min_supported \in Nat
    /\ \A s \in SCORING_STATES : c.points[s] \in 0..Scale
    /\ c.kind = "BLOCKER" => c.min_supported # 0

\* RoleRubric's: something scores, and the cutoffs descend to zero.
RubricAccepted(rubric) ==
    /\ Len(rubric.criteria) \in 1..30
    /\ \A i \in DOMAIN rubric.criteria : CriterionAccepted(rubric.criteria[i])
    /\ \E i \in DOMAIN rubric.criteria : rubric.criteria[i].kind # "BLOCKER"
    /\ rubric.min_coverage \in 0..Scale
    /\ rubric.bands # << >>
    /\ \A i \in DOMAIN rubric.bands :
        /\ rubric.bands[i].band \in Band \ GATE_BANDS
        /\ rubric.bands[i].min_score \in 0..Scale
    /\ \A i, j \in DOMAIN rubric.bands : i < j =>
        /\ rubric.bands[i].min_score > rubric.bands[j].min_score
        /\ rubric.bands[i].band # rubric.bands[j].band
    /\ Last(rubric.bands).min_score = 0

-----------------------------------------------------------------------------
(* resolve_criterion. *)

\* EvidenceItem's validators: a claim cites a span and the span has a verdict,
\* absence cites nothing.
EvidenceAccepted(item) ==
    (item.state = "INSUFFICIENT_EVIDENCE") <=> (item.span = "NOT_APPLICABLE")

IsUsable(item) == item.state = "INSUFFICIENT_EVIDENCE" \/ item.span \in VALID_SPAN_VALIDATIONS

\* The evidence a criterion keeps of what its model returned, and what it sets
\* aside (assess.py), which CriterionAssessment accepts: each at the place it was
\* returned at.
Kept(items) == Restrict(items, {k \in DOMAIN items : IsUsable(items[k])})
Rejected(items) == Restrict(items, {k \in DOMAIN items : ~IsUsable(items[k])})

CountOf(items, state) == Cardinality({i \in DOMAIN items : items[i].state = state})

\* A bug of the kind TableRow could have: the conflict row below the row for
\* enough support.
FaultMetFirst(supported, contradicted, min_supported) ==
    CASE supported = 0 /\ contradicted = 0 -> << "INSUFFICIENT_EVIDENCE", "R-INSUFFICIENT" >>
      [] supported > 0 /\ supported >= min_supported -> << "MET", "R-MET" >>
      [] supported > 0 /\ supported < min_supported /\ contradicted > 0 ->
            << "CONTRADICTED", "R-CONFLICT" >>
      [] supported = 0 /\ contradicted > 0 -> << "NOT_MET", "R-NOT-MET" >>
      [] OTHER -> << "PARTIAL", "R-PARTIAL" >>

\* The table of resolve_criterion, with what its order says of each row.
TableRow(supported, contradicted, min_supported) ==
    CASE supported = 0 /\ contradicted = 0 -> << "INSUFFICIENT_EVIDENCE", "R-INSUFFICIENT" >>
      [] supported > 0 /\ contradicted > 0 -> << "CONTRADICTED", "R-CONFLICT" >>
      [] supported = 0 /\ contradicted > 0 -> << "NOT_MET", "R-NOT-MET" >>
      [] supported > 0 /\ contradicted = 0 /\ supported >= min_supported -> << "MET", "R-MET" >>
      [] OTHER -> << "PARTIAL", "R-PARTIAL" >>

\* A criterion no model was asked about is not one the document is silent on.
ResolveCriterion(items, criterion, unassessed) ==
    LET usable == Kept(items)
        row == TableRow(CountOf(usable, "SUPPORTED"), CountOf(usable, "CONTRADICTED"),
                        criterion.min_supported)
    IN  IF unassessed
          THEN [state |-> "INSUFFICIENT_EVIDENCE", rule |-> "R-UNASSESSED", unassessed |-> TRUE]
          ELSE [state |-> row[1], rule |-> row[2], unassessed |-> FALSE]

-----------------------------------------------------------------------------
(* aggregate.  `resolutions' is a function of the criteria there is one for. *)

CriterionStates(resolutions, rubric) ==
    [i \in DOMAIN rubric.criteria |->
        IF i \in DOMAIN resolutions THEN resolutions[i].state ELSE "INSUFFICIENT_EVIDENCE"]

Resolved(states) == {i \in DOMAIN states : states[i] # "INSUFFICIENT_EVIDENCE"}
Weight(rubric, S) == SumFunction([i \in S |-> rubric.criteria[i].weight])
Earned(rubric, states) ==
    SumFunction([i \in Resolved(states) |->
                    rubric.criteria[i].weight * rubric.criteria[i].points[states[i]]])

\* A bug of the kind GateShut could have: a gate set to zero lets silence by.
FaultGateOnly(rubric, states) ==
    Weight(rubric, Resolved(states)) * Scale
        < rubric.min_coverage * Weight(rubric, DOMAIN rubric.criteria)

\* Step 3.  Nothing assessed is its own case.
GateShut(rubric, states) ==
    \/ Resolved(states) = {}
    \/ Weight(rubric, Resolved(states)) * Scale
          < rubric.min_coverage * Weight(rubric, DOMAIN rubric.criteria)

\* A bug of the kind BlockerStep could have: the last blocker decides.
FaultLastDecides(found, i, state) ==
    CASE state \in {"NOT_MET", "CONTRADICTED"} ->
            [found EXCEPT !.fired = @ \cup {i}, !.band = "DECLINE"]
      [] state = "INSUFFICIENT_EVIDENCE" ->
            [found EXCEPT !.fired = @ \cup {i}, !.band = "MANUAL_REVIEW_REQUIRED",
                          !.reasons = {"blocker_unknown"}]
      [] OTHER -> found

\* Step 4, one turn of the loop of _apply_blockers: a decline found before is not
\* turned into a question.
BlockerStep(found, i, state) ==
    CASE state \in {"NOT_MET", "CONTRADICTED"} ->
            [found EXCEPT !.fired = @ \cup {i}, !.band = "DECLINE"]
      [] state = "INSUFFICIENT_EVIDENCE" ->
            IF found.band = "DECLINE"
              THEN [found EXCEPT !.fired = @ \cup {i}]
              ELSE [found EXCEPT !.fired = @ \cup {i}, !.band = "MANUAL_REVIEW_REQUIRED",
                                 !.reasons = {"blocker_unknown"}]
      [] OTHER -> found

Blockers(rubric, states) ==
    FoldLeftDomain(LAMBDA found, i : IF rubric.criteria[i].kind = "BLOCKER"
                                       THEN BlockerStep(found, i, states[i]) ELSE found,
                   [fired |-> {}, band |-> "none", reasons |-> {}], rubric.criteria)

\* Step 5: the first cutoff the score reaches.
BandFor(rubric, earned, weight) ==
    rubric.bands[CHOOSE k \in DOMAIN rubric.bands :
        /\ earned >= rubric.bands[k].min_score * weight
        /\ \A j \in 1..(k - 1) : earned < rubric.bands[j].min_score * weight].band

NoFlags == [invalid_span |-> FALSE, partial_profile |-> FALSE, budget_capped |-> FALSE]

\* Step 6.
When(condition, reason) == IF condition THEN {reason} ELSE {}

HumanReasons(states, resolutions, integrity, flags, found) ==
    UNION {found,
           When(\E i \in DOMAIN states : states[i] = "CONTRADICTED", "contradicted_criterion"),
           When(integrity # "CLEAN", "integrity_not_clean"),
           When(flags.invalid_span, "invalid_span_present"),
           When(flags.partial_profile, "partial_profile"),
           When(flags.budget_capped, "budget_capped"),
           When(\E i \in DOMAIN resolutions : resolutions[i].unassessed, "criterion_unassessed")}

\* A score is the weight earned over the weight resolved, in parts of Scale.
NoScore == << 0, 0 >>

Aggregate(resolutions, rubric, integrity, flags) ==
    LET states == CriterionStates(resolutions, rubric)
        weight == Weight(rubric, Resolved(states))
        earned == Earned(rubric, states)
        blockers == Blockers(rubric, states)
        band == IF blockers.band = "none" THEN BandFor(rubric, earned, weight) ELSE blockers.band
        reasons == HumanReasons(states, resolutions, integrity, flags, blockers.reasons)
    IN  IF GateShut(rubric, states)
          THEN [band |-> "INSUFFICIENT_INFORMATION", score |-> NoScore, states |-> states,
                fired |-> {}, human |-> TRUE, reasons |-> {"coverage_below_gate"}]
          ELSE [band |-> band, score |-> IF band \in GATE_BANDS THEN NoScore ELSE << earned, weight >>,
                states |-> states, fired |-> blockers.fired,
                human |-> reasons # {}, reasons |-> reasons]

\* Recommendation's validators; a refused one ends AGGREGATE in an exception.
RecommendationAccepted(rec) ==
    /\ rec.band \in Band
    /\ rec.score = NoScore => rec.band \in GATE_BANDS
    /\ rec.score[1] <= rec.score[2] * Scale
    /\ rec.human => rec.reasons # {}
    /\ rec.fired \subseteq DOMAIN rec.states

-----------------------------------------------------------------------------
(* The review's side. *)

\* A bug of the kind ResolutionsFrom could have: what a person decided counts as
\* assessed only where the model had said nothing.
FaultModelFirst(resolutions, overrides) ==
    [i \in DOMAIN resolutions |->
        IF i \in DOMAIN overrides /\ resolutions[i].state = "INSUFFICIENT_EVIDENCE"
          THEN [resolutions[i] EXCEPT !.state = overrides[i], !.rule = "R-REVIEWER-OVERRIDE"]
          ELSE resolutions[i]]

\* resolutions_from: an override replaces the state and the rule, and nothing of
\* why the criterion was not assessed.
ResolutionsFrom(resolutions, overrides) ==
    [i \in DOMAIN resolutions |->
        IF i \in DOMAIN overrides
          THEN [resolutions[i] EXCEPT !.state = overrides[i], !.rule = "R-REVIEWER-OVERRIDE"]
          ELSE resolutions[i]]

\* runs.invalid_span_count is created as zero, and nothing adds to it.
InvalidSpanCount == 0

\* recompute: the same aggregate; the two flags a review has answered are down,
\* and the third is read from that column.
Recompute(resolutions, overrides, rubric, integrity) ==
    Aggregate(ResolutionsFrom(resolutions, overrides), rubric, integrity,
              [NoFlags EXCEPT !.invalid_span = InvalidSpanCount > 0])

=============================================================================
