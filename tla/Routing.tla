------------------------------ MODULE Routing ------------------------------
(***************************************************************************)
(* Which tier a model call goes to: the three policies of infrastructure/  *)
(* models/routing/policies.py over the request of domain/ports/routing.py. *)
(*                                                                         *)
(* A confidence is kept as the side of the threshold it falls on, and the  *)
(* headroom fraction as the inequality between integers it stands for.     *)
(***************************************************************************)
EXTENDS Integers

CONSTANTS
    TokenCeiling,    \* settings.token_ceiling_per_run
    RouterCap        \* RoutingThresholds.max_escalations_per_candidate

ASSUME RoutingAssumption == TokenCeiling \in Int /\ RouterCap \in Nat

Tier == {"CHEAP", "STRONG"}
PolicyId == {"all_cheap", "all_strong", "routed"}
CriterionKind == {"standard", "high_stakes", "blocker"}
Confidence == {"none", "low", "enough"}

\* RoutingThresholds, as shipped.
TOKEN_CEILING_HEADROOM_PERCENT == 15
START_STRONG_FOR == {"high_stakes", "blocker"}

Request == [kind : CriterionKind, attempt : {0, 1}, confidence : Confidence,
            invalid : BOOLEAN, repair_failed : BOOLEAN,
            used : Nat, escalations : Nat]

\* token_headroom < 0.15; no dollar floor is configured and assess passes no
\* remaining_usd, so the other half of the test never fires.
BudgetBlocked(req) ==
    \/ TokenCeiling <= 0
    \/ 100 * (TokenCeiling - req.used) < TOKEN_CEILING_HEADROOM_PERCENT * TokenCeiling

RouterCapped(req) == req.escalations >= RouterCap

\* RoutedPolicy.select, as the table its comments number: the first row whose
\* condition holds decides.
RoutedTable(req) == LET again == req.attempt > 0 IN
    << << again /\ BudgetBlocked(req),                       "budget_blocked"    >>,
       << again /\ RouterCapped(req),                        "escalation_capped" >>,
       << ~again /\ req.kind \in START_STRONG_FOR,           "high_stakes"       >>,
       << again /\ req.invalid,                              "invalid_span"      >>,
       << again /\ req.confidence = "low",                   "low_confidence"    >>,
       << again /\ req.repair_failed,                        "repair_failed"     >>,
       << TRUE,                                              "initial"           >> >>

FirstMatch(table) ==
    table[CHOOSE i \in DOMAIN table : table[i][1] /\ \A j \in 1..(i - 1) : ~table[j][1]][2]

Trigger(policy, req) ==
    CASE policy = "all_cheap"  -> IF req.attempt = 0 THEN "initial" ELSE "escalation_capped"
      [] policy = "all_strong" -> "initial"
      [] policy = "routed"     -> FirstMatch(RoutedTable(req))

ESCALATING == {"high_stakes", "invalid_span", "low_confidence", "repair_failed"}

SelectedTier(policy, req) ==
    IF policy = "all_strong" \/ Trigger(policy, req) \in ESCALATING THEN "STRONG" ELSE "CHEAP"

=============================================================================
