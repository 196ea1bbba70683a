---------------------------- MODULE AssessProofs ----------------------------
(***************************************************************************)
(* Theorems about Assess, for any rubric, any size of the pool and any     *)
(* ceiling and cap: what the guard's unlocked counters still promise, and  *)
(* what the three accounts of the calls say of each other.                 *)
(***************************************************************************)
EXTENDS Assess, FiniteSetTheorems, TLAPS

-----------------------------------------------------------------------------
(* Routing *)

LEMMA SelectsATier == ASSUME NEW p, NEW r PROVE SelectedTier(p, r) \in Tier
    BY DEF SelectedTier, Tier

LEMMA FirstRow ==
    ASSUME NEW t, NEW n \in Nat \ {0}, DOMAIN t = 1..n, t[1][1] = TRUE
    PROVE  FirstMatch(t) = t[1][2]
<1> DEFINE first(i) == t[i][1] /\ \A j \in 1..(i - 1) : ~t[j][1]
<1>1. first(1) /\ \A i \in 1..n : first(i) => i = 1
    OBVIOUS
<1> HIDE DEF first
<1>2. (CHOOSE i \in 1..n : first(i)) = 1
    BY <1>1
<1> QED BY <1>2 DEF FirstMatch, first

\* A second attempt near the ceiling is decided by the first row of the table.
LEMMA BlockedStaysCheap ==
    ASSUME NEW r, r.attempt = 1, BudgetBlocked(r)
    PROVE  SelectedTier("routed", r) = "CHEAP"
<1> DEFINE table == RoutedTable(r)
<1>1. table[1] = << r.attempt > 0 /\ BudgetBlocked(r), "budget_blocked" >> /\ DOMAIN table = 1..7
    BY DEF RoutedTable
<1>2. r.attempt > 0 /\ BudgetBlocked(r)
    OBVIOUS
<1>3. table[1] = << TRUE, "budget_blocked" >>
    BY <1>1, <1>2, Zenon
<1>4. table[1][1] = TRUE /\ table[1][2] = "budget_blocked"
    BY <1>3
<1> HIDE DEF table
<1>5. FirstMatch(table) = "budget_blocked"
  <2>1. 7 \in Nat \ {0} /\ DOMAIN table = 1..7
    BY <1>1
  <2> QED BY <2>1, <1>4, FirstRow, Zenon
<1>6. Trigger("routed", r) = "budget_blocked"
    BY <1>5 DEF Trigger, table
<1> QED BY <1>6 DEF SelectedTier, ESCALATING

\* A second attempt the routed policy sends to the strong tier is below the ceiling.
LEMMA RoutedIsBelow ==
    ASSUME NEW r, r.attempt = 1, r.used \in Nat, SelectedTier("routed", r) = "STRONG"
    PROVE  r.used < TokenCeiling
<1>1. ~BudgetBlocked(r)
    BY BlockedStaysCheap
<1> QED BY <1>1, RoutingAssumption DEF BudgetBlocked, TOKEN_CEILING_HEADROOM_PERCENT

LEMMA CheapStaysCheap == ASSUME NEW r PROVE SelectedTier("all_cheap", r) = "CHEAP"
    BY DEF SelectedTier, Trigger, ESCALATING

LEMMA StrongStaysStrong == ASSUME NEW r PROVE SelectedTier("all_strong", r) = "STRONG"
    BY DEF SelectedTier


-----------------------------------------------------------------------------
(* Types, and what a task carries *)

\* What a task reports is one call's, only a second attempt carries attempt 1, the
\* policy that is always strong has only strong attempts, and the one that is
\* always cheap never gets as far as asking the guard for a second.
Carried ==
    \A c \in Criterion :
        /\ task[c].reported <= MaxCall
        /\ task[c].pc \in {"queued", "route", "cap", "raised"} => task[c].attempt = 0
        /\ policy = "all_strong" /\ task[c].pc \in {"call", "count", "store", "ledger", "totals"}
              => task[c].tier = "STRONG"
        /\ policy = "all_cheap" => task[c].pc # "cap"

TypeInv == TypeOK /\ Carried

LEMMA MaxCallNat == MaxCall \in Nat /\ MaxTokens <= MaxCall
    BY AssessAssumption DEF MaxCall

\* What a call reports it costs, and it costs an answer and its repair at most.
LEMMA ReplyBounds ==
    ASSUME NEW reply \in StructuredGenerate
    PROVE  /\ reply.paid \in 0..MaxCall /\ reply.told \in 0..MaxCall
           /\ reply.told <= reply.paid
           /\ reply.result \in {"unavailable", "raised"} => reply.told = 0
           /\ reply.result \in {"ok", "invalid", "unavailable", "raised"}
<1>1. \A t \in CallTokens \cup {0} : t \in Nat /\ t <= MaxTokens
    BY AssessAssumption
<1>2. CASE reply \in FromCache \cup Refused \cup Accepted
    BY <1>1, <1>2, MaxCallNat, AssessAssumption DEF FromCache, Refused, Accepted, Reply
<1>3. CASE reply \in Repaired
    BY <1>1, <1>3, AssessAssumption DEF Repaired, Reply, MaxCall
<1> QED BY <1>2, <1>3 DEF StructuredGenerate

LEMMA PhaseIs == Phase = {"SANITIZE", "STRUCTURE", "ASSESS", "COMPOSE", "done", "stopped", "failed"}
<1>1. DOMAIN CallingNode = {1, 2, 3, 4}
    BY DEF CallingNode
<1>2. /\ CallingNode[1] = "SANITIZE" /\ CallingNode[2] = "STRUCTURE"
      /\ CallingNode[3] = "ASSESS" /\ CallingNode[4] = "COMPOSE"
    BY DEF CallingNode
<1> QED BY <1>1, <1>2 DEF Phase

LEMMA NodeAfterIs ==
    /\ NodeAfter("SANITIZE") = "STRUCTURE" /\ NodeAfter("STRUCTURE") = "ASSESS"
    /\ NodeAfter("ASSESS") = "COMPOSE" /\ NodeAfter("COMPOSE") = "done"
<1>1. DOMAIN CallingNode = {1, 2, 3, 4} /\ Len(CallingNode) = 4
    BY DEF CallingNode
<1>2. /\ CallingNode[1] = "SANITIZE" /\ CallingNode[2] = "STRUCTURE"
      /\ CallingNode[3] = "ASSESS" /\ CallingNode[4] = "COMPOSE"
    BY DEF CallingNode
<1>3. \A i \in {1, 2, 3, 4} : (CHOOSE j \in DOMAIN CallingNode : CallingNode[j] = CallingNode[i]) = i
    BY <1>1, <1>2
<1> QED BY <1>1, <1>2, <1>3 DEF NodeAfter

LEMMA AdvanceTypes ==
    ASSUME phase \in {"SANITIZE", "STRUCTURE", "ASSESS", "COMPOSE"}, Advance
    PROVE  phase' \in Phase /\ sidecalls' = 0
    BY NodeAfterIs, PhaseIs DEF Advance

LEMMA Numbers ==
    ASSUME TypeInv
    PROVE  /\ tokens \in Nat /\ escalations \in Nat /\ ledger \in Nat /\ totals \in Nat
           /\ billed \in Nat /\ unsaid \in Nat
           /\ \A c \in Criterion :
                /\ task[c] \in Task /\ task[c].reported \in Nat /\ task[c].seen \in Nat
                /\ task[c].attempt \in {0, 1}
    BY DEF TypeInv, TypeOK, Task

LEMMA NewTaskIs ==
    /\ NewTask \in Task /\ NewTask.pc = "queued" /\ NewTask.attempt = 0 /\ NewTask.reported = 0
    /\ NewTask.tier = "CHEAP"
    BY DEF NewTask, Task, TaskPC, Tier, Outcome, Reason, Confidence, Unassessed

LEMMA OverIs ==
    ASSUME TypeInv, NEW c \in Criterion, NEW reason \in Reason
    PROVE  /\ Over(c, reason) \in Task /\ Over(c, reason).pc = "done"
           /\ Over(c, reason).reported = 0 /\ Over(c, reason).attempt = task[c].attempt
    BY DEF TypeInv, TypeOK, Over, NewTask, Task, TaskPC, Tier, Outcome, Reason, Confidence, Unassessed

LEMMA ConcludedIs ==
    ASSUME TypeInv, NEW c \in Criterion, NEW outcome \in Outcome
    PROVE  LET t == Concluded(c, outcome)
           IN  /\ t \in Task /\ t.reported = 0
               /\ t.pc = IF task[c].attempt = 1 THEN "done" ELSE "route"
               /\ t.pc = "route" => t.attempt = 0 /\ t.outcome = outcome
<1>1. task[c].tier \in Tier /\ outcome.reason \in Reason
    BY DEF TypeInv, TypeOK, Task, Outcome
<1>2. CASE task[c].attempt = 1
    BY <1>1, <1>2, OverIs DEF Concluded
<1>3. CASE task[c].attempt # 1
    BY <1>1, <1>3 DEF Concluded, NewTask, Task, TaskPC, Tier, Outcome, Reason, Confidence, Unassessed
<1> QED BY <1>2, <1>3

LEMMA JudgementIs ==
    ASSUME TypeInv, NEW c \in Criterion, NEW outcome \in Judgements(c)
    PROVE  outcome \in Outcome /\ outcome.tier = task[c].tier /\ outcome.reason # "model_unavailable"
<1>1. task[c].tier \in Tier
    BY DEF TypeInv, TypeOK, Task
<1>2. CASE task[c].ok
  <2>1. Judgements(c) = {[tier |-> task[c].tier, reason |-> "none", confidence |-> f, invalid |-> i] :
                             f \in Confidence, i \in BOOLEAN}
    BY <1>2 DEF Judgements
  <2>2. PICK f \in Confidence, i \in BOOLEAN :
            outcome = [tier |-> task[c].tier, reason |-> "none", confidence |-> f, invalid |-> i]
    BY <2>1
  <2>3. outcome \in Outcome
    BY <1>1, <2>2 DEF Outcome, Reason
  <2> QED BY <2>2, <2>3
<1>3. CASE ~task[c].ok
  <2>1. outcome = Unassessed("repair_failed", task[c].tier)
    BY <1>3 DEF Judgements
  <2> QED BY <1>1, <2>1 DEF Outcome, Unassessed, Reason, Confidence
<1> QED BY <1>2, <1>3

LEMMA UnavailableIs ==
    Unassessed("model_unavailable", "CHEAP") \in Outcome
    BY DEF Unassessed, Outcome, Reason, Tier, Confidence

\* One task changes, to one that carries what it should.
LEMMA BecomesTypes ==
    ASSUME TypeInv, NEW c \in Criterion, NEW t \in Task, Becomes(c, t), policy' = policy,
           t.reported <= MaxCall,
           t.pc \in {"queued", "route", "cap", "raised"} => t.attempt = 0,
           policy = "all_strong" /\ t.pc \in {"call", "count", "store", "ledger", "totals"}
              => t.tier = "STRONG",
           policy = "all_cheap" => t.pc # "cap"
    PROVE  task' \in [Criterion -> Task] /\ Carried'
<1>1. task' \in [Criterion -> Task]
    BY DEF TypeInv, TypeOK, Becomes
<1>2. \A d \in Criterion : task'[d] = IF d = c THEN t ELSE task[d]
    BY DEF TypeInv, TypeOK, Becomes
<1>3. MaxCall' = MaxCall
    BY DEF MaxCall
<1>4. Carried'
    BY <1>2, <1>3 DEF TypeInv, Carried
<1> QED BY <1>1, <1>4

\* The other variables of a step of the pool keep their types one by one.
LEMMA RestTypes ==
    ASSUME TypeInv, task' \in [Criterion -> Task], Carried',
           UNCHANGED << settings, phase, sidecalls, saved >>,
           tokens' \in Nat, escalations' \in Nat, ledger' \in Nat, totals' \in Nat,
           billed' \in Nat, unsaid' \in Nat
    PROVE  TypeInv'
    BY DEF TypeInv, TypeOK, settings

LEMMA BeginTypes == ASSUME TypeInv, NEW c \in Criterion, Begin(c) PROVE TypeInv'
<1> DEFINE first == [NewTask EXCEPT !.pc = "call", !.tier = SelectedTier(policy, RequestOf(c))]
           t == IF Allows(tokens) THEN first ELSE Over(c, "budget_ceiling")
<1>1. first \in Task /\ first.reported = 0 /\ first.pc = "call"
    BY NewTaskIs, SelectsATier DEF Task, TaskPC
<1>2. policy = "all_strong" => first.tier = "STRONG"
    BY NewTaskIs, StrongStaysStrong DEF Task
<1>3. Over(c, "budget_ceiling") \in Task /\ Over(c, "budget_ceiling").pc = "done"
      /\ Over(c, "budget_ceiling").reported = 0
    BY OverIs DEF Reason
<1> HIDE DEF first
<1>4. /\ t \in Task /\ t.reported <= MaxCall /\ t.pc \in {"call", "done"}
      /\ policy = "all_strong" /\ t.pc = "call" => t.tier = "STRONG"
    BY <1>1, <1>2, <1>3, MaxCallNat
<1>5. Becomes(c, t) /\ policy' = policy
    BY DEF Begin, settings, first
<1> HIDE DEF t
<1>6. task' \in [Criterion -> Task] /\ Carried'
    BY <1>4, <1>5, BecomesTypes
<1> QED BY <1>6, Numbers, RestTypes DEF Begin, guard, books, history

\* What a call may make of its task, and of what is billed: all of it is reported
\* or lost.
LEMMA CallMakes ==
    ASSUME TypeInv, NEW c \in Criterion, Call(c)
    PROVE  \E t \in Task :
             /\ Becomes(c, t) /\ t.reported <= MaxCall
             /\ billed' + unsaid = billed + unsaid' + t.reported
             /\ \/ t.pc = "count" /\ t.attempt = task[c].attempt /\ t.tier = task[c].tier
                \/ t = Concluded(c, Unassessed("model_unavailable", "CHEAP"))
                \/ t = [NewTask EXCEPT !.pc = "raised"]
<1> PICK reply \in StructuredGenerate :
        /\ billed' = billed + reply.paid
        /\ unsaid' = unsaid + (reply.paid - reply.told)
        /\ Becomes(c, CASE reply.result = "unavailable" ->
                             Concluded(c, Unassessed("model_unavailable", "CHEAP"))
                     [] reply.result = "raised" -> [NewTask EXCEPT !.pc = "raised"]
                     [] OTHER -> [task[c] EXCEPT !.pc = "count", !.reported = reply.told,
                                                 !.ok = reply.result = "ok"])
    BY DEF Call
<1>1. /\ reply.told \in 0..MaxCall
      /\ reply.result \in {"ok", "invalid", "unavailable", "raised"}
    BY ReplyBounds
<1>5. /\ billed' + unsaid = billed + unsaid' + reply.told
      /\ reply.result \in {"unavailable", "raised"} => reply.told = 0
  <2>1. /\ reply.told \in Nat /\ reply.paid \in Nat
        /\ reply.result \in {"unavailable", "raised"} => reply.told = 0
    BY ReplyBounds, MaxCallNat
  <2>2. billed' = billed + reply.paid /\ unsaid' = unsaid + (reply.paid - reply.told)
    OBVIOUS
  <2> QED BY <2>1, <2>2, Numbers
<1>2. CASE reply.result = "unavailable"
  <2> DEFINE t == Concluded(c, Unassessed("model_unavailable", "CHEAP"))
  <2>1. t \in Task /\ t.reported = 0
    BY ConcludedIs, UnavailableIs
  <2>2. Becomes(c, t)
    BY <1>2
  <2> QED BY <1>2, <1>5, <2>1, <2>2, MaxCallNat
<1>3. CASE reply.result = "raised"
  <2> DEFINE t == [NewTask EXCEPT !.pc = "raised"]
  <2>1. t \in Task /\ t.reported = 0
    BY NewTaskIs DEF Task, TaskPC
  <2>2. Becomes(c, t)
    BY <1>3
  <2>3. t.reported <= MaxCall /\ billed' + unsaid = billed + unsaid' + t.reported
    BY <1>3, <1>5, <2>1, MaxCallNat
  <2> QED BY <2>1, <2>2, <2>3
<1>4. CASE reply.result \in {"ok", "invalid"}
  <2>1. PICK ok \in BOOLEAN : ok = (reply.result = "ok")
    BY Zenon
  <2> DEFINE t == [task[c] EXCEPT !.pc = "count", !.reported = reply.told, !.ok = ok]
  <2>2. /\ t \in Task /\ t.reported = reply.told /\ t.pc = "count"
        /\ t.attempt = task[c].attempt /\ t.tier = task[c].tier
    <3>1. task[c] \in Task /\ reply.told \in Nat
        BY <1>1, MaxCallNat DEF TypeInv, TypeOK
    <3> QED BY <3>1 DEF Task, TaskPC
  <2>3. t.reported <= MaxCall /\ billed' + unsaid = billed + unsaid' + t.reported
    BY <1>1, <1>5, <2>2, MaxCallNat
  <2>4. Becomes(c, t)
    BY <1>4, <2>1
  <2> QED BY <2>2, <2>3, <2>4
<1> QED BY <1>1, <1>2, <1>3, <1>4

LEMMA CallTypes == ASSUME TypeInv, NEW c \in Criterion, Call(c) PROVE TypeInv'
<1>1. PICK t \in Task :
        /\ Becomes(c, t) /\ t.reported <= MaxCall
        /\ \/ t.pc = "count" /\ t.attempt = task[c].attempt /\ t.tier = task[c].tier
           \/ t = Concluded(c, Unassessed("model_unavailable", "CHEAP"))
           \/ t = [NewTask EXCEPT !.pc = "raised"]
    BY CallMakes
<1>2. task[c].pc = "call" /\ UNCHANGED << settings, phase, sidecalls, guard, books, saved >>
    BY DEF Call, At
<1>3. policy = "all_strong" => task[c].tier = "STRONG"
    BY <1>2 DEF TypeInv, Carried
<1>4. /\ t.pc \in {"queued", "route", "cap", "raised"} => t.attempt = 0
      /\ t.pc # "cap"
      /\ policy = "all_strong" /\ t.pc \in {"call", "count", "store", "ledger", "totals"}
            => t.tier = "STRONG"
  <2>1. CASE t.pc = "count" /\ t.tier = task[c].tier
    BY <2>1, <1>3
  <2>2. CASE t = Concluded(c, Unassessed("model_unavailable", "CHEAP"))
    BY <2>2, ConcludedIs, UnavailableIs
  <2>3. CASE t = [NewTask EXCEPT !.pc = "raised"]
    BY <2>3, NewTaskIs DEF Task
  <2> QED BY <1>1, <2>1, <2>2, <2>3
<1>5. task' \in [Criterion -> Task] /\ Carried'
    BY <1>1, <1>2, <1>4, BecomesTypes DEF settings
<1>6. billed' \in Nat /\ unsaid' \in Nat
  <2>1. PICK reply \in StructuredGenerate :
            billed' = billed + reply.paid /\ unsaid' = unsaid + (reply.paid - reply.told)
    BY DEF Call
  <2>2. reply.paid \in Nat /\ reply.paid - reply.told \in Nat
    BY ReplyBounds, MaxCallNat
  <2> QED BY <2>1, <2>2, Numbers
<1> QED BY <1>2, <1>5, <1>6, Numbers, RestTypes DEF guard, books

\* A step of the accounting moves its task on and keeps what it carries.
LEMMA MovesOn ==
    ASSUME TypeInv, NEW c \in Criterion, NEW p \in {"store", "ledger", "totals"}, NEW n \in Nat,
           task[c].pc \in {"count", "store", "ledger"}, policy' = policy,
           Becomes(c, [task[c] EXCEPT !.pc = p, !.seen = n])
    PROVE  task' \in [Criterion -> Task] /\ Carried'
<1> DEFINE t == [task[c] EXCEPT !.pc = p, !.seen = n]
<1>1. t \in Task /\ t.pc = p /\ t.tier = task[c].tier /\ t.reported = task[c].reported
    BY DEF TypeInv, TypeOK, Task, TaskPC
<1>2. t.reported <= MaxCall /\ (policy = "all_strong" => t.tier = "STRONG")
    BY <1>1 DEF TypeInv, Carried
<1>3. Becomes(c, t)
    OBVIOUS
<1> HIDE DEF t
<1> QED BY <1>1, <1>2, <1>3, BecomesTypes

LEMMA AccountTypes ==
    ASSUME TypeInv, NEW c \in Criterion, Count(c) \/ Store(c) \/ Ledger(c) PROVE TypeInv'
<1>1. task' \in [Criterion -> Task] /\ Carried'
  <2>1. CASE Count(c)
    BY <2>1, Numbers, MovesOn DEF Count, At, settings
  <2>2. CASE Store(c)
    BY <2>2, MovesOn DEF Store, At, settings
  <2>3. CASE Ledger(c)
    <3>1. [task[c] EXCEPT !.pc = "totals"] = [task[c] EXCEPT !.pc = "totals", !.seen = task[c].seen]
        BY Numbers DEF Task
    <3> QED BY <2>3, <3>1, Numbers, MovesOn DEF Ledger, At, settings
  <2> QED BY <2>1, <2>2, <2>3
<1>2. tokens' \in Nat /\ escalations' \in Nat /\ ledger' \in Nat
    BY Numbers DEF Count, Store, Ledger, guard, books
<1> QED BY <1>1, <1>2, Numbers, RestTypes DEF Count, Store, Ledger, guard, books, history

\* What a step that ends an attempt may make of its task.
LEMMA EndsAttempt ==
    ASSUME TypeInv, NEW c \in Criterion, NEW t,
           \/ \E outcome \in Outcome : t = Concluded(c, outcome)
           \/ \E reason \in Reason : t = Over(c, reason)
           \/ t = [NewTask EXCEPT !.pc = "raised"],
           Becomes(c, t), policy' = policy
    PROVE  task' \in [Criterion -> Task] /\ Carried'
<1>1. /\ t \in Task /\ t.reported <= MaxCall /\ t.pc \in {"done", "route", "raised"}
      /\ t.pc # "done" => t.attempt = 0
  <2>1. ASSUME NEW outcome \in Outcome, t = Concluded(c, outcome) PROVE <1>1
    BY <2>1, ConcludedIs, MaxCallNat
  <2>2. ASSUME NEW reason \in Reason, t = Over(c, reason) PROVE <1>1
    BY <2>2, OverIs, MaxCallNat
  <2>3. CASE t = [NewTask EXCEPT !.pc = "raised"]
    BY <2>3, NewTaskIs, MaxCallNat DEF Task, TaskPC
  <2> QED BY <2>1, <2>2, <2>3
<1> QED BY <1>1, BecomesTypes

LEMMA AddUsageTypes == ASSUME TypeInv, NEW c \in Criterion, AddUsage(c) PROVE TypeInv'
<1>1. PICK t : /\ Becomes(c, t)
               /\ \/ \E outcome \in Outcome : t = Concluded(c, outcome)
                  \/ t = [NewTask EXCEPT !.pc = "raised"]
    BY JudgementIs DEF AddUsage, Judged
<1>2. task' \in [Criterion -> Task] /\ Carried'
    BY <1>1, EndsAttempt DEF AddUsage, settings
<1> QED BY <1>2, Numbers, RestTypes DEF AddUsage, guard, history

LEMMA WriteFailsTypes == ASSUME TypeInv, NEW c \in Criterion, WriteFails(c) PROVE TypeInv'
<1>1. task' \in [Criterion -> Task] /\ Carried'
    BY EndsAttempt DEF WriteFails, settings
<1> QED BY <1>1, Numbers, RestTypes DEF WriteFails, guard, books, history

\* Routing sends a task on to the guard only under a policy that can escalate.
LEMMA RouteTypes == ASSUME TypeInv, NEW c \in Criterion, Route(c) PROVE TypeInv'
<1>1. /\ task[c] \in Task /\ task[c].pc = "route" /\ task[c].attempt = 0
      /\ task[c].reported <= MaxCall /\ task[c].outcome.reason \in Reason
    BY DEF Route, At, TypeInv, TypeOK, Carried, Task, Outcome
<1>2. task' \in [Criterion -> Task] /\ Carried'
  <2>1. CASE SelectedTier(policy, RequestOf(c)) = "STRONG" /\ task[c].outcome.tier # "STRONG"
    <3> DEFINE t == [task[c] EXCEPT !.pc = "cap"]
    <3>1. /\ t \in Task /\ t.pc = "cap" /\ t.attempt = 0 /\ t.reported <= MaxCall
        BY <1>1 DEF Task, TaskPC
    <3>2. policy # "all_cheap"
        BY <2>1, CheapStaysCheap
    <3>3. Becomes(c, t) /\ policy' = policy
        BY <2>1 DEF Route, settings
    <3> HIDE DEF t
    <3> QED BY <3>1, <3>2, <3>3, BecomesTypes
  <2>2. CASE ~(SelectedTier(policy, RequestOf(c)) = "STRONG" /\ task[c].outcome.tier # "STRONG")
    BY <2>2, <1>1, EndsAttempt DEF Route, settings
  <2> QED BY <2>1, <2>2
<1> QED BY <1>2, Numbers, RestTypes DEF Route, guard, books, history

LEMMA CapTypes == ASSUME TypeInv, NEW c \in Criterion, Cap(c) PROVE TypeInv'
<1>1. /\ task[c] \in Task /\ task[c].reported <= MaxCall /\ task[c].outcome.reason \in Reason
    BY DEF TypeInv, TypeOK, Carried, Task, Outcome
<1>2. task' \in [Criterion -> Task] /\ Carried'
  <2>1. CASE MayEscalate(escalations)
    <3> DEFINE t == [task[c] EXCEPT !.pc = "call", !.attempt = 1, !.tier = "STRONG"]
    <3>1. t \in Task /\ t.pc = "call" /\ t.tier = "STRONG" /\ t.reported <= MaxCall
        BY <1>1 DEF Task, TaskPC, Tier
    <3>2. Becomes(c, t) /\ policy' = policy
        BY <2>1 DEF Cap, settings
    <3> HIDE DEF t
    <3> QED BY <3>1, <3>2, BecomesTypes
  <2>2. CASE ~MayEscalate(escalations)
    BY <2>2, <1>1, EndsAttempt DEF Cap, settings
  <2> QED BY <2>1, <2>2
<1> QED BY <1>2, Numbers, RestTypes DEF Cap, guard, books, history

\* The steps of the node and of the others change no task.
LEMMA NodeTypes ==
    ASSUME TypeInv, SideCall \/ SideNodeEnds \/ Persist \/ NodeFails \/ NodeEnds PROVE TypeInv'
<1>1. UNCHANGED << settings, task, guard, books, history >>
    BY DEF SideCall, SideNodeEnds, Persist, NodeFails, NodeEnds
<1>2. saved' \in 0..NumCriteria
    BY AssessAssumption DEF SideCall, SideNodeEnds, Persist, NodeFails, NodeEnds, TypeInv, TypeOK
<1>3. phase' \in Phase /\ sidecalls' \in 0..MaxSideCalls
  <2>1. CASE SideCall
    BY <2>1, PhaseIs, AssessAssumption DEF SideCall, SideLimit, TypeInv, TypeOK
  <2>2. CASE SideNodeEnds \/ NodeEnds
    BY <2>2, AdvanceTypes, AssessAssumption DEF SideNodeEnds, NodeEnds, SideNode
  <2>3. CASE Persist \/ NodeFails
    BY <2>3, PhaseIs DEF Persist, NodeFails, TypeInv, TypeOK
  <2> QED BY <2>1, <2>2, <2>3
<1> QED BY <1>1, <1>2, <1>3 DEF TypeInv, TypeOK, Carried, MaxCall, settings, guard, books, history

LEMMA TaskTypes == ASSUME TypeInv, NEW c \in Criterion, TaskStep(c) PROVE TypeInv'
    BY BeginTypes, CallTypes, AccountTypes, AddUsageTypes, WriteFailsTypes, RouteTypes, CapTypes
       DEF TaskStep

LEMMA NextTypes == TypeInv /\ [Next]_vars => TypeInv'
<1> SUFFICES ASSUME TypeInv, [Next]_vars PROVE TypeInv'
    OBVIOUS
<1>1. CASE UNCHANGED vars
    BY <1>1 DEF TypeInv, TypeOK, Carried, MaxCall, vars, settings, guard, books, history
<1> QED BY <1>1, NodeTypes, TaskTypes DEF Next, AssessNode

LEMMA InitTypes == Init => TypeInv
<1> SUFFICES ASSUME Init PROVE TypeInv
    OBVIOUS
<1>1. TypeOK
    BY NewTaskIs, PhaseIs, AssessAssumption DEF Init, TypeOK
<1>2. Carried
    BY NewTaskIs, MaxCallNat DEF Init, Carried
<1> QED BY <1>1, <1>2 DEF TypeInv

\* Every variable of the node, of its pool and of the guard has its type, for any
\* number of criteria and of workers (assess.cfg).
THEOREM AssessTypeCorrect == Spec => []TypeOK
<1>1. Spec => []TypeInv
    BY InitTypes, NextTypes, PTL DEF Spec
<1> QED BY <1>1, PTL DEF TypeInv

-----------------------------------------------------------------------------
(* The ceiling *)

Busy == {c \in Criterion : Running(c)}

\* A task whose next report no gate stands before: it is in the call or about to
\* be.  Under the policy that is always strong a refused first attempt is such a
\* task too, for the second is made whatever the guard holds.
Ungated(c) ==
    \/ task[c].pc \in {"cap", "call", "count"}
    \/ policy = "all_strong" /\ task[c].pc = "route" /\ task[c].outcome.tier # "STRONG"

InFlight == {c \in Criterion : Ungated(c)}

\* Each task in flight may still report one call.
Overshoot == tokens + MaxCall * Cardinality(InFlight) <= LastAllowed + PoolSize * MaxCall

CeilingInv == Cardinality(Busy) <= PoolSize /\ Overshoot

LEMMA PoolFacts ==
    ASSUME TypeInv
    PROVE  /\ PoolSize \in Nat \ {0} /\ LastAllowed \in Nat /\ MaxCall \in Nat
           /\ Cardinality(Busy) \in Nat /\ Cardinality(InFlight) \in Nat
           /\ IsFiniteSet(Busy) /\ IsFiniteSet(InFlight) /\ InFlight \subseteq Busy
           /\ Cardinality(InFlight) <= Cardinality(Busy)
<1>1. IsFiniteSet(Criterion)
    BY AssessAssumption, FS_Interval DEF Criterion
<1>2. InFlight \subseteq Busy /\ Busy \subseteq Criterion
    BY DEF InFlight, Ungated, Busy, Running
<1>3. setting \in Nat
    BY AssessAssumption DEF TypeInv, TypeOK
<1>4. IsFiniteSet(Busy) /\ IsFiniteSet(InFlight) /\ Cardinality(InFlight) <= Cardinality(Busy)
    BY <1>1, <1>2, FS_Subset
<1>5. Cardinality(Busy) \in Nat /\ Cardinality(InFlight) \in Nat
    BY <1>4, FS_CardinalityType
<1> QED BY <1>2, <1>3, <1>4, <1>5, MaxCallNat, RoutingAssumption DEF PoolSize, LastAllowed

Counted ==
    /\ Cardinality(Busy) \in Nat /\ Cardinality(InFlight) \in Nat
    /\ Cardinality(InFlight) <= Cardinality(Busy)

LEMMA PoolFactsNext == TypeInv' => Counted'
<1>1. TypeInv => Counted
    BY PoolFacts DEF Counted
<1> QED BY <1>1, PTL

LEMMA Times ==
    ASSUME NEW m \in Nat, NEW a \in Nat, NEW b \in Nat, a <= b
    PROVE  m * a \in Nat /\ m * a <= b * m
    OBVIOUS

\* A step after which nobody is in flight who was not, and nothing is counted.
LEMMA NobodyNew ==
    ASSUME TypeInv, TypeInv', CeilingInv, UNCHANGED << tokens, setting >>,
           Busy' \subseteq Busy, InFlight' \subseteq InFlight
    PROVE  CeilingInv'
<1> DEFINE n == Cardinality(InFlight)  k == Cardinality(InFlight)'
<1>1. n \in Nat /\ k \in Nat /\ k <= n /\ Cardinality(Busy)' <= Cardinality(Busy)
      /\ Cardinality(Busy)' \in Nat /\ Cardinality(Busy) \in Nat
  <2>1. IsFiniteSet(Busy) /\ IsFiniteSet(InFlight)
    BY PoolFacts
  <2>2. Cardinality(Busy') <= Cardinality(Busy) /\ Cardinality(InFlight') <= Cardinality(InFlight)
    BY <2>1, FS_Subset
  <2>3. IsFiniteSet(Busy') /\ IsFiniteSet(InFlight')
    BY <2>1, FS_Subset
  <2> QED BY <2>1, <2>2, <2>3, FS_CardinalityType
<1>2. PoolSize' = PoolSize /\ LastAllowed' = LastAllowed /\ MaxCall' = MaxCall /\ PoolSize \in Nat
    BY PoolFacts DEF PoolSize, LastAllowed, MaxCall
<1>3. MaxCall * k <= n * MaxCall /\ n * MaxCall = MaxCall * n /\ MaxCall * n \in Nat /\ MaxCall * k \in Nat
    BY <1>1, PoolFacts, Times
<1>4. tokens \in Nat /\ LastAllowed \in Nat /\ PoolSize * MaxCall \in Nat
    BY PoolFacts, Numbers
<1> HIDE DEF n, k
<1>5. tokens + MaxCall * n <= LastAllowed + PoolSize * MaxCall
    BY DEF CeilingInv, Overshoot, n
<1>6. tokens + MaxCall * k <= LastAllowed + PoolSize * MaxCall
    BY <1>3, <1>4, <1>5
<1>7. Overshoot'
    BY <1>2, <1>6 DEF Overshoot, k
<1> QED BY <1>1, <1>2, <1>7 DEF CeilingInv

\* A task passes a gate: whoever is in flight then, the pool is no larger.
LEMMA Gated ==
    ASSUME TypeInv, TypeInv', UNCHANGED << tokens, setting >>,
           Cardinality(Busy)' <= PoolSize, tokens < TokenCeiling
    PROVE  CeilingInv'
<1> DEFINE k == Cardinality(InFlight)'
<1>1. k \in Nat /\ k <= PoolSize /\ PoolSize \in Nat /\ MaxCall \in Nat
  <2>1. k \in Nat /\ k <= Cardinality(Busy)' /\ Cardinality(Busy)' \in Nat
    BY PoolFactsNext DEF Counted
  <2> QED BY <2>1, PoolFacts
<1>2. PoolSize' = PoolSize /\ LastAllowed' = LastAllowed /\ MaxCall' = MaxCall
    BY DEF PoolSize, LastAllowed, MaxCall
<1>3. tokens <= LastAllowed
    BY Numbers, RoutingAssumption DEF LastAllowed
<1>4. MaxCall * k <= PoolSize * MaxCall /\ MaxCall * k \in Nat
    BY <1>1, Times
<1> HIDE DEF k
<1>5. tokens + MaxCall * k <= LastAllowed + PoolSize * MaxCall
    BY <1>1, <1>3, <1>4, PoolFacts, Numbers
<1>6. Overshoot'
    BY <1>2, <1>5 DEF Overshoot, k
<1> QED BY <1>2, <1>6 DEF CeilingInv

\* One task changes: who else is busy or in flight stays so.
LEMMA OneTask ==
    ASSUME TypeInv, NEW c \in Criterion, NEW t, Becomes(c, t), policy' = policy
    PROVE  /\ task'[c] = t
           /\ Busy' \subseteq Busy \cup {c} /\ InFlight' \subseteq InFlight \cup {c}
           /\ t.pc \in {"done", "raised"} \/ c \in Busy => Busy' \subseteq Busy
           /\ t.pc \in {"store", "ledger", "totals", "done", "raised"} =>
                InFlight' \subseteq InFlight \ {c}
           /\ t.pc = "route" /\ ~(policy = "all_strong" /\ t.outcome.tier # "STRONG") =>
                InFlight' \subseteq InFlight \ {c}
<1>1. task'[c] = t /\ \A d \in Criterion \ {c} : task'[d] = task[d]
    BY DEF Becomes, TypeInv, TypeOK
<1>2. \A d \in Criterion \ {c} : (Running(d)' <=> Running(d)) /\ (Ungated(d)' <=> Ungated(d))
    BY <1>1 DEF Running, Ungated
<1>3. Running(c)' <=> t.pc \notin {"queued", "done", "raised"}
    BY <1>1 DEF Running
<1>4. Ungated(c)' <=> \/ t.pc \in {"cap", "call", "count"}
                      \/ policy = "all_strong" /\ t.pc = "route" /\ t.outcome.tier # "STRONG"
    BY <1>1 DEF Ungated
<1>5. Busy' \subseteq Busy \cup {c} /\ InFlight' \subseteq InFlight \cup {c}
    BY <1>2 DEF Busy, InFlight
<1>6. t.pc \in {"done", "raised"} \/ c \in Busy => Busy' \subseteq Busy
    BY <1>2, <1>3 DEF Busy
<1>7. ~Ungated(c)' => InFlight' \subseteq InFlight \ {c}
    BY <1>2 DEF InFlight
<1> QED BY <1>1, <1>4, <1>5, <1>6, <1>7

\* A task that begins has a worker of its own, and the guard had room.
LEMMA BeginCeiling == ASSUME TypeInv, TypeInv', CeilingInv, NEW c \in Criterion, Begin(c) PROVE CeilingInv'
<1> DEFINE t == IF Allows(tokens)
                  THEN [NewTask EXCEPT !.pc = "call", !.tier = SelectedTier(policy, RequestOf(c))]
                  ELSE Over(c, "budget_ceiling")
<1>1. /\ Becomes(c, t) /\ policy' = policy /\ setting' = setting /\ tokens' = tokens
    BY DEF Begin, settings, guard
<1>2. CASE Allows(tokens)
  <2>1. Busy' \subseteq Busy \cup {c}
    BY <1>1, OneTask
  <2>2. Cardinality(Busy) < PoolSize
    BY DEF Begin, NextTask, Busy
  <2>3. Cardinality(Busy)' <= PoolSize
    <3>1. IsFiniteSet(Busy) /\ Cardinality(Busy) \in Nat /\ PoolSize \in Nat
        BY PoolFacts
    <3>2. /\ IsFiniteSet(Busy \cup {c})
          /\ Cardinality(Busy \cup {c}) = IF c \in Busy THEN Cardinality(Busy) ELSE Cardinality(Busy) + 1
        BY <3>1, FS_AddElement
    <3>3. Cardinality(Busy') <= Cardinality(Busy \cup {c}) /\ IsFiniteSet(Busy')
        BY <2>1, <3>2, FS_Subset
    <3>4. Cardinality(Busy') \in Nat
        BY <3>3, FS_CardinalityType
    <3> QED BY <2>2, <3>1, <3>2, <3>3, <3>4
  <2>4. tokens < TokenCeiling
    BY <1>2 DEF Allows
  <2> QED BY <1>1, <2>3, <2>4, Gated
<1>3. CASE ~Allows(tokens)
  <2>1. t.pc = "done"
    BY <1>3, OverIs DEF Reason
  <2> HIDE DEF t
  <2>2. Busy' \subseteq Busy /\ InFlight' \subseteq InFlight \ {c}
    BY <1>1, <2>1, OneTask
  <2> QED BY <1>1, <2>2, NobodyNew
<1> QED BY <1>2, <1>3

\* The call was in flight; a refusal leaves it there only under the policy that is
\* always strong.
LEMMA CallCeiling == ASSUME TypeInv, TypeInv', CeilingInv, NEW c \in Criterion, Call(c) PROVE CeilingInv'
<1>1. PICK t \in Task : Becomes(c, t)
    BY CallMakes
<1>2. policy' = policy /\ setting' = setting /\ tokens' = tokens /\ task[c].pc = "call"
    BY DEF Call, settings, guard, At
<1>3. c \in Busy /\ c \in InFlight
    BY <1>2 DEF Busy, Running, InFlight, Ungated
<1>4. Busy' \subseteq Busy /\ InFlight' \subseteq InFlight
    BY <1>1, <1>2, <1>3, OneTask
<1> QED BY <1>2, <1>4, NobodyNew

\* What is counted was in flight, and is no more.
LEMMA CountCeiling == ASSUME TypeInv, TypeInv', CeilingInv, NEW c \in Criterion, Count(c) PROVE CeilingInv'
<1> DEFINE n == Cardinality(InFlight)  k == Cardinality(InFlight)'  r == task[c].reported
           t == [task[c] EXCEPT !.pc = "store", !.seen = escalations]
<1>1. /\ policy' = policy /\ setting' = setting /\ tokens' = tokens + r /\ task[c].pc = "count"
      /\ Becomes(c, t)
    BY DEF Count, settings, At
<1>2. t.pc = "store"
    BY Numbers DEF Task
<1>3. c \in Busy /\ c \in InFlight
    BY <1>1 DEF Busy, Running, InFlight, Ungated
<1> HIDE DEF t
<1>4. Busy' \subseteq Busy /\ InFlight' \subseteq InFlight \ {c}
    BY <1>1, <1>2, <1>3, OneTask
<1>5. /\ n \in Nat \ {0} /\ k \in Nat /\ k <= n - 1
      /\ Cardinality(Busy)' <= Cardinality(Busy) /\ Cardinality(Busy)' \in Nat /\ Cardinality(Busy) \in Nat
  <2>1. IsFiniteSet(Busy) /\ IsFiniteSet(InFlight) /\ Cardinality(Busy) \in Nat /\ n \in Nat
    BY PoolFacts
  <2>2. Cardinality(Busy') <= Cardinality(Busy)
    BY <1>4, <2>1, FS_Subset
  <2>3. IsFiniteSet(InFlight \ {c}) /\ Cardinality(InFlight \ {c}) = n - 1
    BY <1>3, <2>1, FS_RemoveElement
  <2>4. Cardinality(InFlight \ {c}) \in Nat
    BY <2>3, FS_CardinalityType
  <2>5. Cardinality(InFlight') <= Cardinality(InFlight \ {c})
    BY <1>4, <2>3, FS_Subset
  <2>6. k \in Nat /\ Cardinality(Busy)' \in Nat
    BY PoolFactsNext DEF Counted
  <2> QED BY <2>1, <2>2, <2>3, <2>4, <2>5, <2>6
<1>6. PoolSize' = PoolSize /\ LastAllowed' = LastAllowed /\ MaxCall' = MaxCall /\ PoolSize \in Nat
    BY <1>1, PoolFacts DEF PoolSize, LastAllowed, MaxCall
<1>7. r \in Nat /\ r <= MaxCall /\ tokens \in Nat
    BY Numbers DEF TypeInv, Carried
<1>8. tokens + MaxCall * n <= LastAllowed + PoolSize * MaxCall
    BY DEF CeilingInv, Overshoot
<1> HIDE DEF n, k, r
<1>9. (tokens + r) + MaxCall * k <= tokens + MaxCall * n
  <2>1. MaxCall * k <= (n - 1) * MaxCall /\ MaxCall * k \in Nat
    BY <1>5, Times, PoolFacts
  <2>2. (n - 1) * MaxCall + MaxCall = MaxCall * n /\ (n - 1) * MaxCall \in Nat
    BY <1>5, PoolFacts
  <2> QED BY <1>7, <2>1, <2>2, PoolFacts
<1>10. (tokens + r) + MaxCall * k <= LastAllowed + PoolSize * MaxCall
  <2>1. MaxCall * k \in Nat /\ MaxCall * n \in Nat /\ PoolSize * MaxCall \in Nat /\ LastAllowed \in Nat
    BY <1>5, PoolFacts
  <2> QED BY <1>7, <1>8, <1>9, <2>1
<1>11. Overshoot'
    BY <1>1, <1>6, <1>10 DEF Overshoot, k
<1> QED BY <1>5, <1>6, <1>11 DEF CeilingInv

\* The accounting after the count puts nobody in flight.
LEMMA AccountCeiling ==
    ASSUME TypeInv, TypeInv', CeilingInv, NEW c \in Criterion,
           Store(c) \/ Ledger(c) \/ AddUsage(c) \/ WriteFails(c)
    PROVE  CeilingInv'
<1>1. policy' = policy /\ setting' = setting /\ tokens' = tokens
    BY DEF Store, Ledger, AddUsage, WriteFails, settings, guard
<1>2. c \in Busy
    BY DEF Store, Ledger, AddUsage, WriteFails, At, Busy, Running
<1>3. CASE Store(c) \/ Ledger(c)
  <2>1. CASE Store(c)
    <3> DEFINE t == [task[c] EXCEPT !.pc = "ledger", !.seen = 0]
    <3>1. Becomes(c, t) /\ t.pc = "ledger"
        BY <2>1, Numbers DEF Store, Task
    <3> HIDE DEF t
    <3> QED BY <1>1, <1>2, <3>1, OneTask, NobodyNew
  <2>2. CASE Ledger(c)
    <3> DEFINE t == [task[c] EXCEPT !.pc = "totals"]
    <3>1. Becomes(c, t) /\ t.pc = "totals"
        BY <2>2, Numbers DEF Ledger, Task
    <3> HIDE DEF t
    <3> QED BY <1>1, <1>2, <3>1, OneTask, NobodyNew
  <2> QED BY <1>3, <2>1, <2>2
<1>4. CASE WriteFails(c)
  <2>1. PICK t : Becomes(c, t) /\ t.pc = "raised"
    BY <1>4, NewTaskIs DEF WriteFails, Task
  <2> QED BY <1>1, <1>2, <2>1, OneTask, NobodyNew
<1>5. CASE AddUsage(c)
  <2>1. policy = "all_strong" => task[c].tier = "STRONG"
    BY <1>5 DEF AddUsage, At, TypeInv, Carried
  <2>2. ASSUME NEW outcome \in Judgements(c), Becomes(c, Concluded(c, outcome)) PROVE CeilingInv'
    <3> DEFINE t == Concluded(c, outcome)
    <3>1. outcome \in Outcome /\ outcome.tier = task[c].tier
        BY <2>2, JudgementIs
    <3>2. /\ t.pc \in {"done", "route"}
          /\ t.pc = "route" => t.outcome = outcome
        BY <3>1, ConcludedIs
    <3> HIDE DEF t
    <3>3. Busy' \subseteq Busy /\ InFlight' \subseteq InFlight \ {c}
        BY <1>1, <1>2, <2>1, <2>2, <3>1, <3>2, OneTask DEF t
    <3> QED BY <1>1, <3>3, NobodyNew
  <2>3. CASE Becomes(c, [NewTask EXCEPT !.pc = "raised"])
    <3>1. PICK t : Becomes(c, t) /\ t.pc = "raised"
        BY <2>3, NewTaskIs DEF Task
    <3> QED BY <1>1, <1>2, <3>1, OneTask, NobodyNew
  <2> QED BY <1>5, <2>2, <2>3 DEF AddUsage, Judged
<1> QED BY <1>3, <1>4, <1>5

\* Routing is a gate: the routed policy asks what the guard holds before it sends a
\* task on, and the one that is always strong sends on only who was in flight.
LEMMA RouteCeiling == ASSUME TypeInv, TypeInv', CeilingInv, NEW c \in Criterion, Route(c) PROVE CeilingInv'
<1>1. /\ policy' = policy /\ setting' = setting /\ tokens' = tokens /\ task[c].pc = "route"
    BY DEF Route, settings, guard, At
<1>2. c \in Busy
    BY <1>1 DEF Busy, Running
<1>3. CASE SelectedTier(policy, RequestOf(c)) = "STRONG" /\ task[c].outcome.tier # "STRONG"
  <2>1. PICK t : Becomes(c, t)
    BY <1>3 DEF Route
  <2>2. Busy' \subseteq Busy /\ InFlight' \subseteq InFlight \cup {c}
    BY <1>1, <1>2, <2>1, OneTask
  <2>3. policy \in {"all_strong", "routed"}
    BY <1>3, CheapStaysCheap, AssessAssumption DEF TypeInv, TypeOK, PolicyId
  <2>4. CASE policy = "all_strong"
    <3>1. c \in InFlight
        BY <1>1, <1>3, <2>4 DEF InFlight, Ungated
    <3> QED BY <1>1, <2>2, <3>1, NobodyNew
  <2>5. CASE policy = "routed"
    <3>1. RequestOf(c).attempt = 1 /\ RequestOf(c).used = tokens
        BY <1>1 DEF RequestOf
    <3>2. tokens < TokenCeiling
        BY <1>3, <2>5, <3>1, Numbers, RoutedIsBelow
    <3>3. Cardinality(Busy)' <= PoolSize
        <4>1. IsFiniteSet(Busy) /\ Cardinality(Busy) \in Nat /\ PoolSize \in Nat
            BY PoolFacts
        <4>2. Cardinality(Busy') <= Cardinality(Busy) /\ IsFiniteSet(Busy')
            BY <2>2, <4>1, FS_Subset
        <4>3. Cardinality(Busy') \in Nat
            BY <4>2, FS_CardinalityType
        <4> QED BY <4>1, <4>2, <4>3 DEF CeilingInv
    <3> QED BY <1>1, <3>2, <3>3, Gated
  <2> QED BY <2>3, <2>4, <2>5
<1>4. CASE ~(SelectedTier(policy, RequestOf(c)) = "STRONG" /\ task[c].outcome.tier # "STRONG")
  <2>1. Becomes(c, Over(c, task[c].outcome.reason))
    BY <1>4 DEF Route
  <2>2. Over(c, task[c].outcome.reason).pc = "done"
    BY OverIs, Numbers DEF Task, Outcome
  <2> QED BY <1>1, <1>2, <2>1, <2>2, OneTask, NobodyNew
<1> QED BY <1>3, <1>4

LEMMA CapCeiling == ASSUME TypeInv, TypeInv', CeilingInv, NEW c \in Criterion, Cap(c) PROVE CeilingInv'
<1>1. PICK t : Becomes(c, t)
    BY DEF Cap
<1>2. policy' = policy /\ setting' = setting /\ tokens' = tokens /\ task[c].pc = "cap"
    BY DEF Cap, settings, guard, At
<1>3. c \in Busy /\ c \in InFlight
    BY <1>2 DEF Busy, Running, InFlight, Ungated
<1>4. Busy' \subseteq Busy /\ InFlight' \subseteq InFlight
    BY <1>1, <1>2, <1>3, OneTask
<1> QED BY <1>2, <1>4, NobodyNew

LEMMA NextCeiling == TypeInv /\ TypeInv' /\ CeilingInv /\ [Next]_vars => CeilingInv'
<1> SUFFICES ASSUME TypeInv, TypeInv', CeilingInv, [Next]_vars PROVE CeilingInv'
    OBVIOUS
<1>1. ASSUME NEW c \in Criterion, TaskStep(c) PROVE CeilingInv'
    BY <1>1, BeginCeiling, CallCeiling, CountCeiling, AccountCeiling, RouteCeiling, CapCeiling
       DEF TaskStep
<1>2. CASE UNCHANGED << settings, task, tokens >>
  <2>1. Busy' = Busy /\ InFlight' = InFlight /\ setting' = setting /\ tokens' = tokens
    BY <1>2 DEF Busy, Running, InFlight, Ungated, settings
  <2> QED BY <2>1, NobodyNew
<1>3. CASE UNCHANGED vars
    BY <1>2, <1>3 DEF vars, guard
<1>4. CASE SideCall \/ SideNodeEnds \/ Persist \/ NodeFails \/ NodeEnds
    BY <1>2, <1>4 DEF SideCall, SideNodeEnds, Persist, NodeFails, NodeEnds, guard
<1> QED BY <1>1, <1>3, <1>4 DEF Next, AssessNode

LEMMA InitCeiling == Init => CeilingInv
<1> SUFFICES ASSUME Init PROVE CeilingInv
    OBVIOUS
<1>1. TypeInv
    BY InitTypes
<1>2. Busy = {} /\ InFlight = {}
    BY NewTaskIs DEF Init, Busy, Running, InFlight, Ungated
<1>3. Cardinality(Busy) = 0 /\ Cardinality(InFlight) = 0
    BY <1>2, FS_EmptySet
<1>4. PoolSize * MaxCall \in Nat /\ tokens = 0 /\ MaxCall * 0 = 0
    BY <1>1, PoolFacts DEF Init
<1> QED BY <1>1, <1>3, <1>4, PoolFacts DEF CeilingInv, Overshoot

\* A ceiling is passed by one call a worker at most, repairs included, whatever the
\* policy and however the threads interleave (BudgetGuard.allows, _assess_one).
THEOREM CeilingIsKept == Spec => []CeilingOvershoot
<1>1. TypeInv /\ CeilingInv => CeilingOvershoot
  <2> SUFFICES ASSUME TypeInv, CeilingInv PROVE CeilingOvershoot
    OBVIOUS
  <2>1. MaxCall * Cardinality(InFlight) \in Nat /\ PoolSize * MaxCall \in Nat
    BY PoolFacts
  <2> QED BY <2>1, PoolFacts, Numbers DEF CeilingInv, Overshoot, CeilingOvershoot
<1>2. Spec => [](TypeInv /\ CeilingInv)
    BY InitTypes, NextTypes, InitCeiling, NextCeiling, PTL DEF Spec
<1> QED BY <1>1, <1>2, PTL

-----------------------------------------------------------------------------
(* The cap on escalations, with one worker *)

\* A second attempt a model answered and the guard has counted.
Charged ==
    Answered \cup {c \in Criterion : task[c].attempt = 1 /\ task[c].pc \in {"ledger", "totals"}}

\* What the one task at work knows of the guard: a second attempt has room until it
\* is counted, and what was read to be written back is still what the guard holds.
Room(c) ==
    /\ task[c].pc \in {"call", "count", "store"} /\ task[c].attempt = 1 => escalations < GuardCap
    /\ task[c].pc = "store" => task[c].seen = escalations

CapInv ==
    PoolSize = 1 =>
        /\ escalations <= GuardCap
        /\ \A c \in Criterion : Room(c)
        /\ Cardinality(Charged) <= escalations

LEMMA ChargedFinite ==
    /\ IsFiniteSet(Charged) /\ Cardinality(Charged) \in Nat
    /\ IsFiniteSet(Answered) /\ Cardinality(Answered) \in Nat
    /\ Cardinality(Answered) <= Cardinality(Charged)
<1>1. IsFiniteSet(Criterion)
    BY AssessAssumption, FS_Interval DEF Criterion
<1>2. Answered \subseteq Charged /\ Charged \subseteq Criterion
    BY DEF Answered, Charged
<1>3. IsFiniteSet(Charged) /\ IsFiniteSet(Answered)
    BY <1>1, <1>2, FS_Subset
<1> QED BY <1>2, <1>3, FS_Subset, FS_CardinalityType

\* With one worker nobody else is at work.
LEMMA Alone ==
    ASSUME TypeInv, CeilingInv, PoolSize = 1, NEW c \in Busy, NEW d \in Criterion \ {c}
    PROVE  task[d].pc \in {"queued", "done", "raised"}
<1>1. IsFiniteSet(Busy) /\ Cardinality(Busy) \in Nat /\ Cardinality(Busy) <= 1
    BY PoolFacts DEF CeilingInv
<1>2. IsFiniteSet(Busy \ {c}) /\ Cardinality(Busy \ {c}) = Cardinality(Busy) - 1
    BY <1>1, FS_RemoveElement
<1>3. Cardinality(Busy \ {c}) \in Nat
    BY <1>2, FS_CardinalityType
<1>4. Busy \ {c} = {}
    BY <1>1, <1>2, <1>3, FS_EmptySet
<1> QED BY <1>4 DEF Busy, Running

\* A step of one task that leaves the guard's escalations as they are, charges
\* nobody and keeps its own room.
LEMMA RoomKept ==
    ASSUME TypeInv, CapInv, NEW c \in Criterion, NEW t, Becomes(c, t), setting' = setting,
           escalations' = escalations,
           PoolSize = 1 /\ t.pc \in {"call", "count", "store"} /\ t.attempt = 1 => escalations < GuardCap,
           t.pc = "store" => t.seen = escalations,
           t.attempt = 1 /\ (t.pc \in {"ledger", "totals"}
                             \/ (t.pc = "done" /\ t.outcome.reason # "model_unavailable"))
              => c \in Charged
    PROVE  CapInv'
<1> SUFFICES ASSUME PoolSize = 1 PROVE /\ escalations' <= GuardCap
                                       /\ \A d \in Criterion : Room(d)'
                                       /\ Cardinality(Charged)' <= escalations'
    BY DEF CapInv, PoolSize
<1>1. task'[c] = t /\ \A d \in Criterion \ {c} : task'[d] = task[d]
    BY DEF Becomes, TypeInv, TypeOK
<1>2. \A d \in Criterion : Room(d)'
    BY <1>1 DEF CapInv, Room
<1>3. Charged' \subseteq Charged
  <2> SUFFICES ASSUME NEW d \in Charged' PROVE d \in Charged
    OBVIOUS
  <2>1. /\ d \in Criterion /\ task'[d].attempt = 1
        /\ \/ task'[d].pc \in {"ledger", "totals"}
           \/ task'[d].pc = "done" /\ task'[d].outcome.reason # "model_unavailable"
    BY DEF Charged, Answered
  <2>2. CASE d = c
    <3>1. /\ t.attempt = 1
          /\ \/ t.pc \in {"ledger", "totals"}
             \/ t.pc = "done" /\ t.outcome.reason # "model_unavailable"
        BY <1>1, <2>1, <2>2
    <3>2. c \in Charged
        BY <3>1
    <3> QED BY <2>2, <3>2
  <2>3. CASE d # c
    BY <1>1, <2>1, <2>3 DEF Charged, Answered
  <2> QED BY <2>2, <2>3
<1>4. Cardinality(Charged') <= Cardinality(Charged) /\ IsFiniteSet(Charged')
    BY <1>3, ChargedFinite, FS_Subset
<1>5. Cardinality(Charged)' \in Nat
    BY <1>4, FS_CardinalityType
<1> QED BY <1>2, <1>4, <1>5, ChargedFinite, Numbers, AssessAssumption DEF CapInv

\* The step that counts an escalation: it had room, and one more is charged.
LEMMA StoreCap == ASSUME TypeInv, CeilingInv, CapInv, NEW c \in Criterion, Store(c) PROVE CapInv'
<1> SUFFICES ASSUME PoolSize = 1 PROVE /\ escalations' <= GuardCap
                                       /\ \A d \in Criterion : Room(d)'
                                       /\ Cardinality(Charged)' <= escalations'
    BY DEF CapInv, PoolSize, Store, settings
<1> DEFINE t == [task[c] EXCEPT !.pc = "ledger", !.seen = 0]
<1>1. /\ Becomes(c, t) /\ escalations' = task[c].seen + task[c].attempt /\ task[c].pc = "store"
      /\ t.pc = "ledger" /\ t.attempt = task[c].attempt
    BY Numbers DEF Store, At, Task
<1> HIDE DEF t
<1>2. task'[c] = t /\ \A d \in Criterion \ {c} : task'[d] = task[d]
    BY <1>1 DEF Becomes, TypeInv, TypeOK
<1>3. Room(c) /\ task[c].seen = escalations /\ escalations <= GuardCap
    BY <1>1 DEF CapInv, Room
<1>4. escalations' <= GuardCap
    BY <1>1, <1>3, Numbers, AssessAssumption DEF Room
<1>5. \A d \in Criterion : Room(d)'
  <2>1. c \in Busy
    BY <1>1 DEF Busy, Running
  <2>2. \A d \in Criterion \ {c} : task[d].pc \in {"queued", "done", "raised"}
    BY <2>1, Alone
  <2> QED BY <1>1, <1>2, <2>2 DEF Room
<1>6. Charged' \subseteq IF task[c].attempt = 1 THEN Charged \cup {c} ELSE Charged
    BY <1>1, <1>2 DEF Charged, Answered
<1>7. Cardinality(Charged)' <= escalations'
  <2>1. CASE task[c].attempt = 1
    <3>1. /\ IsFiniteSet(Charged \cup {c})
          /\ Cardinality(Charged \cup {c}) = IF c \in Charged THEN Cardinality(Charged) ELSE Cardinality(Charged) + 1
        BY ChargedFinite, FS_AddElement
    <3>2. Cardinality(Charged') <= Cardinality(Charged \cup {c}) /\ IsFiniteSet(Charged')
        BY <1>6, <2>1, <3>1, FS_Subset
    <3>3. Cardinality(Charged') \in Nat
        BY <3>2, FS_CardinalityType
    <3> QED BY <1>1, <1>3, <2>1, <3>1, <3>2, <3>3, ChargedFinite, Numbers DEF CapInv
  <2>2. CASE task[c].attempt = 0
    <3>1. Cardinality(Charged') <= Cardinality(Charged) /\ IsFiniteSet(Charged')
        BY <1>6, <2>2, ChargedFinite, FS_Subset
    <3>2. Cardinality(Charged') \in Nat
        BY <3>1, FS_CardinalityType
    <3> QED BY <1>1, <1>3, <2>2, <3>1, <3>2, ChargedFinite, Numbers DEF CapInv
  <2> QED BY <2>1, <2>2, Numbers
<1> QED BY <1>4, <1>5, <1>7

\* An attempt that ends charges only who was.
LEMMA EndCap ==
    ASSUME TypeInv, CapInv, NEW c \in Criterion, NEW t, Becomes(c, t), setting' = setting,
           escalations' = escalations,
           \/ t.pc = "raised"
           \/ t.pc = "route" /\ t.attempt = 0
           \/ t.pc = "done" /\ (t.attempt = 0 \/ t.outcome.reason = "model_unavailable" \/ c \in Charged)
    PROVE  CapInv'
    BY RoomKept

LEMMA OverReason ==
    ASSUME NEW c, NEW reason PROVE Over(c, reason).outcome.reason = reason
    BY DEF Over, NewTask, Unassessed

LEMMA TaskCap == ASSUME TypeInv, CeilingInv, CapInv, NEW c \in Criterion, TaskStep(c) PROVE CapInv'
<1>0. setting' = setting
    BY DEF TaskStep, Begin, Call, Count, Store, Ledger, AddUsage, WriteFails, Route, Cap, settings
<1>1. CASE Begin(c)
  <2>1. CASE Allows(tokens)
    <3> DEFINE t == [NewTask EXCEPT !.pc = "call", !.tier = SelectedTier(policy, RequestOf(c))]
    <3>1. Becomes(c, t) /\ escalations' = escalations
        BY <1>1, <2>1 DEF Begin, guard
    <3>2. t.pc = "call" /\ t.attempt = 0
        BY NewTaskIs DEF Task
    <3> HIDE DEF t
    <3> QED BY <1>0, <3>1, <3>2, RoomKept
  <2>2. CASE ~Allows(tokens)
    <3>1. task[c].attempt = 0
        BY <1>1 DEF Begin, NextTask, TypeInv, Carried
    <3>2. Over(c, "budget_ceiling").pc = "done" /\ Over(c, "budget_ceiling").attempt = 0
        BY <3>1, OverIs DEF Reason
    <3> QED BY <1>0, <1>1, <2>2, <3>2, EndCap DEF Begin, guard
  <2> QED BY <2>1, <2>2
<1>2. CASE Call(c)
  <2>1. PICK t \in Task :
          /\ Becomes(c, t)
          /\ \/ t.pc = "count" /\ t.attempt = task[c].attempt
             \/ t = Concluded(c, Unassessed("model_unavailable", "CHEAP"))
             \/ t = [NewTask EXCEPT !.pc = "raised"]
    BY <1>2, CallMakes
  <2>2. escalations' = escalations /\ task[c].pc = "call"
    BY <1>2 DEF Call, At, guard
  <2>3. CASE t.pc = "count" /\ t.attempt = task[c].attempt
    <3>1. PoolSize = 1 /\ t.attempt = 1 => escalations < GuardCap
        BY <2>2, <2>3 DEF CapInv, Room
    <3> QED BY <1>0, <2>1, <2>2, <2>3, <3>1, RoomKept
  <2>4. CASE t = Concluded(c, Unassessed("model_unavailable", "CHEAP"))
    <3>1. task[c].attempt = 1 => t = Over(c, "model_unavailable")
        BY <2>4 DEF Concluded, Unassessed
    <3>2. \/ t.pc = "route" /\ t.attempt = 0
          \/ t.pc = "done" /\ t.outcome.reason = "model_unavailable"
        BY <2>4, <3>1, ConcludedIs, UnavailableIs, OverReason
    <3> QED BY <1>0, <2>1, <2>2, <3>2, EndCap
  <2>5. CASE t = [NewTask EXCEPT !.pc = "raised"]
    <3>1. t.pc = "raised"
        BY <2>5, NewTaskIs DEF Task
    <3> QED BY <1>0, <2>1, <2>2, <3>1, EndCap
  <2> QED BY <2>1, <2>3, <2>4, <2>5
<1>3. CASE Count(c)
  <2> DEFINE t == [task[c] EXCEPT !.pc = "store", !.seen = escalations]
  <2>1. Becomes(c, t) /\ escalations' = escalations /\ task[c].pc = "count"
    BY <1>3 DEF Count, At
  <2>2. t.pc = "store" /\ t.seen = escalations /\ t.attempt = task[c].attempt
    BY Numbers DEF Task
  <2>3. PoolSize = 1 /\ t.attempt = 1 => escalations < GuardCap
    BY <2>1, <2>2 DEF CapInv, Room
  <2> HIDE DEF t
  <2> QED BY <1>0, <2>1, <2>2, <2>3, RoomKept
<1>4. CASE Ledger(c)
  <2> DEFINE t == [task[c] EXCEPT !.pc = "totals"]
  <2>1. Becomes(c, t) /\ escalations' = escalations /\ task[c].pc = "ledger"
    BY <1>4 DEF Ledger, At, guard
  <2>2. t.pc = "totals" /\ t.attempt = task[c].attempt
    BY Numbers DEF Task
  <2>3. t.attempt = 1 => c \in Charged
    BY <2>1, <2>2 DEF Charged
  <2> HIDE DEF t
  <2> QED BY <1>0, <2>1, <2>2, <2>3, RoomKept
<1>5. CASE AddUsage(c)
  <2>1. escalations' = escalations /\ task[c].pc = "totals"
    BY <1>5 DEF AddUsage, At, guard
  <2>2. ASSUME NEW outcome \in Judgements(c), Becomes(c, Concluded(c, outcome)) PROVE CapInv'
    <3> DEFINE t == Concluded(c, outcome)
    <3>1. /\ t.pc = IF task[c].attempt = 1 THEN "done" ELSE "route"
          /\ t.pc = "route" => t.attempt = 0
        BY <2>2, JudgementIs, ConcludedIs
    <3>2. task[c].attempt = 1 => c \in Charged
        BY <2>1 DEF Charged
    <3> HIDE DEF t
    <3> QED BY <1>0, <2>1, <2>2, <3>1, <3>2, EndCap DEF t
  <2>3. CASE Becomes(c, [NewTask EXCEPT !.pc = "raised"])
    <3>1. PICK t : Becomes(c, t) /\ t.pc = "raised"
        BY <2>3, NewTaskIs DEF Task
    <3> QED BY <1>0, <2>1, <3>1, EndCap
  <2> QED BY <1>5, <2>2, <2>3 DEF AddUsage, Judged
<1>6. CASE WriteFails(c)
  <2>1. PICK t : Becomes(c, t) /\ t.pc = "raised"
    BY <1>6, NewTaskIs DEF WriteFails, Task
  <2> QED BY <1>0, <1>6, <2>1, EndCap DEF WriteFails, guard
<1>7. CASE Route(c) \/ Cap(c)
  <2>1. task[c].attempt = 0 /\ task[c].outcome.reason \in Reason /\ escalations' = escalations
    BY <1>7, Numbers DEF Route, Cap, At, TypeInv, Carried, guard, Task, Outcome
  <2>2. CASE Becomes(c, Over(c, task[c].outcome.reason))
    <3>1. Over(c, task[c].outcome.reason).pc = "done" /\ Over(c, task[c].outcome.reason).attempt = 0
        BY <2>1, OverIs
    <3> QED BY <1>0, <2>1, <2>2, <3>1, EndCap
  <2>3. CASE Becomes(c, [task[c] EXCEPT !.pc = "cap"])
    <3> DEFINE t == [task[c] EXCEPT !.pc = "cap"]
    <3>1. t.pc = "cap"
        BY Numbers DEF Task
    <3>2. Becomes(c, t)
        BY <2>3
    <3> HIDE DEF t
    <3> QED BY <1>0, <2>1, <3>1, <3>2, RoomKept
  <2>4. CASE MayEscalate(escalations) /\ Becomes(c, [task[c] EXCEPT !.pc = "call", !.attempt = 1, !.tier = "STRONG"])
    <3> DEFINE t == [task[c] EXCEPT !.pc = "call", !.attempt = 1, !.tier = "STRONG"]
    <3>1. t.pc = "call"
        BY Numbers DEF Task
    <3>2. Becomes(c, t) /\ escalations < GuardCap
        BY <2>4 DEF MayEscalate
    <3> HIDE DEF t
    <3> QED BY <1>0, <2>1, <3>1, <3>2, RoomKept
  <2> QED BY <1>7, <2>2, <2>3, <2>4 DEF Route, Cap
<1> QED BY <1>1, <1>2, <1>3, <1>4, <1>5, <1>6, <1>7, StoreCap DEF TaskStep

LEMMA NextCap == TypeInv /\ CeilingInv /\ CapInv /\ [Next]_vars => CapInv'
<1> SUFFICES ASSUME TypeInv, CeilingInv, CapInv, [Next]_vars PROVE CapInv'
    OBVIOUS
<1>1. CASE UNCHANGED << settings, task, escalations >>
  <2>1. Charged' = Charged /\ PoolSize' = PoolSize /\ escalations' = escalations
    BY <1>1 DEF Charged, Answered, PoolSize, settings
  <2>2. \A c \in Criterion : Room(c)' <=> Room(c)
    BY <1>1 DEF Room
  <2> QED BY <2>1, <2>2 DEF CapInv
<1>2. CASE UNCHANGED vars
    BY <1>1, <1>2 DEF vars, guard
<1>3. CASE SideCall \/ SideNodeEnds \/ Persist \/ NodeFails \/ NodeEnds
    BY <1>1, <1>3 DEF SideCall, SideNodeEnds, Persist, NodeFails, NodeEnds, guard
<1> QED BY <1>2, <1>3, TaskCap DEF Next, AssessNode

LEMMA InitCap == Init => CapInv
<1> SUFFICES ASSUME Init PROVE CapInv
    OBVIOUS
<1>1. Charged = {} /\ \A c \in Criterion : Room(c)
    BY NewTaskIs DEF Init, Charged, Answered, Room
<1> QED BY <1>1, FS_EmptySet, AssessAssumption DEF Init, CapInv

\* With one worker no more second attempts are answered than the cap allows, and the
\* guard's counter never passes it (BudgetGuard.may_escalate and record).
THEOREM AloneTheCapIsKept == Spec => []AloneCapHolds
<1>1. TypeInv /\ CapInv => AloneCapHolds
  <2> SUFFICES ASSUME TypeInv, CapInv, PoolSize = 1
               PROVE  Cardinality(Answered) <= GuardCap /\ escalations <= GuardCap
    BY DEF AloneCapHolds
  <2> QED BY ChargedFinite, Numbers, AssessAssumption DEF CapInv
<1>2. Spec => [](TypeInv /\ CeilingInv /\ CapInv)
    BY InitTypes, NextTypes, InitCeiling, NextCeiling, InitCap, NextCap, PTL DEF Spec
<1> QED BY <1>1, <1>2, PTL

-----------------------------------------------------------------------------
(* The books *)

Sum(places) == Cardinality(Reported(places))

\* What one task adds to the tokens reported at these places.
Share(t, places) == IF t.pc \in places THEN t.reported ELSE 0

\* The tokens of the tasks but one.
Others(c, places) ==
    UNION {{d} \X (1..task[d].reported) : d \in {e \in Criterion \ {c} : task[e].pc \in places}}

\* A sum of reports is the share of one task and that of the others.
LEMMA OneShare ==
    ASSUME TypeInv, NEW c \in Criterion, NEW places
    PROVE  /\ Cardinality(Others(c, places)) \in Nat
           /\ Sum(places) = Cardinality(Others(c, places)) + Share(task[c], places)
<1> DEFINE own == {c} \X (1..Share(task[c], places))
           rest == Others(c, places)
<1>1. task[c].reported \in Nat /\ Share(task[c], places) \in Nat
    BY Numbers DEF Share
<1>2. IsFiniteSet(own) /\ Cardinality(own) = Share(task[c], places)
  <2>1. IsFiniteSet(1..Share(task[c], places)) /\ Cardinality(1..Share(task[c], places)) = Share(task[c], places)
    BY <1>1, FS_Interval
  <2>2. IsFiniteSet({c}) /\ Cardinality({c}) = 1
    BY FS_Singleton
  <2>3. IsFiniteSet(own) /\ Cardinality(own) = 1 * Share(task[c], places)
    BY <2>1, <2>2, FS_Product
  <2> QED BY <1>1, <2>3
<1>3. IsFiniteSet(rest)
  <2>1. IsFiniteSet(Criterion) /\ IsFiniteSet(1..MaxCall)
    BY AssessAssumption, MaxCallNat, FS_Interval DEF Criterion
  <2>2. IsFiniteSet(Criterion \X (1..MaxCall))
    BY <2>1, FS_Product
  <2>3. \A d \in Criterion : 1..task[d].reported \subseteq 1..MaxCall
    BY Numbers, MaxCallNat DEF TypeInv, Carried
  <2>4. rest \subseteq Criterion \X (1..MaxCall)
    BY <2>3 DEF Others
  <2> QED BY <2>2, <2>4, FS_Subset
<1>4. Reported(places) = rest \cup own /\ rest \cap own = {}
  <2>1. rest \cap own = {}
    BY DEF Others
  <2>2. CASE task[c].pc \in places
    BY <2>2 DEF Others, Reported, Share
  <2>3. CASE task[c].pc \notin places
    <3>1. own = {}
        BY <2>3 DEF Share
    <3>2. {d \in Criterion : task[d].pc \in places} = {e \in Criterion \ {c} : task[e].pc \in places}
        BY <2>3
    <3> QED BY <2>1, <3>1, <3>2 DEF Others, Reported
  <2> QED BY <2>1, <2>2, <2>3
<1> HIDE DEF own, rest
<1>5. Sum(places) = Cardinality(rest) + Cardinality(own)
  <2>1. Cardinality(rest \cup own) = Cardinality(rest) + Cardinality(own) - Cardinality(rest \cap own)
    BY <1>2, <1>3, FS_Union
  <2>2. Cardinality(rest) \in Nat
    BY <1>3, FS_CardinalityType
  <2> QED BY <1>1, <1>2, <1>4, <2>1, <2>2, FS_EmptySet DEF Sum
<1> QED BY <1>2, <1>3, <1>5, FS_CardinalityType DEF rest

Shared ==
    \A c \in Criterion, places \in SUBSET TaskPC :
        /\ Cardinality(Others(c, places)) \in Nat
        /\ Sum(places) = Cardinality(Others(c, places)) + Share(task[c], places)

LEMMA SharedNext == TypeInv' => Shared'
<1>1. TypeInv => Shared
    BY OneShare DEF Shared
<1> QED BY <1>1, PTL

LEMMA SumIsNat == ASSUME TypeInv, NEW places \in SUBSET TaskPC PROVE Sum(places) \in Nat
<1>1. 1 \in Criterion
    BY AssessAssumption DEF Criterion
<1>2. /\ Cardinality(Others(1, places)) \in Nat
      /\ Sum(places) = Cardinality(Others(1, places)) + Share(task[1], places)
    BY <1>1, OneShare
<1>3. Share(task[1], places) \in Nat
    BY <1>1, Numbers DEF Share
<1> QED BY <1>2, <1>3

\* A step of one task takes its share out of a sum and puts the new one in.
LEMMA ShareMoves ==
    ASSUME TypeInv, TypeInv', NEW c \in Criterion, NEW t, Becomes(c, t), NEW places \in SUBSET TaskPC
    PROVE  /\ Sum(places) \in Nat /\ Sum(places)' \in Nat
           /\ Share(task[c], places) \in Nat /\ Share(t, places) \in Nat
           /\ Sum(places)' + Share(task[c], places)
                = Sum(places) + Share(t, places)
<1>1. task'[c] = t /\ \A d \in Criterion \ {c} : task'[d] = task[d]
    BY DEF Becomes, TypeInv, TypeOK
<1>2. Others(c, places)' = Others(c, places)
    BY <1>1 DEF Others
<1>3. /\ Cardinality(Others(c, places)) \in Nat
      /\ Sum(places) = Cardinality(Others(c, places)) + Share(task[c], places)
    BY OneShare
<1>4. Sum(places)' = Cardinality(Others(c, places))' + Share(task[c], places)'
    BY SharedNext DEF Shared
<1>5. Share(task[c], places)' = Share(t, places)
    BY <1>1 DEF Share
<1>6. Share(task[c], places) \in Nat /\ Share(t, places) \in Nat
  <2>1. task[c].reported \in Nat
    BY Numbers
  <2>2. t.reported \in Nat
    BY <1>1 DEF TypeInv, TypeOK, Task
  <2> QED BY <2>1, <2>2 DEF Share
<1> QED BY <1>2, <1>3, <1>4, <1>5, <1>6

\* Where a task is while its report is still to reach each of the books.
ToGuard == {"count"}
ToLedger == {"store", "ledger"}
ToTotals == {"totals"}

\* The guard is ahead of the ledger by what was counted and is still to be written
\* there, and the ledger of the totals likewise; a write that fails leaves the one
\* behind for good, and takes its task, and so the node, with it.
BooksInv ==
    /\ tokens >= ledger + Sum(ToLedger)
    /\ ledger >= totals + Sum(ToTotals)
    /\ ~SomeRaised =>
          /\ tokens = ledger + Sum(ToLedger)
          /\ ledger = totals + Sum(ToTotals)
    /\ phase \in {"COMPOSE", "done"} => Settled /\ ~SomeRaised

\* Every token billed is counted, about to be, or was never reported.
PaidInv == billed = tokens + Sum(ToGuard) + unsaid

BookInv == BooksInv /\ PaidInv

\* What a step of one task must do to the books to keep them in order.
LEMMA BooksKept ==
    ASSUME TypeInv, TypeInv', BookInv, NEW c \in Criterion, NEW t, Becomes(c, t),
           phase' = "ASSESS", task[c].pc # "raised",
           tokens' + ledger + Share(task[c], ToLedger) >= tokens + ledger' + Share(t, ToLedger),
           ledger' + totals + Share(task[c], ToTotals) >= ledger + totals' + Share(t, ToTotals),
           t.pc # "raised" =>
               /\ tokens' + ledger + Share(task[c], ToLedger) = tokens + ledger' + Share(t, ToLedger)
               /\ ledger' + totals + Share(task[c], ToTotals) = ledger + totals' + Share(t, ToTotals),
           billed' + tokens + unsaid + Share(task[c], ToGuard)
                = billed + tokens' + unsaid' + Share(t, ToGuard)
    PROVE  BookInv'
<1>1. task'[c] = t /\ \A d \in Criterion \ {c} : task'[d] = task[d]
    BY DEF Becomes, TypeInv, TypeOK
<1>2. (SomeRaised \/ t.pc = "raised") => SomeRaised'
    BY <1>1 DEF SomeRaised
<1>3. \A places \in {ToLedger, ToTotals, ToGuard} :
        /\ Sum(places) \in Nat /\ Sum(places)' \in Nat
        /\ Share(task[c], places) \in Nat /\ Share(t, places) \in Nat
        /\ Sum(places)' + Share(task[c], places) = Sum(places) + Share(t, places)
  <2>1. {ToLedger, ToTotals, ToGuard} \subseteq SUBSET TaskPC
    BY DEF ToLedger, ToTotals, ToGuard, TaskPC
  <2> QED BY <2>1, ShareMoves
<1>4. /\ tokens' \in Nat /\ ledger' \in Nat /\ totals' \in Nat /\ billed' \in Nat /\ unsaid' \in Nat
      /\ tokens \in Nat /\ ledger \in Nat /\ totals \in Nat /\ billed \in Nat /\ unsaid \in Nat
    BY DEF TypeInv, TypeOK
<1>5. /\ tokens >= ledger + Sum(ToLedger) /\ ledger >= totals + Sum(ToTotals)
      /\ ~SomeRaised => tokens = ledger + Sum(ToLedger) /\ ledger = totals + Sum(ToTotals)
      /\ billed = tokens + Sum(ToGuard) + unsaid
    BY DEF BookInv, BooksInv, PaidInv
<1>6. /\ tokens' >= ledger' + Sum(ToLedger)'
      /\ ~SomeRaised' => tokens' = ledger' + Sum(ToLedger)'
  <2>1. /\ Sum(ToLedger) \in Nat /\ Sum(ToLedger)' \in Nat
        /\ Share(task[c], ToLedger) \in Nat /\ Share(t, ToLedger) \in Nat
        /\ Sum(ToLedger)' + Share(task[c], ToLedger) = Sum(ToLedger) + Share(t, ToLedger)
    BY <1>3
  <2>2. tokens' + ledger + Share(task[c], ToLedger) >= tokens + ledger' + Share(t, ToLedger)
    BY <1>4, <2>1
  <2>3. ~SomeRaised' => /\ ~SomeRaised
                        /\ tokens' + ledger + Share(task[c], ToLedger)
                              = tokens + ledger' + Share(t, ToLedger)
    BY <1>2
  <2>4. tokens' >= ledger' + Sum(ToLedger)'
    BY <1>4, <1>5, <2>1, <2>2
  <2>5. ~SomeRaised' => tokens' = ledger' + Sum(ToLedger)'
    <3> SUFFICES ASSUME ~SomeRaised' PROVE tokens' = ledger' + Sum(ToLedger)'
        OBVIOUS
    <3>1. tokens = ledger + Sum(ToLedger)
        BY <1>5, <2>3
    <3>2. tokens' + ledger + Share(task[c], ToLedger) = tokens + ledger' + Share(t, ToLedger)
        BY <2>3
    <3>3. PICK a \in Nat, b \in Nat, a1 \in Nat, b1 \in Nat, sum \in Nat, sum1 \in Nat,
               out \in Nat, in \in Nat :
            /\ a = tokens /\ b = ledger /\ a1 = tokens' /\ b1 = ledger'
            /\ sum = Sum(ToLedger) /\ sum1 = Sum(ToLedger)'
            /\ out = Share(task[c], ToLedger) /\ in = Share(t, ToLedger)
        BY <1>4, <2>1
    <3>4. a = b + sum /\ sum1 + out = sum + in /\ a1 + b + out = a + b1 + in
        BY <2>1, <3>1, <3>2, <3>3
    <3>5. a1 = b1 + sum1
        BY <3>4
    <3> QED BY <3>3, <3>5
  <2> QED BY <2>4, <2>5
<1>7. /\ ledger' >= totals' + Sum(ToTotals)'
      /\ ~SomeRaised' => ledger' = totals' + Sum(ToTotals)'
  <2>1. /\ Sum(ToTotals) \in Nat /\ Sum(ToTotals)' \in Nat
        /\ Share(task[c], ToTotals) \in Nat /\ Share(t, ToTotals) \in Nat
        /\ Sum(ToTotals)' + Share(task[c], ToTotals) = Sum(ToTotals) + Share(t, ToTotals)
    BY <1>3
  <2>2. ledger' + totals + Share(task[c], ToTotals) >= ledger + totals' + Share(t, ToTotals)
    BY <1>4, <2>1
  <2>3. ~SomeRaised' => /\ ~SomeRaised
                        /\ ledger' + totals + Share(task[c], ToTotals)
                              = ledger + totals' + Share(t, ToTotals)
    BY <1>2
  <2>4. ledger' >= totals' + Sum(ToTotals)'
    BY <1>4, <1>5, <2>1, <2>2
  <2>5. ~SomeRaised' => ledger' = totals' + Sum(ToTotals)'
    <3> SUFFICES ASSUME ~SomeRaised' PROVE ledger' = totals' + Sum(ToTotals)'
        OBVIOUS
    <3>1. ledger = totals + Sum(ToTotals)
        BY <1>5, <2>3
    <3>2. ledger' + totals + Share(task[c], ToTotals) = ledger + totals' + Share(t, ToTotals)
        BY <2>3
    <3>3. PICK a \in Nat, b \in Nat, a1 \in Nat, b1 \in Nat, sum \in Nat, sum1 \in Nat,
               out \in Nat, in \in Nat :
            /\ a = ledger /\ b = totals /\ a1 = ledger' /\ b1 = totals'
            /\ sum = Sum(ToTotals) /\ sum1 = Sum(ToTotals)'
            /\ out = Share(task[c], ToTotals) /\ in = Share(t, ToTotals)
        BY <1>4, <2>1
    <3>4. a = b + sum /\ sum1 + out = sum + in /\ a1 + b + out = a + b1 + in
        BY <2>1, <3>1, <3>2, <3>3
    <3>5. a1 = b1 + sum1
        BY <3>4
    <3> QED BY <3>3, <3>5
  <2> QED BY <2>4, <2>5
<1>8. billed' = tokens' + Sum(ToGuard)' + unsaid'
  <2>1. /\ Sum(ToGuard) \in Nat /\ Sum(ToGuard)' \in Nat
        /\ Share(task[c], ToGuard) \in Nat /\ Share(t, ToGuard) \in Nat
        /\ Sum(ToGuard)' + Share(task[c], ToGuard) = Sum(ToGuard) + Share(t, ToGuard)
    BY <1>3
  <2>2. billed = tokens + Sum(ToGuard) + unsaid
    BY <1>5
  <2>3. billed' + Share(task[c], ToGuard) = tokens' + unsaid' + (Sum(ToGuard) + Share(t, ToGuard))
    BY <1>4, <2>1, <2>2
  <2>4. billed' + Share(task[c], ToGuard) = tokens' + unsaid' + (Sum(ToGuard)' + Share(task[c], ToGuard))
    BY <2>1, <2>3
  <2>5. tokens' + unsaid' \in Nat
    BY <1>4
  <2>6. billed' = (tokens' + unsaid') + Sum(ToGuard)'
    BY <1>4, <2>1, <2>4, <2>5
  <2> QED BY <1>4, <2>1, <2>6
<1> QED BY <1>6, <1>7, <1>8 DEF BookInv, BooksInv, PaidInv

\* A task that is at none of the places owes the books nothing.
LEMMA NoShare ==
    ASSUME NEW t, t.pc \in {"queued", "call", "route", "cap", "done", "raised"}
    PROVE  Share(t, ToLedger) = 0 /\ Share(t, ToTotals) = 0 /\ Share(t, ToGuard) = 0
    BY DEF Share, ToLedger, ToTotals, ToGuard

\* A task at one of the places owes it what was reported.
LEMMA ItsShare ==
    ASSUME NEW t
    PROVE  /\ Share(t, ToLedger) = IF t.pc \in {"store", "ledger"} THEN t.reported ELSE 0
           /\ Share(t, ToTotals) = IF t.pc = "totals" THEN t.reported ELSE 0
           /\ Share(t, ToGuard) = IF t.pc = "count" THEN t.reported ELSE 0
    BY DEF Share, ToLedger, ToTotals, ToGuard

\* A step of a task that owes nothing before or after it, and writes nothing.
LEMMA NothingOwed ==
    ASSUME TypeInv, TypeInv', BookInv, NEW c \in Criterion, NEW t, Becomes(c, t),
           UNCHANGED << tokens, books, history >>, phase' = "ASSESS",
           task[c].pc \in {"queued", "call", "route", "cap"},
           t.pc \in {"queued", "call", "route", "cap", "done", "raised"}
    PROVE  BookInv'
<1>1. /\ tokens' = tokens /\ ledger' = ledger /\ totals' = totals /\ billed' = billed /\ unsaid' = unsaid
    BY DEF books, history
<1> QED BY <1>1, NoShare, BooksKept, Numbers

\* A call reports what it was billed, or loses it.
LEMMA CallBooks == ASSUME TypeInv, TypeInv', BookInv, NEW c \in Criterion, Call(c) PROVE BookInv'
<1>1. PICK t \in Task :
        /\ Becomes(c, t)
        /\ billed' + unsaid = billed + unsaid' + t.reported
        /\ \/ t.pc = "count"
           \/ t = Concluded(c, Unassessed("model_unavailable", "CHEAP"))
           \/ t = [NewTask EXCEPT !.pc = "raised"]
    BY CallMakes
<1>2. /\ tokens' = tokens /\ ledger' = ledger /\ totals' = totals /\ phase' = "ASSESS"
      /\ task[c].pc = "call"
    BY DEF Call, At, guard, books
<1>3. t.pc = "count" \/ (t.pc \in {"route", "done", "raised"} /\ t.reported = 0)
  <2>1. CASE t = Concluded(c, Unassessed("model_unavailable", "CHEAP"))
    BY <2>1, ConcludedIs, UnavailableIs
  <2>2. CASE t = [NewTask EXCEPT !.pc = "raised"]
    BY <2>2, NewTaskIs DEF Task
  <2> QED BY <1>1, <2>1, <2>2
<1>4. /\ Share(task[c], ToLedger) = 0 /\ Share(task[c], ToTotals) = 0 /\ Share(task[c], ToGuard) = 0
      /\ Share(t, ToLedger) = 0 /\ Share(t, ToTotals) = 0 /\ Share(t, ToGuard) = t.reported
    BY <1>2, <1>3, ItsShare
<1>5. /\ t.reported \in Nat /\ billed' \in Nat /\ unsaid' \in Nat
    BY DEF TypeInv, TypeOK, Task
<1>6. /\ billed' + tokens + unsaid + Share(task[c], ToGuard)
            = billed + tokens' + unsaid' + Share(t, ToGuard)
      /\ tokens' + ledger + Share(task[c], ToLedger) = tokens + ledger' + Share(t, ToLedger)
      /\ ledger' + totals + Share(task[c], ToTotals) = ledger + totals' + Share(t, ToTotals)
    BY <1>1, <1>2, <1>4, <1>5, Numbers
<1>7. /\ tokens' + ledger + Share(task[c], ToLedger) >= tokens + ledger' + Share(t, ToLedger)
      /\ ledger' + totals + Share(task[c], ToTotals) >= ledger + totals' + Share(t, ToTotals)
    BY <1>2, <1>4, Numbers
<1> QED BY <1>1, <1>2, <1>6, <1>7, BooksKept

\* The three writes of an answer that came back pass what was reported from one book
\* to the next.
LEMMA AccountBooks ==
    ASSUME TypeInv, TypeInv', BookInv, NEW c \in Criterion, Count(c) \/ Store(c) \/ Ledger(c)
    PROVE  BookInv'
<1> DEFINE r == task[c].reported
<1>1. r \in Nat /\ phase' = "ASSESS" /\ billed' = billed /\ unsaid' = unsaid
    BY Numbers DEF Count, Store, Ledger, At, history
<1>2. CASE Count(c)
  <2> DEFINE t == [task[c] EXCEPT !.pc = "store", !.seen = escalations]
  <2>1. /\ Becomes(c, t) /\ task[c].pc = "count"
        /\ tokens' = tokens + r /\ ledger' = ledger /\ totals' = totals
    BY <1>2 DEF Count, At, books
  <2>2. t.pc = "store" /\ t.reported = r
    BY Numbers DEF Task
  <2> HIDE DEF t
  <2>3. /\ Share(task[c], ToLedger) = 0 /\ Share(task[c], ToTotals) = 0 /\ Share(task[c], ToGuard) = r
        /\ Share(t, ToLedger) = r /\ Share(t, ToTotals) = 0 /\ Share(t, ToGuard) = 0
    BY <2>1, <2>2, ItsShare
  <2> HIDE DEF r
  <2> QED BY <1>1, <2>1, <2>3, BooksKept, Numbers
<1>3. CASE Store(c)
  <2> DEFINE t == [task[c] EXCEPT !.pc = "ledger", !.seen = 0]
  <2>1. /\ Becomes(c, t) /\ task[c].pc = "store"
        /\ tokens' = tokens /\ ledger' = ledger /\ totals' = totals
    BY <1>3 DEF Store, At, books
  <2>2. t.pc = "ledger" /\ t.reported = r
    BY Numbers DEF Task
  <2> HIDE DEF t
  <2>3. /\ Share(task[c], ToLedger) = r /\ Share(task[c], ToTotals) = 0 /\ Share(task[c], ToGuard) = 0
        /\ Share(t, ToLedger) = r /\ Share(t, ToTotals) = 0 /\ Share(t, ToGuard) = 0
    BY <2>1, <2>2, ItsShare
  <2> HIDE DEF r
  <2> QED BY <1>1, <2>1, <2>3, BooksKept, Numbers
<1>4. CASE Ledger(c)
  <2> DEFINE t == [task[c] EXCEPT !.pc = "totals"]
  <2>1. /\ Becomes(c, t) /\ task[c].pc = "ledger"
        /\ tokens' = tokens /\ ledger' = ledger + r /\ totals' = totals
    BY <1>4 DEF Ledger, At, guard
  <2>2. t.pc = "totals" /\ t.reported = r
    BY Numbers DEF Task
  <2> HIDE DEF t
  <2>3. /\ Share(task[c], ToLedger) = r /\ Share(task[c], ToTotals) = 0 /\ Share(task[c], ToGuard) = 0
        /\ Share(t, ToLedger) = 0 /\ Share(t, ToTotals) = r /\ Share(t, ToGuard) = 0
    BY <2>1, <2>2, ItsShare
  <2> HIDE DEF r
  <2> QED BY <1>1, <2>1, <2>3, BooksKept, Numbers
<1> QED BY <1>2, <1>3, <1>4

LEMMA AddUsageBooks ==
    ASSUME TypeInv, TypeInv', BookInv, NEW c \in Criterion, AddUsage(c) PROVE BookInv'
<1> DEFINE r == task[c].reported
<1>1. /\ r \in Nat /\ phase' = "ASSESS" /\ task[c].pc = "totals"
      /\ billed' = billed /\ unsaid' = unsaid /\ tokens' = tokens /\ ledger' = ledger
      /\ totals' = totals + r
    BY Numbers DEF AddUsage, At, guard, history
<1>2. PICK t : Becomes(c, t) /\ t.pc \in {"done", "route", "raised"}
  <2>1. ASSUME NEW outcome \in Judgements(c), Becomes(c, Concluded(c, outcome))
        PROVE  \E t : Becomes(c, t) /\ t.pc \in {"done", "route", "raised"}
    <3>1. Concluded(c, outcome).pc \in {"done", "route"}
        BY JudgementIs, ConcludedIs
    <3> QED BY <2>1, <3>1
  <2>2. CASE Becomes(c, [NewTask EXCEPT !.pc = "raised"])
    BY <2>2, NewTaskIs DEF Task
  <2> QED BY <2>1, <2>2 DEF AddUsage, Judged
<1>3. /\ Share(task[c], ToLedger) = 0 /\ Share(task[c], ToTotals) = r /\ Share(task[c], ToGuard) = 0
      /\ Share(t, ToLedger) = 0 /\ Share(t, ToTotals) = 0 /\ Share(t, ToGuard) = 0
    BY <1>1, <1>2, ItsShare
<1> HIDE DEF r
<1> QED BY <1>1, <1>2, <1>3, BooksKept, Numbers

\* A write that fails leaves what it was to write out of the books behind it.
LEMMA WriteFailsBooks ==
    ASSUME TypeInv, TypeInv', BookInv, NEW c \in Criterion, WriteFails(c) PROVE BookInv'
<1> DEFINE r == task[c].reported
<1>1. /\ r \in Nat /\ phase' = "ASSESS" /\ task[c].pc \in {"ledger", "totals"}
      /\ billed' = billed /\ unsaid' = unsaid /\ tokens' = tokens /\ ledger' = ledger
      /\ totals' = totals
    BY Numbers DEF WriteFails, At, guard, books, history
<1>2. PICK t : Becomes(c, t) /\ t.pc = "raised"
    BY NewTaskIs DEF WriteFails, Task
<1>3. /\ Share(task[c], ToLedger) \in Nat /\ Share(task[c], ToTotals) \in Nat
      /\ Share(task[c], ToGuard) = 0
      /\ Share(t, ToLedger) = 0 /\ Share(t, ToTotals) = 0 /\ Share(t, ToGuard) = 0
    BY <1>1, <1>2, ItsShare
<1> QED BY <1>1, <1>2, <1>3, BooksKept, Numbers

LEMMA RouteCapBooks ==
    ASSUME TypeInv, TypeInv', BookInv, NEW c \in Criterion, Route(c) \/ Cap(c) PROVE BookInv'
<1>1. /\ task[c] \in Task /\ task[c].pc \in {"route", "cap"} /\ task[c].outcome.reason \in Reason
      /\ phase' = "ASSESS" /\ UNCHANGED << tokens, books, history >>
    BY Numbers DEF Route, Cap, At, Task, Outcome, guard
<1>2. PICK t : Becomes(c, t) /\ t.pc \in {"cap", "call", "done"}
  <2>1. CASE Becomes(c, Over(c, task[c].outcome.reason))
    BY <1>1, <2>1, OverIs
  <2>2. CASE Becomes(c, [task[c] EXCEPT !.pc = "cap"])
    BY <1>1, <2>2 DEF Task
  <2>3. CASE Becomes(c, [task[c] EXCEPT !.pc = "call", !.attempt = 1, !.tier = "STRONG"])
    <3> DEFINE t == [task[c] EXCEPT !.pc = "call", !.attempt = 1, !.tier = "STRONG"]
    <3>1. t.pc = "call"
        BY <1>1 DEF Task
    <3> QED BY <2>3, <3>1
  <2> QED BY <2>1, <2>2, <2>3 DEF Route, Cap
<1> QED BY <1>1, <1>2, NothingOwed

LEMMA BeginBooks == ASSUME TypeInv, TypeInv', BookInv, NEW c \in Criterion, Begin(c) PROVE BookInv'
<1>1. task[c].pc = "queued" /\ phase' = "ASSESS" /\ UNCHANGED << tokens, books, history >>
    BY DEF Begin, NextTask, guard
<1>2. PICK t : Becomes(c, t) /\ t.pc \in {"call", "done"}
  <2>1. CASE Becomes(c, [NewTask EXCEPT !.pc = "call", !.tier = SelectedTier(policy, RequestOf(c))])
    <3> DEFINE t == [NewTask EXCEPT !.pc = "call", !.tier = SelectedTier(policy, RequestOf(c))]
    <3>1. t.pc = "call"
        BY NewTaskIs DEF Task
    <3> QED BY <2>1, <3>1
  <2>2. CASE Becomes(c, Over(c, "budget_ceiling"))
    BY <2>2, OverIs DEF Reason
  <2> QED BY <2>1, <2>2 DEF Begin
<1> QED BY <1>1, <1>2, NothingOwed

\* The steps of the node and of the others leave the books and every task alone, and
\* COMPOSE is reached only from an ASSESS that is over and raised nothing.
LEMMA NodeBooks ==
    ASSUME TypeInv, BookInv,
           SideCall \/ SideNodeEnds \/ Persist \/ NodeFails \/ NodeEnds \/ UNCHANGED vars
    PROVE  BookInv'
<1>1. UNCHANGED << task, tokens, ledger, totals, billed, unsaid >>
    BY DEF SideCall, SideNodeEnds, Persist, NodeFails, NodeEnds, vars, guard, books, history
<1>2. /\ Sum(ToGuard)' = Sum(ToGuard)
      /\ Sum(ToLedger)' = Sum(ToLedger)
      /\ Sum(ToTotals)' = Sum(ToTotals)
      /\ SomeRaised' = SomeRaised /\ Settled' = Settled
    BY <1>1 DEF Sum, Reported, SomeRaised, Settled
<1>3. phase' \in {"COMPOSE", "done"} =>
        phase \in {"COMPOSE", "done"} \/ (Settled /\ ~SomeRaised)
  <2>1. CASE NodeEnds
    BY <2>1 DEF NodeEnds
  <2>2. CASE SideNodeEnds
    BY <2>2, NodeAfterIs DEF SideNodeEnds, SideNode, Advance
  <2>3. CASE SideCall \/ Persist \/ NodeFails \/ UNCHANGED vars
    BY <2>3 DEF SideCall, Persist, NodeFails, vars
  <2> QED BY <2>1, <2>2, <2>3
<1> QED BY <1>1, <1>2, <1>3 DEF BookInv, BooksInv, PaidInv

LEMMA NextBooks == TypeInv /\ TypeInv' /\ BookInv /\ [Next]_vars => BookInv'
    BY BeginBooks, CallBooks, AccountBooks, AddUsageBooks, WriteFailsBooks, RouteCapBooks, NodeBooks
       DEF Next, AssessNode, TaskStep

LEMMA InitBooks == Init => BookInv
<1> SUFFICES ASSUME Init PROVE BookInv
    OBVIOUS
<1>1. \A c \in Criterion : task[c].pc = "queued"
    BY NewTaskIs DEF Init
<1>2. Reported(ToGuard) = {} /\ Reported(ToLedger) = {} /\ Reported(ToTotals) = {}
    BY <1>1 DEF Reported, ToGuard, ToLedger, ToTotals
<1>3. Sum(ToGuard) = 0 /\ Sum(ToLedger) = 0 /\ Sum(ToTotals) = 0
    BY <1>2, FS_EmptySet DEF Sum
<1> QED BY <1>3 DEF Init, BookInv, BooksInv, PaidInv

\* The guard, the ledger and the run's totals are three accounts of the same calls,
\* written by any number of threads with no lock around the three, and any write may
\* fail: a later book is never ahead, and once ASSESS has ended well they agree
\* (accounting.py's record_call).
THEOREM BooksAlwaysAgree == Spec => []BooksAgree
<1>1. TypeInv /\ BookInv => BooksAgree
  <2> SUFFICES ASSUME TypeInv, BookInv PROVE BooksAgree
    OBVIOUS
  <2>1. Sum(ToLedger) \in Nat /\ Sum(ToTotals) \in Nat
    BY SumIsNat DEF TaskPC, ToLedger, ToTotals
  <2>2. tokens >= ledger /\ ledger >= totals
    BY <2>1, Numbers DEF BookInv, BooksInv
  <2>3. ASSUME phase \in {"COMPOSE", "done"} PROVE tokens = ledger /\ ledger = totals
    <3>1. Settled /\ ~SomeRaised
        BY <2>3 DEF BookInv, BooksInv
    <3>2. Reported(ToLedger) = {} /\ Reported(ToTotals) = {}
        BY <3>1 DEF Settled, Reported, ToLedger, ToTotals
    <3>3. Sum(ToLedger) = 0 /\ Sum(ToTotals) = 0
        BY <3>2, FS_EmptySet DEF Sum
    <3> QED BY <3>1, <3>3, Numbers DEF BookInv, BooksInv
  <2> QED BY <2>2, <2>3 DEF BooksAgree
<1>2. Spec => [](TypeInv /\ BookInv)
    BY InitTypes, NextTypes, InitBooks, NextBooks, PTL DEF Spec
<1> QED BY <1>1, <1>2, PTL

\* No interleaving of the threads loses a report: every token the provider charged is
\* in the guard, in a thread about to count it, or was never told to the caller
\* (BudgetGuard.record, RepairingClient).
THEOREM WhatIsPaidIsCounted == Spec => []PaidIsCounted
<1>1. BookInv => PaidIsCounted
    BY DEF BookInv, PaidInv, PaidIsCounted, Sum, ToGuard
<1>2. Spec => [](TypeInv /\ BookInv)
    BY InitTypes, NextTypes, InitBooks, NextBooks, PTL DEF Spec
<1> QED BY <1>1, <1>2, PTL

=============================================================================
