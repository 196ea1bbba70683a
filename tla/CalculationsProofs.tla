-------------------------- MODULE CalculationsProofs --------------------------
(***************************************************************************)
(* What the rules, the scanners, the limit of the rate and the loader of   *)
(* the rubrics compute, for every input: every rubric the contract         *)
(* accepts and all that can be returned, every submission, every sequence  *)
(* of calls, every session of edits, saves and loads.                      *)
(*                                                                         *)
(* Each topic is proved of a question in general; that the questions the   *)
(* specification asks are of that kind makes its property an invariant.    *)
(***************************************************************************)
EXTENDS Calculations, FiniteSetTheorems, TLAPS

-----------------------------------------------------------------------------
(* Induction, folds and sums. The models sum and loop by the folds of the  *)
(* community modules and by recursive functions: each is unfolded here.    *)

\* The smaller numbers come before the greater.
Less == {p \in Nat \X Nat : p[1] < p[2]}

\* Every set of numbers has a least: what every induction below rests on.
LEMMA LessWF == IsWellFoundedOn(Less, Nat)
<1>1. IsWellFoundedOn(OpToRel(<, Nat), Nat)
  BY NatLessThanWellFounded
<1>2. OpToRel(<, Nat) = Less
  BY DEF OpToRel, Less
<1> QED BY <1>1, <1>2

\* Induction on the numbers, of a set of them.
LEMMA Induction ==
  ASSUME NEW T \in SUBSET Nat, 0 \in T, \A n \in Nat : n \in T => n + 1 \in T
  PROVE  T = Nat
<1> SUFFICES ASSUME Nat \ T # {} PROVE FALSE
  OBVIOUS
<1> DEFINE U == Nat \ T
<1>0. U \subseteq Nat /\ U # {}
  OBVIOUS
<1>a. \E n \in U : \A m \in U : ~ (<< m, n >> \in Less)
  <2> HIDE DEF U
  <2> QED BY <1>0, LessWF, WFMin
<1>1. PICK n \in U : \A m \in U : ~ (<< m, n >> \in Less)
  BY <1>a
<1>2. n # 0
  OBVIOUS
<1>3. n - 1 \in Nat /\ << n - 1, n >> \in Less
  BY <1>2 DEF Less
<1>4. n - 1 \in T
  BY <1>1, <1>3
<1> QED BY <1>3, <1>4

\* A value made by taking the elements of S one by one, as pick does, and turning the
\* value at each by step.
Foldable(S, V, base, pick, step) ==
    /\ IsFiniteSet(S)
    /\ base \in V
    /\ \A s \in SUBSET S : s # {} => pick[s] \in s
    /\ \A x \in S, v \in V : step[x][v] \in V

\* The function of all the parts of S that it is the recursion of.
IsFold(f, S, V, base, pick, step) ==
    /\ f \in [SUBSET S -> V]
    /\ \A s \in SUBSET S : f[s] = IF s = {} THEN base ELSE step[pick[s]][f[s \ {pick[s]}]]

\* There is one: what the folds of the models are unfolded by.
LEMMA FoldExists ==
  ASSUME NEW S, NEW V, NEW base, NEW pick, NEW step, Foldable(S, V, base, pick, step)
  PROVE  \E f : IsFold(f, S, V, base, pick, step)
<1> USE DEF Foldable
<1> DEFINE Upto(n) == {s \in SUBSET S : Cardinality(s) <= n}
           Folds(f, n) == \A s \in Upto(n) :
                f[s] = IF s = {} THEN base ELSE step[pick[s]][f[s \ {pick[s]}]]
           Reached == {n \in Nat : \E f \in [Upto(n) -> V] : Folds(f, n)}
<1>1. \A s \in SUBSET S : IsFiniteSet(s) /\ Cardinality(s) \in Nat /\ (s = {} <=> Cardinality(s) = 0)
  BY FS_Subset, FS_CardinalityType, FS_EmptySet
<1>2. ASSUME NEW s \in SUBSET S, s # {} PROVE Cardinality(s \ {pick[s]}) = Cardinality(s) - 1
  <2>1. pick[s] \in s /\ IsFiniteSet(s)
    BY <1>1, <1>2
  <2> QED BY <2>1, FS_RemoveElement
<1>3. 0 \in Reached
  <2>1. Upto(0) = {{}}
    BY <1>1
  <2>2. [s \in Upto(0) |-> base] \in [Upto(0) -> V] /\ Folds([s \in Upto(0) |-> base], 0)
    BY <2>1
  <2> QED BY <2>2
<1>4. ASSUME NEW n \in Nat, n \in Reached PROVE n + 1 \in Reached
  <2>1. PICK f \in [Upto(n) -> V] : Folds(f, n)
    BY <1>4
  <2> DEFINE g == [s \in Upto(n + 1) |-> IF s = {} THEN base ELSE step[pick[s]][f[s \ {pick[s]}]]]
  <2>2. \A s \in Upto(n + 1) : s # {} => s \ {pick[s]} \in Upto(n) /\ pick[s] \in S
    BY <1>1, <1>2
  <2>3. g \in [Upto(n + 1) -> V]
    <3>1. ASSUME NEW s \in Upto(n + 1), s # {} PROVE step[pick[s]][f[s \ {pick[s]}]] \in V
      <4> HIDE DEF Upto
      <4>1. f[s \ {pick[s]}] \in V
        BY <2>2, <3>1
      <4> QED BY <2>2, <3>1, <4>1
    <3> HIDE DEF Upto
    <3> QED BY <3>1
  <2>4. \A s \in Upto(n) : s \in Upto(n + 1) /\ g[s] = f[s]
    <3>1. ASSUME NEW s \in Upto(n) PROVE s \in Upto(n + 1)
      BY <1>1
    <3> HIDE DEF Upto
    <3> QED BY <2>1, <3>1
  <2>5. Folds(g, n + 1)
    <3> HIDE DEF Upto
    <3> QED BY <2>2, <2>4
  <2> HIDE DEF Upto, Folds, g
  <2> QED BY <2>3, <2>5
<1>5. Cardinality(S) \in Reached
  <2>1. Reached = Nat
    <3> HIDE DEF Reached
    <3> Reached \in SUBSET Nat
      BY DEF Reached
    <3> QED BY <1>3, <1>4, Induction
  <2> QED BY <2>1, FS_CardinalityType
<1>6. Upto(Cardinality(S)) = SUBSET S
  BY FS_Subset, FS_CardinalityType
<1> QED BY <1>5, <1>6 DEF IsFold

\* Parts of S that include none of it and, with all of a part but one, the part.
Inductive(T, S, pick) ==
    /\ IsFiniteSet(S)
    /\ T \subseteq SUBSET S
    /\ {} \in T
    /\ \A s \in SUBSET S : s # {} => pick[s] \in s
    /\ \A s \in SUBSET S : s # {} /\ s \ {pick[s]} \in T => s \in T

\* These are all its parts: induction on a finite set.
LEMMA SubsetInduction ==
  ASSUME NEW T, NEW S, NEW pick, Inductive(T, S, pick)
  PROVE  T = SUBSET S
<1> USE DEF Inductive
<1> DEFINE Reached == {n \in Nat : \A s \in SUBSET S : Cardinality(s) <= n => s \in T}
<1>1. \A s \in SUBSET S : IsFiniteSet(s) /\ Cardinality(s) \in Nat /\ (s = {} <=> Cardinality(s) = 0)
  BY FS_Subset, FS_CardinalityType, FS_EmptySet
<1>2. ASSUME NEW s \in SUBSET S, s # {} PROVE Cardinality(s \ {pick[s]}) = Cardinality(s) - 1
  <2>1. pick[s] \in s /\ IsFiniteSet(s)
    BY <1>1, <1>2
  <2> QED BY <2>1, FS_RemoveElement
<1>3. 0 \in Reached
  BY <1>1
<1>4. ASSUME NEW n \in Nat, n \in Reached PROVE n + 1 \in Reached
  <2>1. ASSUME NEW s \in SUBSET S, Cardinality(s) <= n + 1, s # {} PROVE s \in T
    <3>1. Cardinality(s \ {pick[s]}) <= n /\ s \ {pick[s]} \in SUBSET S
      BY <1>1, <1>2, <2>1
    <3>2. s \ {pick[s]} \in T
      BY <3>1, <1>4
    <3> QED BY <2>1, <3>2
  <2>2. \A s \in SUBSET S : Cardinality(s) <= n + 1 => s \in T
    BY <2>1
  <2> QED BY <2>2
<1>5. Reached = Nat
  <2> HIDE DEF Reached
  <2> Reached \in SUBSET Nat
    BY DEF Reached
  <2> QED BY <1>3, <1>4, Induction
<1> QED BY <1>1, <1>5

\* Two functions of the subsets of S that begin alike and, taking one element after
\* the other, stay alike.
StayAlike(f, g, S, pick) ==
    /\ IsFiniteSet(S)
    /\ f[{}] = g[{}]
    /\ \A s \in SUBSET S : s # {} => pick[s] \in s
    /\ \A s \in SUBSET S : s # {} /\ f[s \ {pick[s]}] = g[s \ {pick[s]}] => f[s] = g[s]

\* They are alike.
LEMMA Alike ==
  ASSUME NEW S, NEW f, NEW g, NEW pick, StayAlike(f, g, S, pick)
  PROVE  \A s \in SUBSET S : f[s] = g[s]
<1> DEFINE T == {s \in SUBSET S : f[s] = g[s]}
<1>1. Inductive(T, S, pick)
  BY DEF StayAlike, Inductive
<1>2. T = SUBSET S
  <2> HIDE DEF T
  <2> QED BY <1>1, SubsetInduction
<1> QED BY <1>2

\* The element a sum over s takes next, out of the set S it is a part of.
Pick(S) == [s \in SUBSET S |-> CHOOSE x \in s : TRUE]

\* It is one of them.
LEMMA PickPicks == ASSUME NEW S PROVE \A s \in SUBSET S : s # {} => Pick(S)[s] \in s
BY DEF Pick

\* The sums of w over the parts of S.
IsSum(f, w, S) ==
    /\ f \in [SUBSET S -> Nat]
    /\ f[{}] = 0
    /\ \A s \in SUBSET S : s # {} => f[s] = w[Pick(S)[s]] + f[s \ {Pick(S)[s]}]

\* SumFunction is such a sum.
LEMMA SumFolds ==
  ASSUME NEW S, IsFiniteSet(S), NEW w \in [S -> Nat]
  PROVE  \E f : IsSum(f, w, S) /\ SumFunction(w) = f[S]
<1> DEFINE Body(f) == [s \in SUBSET S |-> IF s = {} THEN 0
                          ELSE w[CHOOSE x \in s : TRUE] + f[s \ {CHOOSE x \in s : TRUE}]]
           pick == Pick(S)
           step == [x \in S |-> [v \in Nat |-> w[x] + v]]
<1> USE DEF Pick
<1>1. \A s \in SUBSET S : s # {} => pick[s] \in s
  BY PickPicks
<1>2. PICK f : IsFold(f, S, Nat, 0, pick, step)
  <2>1. Foldable(S, Nat, 0, pick, step)
    BY DEF Foldable
  <2> HIDE DEF pick, step
  <2> QED BY <2>1, FoldExists
<1>3. f \in [SUBSET S -> Nat]
  BY <1>2 DEF IsFold
<1>4. ASSUME NEW s \in SUBSET S PROVE f[s] = Body(f)[s]
  <2>1. CASE s = {}
    BY <2>1, <1>2 DEF IsFold
  <2>2. CASE s # {}
    <3>1. pick[s] \in S /\ s \ {pick[s]} \in SUBSET S
      BY <1>1, <2>2
    <3>2. step[pick[s]][f[s \ {pick[s]}]] = w[pick[s]] + f[s \ {pick[s]}]
      BY <3>1, <1>3
    <3>3. f[s] = step[pick[s]][f[s \ {pick[s]}]]
      BY <1>2, <2>2 DEF IsFold
    <3> QED BY <2>2, <3>2, <3>3
  <2> QED BY <2>1, <2>2
<1>5. f = Body(f)
  BY <1>3, <1>4
<1> DEFINE g == CHOOSE h : h = Body(h)
<1>6. g = Body(g)
  BY <1>5
<1>7. SumFunction(w) = g[S]
  BY DEF SumFunction, SumFunctionOnSet, FoldFunctionOnSet, MapThenFoldSet
<1>8. g = f
  <2>1. f[{}] = g[{}]
    BY <1>5, <1>6
  <2>2. ASSUME NEW s \in SUBSET S, s # {}, f[s \ {pick[s]}] = g[s \ {pick[s]}] PROVE f[s] = g[s]
    <3> HIDE DEF g
    <3>1. f[s] = w[pick[s]] + f[s \ {pick[s]}]
      BY <1>5, <2>2
    <3>2. g[s] = w[pick[s]] + g[s \ {pick[s]}]
      BY <1>6, <2>2
    <3> QED BY <2>2, <3>1, <3>2
  <2>3. \A s \in SUBSET S : f[s] = g[s]
    <3> HIDE DEF pick, g
    <3>1. StayAlike(f, g, S, pick)
      BY <1>1, <2>1, <2>2 DEF StayAlike
    <3> QED BY <3>1, Alike
  <2> HIDE DEF g
  <2> QED BY <1>3, <1>6, <2>3
<1> HIDE DEF g
<1> QED BY <1>3, <1>5, <1>7, <1>8 DEF IsSum

\* A sum of numbers is a number,
LEMMA SumIsNat ==
  ASSUME NEW S, IsFiniteSet(S), NEW w \in [S -> Nat]
  PROVE  SumFunction(w) \in Nat
<1>1. PICK f : IsSum(f, w, S) /\ SumFunction(w) = f[S]
  BY SumFolds
<1> QED BY <1>1 DEF IsSum

\* greater than none if they are,
LEMMA SumPositive ==
  ASSUME NEW S, IsFiniteSet(S), S # {}, NEW w \in [S -> Nat], \A x \in S : w[x] > 0
  PROVE  SumFunction(w) > 0
<1>1. PICK f : IsSum(f, w, S) /\ SumFunction(w) = f[S]
  BY SumFolds
<1> DEFINE x0 == Pick(S)[S]
<1>2. x0 \in S /\ f[S] = w[x0] + f[S \ {x0}]
  BY <1>1, PickPicks DEF IsSum
<1>3. f[S \ {x0}] \in Nat /\ w[x0] \in Nat /\ w[x0] > 0
  BY <1>1, <1>2 DEF IsSum
<1> HIDE DEF x0
<1> QED BY <1>1, <1>2, <1>3

\* and no more than k times another if each is no more than k times its.
LEMMA SumAtMost ==
  ASSUME NEW S, IsFiniteSet(S), NEW v \in [S -> Nat], NEW w \in [S -> Nat], NEW k \in Nat,
         \A x \in S : v[x] <= w[x] * k
  PROVE  SumFunction(v) <= SumFunction(w) * k
<1>1. PICK f : IsSum(f, v, S) /\ SumFunction(v) = f[S]
  BY SumFolds
<1>2. PICK g : IsSum(g, w, S) /\ SumFunction(w) = g[S]
  BY SumFolds
<1> DEFINE T == {s \in SUBSET S : f[s] <= g[s] * k}
<1>3. {} \in T
  BY <1>1, <1>2 DEF IsSum
<1>4. ASSUME NEW s \in SUBSET S, s # {}, s \ {Pick(S)[s]} \in T PROVE s \in T
  <2> DEFINE x == Pick(S)[s]
  <2>1. /\ x \in S /\ s \ {x} \in SUBSET S
        /\ f[s \ {x}] <= g[s \ {x}] * k
    BY PickPicks, <1>4
  <2>2. f[s] = v[x] + f[s \ {x}] /\ g[s] = w[x] + g[s \ {x}]
    BY <1>1, <1>2, <1>4 DEF IsSum
  <2> HIDE DEF x
  <2>3. PICK a \in Nat, b \in Nat, c \in Nat, d \in Nat :
            a = v[x] /\ b = w[x] /\ c = f[s \ {x}] /\ d = g[s \ {x}]
    BY <1>1, <1>2, <2>1 DEF IsSum
  <2>4. a <= b * k /\ c <= d * k
    BY <2>1, <2>3
  <2>5. a + c <= (b + d) * k
    BY <2>4
  <2> QED BY <2>2, <2>3, <2>5
<1>5. T = SUBSET S
  <2> DEFINE pick == Pick(S)
  <2>1. Inductive(T, S, pick)
    BY PickPicks, <1>3, <1>4 DEF Inductive
  <2> HIDE DEF T, pick
  <2> QED BY <2>1, SubsetInduction
<1>6. f[S] <= g[S] * k
  BY <1>5
<1> QED BY <1>1, <1>2, <1>6

\* A value made out of the one before it, n times: the k-th is one of W[k].
Chained(n, W, base, step) ==
    /\ n \in Nat
    /\ base \in W[0]
    /\ \A k \in 1..n : \A v \in W[k - 1] : step[k][v] \in W[k]

\* The function of all of them.
IsChain(f, n, W, base, step) ==
    /\ f = [k \in 0..n |-> f[k]]
    /\ \A k \in 0..n : f[k] \in W[k]
    /\ f[0] = base
    /\ \A k \in 1..n : f[k] = step[k][f[k - 1]]

\* There is one: what the recursive functions of the models are unfolded by.
LEMMA ChainExists ==
  ASSUME NEW n, NEW W, NEW base, NEW step, Chained(n, W, base, step)
  PROVE  \E f : IsChain(f, n, W, base, step)
<1> USE DEF Chained
<1> DEFINE Links(f, m) == IsChain(f, m, W, base, step)
           Reached == {m \in Nat : m <= n => \E f : Links(f, m)}
<1>1. 0 \in Reached
  <2> DEFINE f == [k \in 0..0 |-> base]
  <2>1. f = [k \in 0..0 |-> f[k]] /\ f[0] = base /\ \A k \in 0..0 : f[k] \in W[k]
    OBVIOUS
  <2>2. 1..0 = {}
    OBVIOUS
  <2> HIDE DEF f
  <2>3. Links(f, 0)
    BY <2>1, <2>2 DEF IsChain
  <2> QED BY <2>3
<1>2. ASSUME NEW m \in Nat, m \in Reached PROVE m + 1 \in Reached
  <2> SUFFICES ASSUME m + 1 <= n PROVE \E f : Links(f, m + 1)
    OBVIOUS
  <2>1. PICK f : Links(f, m)
    BY <1>2
  <2>a. /\ \A k \in 0..m : f[k] \in W[k]
        /\ f[0] = base
        /\ \A k \in 1..m : f[k] = step[k][f[k - 1]]
    BY <2>1 DEF IsChain
  <2> DEFINE g == [k \in 0..(m + 1) |-> IF k = m + 1 THEN step[m + 1][f[m]] ELSE f[k]]
  <2>2. step[m + 1][f[m]] \in W[m + 1]
    <3>1. f[m] \in W[m] /\ m + 1 \in 1..n /\ (m + 1) - 1 = m
      BY <2>a
    <3> QED BY <3>1
  <2>3. \A k \in 0..m : g[k] = f[k]
    OBVIOUS
  <2>4. g[m + 1] = step[m + 1][g[m]] /\ g[m + 1] \in W[m + 1] /\ g = [k \in 0..(m + 1) |-> g[k]]
    BY <2>2, <2>3
  <2>5. /\ \A k \in 0..(m + 1) : k \in 0..m \/ k = m + 1
        /\ \A k \in 1..(m + 1) : (k \in 1..m /\ k \in 0..m /\ k - 1 \in 0..m) \/ (k = m + 1 /\ k - 1 = m)
        /\ 0 \in 0..m
    OBVIOUS
  <2> HIDE DEF g
  <2>6. ASSUME NEW k \in 1..(m + 1) PROVE g[k] = step[k][g[k - 1]]
    <3>1. CASE k \in 1..m /\ k \in 0..m /\ k - 1 \in 0..m
      <4>1. g[k] = f[k] /\ g[k - 1] = f[k - 1]
        BY <2>3, <3>1
      <4> QED BY <2>a, <3>1, <4>1
    <3>2. CASE k = m + 1 /\ k - 1 = m
      BY <2>4, <3>2
    <3> QED BY <2>5, <3>1, <3>2
  <2>7. ASSUME NEW k \in 0..(m + 1) PROVE g[k] \in W[k]
    <3>1. CASE k \in 0..m
      <4>1. g[k] = f[k]
        BY <2>3, <3>1
      <4> QED BY <2>a, <3>1, <4>1
    <3>2. CASE k = m + 1
      BY <2>4, <3>2
    <3> QED BY <2>5, <3>1, <3>2
  <2>8. g[0] = base
    BY <2>a, <2>3, <2>5
  <2>9. Links(g, m + 1)
    BY <2>4, <2>6, <2>7, <2>8 DEF IsChain
  <2> QED BY <2>9
<1>3. Reached = Nat
  <2> HIDE DEF Reached
  <2> Reached \in SUBSET Nat
    BY DEF Reached
  <2> QED BY <1>1, <1>2, Induction
<1>4. n \in Reached
  BY <1>3
<1> QED BY <1>4

-----------------------------------------------------------------------------
(* The rules: what a criterion resolves to, and the blockers. *)

\* The greatest of some of the first n numbers is one of them.
LEMMA MaxIsIn ==
  ASSUME NEW n \in Nat, NEW s \in SUBSET (1..n), s # {}
  PROVE  Max(s) \in s /\ \A y \in s : Max(s) >= y
<1> DEFINE S == 1..n
           T == {t \in SUBSET S : t # {} => \E m \in t : \A y \in t : m >= y}
           pick == Pick(S)
<1>1. IsFiniteSet(S)
  BY FS_Interval
<1>2. /\ T \in SUBSET SUBSET S /\ {} \in T
      /\ \A t \in SUBSET S : t # {} => pick[t] \in t
  BY PickPicks
<1>3. ASSUME NEW t \in SUBSET S, t # {}, t \ {pick[t]} \in T PROVE t \in T
  <2>1. pick[t] \in t
    BY <1>2, <1>3
  <2> HIDE DEF pick
  <2>2. t \subseteq Nat
    OBVIOUS
  <2>3. pick[t] \in t /\ pick[t] \in Nat
    BY <2>1, <2>2
  <2>4. CASE t = {pick[t]}
    <3>1. \A y \in t : pick[t] >= y
      BY <2>3, <2>4
    <3> QED BY <2>3, <3>1
  <2>5. CASE t # {pick[t]}
    <3>1. PICK m \in t \ {pick[t]} : \A y \in t \ {pick[t]} : m >= y
      BY <1>3, <2>3, <2>5
    <3>2. m \in Nat /\ m \in t
      BY <2>2, <3>1
    <3>3. CASE m >= pick[t]
      <4>1. \A y \in t : m >= y
        BY <3>1, <3>3
      <4> QED BY <3>2, <4>1
    <3>4. CASE ~ (m >= pick[t])
      <4>1. \A y \in t : pick[t] >= y
        BY <2>2, <2>3, <3>1, <3>2, <3>4
      <4> QED BY <2>3, <4>1
    <3> QED BY <3>3, <3>4
  <2> QED BY <2>4, <2>5
<1>4. T = SUBSET S
  <2>1. Inductive(T, S, pick)
    <3> HIDE DEF S, pick
    <3> QED BY <1>1, <1>2, <1>3 DEF Inductive
  <2> HIDE DEF T, S, pick
  <2> QED BY <2>1, SubsetInduction
<1>5. \E m \in s : \A y \in s : m >= y
  BY <1>4
<1> QED BY <1>5 DEF Max

\* The criteria of a rubric.
Criteria == [kind : Kind, weight : Nat, min_supported : Nat, points : [SCORING_STATES -> Nat]]

\* What the loop over the blockers holds.
Toll(S) == [fired : SUBSET S, band : {"none", "DECLINE", "MANUAL_REVIEW_REQUIRED"},
             reasons : SUBSET {"blocker_unknown"}]
\* Before the first.
NothingFound == [fired |-> {}, band |-> "none", reasons |-> {}]

\* One turn of it.
Turn(rubric, states, found, i) ==
    IF rubric.criteria[i].kind = "BLOCKER" THEN BlockerStep(found, i, states[i]) ELSE found

\* A turn finds of these only.
LEMMA TurnFinds ==
  ASSUME NEW S, NEW rubric, NEW states \in [S -> CriterionState], NEW found \in Toll(S), NEW i \in S
  PROVE  Turn(rubric, states, found, i) \in Toll(S)
BY DEF Turn, BlockerStep, Toll, CriterionState

\* The loop turns at the criteria in the order of the rubric (aggregate.py).
LEMMA BlockersFold ==
  ASSUME NEW rubric, rubric.criteria \in Seq(Criteria),
         NEW states \in [DOMAIN rubric.criteria -> CriterionState]
  PROVE  \E f \in [SUBSET DOMAIN rubric.criteria -> Toll(DOMAIN rubric.criteria)] :
            /\ Blockers(rubric, states) = f[DOMAIN rubric.criteria]
            /\ f[{}] = NothingFound
            /\ \A s \in SUBSET DOMAIN rubric.criteria : s # {} =>
                f[s] = Turn(rubric, states, f[s \ {Max(s)}], Max(s))
<1> DEFINE S == DOMAIN rubric.criteria
           listed == [i \in S |-> i]
           Body(f) == [s \in SUBSET DOMAIN listed |->
                        IF s = {} THEN NothingFound
                        ELSE IF rubric.criteria[listed[Max(s)]].kind = "BLOCKER"
                               THEN BlockerStep(f[s \ {Max(s)}], listed[Max(s)], states[listed[Max(s)]])
                               ELSE f[s \ {Max(s)}]]
           pick == [s \in SUBSET S |-> Max(s)]
           step == [i \in S |-> [found \in Toll(S) |-> Turn(rubric, states, found, i)]]
<1>0. PICK n \in Nat : S = 1..n
  OBVIOUS
<1>1. \A s \in SUBSET S : s # {} => pick[s] = Max(s) /\ Max(s) \in s
  BY <1>0, MaxIsIn
<1>2. PICK f : IsFold(f, S, Toll(S), NothingFound, pick, step)
  <2>1. IsFiniteSet(S)
    BY <1>0, FS_Interval
  <2>2. NothingFound \in Toll(S)
    BY DEF NothingFound, Toll
  <2>3. \A i \in S, found \in Toll(S) : step[i][found] \in Toll(S)
    BY TurnFinds
  <2>4. Foldable(S, Toll(S), NothingFound, pick, step)
    <3> HIDE DEF S, step
    <3> QED BY <1>1, <2>1, <2>2, <2>3 DEF Foldable
  <2> HIDE DEF S, pick, step
  <2> QED BY <2>4, FoldExists
<1>3. f \in [SUBSET S -> Toll(S)] /\ f[{}] = NothingFound
  BY <1>2 DEF IsFold
<1>4. ASSUME NEW s \in SUBSET S, s # {} PROVE f[s] = Turn(rubric, states, f[s \ {Max(s)}], Max(s))
  <2>1. Max(s) \in S /\ s \ {Max(s)} \in SUBSET S /\ pick[s] = Max(s)
    BY <1>1, <1>4
  <2>2. f[s] = step[pick[s]][f[s \ {pick[s]}]]
    BY <1>2, <1>4 DEF IsFold
  <2>3. f[s \ {Max(s)}] \in Toll(S)
    BY <1>3, <2>1
  <2>4. step[Max(s)][f[s \ {Max(s)}]] = Turn(rubric, states, f[s \ {Max(s)}], Max(s))
    <3> HIDE DEF S
    <3> QED BY <2>1, <2>3
  <2> HIDE DEF S, step, pick
  <2> QED BY <2>1, <2>2, <2>4
<1>5. \A s \in SUBSET S : s # {} => listed[Max(s)] = Max(s)
  BY <1>1
<1>6. f = Body(f)
  <2> HIDE DEF S, listed
  <2>1. DOMAIN listed = S
    BY DEF listed
  <2> QED BY <1>3, <1>4, <1>5, <2>1 DEF Turn
<1> DEFINE g == CHOOSE h : h = Body(h)
<1>7. g = Body(g)
  BY <1>6
<1>8. Blockers(rubric, states) = g[DOMAIN listed]
  BY DEF Blockers, FoldLeftDomain, FoldLeft, MapThenFoldSet, NothingFound
<1>9. g = f
  <2>1. f[{}] = g[{}]
    BY <1>3, <1>7
  <2>2. ASSUME NEW s \in SUBSET S, s # {}, f[s \ {pick[s]}] = g[s \ {pick[s]}] PROVE f[s] = g[s]
    <3>1. pick[s] = Max(s)
      BY <1>1, <2>2
    <3>2. g[s] = Turn(rubric, states, g[s \ {Max(s)}], Max(s))
      <4> HIDE DEF g
      <4> QED BY <1>7, <1>5, <2>2 DEF Turn
    <3> HIDE DEF S, g, pick
    <3> QED BY <1>4, <2>2, <3>1, <3>2
  <2>3. \A s \in SUBSET S : f[s] = g[s]
    <3>1. IsFiniteSet(S)
      BY <1>0, FS_Interval
    <3>2. \A s \in SUBSET S : s # {} => pick[s] \in s
      BY <1>1
    <3> HIDE DEF S, g, pick
    <3>3. StayAlike(f, g, S, pick)
      BY <2>1, <2>2, <3>1, <3>2 DEF StayAlike
    <3> QED BY <3>3, Alike
  <2>4. DOMAIN listed = S
    OBVIOUS
  <2> HIDE DEF g, S, listed
  <2> QED BY <1>3, <1>7, <2>3, <2>4
<1> HIDE DEF g
<1> QED BY <1>3, <1>4, <1>8, <1>9

\* What the loop over the blockers of s finds: those that fail or that nobody knows
\* of, and the band a failing one or, failing that, an unknown one asks for.
Tells(rubric, states, s, found) ==
    LET blockers == {i \in s : rubric.criteria[i].kind = "BLOCKER"}
        failing == {i \in blockers : states[i] \in {"NOT_MET", "CONTRADICTED"}}
        unknown == {i \in blockers : states[i] = "INSUFFICIENT_EVIDENCE"}
    IN  /\ found.fired = failing \cup unknown
        /\ found.band = IF failing # {} THEN "DECLINE"
                        ELSE IF unknown # {} THEN "MANUAL_REVIEW_REQUIRED" ELSE "none"
        /\ found.band = "MANUAL_REVIEW_REQUIRED" => found.reasons = {"blocker_unknown"}

\* One turn keeps that so.
LEMMA TurnTells ==
  ASSUME NEW S, NEW rubric, NEW states \in [S -> CriterionState], NEW s \in SUBSET S, NEW i \in s,
         NEW found \in Toll(S), Tells(rubric, states, s \ {i}, found)
  PROVE  Tells(rubric, states, s, Turn(rubric, states, found, i))
<1> DEFINE after == Turn(rubric, states, found, i)
           blockers(t) == {j \in t : rubric.criteria[j].kind = "BLOCKER"}
           failing(t) == {j \in blockers(t) : states[j] \in {"NOT_MET", "CONTRADICTED"}}
           unknown(t) == {j \in blockers(t) : states[j] = "INSUFFICIENT_EVIDENCE"}
<1>1. /\ found.fired = failing(s \ {i}) \cup unknown(s \ {i})
      /\ found.band = IF failing(s \ {i}) # {} THEN "DECLINE"
                      ELSE IF unknown(s \ {i}) # {} THEN "MANUAL_REVIEW_REQUIRED" ELSE "none"
      /\ found.band = "MANUAL_REVIEW_REQUIRED" => found.reasons = {"blocker_unknown"}
  BY DEF Tells
<1>2. SUFFICES /\ after.fired = failing(s) \cup unknown(s)
               /\ after.band = IF failing(s) # {} THEN "DECLINE"
                               ELSE IF unknown(s) # {} THEN "MANUAL_REVIEW_REQUIRED" ELSE "none"
               /\ after.band = "MANUAL_REVIEW_REQUIRED" => after.reasons = {"blocker_unknown"}
  BY DEF Tells
<1>3. CASE rubric.criteria[i].kind = "BLOCKER" /\ states[i] \in {"NOT_MET", "CONTRADICTED"}
  <2>1. after = [found EXCEPT !.fired = @ \cup {i}, !.band = "DECLINE"]
    BY <1>3 DEF Turn, BlockerStep
  <2>2. failing(s) = failing(s \ {i}) \cup {i} /\ unknown(s) = unknown(s \ {i})
    BY <1>3
  <2>3. after.fired = found.fired \cup {i} /\ after.band = "DECLINE"
    BY <2>1 DEF Toll
  <2> HIDE DEF after, failing, unknown
  <2> QED BY <1>1, <2>2, <2>3
<1>4. CASE rubric.criteria[i].kind = "BLOCKER" /\ states[i] = "INSUFFICIENT_EVIDENCE"
  <2>1. failing(s) = failing(s \ {i}) /\ unknown(s) = unknown(s \ {i}) \cup {i}
    BY <1>4
  <2>2. after.fired = found.fired \cup {i}
    BY <1>4 DEF Turn, BlockerStep, Toll
  <2>3. IF found.band = "DECLINE" THEN after.band = "DECLINE"
        ELSE after.band = "MANUAL_REVIEW_REQUIRED" /\ after.reasons = {"blocker_unknown"}
    BY <1>4 DEF Turn, BlockerStep, Toll
  <2> HIDE DEF after, failing, unknown
  <2> QED BY <1>1, <2>1, <2>2, <2>3
<1>5. CASE ~ (/\ rubric.criteria[i].kind = "BLOCKER"
              /\ states[i] \in {"NOT_MET", "CONTRADICTED", "INSUFFICIENT_EVIDENCE"})
  <2>1. after = found
    BY <1>5 DEF Turn, BlockerStep, CriterionState
  <2>2. failing(s) = failing(s \ {i}) /\ unknown(s) = unknown(s \ {i})
    BY <1>5
  <2> HIDE DEF after, failing, unknown
  <2> QED BY <1>1, <2>1, <2>2
<1> QED BY <1>3, <1>4, <1>5

\* So the order the rubric lists its criteria in does not tell.
LEMMA BlockersTell ==
  ASSUME NEW rubric, rubric.criteria \in Seq(Criteria),
         NEW states \in [DOMAIN rubric.criteria -> CriterionState]
  PROVE  Tells(rubric, states, DOMAIN rubric.criteria, Blockers(rubric, states))
<1> DEFINE S == DOMAIN rubric.criteria
           pick == [s \in SUBSET S |-> Max(s)]
<1>0. PICK n \in Nat : S = 1..n
  OBVIOUS
<1>1. \A s \in SUBSET S : s # {} => pick[s] = Max(s) /\ Max(s) \in s
  BY <1>0, MaxIsIn
<1>2. PICK f \in [SUBSET S -> Toll(S)] :
            /\ Blockers(rubric, states) = f[S]
            /\ f[{}] = NothingFound
            /\ \A s \in SUBSET S : s # {} => f[s] = Turn(rubric, states, f[s \ {Max(s)}], Max(s))
  BY BlockersFold
<1> DEFINE T == {s \in SUBSET S : Tells(rubric, states, s, f[s])}
<1>3. {} \in T
  BY <1>2 DEF Tells, NothingFound
<1>4. ASSUME NEW s \in SUBSET S, s # {}, s \ {pick[s]} \in T PROVE s \in T
  <2>1. s \ {Max(s)} \in SUBSET S /\ Max(s) \in s /\ Tells(rubric, states, s \ {Max(s)}, f[s \ {Max(s)}])
    BY <1>1, <1>4
  <2>2. f[s \ {Max(s)}] \in Toll(S) /\ f[s] = Turn(rubric, states, f[s \ {Max(s)}], Max(s))
    BY <1>2, <1>4, <2>1
  <2>3. states \in [S -> CriterionState]
    OBVIOUS
  <2>4. Tells(rubric, states, s, Turn(rubric, states, f[s \ {Max(s)}], Max(s)))
    <3> HIDE DEF S
    <3> QED BY <2>1, <2>2, <2>3, TurnTells
  <2> QED BY <2>2, <2>4
<1>5. T = SUBSET S
  <2>1. Inductive(T, S, pick)
    <3>1. IsFiniteSet(S)
      BY <1>0, FS_Interval
    <3>2. T \subseteq SUBSET S
      OBVIOUS
    <3> HIDE DEF S, T, pick
    <3> QED BY <1>1, <1>3, <1>4, <3>1, <3>2 DEF Inductive
  <2> HIDE DEF S, T, pick
  <2> QED BY <2>1, SubsetInduction
<1> QED BY <1>2, <1>5

\* What a model returned for a criterion, after its quotations were looked for.
Items == [state : EvidenceState, span : SpanVerdict]

\* A criterion that was assessed has a located quotation for the state.
FoundIn(items, state) ==
    \E k \in DOMAIN items : items[k].state = state /\ items[k].span \in VALID_SPAN_VALIDATIONS

\* Keeping twice is keeping once, and a count of the kept is zero exactly if none
\* of the returned was located.
LEMMA KeptCounts ==
  ASSUME NEW items \in Seq(Items), NEW state \in EvidenceState, state # "INSUFFICIENT_EVIDENCE"
  PROVE  /\ CountOf(Kept(Kept(items)), state) \in Nat
         /\ CountOf(Kept(Kept(items)), state) > 0 <=> FoundIn(items, state)
<1> DEFINE kept == Kept(items)
           counted == {i \in DOMAIN Kept(kept) : Kept(kept)[i].state = state}
<1>1. DOMAIN kept = {k \in DOMAIN items : IsUsable(items[k])}
  BY DEF Kept, Restrict
<1>2. \A k \in DOMAIN kept : kept[k] = items[k]
  BY DEF Kept, Restrict
<1>3. DOMAIN Kept(kept) = {k \in DOMAIN kept : IsUsable(kept[k])}
  BY DEF Kept, Restrict
<1>4. \A k \in DOMAIN Kept(kept) : Kept(kept)[k] = kept[k]
  BY DEF Kept, Restrict
<1>5. counted = {k \in DOMAIN items : IsUsable(items[k]) /\ items[k].state = state}
  <2> HIDE DEF kept
  <2> QED BY <1>1, <1>2, <1>3, <1>4
<1>6. IsFiniteSet(DOMAIN items)
  <2>1. PICK n \in Nat : DOMAIN items = 1..n
    OBVIOUS
  <2> QED BY <2>1, FS_Interval
<1>7. IsFiniteSet(counted) /\ Cardinality(counted) \in Nat /\ (Cardinality(counted) = 0 <=> counted = {})
  <2>1. counted \subseteq DOMAIN items
    BY <1>5
  <2>2. IsFiniteSet(counted)
    <3> HIDE DEF counted
    <3> QED BY <1>6, <2>1, FS_Subset
  <2> HIDE DEF counted
  <2> QED BY <2>2, FS_CardinalityType, FS_EmptySet
<1>8. counted # {} <=> FoundIn(items, state)
  <2> HIDE DEF counted
  <2> QED BY <1>5 DEF FoundIn, IsUsable
<1>9. CountOf(Kept(Kept(items)), state) = Cardinality(counted)
  BY DEF CountOf
<1> HIDE DEF counted
<1> QED BY <1>7, <1>8, <1>9

\* The rules of the table, and what they make of a criterion.
Rule == {"R-INSUFFICIENT", "R-CONFLICT", "R-NOT-MET", "R-MET", "R-PARTIAL", "R-UNASSESSED",
         "R-REVIEWER-OVERRIDE"}
\* What a criterion resolves to.
Resolution == [state : CriterionState, rule : Rule, unassessed : BOOLEAN]

\* What the table says of two counts.
LEMMA RowSays ==
  ASSUME NEW supported \in Nat, NEW contradicted \in Nat, NEW min_supported
  PROVE  LET row == TableRow(supported, contradicted, min_supported) IN
         /\ row[1] \in CriterionState /\ row[2] \in Rule
         /\ row[1] \in {"MET", "PARTIAL"} => supported > 0 /\ ~ (contradicted > 0)
         /\ row[1] \in {"NOT_MET", "CONTRADICTED"} => contradicted > 0
BY DEF TableRow, CriterionState, Rule

\* What the items of a criterion resolve to (resolution.py): a state is found only if
\* a quotation for it was located, and none is of a criterion that was not assessed.
LEMMA ResolvesTo ==
  ASSUME NEW items \in Seq(Items), NEW criterion, NEW unassessed \in BOOLEAN
  PROVE  LET r == ResolveCriterion(Kept(items), criterion, unassessed) IN
         /\ r \in Resolution
         /\ r.state \in {"MET", "PARTIAL"} =>
              ~unassessed /\ FoundIn(items, "SUPPORTED") /\ ~FoundIn(items, "CONTRADICTED")
         /\ r.state \in {"NOT_MET", "CONTRADICTED"} => ~unassessed /\ FoundIn(items, "CONTRADICTED")
<1> DEFINE supported == CountOf(Kept(Kept(items)), "SUPPORTED")
           contradicted == CountOf(Kept(Kept(items)), "CONTRADICTED")
           row == TableRow(supported, contradicted, criterion.min_supported)
           r == ResolveCriterion(Kept(items), criterion, unassessed)
<1>1. /\ supported \in Nat /\ contradicted \in Nat
      /\ supported > 0 <=> FoundIn(items, "SUPPORTED")
      /\ contradicted > 0 <=> FoundIn(items, "CONTRADICTED")
  BY KeptCounts DEF EvidenceState
<1>2. r = IF unassessed
            THEN [state |-> "INSUFFICIENT_EVIDENCE", rule |-> "R-UNASSESSED", unassessed |-> TRUE]
            ELSE [state |-> row[1], rule |-> row[2], unassessed |-> FALSE]
  BY DEF ResolveCriterion
<1>3. /\ row[1] \in CriterionState /\ row[2] \in Rule
      /\ row[1] \in {"MET", "PARTIAL"} => supported > 0 /\ ~ (contradicted > 0)
      /\ row[1] \in {"NOT_MET", "CONTRADICTED"} => contradicted > 0
  <2> HIDE DEF supported, contradicted
  <2> QED BY <1>1, RowSays
<1> SUFFICES /\ r \in Resolution
             /\ r.state \in {"MET", "PARTIAL"} =>
                  ~unassessed /\ FoundIn(items, "SUPPORTED") /\ ~FoundIn(items, "CONTRADICTED")
             /\ r.state \in {"NOT_MET", "CONTRADICTED"} => ~unassessed /\ FoundIn(items, "CONTRADICTED")
  OBVIOUS
<1> HIDE DEF row, supported, contradicted, r
<1>4. CASE unassessed
  <2>1. r = [state |-> "INSUFFICIENT_EVIDENCE", rule |-> "R-UNASSESSED", unassessed |-> TRUE]
    BY <1>2, <1>4
  <2> QED BY <2>1 DEF Resolution, CriterionState, Rule
<1>5. CASE ~unassessed
  <2>1. r = [state |-> row[1], rule |-> row[2], unassessed |-> FALSE]
    BY <1>2, <1>5
  <2>2. r \in Resolution /\ r.state = row[1]
    BY <1>3, <2>1 DEF Resolution
  <2> QED BY <1>1, <1>3, <1>5, <2>2
<1> QED BY <1>4, <1>5

\* The least of a set of numbers there is one of.
LEMMA LeastIsIn ==
  ASSUME NEW s \in SUBSET Nat, s # {}
  PROVE  \E k \in s : \A j \in s : k <= j
<1>1. PICK k \in s : \A j \in s : ~ (<< j, k >> \in Less)
  BY LessWF, WFMin
<1>2. ASSUME NEW j \in s PROVE k <= j
  <2>1. j \in Nat /\ k \in Nat /\ ~ (<< j, k >> \in Less)
    BY <1>1
  <2>2. j < k => << j, k >> \in Less
    BY <2>1 DEF Less
  <2> QED BY <2>1, <2>2
<1> QED BY <1>1, <1>2

\* A rubric, before its contract looks at it.
RubricTyped(rubric) ==
    /\ rubric.criteria \in Seq(Criteria)
    /\ rubric.bands \in Seq([band : Band, min_score : Nat])
    /\ rubric.min_coverage \in Nat

\* A rubric the contract accepts.
Accepted(rubric) == RubricTyped(rubric) /\ RubricAccepted(rubric)

\* A score always reaches a cutoff, and the first it reaches is the highest.
LEMMA BandLands ==
  ASSUME NEW rubric, Accepted(rubric), NEW earned \in Nat, NEW weight \in Nat
  PROVE  /\ BandFor(rubric, earned, weight) \in Band \ GATE_BANDS
         /\ LET reached == {t \in Range(rubric.bands) : t.min_score * weight <= earned} IN
            BandFor(rubric, earned, weight)
                = (CHOOSE t \in reached : \A u \in reached : u.min_score <= t.min_score).band
<1> DEFINE bands == rubric.bands
           below(k) == bands[k].min_score * weight <= earned
           K == {k \in DOMAIN bands : below(k)}
           reached == {t \in Range(rubric.bands) : t.min_score * weight <= earned}
<1>1. /\ bands \in Seq([band : Band, min_score : Nat]) /\ bands # << >>
      /\ \A i \in DOMAIN bands : bands[i].band \in Band \ GATE_BANDS /\ bands[i].min_score \in Nat
      /\ \A i, j \in DOMAIN bands : i < j => bands[i].min_score > bands[j].min_score
      /\ bands[Len(bands)].min_score = 0
  BY DEF Accepted, RubricTyped, RubricAccepted, Last
<1>2. PICK n \in Nat : DOMAIN bands = 1..n /\ n = Len(bands) /\ n > 0
  BY <1>1
<1>3. \A k \in DOMAIN bands : bands[k].min_score * weight \in Nat
  BY <1>1
<1>4. n \in K
  BY <1>1, <1>2
<1>5. PICK k \in K : \A j \in K : k <= j
  <2>1. K \in SUBSET Nat /\ K # {}
    BY <1>2, <1>4
  <2> HIDE DEF K
  <2> QED BY <2>1, LeastIsIn
<1> DEFINE First(i) == /\ earned >= bands[i].min_score * weight
                       /\ \A j \in 1..(i - 1) : earned < bands[j].min_score * weight
<1>6. k \in DOMAIN bands /\ First(k)
  BY <1>2, <1>3, <1>5
<1>7. \A i \in DOMAIN bands : First(i) => i = k
  BY <1>2, <1>3, <1>5, <1>6
<1>8. BandFor(rubric, earned, weight) = bands[CHOOSE i \in DOMAIN bands : First(i)].band
  BY DEF BandFor
<1>9. BandFor(rubric, earned, weight) = bands[k].band
  BY <1>6, <1>7, <1>8
<1>10. reached = {bands[i] : i \in K}
  BY DEF Range
<1>11. \A i \in K : i # k => bands[i].min_score < bands[k].min_score
  <2>1. \A i \in K : i # k => i \in DOMAIN bands /\ k \in DOMAIN bands /\ k < i
    BY <1>2, <1>5
  <2> QED BY <1>1, <2>1
<1> DEFINE Highest(t) == \A u \in reached : u.min_score <= t.min_score
<1>12. bands[k] \in reached /\ Highest(bands[k])
  <2> HIDE DEF reached, K
  <2>1. \A i \in K : bands[i].min_score <= bands[k].min_score
    <3>1. \A i \in K : bands[i].min_score \in Nat
      BY <1>1 DEF K
    <3> QED BY <1>5, <1>11, <3>1
  <2> QED BY <1>5, <1>10, <2>1
<1>13. \A t \in reached : Highest(t) => t = bands[k]
  <2> SUFFICES ASSUME NEW i \in K, Highest(bands[i]) PROVE bands[i] = bands[k]
    BY <1>10
  <2>1. bands[k].min_score <= bands[i].min_score
    BY <1>12
  <2>2. bands[i].min_score \in Nat /\ bands[k].min_score \in Nat
    BY <1>1, <1>6
  <2> HIDE DEF K, reached, bands
  <2> QED BY <1>11, <2>1, <2>2
<1>14. (CHOOSE t \in reached : Highest(t)) = bands[k]
  <2> HIDE DEF reached, Highest
  <2> QED BY <1>12, <1>13
<1> QED BY <1>1, <1>6, <1>9, <1>14

-----------------------------------------------------------------------------
(* The rules: scores, bands and the recommendation. *)

\* A product grows with its factor.
LEMMA Products ==
  ASSUME NEW a \in Nat, NEW p \in Nat, NEW k \in Nat, p <= k
  PROVE  a * p \in Nat /\ a * p <= a * k
<1>1. PICK d \in Nat : k = p + d
  <2>1. k - p \in Nat /\ k = p + (k - p)
    OBVIOUS
  <2> QED BY <2>1
<1>2. a * p \in Nat /\ a * d \in Nat
  OBVIOUS
<1>3. a * k = a * p + a * d
  BY <1>1
<1> QED BY <1>2, <1>3

\* What was earned is at most what was to be earned, and something was to be earned
\* if anything resolved.
LEMMA EarnedFits ==
  ASSUME NEW rubric, Accepted(rubric), NEW states \in [DOMAIN rubric.criteria -> CriterionState]
  PROVE  /\ Weight(rubric, Resolved(states)) \in Nat
         /\ Earned(rubric, states) \in Nat
         /\ Earned(rubric, states) <= Weight(rubric, Resolved(states)) * Scale
         /\ Resolved(states) # {} => Weight(rubric, Resolved(states)) > 0
<1> DEFINE S == Resolved(states)
           w == [i \in S |-> rubric.criteria[i].weight]
           v == [i \in S |-> rubric.criteria[i].weight * rubric.criteria[i].points[states[i]]]
<1>1. S \subseteq DOMAIN rubric.criteria /\ \A i \in S : states[i] \in SCORING_STATES
  BY DEF Resolved, SCORING_STATES
<1>2. IsFiniteSet(S)
  <2>1. PICK n \in Nat : DOMAIN rubric.criteria = 1..n
    BY DEF Accepted, RubricTyped
  <2>2. IsFiniteSet(1..n)
    BY FS_Interval
  <2> HIDE DEF S
  <2> QED BY <1>1, <2>1, <2>2, FS_Subset
<1>3. \A i \in S : /\ rubric.criteria[i].weight \in Nat /\ rubric.criteria[i].weight > 0
                   /\ rubric.criteria[i].points[states[i]] \in Nat
                   /\ rubric.criteria[i].points[states[i]] <= Scale
  <2> TAKE i \in S
  <2>1. i \in DOMAIN rubric.criteria /\ states[i] \in SCORING_STATES
    BY <1>1
  <2>2. CriterionAccepted(rubric.criteria[i])
    <3> HIDE DEF S
    <3> QED BY <2>1 DEF Accepted, RubricAccepted
  <2> DEFINE c == rubric.criteria[i]
  <2>3. c.weight \in 1..10 /\ c.points[states[i]] \in 0..Scale
    <3> HIDE DEF S, c
    <3> QED BY <2>1, <2>2 DEF CriterionAccepted, c
  <2> HIDE DEF c
  <2> QED BY <2>3, RulesAssumption DEF c
<1>4. w \in [S -> Nat] /\ \A i \in S : w[i] > 0
  BY <1>3
<1>5. v \in [S -> Nat] /\ \A i \in S : v[i] <= w[i] * Scale
  <2>1. \A i \in S : /\ rubric.criteria[i].weight * rubric.criteria[i].points[states[i]] \in Nat
                     /\ rubric.criteria[i].weight * rubric.criteria[i].points[states[i]]
                            <= rubric.criteria[i].weight * Scale
    BY <1>3, Products, RulesAssumption
  <2> HIDE DEF S
  <2> QED BY <2>1
<1>6. SumFunction(w) \in Nat /\ (S # {} => SumFunction(w) > 0)
  <2> HIDE DEF S, w
  <2> QED BY <1>2, <1>4, SumIsNat, SumPositive
<1>7. SumFunction(v) \in Nat /\ SumFunction(v) <= SumFunction(w) * Scale
  <2> HIDE DEF S, w, v
  <2> QED BY <1>2, <1>4, <1>5, SumIsNat, SumAtMost, RulesAssumption
<1>8. Weight(rubric, S) = SumFunction(w) /\ Earned(rubric, states) = SumFunction(v)
  BY DEF Weight, Earned
<1> HIDE DEF w, v
<1> QED BY <1>6, <1>7, <1>8

\* What aggregate makes of resolutions that there is one of for every criterion.
Aggregated(resolutions, rubric, integrity, flags) ==
    LET rec == Aggregate(resolutions, rubric, integrity, flags)
        states == [i \in DOMAIN rubric.criteria |-> resolutions[i].state]
    IN  /\ rec.states = states
        /\ rec.band = BandOf(rubric, states)
        /\ RecommendationAccepted(rec)
        /\ rec.band \in GATE_BANDS => rec.human
        /\ rec.fired # {} => rec.band \in {"DECLINE", "MANUAL_REVIEW_REQUIRED"}
        /\ \A i \in rec.fired : states[i] \in {"NOT_MET", "CONTRADICTED", "INSUFFICIENT_EVIDENCE"}

\* It is what aggregate makes of them, of any rubric its contract accepts.
LEMMA Aggregates ==
  ASSUME NEW rubric, Accepted(rubric), NEW resolutions \in [DOMAIN rubric.criteria -> Resolution],
         NEW integrity, NEW flags
  PROVE  Aggregated(resolutions, rubric, integrity, flags)
<1> DEFINE S == DOMAIN rubric.criteria
           states == [i \in S |-> resolutions[i].state]
           weight == Weight(rubric, Resolved(states))
           earned == Earned(rubric, states)
           blockers == Blockers(rubric, states)
           band == IF blockers.band = "none" THEN BandFor(rubric, earned, weight) ELSE blockers.band
           reasons == HumanReasons(states, resolutions, integrity, flags, blockers.reasons)
           rec == Aggregate(resolutions, rubric, integrity, flags)
<1>1. states \in [S -> CriterionState]
  BY DEF Resolution
<1>2. CriterionStates(resolutions, rubric) = states
  BY DEF CriterionStates
<1>3. rec = IF GateShut(rubric, states)
              THEN [band |-> "INSUFFICIENT_INFORMATION", score |-> NoScore, states |-> states,
                    fired |-> {}, human |-> TRUE, reasons |-> {"coverage_below_gate"}]
              ELSE [band |-> band, score |-> IF band \in GATE_BANDS THEN NoScore ELSE << earned, weight >>,
                    states |-> states, fired |-> blockers.fired,
                    human |-> reasons # {}, reasons |-> reasons]
  BY <1>2 DEF Aggregate
<1>4. Tells(rubric, states, S, blockers)
  <2>1. rubric.criteria \in Seq(Criteria)
    BY DEF Accepted, RubricTyped
  <2> HIDE DEF states
  <2> QED BY <1>1, <2>1, BlockersTell
<1> DEFINE all == {i \in S : rubric.criteria[i].kind = "BLOCKER"}
           failing == {i \in all : states[i] \in {"NOT_MET", "CONTRADICTED"}}
           unknown == {i \in all : states[i] = "INSUFFICIENT_EVIDENCE"}
<1>5. /\ blockers.fired = failing \cup unknown
      /\ blockers.band = IF failing # {} THEN "DECLINE"
                         ELSE IF unknown # {} THEN "MANUAL_REVIEW_REQUIRED" ELSE "none"
      /\ blockers.band = "MANUAL_REVIEW_REQUIRED" => blockers.reasons = {"blocker_unknown"}
  <2> HIDE DEF states, blockers
  <2> QED BY <1>4 DEF Tells
<1>6. /\ weight \in Nat /\ earned \in Nat /\ earned <= weight * Scale
      /\ Resolved(states) # {} => weight > 0
  <2> HIDE DEF states
  <2> QED BY <1>1, EarnedFits
<1>7. BandFor(rubric, earned, weight) \in Band \ GATE_BANDS
  <2> HIDE DEF earned, weight
  <2> QED BY <1>6, BandLands
<1>8. blockers.reasons \subseteq reasons
  <2> HIDE DEF states, blockers
  <2> QED BY DEF HumanReasons
<1>9. rec.states = states
  <2> HIDE DEF states, band, reasons, blockers, rec, earned, weight
  <2> QED BY <1>3
<1>10. rec.band = BandOf(rubric, states)
  <2> DEFINE reached == {t \in Range(rubric.bands) : t.min_score * weight <= earned}
             highest == (CHOOSE t \in reached : \A u \in reached : u.min_score <= t.min_score).band
  <2>1. BandFor(rubric, earned, weight) = highest
    <3> HIDE DEF earned, weight
    <3> QED BY <1>6, BandLands
  <2>2. BandOf(rubric, states) =
          IF GateShut(rubric, states) THEN "INSUFFICIENT_INFORMATION"
          ELSE IF failing # {} THEN "DECLINE"
          ELSE IF unknown # {} THEN "MANUAL_REVIEW_REQUIRED" ELSE highest
    <3>1. DOMAIN states = S
      OBVIOUS
    <3>2. BandOf(rubric, states) =
            CASE GateShut(rubric, states) -> "INSUFFICIENT_INFORMATION"
              [] OTHER -> IF \E i \in all : states[i] \in {"NOT_MET", "CONTRADICTED"} THEN "DECLINE"
                          ELSE IF \E i \in all : i \notin Resolved(states) THEN "MANUAL_REVIEW_REQUIRED"
                          ELSE highest
      <4> HIDE DEF states
      <4> QED BY <3>1 DEF BandOf, GateShut, Resolved, Weight, Earned
    <3>3. (\E i \in all : i \notin Resolved(states)) <=> unknown # {}
      <4> HIDE DEF states
      <4> QED BY <3>1 DEF Resolved
    <3> HIDE DEF states, highest, S
    <3> QED BY <3>2, <3>3
  <2> HIDE DEF states, highest, failing, unknown, blockers, weight, earned, rec, reasons
  <2> QED BY <1>3, <1>5, <2>1, <2>2
<1>11. rec.fired \subseteq S /\ \A i \in rec.fired : states[i] \in {"NOT_MET", "CONTRADICTED", "INSUFFICIENT_EVIDENCE"}
  <2>1. rec.fired \subseteq failing \cup unknown
    <3> HIDE DEF states, failing, unknown, blockers, weight, earned, rec, reasons, band
    <3> QED BY <1>3, <1>5
  <2> HIDE DEF states, rec
  <2> QED BY <2>1
<1>12. rec.fired # {} => rec.band \in {"DECLINE", "MANUAL_REVIEW_REQUIRED"}
  <2> HIDE DEF states, failing, unknown, blockers, weight, earned, rec, reasons
  <2> QED BY <1>3, <1>5
<1>13. rec.band \in Band /\ (rec.band \in GATE_BANDS => rec.human) /\ (rec.human => rec.reasons # {})
  <2> HIDE DEF states, failing, unknown, blockers, weight, earned, rec, reasons
  <2> QED BY <1>3, <1>5, <1>7, <1>8 DEF Band, GATE_BANDS
<1>14. rec.score = NoScore => rec.band \in GATE_BANDS
  <2>1. ~GateShut(rubric, states) => weight > 0
    <3> HIDE DEF states, weight
    <3> QED BY <1>6 DEF GateShut
  <2> HIDE DEF states, failing, unknown, blockers, weight, earned, rec, reasons
  <2> QED BY <1>3, <1>6, <2>1 DEF NoScore, GATE_BANDS
<1>15. rec.score[1] <= rec.score[2] * Scale
  <2>1. rec.score = NoScore \/ rec.score = << earned, weight >>
    <3> HIDE DEF states, blockers, weight, earned, rec, reasons, band
    <3> QED BY <1>3
  <2> HIDE DEF earned, weight, rec
  <2> QED BY <1>6, <2>1, RulesAssumption DEF NoScore
<1>16. DOMAIN rec.states = S
  BY <1>9
<1> HIDE DEF rec, states
<1>17. RecommendationAccepted(rec)
  BY <1>11, <1>13, <1>14, <1>15, <1>16 DEF RecommendationAccepted
<1> QED BY <1>9, <1>10, <1>11, <1>12, <1>13, <1>17 DEF Aggregated, rec, states

\* A question about the rules: any rubric the contract accepts, and whatever was
\* returned for each of its criteria.
Judgeable(q) ==
    /\ Accepted(q.rubric)
    /\ q.returned \in [DOMAIN q.rubric.criteria -> Seq(Items)]

\* Every criterion of the question resolves to something, and to what its items say.
LEMMA ResolutionsTyped ==
  ASSUME NEW q, Judgeable(q)
  PROVE  /\ Resolutions(q) \in [DOMAIN q.rubric.criteria -> Resolution]
         /\ \A i \in DOMAIN q.rubric.criteria :
              LET state == Resolutions(q)[i].state IN
              /\ state \in {"MET", "PARTIAL"} =>
                   /\ i \notin q.unassessed
                   /\ FoundIn(q.returned[i], "SUPPORTED") /\ ~FoundIn(q.returned[i], "CONTRADICTED")
              /\ state \in {"NOT_MET", "CONTRADICTED"} =>
                   i \notin q.unassessed /\ FoundIn(q.returned[i], "CONTRADICTED")
<1>1. q.returned \in [DOMAIN q.rubric.criteria -> Seq(Items)]
  BY DEF Judgeable
<1> DEFINE r(i) == ResolveCriterion(Kept(q.returned[i]), q.rubric.criteria[i], i \in q.unassessed)
<1>2. Resolutions(q) = [i \in DOMAIN q.rubric.criteria |-> r(i)]
  BY <1>1 DEF Resolutions
<1>3. ASSUME NEW i \in DOMAIN q.rubric.criteria
      PROVE  /\ r(i) \in Resolution
             /\ r(i).state \in {"MET", "PARTIAL"} =>
                   /\ i \notin q.unassessed
                   /\ FoundIn(q.returned[i], "SUPPORTED") /\ ~FoundIn(q.returned[i], "CONTRADICTED")
             /\ r(i).state \in {"NOT_MET", "CONTRADICTED"} =>
                   i \notin q.unassessed /\ FoundIn(q.returned[i], "CONTRADICTED")
  <2>1. q.returned[i] \in Seq(Items)
    BY <1>1
  <2>2. (i \in q.unassessed) \in BOOLEAN
    OBVIOUS
  <2> QED BY <2>1, <2>2, ResolvesTo
<1> HIDE DEF r
<1> QED BY <1>2, <1>3

\* So the recommendation is what aggregate makes of them.
LEMMA RecommendedTells ==
  ASSUME NEW q, Judgeable(q)
  PROVE  Aggregated(Resolutions(q), q.rubric, q.integrity, Flags(q))
<1>1. Accepted(q.rubric)
  BY DEF Judgeable
<1> QED BY <1>1, ResolutionsTyped, Aggregates

\* Of any rubric the contract accepts, with any number of criteria, weights, points and
\* cutoffs, and whatever the model returned for each: the band is the one of the states
\* (aggregate.py), and the order of the criteria does not tell.
THEOREM EveryBandFollows == ASSUME NEW q, Judgeable(q) PROVE BandFollows(q)
BY RecommendedTells DEF Aggregated, BandFollows, Recommended

\* Of the same: the contract accepts the recommendation, and what no score was given to
\* is put before a person.
THEOREM EveryGateAsks == ASSUME NEW q, Judgeable(q) PROVE AsksAPerson(q)
BY RecommendedTells DEF Aggregated, AsksAPerson, Recommended

\* Of the same: nothing is met, denied or declined but on quotations located in the
\* document (resolution.py), and a located denial is never outvoted.
THEOREM EveryFindingIsLocated == ASSUME NEW q, Judgeable(q) PROVE RestsOnLocated(q)
<1> DEFINE rec == Recommended(q)
           S == DOMAIN q.rubric.criteria
           found(i, state) == /\ i \notin q.unassessed
                              /\ \E k \in DOMAIN q.returned[i] :
                                   /\ q.returned[i][k].state = state
                                   /\ q.returned[i][k].span \in VALID_SPAN_VALIDATIONS
<1>1. /\ DOMAIN rec.states = S
      /\ \A i \in S : rec.states[i] = Resolutions(q)[i].state
      /\ \A i \in rec.fired : i \in S /\ rec.states[i] \in {"NOT_MET", "CONTRADICTED", "INSUFFICIENT_EVIDENCE"}
  <2> DEFINE states == [i \in S |-> Resolutions(q)[i].state]
  <2>1. rec = Aggregate(Resolutions(q), q.rubric, q.integrity, Flags(q))
    BY DEF Recommended
  <2> HIDE DEF rec
  <2>2. /\ rec.states = states /\ RecommendationAccepted(rec)
        /\ \A i \in rec.fired : states[i] \in {"NOT_MET", "CONTRADICTED", "INSUFFICIENT_EVIDENCE"}
    BY <2>1, RecommendedTells DEF Aggregated
  <2>3. rec.fired \subseteq S
    BY <2>2 DEF RecommendationAccepted
  <2> QED BY <2>2, <2>3
<1>2. \A i \in S :
        /\ rec.states[i] \in {"MET", "PARTIAL"} => found(i, "SUPPORTED") /\ ~found(i, "CONTRADICTED")
        /\ rec.states[i] \in {"NOT_MET", "CONTRADICTED"} => found(i, "CONTRADICTED")
  <2> HIDE DEF rec
  <2> QED BY <1>1, ResolutionsTyped DEF FoundIn
<1> SUFFICES \A i \in DOMAIN rec.states :
        /\ rec.states[i] \in {"MET", "PARTIAL"} => found(i, "SUPPORTED") /\ ~found(i, "CONTRADICTED")
        /\ rec.states[i] \in {"NOT_MET", "CONTRADICTED"} => found(i, "CONTRADICTED")
        /\ i \in rec.fired /\ ~found(i, "CONTRADICTED") => rec.states[i] = "INSUFFICIENT_EVIDENCE"
  BY DEF RestsOnLocated
<1> HIDE DEF rec, found
<1> QED BY <1>1, <1>2

\* Of the same: the band, the score and the blockers a reviewer is shown again are
\* the pipeline's, and so are its reasons but for those a review answers if no
\* quotation was set aside; and a correction changes the states it names and the
\* band as they say (recompute).
THEOREM EveryReviewAgrees == ASSUME NEW q, Judgeable(q) PROVE ReviewRepeats(q)
<1> DEFINE S == DOMAIN q.rubric.criteria
           rec == Recommended(q)
           again(overrides) == Recompute(Resolutions(q), overrides, q.rubric, q.integrity)
           plain == again([i \in {} |-> "MET"])
<1>1. Resolutions(q) \in [S -> Resolution] /\ Accepted(q.rubric)
  BY ResolutionsTyped DEF Judgeable
<1>2. ResolutionsFrom(Resolutions(q), [i \in {} |-> "MET"]) = Resolutions(q)
  BY <1>1 DEF ResolutionsFrom
<1> DEFINE none == [NoFlags EXCEPT !.invalid_span = InvalidSpanCount > 0]
<1>3. plain = Aggregate(Resolutions(q), q.rubric, q.integrity, none)
  BY <1>2 DEF Recompute
<1>4. rec = Aggregate(Resolutions(q), q.rubric, q.integrity, Flags(q))
  BY DEF Recommended
<1> DEFINE states == CriterionStates(Resolutions(q), q.rubric)
           before(flags) == HumanReasons(states, Resolutions(q), q.integrity, flags, Blockers(q.rubric, states).reasons)
           band == IF Blockers(q.rubric, states).band = "none"
                     THEN BandFor(q.rubric, Earned(q.rubric, states), Weight(q.rubric, Resolved(states)))
                     ELSE Blockers(q.rubric, states).band
           score == IF band \in GATE_BANDS THEN NoScore
                    ELSE << Earned(q.rubric, states), Weight(q.rubric, Resolved(states)) >>
           shut == [band |-> "INSUFFICIENT_INFORMATION", score |-> NoScore, states |-> states,
                    fired |-> {}, human |-> TRUE, reasons |-> {"coverage_below_gate"}]
           open(flags) == [band |-> band, score |-> score, states |-> states,
                           fired |-> Blockers(q.rubric, states).fired,
                           human |-> before(flags) # {}, reasons |-> before(flags)]
<1>5. /\ plain = IF GateShut(q.rubric, states) THEN shut ELSE open(none)
      /\ rec = IF GateShut(q.rubric, states) THEN shut ELSE open(Flags(q))
  BY <1>3, <1>4 DEF Aggregate
<1>6. ASSUME ~Flags(q).invalid_span
      PROVE  before(none) \cup ANSWERED = before(Flags(q)) \cup ANSWERED
  <2> HIDE DEF states
  <2>1. ~none.invalid_span /\ ~none.partial_profile /\ ~none.budget_capped
    <3>1. (InvalidSpanCount > 0) = FALSE
      BY DEF InvalidSpanCount
    <3>2. none = [NoFlags EXCEPT !.invalid_span = FALSE]
      BY <3>1
    <3> HIDE DEF none
    <3> QED BY <3>2 DEF NoFlags
  <2> HIDE DEF none
  <2> QED BY <1>6, <2>1 DEF HumanReasons, When, ANSWERED
<1>7. /\ \A part \in {"band", "score", "states", "fired"} : plain[part] = rec[part]
      /\ ~Flags(q).invalid_span => plain.reasons \cup ANSWERED = rec.reasons \cup ANSWERED
  <2>1. CASE GateShut(q.rubric, states)
    <3> HIDE DEF states, plain, rec
    <3> QED BY <1>5, <2>1
  <2>2. CASE ~GateShut(q.rubric, states)
    <3>1. plain = open(none) /\ rec = open(Flags(q))
      BY <1>5, <2>2
    <3>2. \A flags : /\ open(flags).band = band /\ open(flags).score = score
                     /\ open(flags).states = states /\ open(flags).fired = Blockers(q.rubric, states).fired
                     /\ open(flags).reasons = before(flags)
      <4> HIDE DEF states, band, score, before
      <4> QED OBVIOUS
    <3> HIDE DEF states, band, score, before, plain, rec, open, none
    <3> QED BY <1>6, <3>1, <3>2
  <2> QED BY <2>1, <2>2
<1>8. ASSUME NEW i \in S, NEW state \in {"MET", "NOT_MET"}
      PROVE  LET corrected == again([j \in {i} |-> state]) IN
             /\ corrected.states = [rec.states EXCEPT ![i] = state]
             /\ corrected.band = BandOf(q.rubric, corrected.states)
  <2> DEFINE overridden == ResolutionsFrom(Resolutions(q), [j \in {i} |-> state])
             corrected == again([j \in {i} |-> state])
  <2>1. overridden = [Resolutions(q) EXCEPT ![i] = [@ EXCEPT !.state = state, !.rule = "R-REVIEWER-OVERRIDE"]]
    BY <1>1 DEF ResolutionsFrom
  <2>2. overridden \in [S -> Resolution]
    BY <1>1, <2>1 DEF Resolution, CriterionState, Rule
  <2>3. \A j \in S : overridden[j].state = IF j = i THEN state ELSE Resolutions(q)[j].state
    BY <1>1, <2>1 DEF Resolution
  <2>4. corrected = Aggregate(overridden, q.rubric, q.integrity, none)
    BY DEF Recompute
  <2>5. Aggregated(overridden, q.rubric, q.integrity, none)
    <3> HIDE DEF overridden, none
    <3> QED BY <1>1, <2>2, Aggregates
  <2>6. rec.states = [j \in S |-> Resolutions(q)[j].state]
    BY RecommendedTells DEF Aggregated, Recommended
  <2>7. /\ corrected.states = [j \in S |-> overridden[j].state]
        /\ corrected.band = BandOf(q.rubric, corrected.states)
    <3> HIDE DEF overridden, none, corrected
    <3> QED BY <2>4, <2>5 DEF Aggregated
  <2> HIDE DEF overridden, none, corrected, rec
  <2>8. corrected.states = [rec.states EXCEPT ![i] = state]
    BY <2>3, <2>6, <2>7
  <2> QED BY <2>7, <2>8 DEF corrected
<1>9. DOMAIN rec.states = S
  BY RecommendedTells DEF Aggregated, Recommended
<1> HIDE DEF rec, plain
<1> QED BY <1>7, <1>8, <1>9 DEF ReviewRepeats, rec, plain

\* Every question the topic asks is one.
RulesAsked == topic = "rules" => Judgeable(input)

\* Of the rubrics and of what is returned in the runs, that is so.
LEMMA RulesAreAsked == Spec => []RulesAsked
<1>1. Init => RulesAsked
  BY DEF Init, RulesAsked
<1>2. AskRules => RulesAsked'
  <2> SUFFICES ASSUME AskRules PROVE Judgeable(input')
    BY DEF RulesAsked
  <2>1. PICK rubric \in Rubrics, returned \in [1..3 -> Returned], unassessed \in {{}, {3}} :
            /\ RubricAccepted(rubric)
            /\ input' = [rubric |-> rubric, returned |-> returned, unassessed |-> unassessed,
                         integrity |-> IF unassessed = {} THEN "SUSPECT" ELSE "CLEAN"]
    BY DEF AskRules
  <2>2. PICK kinds \in [1..3 -> Kind], floor \in {0, 1}, gate \in {0, Scale \div 2} :
            rubric = [criteria |-> [i \in 1..3 |-> [kind |-> kinds[i], weight |-> IF i = 2 THEN 2 ELSE 1,
                                    min_supported |-> IF kinds[i] = "HIGH_STAKES" THEN 2 ELSE floor,
                                    points |-> Points]],
                      bands |-> Bands, min_coverage |-> gate]
    BY DEF Rubrics
  <2>3. /\ Scale \div 2 \in Nat /\ Scale \div 4 \in Nat /\ (3 * Scale) \div 4 \in Nat /\ Scale \in Nat
    BY RulesAssumption
  <2>4. Points \in [SCORING_STATES -> Nat]
    BY <2>3 DEF Points, SCORING_STATES, CriterionState
  <2>5. rubric.criteria \in Seq(Criteria)
    <3>1. \A i \in 1..3 : rubric.criteria[i] \in Criteria
      BY <2>2, <2>4 DEF Criteria
    <3>2. rubric.criteria = [i \in 1..3 |-> rubric.criteria[i]]
      BY <2>2
    <3> QED BY <3>1, <3>2
  <2>6. rubric.bands \in Seq([band : Band, min_score : Nat])
    BY <2>2, <2>3 DEF Bands, Band
  <2>7. rubric.min_coverage \in Nat
    BY <2>2, <2>3
  <2>8. Accepted(rubric)
    BY <2>1, <2>5, <2>6, <2>7 DEF Accepted, RubricTyped
  <2>9. DOMAIN rubric.criteria = 1..3
    BY <2>2
  <2>10. Returned \subseteq Seq(Items)
    BY DEF Returned, Claim, Denial, Invented, Misplaced, Silence, Item, Items, EvidenceState, SpanVerdict
  <2> QED BY <2>1, <2>8, <2>9, <2>10 DEF Judgeable
<1>3. Next \/ UNCHANGED vars => (topic' = "rules" => AskRules \/ UNCHANGED vars)
  BY DEF Next, Ask, AskRules, AskTexts, AskQuotes, AskChunks, AskMerges, AskScans, AskFiles, AskAnchors,
         AskDrafts, AskCosts, AskPanels, AskRubrics, AskBatches, AskRates
<1>4. RulesAsked /\ [Next]_vars => RulesAsked'
  BY <1>2, <1>3 DEF RulesAsked, vars
<1> QED BY <1>1, <1>4, PTL DEF Spec

\* The band of every question the runs ask is the one of its states (aggregate.py).
THEOREM BandsFollow == Spec => []BandIsOfTheStates
<1>1. RulesAsked => BandIsOfTheStates
  BY EveryBandFollows DEF RulesAsked, BandIsOfTheStates
<1> QED BY <1>1, RulesAreAsked, PTL

\* Every recommendation of theirs is acceptable, and asks for a person when it has to.
THEOREM GatesAsk == Spec => []GatesAskAPerson
<1>1. RulesAsked => GatesAskAPerson
  BY EveryGateAsks DEF RulesAsked, GatesAskAPerson
<1> QED BY <1>1, RulesAreAsked, PTL

\* All their findings rest on located quotations (resolution.py).
THEOREM FindingsAreLocated == Spec => []LocatedOnly
<1>1. RulesAsked => LocatedOnly
  BY EveryFindingIsLocated DEF RulesAsked, LocatedOnly
<1> QED BY <1>1, RulesAreAsked, PTL

\* All their reviews repeat what was concluded (recompute).
THEOREM ReviewsAgree == Spec => []ReviewAgrees
<1>1. RulesAsked => ReviewAgrees
  BY EveryReviewAgrees DEF RulesAsked, ReviewAgrees
<1> QED BY <1>1, RulesAreAsked, PTL

-----------------------------------------------------------------------------
(* The scanners and the second opinion. *)

\* What the detectors may find,
Findings == [detector : DETECTOR_IDS, severity : Severity, confidence : Nat]
\* and what a document is called for it.
Tier == {"CLEAN", "SUSPECT", "QUARANTINE"}

\* Whatever a document is, the detectors find findings.
LEMMA ScanFinds == ASSUME NEW document, NEW compares PROVE Scan(document, compares) \subseteq Findings
<1>1. \A text : DetectInstructions(text) \subseteq Findings
  <2> TAKE text
  <2> DEFINE n == Cardinality({hit.pattern : hit \in {h \in text.imperatives : h.near}})
  <2>1. DetectInstructions(text) =
          CASE "addresses" \in text.features -> {Finding("D-INSTR-IMPERATIVE", "HIGH", 90)}
            [] "addresses" \notin text.features /\ n >= 2 -> {Finding("D-INSTR-IMPERATIVE", "HIGH", 80)}
            [] "addresses" \notin text.features /\ n = 1 -> {Finding("D-INSTR-IMPERATIVE", "MEDIUM", 55)}
            [] OTHER -> {}
    BY DEF DetectInstructions
  <2> HIDE DEF n
  <2> QED BY <2>1 DEF Finding, Findings, DETECTOR_IDS, Severity
<1>2. \A text : /\ DetectRoleTokens(text) \subseteq Findings /\ DetectInvisibleGlyphs(text) \subseteq Findings
                /\ DetectHomoglyphs(text) \subseteq Findings /\ DetectRepetition(text) \subseteq Findings
  BY DEF DetectRoleTokens, DetectInvisibleGlyphs, DetectHomoglyphs, DetectRepetition, If, Finding,
         Findings, DETECTOR_IDS, Severity
<1>3. \A text : RunTextDetectors(text) \subseteq Findings
  BY <1>1, <1>2 DEF RunTextDetectors
<1>4. \A spans : RunSpanDetectors(spans) \subseteq Findings
  BY DEF RunSpanDetectors, DetectHiddenColour, DetectHiddenSize, DetectOffpage, If, Finding,
         Findings, DETECTOR_IDS, Severity
<1>5. \A properties : DetectMetadata(properties) \subseteq Findings
  BY DEF DetectMetadata, If, Finding, Findings, DETECTOR_IDS, Severity
<1>6. \A pages : DetectRenderDiff(pages) \subseteq Findings
  <2>1. \A condition : If(condition, Finding("D-RENDER-DIFF", "HIGH", 82)) \subseteq Findings
    BY DEF If, Finding, Findings, DETECTOR_IDS, Severity
  <2> QED BY <2>1 DEF DetectRenderDiff
<1> QED BY <1>3, <1>4, <1>5, <1>6 DEF Scan

\* The severest of some tiers.
LEMMA SeverestIs ==
  ASSUME NEW tiers \in SUBSET Tier, tiers # {}
  PROVE  Severest(tiers) = IF "QUARANTINE" \in tiers THEN "QUARANTINE"
                           ELSE IF "SUSPECT" \in tiers THEN "SUSPECT" ELSE "CLEAN"
<1> DEFINE rank(u) == SelectInSeq(IntegrityTier, LAMBDA x : x = u)
<1>1. rank("CLEAN") = 1 /\ rank("SUSPECT") = 2 /\ rank("QUARANTINE") = 3
  BY DEF SelectInSeq, IntegrityTier, Min
<1>2. Severest(tiers) = CHOOSE t \in tiers : \A u \in tiers : rank(u) <= rank(t)
  BY DEF Severest
<1> DEFINE worst == IF "QUARANTINE" \in tiers THEN "QUARANTINE"
                    ELSE IF "SUSPECT" \in tiers THEN "SUSPECT" ELSE "CLEAN"
           Best(t) == \A u \in tiers : rank(u) <= rank(t)
<1> HIDE DEF rank
<1>3. worst \in tiers /\ Best(worst)
  <2>1. CASE "QUARANTINE" \in tiers
    <3>1. worst = "QUARANTINE"
      BY <2>1
    <3> HIDE DEF worst
    <3> QED BY <1>1, <2>1, <3>1 DEF Tier
  <2>2. CASE "QUARANTINE" \notin tiers /\ "SUSPECT" \in tiers
    <3>1. worst = "SUSPECT"
      BY <2>2
    <3> HIDE DEF worst
    <3> QED BY <1>1, <2>2, <3>1 DEF Tier
  <2>3. CASE "QUARANTINE" \notin tiers /\ "SUSPECT" \notin tiers
    <3>1. worst = "CLEAN"
      BY <2>3
    <3>2. tiers = {"CLEAN"}
      <4>1. \A t \in tiers : t = "CLEAN"
        BY <2>3 DEF Tier
      <4> QED BY <4>1
    <3> HIDE DEF worst
    <3> QED BY <1>1, <3>1, <3>2
  <2> QED BY <2>1, <2>2, <2>3
<1>4. \A t \in tiers : Best(t) => t = worst
  BY <1>1, <1>3 DEF Tier
<1> HIDE DEF worst
<1>5. (CHOOSE t \in tiers : Best(t)) = worst
  <2> HIDE DEF Best
  <2> QED BY <1>3, <1>4
<1> QED BY <1>2, <1>5 DEF worst

\* What a second opinion may make of a finding.
LEMMA RaisedIs ==
  ASSUME NEW findings \in SUBSET Findings, NEW verdict \in [DETECTOR_IDS -> Severity \cup {"unavailable"}],
         \A f \in findings : verdict[f.detector] # "unavailable"
  PROVE  /\ \A g \in Raised(findings, verdict) : \E f \in findings :
                g.confidence = f.confidence /\ g.severity \in Severity
         /\ \A f \in findings : \E g \in Raised(findings, verdict) :
                /\ g.confidence = f.confidence
                /\ f.severity = "HIGH" => g.severity = "HIGH"
                /\ f.severity = "MEDIUM" => g.severity \in {"MEDIUM", "HIGH"}
<1> DEFINE r(f) == IF RANK[verdict[f.detector]] > RANK[f.severity]
                     THEN [f EXCEPT !.severity = verdict[f.detector]] ELSE f
<1>1. Raised(findings, verdict) = {r(f) : f \in findings}
  BY DEF Raised
<1>2. ASSUME NEW f \in findings
      PROVE  /\ r(f).confidence = f.confidence
             /\ r(f).severity \in Severity
             /\ f.severity = "HIGH" => r(f).severity = "HIGH"
             /\ f.severity = "MEDIUM" => r(f).severity \in {"MEDIUM", "HIGH"}
  BY DEF Findings, RANK, Severity
<1> HIDE DEF r
<1> QED BY <1>1, <1>2

\* The configuration of the scanners.
ScanSettings == [classifies : BOOLEAN, compares : BOOLEAN, threshold : Int]

\* Documents of any kind, of a submission that has some; any settings, and any answer.
Scannable(q, Document) ==
    /\ q.documents \in Seq(Document) /\ Len(q.documents) > 0
    /\ q.settings \in ScanSettings
    /\ q.verdict \in [DETECTOR_IDS -> Severity \cup {"unavailable"}]

\* One document, with a second opinion and without.
LEMMA OpinionRaises ==
  ASSUME NEW document, NEW settings \in ScanSettings,
         NEW verdict \in [DETECTOR_IDS -> Severity \cup {"unavailable"}]
  PROVE  LET alone == ScanOne(document, settings)
             report == SecondOpinion(alone, settings, verdict)
         IN  /\ report.tier \in Tier /\ alone.tier \in Tier
             /\ ReportAccepted(report)
             /\ Severest({report.tier, alone.tier}) = report.tier
             /\ report.tier # alone.tier => alone.tier = "SUSPECT"
             /\ report.tier = "QUARANTINE" => \E f \in alone.findings : f.confidence >= settings.threshold
             /\ report.classifier_unavailable => report.tier = alone.tier
<1> DEFINE found == Scan(document, settings.compares)
           alone == ScanOne(document, settings)
           raised == Raised(found, verdict)
           report == SecondOpinion(alone, settings, verdict)
           low == TierFor(found, settings.threshold)
           high == TierFor(raised, settings.threshold)
<1>1. found \subseteq Findings
  BY ScanFinds
<1>2. alone = [findings |-> found, threshold |-> settings.threshold, tier |-> low,
               classifier_used |-> FALSE, classifier_unavailable |-> FALSE]
  BY DEF ScanOne
<1>3. low \in Tier /\ high \in Tier
  BY DEF TierFor, Tier
<1>4. low = "QUARANTINE" => \E f \in found : f.confidence >= settings.threshold
  <2> HIDE DEF found
  <2> QED BY DEF TierFor
<1>5. (\A f \in found : verdict[f.detector] # "unavailable") =>
        /\ Severest({high, low}) = high
        /\ high = "QUARANTINE" => \E f \in found : f.confidence >= settings.threshold
  <2> SUFFICES ASSUME \A f \in found : verdict[f.detector] # "unavailable"
               PROVE  /\ Severest({high, low}) = high
                      /\ high = "QUARANTINE" => \E f \in found : f.confidence >= settings.threshold
    OBVIOUS
  <2>1. /\ \A g \in raised : \E f \in found : g.confidence = f.confidence /\ g.severity \in Severity
        /\ \A f \in found : \E g \in raised :
                /\ g.confidence = f.confidence
                /\ f.severity = "HIGH" => g.severity = "HIGH"
                /\ f.severity = "MEDIUM" => g.severity \in {"MEDIUM", "HIGH"}
    <3> HIDE DEF found
    <3> QED BY <1>1, RaisedIs
  <2> HIDE DEF found, raised
  <2>2. high = "QUARANTINE" => \E f \in found : f.confidence >= settings.threshold
    BY <2>1 DEF TierFor
  <2>3. low = "QUARANTINE" => high = "QUARANTINE"
    BY <2>1 DEF TierFor
  <2>4. low = "SUSPECT" => high \in {"SUSPECT", "QUARANTINE"}
    BY <2>1 DEF TierFor
  <2>5. Severest({high, low}) = high
    <3> HIDE DEF high, low
    <3>1. {high, low} \in SUBSET Tier /\ {high, low} # {}
      BY <1>3
    <3> QED BY <1>3, <2>3, <2>4, <3>1, SeverestIs DEF Tier
  <2> QED BY <2>2, <2>5
<1>6. Severest({low, low}) = low
  <2> HIDE DEF low
  <2>1. {low, low} \in SUBSET Tier /\ {low, low} # {}
    BY <1>3
  <2> QED BY <1>3, <2>1, SeverestIs DEF Tier
<1>7. \/ report = alone
      \/ low = "SUSPECT" /\ report = [alone EXCEPT !.classifier_unavailable = TRUE]
      \/ /\ low = "SUSPECT" /\ \A f \in found : verdict[f.detector] # "unavailable"
         /\ report = [alone EXCEPT !.findings = raised, !.classifier_used = TRUE, !.tier = high]
  <2> HIDE DEF found
  <2> QED BY <1>2 DEF SecondOpinion
<1> SUFFICES /\ report.tier \in Tier /\ alone.tier \in Tier
             /\ ReportAccepted(report)
             /\ Severest({report.tier, alone.tier}) = report.tier
             /\ report.tier # alone.tier => alone.tier = "SUSPECT"
             /\ report.tier = "QUARANTINE" => \E f \in alone.findings : f.confidence >= settings.threshold
             /\ report.classifier_unavailable => report.tier = alone.tier
  OBVIOUS
<1>8. alone.tier = low /\ alone.findings = found /\ alone.threshold = settings.threshold /\ ~alone.classifier_unavailable
  BY <1>2
<1>9. \/ /\ report.tier = low /\ report.findings = found /\ report.threshold = settings.threshold
      \/ /\ low = "SUSPECT" /\ \A f \in found : verdict[f.detector] # "unavailable"
         /\ report.tier = high /\ report.findings = raised /\ report.threshold = settings.threshold
         /\ ~report.classifier_unavailable
  <2> HIDE DEF found, raised, low, high, alone, report
  <2>1. CASE report = alone
    BY <1>2, <2>1
  <2>2. CASE low = "SUSPECT" /\ report = [alone EXCEPT !.classifier_unavailable = TRUE]
    BY <1>2, <2>2
  <2>3. CASE /\ low = "SUSPECT" /\ \A f \in found : verdict[f.detector] # "unavailable"
             /\ report = [alone EXCEPT !.findings = raised, !.classifier_used = TRUE, !.tier = high]
    <3>1. report.tier = high /\ report.findings = raised /\ report.threshold = settings.threshold
      BY <1>2, <2>3
    <3>2. ~report.classifier_unavailable
      BY <1>2, <2>3
    <3> QED BY <2>3, <3>1, <3>2
  <2> QED BY <1>7, <2>1, <2>2, <2>3
<1>10. ReportAccepted(report)
  <2>1. low = TierFor(found, settings.threshold) /\ high = TierFor(raised, settings.threshold)
    OBVIOUS
  <2> HIDE DEF found, raised, low, high, alone, report
  <2> QED BY <1>9, <2>1 DEF ReportAccepted
<1> HIDE DEF found, raised, low, high, alone, report
<1> QED BY <1>3, <1>4, <1>5, <1>6, <1>8, <1>9, <1>10

\* Of any submission that is not empty, any settings and any answers: a second opinion
\* only makes a report worse, and only one the detectors doubted; quarantine takes a
\* finding above the threshold; and the run ends there exactly if a document of its is
\* quarantined (sanitize_node.py).
THEOREM EveryOpinionRaises == ASSUME NEW q, NEW Document, Scannable(q, Document) PROVE OnlyRaises(q)
<1> DEFINE node == SanitizeNode(q.documents, q.settings, q.verdict)
           S == DOMAIN q.documents
           alone(k) == ScanOne(q.documents[k], q.settings)
           report(k) == SecondOpinion(alone(k), q.settings, q.verdict)
           reports == [k \in S |-> report(k)]
           tier == WorstOf(reports)
<1>1. q.settings \in ScanSettings /\ q.verdict \in [DETECTOR_IDS -> Severity \cup {"unavailable"}]
  BY DEF Scannable
<1>2. S # {} /\ q.documents # << >>
  <2>1. q.documents \in Seq(Document) /\ Len(q.documents) > 0
    BY DEF Scannable
  <2>2. 1 \in S
    BY <2>1
  <2>3. Len(<< >>) = 0
    OBVIOUS
  <2>4. q.documents # << >>
    BY <2>1, <2>3
  <2> QED BY <2>2, <2>4
<1>3. \A k \in S :
        /\ report(k).tier \in Tier /\ alone(k).tier \in Tier
        /\ ReportAccepted(report(k))
        /\ Severest({report(k).tier, alone(k).tier}) = report(k).tier
        /\ report(k).tier # alone(k).tier => alone(k).tier = "SUSPECT"
        /\ report(k).tier = "QUARANTINE" => \E f \in alone(k).findings : f.confidence >= q.settings.threshold
        /\ report(k).classifier_unavailable => report(k).tier = alone(k).tier
  BY <1>1, OpinionRaises
<1>4. /\ node.reports = reports
      /\ node.status = IF tier = "QUARANTINE" THEN "FAILED" ELSE IF tier = "SUSPECT" THEN "DEGRADED" ELSE "OK"
      /\ node.next = IF tier = "QUARANTINE" THEN "QUARANTINED" ELSE "SANITIZED"
  <2>1. node = [reports |-> reports, tier |-> tier,
                status |-> IF q.documents = << >> \/ tier = "QUARANTINE" THEN "FAILED"
                           ELSE IF tier = "SUSPECT" THEN "DEGRADED" ELSE "OK",
                next |-> IF q.documents = << >> \/ tier = "QUARANTINE" THEN "QUARANTINED" ELSE "SANITIZED"]
    BY DEF SanitizeNode
  <2> HIDE DEF reports, tier, node
  <2> QED BY <1>2, <2>1
<1> HIDE DEF report, alone
<1>5. tier = IF \E k \in S : report(k).tier = "QUARANTINE" THEN "QUARANTINE"
             ELSE IF \E k \in S : report(k).tier = "SUSPECT" THEN "SUSPECT" ELSE "CLEAN"
  <2> DEFINE tiers == {"CLEAN"} \cup {report(k).tier : k \in S}
  <2>1. tiers \in SUBSET Tier /\ tiers # {}
    BY <1>3 DEF Tier
  <2>2. tier = Severest(tiers)
    BY DEF WorstOf
  <2>3. Severest(tiers) = IF "QUARANTINE" \in tiers THEN "QUARANTINE"
                          ELSE IF "SUSPECT" \in tiers THEN "SUSPECT" ELSE "CLEAN"
    <3> HIDE DEF tiers
    <3> QED BY <2>1, SeverestIs
  <2> HIDE DEF tier
  <2> QED BY <2>2, <2>3
<1>6. \A k \in S : node.reports[k] = report(k)
  BY <1>4
<1>7. /\ (node.next = "QUARANTINED") = (\E k \in S : report(k).tier = "QUARANTINE")
      /\ (node.status = "OK") = (\A k \in S : report(k).tier = "CLEAN")
  <2> HIDE DEF node, tier, reports
  <2> QED BY <1>3, <1>4, <1>5 DEF Tier
<1> HIDE DEF node
<1> QED BY <1>3, <1>6, <1>7 DEF OnlyRaises, node, alone

\* Every question about submissions is one of these.
ScansAsked == topic = "scans" => Scannable(input, Submitted)

\* The submissions of the runs are.
LEMMA ScansAreAsked == Spec => []ScansAsked
<1>1. Init => ScansAsked
  BY DEF Init, ScansAsked
<1>2. AskScans => ScansAsked'
  <2> SUFFICES ASSUME AskScans PROVE Scannable(input', Submitted)
    BY DEF ScansAsked
  <2> DEFINE documents(first, rest) == << first >> \o rest
             settings(classifies, compares, threshold) ==
                [classifies |-> classifies, compares |-> compares, threshold |-> threshold]
             verdict(strict, mild) ==
                [d \in DETECTOR_IDS |-> IF d \in {"D-INSTR-IMPERATIVE", "D-HOMOGLYPH"} THEN strict ELSE mild]
  <2>1. PICK first \in Submitted, rest \in SeqOf(Few, 1), classifies \in BOOLEAN, compares \in BOOLEAN,
             threshold \in {75, 85}, mild \in {"LOW", "HIGH"}, strict \in {"LOW", "HIGH", "unavailable"} :
            input' = [documents |-> documents(first, rest),
                      settings |-> settings(classifies, compares, threshold),
                      verdict |-> verdict(strict, mild)]
    BY DEF AskScans
  <2>2. rest \in Seq(Submitted)
    <3>1. Few \subseteq Submitted
      BY DEF Few
    <3>2. SeqOf(Few, 1) = UNION {[1..m -> Few] : m \in 0..1}
      BY DEF SeqOf
    <3>3. PICK m \in 0..1 : rest \in [1..m -> Few]
      BY <3>2
    <3> HIDE DEF Few, Submitted
    <3> QED BY <3>1, <3>3
  <2>3. /\ documents(first, rest) \in Seq(Submitted) /\ Len(documents(first, rest)) > 0
    <3> HIDE DEF Submitted
    <3> QED BY <2>2
  <2>4. settings(classifies, compares, threshold) \in ScanSettings
    BY DEF ScanSettings
  <2>5. verdict(strict, mild) \in [DETECTOR_IDS -> Severity \cup {"unavailable"}]
    BY DEF Severity
  <2> HIDE DEF documents, settings, verdict
  <2> QED BY <2>1, <2>3, <2>4, <2>5 DEF Scannable
<1>3. Next \/ UNCHANGED vars => (topic' = "scans" => AskScans \/ UNCHANGED vars)
  BY DEF Next, Ask, AskRules, AskTexts, AskQuotes, AskChunks, AskMerges, AskScans, AskFiles, AskAnchors,
         AskDrafts, AskCosts, AskPanels, AskRubrics, AskBatches, AskRates
<1>4. ScansAsked /\ [Next]_vars => ScansAsked'
  BY <1>2, <1>3 DEF ScansAsked, vars
<1> QED BY <1>1, <1>4, PTL DEF Spec

\* A second opinion only makes their reports worse.
THEOREM OpinionsOnlyRaise == Spec => []OnlyWorse
<1>1. ScansAsked => OnlyWorse
  BY EveryOpinionRaises DEF ScansAsked, OnlyWorse
<1> QED BY <1>1, ScansAreAsked, PTL

-----------------------------------------------------------------------------
(* The limit of the rate of calls. *)

\* The lesser and the greater of two.
LEMMA LesserAndGreater ==
  ASSUME NEW a \in Int, NEW b \in Int
  PROVE  /\ Min({a, b}) = IF a <= b THEN a ELSE b
         /\ Max({a, b}) = IF a >= b THEN a ELSE b
<1>1. Min({a, b}) = IF a <= b THEN a ELSE b
  <2> DEFINE least == IF a <= b THEN a ELSE b
  <2>1. least \in {a, b} /\ \A y \in {a, b} : least <= y
    OBVIOUS
  <2>2. \A x \in {a, b} : (\A y \in {a, b} : x <= y) => x = least
    OBVIOUS
  <2> HIDE DEF least
  <2>3. (CHOOSE x \in {a, b} : \A y \in {a, b} : x <= y) = least
    BY <2>1, <2>2
  <2> QED BY <2>3 DEF Min, least
<1>2. Max({a, b}) = IF a >= b THEN a ELSE b
  <2> DEFINE most == IF a >= b THEN a ELSE b
  <2>1. most \in {a, b} /\ \A y \in {a, b} : most >= y
    OBVIOUS
  <2>2. \A x \in {a, b} : (\A y \in {a, b} : x >= y) => x = most
    OBVIOUS
  <2> HIDE DEF most
  <2>3. (CHOOSE x \in {a, b} : \A y \in {a, b} : x >= y) = most
    BY <2>1, <2>2
  <2> QED BY <2>3 DEF Max, most
<1> QED BY <1>1, <1>2

\* What a bucket can hold.
Full == Capacity * Interval

\* A call and the bucket after it; the bucket was last looked at when the call was
\* let through, and holds no more than it can.
Let == [at : Nat, bucket : [holds : Nat, last : Nat]]
\* And it holds no more than it can.
Through == {call \in Let : call.bucket.last = call.at /\ call.bucket.holds <= Full}

\* A call after a wait: what it takes out of the bucket is an interval, which was
\* there or has passed since.
LEMMA TakeTells ==
  ASSUME NEW call \in Through, NEW wait \in Nat
  PROVE  LET next == Take(call.bucket, call.at + wait) IN
         /\ next \in Through
         /\ next.bucket.holds + Interval <= Full
         /\ next.bucket.holds + Interval - call.bucket.holds <= next.at - call.at
<1> DEFINE h == call.bucket.holds
           held == IF Full <= h + wait THEN Full ELSE h + wait
           next == Take(call.bucket, call.at + wait)
<1>1. Interval \in Nat /\ Interval > 0 /\ Full \in Nat /\ Full >= Interval
  <2>1. Capacity \in Nat /\ Capacity >= 1 /\ Interval \in Nat /\ Interval > 0
    BY BatchesAssumption
  <2>2. PICK c \in Nat : Capacity = c + 1
    <3>1. Capacity - 1 \in Nat /\ Capacity = (Capacity - 1) + 1
      BY <2>1
    <3> QED BY <3>1
  <2>3. c * Interval \in Nat
    BY <2>1
  <2>4. Full = c * Interval + Interval
    BY <2>1, <2>2 DEF Full
  <2> QED BY <2>1, <2>3, <2>4
<1>2. h \in Nat /\ h <= Full /\ call.at \in Nat /\ call.bucket.last = call.at
  BY DEF Through, Let
<1>3. h + (call.at + wait) - call.bucket.last = h + wait
  BY <1>2
<1>4. Min({Full, h + wait}) = held /\ held \in Nat
  BY <1>1, <1>2, LesserAndGreater
<1>5. next = [at |-> call.at + wait + Max({Interval - held, 0}),
              bucket |-> [holds |-> Max({held - Interval, 0}),
                          last |-> call.at + wait + Max({Interval - held, 0})]]
  <2> HIDE DEF held, h
  <2> QED BY <1>3, <1>4 DEF Take, Full, h
<1>6. /\ Max({Interval - held, 0}) = IF Interval >= held THEN Interval - held ELSE 0
      /\ Max({held - Interval, 0}) = IF held >= Interval THEN held - Interval ELSE 0
  <2> HIDE DEF held
  <2>1. Interval - held \in Int /\ held - Interval \in Int
    BY <1>1, <1>4
  <2>2. /\ Max({Interval - held, 0}) = IF Interval - held >= 0 THEN Interval - held ELSE 0
        /\ Max({held - Interval, 0}) = IF held - Interval >= 0 THEN held - Interval ELSE 0
    BY <2>1, LesserAndGreater
  <2> QED BY <1>1, <1>4, <2>2
<1>7. held <= h + wait /\ held <= Full
  BY <1>1, <1>2
<1> SUFFICES /\ next \in Through
             /\ next.bucket.holds + Interval <= Full
             /\ next.bucket.holds + Interval - h <= next.at - call.at
  OBVIOUS
<1> DEFINE late == IF Interval >= held THEN Interval - held ELSE 0
           left == IF held >= Interval THEN held - Interval ELSE 0
<1>8. /\ late \in Nat /\ left \in Nat
      /\ left + Interval <= Full
      /\ left + Interval <= h + wait + late
  <2> HIDE DEF held, h
  <2> QED BY <1>1, <1>2, <1>4, <1>7
<1>9. next = [at |-> call.at + wait + late, bucket |-> [holds |-> left, last |-> call.at + wait + late]]
  BY <1>5, <1>6
<1> HIDE DEF late, left, held, next, h
<1>10. next.at = call.at + wait + late /\ next.bucket.holds = left /\ next.bucket.last = next.at
  BY <1>9
<1>11. next \in Let
  BY <1>2, <1>8, <1>9 DEF Let
<1> QED BY <1>1, <1>2, <1>8, <1>10, <1>11 DEF Through

\* Of any calls, one after the other.
LEMMA TakenTells ==
  ASSUME NEW waits \in Seq(Nat)
  PROVE  /\ Taken(waits) \in [0..Len(waits) -> Through]
         /\ \A k \in 1..Len(waits) :
              LET before == Taken(waits)[k - 1]
                  after == Taken(waits)[k]
              IN  /\ after.bucket.holds + Interval <= Full
                  /\ after.bucket.holds + Interval - before.bucket.holds <= after.at - before.at
<1> DEFINE n == Len(waits)
           base == [at |-> 0, bucket |-> FullBucket]
           next(k, call) == Take(call.bucket, call.at + waits[k])
           step == [k \in 1..n |-> [call \in Through |-> next(k, call)]]
           W == [k \in 0..n |-> Through]
           Body(f) == [k \in 0..n |-> IF k = 0 THEN base ELSE next(k, f[k - 1])]
           g == Taken(waits)
<1>1. n \in Nat /\ \A k \in 1..n : waits[k] \in Nat
  OBVIOUS
<1>2. base \in Through
  <2>1. Capacity * Interval \in Nat
    BY BatchesAssumption
  <2> QED BY <2>1 DEF Through, Let, FullBucket, Full
<1>3. \A k \in 1..n, call \in Through : step[k][call] = next(k, call)
  OBVIOUS
<1>4. \A k \in 1..n, call \in Through : next(k, call) \in Through
  BY <1>1, TakeTells
<1>5. PICK f : IsChain(f, n, W, base, step)
  <2>1. W[0] = Through /\ \A k \in 1..n : W[k] = Through /\ W[k - 1] = Through
    BY <1>1
  <2>2. Chained(n, W, base, step)
    <3> HIDE DEF n, base, next, step, W
    <3> QED BY <1>1, <1>2, <1>3, <1>4, <2>1 DEF Chained
  <2> HIDE DEF n, base, step, W
  <2> QED BY <2>2, ChainExists
<1>6. f \in [0..n -> Through] /\ f[0] = base /\ \A k \in 1..n : f[k] = next(k, f[k - 1])
  <2>1. /\ f = [k \in 0..n |-> f[k]] /\ f[0] = base /\ \A k \in 1..n : f[k] = step[k][f[k - 1]]
        /\ \A k \in 0..n : f[k] \in W[k]
    BY <1>5 DEF IsChain
  <2>2. \A k \in 1..n : k - 1 \in 0..n
    BY <1>1
  <2>3. \A k \in 0..n : f[k] \in Through
    BY <2>1
  <2> HIDE DEF n, base, next, step, W
  <2> QED BY <1>3, <2>1, <2>2, <2>3
<1>7. f = Body(f)
  <2>1. \A k \in 0..n : k = 0 \/ k \in 1..n
    BY <1>1
  <2> HIDE DEF n, base, next
  <2> QED BY <1>6, <2>1
<1>8. g = CHOOSE h : h = Body(h)
  BY DEF Taken
<1>9. g = Body(g)
  <2> HIDE DEF Body, g
  <2> QED BY <1>7, <1>8
<1>10. g[0] = base /\ \A k \in 1..n : g[k] = next(k, g[k - 1])
  <2>1. 0 \in 0..n /\ \A k \in 1..n : k \in 0..n /\ k # 0
    BY <1>1
  <2> HIDE DEF g, n, next, base
  <2> QED BY <1>9, <2>1
<1> HIDE DEF g
<1>11. \A k \in 0..n : g[k] \in Through
  <2> DEFINE T == {k \in Nat : k <= n => g[k] \in Through}
  <2>1. 0 \in T
    BY <1>2, <1>10
  <2>2. ASSUME NEW k \in Nat, k \in T PROVE k + 1 \in T
    <3> SUFFICES ASSUME k + 1 <= n PROVE g[k + 1] \in Through
      OBVIOUS
    <3>1. k + 1 \in 1..n /\ (k + 1) - 1 = k /\ g[k] \in Through
      BY <1>1, <2>2
    <3> HIDE DEF next, n
    <3> QED BY <1>4, <1>10, <3>1
  <2>3. T = Nat
    <3> HIDE DEF T
    <3> T \in SUBSET Nat
      BY DEF T
    <3> QED BY <2>1, <2>2, Induction
  <2> QED BY <1>1, <2>3
<1>12. g \in [0..n -> Through]
  <2> HIDE DEF n, next, base
  <2> QED BY <1>9, <1>11
<1>13. ASSUME NEW k \in 1..n
       PROVE  /\ g[k].bucket.holds + Interval <= Full
              /\ g[k].bucket.holds + Interval - g[k - 1].bucket.holds <= g[k].at - g[k - 1].at
  <2>1. k - 1 \in 0..n /\ waits[k] \in Nat
    BY <1>1
  <2>2. g[k - 1] \in Through
    BY <1>11, <2>1
  <2>3. g[k] = Take(g[k - 1].bucket, g[k - 1].at + waits[k])
    BY <1>10
  <2> HIDE DEF n
  <2> QED BY <2>1, <2>2, <2>3, TakeTells
<1> QED BY <1>12, <1>13 DEF g

\* However many calls come, and however they wait: of those let through in any time
\* there are no more than the limit allows at once and one for every interval of it
\* (retrying.py).
THEOREM EveryRateIsKept == ASSUME NEW waits \in Seq(Nat) PROVE NeverAbove(waits)
<1> DEFINE n == Len(waits)
           g == Taken(waits)
<1>0. n \in Nat /\ DOMAIN waits = 1..n
  OBVIOUS
<1>1. /\ \A k \in 0..n : g[k].at \in Nat /\ g[k].bucket.holds \in Nat
      /\ \A k \in 1..n : /\ g[k].bucket.holds + Interval <= Full
                         /\ g[k].bucket.holds + Interval - g[k - 1].bucket.holds <= g[k].at - g[k - 1].at
  <2>1. \A k \in 0..n : g[k] \in Through
    BY TakenTells
  <2> HIDE DEF g, n
  <2>2. \A k \in 0..n : g[k].at \in Nat /\ g[k].bucket.holds \in Nat
    BY <2>1 DEF Through, Let
  <2> QED BY <2>2, TakenTells DEF g, n
<1> HIDE DEF g, n
<1>2. Interval \in Nat /\ Capacity \in Nat
  BY BatchesAssumption
<1>3. ASSUME NEW i \in 1..n
      PROVE  \A j \in 1..n : i <= j => (j - i) * Interval + g[j].bucket.holds - g[i].bucket.holds <= g[j].at - g[i].at
  <2> DEFINE T == {d \in Nat : i + d <= n =>
                     d * Interval + g[i + d].bucket.holds - g[i].bucket.holds <= g[i + d].at - g[i].at}
  <2>1. 0 \in T
    <3>1. g[i].at \in Nat /\ g[i].bucket.holds \in Nat /\ i + 0 = i /\ 0 * Interval = 0
      BY <1>0, <1>1, <1>2
    <3> QED BY <3>1
  <2>2. ASSUME NEW d \in Nat, d \in T PROVE d + 1 \in T
    <3> SUFFICES ASSUME i + (d + 1) <= n
                 PROVE  (d + 1) * Interval + g[i + (d + 1)].bucket.holds - g[i].bucket.holds
                            <= g[i + (d + 1)].at - g[i].at
      OBVIOUS
    <3>1. /\ i + d \in 0..n /\ i + (d + 1) \in 1..n /\ i \in 0..n /\ (i + (d + 1)) - 1 = i + d
          /\ i + (d + 1) \in 0..n /\ i + d <= n
      BY <1>0
    <3>2. PICK a \in Nat, b \in Nat, c \in Nat, p \in Nat, q \in Nat, r \in Nat :
              /\ a = g[i].at /\ b = g[i + d].at /\ c = g[i + (d + 1)].at
              /\ p = g[i].bucket.holds /\ q = g[i + d].bucket.holds /\ r = g[i + (d + 1)].bucket.holds
      BY <1>1, <3>1
    <3>3. PICK m \in Nat : m = d * Interval
      BY <1>2
    <3>4. m + q - p <= b - a
      BY <2>2, <3>1, <3>2, <3>3
    <3>5. r + Interval - q <= c - b
      BY <1>1, <3>1, <3>2
    <3>6. (d + 1) * Interval = m + Interval
      BY <1>2, <3>3
    <3>7. (m + Interval) + r - p <= c - a
      BY <1>2, <3>4, <3>5
    <3> QED BY <3>2, <3>6, <3>7
  <2>3. T = Nat
    <3> HIDE DEF T
    <3> T \in SUBSET Nat
      BY DEF T
    <3> QED BY <2>1, <2>2, Induction
  <2>4. ASSUME NEW j \in 1..n, i <= j
        PROVE  (j - i) * Interval + g[j].bucket.holds - g[i].bucket.holds <= g[j].at - g[i].at
    <3>1. j - i \in Nat /\ i + (j - i) = j /\ j <= n
      BY <1>0, <2>4
    <3>2. j - i \in T
      BY <2>3, <3>1
    <3> HIDE DEF T
    <3>3. i + (j - i) <= n => (j - i) * Interval + g[i + (j - i)].bucket.holds - g[i].bucket.holds
                                <= g[i + (j - i)].at - g[i].at
      BY <3>2 DEF T
    <3> QED BY <3>1, <3>3
  <2> QED BY <2>4
<1>4. ASSUME NEW i \in 1..n, NEW j \in 1..n, i <= j
      PROVE  (j - i + 1 - Capacity) * Interval <= g[j].at - g[i].at
  <2>1. i \in 0..n /\ j \in 0..n /\ j - i \in Nat
    BY <1>0, <1>4
  <2>2. PICK a \in Nat, b \in Nat, p \in Nat, q \in Nat :
            a = g[i].at /\ b = g[j].at /\ p = g[i].bucket.holds /\ q = g[j].bucket.holds
    BY <1>1, <2>1
  <2>3. PICK m \in Nat, full \in Nat : m = (j - i) * Interval /\ full = Capacity * Interval
    BY <1>2, <2>1
  <2>4. m + q - p <= b - a
    BY <1>3, <1>4, <2>2, <2>3
  <2>5. p + Interval <= full
    BY <1>1, <2>2, <2>3 DEF Full
  <2>6. (j - i + 1 - Capacity) * Interval = m + Interval - full
    BY <1>2, <2>1, <2>3
  <2>7. m + Interval - full <= b - a
    BY <1>2, <2>4, <2>5
  <2> QED BY <2>2, <2>6, <2>7
<1> QED BY <1>0, <1>4 DEF NeverAbove, g

\* Every question about rates is one.
RatesAsked == topic = "rates" => input \in Seq(Nat)

\* The waits of the runs are such.
LEMMA RatesAreAsked == Spec => []RatesAsked
<1>1. Init => RatesAsked
  BY DEF Init, RatesAsked
<1>2. AskRates => RatesAsked'
  <2> SUFFICES ASSUME AskRates PROVE input' \in Seq(Nat)
    BY DEF RatesAsked
  <2>1. PICK waits \in [1..5 -> 0..3] : input' = waits
    BY DEF AskRates
  <2>2. waits \in [1..5 -> Nat]
    OBVIOUS
  <2>3. \A m \in Nat : waits \in [1..m -> Nat] => waits \in Seq(Nat)
    OBVIOUS
  <2>4. waits \in Seq(Nat)
    BY <2>2, <2>3
  <2> QED BY <2>1, <2>4
<1>3. Next \/ UNCHANGED vars => (topic' = "rates" => AskRates \/ UNCHANGED vars)
  BY DEF Next, Ask, AskRules, AskTexts, AskQuotes, AskChunks, AskMerges, AskScans, AskFiles, AskAnchors,
         AskDrafts, AskCosts, AskPanels, AskRubrics, AskBatches, AskRates
<1>4. RatesAsked /\ [Next]_vars => RatesAsked'
  BY <1>2, <1>3 DEF RatesAsked, vars
<1> QED BY <1>1, <1>4, PTL DEF Spec

\* Their rates are kept.
THEOREM RatesAreKept == Spec => []RateIsKept
<1>1. RatesAsked => RateIsKept
  BY EveryRateIsKept DEF RatesAsked, RateIsKept
<1> QED BY <1>1, RatesAreAsked, PTL

-----------------------------------------------------------------------------
(* The rubric in force: the loader and what each process keeps. *)

\* One of S, or none.
Maybe(S) == {<< >>} \cup {<< x >> : x \in S}
\* Texts,
RubricText == [name : Nat, valid : BOOLEAN]
\* the file one was read from,
RubricFile == [stamp : Nat, text : RubricText]
\* what tells whether one that was read before still is good,
Key == {<< "stored", s >> : s \in Maybe(RubricText)} \cup {<< "file", s >> : s \in Nat}
\* what a process keeps,
Entry == [key : Key, text : RubricText]
\* what there is of a role,
Role == [file : Maybe(RubricFile), stored : Maybe(RubricText),
         cache : [Process -> Maybe(Entry)], begun : [Process -> Maybe(Nat)]]
\* and what a load of it answers.
LoadResult == [outcome : {"ok", "RUBRIC_INVALID", "RUBRIC_NOT_FOUND", "reading"}, text : RubricText]
\* The role with what a process keeps and what it is reading.
Touch(role, p, kept, read) ==
    [file |-> role.file, stored |-> role.stored,
     cache |-> [role.cache EXCEPT ![p] = kept], begun |-> [role.begun EXCEPT ![p] = read]]

\* What there is of a thing there may be.
LEMMA MaybeOne ==
  ASSUME NEW S, NEW m \in Maybe(S)
  PROVE  /\ m # << >> => m[1] \in S /\ m = << m[1] >> /\ DOMAIN m = {1}
         /\ \A x : << x >> # << >> /\ << x >>[1] = x
BY DEF Maybe

\* Nothing but what is kept and what is being read changes.
LEMMA Touched ==
  ASSUME NEW role \in Role, NEW p \in Process, NEW kept \in Maybe(Entry), NEW read \in Maybe(Nat)
  PROVE  /\ Touch(role, p, kept, read) \in Role
         /\ Touch(role, p, kept, read).file = role.file
         /\ Touch(role, p, kept, read).stored = role.stored
         /\ \A o \in Process : /\ Touch(role, p, kept, read).cache[o] = IF o = p THEN kept ELSE role.cache[o]
                               /\ Touch(role, p, kept, read).begun[o] = IF o = p THEN read ELSE role.begun[o]
BY DEF Touch, Role

\* A process keeps only what is a rubric, and is done reading (_load in rubrics.py).
LEMMA RemembersAs ==
  ASSUME NEW role \in Role, NEW p \in Process, NEW key, NEW text \in RubricText
  PROVE  Remember(role, p, key, text)
            = Touch(role, p, IF text.valid THEN << [key |-> key, text |-> text] >> ELSE role.cache[p], << >>)
<1>1. CASE text.valid
  <2>1. Remember(role, p, key, text) = [role EXCEPT !.cache[p] = << [key |-> key, text |-> text] >>, !.begun[p] = << >>]
    BY <1>1 DEF Remember, LoadRubric, Ok
  <2> QED BY <1>1, <2>1 DEF Touch, Role
<1>2. CASE ~text.valid
  <2>1. Remember(role, p, key, text) = [role EXCEPT !.begun[p] = << >>]
    BY <1>2 DEF Remember, LoadRubric, RubricInvalid
  <2> QED BY <1>2, <2>1 DEF Touch, Role
<1> QED BY <1>1, <1>2

\* What a process may come to keep: what is stored, or what the file says.
Learned(role, p, kept) ==
    \/ kept = role.cache[p]
    \/ /\ role.stored # << >> /\ role.stored[1].valid
       /\ kept = << [key |-> << "stored", role.stored >>, text |-> role.stored[1]] >>

\* Or, of one that began to read when the file had this time, what the file says.
LearnedFile(role, p, key, kept) ==
    \/ kept = role.cache[p]
    \/ /\ role.stored = << >> /\ role.file # << >> /\ role.file[1].text.valid
       /\ kept = << [key |-> << "file", key >>, text |-> role.file[1].text] >>

\* What is answered when it is read now.
Said(role) == IF Raw(role) = << >> THEN FileNotFound ELSE LoadRubric(Raw(role)[1])

\* raw reads the copy, or else the file.
LEMMA RawIs ==
  ASSUME NEW role \in Role
  PROVE  /\ role.stored # << >> => Raw(role) = role.stored /\ Raw(role) # << >>
         /\ role.stored = << >> /\ role.file # << >> => Raw(role) = << role.file[1].text >>
         /\ role.stored = << >> /\ role.file = << >> => Raw(role) = << >>
<1>1. role.file \in Maybe(RubricFile)
  BY DEF Role
<1>2. CASE role.stored # << >>
  BY <1>2 DEF Raw
<1>3. CASE role.stored = << >> /\ role.file # << >>
  <2>1. PICK f : role.file = << f >>
    BY <1>1, <1>3 DEF Maybe
  <2>2. [k \in DOMAIN << f >> |-> << f >>[k].text] = << f.text >>
    OBVIOUS
  <2> QED BY <1>3, <2>1, <2>2 DEF Raw
<1>4. CASE role.stored = << >> /\ role.file = << >>
  BY <1>4 DEF Raw
<1> QED BY <1>2, <1>3, <1>4

\* It is an answer.
LEMMA SaidTyped == ASSUME NEW role \in Role PROVE Said(role) \in LoadResult
<1>1. \A text \in RubricText : LoadRubric(text) \in LoadResult
  BY DEF LoadRubric, Ok, RubricInvalid, Text, LoadResult, RubricText
<1>2. FileNotFound \in LoadResult
  BY DEF FileNotFound, Text, LoadResult, RubricText
<1>3. role.stored \in Maybe(RubricText) /\ role.file \in Maybe(RubricFile)
  BY DEF Role
<1>4. Raw(role) # << >> => Raw(role)[1] \in RubricText
  <2>1. CASE role.stored # << >>
    BY <1>3, <2>1, RawIs, MaybeOne
  <2>2. CASE role.stored = << >> /\ role.file # << >>
    <3>1. role.file[1] \in RubricFile
      BY <1>3, <2>2, MaybeOne
    <3>2. role.file[1].text \in RubricText
      BY <3>1 DEF RubricFile
    <3> QED BY <2>2, <3>2, RawIs
  <2> QED BY <2>1, <2>2, RawIs
<1> QED BY <1>1, <1>2, <1>4 DEF Said

\* The second half of a load that had begun: the answer is what is in force now.
LEMMA FinishIs ==
  ASSUME NEW role \in Role, NEW p \in Process, role.begun[p] # << >>
  PROVE  LET after == Finish(role, p) IN
         /\ after.result = Said(role)
         /\ \E kept \in Maybe(Entry) :
              /\ after.role = Touch(role, p, kept, << >>)
              /\ kept # role.cache[p] =>
                   /\ Raw(role) # << >> /\ Raw(role)[1].valid
                   /\ kept = << [key |-> << "file", role.begun[p][1] >>, text |-> Raw(role)[1]] >>
<1>1. /\ role.stored \in Maybe(RubricText) /\ role.file \in Maybe(RubricFile) /\ role.begun[p] \in Maybe(Nat)
      /\ role.cache[p] \in Maybe(Entry)
  BY DEF Role
<1>2. role.begun[p][1] \in Nat
  BY <1>1, MaybeOne
<1>3. CASE Raw(role) = << >>
  <2>1. Finish(role, p) = Answer([role EXCEPT !.begun[p] = << >>], FileNotFound)
    BY <1>3 DEF Finish
  <2>2. [role EXCEPT !.begun[p] = << >>] = Touch(role, p, role.cache[p], << >>)
    BY DEF Touch, Role
  <2> QED BY <1>1, <1>3, <2>1, <2>2 DEF Answer, Said
<1>4. CASE Raw(role) # << >>
  <2> DEFINE text == Raw(role)[1]
             kept == IF text.valid THEN << [key |-> << "file", role.begun[p][1] >>, text |-> text] >> ELSE role.cache[p]
  <2>1. text \in RubricText
    <3>1. CASE role.stored # << >>
      BY <1>1, <3>1, RawIs, MaybeOne
    <3>2. CASE role.stored = << >> /\ role.file # << >>
      <4>1. role.file[1] \in RubricFile
        BY <1>1, <3>2, MaybeOne
      <4>2. role.file[1].text \in RubricText
        BY <4>1 DEF RubricFile
      <4>3. Raw(role) = << role.file[1].text >>
        BY <3>2, RawIs
      <4> QED BY <4>2, <4>3
    <3> QED BY <1>4, <3>1, <3>2, RawIs
  <2>2. Finish(role, p) = Answer(Remember(role, p, << "file", role.begun[p][1] >>, text), LoadRubric(text))
    BY <1>4 DEF Finish
  <2>3. Finish(role, p) = Answer(Touch(role, p, kept, << >>), LoadRubric(text))
    <3> HIDE DEF text
    <3> QED BY <2>1, <2>2, RemembersAs
  <2>4. kept \in Maybe(Entry)
    <3>1. << "file", role.begun[p][1] >> \in Key
      BY <1>2 DEF Key
    <3>2. [key |-> << "file", role.begun[p][1] >>, text |-> text] \in Entry
      <4> HIDE DEF text
      <4> QED BY <2>1, <3>1 DEF Entry
    <3> HIDE DEF text
    <3> QED BY <1>1, <3>2 DEF Maybe
  <2>5. kept # role.cache[p] =>
          text.valid /\ kept = << [key |-> << "file", role.begun[p][1] >>, text |-> text] >>
    <3> HIDE DEF text
    <3> QED OBVIOUS
  <2>6. Finish(role, p).result = Said(role) /\ Finish(role, p).role = Touch(role, p, kept, << >>)
    <3> HIDE DEF kept
    <3> QED BY <1>4, <2>3 DEF Answer, Said
  <2> HIDE DEF kept
  <2> QED BY <1>4, <2>4, <2>5, <2>6
<1> QED BY <1>3, <1>4

\* What a process keeps is true of what it was read from.
Sound(role, entry, quiet) ==
    /\ entry.text.valid
    /\ \A s : entry.key = << "stored", s >> => s = << entry.text >>
    /\ \A s : entry.key = << "file", s >> =>
        /\ role.file # << >> /\ s <= role.file[1].stamp
        /\ quiet /\ s = role.file[1].stamp => entry.text = role.file[1].text

\* Of all that is kept.
CachesSound(role, quiet) ==
    \A p \in Process : role.cache[p] # << >> => Sound(role, role.cache[p][1], quiet)

\* The first half: an answer, which is what is in force, or the time of the file.
LEMMA BeginIs ==
  ASSUME NEW role \in Role, NEW p \in Process, NEW quiet \in BOOLEAN, CachesSound(role, quiet),
         role.stored # << >> => role.stored[1].valid
  PROVE  LET after == Begin(role, p) IN
         \/ /\ after.result.outcome # "reading" /\ after.result \in LoadResult
            /\ after.result.outcome = "ok" => after.result.text.valid
            /\ quiet => after.result = Said(role)
            /\ \E kept \in Maybe(Entry), read \in {<< >>, role.begun[p]} :
                 after.role = Touch(role, p, kept, read) /\ Learned(role, p, kept)
         \/ /\ after.result.outcome = "reading" /\ after.result \in LoadResult
            /\ role.stored = << >> /\ role.file # << >>
            /\ after.role = Touch(role, p, role.cache[p], << role.file[1].stamp >>)
<1>1. /\ role.stored \in Maybe(RubricText) /\ role.file \in Maybe(RubricFile) /\ role.begun[p] \in Maybe(Nat)
      /\ role.cache[p] \in Maybe(Entry)
  BY DEF Role
<1>2. role = Touch(role, p, role.cache[p], role.begun[p])
  BY DEF Touch, Role
<1>3. \A text : LoadRubric(text).outcome # "reading" /\ (LoadRubric(text).outcome = "ok" => LoadRubric(text).text.valid)
  BY DEF LoadRubric, Ok, RubricInvalid
<1>r. Said(role) \in LoadResult
  BY SaidTyped
<1>4. CASE role.stored # << >>
  <2> DEFINE text == role.stored[1]
             key == << "stored", role.stored >>
  <2>1. text \in RubricText /\ role.stored = << text >> /\ text.valid
    BY <1>1, <1>4, MaybeOne
  <2>2. Said(role) = Ok(text)
    BY <1>4, <2>1, RawIs DEF Said, LoadRubric
  <2>3. CASE IsFresh(role, p, key)
    <3>1. Begin(role, p) = Answer(role, Ok(role.cache[p][1].text))
      BY <1>4, <2>3, RawIs DEF Begin
    <3>2. Sound(role, role.cache[p][1], quiet) /\ role.cache[p][1].key = key
      BY <2>3 DEF CachesSound, IsFresh
    <3>3. role.stored = << role.cache[p][1].text >> /\ role.cache[p][1].text.valid
      BY <3>2 DEF Sound
    <3>4. role.cache[p][1].text = text
      BY <3>3
    <3> QED BY <1>r, <1>1, <1>2, <2>1, <2>2, <3>1, <3>4 DEF Answer, Ok, Learned
  <2>4. CASE ~IsFresh(role, p, key)
    <3> DEFINE kept == << [key |-> key, text |-> text] >>
    <3>1. Begin(role, p) = Answer(Remember(role, p, key, text), LoadRubric(text))
      BY <1>4, <2>4, RawIs DEF Begin
    <3>2. Remember(role, p, key, text) = Touch(role, p, kept, << >>)
      <4> HIDE DEF text, key
      <4> QED BY <2>1, RemembersAs
    <3>3. kept \in Maybe(Entry)
      <4>1. key \in Key
        BY <1>1 DEF Key
      <4>2. [key |-> key, text |-> text] \in Entry
        <5> HIDE DEF key, text
        <5> QED BY <2>1, <4>1 DEF Entry
      <4> QED BY <4>2 DEF Maybe
    <3>4. Learned(role, p, kept)
      BY <1>4, <2>1 DEF Learned
    <3>5. LoadRubric(text) = Said(role) /\ Said(role).outcome = "ok" /\ Said(role).text.valid
      BY <2>1, <2>2 DEF LoadRubric, Ok
    <3>6. Begin(role, p).result = Said(role) /\ Begin(role, p).role = Touch(role, p, kept, << >>)
      <4> HIDE DEF kept, text, key
      <4> QED BY <3>1, <3>2, <3>5 DEF Answer
    <3> HIDE DEF kept
    <3> QED BY <1>r, <3>3, <3>4, <3>5, <3>6
  <2> QED BY <2>3, <2>4
<1>5. CASE role.stored = << >> /\ role.file = << >>
  <2>1. Begin(role, p) = Answer(role, FileNotFound)
    BY <1>5 DEF Begin
  <2>2. Said(role) = FileNotFound
    BY <1>5, RawIs DEF Said
  <2> QED BY <1>r, <1>1, <1>2, <2>1, <2>2 DEF Answer, FileNotFound, Learned
<1>6. CASE role.stored = << >> /\ role.file # << >>
  <2> DEFINE stamp == role.file[1].stamp
             key == << "file", stamp >>
             text == role.file[1].text
  <2>1. Raw(role) = << text >>
    BY <1>6, RawIs
  <2>2. CASE IsFresh(role, p, key)
    <3>1. Begin(role, p) = Answer(role, Ok(role.cache[p][1].text))
      BY <1>6, <2>2 DEF Begin
    <3>2. Sound(role, role.cache[p][1], quiet) /\ role.cache[p][1].key = key
      BY <2>2 DEF CachesSound, IsFresh
    <3>3. role.cache[p][1].text.valid /\ (quiet => role.cache[p][1].text = text)
      BY <3>2 DEF Sound
    <3>4. quiet => Ok(role.cache[p][1].text) = Said(role)
      BY <2>1, <3>3 DEF Said, LoadRubric
    <3>5. Begin(role, p).result = Ok(role.cache[p][1].text) /\ Begin(role, p).role = role
      BY <3>1 DEF Answer
    <3>6. Learned(role, p, role.cache[p])
      BY DEF Learned
    <3>7. Ok(role.cache[p][1].text) \in LoadResult
      <4>1. role.cache[p][1] \in Entry
        BY <1>1, <2>2, MaybeOne DEF IsFresh
      <4>2. role.cache[p][1].text \in RubricText
        BY <4>1 DEF Entry
      <4> QED BY <4>2 DEF Ok, LoadResult
    <3> HIDE DEF text, key, stamp
    <3> QED BY <1>1, <1>2, <3>3, <3>4, <3>5, <3>6, <3>7 DEF Ok
  <2>3. CASE ~IsFresh(role, p, key)
    <3>1. Begin(role, p) = Answer([role EXCEPT !.begun[p] = << stamp >>],
                                  [outcome |-> "reading", text |-> Text(0, FALSE)])
      BY <1>6, <2>3 DEF Begin
    <3>2. [role EXCEPT !.begun[p] = << stamp >>] = Touch(role, p, role.cache[p], << stamp >>)
      BY DEF Touch, Role
    <3>3. /\ Begin(role, p).result.outcome = "reading" /\ Begin(role, p).result \in LoadResult
          /\ Begin(role, p).role = Touch(role, p, role.cache[p], << stamp >>)
      <4> HIDE DEF stamp
      <4> QED BY <3>1, <3>2 DEF Answer, Text, LoadResult, RubricText
    <3> QED BY <1>6, <3>3
  <2> QED BY <2>2, <2>3
<1> QED BY <1>4, <1>5, <1>6

\* A load that nothing comes between: it answers what is in force.
LEMMA LoadIs ==
  ASSUME NEW role \in Role, NEW p \in Process, NEW quiet \in BOOLEAN, CachesSound(role, quiet),
         role.stored # << >> => role.stored[1].valid
  PROVE  LET after == Load(role, p) IN
         /\ after.result \in LoadResult
         /\ after.result.outcome = "ok" => after.result.text.valid
         /\ quiet => after.result = Said(role)
         /\ \E kept \in Maybe(Entry), read \in {<< >>, role.begun[p]} :
              /\ after.role = Touch(role, p, kept, read)
              /\ Learned(role, p, kept) \/ LearnedFile(role, p, role.file[1].stamp, kept)
<1> DEFINE begun == Begin(role, p)
           reading == Touch(role, p, role.cache[p], << role.file[1].stamp >>)
<1>1. Load(role, p) = IF begun.result.outcome = "reading" THEN Finish(begun.role, p) ELSE begun
  BY DEF Load
<1>2. CASE begun.result.outcome # "reading"
  <2>1. Load(role, p) = begun
    BY <1>1, <1>2
  <2> QED BY <1>2, <2>1, BeginIs
<1>3. CASE begun.result.outcome = "reading"
  <2>1. role.stored = << >> /\ role.file # << >> /\ begun.role = reading
    BY <1>3, BeginIs
  <2>2. Load(role, p) = Finish(reading, p)
    BY <1>1, <1>3, <2>1
  <2>3. role.file \in Maybe(RubricFile) /\ role.cache[p] \in Maybe(Entry) /\ role.begun[p] \in Maybe(Nat)
    BY DEF Role
  <2>4. role.file[1].stamp \in Nat
    <3>1. role.file[1] \in RubricFile
      BY <2>1, <2>3, MaybeOne
    <3> QED BY <3>1 DEF RubricFile
  <2>5. << role.file[1].stamp >> \in Maybe(Nat) /\ << role.file[1].stamp >> # << >>
    BY <2>4 DEF Maybe
  <2>6. /\ reading \in Role /\ reading.file = role.file /\ reading.stored = role.stored
        /\ reading.begun[p] = << role.file[1].stamp >> /\ reading.cache[p] = role.cache[p]
    <3> HIDE DEF reading
    <3> QED BY <2>3, <2>5, Touched DEF reading
  <2>7. Raw(reading) = Raw(role) /\ Said(reading) = Said(role)
    <3> HIDE DEF reading
    <3>1. Raw(reading) = Raw(role)
      BY <2>6 DEF Raw
    <3> QED BY <3>1 DEF Said
  <2>8. Raw(role) = << role.file[1].text >>
    BY <2>1, RawIs
  <2> HIDE DEF reading, begun
  <2>9. PICK kept \in Maybe(Entry) :
           /\ Finish(reading, p).result = Said(reading)
           /\ Finish(reading, p).role = Touch(reading, p, kept, << >>)
           /\ kept # reading.cache[p] =>
                /\ Raw(reading)[1].valid
                /\ kept = << [key |-> << "file", reading.begun[p][1] >>, text |-> Raw(reading)[1]] >>
    BY <2>5, <2>6, FinishIs
  <2>10. Touch(reading, p, kept, << >>) = Touch(role, p, kept, << >>)
    BY <2>6 DEF Touch, reading
  <2>11. Learned(role, p, kept) \/ LearnedFile(role, p, role.file[1].stamp, kept)
    BY <2>1, <2>6, <2>7, <2>8, <2>9 DEF LearnedFile
  <2>12. Said(role).outcome = "ok" => Said(role).text.valid
    BY <2>8 DEF Said, LoadRubric, Ok, RubricInvalid, FileNotFound
  <2> QED BY <2>2, <2>7, <2>9, <2>10, <2>11, <2>12, SaidTyped
<1> QED BY <1>2, <1>3

\* What is kept stays sound, if what is learned is.
LEMMA KeepsSound ==
  ASSUME NEW role \in Role, NEW p \in Process, NEW quiet \in BOOLEAN, CachesSound(role, quiet),
         NEW kept \in Maybe(Entry), NEW read \in Maybe(Nat),
         kept = role.cache[p] \/ (kept # << >> => Sound(role, kept[1], quiet))
  PROVE  CachesSound(Touch(role, p, kept, read), quiet)
<1> DEFINE after == Touch(role, p, kept, read)
<1>1. /\ after.file = role.file /\ after.stored = role.stored
      /\ \A o \in Process : after.cache[o] = IF o = p THEN kept ELSE role.cache[o]
  BY Touched
<1> HIDE DEF after
<1>2. \A entry : Sound(role, entry, quiet) => Sound(after, entry, quiet)
  BY <1>1 DEF Sound
<1>3. ASSUME NEW o \in Process, after.cache[o] # << >> PROVE Sound(after, after.cache[o][1], quiet)
  <2>1. CASE after.cache[o] = role.cache[o]
    BY <1>2, <1>3, <2>1 DEF CachesSound
  <2>2. CASE after.cache[o] # role.cache[o]
    <3>1. o = p /\ after.cache[o] = kept /\ kept # role.cache[p]
      BY <1>1, <2>2
    <3> QED BY <1>2, <1>3, <3>1
  <2> QED BY <2>1, <2>2
<1> QED BY <1>3 DEF CachesSound, after

\* What a load learns is sound.
LEMMA LearnsSoundly ==
  ASSUME NEW role \in Role, NEW p \in Process, NEW quiet \in BOOLEAN, CachesSound(role, quiet),
         NEW kept \in Maybe(Entry), NEW read \in Maybe(Nat),
         Learned(role, p, kept) \/ LearnedFile(role, p, role.file[1].stamp, kept)
  PROVE  CachesSound(Touch(role, p, kept, read), quiet)
<1> DEFINE key == role.file[1].stamp
<1>0. role.stored \in Maybe(RubricText) /\ role.file \in Maybe(RubricFile)
  BY DEF Role
<1>1. CASE kept = role.cache[p]
  BY <1>1, KeepsSound
<1>2. CASE /\ role.stored # << >> /\ role.stored[1].valid
           /\ kept = << [key |-> << "stored", role.stored >>, text |-> role.stored[1]] >>
  <2>1. role.stored = << role.stored[1] >>
    BY <1>0, <1>2, MaybeOne
  <2>2. kept[1].key = << "stored", role.stored >> /\ kept[1].text = role.stored[1]
    BY <1>2
  <2>3. /\ \A s : << "stored", role.stored >> = << "stored", s >> => s = role.stored
        /\ \A s : << "stored", role.stored >> # << "file", s >>
    OBVIOUS
  <2>4. Sound(role, kept[1], quiet)
    BY <1>2, <2>1, <2>2, <2>3 DEF Sound
  <2> QED BY <2>4, KeepsSound
<1>3. CASE /\ role.stored = << >> /\ role.file # << >> /\ role.file[1].text.valid
           /\ kept = << [key |-> << "file", key >>, text |-> role.file[1].text] >>
  <2>1. role.file[1] \in RubricFile
    BY <1>0, <1>3, MaybeOne
  <2>2. key \in Nat
    BY <2>1 DEF RubricFile
  <2>3. kept[1].key = << "file", key >> /\ kept[1].text = role.file[1].text
    BY <1>3
  <2>4. /\ \A s : << "file", key >> = << "file", s >> => s = key
        /\ \A s : << "file", key >> # << "stored", s >>
    OBVIOUS
  <2>5. Sound(role, kept[1], quiet)
    <3> HIDE DEF key
    <3> QED BY <1>3, <2>2, <2>3, <2>4 DEF Sound, key
  <2> QED BY <2>5, KeepsSound
<1> QED BY <1>1, <1>2, <1>3 DEF Learned, LearnedFile

-----------------------------------------------------------------------------
(* The rubric in force: a session of the page and of a worker. *)

\* The steps up to the k-th that saved a copy, dropped it, and edited the file.
Saves(q, k) == {j \in 1..k : q.steps[j].does = "save" /\ q.steps[j].valid}
\* Of the copy being dropped,
Resets(q, k) == {j \in 1..k : q.steps[j].does = "reset"}
\* and of the file being edited.
Edits(q, k) == {j \in 1..k : q.steps[j].does = "edit"}

\* The copy over the file then, and the file.
StoredAfter(q, k) ==
    IF Saves(q, k) # {} /\ \A j \in Resets(q, k) : j < Max(Saves(q, k))
      THEN << Text(Max(Saves(q, k)), TRUE) >> ELSE << >>
\* The file then, with the time of its last edit.
FileAfter(q, k) ==
    IF Edits(q, k) # {}
      THEN << [stamp |-> Max(Edits(q, k)), text |-> Text(Max(Edits(q, k)), q.steps[Max(Edits(q, k))].valid)] >>
    ELSE IF q.shipped THEN << [stamp |-> 0, text |-> Text(0, TRUE)] >> ELSE << >>

\* Anything done to the rubric, in any order.
RubricSession(q) == q.steps \in Seq(RubricSteps) /\ q.shipped \in BOOLEAN

\* A step is one of the six, by one of the two.
LEMMA StepIs ==
  ASSUME NEW q, RubricSession(q), NEW k \in DOMAIN q.steps
  PROVE  /\ q.steps[k].does \in {"edit", "save", "reset", "load", "begin", "finish"}
         /\ q.steps[k].at \in {"web", "worker"} /\ q.steps[k].valid \in BOOLEAN
<1>1. q.steps[k] \in RubricSteps
  BY DEF RubricSession
<1> QED BY <1>1 DEF RubricSteps

\* The latest of them is the new one, if it is one of them.
LEMMA MaxNext ==
  ASSUME NEW k \in Nat, NEW s \in SUBSET (1..k)
  PROVE  Max(s \cup {k + 1}) = k + 1
<1> DEFINE t == s \cup {k + 1}
<1>1. t \in SUBSET (1..(k + 1)) /\ t # {} /\ k + 1 \in t /\ k + 1 \in Nat
  OBVIOUS
<1> HIDE DEF t
<1>2. Max(t) \in t /\ Max(t) >= k + 1
  BY <1>1, MaxIsIn
<1>3. Max(t) \in 1..(k + 1)
  BY <1>1, <1>2
<1> QED BY <1>2, <1>3 DEF t

\* What a step adds to them.
LEMMA StepsNext ==
  ASSUME NEW q, NEW k \in Nat
  PROVE  LET step == q.steps[k + 1] IN
         /\ Saves(q, k + 1) = IF step.does = "save" /\ step.valid THEN Saves(q, k) \cup {k + 1} ELSE Saves(q, k)
         /\ Resets(q, k + 1) = IF step.does = "reset" THEN Resets(q, k) \cup {k + 1} ELSE Resets(q, k)
         /\ Edits(q, k + 1) = IF step.does = "edit" THEN Edits(q, k) \cup {k + 1} ELSE Edits(q, k)
         /\ Saves(q, k) \in SUBSET (1..k) /\ Resets(q, k) \in SUBSET (1..k) /\ Edits(q, k) \in SUBSET (1..k)
<1>1. 1..(k + 1) = (1..k) \cup {k + 1}
  OBVIOUS
<1> QED BY <1>1 DEF Saves, Resets, Edits

\* What a step makes of the copy and of the file.
LEMMA WrittenNext ==
  ASSUME NEW q, NEW k \in Nat
  PROVE  LET step == q.steps[k + 1] IN
         /\ FileAfter(q, k + 1) = IF step.does = "edit"
                                    THEN << [stamp |-> k + 1, text |-> Text(k + 1, step.valid)] >>
                                    ELSE FileAfter(q, k)
         /\ StoredAfter(q, k + 1) = IF step.does = "save" /\ step.valid THEN << Text(k + 1, TRUE) >>
                                    ELSE IF step.does = "reset" THEN << >> ELSE StoredAfter(q, k)
<1> DEFINE step == q.steps[k + 1]
<1>1. /\ Saves(q, k + 1) = IF step.does = "save" /\ step.valid THEN Saves(q, k) \cup {k + 1} ELSE Saves(q, k)
      /\ Resets(q, k + 1) = IF step.does = "reset" THEN Resets(q, k) \cup {k + 1} ELSE Resets(q, k)
      /\ Edits(q, k + 1) = IF step.does = "edit" THEN Edits(q, k) \cup {k + 1} ELSE Edits(q, k)
      /\ Saves(q, k) \in SUBSET (1..k) /\ Resets(q, k) \in SUBSET (1..k) /\ Edits(q, k) \in SUBSET (1..k)
  BY StepsNext
<1>2. FileAfter(q, k + 1) = IF step.does = "edit"
                              THEN << [stamp |-> k + 1, text |-> Text(k + 1, step.valid)] >> ELSE FileAfter(q, k)
  <2>1. CASE step.does = "edit"
    <3>1. Edits(q, k + 1) # {} /\ Max(Edits(q, k + 1)) = k + 1
      BY <1>1, <2>1, MaxNext
    <3> QED BY <2>1, <3>1 DEF FileAfter
  <2>2. CASE step.does # "edit"
    BY <1>1, <2>2 DEF FileAfter
  <2> QED BY <2>1, <2>2
<1>3. StoredAfter(q, k + 1) = IF step.does = "save" /\ step.valid THEN << Text(k + 1, TRUE) >>
                              ELSE IF step.does = "reset" THEN << >> ELSE StoredAfter(q, k)
  <2>1. CASE step.does = "save" /\ step.valid
    <3>1. Saves(q, k + 1) # {} /\ Max(Saves(q, k + 1)) = k + 1
      BY <1>1, <2>1, MaxNext
    <3>2. \A j \in Resets(q, k + 1) : j < k + 1
      BY <1>1, <2>1
    <3> QED BY <2>1, <3>1, <3>2 DEF StoredAfter
  <2>2. CASE step.does = "reset"
    <3>1. Saves(q, k + 1) = Saves(q, k) /\ k + 1 \in Resets(q, k + 1)
      BY <1>1, <2>2
    <3>2. Saves(q, k) # {} => ~(k + 1 < Max(Saves(q, k)))
      <4> SUFFICES ASSUME Saves(q, k) # {} PROVE ~(k + 1 < Max(Saves(q, k)))
        OBVIOUS
      <4>1. Max(Saves(q, k)) \in Saves(q, k)
        BY <1>1, MaxIsIn
      <4>2. Max(Saves(q, k)) \in 1..k
        BY <1>1, <4>1
      <4> QED BY <4>2
    <3>3. StoredAfter(q, k + 1) = << >>
      BY <3>1, <3>2 DEF StoredAfter
    <3> QED BY <2>2, <3>3
  <2>3. CASE ~(step.does = "save" /\ step.valid) /\ step.does # "reset"
    <3>1. Saves(q, k + 1) = Saves(q, k) /\ Resets(q, k + 1) = Resets(q, k)
      BY <1>1, <2>3
    <3>2. StoredAfter(q, k + 1) = StoredAfter(q, k)
      BY <3>1 DEF StoredAfter
    <3> QED BY <2>3, <3>2
  <2> QED BY <2>1, <2>2, <2>3
<1> QED BY <1>2, <1>3

\* Only a rubric is stored, and the file was last edited at one of the steps.
LEMMA WrittenIs ==
  ASSUME NEW q, RubricSession(q), NEW k \in 0..Len(q.steps)
  PROVE  /\ StoredAfter(q, k) \in Maybe(RubricText) /\ FileAfter(q, k) \in Maybe(RubricFile)
         /\ StoredAfter(q, k) # << >> => StoredAfter(q, k)[1].valid
         /\ FileAfter(q, k) # << >> => FileAfter(q, k)[1].stamp <= k
<1>1. /\ Saves(q, k) \in SUBSET (1..k) /\ Edits(q, k) \in SUBSET (1..k) /\ k \in Nat
  BY DEF Saves, Edits, RubricSession
<1>2. \A n \in Nat, valid \in BOOLEAN : Text(n, valid) \in RubricText /\ Text(n, valid).valid = valid
  BY DEF Text, RubricText
<1>3. /\ StoredAfter(q, k) \in Maybe(RubricText)
      /\ StoredAfter(q, k) # << >> => StoredAfter(q, k)[1].valid
  <2>1. CASE StoredAfter(q, k) = << >>
    BY <2>1 DEF Maybe
  <2>2. CASE StoredAfter(q, k) # << >>
    <3>1. Saves(q, k) # {} /\ StoredAfter(q, k) = << Text(Max(Saves(q, k)), TRUE) >>
      BY <2>2 DEF StoredAfter
    <3>2. Max(Saves(q, k)) \in Nat
      <4>1. Max(Saves(q, k)) \in Saves(q, k)
        BY <1>1, <3>1, MaxIsIn
      <4> QED BY <1>1, <4>1
    <3> DEFINE text == Text(Max(Saves(q, k)), TRUE)
    <3>3. text \in RubricText /\ text.valid
      BY <1>2, <3>2
    <3> HIDE DEF text
    <3>4. << text >> \in Maybe(RubricText) /\ << text >>[1].valid
      BY <3>3 DEF Maybe
    <3> QED BY <3>1, <3>4 DEF text
  <2> QED BY <2>1, <2>2
<1>4. /\ FileAfter(q, k) \in Maybe(RubricFile)
      /\ FileAfter(q, k) # << >> => FileAfter(q, k)[1].stamp <= k
  <2>1. CASE Edits(q, k) # {}
    <3> DEFINE last == Max(Edits(q, k))
               text == Text(last, q.steps[last].valid)
    <3>1. FileAfter(q, k) = << [stamp |-> last, text |-> text] >>
      BY <2>1 DEF FileAfter
    <3>2. last \in Edits(q, k)
      <4> HIDE DEF last
      <4> QED BY <1>1, <2>1, MaxIsIn DEF last
    <3>3. last \in Nat /\ last <= k /\ last \in DOMAIN q.steps
      <4> HIDE DEF last
      <4> QED BY <1>1, <3>2 DEF RubricSession
    <3>4. text \in RubricText
      <4> HIDE DEF last
      <4> QED BY <1>2, <3>3, StepIs DEF text
    <3> HIDE DEF last, text
    <3>5. [stamp |-> last, text |-> text] \in RubricFile
      BY <3>3, <3>4 DEF RubricFile
    <3> QED BY <3>1, <3>3, <3>5 DEF Maybe
  <2>2. CASE Edits(q, k) = {} /\ q.shipped
    <3>1. FileAfter(q, k) = << [stamp |-> 0, text |-> Text(0, TRUE)] >>
      BY <2>2 DEF FileAfter
    <3> DEFINE file == [stamp |-> 0, text |-> Text(0, TRUE)]
    <3>2. file \in RubricFile /\ file.stamp <= k
      <4> DEFINE text == Text(0, TRUE)
      <4>1. text \in RubricText
        BY <1>2
      <4> HIDE DEF text
      <4>2. [stamp |-> 0, text |-> text] \in RubricFile /\ [stamp |-> 0, text |-> text].stamp <= k
        BY <1>1, <4>1 DEF RubricFile
      <4> QED BY <4>2 DEF text
    <3> HIDE DEF file
    <3>3. << file >> \in Maybe(RubricFile) /\ << file >>[1].stamp <= k
      BY <3>2 DEF Maybe
    <3> QED BY <3>1, <3>3 DEF file
  <2>3. CASE Edits(q, k) = {} /\ ~q.shipped
    BY <2>3 DEF FileAfter, Maybe
  <2> QED BY <2>1, <2>2, <2>3
<1> QED BY <1>3, <1>4

\* The rubric in force is the copy, or else what the file says.
LEMMA ForceIs ==
  ASSUME NEW q, RubricSession(q), NEW k \in 0..Len(q.steps)
  PROVE  InForce(q, k) = IF StoredAfter(q, k) # << >> THEN Ok(StoredAfter(q, k)[1])
                         ELSE IF FileAfter(q, k) # << >> THEN LoadRubric(FileAfter(q, k)[1].text)
                         ELSE FileNotFound
<1> DEFINE saved == Saves(q, k) # {} /\ \A j \in Resets(q, k) : j < Max(Saves(q, k))
           last == Max(Edits(q, k))
<1>1. InForce(q, k) = IF saved THEN Ok(Text(Max(Saves(q, k)), TRUE))
                      ELSE IF Edits(q, k) # {} THEN LoadRubric(Text(last, q.steps[last].valid))
                      ELSE IF q.shipped THEN Ok(Text(0, TRUE)) ELSE FileNotFound
  BY DEF InForce, Saves, Resets, Edits
<1>2. CASE saved
  <2>1. StoredAfter(q, k) = << Text(Max(Saves(q, k)), TRUE) >>
    BY <1>2 DEF StoredAfter
  <2> HIDE DEF saved, last
  <2> QED BY <1>1, <1>2, <2>1
<1>3. CASE ~saved
  <2>1. StoredAfter(q, k) = << >>
    BY <1>3 DEF StoredAfter
  <2>2. Text(0, TRUE).valid /\ LoadRubric(Text(0, TRUE)) = Ok(Text(0, TRUE))
    BY DEF Text, LoadRubric
  <2>3. FileAfter(q, k) = IF Edits(q, k) # {} THEN << [stamp |-> last, text |-> Text(last, q.steps[last].valid)] >>
                          ELSE IF q.shipped THEN << [stamp |-> 0, text |-> Text(0, TRUE)] >> ELSE << >>
    BY DEF FileAfter
  <2> HIDE DEF saved, last
  <2>4. CASE Edits(q, k) # {}
    BY <1>1, <1>3, <2>1, <2>3, <2>4
  <2>5. CASE Edits(q, k) = {} /\ q.shipped
    <3>1. InForce(q, k) = LoadRubric(Text(0, TRUE)) /\ FileAfter(q, k) = << [stamp |-> 0, text |-> Text(0, TRUE)] >>
      BY <1>1, <1>3, <2>2, <2>3, <2>5
    <3>2. FileAfter(q, k) # << >> /\ FileAfter(q, k)[1].text = Text(0, TRUE)
      <4> DEFINE file == [stamp |-> 0, text |-> Text(0, TRUE)]
      <4>1. file.text = Text(0, TRUE)
        OBVIOUS
      <4> HIDE DEF file
      <4>2. << file >> # << >> /\ << file >>[1] = file
        OBVIOUS
      <4> QED BY <3>1, <4>1, <4>2 DEF file
    <3> QED BY <2>1, <3>1, <3>2
  <2>6. CASE Edits(q, k) = {} /\ ~q.shipped
    BY <1>1, <1>3, <2>1, <2>3, <2>6
  <2> QED BY <2>4, <2>5, <2>6
<1> QED BY <1>2, <1>3

\* A reading that a worker has begun: of a file that was there, and was the rubric
\* in force then, as it still is unless a copy has been saved since.
ReadingIs(q, role, k) ==
    role.begun["worker"] # << >> =>
        /\ role.file # << >> /\ role.begun["worker"][1] <= role.file[1].stamp
        /\ \E i \in 1..k : /\ q.steps[i].does = "begin"
                           /\ role.stored = << >> \/ \E j \in (i + 1)..k : q.steps[j].does = "save"

\* The role after k steps.
RoleIs(q, role, k) ==
    /\ role \in Role
    /\ role.file = FileAfter(q, k) /\ role.stored = StoredAfter(q, k)
    /\ CachesSound(role, ~Disturbed(q))
    /\ ReadingIs(q, role, k)

\* What is answered by a rubric: the one in force, and never one that is not valid.
ResultIs(q, result, k) ==
    /\ ~Disturbed(q) => result = InForce(q, k)
    /\ result.outcome = "ok" => result.text.valid

\* What is read now is what is in force.
LEMMA SaidIsForce ==
  ASSUME NEW q, RubricSession(q), NEW k \in 0..Len(q.steps), NEW role, RoleIs(q, role, k)
  PROVE  /\ Said(role) = InForce(q, k)
         /\ Said(role).outcome = "ok" => Said(role).text.valid
         /\ role.stored # << >> => role.stored[1].valid
<1>1. role \in Role /\ role.file = FileAfter(q, k) /\ role.stored = StoredAfter(q, k)
  BY DEF RoleIs
<1>2. role.stored # << >> => role.stored[1].valid
  BY <1>1, WrittenIs
<1>3. CASE role.stored # << >>
  <2>1. Said(role) = Ok(role.stored[1])
    BY <1>1, <1>2, <1>3, RawIs DEF Said, LoadRubric
  <2> QED BY <1>1, <1>2, <1>3, <2>1, ForceIs DEF Ok
<1>4. CASE role.stored = << >>
  <2>1. Said(role) = IF role.file # << >> THEN LoadRubric(role.file[1].text) ELSE FileNotFound
    BY <1>1, <1>4, RawIs DEF Said
  <2>2. Said(role).outcome = "ok" => Said(role).text.valid
    <3>1. \A text : LoadRubric(text).outcome = "ok" => LoadRubric(text).text.valid
      BY DEF LoadRubric, Ok, RubricInvalid
    <3>2. FileNotFound.outcome # "ok"
      BY DEF FileNotFound
    <3> QED BY <2>1, <3>1, <3>2
  <2> QED BY <1>1, <1>4, <2>1, <2>2, ForceIs
<1> QED BY <1>3, <1>4

\* A step at which nothing is written, and the reading is the same or over.
LEMMA ReadOn ==
  ASSUME NEW q, RubricSession(q), NEW k \in Nat, k + 1 \in DOMAIN q.steps, NEW role, RoleIs(q, role, k),
         q.steps[k + 1].does \in {"load", "begin", "finish"},
         NEW after \in Role, after.file = role.file, after.stored = role.stored, CachesSound(after, ~Disturbed(q)),
         after.begun["worker"] \in {<< >>, role.begun["worker"]}
  PROVE  RoleIs(q, after, k + 1)
<1>1. FileAfter(q, k + 1) = FileAfter(q, k) /\ StoredAfter(q, k + 1) = StoredAfter(q, k)
  BY WrittenNext
<1>2. ReadingIs(q, after, k + 1)
  <2> SUFFICES ASSUME after.begun["worker"] # << >> PROVE ReadingIs(q, after, k + 1)
    BY DEF ReadingIs
  <2>1. after.begun["worker"] = role.begun["worker"]
    OBVIOUS
  <2>2. PICK i \in 1..k : /\ q.steps[i].does = "begin"
                          /\ role.stored = << >> \/ \E j \in (i + 1)..k : q.steps[j].does = "save"
    BY <2>1 DEF RoleIs, ReadingIs
  <2>3. i \in 1..(k + 1) /\ \A j \in (i + 1)..k : j \in (i + 1)..(k + 1)
    OBVIOUS
  <2> QED BY <2>1, <2>2, <2>3 DEF RoleIs, ReadingIs
<1> QED BY <1>1, <1>2 DEF RoleIs

\* A step of the page: the file or the copy is written, and no more is kept.
LEMMA WritesOn ==
  ASSUME NEW q, RubricSession(q), NEW k \in Nat, k + 1 \in DOMAIN q.steps, NEW role, RoleIs(q, role, k),
         NEW after \in Role, after.file = FileAfter(q, k + 1), after.stored = StoredAfter(q, k + 1),
         after.begun = role.begun,
         \A p \in Process : after.cache[p] \in {<< >>, role.cache[p]},
         after.file = role.file \/ (after.file # << >> /\ after.file[1].stamp = k + 1),
         after.stored \in {<< >>, role.stored} \/ q.steps[k + 1].does = "save"
  PROVE  RoleIs(q, after, k + 1)
<1>1. /\ role \in Role /\ role.file = FileAfter(q, k) /\ role.stored = StoredAfter(q, k)
      /\ CachesSound(role, ~Disturbed(q)) /\ ReadingIs(q, role, k)
  BY DEF RoleIs
<1>2. role.file \in Maybe(RubricFile) /\ role.begun \in [Process -> Maybe(Nat)] /\ role.cache \in [Process -> Maybe(Entry)]
  BY <1>1 DEF Role
<1>k. k \in 0..Len(q.steps)
  BY DEF RubricSession
<1>3. role.file # << >> => role.file[1].stamp <= k /\ role.file[1].stamp \in Nat
  <2>1. role.file # << >> => role.file[1] \in RubricFile
    BY <1>2, MaybeOne
  <2> QED BY <1>k, <1>1, <2>1, WrittenIs DEF RubricFile
<1>4. \A entry : entry \in Entry /\ Sound(role, entry, ~Disturbed(q)) => Sound(after, entry, ~Disturbed(q))
  <2> SUFFICES ASSUME NEW entry \in Entry, Sound(role, entry, ~Disturbed(q)) PROVE Sound(after, entry, ~Disturbed(q))
    OBVIOUS
  <2>1. \A s : entry.key = << "file", s >> => s \in Nat
    <3>1. entry.key \in Key
      BY DEF Entry
    <3> QED BY <3>1 DEF Key
  <2>2. CASE after.file = role.file
    BY <2>2 DEF Sound
  <2>3. CASE after.file # << >> /\ after.file[1].stamp = k + 1
    <3>1. \A s : entry.key = << "file", s >> => s <= k
      BY <1>3, <2>1 DEF Sound
    <3>2. \A s : entry.key = << "file", s >> => s <= after.file[1].stamp /\ s # after.file[1].stamp
      BY <2>1, <2>3, <3>1
    <3> QED BY <2>3, <3>2 DEF Sound
  <2> QED BY <2>2, <2>3
<1>5. CachesSound(after, ~Disturbed(q))
  <2> SUFFICES ASSUME NEW p \in Process, after.cache[p] # << >> PROVE Sound(after, after.cache[p][1], ~Disturbed(q))
    BY DEF CachesSound
  <2>1. after.cache[p] = role.cache[p]
    OBVIOUS
  <2>2. role.cache[p][1] \in Entry /\ Sound(role, role.cache[p][1], ~Disturbed(q))
    BY <1>1, <1>2, <2>1, MaybeOne DEF CachesSound
  <2> QED BY <1>4, <2>1, <2>2
<1>6. ReadingIs(q, after, k + 1)
  <2> SUFFICES ASSUME after.begun["worker"] # << >> PROVE ReadingIs(q, after, k + 1)
    BY DEF ReadingIs
  <2>1. role.begun["worker"] \in Maybe(Nat) /\ role.begun["worker"] # << >>
    BY <1>2, RubricsAssumption
  <2>2. role.begun["worker"][1] \in Nat
    BY <2>1, MaybeOne
  <2>3. role.file # << >> /\ role.begun["worker"][1] <= role.file[1].stamp
    BY <1>1, <2>1 DEF ReadingIs
  <2>4. after.file # << >> /\ after.begun["worker"][1] <= after.file[1].stamp
    BY <1>3, <2>2, <2>3
  <2>5. PICK i \in 1..k : /\ q.steps[i].does = "begin"
                          /\ role.stored = << >> \/ \E j \in (i + 1)..k : q.steps[j].does = "save"
    BY <1>1, <2>1 DEF ReadingIs
  <2>6. i \in 1..(k + 1) /\ (\A j \in (i + 1)..k : j \in (i + 1)..(k + 1)) /\ k + 1 \in (i + 1)..(k + 1)
    OBVIOUS
  <2>7. after.stored = << >> \/ \E j \in (i + 1)..(k + 1) : q.steps[j].does = "save"
    <3>1. CASE q.steps[k + 1].does = "save"
      BY <2>6, <3>1
    <3>2. CASE after.stored \in {<< >>, role.stored}
      BY <2>5, <2>6, <3>2
    <3> QED BY <3>1, <3>2
  <2> QED BY <2>4, <2>5, <2>6, <2>7 DEF ReadingIs
<1> QED BY <1>5, <1>6 DEF RoleIs

\* A load that nothing comes between.
LEMMA LoadsOn ==
  ASSUME NEW q, RubricSession(q), NEW k \in Nat, k + 1 \in DOMAIN q.steps, NEW role, RoleIs(q, role, k),
         q.steps[k + 1].does \in {"load", "finish"}, NEW p \in Process
  PROVE  LET after == Load(role, p) IN
         after.result \in LoadResult /\ RoleIs(q, after.role, k + 1) /\ ResultIs(q, after.result, k + 1)
<1> DEFINE after == Load(role, p)
           quiet == ~Disturbed(q)
<1>0. k \in 0..Len(q.steps) /\ k + 1 \in 0..Len(q.steps) /\ quiet \in BOOLEAN
  BY DEF RubricSession, Disturbed
<1>1. /\ role \in Role /\ CachesSound(role, quiet)
      /\ role.stored # << >> => role.stored[1].valid
      /\ Said(role) = InForce(q, k)
  BY <1>0, SaidIsForce DEF RoleIs
<1>2. FileAfter(q, k + 1) = FileAfter(q, k) /\ StoredAfter(q, k + 1) = StoredAfter(q, k)
  BY WrittenNext
<1>3. InForce(q, k + 1) = InForce(q, k)
  BY <1>0, <1>2, ForceIs
<1> HIDE DEF after, quiet
<1>4. /\ after.result \in LoadResult
      /\ after.result.outcome = "ok" => after.result.text.valid
      /\ quiet => after.result = Said(role)
      /\ \E kept \in Maybe(Entry), read \in {<< >>, role.begun[p]} :
           /\ after.role = Touch(role, p, kept, read)
           /\ Learned(role, p, kept) \/ LearnedFile(role, p, role.file[1].stamp, kept)
  BY <1>0, <1>1, LoadIs DEF after
<1>5. PICK kept \in Maybe(Entry), read \in {<< >>, role.begun[p]} :
           /\ after.role = Touch(role, p, kept, read)
           /\ Learned(role, p, kept) \/ LearnedFile(role, p, role.file[1].stamp, kept)
  BY <1>4
<1>6. read \in Maybe(Nat)
  BY <1>1 DEF Role, Maybe
<1>7. CachesSound(after.role, quiet)
  BY <1>0, <1>1, <1>5, <1>6, LearnsSoundly
<1>8. /\ after.role \in Role /\ after.role.file = role.file /\ after.role.stored = role.stored
      /\ after.role.begun["worker"] \in {<< >>, role.begun["worker"]}
  BY <1>1, <1>5, <1>6, Touched, RubricsAssumption
<1>9. RoleIs(q, after.role, k + 1)
  BY <1>7, <1>8, ReadOn DEF quiet
<1> QED BY <1>1, <1>3, <1>4, <1>9 DEF ResultIs, quiet, after

\* A worker begins to read, or answers at once.
LEMMA BeginsOn ==
  ASSUME NEW q, RubricSession(q), NEW k \in Nat, k + 1 \in DOMAIN q.steps, NEW role, RoleIs(q, role, k),
         q.steps[k + 1].does = "begin"
  PROVE  LET after == Begin(role, "worker") IN after.result \in LoadResult /\ RoleIs(q, after.role, k + 1)
<1> DEFINE after == Begin(role, "worker")
           quiet == ~Disturbed(q)
           p == "worker"
<1>0. k \in 0..Len(q.steps) /\ quiet \in BOOLEAN /\ p \in Process
  BY RubricsAssumption DEF RubricSession, Disturbed
<1>1. /\ role \in Role /\ CachesSound(role, quiet)
      /\ role.stored # << >> => role.stored[1].valid
  BY <1>0, SaidIsForce DEF RoleIs
<1>2. /\ role.file \in Maybe(RubricFile) /\ role.cache[p] \in Maybe(Entry) /\ role.begun[p] \in Maybe(Nat)
      /\ << >> \in Maybe(Nat)
  BY <1>0, <1>1 DEF Role, Maybe
<1> HIDE DEF after, quiet
<1>3. CASE /\ after.result.outcome # "reading" /\ after.result \in LoadResult
           /\ \E kept \in Maybe(Entry), read \in {<< >>, role.begun[p]} :
                after.role = Touch(role, p, kept, read) /\ Learned(role, p, kept)
  <2>1. PICK kept \in Maybe(Entry), read \in {<< >>, role.begun[p]} :
                after.role = Touch(role, p, kept, read) /\ Learned(role, p, kept)
    BY <1>3
  <2>2. read \in Maybe(Nat)
    BY <1>2
  <2>3. CachesSound(after.role, quiet)
    BY <1>0, <1>1, <2>1, <2>2, LearnsSoundly
  <2>4. /\ after.role \in Role /\ after.role.file = role.file /\ after.role.stored = role.stored
        /\ after.role.begun[p] \in {<< >>, role.begun[p]}
    BY <1>0, <1>1, <2>1, <2>2, Touched
  <2>5. RoleIs(q, after.role, k + 1)
    BY <2>3, <2>4, ReadOn DEF quiet
  <2> QED BY <1>3, <2>5 DEF after
<1>4. CASE /\ after.result.outcome = "reading" /\ after.result \in LoadResult
           /\ role.stored = << >> /\ role.file # << >>
           /\ after.role = Touch(role, p, role.cache[p], << role.file[1].stamp >>)
  <2>1. role.file[1].stamp \in Nat
    <3>1. role.file[1] \in RubricFile
      BY <1>2, <1>4, MaybeOne
    <3> QED BY <3>1 DEF RubricFile
  <2> DEFINE read == << role.file[1].stamp >>
  <2>2. read \in Maybe(Nat) /\ read # << >> /\ read[1] = role.file[1].stamp
    BY <2>1 DEF Maybe
  <2>3. CachesSound(after.role, quiet)
    <3> HIDE DEF read
    <3> QED BY <1>0, <1>1, <1>2, <1>4, <2>2, KeepsSound DEF read
  <2>4. /\ after.role \in Role /\ after.role.file = role.file /\ after.role.stored = role.stored
        /\ after.role.begun[p] = read
    <3> HIDE DEF read
    <3> QED BY <1>0, <1>1, <1>2, <1>4, <2>2, Touched DEF read
  <2>5. FileAfter(q, k + 1) = FileAfter(q, k) /\ StoredAfter(q, k + 1) = StoredAfter(q, k)
    BY WrittenNext
  <2>6. ReadingIs(q, after.role, k + 1)
    <3>1. k + 1 \in 1..(k + 1)
      OBVIOUS
    <3> HIDE DEF read
    <3> QED BY <1>4, <2>1, <2>2, <2>4, <3>1 DEF ReadingIs
  <2>7. RoleIs(q, after.role, k + 1)
    BY <2>3, <2>4, <2>5, <2>6 DEF RoleIs, quiet
  <2> QED BY <1>4, <2>7 DEF after
<1> QED BY <1>0, <1>1, <1>3, <1>4, BeginIs DEF after

\* A worker reads the text of the file it began with, or a copy saved since.
LEMMA FinishesOn ==
  ASSUME NEW q, RubricSession(q), NEW k \in Nat, k + 1 \in DOMAIN q.steps, NEW role, RoleIs(q, role, k),
         q.steps[k + 1].does = "finish", role.begun["worker"] # << >>
  PROVE  LET after == Finish(role, "worker") IN
         after.result \in LoadResult /\ RoleIs(q, after.role, k + 1) /\ ResultIs(q, after.result, k + 1)
<1> DEFINE after == Finish(role, "worker")
           quiet == ~Disturbed(q)
           p == "worker"
           key == role.begun[p][1]
<1>0. k \in 0..Len(q.steps) /\ k + 1 \in 0..Len(q.steps) /\ quiet \in BOOLEAN /\ p \in Process
  BY RubricsAssumption DEF RubricSession, Disturbed
<1>1. /\ role \in Role /\ CachesSound(role, quiet) /\ ReadingIs(q, role, k)
      /\ Said(role) = InForce(q, k)
      /\ Said(role).outcome = "ok" => Said(role).text.valid
  BY <1>0, SaidIsForce DEF RoleIs
<1>2. FileAfter(q, k + 1) = FileAfter(q, k) /\ StoredAfter(q, k + 1) = StoredAfter(q, k)
  BY WrittenNext
<1>3. InForce(q, k + 1) = InForce(q, k)
  BY <1>0, <1>2, ForceIs
<1> HIDE DEF after, quiet
<1>4. PICK kept \in Maybe(Entry) :
        /\ after.result = Said(role)
        /\ after.role = Touch(role, p, kept, << >>)
        /\ kept # role.cache[p] =>
             /\ Raw(role) # << >> /\ Raw(role)[1].valid
             /\ kept = << [key |-> << "file", key >>, text |-> Raw(role)[1]] >>
  BY <1>0, <1>1, FinishIs DEF after
<1>5. << >> \in Maybe(Nat)
  BY DEF Maybe
<1>6. /\ after.role \in Role /\ after.role.file = role.file /\ after.role.stored = role.stored
      /\ after.role.begun[p] = << >>
  BY <1>0, <1>1, <1>4, <1>5, Touched
<1>7. PICK i \in 1..k : /\ q.steps[i].does = "begin"
                        /\ role.stored = << >> \/ \E j \in (i + 1)..k : q.steps[j].does = "save"
  BY <1>1 DEF ReadingIs
<1>8. role.file # << >> /\ key <= role.file[1].stamp
  BY <1>1 DEF ReadingIs
<1>9. kept # role.cache[p] => Sound(role, kept[1], quiet)
  <2> SUFFICES ASSUME kept # role.cache[p] PROVE Sound(role, kept[1], quiet)
    OBVIOUS
  <2> DEFINE text == Raw(role)[1]
  <2>1. kept[1].key = << "file", key >> /\ kept[1].text = text /\ text.valid
    BY <1>4
  <2>2. /\ \A s : << "file", key >> = << "file", s >> => s = key
        /\ \A s : << "file", key >> # << "stored", s >>
    OBVIOUS
  <2>3. quiet => text = role.file[1].text
    <3> SUFFICES ASSUME quiet PROVE text = role.file[1].text
      OBVIOUS
    <3>1. CASE role.stored = << >>
      BY <1>1, <1>8, <3>1, RawIs
    <3>2. CASE \E j \in (i + 1)..k : q.steps[j].does = "save"
      <4>1. PICK j \in (i + 1)..k : q.steps[j].does = "save"
        BY <3>2
      <4>2. i \in DOMAIN q.steps /\ j \in DOMAIN q.steps /\ i < j /\ j < k + 1
        BY <1>0 DEF RubricSession
      <4>3. Disturbed(q)
        BY <1>7, <4>1, <4>2 DEF Disturbed
      <4> QED BY <4>3 DEF quiet
    <3> QED BY <1>7, <3>1, <3>2
  <2> HIDE DEF text, key
  <2> QED BY <1>8, <2>1, <2>2, <2>3 DEF Sound, key
<1>10. CachesSound(after.role, quiet)
  BY <1>0, <1>1, <1>4, <1>5, <1>9, KeepsSound
<1>11. RoleIs(q, after.role, k + 1)
  BY <1>6, <1>10, ReadOn DEF quiet
<1>12. after.result \in LoadResult
  BY <1>1, <1>4, SaidTyped
<1> QED BY <1>1, <1>3, <1>4, <1>11, <1>12 DEF ResultIs, quiet, after

\* What a step leaves, and what it answers if it is a load or the end of one.
StepTells(q, answer, k) ==
    /\ answer = Answer(answer.role, answer.result) /\ answer.result \in LoadResult
    /\ RoleIs(q, answer.role, k)
    /\ k > 0 /\ q.steps[k].does \in {"load", "finish"} => ResultIs(q, answer.result, k)

\* What the page is answered, of which nothing is said.
LEMMA PageAnswers == \A k \in Nat : Ok(Text(k, TRUE)) \in LoadResult
BY DEF Ok, Text, LoadResult, RubricText

\* The loader answers, and leaves the role.
LEMMA ReaderAnswers ==
  ASSUME NEW role, NEW p
  PROVE  /\ Begin(role, p) = Answer(Begin(role, p).role, Begin(role, p).result)
         /\ Finish(role, p) = Answer(Finish(role, p).role, Finish(role, p).result)
         /\ Load(role, p) = Answer(Load(role, p).role, Load(role, p).result)
<1>1. \A r, result : Answer(r, result) = Answer(Answer(r, result).role, Answer(r, result).result)
  BY DEF Answer
<1>2. ASSUME NEW r PROVE Begin(r, p) = Answer(Begin(r, p).role, Begin(r, p).result)
  <2>1. \E after, result : Begin(r, p) = Answer(after, result)
    BY DEF Begin
  <2> QED BY <1>1, <2>1
<1>3. ASSUME NEW r PROVE Finish(r, p) = Answer(Finish(r, p).role, Finish(r, p).result)
  <2>1. \E after, result : Finish(r, p) = Answer(after, result)
    BY DEF Finish
  <2> QED BY <1>1, <2>1
<1>4. Load(role, p) = IF Begin(role, p).result.outcome = "reading" THEN Finish(Begin(role, p).role, p)
                      ELSE Begin(role, p)
  BY DEF Load
<1> QED BY <1>2, <1>3, <1>4

\* Each of the steps.
LEMMA DoneTells ==
  ASSUME NEW q, RubricSession(q), NEW k \in Nat, k + 1 \in DOMAIN q.steps, NEW role, RoleIs(q, role, k)
  PROVE  StepTells(q, Done(role, q.steps[k + 1], k + 1), k + 1)
<1> DEFINE step == q.steps[k + 1]
           after == Done(role, step, k + 1)
<1>0. /\ role \in Role /\ role.file = FileAfter(q, k) /\ role.stored = StoredAfter(q, k)
      /\ k \in 0..Len(q.steps) /\ k + 1 \in 0..Len(q.steps) /\ "web" \in Process /\ "worker" \in Process
  BY RubricsAssumption DEF RoleIs, RubricSession
<1>t. /\ role.file \in Maybe(RubricFile) /\ role.stored \in Maybe(RubricText)
      /\ role.cache \in [Process -> Maybe(Entry)] /\ role.begun \in [Process -> Maybe(Nat)]
      /\ role = [file |-> role.file, stored |-> role.stored, cache |-> role.cache, begun |-> role.begun]
  BY <1>0 DEF Role
<1>n. << >> \in Maybe(Entry) /\ << >> \in Maybe(RubricText) /\ << >> \in Maybe(Nat)
  BY DEF Maybe
<1>s. /\ step.does \in {"edit", "save", "reset", "load", "begin", "finish"}
      /\ step.at \in {"web", "worker"} /\ step.valid \in BOOLEAN
  BY StepIs
<1>a. \A r, result : /\ Answer(r, result).role = r /\ Answer(r, result).result = result
                     /\ Answer(r, result) = Answer(Answer(r, result).role, Answer(r, result).result)
  BY DEF Answer
<1>p. Ok(Text(k + 1, TRUE)) \in LoadResult
  <2>1. k + 1 \in Nat
    OBVIOUS
  <2> QED BY ONLY <2>1, PageAnswers, Zenon
<1>w. /\ FileAfter(q, k + 1) = IF step.does = "edit"
                                 THEN << [stamp |-> k + 1, text |-> Text(k + 1, step.valid)] >> ELSE FileAfter(q, k)
      /\ StoredAfter(q, k + 1) = IF step.does = "save" /\ step.valid THEN << Text(k + 1, TRUE) >>
                                 ELSE IF step.does = "reset" THEN << >> ELSE StoredAfter(q, k)
      /\ FileAfter(q, k + 1) \in Maybe(RubricFile) /\ StoredAfter(q, k + 1) \in Maybe(RubricText)
  BY <1>0, WrittenNext, WrittenIs
<1>1. CASE step.does = "edit"
  <2> DEFINE file == << [stamp |-> k + 1, text |-> Text(k + 1, step.valid)] >>
             role2 == [role EXCEPT !.file = file]
  <2>1. after = Answer(role2, Ok(Text(k + 1, TRUE)))
    BY <1>1 DEF Done, Edit
  <2>2. file \in Maybe(RubricFile) /\ file = FileAfter(q, k + 1)
    BY <1>1, <1>w
  <2>3. file # << >> /\ file[1].stamp = k + 1
    OBVIOUS
  <2> HIDE DEF file
  <2>4. /\ role2 \in Role /\ role2.file = file /\ role2.stored = role.stored
        /\ role2.begun = role.begun /\ role2.cache = role.cache
    BY <1>0, <1>t, <2>2 DEF Role
  <2> HIDE DEF role2
  <2>5. RoleIs(q, role2, k + 1)
    BY <1>0, <1>1, <1>w, <2>2, <2>3, <2>4, WritesOn
  <2> HIDE DEF after
  <2>6. after.role = role2 /\ after.result = Ok(Text(k + 1, TRUE)) /\ after = Answer(after.role, after.result)
    BY <1>a, <2>1
  <2> QED BY <1>1, <1>p, <2>5, <2>6 DEF StepTells, after
<1>2. CASE step.does = "save" /\ step.valid
  <2> DEFINE stored == << Text(k + 1, TRUE) >>
             role2 == [role EXCEPT !.stored = stored, !.cache["web"] = << >>]
  <2>0. Text(k + 1, step.valid) = Text(k + 1, TRUE)
    BY <1>2
  <2>a. Text(k + 1, step.valid).valid
    BY <1>2 DEF Text
  <2>b. LoadRubric(Text(k + 1, step.valid)).outcome = "ok"
    BY <2>a DEF LoadRubric, Ok
  <2>1. after = Answer(role2, Ok(Text(k + 1, TRUE)))
    BY <1>2, <2>0, <2>b DEF Done, Save
  <2>2. stored \in Maybe(RubricText) /\ stored = StoredAfter(q, k + 1)
    BY <1>2, <1>w
  <2> HIDE DEF stored
  <2>4. /\ role2 \in Role /\ role2.stored = stored /\ role2.file = role.file
        /\ role2.begun = role.begun /\ role2.cache = [role.cache EXCEPT !["web"] = << >>]
    BY <1>0, <1>t, <1>n, <2>2 DEF Role
  <2> HIDE DEF role2
  <2>c. \A p \in Process : role2.cache[p] \in {<< >>, role.cache[p]}
    BY <1>t, <2>4
  <2>5. RoleIs(q, role2, k + 1)
    BY <1>0, <1>2, <1>w, <2>2, <2>4, <2>c, WritesOn
  <2> HIDE DEF after
  <2>6. after.role = role2 /\ after.result = Ok(Text(k + 1, TRUE)) /\ after = Answer(after.role, after.result)
    BY <1>a, <2>1
  <2> QED BY <1>2, <1>p, <2>5, <2>6 DEF StepTells, after
<1>3. CASE step.does = "save" /\ ~step.valid
  <2>a. ~Text(k + 1, step.valid).valid
    BY <1>3 DEF Text
  <2>b. LoadRubric(Text(k + 1, step.valid)).outcome # "ok"
    BY <2>a DEF LoadRubric, RubricInvalid
  <2>1. after = Answer(role, Ok(Text(k + 1, TRUE)))
    BY <1>3, <2>b DEF Done, Save
  <2>5. RoleIs(q, role, k + 1)
    BY <1>0, <1>3, <1>w, WritesOn
  <2> HIDE DEF after
  <2>6. after.role = role /\ after.result = Ok(Text(k + 1, TRUE)) /\ after = Answer(after.role, after.result)
    BY <1>a, <2>1
  <2> QED BY <1>3, <1>p, <2>5, <2>6 DEF StepTells, after
<1>4. CASE step.does = "reset"
  <2> DEFINE role2 == [role EXCEPT !.stored = << >>, !.cache["web"] = << >>]
  <2>1. after = Answer(role2, Ok(Text(k + 1, TRUE)))
    BY <1>4 DEF Done, Reset
  <2>4. /\ role2 \in Role /\ role2.stored = << >> /\ role2.file = role.file
        /\ role2.begun = role.begun /\ role2.cache = [role.cache EXCEPT !["web"] = << >>]
    BY <1>0, <1>t, <1>n DEF Role
  <2> HIDE DEF role2
  <2>c. \A p \in Process : role2.cache[p] \in {<< >>, role.cache[p]}
    BY <1>t, <2>4
  <2>5. RoleIs(q, role2, k + 1)
    BY <1>0, <1>4, <1>w, <2>4, <2>c, WritesOn
  <2> HIDE DEF after
  <2>6. after.role = role2 /\ after.result = Ok(Text(k + 1, TRUE)) /\ after = Answer(after.role, after.result)
    BY <1>a, <2>1
  <2> QED BY <1>4, <1>p, <2>5, <2>6 DEF StepTells, after
<1>5. CASE step.does = "load"
  <2> DEFINE p == step.at
             fresh == [role EXCEPT !.begun[p] = << >>]
  <2>0. p \in Process
    BY <1>0, <1>s
  <2>1. after = Load(fresh, p)
    BY <1>5 DEF Done
  <2>2. fresh = Touch(role, p, role.cache[p], << >>)
    BY <1>t, <2>0 DEF Touch
  <2>3. role.cache[p] \in Maybe(Entry)
    BY <1>t, <2>0
  <2> HIDE DEF fresh, p
  <2>4. /\ fresh \in Role /\ fresh.file = role.file /\ fresh.stored = role.stored
        /\ fresh.begun["worker"] \in {<< >>, role.begun["worker"]}
    BY <1>0, <1>n, <2>0, <2>2, <2>3, Touched
  <2>5. CachesSound(role, ~Disturbed(q)) /\ ReadingIs(q, role, k) /\ (~Disturbed(q)) \in BOOLEAN
    BY DEF RoleIs, Disturbed
  <2>6. CachesSound(fresh, ~Disturbed(q))
    BY <1>0, <1>n, <2>0, <2>2, <2>3, <2>5, KeepsSound
  <2>7. RoleIs(q, fresh, k)
    <3>1. ReadingIs(q, fresh, k)
      BY <2>4, <2>5 DEF ReadingIs
    <3> QED BY <1>0, <2>4, <2>6, <3>1 DEF RoleIs
  <2> HIDE DEF after
  <2>8. after.result \in LoadResult /\ RoleIs(q, after.role, k + 1) /\ ResultIs(q, after.result, k + 1)
    BY <1>5, <2>0, <2>1, <2>7, LoadsOn
  <2> QED BY <2>1, <2>8, ReaderAnswers DEF StepTells, after
<1>6. CASE step.does = "begin"
  <2>1. after = Begin(role, "worker")
    BY <1>6 DEF Done
  <2> HIDE DEF after
  <2>2. after.result \in LoadResult /\ RoleIs(q, after.role, k + 1)
    BY <1>6, <2>1, BeginsOn
  <2> QED BY <1>6, <2>1, <2>2, ReaderAnswers DEF StepTells, after
<1>7. CASE step.does = "finish"
  <2>1. after = IF role.begun["worker"] = << >> THEN Load(role, "worker") ELSE Finish(role, "worker")
    BY <1>7 DEF Done
  <2> HIDE DEF after
  <2>2. after.result \in LoadResult /\ RoleIs(q, after.role, k + 1) /\ ResultIs(q, after.result, k + 1)
    <3>1. CASE role.begun["worker"] = << >>
      BY <1>0, <1>7, <2>1, <3>1, LoadsOn
    <3>2. CASE role.begun["worker"] # << >>
      BY <1>7, <2>1, <3>2, FinishesOn
    <3> QED BY <3>1, <3>2
  <2>3. after = Answer(after.role, after.result)
    BY <2>1, ReaderAnswers
  <2> QED BY <2>2, <2>3 DEF StepTells, after
<1> QED BY <1>s, <1>1, <1>2, <1>3, <1>4, <1>5, <1>6, <1>7

\* What every step of a session leaves, from the shipped file on.
LEMMA AnswersTell ==
  ASSUME NEW q, RubricSession(q)
  PROVE  \A k \in 0..Len(q.steps) : StepTells(q, Answers(q)[k], k)
<1> DEFINE n == Len(q.steps)
           base == Answer(ShippedRubric(q), FileNotFound)
           next(k, answer) == Done(answer.role, q.steps[k], k)
           W == [k \in 0..n |-> {answer \in [role : Role, result : LoadResult] : StepTells(q, answer, k)}]
           step == [k \in 1..n |-> [answer \in W[k - 1] |-> next(k, answer)]]
           Body(f) == [k \in 0..n |-> IF k = 0 THEN base ELSE next(k, f[k - 1])]
           g == Answers(q)
<1>1. n \in Nat /\ DOMAIN q.steps = 1..n
  BY DEF RubricSession
<1>2. base \in W[0]
  <2> DEFINE role == ShippedRubric(q)
             shipped == IF q.shipped THEN << [stamp |-> 0, text |-> Text(0, TRUE)] >> ELSE << >>
  <2>1. Edits(q, 0) = {} /\ Saves(q, 0) = {}
    BY DEF Edits, Saves
  <2>2. FileAfter(q, 0) = shipped /\ StoredAfter(q, 0) = << >>
    BY <2>1 DEF FileAfter, StoredAfter
  <2>3. 0 \in 0..Len(q.steps) /\ FileAfter(q, 0) \in Maybe(RubricFile)
    BY <1>1, WrittenIs
  <2>4. role = [file |-> shipped, stored |-> << >>, cache |-> [p \in Process |-> << >>],
                begun |-> [p \in Process |-> << >>]]
    BY DEF ShippedRubric, Shipped
  <2>5. << >> \in Maybe(Entry) /\ << >> \in Maybe(RubricText) /\ << >> \in Maybe(Nat)
    BY DEF Maybe
  <2>6. shipped \in Maybe(RubricFile)
    BY <2>2, <2>3
  <2> HIDE DEF shipped, role
  <2>7. /\ role \in Role /\ role.file = shipped /\ role.stored = << >>
        /\ \A p \in Process : role.cache[p] = << >> /\ role.begun[p] = << >>
    BY <2>4, <2>5, <2>6 DEF Role
  <2>8. RoleIs(q, role, 0)
    BY <2>2, <2>7, RubricsAssumption DEF RoleIs, CachesSound, ReadingIs
  <2>9. FileNotFound \in LoadResult
    BY DEF FileNotFound, Text, LoadResult, RubricText
  <2>10. /\ base.role = role /\ base.result = FileNotFound /\ base \in [role : Role, result : LoadResult]
         /\ base = Answer(base.role, base.result)
    BY <2>7, <2>9 DEF Answer, role
  <2> HIDE DEF base
  <2>11. StepTells(q, base, 0)
    BY <2>8, <2>9, <2>10 DEF StepTells
  <2> QED BY <1>1, <2>10, <2>11
<1>3. ASSUME NEW k \in 1..n, NEW answer \in W[k - 1] PROVE next(k, answer) \in W[k]
  <2>1. k - 1 \in 0..n /\ k - 1 \in Nat /\ (k - 1) + 1 = k /\ k \in 0..n
    BY <1>1
  <2>2. StepTells(q, answer, k - 1)
    BY <1>3, <2>1
  <2>3. RoleIs(q, answer.role, k - 1)
    BY <2>2 DEF StepTells
  <2>4. StepTells(q, next(k, answer), k)
    <3>1. (k - 1) + 1 \in DOMAIN q.steps
      BY <1>1, <2>1
    <3>2. StepTells(q, Done(answer.role, q.steps[(k - 1) + 1], (k - 1) + 1), (k - 1) + 1)
      BY <2>1, <2>3, <3>1, DoneTells
    <3> QED BY <2>1, <3>2
  <2> HIDE DEF next
  <2>5. /\ next(k, answer) = Answer(next(k, answer).role, next(k, answer).result)
        /\ next(k, answer).role \in Role /\ next(k, answer).result \in LoadResult
    BY <2>4 DEF StepTells, RoleIs
  <2>6. next(k, answer) \in [role : Role, result : LoadResult]
    BY <2>5 DEF Answer
  <2> QED BY <2>1, <2>4, <2>6
<1>4. PICK f : IsChain(f, n, W, base, step)
  <2>1. \A k \in 1..n : \A answer \in W[k - 1] : step[k][answer] = next(k, answer)
    <3> HIDE DEF W, next, n
    <3> QED OBVIOUS
  <2>2. Chained(n, W, base, step)
    <3> HIDE DEF n, base, next, step, W
    <3> QED BY <1>1, <1>2, <1>3, <2>1 DEF Chained
  <2> HIDE DEF n, base, step, W
  <2> QED BY <2>2, ChainExists
<1>5. /\ f = [k \in 0..n |-> f[k]] /\ f[0] = base
      /\ \A k \in 1..n : f[k] = next(k, f[k - 1])
  <2>1. /\ f = [k \in 0..n |-> f[k]] /\ f[0] = base /\ \A k \in 1..n : f[k] = step[k][f[k - 1]]
        /\ \A k \in 0..n : f[k] \in W[k]
    BY <1>4 DEF IsChain
  <2>2. \A k \in 1..n : k - 1 \in 0..n
    BY <1>1
  <2>3. \A k \in 1..n : \A answer \in W[k - 1] : step[k][answer] = next(k, answer)
    <3> HIDE DEF W, next, n
    <3> QED OBVIOUS
  <2> HIDE DEF n, base, next, step, W
  <2> QED BY <2>1, <2>2, <2>3
<1>6. f = Body(f)
  <2>1. \A k \in 0..n : k = 0 \/ k \in 1..n
    BY <1>1
  <2> HIDE DEF n, base, next
  <2> QED BY <1>5, <2>1
<1>7. g = CHOOSE h : h = Body(h)
  BY DEF Answers
<1>8. g = Body(g)
  <2> HIDE DEF Body, g
  <2> QED BY <1>6, <1>7
<1>9. g[0] = base /\ \A k \in 1..n : g[k] = next(k, g[k - 1])
  <2>1. 0 \in 0..n /\ \A k \in 1..n : k \in 0..n /\ k # 0
    BY <1>1
  <2> HIDE DEF g, n, next, base
  <2> QED BY <1>8, <2>1
<1> HIDE DEF g, W, next, base
<1>10. \A k \in 0..n : g[k] \in W[k]
  <2> DEFINE T == {k \in Nat : k <= n => g[k] \in W[k]}
  <2>1. 0 \in T
    BY <1>2, <1>9
  <2>2. ASSUME NEW k \in Nat, k \in T PROVE k + 1 \in T
    <3> SUFFICES ASSUME k + 1 <= n PROVE g[k + 1] \in W[k + 1]
      OBVIOUS
    <3>1. k + 1 \in 1..n /\ (k + 1) - 1 = k /\ g[k] \in W[k]
      BY <1>1, <2>2
    <3> HIDE DEF n
    <3> QED BY <1>3, <1>9, <3>1
  <2>3. T = Nat
    <3> HIDE DEF T
    <3> T \in SUBSET Nat
      BY DEF T
    <3> QED BY <2>1, <2>2, Induction
  <2> QED BY <1>1, <2>3
<1> QED BY <1>1, <1>10 DEF W, g

\* However the rubric of a role is edited, saved, dropped and read, by a worker
\* too that is interrupted in reading it, and for as long: what is loaded last is
\* the rubric in force, if nothing was saved while the file was being read, and
\* nothing that is not a rubric is stored or judged by.
THEOREM EveryRunIsJudgedInForce ==
  ASSUME NEW q, RubricSession(q), q.steps # << >>, q.steps[Len(q.steps)].does \in {"load", "finish"}
  PROVE  JudgedInForce(q)
<1> DEFINE n == Len(q.steps)
           last == Answers(q)[n]
<1>1. n \in 0..n /\ n > 0
  BY DEF RubricSession
<1> HIDE DEF last
<1>2. StepTells(q, last, n)
  BY <1>1, AnswersTell DEF last
<1>3. RoleIs(q, last.role, n) /\ ResultIs(q, last.result, n)
  BY <1>1, <1>2 DEF StepTells
<1>4. last.role.stored # << >> => last.role.stored[1].valid
  BY <1>1, <1>3, SaidIsForce
<1>5. ConfigNode(last.result, TRUE, TRUE).status = "OK" => last.result.outcome = "ok"
  BY DEF ConfigNode
<1> QED BY <1>3, <1>4, <1>5 DEF JudgedInForce, ResultIs, last

\* Every question about rubrics is one such session.
RubricsAsked ==
    topic = "rubrics" =>
        RubricSession(input) /\ input.steps # << >> /\ input.steps[Len(input.steps)].does \in {"load", "finish"}

\* The sessions of the runs are such.
LEMMA RubricsAreAsked == Spec => []RubricsAsked
<1>1. Init => RubricsAsked
  BY DEF Init, RubricsAsked
<1>2. AskRubrics => RubricsAsked'
  <2> SUFFICES ASSUME AskRubrics
               PROVE  /\ RubricSession(input') /\ input'.steps # << >>
                      /\ input'.steps[Len(input'.steps)].does \in {"load", "finish"}
    BY DEF RubricsAsked
  <2>0. PICK n \in 1..MaxSteps : \E steps \in [1..n -> RubricSteps], shipped \in BOOLEAN :
           /\ steps[n].does \in {"load", "finish"}
           /\ input' = [shipped |-> shipped, steps |-> steps]
    BY DEF AskRubrics
  <2>1. PICK steps \in [1..n -> RubricSteps], shipped \in BOOLEAN :
           /\ steps[n].does \in {"load", "finish"}
           /\ input' = [shipped |-> shipped, steps |-> steps]
    BY <2>0
  <2>2. \A m \in Nat : \A w \in [1..m -> RubricSteps] : w \in Seq(RubricSteps) /\ Len(w) = m
    OBVIOUS
  <2>3. n \in Nat /\ n > 0
    OBVIOUS
  <2>4. steps \in Seq(RubricSteps) /\ Len(steps) = n /\ steps # << >>
    BY <2>2, <2>3
  <2>5. input'.steps = steps /\ input'.shipped \in BOOLEAN
    BY <2>1
  <2> QED BY <2>1, <2>4, <2>5 DEF RubricSession
<1>3. Next \/ UNCHANGED vars => (topic' = "rubrics" => AskRubrics \/ UNCHANGED vars)
  BY DEF Next, Ask, AskRules, AskTexts, AskQuotes, AskChunks, AskMerges, AskScans, AskFiles, AskAnchors,
         AskDrafts, AskCosts, AskPanels, AskRubrics, AskBatches, AskRates
<1>4. RubricsAsked /\ [Next]_vars => RubricsAsked'
  BY <1>2, <1>3 DEF RubricsAsked, vars
<1> QED BY <1>1, <1>4, PTL DEF Spec

\* The same of every question the runs ask.
THEOREM RunsAreJudgedInForce == Spec => []RubricInForce
<1>1. RubricsAsked => RubricInForce
  BY EveryRunIsJudgedInForce DEF RubricsAsked, RubricInForce
<1> QED BY <1>1, RubricsAreAsked, PTL

=============================================================================
