---------------------------- MODULE EvidenceProofs ----------------------------
(***************************************************************************)
(* What becomes of a document on its way to a criterion, for every input:  *)
(* the readings of its pieces put together, its chunks and those of them a *)
(* criterion is judged on, and what the calls about it cost.               *)
(*                                                                         *)
(* Each topic is proved of a question in general; that the questions the   *)
(* specification asks are of that kind makes its property an invariant.    *)
(***************************************************************************)
EXTENDS CalculationsProofs

-----------------------------------------------------------------------------
(* Loops. FoldLeft goes through the parts of a domain by their greatest    *)
(* element: that is a loop from the first to the last.                     *)

\* The element of some of the first n that a loop takes last.
Greatest(n) == [s \in SUBSET (1..n) |-> Max(s)]

\* The values of a loop of n turns.
IsLoop(f, n, V, base, step) ==
    /\ f \in [0..n -> V]
    /\ f[0] = base
    /\ \A k \in 1..n : f[k] = step[k][f[k - 1]]

\* A fold from the left is a loop.
LEMMA LoopFolds ==
  ASSUME NEW n \in Nat, NEW V, NEW base \in V, NEW step,
         \A k \in 1..n, v \in V : step[k][v] \in V
  PROVE  \E h, f : /\ IsFold(h, 1..n, V, base, Greatest(n), step)
                   /\ IsLoop(f, n, V, base, step)
                   /\ h[1..n] = f[n]
<1> DEFINE S == 1..n
           pick == Greatest(n)
<1>1. \A s \in SUBSET S : s # {} => pick[s] = Max(s) /\ pick[s] \in s
  BY MaxIsIn DEF Greatest
<1>2. IsFiniteSet(S)
  BY FS_Interval
<1>3. PICK h : IsFold(h, S, V, base, pick, step)
  <2>1. Foldable(S, V, base, pick, step)
    <3> HIDE DEF pick
    <3> QED BY <1>1, <1>2 DEF Foldable
  <2> HIDE DEF S, pick
  <2> QED BY <2>1, FoldExists
<1> DEFINE f == [k \in 0..n |-> h[1..k]]
<1>4. h \in [SUBSET S -> V] /\ h[{}] = base
  BY <1>3 DEF IsFold
<1>5. \A k \in 0..n : 1..k \in SUBSET S
  OBVIOUS
<1>6. f \in [0..n -> V]
  BY <1>4, <1>5
<1>7. f[0] = base
  <2>1. 1..0 = {} /\ 0 \in 0..n
    OBVIOUS
  <2> QED BY <1>4, <2>1
<1>8. ASSUME NEW k \in 1..n PROVE f[k] = step[k][f[k - 1]]
  <2>1. 1..k # {} /\ 1..k \in SUBSET S /\ k \in 0..n /\ k - 1 \in 0..n /\ k \in 1..k
    OBVIOUS
  <2>2. Max(1..k) \in 1..k /\ \A y \in 1..k : Max(1..k) >= y
    BY <1>1, <2>1, MaxIsIn
  <2>3. pick[1..k] = k
    <3>1. \A m \in 1..k : m >= k => m = k
      OBVIOUS
    <3>2. Max(1..k) = k
      BY <2>1, <2>2, <3>1
    <3> HIDE DEF pick
    <3> QED BY <1>1, <2>1, <3>2
  <2>4. (1..k) \ {k} = 1..(k - 1)
    OBVIOUS
  <2>5. h[1..k] = step[k][h[1..(k - 1)]]
    <3> HIDE DEF pick
    <3> QED BY <1>3, <2>1, <2>3, <2>4 DEF IsFold
  <2> QED BY <2>1, <2>5
<1>9. h[S] = f[n]
  OBVIOUS
<1>10. IsLoop(f, n, V, base, step)
  <2> HIDE DEF f
  <2> QED BY <1>6, <1>7, <1>8 DEF IsLoop
<1> HIDE DEF f
<1> QED BY <1>3, <1>9, <1>10

\* What takes the same turns comes to the same.
LEMMA LoopsAlike ==
  ASSUME NEW n \in Nat, NEW h, NEW g, g[{}] = h[{}],
         \A s \in SUBSET (1..n) : s # {} /\ h[s \ {Max(s)}] = g[s \ {Max(s)}] => h[s] = g[s]
  PROVE  g[1..n] = h[1..n]
<1> DEFINE S == 1..n
           pick == Greatest(n)
<1>1. \A s \in SUBSET S : s # {} => pick[s] = Max(s) /\ pick[s] \in s
  BY MaxIsIn DEF Greatest
<1>2. IsFiniteSet(S)
  BY FS_Interval
<1>3. StayAlike(h, g, S, pick)
  <2> HIDE DEF pick
  <2> QED BY <1>1, <1>2 DEF StayAlike
<1>4. \A s \in SUBSET S : h[s] = g[s]
  <2> HIDE DEF S, pick
  <2> QED BY <1>3, Alike
<1> QED BY <1>4

\* What a loop begins with and keeps is so of it to the end.
LEMMA LoopKeeps ==
  ASSUME NEW n \in Nat, NEW T \in SUBSET (0..n), 0 \in T,
         \A k \in 1..n : k - 1 \in T => k \in T
  PROVE  n \in T
<1> DEFINE U == {k \in Nat : k <= n => k \in T}
<1>1. 0 \in U
  OBVIOUS
<1>2. ASSUME NEW k \in Nat, k \in U PROVE k + 1 \in U
  <2> SUFFICES ASSUME k + 1 <= n PROVE k + 1 \in T
    OBVIOUS
  <2>1. k \in T /\ k + 1 \in 1..n /\ (k + 1) - 1 = k
    BY <1>2
  <2> QED BY <2>1
<1>3. U = Nat
  <2> HIDE DEF U
  <2> U \in SUBSET Nat
    BY DEF U
  <2> QED BY <1>1, <1>2, Induction
<1> QED BY <1>3

-----------------------------------------------------------------------------
(* Profiles read in pieces. *)

\* A least number of a set is what Min picks.
LEMMA MinIs ==
  ASSUME NEW s \in SUBSET Int, NEW m \in s, \A k \in s : m <= k
  PROVE  Min(s) = m
<1>1. \A x \in s : (\A k \in s : x <= k) => x = m
  OBVIOUS
<1>2. (CHOOSE x \in s : \A k \in s : x <= k) = m
  BY <1>1
<1> QED BY <1>2 DEF Min

\* What a model may say of a field: only what is not stated says nothing.
Sayable(Q) == Unstated \in Q /\ \A v \in Q : v.says = "nothing" => v = Unstated

\* A field and an entry of a profile of n pieces.
FieldOf(Q, n) ==
    [value : Q, conflicts : SUBSET (Q \X Q), provenance : SUBSET (1..n), confidence : Int]
RoleOf(Q, n) == [employer : FieldOf(Q, n), title : FieldOf(Q, n), dates : FieldOf(Q, n)]

\* The entries of a profile, each read in one piece.
Pieced(Q, entries) ==
    /\ Sayable(Q)
    /\ entries \in Seq(RoleOf(Q, Len(entries)))
    /\ \A k \in DOMAIN entries : \E v \in Q, sure \in Nat : entries[k].dates = Reading(v, k, sure)

SameRole(a, b) == /\ a.employer.value.says = b.employer.value.says
                  /\ a.title.value.says = b.title.value.says

\* Two fields put together are a field, which says what the first says if it says any.
LEMMA MergedField ==
  ASSUME NEW Q, NEW n \in Nat, Sayable(Q), NEW a \in FieldOf(Q, n), NEW b \in FieldOf(Q, n)
  PROVE  /\ MergeField(a, b) \in FieldOf(Q, n)
         /\ a.value = Unstated => MergeField(a, b) = b
         /\ a.value # Unstated /\ b.value = Unstated => MergeField(a, b) = a
         /\ a.value # Unstated /\ b.value # Unstated =>
                /\ MergeField(a, b).value = a.value
                /\ MergeField(a, b).provenance = a.provenance \cup b.provenance
                /\ MergeField(a, b).confidence = LowerOf(a.confidence, b.confidence)
                /\ a.conflicts \subseteq MergeField(a, b).conflicts
                /\ a.value.says # b.value.says => << a.value, b.value >> \in MergeField(a, b).conflicts
<1>1. \A v \in Q : v.says = "nothing" <=> v = Unstated
  BY DEF Sayable, Unstated
<1>2. a.value \in Q /\ b.value \in Q /\ a.confidence \in Int /\ b.confidence \in Int
  BY DEF FieldOf
<1>3. LowerOf(a.confidence, b.confidence) \in Int
  BY <1>2, LesserAndGreater DEF LowerOf
<1>4. CASE a.value = Unstated
  <2>1. MergeField(a, b) = b
    BY <1>1, <1>2, <1>4 DEF MergeField
  <2> QED BY <2>1, <1>4
<1>5. CASE a.value # Unstated /\ b.value = Unstated
  <2>1. MergeField(a, b) = a
    BY <1>1, <1>2, <1>5 DEF MergeField
  <2> QED BY <2>1, <1>5
<1>6. CASE a.value # Unstated /\ b.value # Unstated
  <2> DEFINE lower == LowerOf(a.confidence, b.confidence)
             noted == a.conflicts \cup b.conflicts \cup
                        (IF a.value.says = b.value.says THEN {} ELSE { << a.value, b.value >> })
  <2>1. MergeField(a, b) = [value |-> a.value, provenance |-> a.provenance \cup b.provenance,
                            confidence |-> lower, conflicts |-> noted]
    <3>1. a.value.says # "nothing" /\ b.value.says # "nothing"
      BY <1>1, <1>2, <1>6
    <3> HIDE DEF lower
    <3> QED BY <3>1 DEF MergeField, lower
  <2>2. a.conflicts \subseteq noted /\ noted \in SUBSET (Q \X Q)
    BY <1>2 DEF FieldOf
  <2>3. a.value.says # b.value.says => << a.value, b.value >> \in noted
    OBVIOUS
  <2>4. a.provenance \cup b.provenance \in SUBSET (1..n)
    BY DEF FieldOf
  <2> HIDE DEF noted, lower
  <2>5. lower \in Int
    BY <1>3 DEF lower
  <2>6. MergeField(a, b) \in FieldOf(Q, n)
    BY <2>1, <2>2, <2>4, <2>5, <1>2 DEF FieldOf
  <2> QED BY <2>1, <2>2, <2>3, <2>6, <1>6 DEF lower
<1> QED BY <1>4, <1>5, <1>6

\* What a field recalls of its pieces: ToldOf, with the least of a set named rather
\* than computed.
Recalls(entries, pieces, field) ==
    LET stating == {k \in pieces : entries[k].dates.value # Unstated}
    IN  /\ field.provenance = stating
        /\ stating = {} => field.value = Unstated
        /\ stating # {} => /\ \E m \in stating : /\ \A k \in stating : m <= k
                                                 /\ field.value = entries[m].dates.value
                           /\ \E m \in stating : /\ \A k \in stating : entries[m].dates.confidence <= entries[k].dates.confidence
                                                 /\ field.confidence = entries[m].dates.confidence
        /\ \A k \in stating : entries[k].dates.value.says # field.value.says =>
                \E note \in field.conflicts : note[2] = entries[k].dates.value

\* It recalls one more when that is put to it.
LEMMA OneMoreRecalled ==
  ASSUME NEW Q, NEW entries, Pieced(Q, entries), NEW k \in DOMAIN entries, NEW pieces \in SUBSET (1..(k - 1)),
         NEW field \in FieldOf(Q, Len(entries)), Recalls(entries, pieces, field)
  PROVE  /\ MergeField(field, entries[k].dates) \in FieldOf(Q, Len(entries))
         /\ Recalls(entries, pieces \cup {k}, MergeField(field, entries[k].dates))
<1> DEFINE n == Len(entries)
           b == entries[k].dates
           merged == MergeField(field, b)
           stating == {j \in pieces : entries[j].dates.value # Unstated}
           more == {j \in pieces \cup {k} : entries[j].dates.value # Unstated}
<1>1. /\ Sayable(Q) /\ n \in Nat /\ DOMAIN entries = 1..n
      /\ \A j \in 1..n : entries[j] \in RoleOf(Q, n)
      /\ \A j \in 1..n : \E v \in Q, sure \in Nat : entries[j].dates = Reading(v, j, sure)
  BY DEF Pieced
<1>2. /\ \A j \in 1..n : entries[j].dates \in FieldOf(Q, n) /\ entries[j].dates.value \in Q
      /\ b \in FieldOf(Q, n) /\ k \in 1..n
  BY <1>1 DEF RoleOf, FieldOf
<1>3. \A j \in 1..n : IF entries[j].dates.value = Unstated
                        THEN entries[j].dates.provenance = {}
                        ELSE entries[j].dates.provenance = {j} /\ entries[j].dates.confidence \in Nat
  <2> SUFFICES ASSUME NEW j \in 1..n
               PROVE  IF entries[j].dates.value = Unstated
                        THEN entries[j].dates.provenance = {}
                        ELSE entries[j].dates.provenance = {j} /\ entries[j].dates.confidence \in Nat
    OBVIOUS
  <2>1. PICK v \in Q, sure \in Nat : entries[j].dates = Reading(v, j, sure)
    BY <1>1
  <2> QED BY <2>1 DEF Reading
<1>4. pieces \subseteq 1..n /\ \A j \in pieces : j \in 1..n /\ j < k
  BY <1>2
<1> HIDE DEF n, b
<1>5. /\ merged \in FieldOf(Q, n)
      /\ field.value = Unstated => merged = b
      /\ field.value # Unstated /\ b.value = Unstated => merged = field
      /\ field.value # Unstated /\ b.value # Unstated =>
             /\ merged.value = field.value
             /\ merged.provenance = field.provenance \cup b.provenance
             /\ merged.confidence = LowerOf(field.confidence, b.confidence)
             /\ field.conflicts \subseteq merged.conflicts
             /\ field.value.says # b.value.says => << field.value, b.value >> \in merged.conflicts
  BY <1>1, <1>2, MergedField DEF n
<1>6. /\ more = IF b.value = Unstated THEN stating ELSE stating \cup {k}
      /\ \A j \in stating : j \in 1..n /\ j < k /\ entries[j].dates.value # Unstated
      /\ k \notin stating
  BY <1>4 DEF b
<1>7. /\ field.provenance = stating
      /\ stating = {} => field.value = Unstated
      /\ stating # {} => /\ \E m \in stating : /\ \A j \in stating : m <= j
                                               /\ field.value = entries[m].dates.value
                         /\ \E m \in stating : /\ \A j \in stating : entries[m].dates.confidence <= entries[j].dates.confidence
                                               /\ field.confidence = entries[m].dates.confidence
      /\ \A j \in stating : entries[j].dates.value.says # field.value.says =>
                \E note \in field.conflicts : note[2] = entries[j].dates.value
  BY DEF Recalls
<1>8. stating # {} => field.value # Unstated
  BY <1>6, <1>7
<1> HIDE DEF merged, stating, more
<1> SUFFICES
      /\ merged.provenance = more
      /\ more = {} => merged.value = Unstated
      /\ more # {} => /\ \E m \in more : /\ \A j \in more : m <= j
                                         /\ merged.value = entries[m].dates.value
                      /\ \E m \in more : /\ \A j \in more : entries[m].dates.confidence <= entries[j].dates.confidence
                                         /\ merged.confidence = entries[m].dates.confidence
      /\ \A j \in more : entries[j].dates.value.says # merged.value.says =>
                \E note \in merged.conflicts : note[2] = entries[j].dates.value
  BY <1>5 DEF Recalls, merged, more, b, n
<1>9. CASE stating = {} /\ b.value = Unstated
  <2>1. merged = b /\ more = {} /\ b.provenance = {}
    BY <1>2, <1>3, <1>5, <1>6, <1>7, <1>9 DEF b
  <2> QED BY <2>1, <1>9
<1>10. CASE stating = {} /\ b.value # Unstated
  <2>1. merged = b /\ more = {k} /\ b.provenance = {k} /\ b.confidence \in Nat /\ k \in Nat
    BY <1>2, <1>3, <1>5, <1>6, <1>7, <1>10 DEF b
  <2> QED BY <2>1 DEF b
<1>11. CASE stating # {} /\ b.value = Unstated
  <2>1. merged = field /\ more = stating
    BY <1>5, <1>6, <1>8, <1>11
  <2> QED BY <2>1, <1>7
<1>12. CASE stating # {} /\ b.value # Unstated
  <2>1. /\ merged.value = field.value
        /\ merged.provenance = field.provenance \cup b.provenance
        /\ merged.confidence = LowerOf(field.confidence, b.confidence)
        /\ field.conflicts \subseteq merged.conflicts
        /\ field.value.says # b.value.says => << field.value, b.value >> \in merged.conflicts
        /\ more = stating \cup {k}
    BY <1>5, <1>6, <1>8, <1>12
  <2>2. b.provenance = {k} /\ b.confidence \in Nat /\ k \in Nat
    BY <1>2, <1>3, <1>12 DEF b
  <2>3. merged.provenance = more
    BY <2>1, <2>2, <1>7
  <2>4. \E m \in more : (\A j \in more : m <= j) /\ merged.value = entries[m].dates.value
    <3>1. PICK m \in stating : (\A j \in stating : m <= j) /\ field.value = entries[m].dates.value
      BY <1>7, <1>12
    <3>2. m \in more /\ m <= k
      BY <1>6, <2>1, <2>2, <3>1
    <3> QED BY <2>1, <3>1, <3>2
  <2>5. \E m \in more : /\ \A j \in more : entries[m].dates.confidence <= entries[j].dates.confidence
                        /\ merged.confidence = entries[m].dates.confidence
    <3>1. PICK m \in stating : /\ \A j \in stating : entries[m].dates.confidence <= entries[j].dates.confidence
                               /\ field.confidence = entries[m].dates.confidence
      BY <1>7, <1>12
    <3>2. \A j \in more : entries[j].dates.confidence \in Nat
      BY <1>3, <1>6, <2>1, <2>2 DEF b
    <3>3. field.confidence \in Nat /\ field.confidence # -1 /\ b.confidence # -1
      BY <2>1, <2>2, <3>1, <3>2
    <3>4. merged.confidence = IF field.confidence <= b.confidence THEN field.confidence ELSE b.confidence
      BY <2>1, <2>2, <3>3, LesserAndGreater DEF LowerOf
    <3>5. CASE field.confidence <= b.confidence
      <4>1. merged.confidence = entries[m].dates.confidence /\ m \in more
        BY <3>1, <3>4, <3>5, <2>1
      <4>2. \A j \in more : entries[m].dates.confidence <= entries[j].dates.confidence
        BY <2>1, <3>1, <3>5 DEF b
      <4> QED BY <4>1, <4>2
    <3>6. CASE ~ (field.confidence <= b.confidence)
      <4>1. merged.confidence = entries[k].dates.confidence /\ k \in more
        BY <3>4, <3>6, <2>1 DEF b
      <4>2. ASSUME NEW j \in more PROVE entries[k].dates.confidence <= entries[j].dates.confidence
        <5>1. CASE j = k
          BY <5>1, <3>2
        <5>2. CASE j \in stating
          <6>1. entries[m].dates.confidence <= entries[j].dates.confidence
            BY <3>1, <5>2
          <6>2. entries[k].dates.confidence \in Nat /\ entries[j].dates.confidence \in Nat
            BY <2>2, <3>2 DEF b
          <6> QED BY <6>1, <6>2, <3>1, <3>3, <3>6 DEF b
        <5> QED BY <2>1, <5>1, <5>2
      <4> QED BY <4>1, <4>2
    <3> QED BY <3>5, <3>6
  <2>6. ASSUME NEW j \in more, entries[j].dates.value.says # merged.value.says
        PROVE  \E note \in merged.conflicts : note[2] = entries[j].dates.value
    <3>1. CASE j = k
      <4>1. << field.value, b.value >> \in merged.conflicts
        BY <2>1, <2>6, <3>1 DEF b
      <4> QED BY <3>1, <4>1 DEF b
    <3>2. CASE j \in stating
      BY <1>7, <2>1, <2>6, <3>2
    <3> QED BY <2>1, <3>1, <3>2
  <2> QED BY <2>1, <2>3, <2>4, <2>5, <2>6
<1> QED BY <1>9, <1>10, <1>11, <1>12

\* Those of the first k pieces a role was read in.
SeenIn(entries, k, role) == {j \in 1..k : SameRole(entries[j], role)}

\* What is made of the first k entries: a role for each, each with its pieces among
\* them, in the order first seen.
PutTogether(entries, k, merged) ==
    /\ \A i \in DOMAIN merged : SeenIn(entries, k, merged[i]) # {}
    /\ \A j \in 1..k : \E i \in DOMAIN merged : j \in SeenIn(entries, k, merged[i])
    /\ \A a, b \in DOMAIN merged : a < b =>
            \E m \in SeenIn(entries, k, merged[a]) : \A j \in SeenIn(entries, k, merged[b]) : m < j
    /\ \A a, b \in DOMAIN merged : SameRole(merged[a], merged[b]) => a = b
    /\ \A i \in DOMAIN merged : Recalls(entries, SeenIn(entries, k, merged[i]), merged[i].dates)

\* A field put to one that says the same leaves what it says,
LEMMA FieldStays ==
  ASSUME NEW Q, NEW n \in Nat, Sayable(Q), NEW x \in FieldOf(Q, n), NEW y \in FieldOf(Q, n),
         x.value.says = y.value.says
  PROVE  MergeField(x, y) \in FieldOf(Q, n) /\ MergeField(x, y).value.says = x.value.says
<1>1. /\ MergeField(x, y) \in FieldOf(Q, n)
      /\ x.value = Unstated => MergeField(x, y) = y
      /\ x.value # Unstated /\ y.value = Unstated => MergeField(x, y) = x
      /\ x.value # Unstated /\ y.value # Unstated =>
             /\ MergeField(x, y).value = x.value
             /\ MergeField(x, y).provenance = x.provenance \cup y.provenance
             /\ MergeField(x, y).confidence = LowerOf(x.confidence, y.confidence)
             /\ x.conflicts \subseteq MergeField(x, y).conflicts
             /\ x.value.says # y.value.says => << x.value, y.value >> \in MergeField(x, y).conflicts
  BY MergedField
<1>2. CASE x.value = Unstated
  BY <1>1, <1>2
<1>3. CASE x.value # Unstated /\ y.value = Unstated
  BY <1>1, <1>3
<1>4. CASE x.value # Unstated /\ y.value # Unstated
  BY <1>1, <1>4
<1> QED BY <1>1, <1>2, <1>3, <1>4

\* and an entry of the same role put to one is of that role.
LEMMA RoleStays ==
  ASSUME NEW Q, NEW n \in Nat, Sayable(Q), NEW a \in RoleOf(Q, n), NEW b \in RoleOf(Q, n), SameRole(a, b)
  PROVE  /\ MergeField(a.employer, b.employer) \in FieldOf(Q, n)
         /\ MergeField(a.title, b.title) \in FieldOf(Q, n)
         /\ MergeField(a.employer, b.employer).value.says = a.employer.value.says
         /\ MergeField(a.title, b.title).value.says = a.title.value.says
<1>1. /\ a.employer \in FieldOf(Q, n) /\ a.title \in FieldOf(Q, n)
      /\ b.employer \in FieldOf(Q, n) /\ b.title \in FieldOf(Q, n)
  BY DEF RoleOf
<1>2. a.employer.value.says = b.employer.value.says /\ a.title.value.says = b.title.value.says
  BY DEF SameRole
<1> QED BY <1>1, <1>2, FieldStays

\* The next entry is put to its role or begins one.
LEMMA EntryAdded ==
  ASSUME NEW Q, NEW entries, Pieced(Q, entries), NEW k \in DOMAIN entries,
         NEW merged \in Seq(RoleOf(Q, Len(entries)))
  PROVE  /\ AddRole(merged, entries[k]) \in Seq(RoleOf(Q, Len(entries)))
         /\ PutTogether(entries, k - 1, merged) => PutTogether(entries, k, AddRole(merged, entries[k]))
<1> DEFINE n == Len(entries)
           entry == entries[k]
           same == {i \in DOMAIN merged : SameRole(merged[i], entry)}
           put(role) == [employer |-> MergeField(role.employer, entry.employer),
                         title |-> MergeField(role.title, entry.title),
                         dates |-> MergeField(role.dates, entry.dates)]
           before(i) == SeenIn(entries, k - 1, merged[i])
<1>1. /\ Sayable(Q) /\ n \in Nat /\ DOMAIN entries = 1..n /\ k \in 1..n
      /\ \A j \in 1..n : entries[j] \in RoleOf(Q, n)
  BY DEF Pieced
<1>2. AddRole(merged, entry) = IF same = {} THEN Append(merged, entry)
                               ELSE [merged EXCEPT ![Min(same)] = put(merged[Min(same)])]
  BY DEF AddRole, SameRole
<1>3. PICK m \in Nat : DOMAIN merged = 1..m /\ m = Len(merged)
  OBVIOUS
<1>4. \A i \in 1..m : merged[i] \in RoleOf(Q, n)
  BY <1>3 DEF n
<1>5. same \subseteq 1..m /\ (same # {} => Min(same) \in same)
  <2>1. same \subseteq Nat /\ same \subseteq Int /\ same \subseteq 1..m
    BY <1>3
  <2>2. ASSUME same # {} PROVE Min(same) \in same
    <3> HIDE DEF same
    <3>1. PICK i \in same : \A j \in same : i <= j
      BY <2>1, <2>2, LeastIsIn
    <3> QED BY <2>1, <3>1, MinIs
  <2> QED BY <2>1, <2>2
<1> DEFINE i0 == Min(same)
           next == AddRole(merged, entry)
           after(i) == SeenIn(entries, k, next[i])
<1>6. 1..k = (1..(k - 1)) \cup {k} /\ k \notin 1..(k - 1) /\ k \in Nat /\ 1..(k - 1) \subseteq 1..n
  BY <1>1
<1>7. \A x, y, z : SameRole(x, x) /\ (SameRole(x, y) => SameRole(y, x))
                    /\ (SameRole(x, y) /\ SameRole(y, z) => SameRole(x, z))
  BY DEF SameRole
<1>a. entry \in RoleOf(Q, n)
  BY <1>1
<1>8. CASE same = {}
  <2>1. /\ next = Append(merged, entry) /\ next \in Seq(RoleOf(Q, n))
        /\ DOMAIN next = 1..(m + 1) /\ next[m + 1] = entry /\ \A i \in 1..m : next[i] = merged[i]
    <3> HIDE DEF same, next, entry, n
    <3>1. next = Append(merged, entry)
      BY <1>2, <1>8 DEF next
    <3>2. merged \in Seq(RoleOf(Q, n))
      BY DEF n
    <3> QED BY <1>3, <1>a, <3>1, <3>2
  <2>2. ASSUME PutTogether(entries, k - 1, merged) PROVE PutTogether(entries, k, next)
    <3>1. /\ \A i \in 1..m : before(i) # {}
          /\ \A j \in 1..(k - 1) : \E i \in 1..m : j \in before(i)
          /\ \A a, b \in 1..m : a < b => \E w \in before(a) : \A j \in before(b) : w < j
          /\ \A a, b \in 1..m : SameRole(merged[a], merged[b]) => a = b
          /\ \A i \in 1..m : Recalls(entries, before(i), merged[i].dates)
      BY <1>3, <2>2 DEF PutTogether
    <3>2. \A i \in 1..m : ~ SameRole(merged[i], entry) /\ ~ SameRole(entry, merged[i])
      BY <1>3, <1>7, <1>8
    <3>3. \A i \in 1..m : after(i) = before(i)
      <4> HIDE DEF next
      <4> QED BY <1>6, <2>1, <3>2 DEF SeenIn
    <3>4. after(m + 1) = {k}
      <4>1. ASSUME NEW j \in 1..(k - 1), SameRole(entries[j], entry) PROVE FALSE
        <5>1. PICK i \in 1..m : SameRole(entries[j], merged[i])
          BY <3>1 DEF SeenIn
        <5> QED BY <3>2, <4>1, <5>1, <1>7
      <4> HIDE DEF next
      <4> QED BY <1>6, <1>7, <2>1, <4>1 DEF SeenIn
    <3>5. /\ \A i \in 1..m : \A j \in before(i) : j < k
          /\ \A i \in 1..(m + 1) : i \in 1..m \/ i = m + 1
          /\ \A i \in 1..m : ~ (m + 1 < i) /\ i \in 1..(m + 1)
          /\ m + 1 \in 1..(m + 1)
      BY <1>6 DEF SeenIn
    <3>6. Recalls(entries, {k}, entry.dates)
      <4>1. PICK v \in Q, sure \in Nat : entry.dates = Reading(v, k, sure)
        BY <1>1 DEF Pieced
      <4>2. /\ entry.dates.provenance = IF entry.dates.value = Unstated THEN {} ELSE {k}
            /\ entry.dates.confidence \in Int
        BY <4>1 DEF Reading
      <4> QED BY <4>2 DEF Recalls
    <3> HIDE DEF before, after, next, entry, same
    <3>7. \A i \in 1..(m + 1) : after(i) # {}
      BY <3>1, <3>3, <3>4, <3>5
    <3>8. \A j \in 1..k : \E i \in 1..(m + 1) : j \in after(i)
      <4> SUFFICES ASSUME NEW j \in 1..k PROVE \E i \in 1..(m + 1) : j \in after(i)
        OBVIOUS
      <4>1. CASE j \in 1..(k - 1)
        BY <3>1, <3>3, <3>5, <4>1
      <4>2. CASE j = k
        BY <3>4, <3>5, <4>2
      <4> QED BY <1>6, <4>1, <4>2
    <3>9. \A a, b \in 1..(m + 1) : a < b => \E w \in after(a) : \A j \in after(b) : w < j
      <4> SUFFICES ASSUME NEW a \in 1..(m + 1), NEW b \in 1..(m + 1), a < b
                   PROVE  \E w \in after(a) : \A j \in after(b) : w < j
        OBVIOUS
      <4>1. a \in 1..m
        OBVIOUS
      <4>2. CASE b \in 1..m
        <5>1. \E w \in before(a) : \A j \in before(b) : w < j
          BY <3>1, <4>1, <4>2
        <5> QED BY <3>3, <4>1, <4>2, <5>1
      <4>3. CASE b = m + 1
        <5>1. PICK w \in before(a) : TRUE
          BY <3>1, <4>1
        <5>2. w < k
          BY <3>5, <4>1, <5>1
        <5> QED BY <3>3, <3>4, <4>1, <4>3, <5>1, <5>2
      <4> QED BY <3>5, <4>2, <4>3
    <3>10. \A a, b \in 1..(m + 1) : SameRole(next[a], next[b]) => a = b
      BY <2>1, <3>1, <3>2, <3>5
    <3>11. \A i \in 1..(m + 1) : Recalls(entries, after(i), next[i].dates)
      BY <2>1, <3>1, <3>3, <3>4, <3>5, <3>6
    <3>12. \A i \in 1..(m + 1) : after(i) = SeenIn(entries, k, next[i])
      BY DEF after
    <3>13. DOMAIN next = 1..(m + 1)
      BY <2>1
    <3> QED BY <3>7, <3>8, <3>9, <3>10, <3>11, <3>12, <3>13 DEF PutTogether
  <2> QED BY <2>1, <2>2
<1>9. CASE same # {}
  <2>1. i0 \in 1..m /\ SameRole(merged[i0], entry)
    <3>1. i0 \in same
      BY <1>5, <1>9
    <3> QED BY <1>3, <3>1
  <2> DEFINE role == put(merged[i0])
  <2>2. /\ MergeField(merged[i0].employer, entry.employer) \in FieldOf(Q, n)
        /\ MergeField(merged[i0].title, entry.title) \in FieldOf(Q, n)
        /\ MergeField(merged[i0].employer, entry.employer).value.says = merged[i0].employer.value.says
        /\ MergeField(merged[i0].title, entry.title).value.says = merged[i0].title.value.says
    <3> HIDE DEF i0, n, entry
    <3>1. merged[i0] \in RoleOf(Q, n)
      BY <1>4, <2>1
    <3> QED BY <1>1, <1>a, <2>1, <3>1, RoleStays
  <2>3. MergeField(merged[i0].dates, entry.dates) \in FieldOf(Q, n)
    <3>1. merged[i0].dates \in FieldOf(Q, n) /\ entry.dates \in FieldOf(Q, n)
      BY <1>4, <1>a, <2>1 DEF RoleOf
    <3> QED BY <1>1, <3>1, MergedField
  <2>4. role \in RoleOf(Q, n) /\ SameRole(role, merged[i0]) /\ role.dates = MergeField(merged[i0].dates, entry.dates)
    <3> HIDE DEF i0, n, entry
    <3> QED BY <2>2, <2>3 DEF RoleOf, SameRole
  <2>5. /\ next = [merged EXCEPT ![i0] = role]
        /\ next \in Seq(RoleOf(Q, n)) /\ DOMAIN next = 1..m
        /\ next[i0] = role /\ \A i \in 1..m : i # i0 => next[i] = merged[i]
    <3>1. next = [merged EXCEPT ![i0] = role]
      BY <1>2, <1>9
    <3> HIDE DEF next, role, i0, n
    <3>2. merged \in Seq(RoleOf(Q, n))
      BY DEF n
    <3>3. next \in [1..m -> RoleOf(Q, n)]
      BY <1>3, <1>4, <2>1, <2>4, <3>1
    <3>4. next \in Seq(RoleOf(Q, n))
      BY <1>3, <3>3
    <3> QED BY <1>3, <2>1, <3>1, <3>3, <3>4
  <2>6. ASSUME PutTogether(entries, k - 1, merged) PROVE PutTogether(entries, k, next)
    <3>1. /\ \A i \in 1..m : before(i) # {}
          /\ \A j \in 1..(k - 1) : \E i \in 1..m : j \in before(i)
          /\ \A a, b \in 1..m : a < b => \E w \in before(a) : \A j \in before(b) : w < j
          /\ \A a, b \in 1..m : SameRole(merged[a], merged[b]) => a = b
          /\ \A i \in 1..m : Recalls(entries, before(i), merged[i].dates)
      BY <1>3, <2>6 DEF PutTogether
    <3> HIDE DEF next, role, i0, same, put
    <3>2. \A i \in 1..m : SameRole(next[i], merged[i])
      BY <1>7, <2>4, <2>5
    <3>3. \A i \in 1..m : SameRole(entry, merged[i]) => i = i0
      BY <1>7, <2>1, <3>1
    <3>4. /\ \A i \in 1..m : i # i0 => after(i) = before(i)
          /\ after(i0) = before(i0) \cup {k}
      <4>1. \A i \in 1..m, j \in 1..k : SameRole(entries[j], next[i]) <=> SameRole(entries[j], merged[i])
        BY <1>7, <3>2
      <4>2. \A i \in 1..m : after(i) = SeenIn(entries, k, merged[i])
        BY <4>1 DEF SeenIn
      <4>3. SameRole(entries[k], merged[i0])
        BY <1>7, <2>1
      <4> HIDE DEF after
      <4>4. \A i \in 1..m : i # i0 => ~ SameRole(entries[k], merged[i])
        BY <3>3
      <4> QED BY <1>6, <2>1, <4>2, <4>3, <4>4 DEF SeenIn
    <3>5. \A i \in 1..m : before(i) \subseteq 1..(k - 1)
      BY DEF SeenIn
    <3>6. Recalls(entries, before(i0) \cup {k}, role.dates)
      <4>1. /\ merged[i0].dates \in FieldOf(Q, Len(entries))
            /\ Recalls(entries, before(i0), merged[i0].dates) /\ before(i0) \in SUBSET (1..(k - 1))
        BY <1>4, <2>1, <3>1, <3>5 DEF RoleOf, n
      <4> HIDE DEF before, n
      <4>2. Recalls(entries, before(i0) \cup {k}, MergeField(merged[i0].dates, entries[k].dates))
        BY <4>1, OneMoreRecalled
      <4> QED BY <2>4, <4>2 DEF entry
    <3> HIDE DEF before, after
    <3>7. \A i \in 1..m : before(i) \subseteq after(i) /\ after(i) \subseteq before(i) \cup {k}
      BY <3>4
    <3>8. /\ \A i \in 1..m : after(i) # {}
          /\ \A j \in 1..k : \E i \in 1..m : j \in after(i)
      BY <1>6, <2>1, <3>1, <3>4, <3>7
    <3>9. \A a, b \in 1..m : a < b => \E w \in after(a) : \A j \in after(b) : w < j
      <4> SUFFICES ASSUME NEW a \in 1..m, NEW b \in 1..m, a < b
                   PROVE  \E w \in after(a) : \A j \in after(b) : w < j
        OBVIOUS
      <4>1. PICK w \in before(a) : \A j \in before(b) : w < j
        BY <3>1
      <4>2. w < k /\ w \in after(a)
        BY <1>6, <3>5, <3>7, <4>1
      <4> QED BY <3>7, <4>1, <4>2
    <3>10. \A a, b \in 1..m : SameRole(next[a], next[b]) => a = b
      BY <1>7, <3>1, <3>2
    <3>11. \A i \in 1..m : Recalls(entries, after(i), next[i].dates)
      BY <2>5, <3>1, <3>4, <3>6
    <3>12. \A i \in 1..m : after(i) = SeenIn(entries, k, next[i])
      BY DEF after
    <3>13. DOMAIN next = 1..m
      BY <2>5
    <3> QED BY <3>8, <3>9, <3>10, <3>11, <3>12, <3>13 DEF PutTogether
  <2> QED BY <2>5, <2>6
<1> QED BY <1>8, <1>9

\* The loop over the entries (_merge_employment) assembles all of them.
LEMMA AllAssembled ==
  ASSUME NEW Q, NEW entries, Pieced(Q, entries)
  PROVE  /\ MergeEmployment(entries) \in Seq(RoleOf(Q, Len(entries)))
         /\ PutTogether(entries, Len(entries), MergeEmployment(entries))
<1> DEFINE n == Len(entries)
           V == Seq(RoleOf(Q, n))
           step == [k \in 1..n |-> [merged \in V |-> AddRole(merged, entries[k])]]
           Body(f) == [s \in SUBSET DOMAIN entries |->
                        IF s = {} THEN << >> ELSE AddRole(f[s \ {Max(s)}], entries[Max(s)])]
           g == CHOOSE f : f = Body(f)
<1>1. n \in Nat /\ DOMAIN entries = 1..n
  BY DEF Pieced
<1>2. \A k \in 1..n, merged \in V : step[k][merged] \in V /\ step[k][merged] = AddRole(merged, entries[k])
  <2>1. \A k \in 1..n, merged \in V : AddRole(merged, entries[k]) \in V
    BY <1>1, EntryAdded
  <2> HIDE DEF V
  <2> QED BY <2>1
<1>3. << >> \in V
  OBVIOUS
<1> HIDE DEF V, step
<1>4. PICK h, f : /\ IsFold(h, 1..n, V, << >>, Greatest(n), step)
                  /\ IsLoop(f, n, V, << >>, step)
                  /\ h[1..n] = f[n]
  <2>1. \A k \in 1..n, v \in V : step[k][v] \in V
    BY <1>2
  <2> DEFINE base == << >>
  <2>2. n \in Nat /\ base \in V
    BY <1>1, <1>3
  <2> HIDE DEF n, base
  <2>3. \E h, f : /\ IsFold(h, 1..n, V, base, Greatest(n), step)
                  /\ IsLoop(f, n, V, base, step)
                  /\ h[1..n] = f[n]
    BY <2>1, <2>2, LoopFolds
  <2> QED BY <2>3 DEF base
<1>5. \A s \in SUBSET (1..n) : s # {} => Greatest(n)[s] = Max(s) /\ Max(s) \in s
  BY <1>1, MaxIsIn DEF Greatest
<1>6. /\ h \in [SUBSET (1..n) -> V] /\ h[{}] = << >>
      /\ \A s \in SUBSET (1..n) : s # {} => h[s] = AddRole(h[s \ {Max(s)}], entries[Max(s)])
  <2>1. /\ h \in [SUBSET (1..n) -> V] /\ h[{}] = << >>
        /\ \A s \in SUBSET (1..n) : s # {} => h[s] = step[Greatest(n)[s]][h[s \ {Greatest(n)[s]}]]
    BY <1>4 DEF IsFold
  <2> HIDE DEF n
  <2> QED BY <1>2, <1>5, <2>1
<1>7. h = Body(h)
  BY <1>1, <1>6
<1>8. g = Body(g)
  BY <1>7
<1>9. MergeEmployment(entries) = g[DOMAIN entries]
  BY DEF MergeEmployment, FoldLeft, MapThenFoldSet
<1>10. g[1..n] = h[1..n]
  <2> HIDE DEF g, n
  <2>1. g[{}] = h[{}]
    BY <1>6, <1>8
  <2>2. \A s \in SUBSET (1..n) : s # {} /\ h[s \ {Max(s)}] = g[s \ {Max(s)}] => h[s] = g[s]
    BY <1>1, <1>6, <1>8
  <2> QED BY <1>1, <2>1, <2>2, LoopsAlike
<1>11. MergeEmployment(entries) = f[n]
  <2> HIDE DEF g, n
  <2> QED BY <1>1, <1>4, <1>9, <1>10
<1> DEFINE T == {k \in 0..n : PutTogether(entries, k, f[k])}
<1> HIDE DEF n
<1>12. 0 \in T
  <2>1. f[0] = << >> /\ 1..0 = {} /\ 0 \in 0..n
    BY <1>1, <1>4 DEF IsLoop
  <2> QED BY <2>1 DEF PutTogether
<1>13. ASSUME NEW k \in 1..n, k - 1 \in T PROVE k \in T
  <2>1. f[k] = step[k][f[k - 1]] /\ f[k - 1] \in V /\ k \in 0..n /\ k - 1 \in 0..n
    BY <1>1, <1>4 DEF IsLoop
  <2>2. f[k] = AddRole(f[k - 1], entries[k])
    BY <1>2, <2>1
  <2>3. f[k - 1] \in Seq(RoleOf(Q, Len(entries))) /\ k \in DOMAIN entries
    BY <1>1, <2>1 DEF V, n
  <2>4. PutTogether(entries, k - 1, f[k - 1])
    BY <1>13
  <2>5. PutTogether(entries, k, AddRole(f[k - 1], entries[k]))
    BY <2>3, <2>4, EntryAdded
  <2> QED BY <2>1, <2>2, <2>5
<1>14. n \in T
  <2> HIDE DEF T
  <2> T \in SUBSET (0..n)
    BY DEF T
  <2> QED BY <1>1, <1>12, <1>13, LoopKeeps
<1>15. f[n] \in V
  BY <1>1, <1>4 DEF IsLoop
<1> QED BY <1>11, <1>14, <1>15 DEF V, n

\* Putting pieces together decides nothing, however many there are and whatever they
\* say (merge.py): one entry a role, in the order first seen, that tells all its
\* pieces say of it.
THEOREM EveryMergeForgetsNothing ==
  ASSUME NEW Q, NEW entries, Pieced(Q, entries)
  PROVE  MergesAll(entries)
<1> DEFINE n == Len(entries)
           merged == MergeEmployment(entries)
           pieces(i) == PiecesOf(entries, merged[i])
<1>1. n \in Nat /\ DOMAIN entries = 1..n
  BY DEF Pieced
<1>2. \A i \in DOMAIN merged : pieces(i) = SeenIn(entries, n, merged[i]) /\ pieces(i) \subseteq 1..n
  BY <1>1 DEF PiecesOf, SeenIn, SameRole
<1> HIDE DEF merged, pieces
<1>3. /\ \A i \in DOMAIN merged : pieces(i) # {}
      /\ \A j \in 1..n : \E i \in DOMAIN merged : j \in pieces(i)
      /\ \A a, b \in DOMAIN merged : a < b => \E m \in pieces(a) : \A j \in pieces(b) : m < j
      /\ \A i \in DOMAIN merged : Recalls(entries, pieces(i), merged[i].dates)
  <2>1. PutTogether(entries, n, merged)
    BY AllAssembled DEF merged
  <2> HIDE DEF n
  <2> QED BY <1>2, <2>1 DEF PutTogether
<1>4. ASSUME NEW s \in SUBSET (1..n), s # {} PROVE Min(s) \in s /\ \A k \in s : Min(s) <= k
  <2>1. s \in SUBSET Nat /\ s \in SUBSET Int
    OBVIOUS
  <2>2. PICK m \in s : \A k \in s : m <= k
    BY <1>4, <2>1, LeastIsIn
  <2> QED BY <2>1, <2>2, MinIs
<1>5. \A i, j \in DOMAIN merged : i < j => Min(pieces(i)) < Min(pieces(j))
  <2> SUFFICES ASSUME NEW i \in DOMAIN merged, NEW j \in DOMAIN merged, i < j
               PROVE  Min(pieces(i)) < Min(pieces(j))
    OBVIOUS
  <2>1. PICK m \in pieces(i) : \A k \in pieces(j) : m < k
    BY <1>3
  <2>2. Min(pieces(i)) <= m /\ m < Min(pieces(j))
    BY <1>2, <1>3, <1>4, <2>1
  <2>3. Min(pieces(i)) \in 1..n /\ m \in 1..n /\ Min(pieces(j)) \in 1..n
    BY <1>2, <1>3, <1>4, <2>1
  <2> HIDE DEF n
  <2> QED BY <1>1, <2>2, <2>3
<1>6. ASSUME NEW i \in DOMAIN merged PROVE ToldOf(entries, pieces(i), merged[i].dates)
  <2> DEFINE field == merged[i].dates
             stating == {k \in pieces(i) : entries[k].dates.value # Unstated}
             sure == {entries[k].dates.confidence : k \in stating}
  <2>1. /\ field.provenance = stating
        /\ stating = {} => field.value = Unstated
        /\ stating # {} => /\ \E m \in stating : /\ \A k \in stating : m <= k
                                                 /\ field.value = entries[m].dates.value
                           /\ \E m \in stating : /\ \A k \in stating : entries[m].dates.confidence <= entries[k].dates.confidence
                                                 /\ field.confidence = entries[m].dates.confidence
        /\ \A k \in stating : entries[k].dates.value.says # field.value.says =>
                \E note \in field.conflicts : note[2] = entries[k].dates.value
    BY <1>3 DEF Recalls
  <2>2. stating \in SUBSET Int /\ \A k \in stating : k \in 1..n
    BY <1>1, <1>2
  <2>3. sure \in SUBSET Int
    <3>1. \A k \in 1..n : entries[k] \in RoleOf(Q, n)
      BY <1>1 DEF Pieced
    <3>2. \A k \in 1..n : entries[k].dates.confidence \in Int
      BY <3>1 DEF RoleOf, FieldOf
    <3> QED BY <2>2, <3>2
  <2>4. ASSUME stating # {}
        PROVE  field.value = entries[Min(stating)].dates.value /\ field.confidence = Min(sure)
    <3> HIDE DEF stating, field
    <3>1. PICK m \in stating : (\A k \in stating : m <= k) /\ field.value = entries[m].dates.value
      BY <2>1, <2>4
    <3>2. Min(stating) = m
      BY <2>2, <3>1, MinIs
    <3>3. PICK w \in stating : /\ \A k \in stating : entries[w].dates.confidence <= entries[k].dates.confidence
                               /\ field.confidence = entries[w].dates.confidence
      BY <2>1, <2>4
    <3>4. /\ entries[w].dates.confidence \in sure
          /\ \A c \in sure : entries[w].dates.confidence <= c
      BY <3>3
    <3> HIDE DEF sure
    <3>5. Min(sure) = entries[w].dates.confidence
      BY <2>3, <3>4, MinIs
    <3> QED BY <3>1, <3>2, <3>3, <3>5
  <2> QED BY <2>1, <2>4 DEF ToldOf
<1> QED BY <1>1, <1>3, <1>5, <1>6 DEF MergesAll, merged, pieces

\* Every question about pieces is of such entries.
MergesAsked == topic = "merges" => \E Q : Pieced(Q, input.entries)

\* The questions of the runs are such.
LEMMA MergesAreAsked == Spec => []MergesAsked
<1>1. Init => MergesAsked
  BY DEF Init, MergesAsked
<1>2. AskMerges => MergesAsked'
  <2> SUFFICES ASSUME AskMerges PROVE \E Q : Pieced(Q, input'.entries)
    BY DEF MergesAsked
  <2> DEFINE Q == Values
  <2>1. PICK employer \in [1..3 -> {Plain("x"), Plain("y"), Unstated}], title \in {Plain("x"), Plain("y")},
             dates \in [1..3 -> Values], sure \in {<< 1, 2, 3 >>, << 2, 3, 1 >>} :
            input' = [entries |-> [k \in 1..3 |->
                    [employer |-> Reading(employer[k], k, 0),
                     title |-> Reading(IF k = 3 THEN title ELSE Plain("x"), k, 0),
                     dates |-> Reading(dates[k], k, sure[k])]]]
    BY DEF AskMerges
  <2> DEFINE titled(k) == IF k = 3 THEN title ELSE Plain("x")
             entries == [k \in 1..3 |-> [employer |-> Reading(employer[k], k, 0),
                                         title |-> Reading(titled(k), k, 0),
                                         dates |-> Reading(dates[k], k, sure[k])]]
  <2>2. Sayable(Q)
    BY DEF Sayable, Values, Unstated
  <2>3. \A v \in Q, k \in 1..3, c \in Nat : Reading(v, k, c) \in FieldOf(Q, 3)
    <3> HIDE DEF Q
    <3> QED BY DEF Reading, FieldOf
  <2>4. \A k \in 1..3 : employer[k] \in Q /\ titled(k) \in Q /\ dates[k] \in Q /\ sure[k] \in Nat
    <3>1. Plain("x") \in Q /\ Plain("y") \in Q /\ Unstated \in Q
      BY DEF Values, Plain
    <3>2. \A k \in 1..3 : sure[k] \in Nat
      OBVIOUS
    <3> HIDE DEF Q
    <3>3. \A k \in 1..3 : dates[k] \in Q
      BY DEF Q
    <3> QED BY <3>1, <3>2, <3>3
  <2>5. \A k \in 1..3 : entries[k] \in RoleOf(Q, 3) /\ entries[k].dates = Reading(dates[k], k, sure[k])
    <3> HIDE DEF Q, titled
    <3> QED BY <2>3, <2>4 DEF RoleOf
  <2>6. entries \in Seq(RoleOf(Q, 3)) /\ Len(entries) = 3 /\ DOMAIN entries = 1..3
    <3> HIDE DEF Q
    <3>1. entries \in [1..3 -> RoleOf(Q, 3)]
      <4>1. DOMAIN entries = 1..3 /\ entries = [k \in 1..3 |-> entries[k]]
        OBVIOUS
      <4> HIDE DEF entries
      <4> QED BY <2>5, <4>1
    <3>2. \A n \in Nat : \A w \in [1..n -> RoleOf(Q, 3)] : /\ w \in Seq(RoleOf(Q, 3))
                                                          /\ Len(w) = n /\ DOMAIN w = 1..n
      OBVIOUS
    <3> HIDE DEF entries
    <3> QED BY <3>1, <3>2
  <2>7. input'.entries = entries
    BY <2>1
  <2> HIDE DEF Q, entries
  <2>8. Pieced(Q, entries)
    BY <2>2, <2>4, <2>5, <2>6 DEF Pieced
  <2> QED BY <2>7, <2>8
<1>3. Next \/ UNCHANGED vars => (topic' = "merges" => AskMerges \/ UNCHANGED vars)
  BY DEF Next, Ask, AskRules, AskTexts, AskQuotes, AskChunks, AskMerges, AskScans, AskFiles, AskAnchors,
         AskDrafts, AskCosts, AskPanels, AskRubrics, AskBatches, AskRates
<1>4. MergesAsked /\ [Next]_vars => MergesAsked'
  BY <1>2, <1>3 DEF MergesAsked, vars
<1> QED BY <1>1, <1>4, PTL DEF Spec

\* None of their pieces is forgotten.
THEOREM MergesForgetNothing == Spec => []MergeForgetsNothing
<1>1. MergesAsked => MergeForgetsNothing
  BY EveryMergeForgetsNothing DEF MergesAsked, MergeForgetsNothing
<1> QED BY <1>1, MergesAreAsked, PTL

-----------------------------------------------------------------------------
(* Ranks. Where of any two elements one goes before the other, each has a  *)
(* rank: how many go before it.                                            *)

\* A[k] are those that go before k.
Ordered(D, A) ==
    /\ IsFiniteSet(D)
    /\ A \in [D -> SUBSET D]
    /\ \A k \in D : k \notin A[k]
    /\ \A j, k \in D : j # k => j \in A[k] \/ k \in A[j]
    /\ \A j, k \in D : j \in A[k] => A[j] \subseteq A[k]

\* The ranks are the numbers below how many there are, each that of one.
LEMMA RanksFill ==
  ASSUME NEW D, NEW A, Ordered(D, A)
  PROVE  /\ Cardinality(D) \in Nat
         /\ \A k \in D : Cardinality(A[k]) \in 0..(Cardinality(D) - 1)
         /\ \A j, k \in D : j \in A[k] <=> Cardinality(A[j]) < Cardinality(A[k])
         /\ \A j, k \in D : Cardinality(A[j]) = Cardinality(A[k]) => j = k
         /\ \A i \in 0..(Cardinality(D) - 1) : \E k \in D : Cardinality(A[k]) = i
<1> DEFINE n == Cardinality(D)
           r == [k \in D |-> Cardinality(A[k])]
<1>1. /\ IsFiniteSet(D) /\ n \in Nat
      /\ \A k \in D : A[k] \subseteq D /\ k \notin A[k]
      /\ \A j, k \in D : j # k => j \in A[k] \/ k \in A[j]
      /\ \A j, k \in D : j \in A[k] => A[j] \subseteq A[k]
  BY FS_CardinalityType DEF Ordered
<1> HIDE DEF n
<1>2. \A s \in SUBSET D : IsFiniteSet(s) /\ Cardinality(s) \in Nat
  BY <1>1, FS_Subset, FS_CardinalityType
<1>3. ASSUME NEW s \in SUBSET D, NEW k \in D, k \notin s
      PROVE  Cardinality(s) < n
  <2>1. s \subseteq D /\ s # D /\ Cardinality(s) \in Nat
    BY <1>2, <1>3
  <2>2. Cardinality(s) <= Cardinality(D) /\ (Cardinality(D) = Cardinality(s) <=> D = s)
    BY <1>1, <2>1, FS_Subset
  <2> QED BY <1>1, <2>1, <2>2 DEF n
<1>4. ASSUME NEW j \in D, NEW k \in D, j \in A[k] PROVE r[j] < r[k]
  <2>1. A[j] \subseteq A[k] /\ A[j] # A[k] /\ IsFiniteSet(A[k])
    BY <1>1, <1>2, <1>4
  <2>2. Cardinality(A[j]) < Cardinality(A[k])
    <3>1. Cardinality(A[j]) <= Cardinality(A[k]) /\ (Cardinality(A[j]) = Cardinality(A[k]) => A[j] = A[k])
      BY <2>1, FS_Subset
    <3>2. Cardinality(A[j]) \in Nat /\ Cardinality(A[k]) \in Nat
      BY <1>1, <1>2
    <3> QED BY <2>1, <3>1, <3>2
  <2> QED BY <2>2
<1>5. \A k \in D : r[k] \in 0..(n - 1)
  <2> SUFFICES ASSUME NEW k \in D PROVE Cardinality(A[k]) \in 0..(n - 1)
    OBVIOUS
  <2>1. A[k] \in SUBSET D /\ k \notin A[k]
    BY <1>1
  <2>2. Cardinality(A[k]) \in Nat /\ Cardinality(A[k]) < n
    BY <1>2, <1>3, <2>1
  <2> QED BY <1>1, <2>2
<1>6. \A j, k \in D : j \in A[k] <=> r[j] < r[k]
  <2> SUFFICES ASSUME NEW j \in D, NEW k \in D, r[j] < r[k] PROVE j \in A[k]
    BY <1>4
  <2>1. r[j] \in 0..(n - 1) /\ r[k] \in 0..(n - 1)
    BY <1>5
  <2> HIDE DEF r
  <2>2. j # k
    BY <1>1, <2>1
  <2>3. ~ (k \in A[j])
    BY <1>1, <1>4, <2>1
  <2> QED BY <1>1, <2>2, <2>3
<1>7. \A j, k \in D : r[j] = r[k] => j = k
  <2> SUFFICES ASSUME NEW j \in D, NEW k \in D, r[j] = r[k] PROVE j = k
    OBVIOUS
  <2>1. r[j] \in 0..(n - 1) /\ r[k] \in 0..(n - 1)
    BY <1>5
  <2> HIDE DEF r
  <2>2. ~ (r[j] < r[k]) /\ ~ (r[k] < r[j])
    BY <1>1, <2>1
  <2> QED BY <1>1, <1>4, <2>2
<1>8. \A i \in 0..(n - 1) : \E k \in D : r[k] = i
  <2> DEFINE T == 0..(n - 1)
  <2>1. IsFiniteSet(T) /\ Cardinality(T) = n
    <3>1. 0 \in Int /\ n - 1 \in Int
      BY <1>1
    <3> QED BY <1>1, <3>1, FS_Interval
  <2>2. r \in Injection(D, T)
    <3>1. r \in [D -> T]
      BY <1>5
    <3> HIDE DEF r, T
    <3> QED BY <1>7, <3>1 DEF Injection, IsInjective
  <2>3. r \in Surjection(D, T)
    <3> HIDE DEF r, T
    <3> QED BY <1>1, <2>1, <2>2, FS_Injection DEF n
  <2> HIDE DEF r, T
  <2>4. \A i \in T : \E k \in D : r[k] = i
    BY <2>3 DEF Surjection
  <2> QED BY <2>4 DEF T
<1> QED BY <1>1, <1>5, <1>6, <1>7, <1>8 DEF n

\* The elements by rank.
Listing(D, A) == [i \in 1..Cardinality(D) |-> CHOOSE p \in D : Cardinality(A[p]) = i - 1]

\* What goes before comes before, and all of them once.
LEMMA ListedByRank ==
  ASSUME NEW D, NEW A, Ordered(D, A)
  PROVE  /\ Cardinality(D) \in Nat
         /\ Listing(D, A) \in [1..Cardinality(D) -> D]
         /\ \A k \in D : \E i \in 1..Cardinality(D) : Listing(D, A)[i] = k
         /\ \A i, j \in 1..Cardinality(D) : Listing(D, A)[i] = Listing(D, A)[j] => i = j
         /\ \A i, j \in 1..Cardinality(D) : i < j <=> Listing(D, A)[i] \in A[Listing(D, A)[j]]
<1> DEFINE n == Cardinality(D)
           list == Listing(D, A)
<1>1. /\ n \in Nat
      /\ \A k \in D : Cardinality(A[k]) \in 0..(n - 1)
      /\ \A j, k \in D : j \in A[k] <=> Cardinality(A[j]) < Cardinality(A[k])
      /\ \A j, k \in D : Cardinality(A[j]) = Cardinality(A[k]) => j = k
      /\ \A i \in 0..(n - 1) : \E k \in D : Cardinality(A[k]) = i
  BY RanksFill
<1> HIDE DEF n
<1>2. \A i \in 1..n : list[i] \in D /\ Cardinality(A[list[i]]) = i - 1
  <2> SUFFICES ASSUME NEW i \in 1..n PROVE list[i] \in D /\ Cardinality(A[list[i]]) = i - 1
    OBVIOUS
  <2>1. i - 1 \in 0..(n - 1)
    BY <1>1
  <2>2. \E p \in D : Cardinality(A[p]) = i - 1
    BY <1>1, <2>1
  <2>3. list[i] = CHOOSE p \in D : Cardinality(A[p]) = i - 1
    BY DEF Listing, n
  <2> QED BY <2>2, <2>3
<1>3. list \in [1..n -> D]
  <2>1. list = [i \in 1..n |-> list[i]]
    BY DEF Listing, n
  <2> HIDE DEF list
  <2> QED BY <1>2, <2>1
<1> HIDE DEF list
<1>4. ASSUME NEW k \in D PROVE \E i \in 1..n : list[i] = k
  <2> DEFINE i == Cardinality(A[k]) + 1
  <2>1. i \in 1..n /\ i - 1 = Cardinality(A[k])
    BY <1>1
  <2> HIDE DEF i
  <2>2. list[i] = k
    BY <1>1, <1>2, <2>1
  <2> QED BY <2>1, <2>2
<1>5. \A i, j \in 1..n : list[i] = list[j] => i = j
  <2> SUFFICES ASSUME NEW i \in 1..n, NEW j \in 1..n, list[i] = list[j] PROVE i = j
    OBVIOUS
  <2>1. i - 1 = j - 1
    BY <1>2
  <2> QED BY <1>1, <2>1
<1>6. \A i, j \in 1..n : i < j <=> list[i] \in A[list[j]]
  <2> SUFFICES ASSUME NEW i \in 1..n, NEW j \in 1..n PROVE i < j <=> list[i] \in A[list[j]]
    OBVIOUS
  <2>1. list[i] \in A[list[j]] <=> i - 1 < j - 1
    BY <1>1, <1>2
  <2> QED BY <1>1, <2>1
<1> QED BY <1>1, <1>3, <1>4, <1>5, <1>6 DEF n, list

\* The first so many by rank are so many, or all.
LEMMA FirstByRank ==
  ASSUME NEW D, NEW A, Ordered(D, A), NEW m \in Nat
  PROVE  LET first == {k \in D : Cardinality(A[k]) < m}
         IN  /\ IsFiniteSet(first)
             /\ Cardinality(first) = IF m <= Cardinality(D) THEN m ELSE Cardinality(D)
             /\ \A k \in first : A[k] \subseteq first
<1> DEFINE n == Cardinality(D)
           first == {k \in D : Cardinality(A[k]) < m}
           b == IF m <= n THEN m ELSE n
           f == [k \in first |-> Cardinality(A[k])]
           T == 0..(b - 1)
<1>1. /\ n \in Nat /\ IsFiniteSet(D)
      /\ \A k \in D : Cardinality(A[k]) \in 0..(n - 1)
      /\ \A j, k \in D : j \in A[k] <=> Cardinality(A[j]) < Cardinality(A[k])
      /\ \A j, k \in D : Cardinality(A[j]) = Cardinality(A[k]) => j = k
      /\ \A i \in 0..(n - 1) : \E k \in D : Cardinality(A[k]) = i
      /\ \A k \in D : A[k] \subseteq D
  BY RanksFill DEF Ordered
<1> HIDE DEF n
<1>2. b \in Nat /\ b <= n /\ b <= m
  BY <1>1
<1>3. IsFiniteSet(first)
  BY <1>1, FS_Subset
<1>4. f \in [first -> T]
  <2>1. ASSUME NEW k \in first PROVE Cardinality(A[k]) \in T
    <3>1. Cardinality(A[k]) \in 0..(n - 1) /\ Cardinality(A[k]) < m
      BY <1>1
    <3> QED BY <1>1, <1>2, <3>1
  <2> HIDE DEF T, first
  <2> QED BY <2>1
<1>5. f \in Injection(first, T)
  <2>1. \A j, k \in first : f[j] = f[k] => j = k
    BY <1>1
  <2> HIDE DEF f, first, T
  <2> QED BY <1>4, <2>1 DEF Injection, IsInjective
<1>6. f \in Surjection(first, T)
  <2>1. ASSUME NEW i \in T PROVE \E k \in first : f[k] = i
    <3>1. i \in 0..(n - 1) /\ i < m
      BY <1>1, <1>2
    <3>2. PICK k \in D : Cardinality(A[k]) = i
      BY <1>1, <3>1
    <3> QED BY <3>1, <3>2
  <2> HIDE DEF f, first, T
  <2> QED BY <1>4, <2>1 DEF Surjection
<1>7. Cardinality(first) = Cardinality(T) /\ Cardinality(T) = b
  <2>1. IsFiniteSet(T) /\ Cardinality(T) = b
    <3>1. 0 \in Int /\ b - 1 \in Int
      BY <1>2
    <3> HIDE DEF b
    <3> QED BY <1>2, <3>1, FS_Interval
  <2> HIDE DEF f, first, T, b
  <2> QED BY <1>5, <1>6, <2>1, FS_Injection
<1>8. ASSUME NEW k \in first PROVE A[k] \subseteq first
  <2> SUFFICES ASSUME NEW j \in A[k] PROVE j \in first
    OBVIOUS
  <2>1. j \in D /\ k \in D /\ Cardinality(A[j]) < Cardinality(A[k]) /\ Cardinality(A[k]) < m
    BY <1>1
  <2>2. Cardinality(A[j]) \in Nat /\ Cardinality(A[k]) \in Nat
    BY <1>1, <2>1
  <2> QED BY <2>1, <2>2
<1> QED BY <1>3, <1>7, <1>8 DEF n

-----------------------------------------------------------------------------
(* Chunks. *)

\* Sequences put end to end: what is made of the first k of them.
LEMMA FlattenedUp ==
  ASSUME NEW S, NEW seqs \in Seq(Seq(S)), seqs # << >>
  PROVE  \E f : /\ FlattenSeq(seqs) = f[Len(seqs)]
                /\ f[1] = seqs[1]
                /\ \A k \in 2..Len(seqs) : f[k] = f[k - 1] \o seqs[k]
                /\ \A k \in 1..Len(seqs) : f[k] \in Seq(S)
<1> DEFINE n == Len(seqs)
           V == [k \in 0..n |-> Seq(S)]
           step == [k \in 1..n |-> [v \in Seq(S) |-> v \o seqs[k]]]
           base == << >>
           Body(f) == [i \in 1..n |-> IF i = 1 THEN seqs[i] ELSE f[i - 1] \o seqs[i]]
           g == CHOOSE f : f = Body(f)
<1>1. n \in Nat /\ n > 0 /\ \A k \in 1..n : seqs[k] \in Seq(S)
  OBVIOUS
<1> HIDE DEF n
<1>2. PICK c : IsChain(c, n, V, base, step)
  <2>1. \A k \in 1..n, v \in Seq(S) : v \o seqs[k] \in Seq(S)
    BY <1>1
  <2>2. Chained(n, V, base, step)
    <3>1. \A k \in 1..n : k - 1 \in 0..n /\ k \in 0..n
      BY <1>1
    <3>2. base \in V[0]
      BY <1>1
    <3>3. ASSUME NEW k \in 1..n, NEW v \in V[k - 1] PROVE step[k][v] \in V[k]
      <4>1. v \in Seq(S)
        BY <3>1, <3>3
      <4> QED BY <2>1, <3>1, <4>1
    <3> HIDE DEF V, step, base
    <3> QED BY <1>1, <3>2, <3>3 DEF Chained
  <2> HIDE DEF V, step, base
  <2> QED BY <2>2, ChainExists
<1>3. /\ c[0] = << >> /\ \A k \in 0..n : c[k] \in Seq(S)
      /\ \A k \in 1..n : c[k] = c[k - 1] \o seqs[k]
  <2>1. /\ c[0] = base /\ \A k \in 0..n : c[k] \in V[k]
        /\ \A k \in 1..n : c[k] = step[k][c[k - 1]]
    BY <1>2 DEF IsChain
  <2>2. \A k \in 0..n : c[k] \in Seq(S)
    BY <2>1
  <2>3. \A k \in 1..n : k - 1 \in 0..n
    BY <1>1
  <2> QED BY <2>1, <2>2, <2>3
<1> DEFINE f0 == [k \in 1..n |-> c[k]]
<1>4. f0 = Body(f0)
  <2>1. c[1] = seqs[1]
    <3>0. 1 \in 1..n /\ 1 - 1 = 0
      BY <1>1
    <3>1. c[1] = c[0] \o seqs[1] /\ seqs[1] \in Seq(S)
      <4> HIDE DEF V, step, base, Body
      <4> QED BY <1>1, <1>3, <3>0
    <3> QED BY <1>3, <3>1
  <2>2. \A k \in 1..n : k # 1 => k - 1 \in 1..n
    BY <1>1
  <2>3. \A k \in 1..n : f0[k] = Body(f0)[k]
    BY <1>3, <2>1, <2>2
  <2> QED BY <2>3
<1>5. g = Body(g)
  BY <1>4
<1>6. FlattenSeq(seqs) = g[n]
  <2>1. Len(seqs) # 0
    BY <1>1 DEF n
  <2> QED BY <2>1 DEF FlattenSeq, n
<1> HIDE DEF g, f0
<1>7. g[1] = seqs[1] /\ \A k \in 2..n : g[k] = g[k - 1] \o seqs[k]
  <2>1. \A k \in 2..n : k \in 1..n /\ k # 1
    BY <1>1
  <2>2. \A i \in 1..n : Body(g)[i] = IF i = 1 THEN seqs[i] ELSE g[i - 1] \o seqs[i]
    OBVIOUS
  <2>3. \A i \in 1..n : g[i] = IF i = 1 THEN seqs[i] ELSE g[i - 1] \o seqs[i]
    <3> HIDE DEF Body
    <3> QED BY <1>5, <2>2
  <2>4. 1 \in 1..n
    BY <1>1
  <2> HIDE DEF Body, V, step, base
  <2> QED BY <2>1, <2>3, <2>4
<1>8. \A k \in 1..n : g[k] \in Seq(S)
  <2> SUFFICES ASSUME NEW m \in 1..n PROVE g[m] \in Seq(S)
    OBVIOUS
  <2> DEFINE T == {k \in 0..m : k = 0 \/ g[k] \in Seq(S)}
  <2>1. 0 \in T /\ T \in SUBSET (0..m) /\ m \in Nat
    BY <1>1
  <2>2. ASSUME NEW k \in 1..m, k - 1 \in T PROVE k \in T
    <3>1. CASE k = 1
      BY <1>1, <1>7, <3>1
    <3>2. CASE k # 1
      <4>1. k \in 2..n /\ g[k - 1] \in Seq(S) /\ k \in 1..n
        BY <1>1, <2>2, <3>2
      <4>2. g[k] = g[k - 1] \o seqs[k] /\ seqs[k] \in Seq(S)
        BY <1>1, <1>7, <4>1
      <4>3. \A v, w \in Seq(S) : v \o w \in Seq(S)
        OBVIOUS
      <4>4. g[k] \in Seq(S) /\ k \in 0..m
        <5> HIDE DEF T, V, step, Body
        <5> QED BY <1>1, <4>1, <4>2, <4>3
      <4> QED BY <4>4
    <3> QED BY <3>1, <3>2
  <2>3. m \in T
    <3> HIDE DEF T
    <3> QED BY <2>1, <2>2, LoopKeeps
  <2> QED BY <2>3
<1> QED BY <1>6, <1>7, <1>8 DEF n

\* The pages of a document, one where the other ends.
InARow(pages) ==
    /\ pages \in Seq([start : Nat, end : Nat]) /\ pages # << >>
    /\ \A k \in DOMAIN pages : pages[k].start <= pages[k].end
    /\ \A k \in DOMAIN pages : k + 1 \in DOMAIN pages => pages[k].end = pages[k + 1].start

\* Some of the first p pages that follow one another, within the budget unless it is
\* one of them.
Group(pages, budget, p, group) ==
    /\ group \in Seq(Nat) /\ Len(group) > 0
    /\ group[1] > 0 /\ group[1] + Len(group) <= p + 1
    /\ \A i \in 1..Len(group) : group[i] = group[1] + i - 1
    /\ Len(group) = 1 \/ pages[group[1] + Len(group) - 1].end - pages[group[1]].start <= budget

\* The group after it, the first page of which is too much for it.
NextGroup(pages, budget, group, other) ==
    /\ other[1] = group[1] + Len(group)
    /\ pages[other[1]].end - pages[group[1]].start > budget

\* The groups of the first p pages.
GroupedSoFar(pages, budget, p, groups) ==
    /\ groups \in Seq(Seq(Nat))
    /\ p = 0 => groups = << >>
    /\ p > 0 => /\ groups # << >> /\ groups[1][1] = 1
                /\ groups[Len(groups)][1] + Len(groups[Len(groups)]) = p + 1
    /\ \A k \in 1..Len(groups) : Group(pages, budget, p, groups[k])
    /\ \A k \in 1..Len(groups) : k < Len(groups) => NextGroup(pages, budget, groups[k], groups[k + 1])

\* What is a group of the pages so far is one when there is one more; so are that
\* page alone,
LEMMA GroupStays ==
  ASSUME NEW pages, NEW budget, NEW p \in Nat \ {0}, NEW group, Group(pages, budget, p - 1, group)
  PROVE  Group(pages, budget, p, group)
<1>1. group \in Seq(Nat) /\ Len(group) \in Nat /\ group[1] \in Nat
  <2>1. group \in Seq(Nat) /\ Len(group) \in Nat /\ Len(group) > 0
    BY DEF Group
  <2> QED BY <2>1
<1>2. group[1] + Len(group) <= (p - 1) + 1
  BY DEF Group
<1>3. group[1] + Len(group) <= p + 1
  BY <1>1, <1>2
<1> QED BY <1>3 DEF Group

LEMMA PageAlone ==
  ASSUME NEW pages, NEW budget, NEW p \in Nat \ {0}
  PROVE  Group(pages, budget, p, << p >>)
<1>1. << p >> \in Seq(Nat) /\ Len(<< p >>) = 1 /\ << p >>[1] = p
  OBVIOUS
<1> DEFINE g == << p >>
<1> HIDE DEF g
<1>2. g \in Seq(Nat) /\ Len(g) = 1 /\ g[1] = p
  BY <1>1 DEF g
<1>3. Group(pages, budget, p, g)
  BY <1>2 DEF Group
<1> QED BY <1>3 DEF g

\* and a group that ends where it begins, with it, if that is within the budget.
LEMMA PageJoins ==
  ASSUME NEW pages, NEW budget, NEW p \in Nat \ {0}, NEW group, Group(pages, budget, p - 1, group),
         group[1] + Len(group) = p, pages[p].end - pages[group[1]].start <= budget
  PROVE  /\ Group(pages, budget, p, Append(group, p))
         /\ Append(group, p)[1] = group[1] /\ Len(Append(group, p)) = Len(group) + 1
<1> DEFINE g == Append(group, p)
           size == Len(group)
<1>1. group \in Seq(Nat) /\ size \in Nat /\ size > 0
  BY DEF Group
<1>2. group[1] > 0 /\ \A i \in 1..size : group[i] = group[1] + i - 1
  BY DEF Group
<1>3. /\ g \in Seq(Nat) /\ Len(g) = size + 1 /\ g[size + 1] = p
      /\ \A i \in 1..size : g[i] = group[i]
  BY <1>1
<1>4. 1 \in 1..size /\ group[1] \in Nat
  BY <1>1
<1> HIDE DEF g, size
<1>5. g[1] = group[1]
  BY <1>3, <1>4
<1>6. group[1] + size = p
  BY DEF size
<1>7. \A i \in 1..(size + 1) : g[i] = g[1] + i - 1
  <2> SUFFICES ASSUME NEW i \in 1..(size + 1) PROVE g[i] = g[1] + i - 1
    OBVIOUS
  <2>1. CASE i \in 1..size
    BY <1>2, <1>3, <1>5, <2>1
  <2>2. CASE i = size + 1
    BY <1>1, <1>3, <1>4, <1>5, <1>6, <2>2
  <2> QED BY <1>1, <2>1, <2>2
<1>8. /\ g[1] > 0 /\ g[1] + Len(g) <= p + 1 /\ g[1] + Len(g) - 1 = p
      /\ Len(g) > 0
  BY <1>1, <1>2, <1>3, <1>4, <1>5, <1>6
<1>9. pages[g[1] + Len(g) - 1].end - pages[g[1]].start <= budget
  BY <1>5, <1>8
<1>10. Group(pages, budget, p, g)
  BY <1>3, <1>7, <1>8, <1>9 DEF Group
<1> QED BY <1>3, <1>5, <1>10 DEF g, size

\* One more page is put in its group.
LEMMA PageGrouped ==
  ASSUME NEW pages, InARow(pages), NEW budget \in Nat, NEW p \in DOMAIN pages,
         NEW groups, GroupedSoFar(pages, budget, p - 1, groups)
  PROVE  GroupedSoFar(pages, budget, p, AddPage(groups, p, pages, budget))
<1> DEFINE n == Len(pages)
           m == Len(groups)
           open == groups[m]
           next == AddPage(groups, p, pages, budget)
<1>1. n \in Nat /\ DOMAIN pages = 1..n /\ p \in Nat \ {0} /\ p <= n /\ p - 1 \in Nat
  BY DEF InARow
<1>2. \A k \in 1..n : pages[k].start \in Nat /\ pages[k].end \in Nat
  <2> DEFINE R == [start : Nat, end : Nat]
  <2>0. pages \in Seq(R)
    BY DEF InARow
  <2>1. \A k \in 1..n : pages[k] \in R
    <3> HIDE DEF R
    <3> QED BY <2>0
  <2> QED BY <2>1
<1>3. groups \in Seq(Seq(Nat)) /\ m \in Nat /\ DOMAIN groups = 1..m
  BY DEF GroupedSoFar
<1>4. /\ \A k \in 1..m : Group(pages, budget, p - 1, groups[k])
      /\ \A k \in 1..m : k < m => NextGroup(pages, budget, groups[k], groups[k + 1])
  BY DEF GroupedSoFar
<1>5. \A k \in 1..m : Group(pages, budget, p, groups[k])
  BY <1>1, <1>4, GroupStays
<1>6. p - 1 > 0 => m > 0 /\ groups[1][1] = 1 /\ open[1] + Len(open) = (p - 1) + 1
  BY <1>3 DEF GroupedSoFar
<1>7. p - 1 = 0 => groups = << >>
  BY DEF GroupedSoFar
<1>8. CASE m = 0
  <2>1. groups = << >> /\ p = 1
    BY <1>1, <1>3, <1>6, <1>8
  <2>2. next = << << p >> >>
    BY <2>1 DEF AddPage
  <2>3. next \in Seq(Seq(Nat)) /\ Len(next) = 1 /\ next[1] = << p >> /\ << p >>[1] = p /\ Len(<< p >>) = 1
    BY <1>1, <2>2
  <2>4. Group(pages, budget, p, << p >>)
    BY <1>1, PageAlone
  <2> HIDE DEF next
  <2>5. GroupedSoFar(pages, budget, p, next)
    <3>1. next # << >>
      <4>1. Len(<< >>) = 0
        OBVIOUS
      <4>2. Len(next) = 1
        BY <2>3
      <4> QED BY <4>1, <4>2
    <3>2. \A k \in 1..Len(next) : k = 1 /\ ~ (k < Len(next))
      BY <2>3
    <3>3. next[Len(next)] = << p >> /\ p # 0 /\ p > 0 /\ next[1][1] = 1
      BY <2>1, <2>3
    <3> QED BY <2>1, <2>3, <2>4, <3>1, <3>2, <3>3 DEF GroupedSoFar
  <2> QED BY <2>5 DEF next
<1>9. ASSUME m > 0
      PROVE  /\ m \in 1..m /\ 1 \in 1..m /\ open \in Seq(Nat) /\ Len(open) \in Nat /\ Len(open) > 0 /\ open[1] \in Nat
             /\ groups # << >> /\ Last(groups) = open /\ open # << >> /\ Head(open) = open[1]
             /\ p - 1 > 0 /\ groups[1][1] = 1 /\ open[1] + Len(open) = p
             /\ open[1] \in 1..n
  <2>1. m \in 1..m /\ 1 \in 1..m /\ groups # << >>
    BY <1>3, <1>9
  <2>2. open \in Seq(Nat) /\ Group(pages, budget, p - 1, open)
    BY <1>3, <1>4, <2>1
  <2>3. Len(open) \in Nat /\ Len(open) > 0 /\ open[1] > 0
    BY <2>2 DEF Group
  <2>4. open[1] \in Nat /\ open # << >> /\ Head(open) = open[1]
    <3> HIDE DEF open
    <3> QED BY <2>2, <2>3
  <2>5. Last(groups) = open
    BY DEF Last
  <2>6. p - 1 > 0
    BY <1>1, <1>7, <2>1
  <2>7. groups[1][1] = 1 /\ open[1] + Len(open) = p
    BY <1>1, <1>6, <2>6
  <2>8. open[1] \in 1..n
    <3> HIDE DEF open, n
    <3> QED BY <1>1, <2>3, <2>4, <2>7
  <2> HIDE DEF open, n, m
  <2> QED BY <2>1, <2>2, <2>3, <2>4, <2>5, <2>6, <2>7, <2>8
<1> HIDE DEF n
<1>10. CASE m > 0 /\ pages[p].end - pages[open[1]].start > budget
  <2>0. /\ m \in 1..m /\ 1 \in 1..m /\ groups # << >> /\ Last(groups) = open /\ open # << >> /\ Head(open) = open[1]
        /\ p - 1 > 0 /\ groups[1][1] = 1 /\ open[1] + Len(open) = p
    BY <1>9, <1>10
  <2>1. next = Append(groups, << p >>)
    <3> HIDE DEF open
    <3> QED BY <1>10, <2>0 DEF AddPage
  <2> HIDE DEF open, next, m
  <2>2. /\ next \in Seq(Seq(Nat)) /\ Len(next) = m + 1
        /\ next[m + 1] = << p >> /\ \A k \in 1..m : next[k] = groups[k]
    <3>1. << p >> \in Seq(Nat)
      BY <1>1
    <3> QED BY <1>3, <2>1, <3>1 DEF m
  <2>3. << p >>[1] = p /\ Len(<< p >>) = 1 /\ Group(pages, budget, p, << p >>)
    BY <1>1, PageAlone
  <2>4. NextGroup(pages, budget, groups[m], next[m + 1])
    BY <1>10, <2>0, <2>2, <2>3 DEF NextGroup, open
  <2>5. \A k \in 1..(m + 1) : Group(pages, budget, p, next[k])
    <3>1. \A k \in 1..(m + 1) : k \in 1..m \/ k = m + 1
      BY <1>3
    <3> QED BY <1>5, <2>2, <2>3, <3>1
  <2>6. \A k \in 1..(m + 1) : k < m + 1 => NextGroup(pages, budget, next[k], next[k + 1])
    <3> SUFFICES ASSUME NEW k \in 1..m PROVE NextGroup(pages, budget, next[k], next[k + 1])
      BY <1>3
    <3>1. CASE k = m
      BY <2>2, <2>4, <3>1
    <3>2. CASE k < m
      <4>1. k + 1 \in 1..m
        BY <1>3, <3>2
      <4> QED BY <1>4, <2>2, <3>2, <4>1
    <3> QED BY <1>3, <3>1, <3>2
  <2>7. GroupedSoFar(pages, budget, p, next)
    <3>1. next # << >> /\ p # 0
      BY <1>1, <1>3, <2>2
    <3>2. next[1][1] = 1 /\ next[Len(next)][1] + Len(next[Len(next)]) = p + 1
      BY <1>1, <2>0, <2>2, <2>3
    <3> QED BY <2>2, <2>5, <2>6, <3>1, <3>2 DEF GroupedSoFar
  <2> QED BY <2>7 DEF next
<1>11. CASE m > 0 /\ ~ (pages[p].end - pages[open[1]].start > budget)
  <2> DEFINE more == Append(open, p)
             front == Front(groups)
  <2>0. /\ m \in 1..m /\ 1 \in 1..m /\ groups # << >> /\ Last(groups) = open /\ open # << >> /\ Head(open) = open[1]
        /\ p - 1 > 0 /\ groups[1][1] = 1 /\ open[1] + Len(open) = p
        /\ open \in Seq(Nat) /\ Len(open) \in Nat /\ open[1] \in Nat /\ open[1] \in 1..n
    BY <1>9, <1>11
  <2>1. next = Append(front, more)
    <3> HIDE DEF open
    <3> QED BY <1>11, <2>0 DEF AddPage
  <2>2. pages[p].end - pages[open[1]].start <= budget
    <3>1. pages[p].end \in Nat /\ pages[open[1]].start \in Nat
      BY <1>1, <1>2, <2>0
    <3> QED BY <1>11, <3>1
  <2>3. /\ Group(pages, budget, p, more)
        /\ more[1] = open[1] /\ Len(more) = Len(open) + 1
    <3>1. Group(pages, budget, p - 1, open)
      BY <1>4, <2>0
    <3>2. open[1] + Len(open) = p
      BY <2>0
    <3> HIDE DEF open
    <3> QED BY <1>1, <2>2, <3>1, <3>2, PageJoins
  <2>4. more \in Seq(Nat)
    BY <2>3 DEF Group
  <2>5. /\ front \in Seq(Seq(Nat)) /\ Len(front) = m - 1
        /\ \A k \in 1..(m - 1) : front[k] = groups[k]
    BY <1>3, <1>11 DEF Front
  <2> HIDE DEF open, next, m, more, front
  <2>6. /\ next \in Seq(Seq(Nat)) /\ Len(next) = m
        /\ next[m] = more /\ \A k \in 1..(m - 1) : next[k] = groups[k]
    <3>1. m - 1 \in Nat /\ (m - 1) + 1 = m
      BY <1>3, <2>0
    <3> QED BY <2>1, <2>4, <2>5, <3>1
  <2>7. \A k \in 1..m : k # m => k \in 1..(m - 1)
    BY <1>3
  <2>8. \A k \in 1..m : Group(pages, budget, p, next[k])
    BY <1>5, <2>3, <2>6, <2>7
  <2>9. \A k \in 1..m : next[k][1] = groups[k][1]
    BY <2>3, <2>6, <2>7 DEF open
  <2>10. \A k \in 1..m : k < m => NextGroup(pages, budget, next[k], next[k + 1])
    <3> SUFFICES ASSUME NEW k \in 1..m, k < m PROVE NextGroup(pages, budget, next[k], next[k + 1])
      OBVIOUS
    <3>1. k \in 1..(m - 1) /\ k + 1 \in 1..m
      BY <1>3
    <3>2. next[k] = groups[k] /\ next[k + 1][1] = groups[k + 1][1]
      BY <2>6, <2>9, <3>1
    <3>3. NextGroup(pages, budget, groups[k], groups[k + 1])
      BY <1>4 DEF m
    <3> QED BY <3>2, <3>3 DEF NextGroup
  <2>11. GroupedSoFar(pages, budget, p, next)
    <3>1. next # << >> /\ p # 0
      BY <1>1, <1>3, <2>0, <2>6
    <3>2. next[1][1] = 1
      BY <2>0, <2>9
    <3>3. next[Len(next)][1] + Len(next[Len(next)]) = p + 1
      <4>1. next[Len(next)][1] = open[1] /\ Len(next[Len(next)]) = Len(open) + 1
        BY <2>3, <2>6
      <4>2. open[1] + Len(open) = p /\ open[1] \in Nat /\ Len(open) \in Nat
        BY <2>0
      <4> QED BY <1>1, <4>1, <4>2
    <3> QED BY <3>3, <2>6, <2>8, <2>10, <3>1, <3>2 DEF GroupedSoFar
  <2> QED BY <2>11 DEF next
<1>12. m = 0 \/ m > 0
  BY <1>3
<1> QED BY <1>8, <1>10, <1>11, <1>12

\* A loop f, and the function h of the parts of a domain that FoldLeft takes for it.
Unrolled(h, f, n, V, base, step) ==
    /\ IsLoop(f, n, V, base, step)
    /\ h \in [SUBSET (1..n) -> V] /\ h[{}] = base
    /\ \A s \in SUBSET (1..n) : s # {} =>
         /\ Max(s) \in s /\ Max(s) \in 1..n /\ h[s \ {Max(s)}] \in V
         /\ h[s] = step[Max(s)][h[s \ {Max(s)}]]
    /\ h[1..n] = f[n]

LEMMA LoopThrough ==
  ASSUME NEW n \in Nat, NEW V, NEW base \in V, NEW step,
         \A k \in 1..n, v \in V : step[k][v] \in V
  PROVE  \E h, f : Unrolled(h, f, n, V, base, step)
<1>1. PICK h, f : /\ IsFold(h, 1..n, V, base, Greatest(n), step)
                  /\ IsLoop(f, n, V, base, step)
                  /\ h[1..n] = f[n]
  BY LoopFolds
<1>2. \A s \in SUBSET (1..n) : s # {} => Greatest(n)[s] = Max(s) /\ Max(s) \in s
  BY MaxIsIn DEF Greatest
<1>3. /\ h \in [SUBSET (1..n) -> V] /\ h[{}] = base
      /\ \A s \in SUBSET (1..n) : s # {} => h[s] = step[Greatest(n)[s]][h[s \ {Greatest(n)[s]}]]
  BY <1>1 DEF IsFold
<1>4. \A s \in SUBSET (1..n) : s # {} =>
         /\ Max(s) \in s /\ Max(s) \in 1..n /\ h[s \ {Max(s)}] \in V
         /\ h[s] = step[Max(s)][h[s \ {Max(s)}]]
  BY <1>2, <1>3
<1>5. Unrolled(h, f, n, V, base, step)
  BY <1>1, <1>3, <1>4 DEF Unrolled
<1> QED BY <1>5

\* The loop over the pages (by_page_groups) groups all of them.
LEMMA AllGrouped ==
  ASSUME NEW pages, InARow(pages), NEW budget \in Nat
  PROVE  \E groups : /\ GroupedSoFar(pages, budget, Len(pages), groups)
                     /\ ByPageGroups(pages, budget) =
                          [k \in DOMAIN groups |->
                            [start |-> pages[Head(groups[k])].start, end |-> pages[Last(groups[k])].end,
                             numbers |-> groups[k]]]
<1> DEFINE n == Len(pages)
           V == Seq(Seq(Nat))
           base == << >>
           step == [p \in 1..n |-> [g \in V |-> AddPage(g, p, pages, budget)]]
           listed == [i \in DOMAIN pages |-> i]
           Body(f) == [s \in SUBSET DOMAIN listed |->
                        IF s = {} THEN << >> ELSE AddPage(f[s \ {Max(s)}], listed[Max(s)], pages, budget)]
           g == CHOOSE f : f = Body(f)
<1>1. n \in Nat /\ DOMAIN pages = 1..n /\ DOMAIN listed = 1..n /\ \A i \in 1..n : listed[i] = i
  BY DEF InARow
<1>2. \A p \in 1..n, v \in V : step[p][v] \in V /\ step[p][v] = AddPage(v, p, pages, budget)
  <2>1. ASSUME NEW p \in 1..n, NEW v \in V PROVE AddPage(v, p, pages, budget) \in V
    <3>1. p \in Nat /\ << p >> \in Seq(Nat)
      BY <1>1
    <3>2. Append(v, << p >>) \in V
      BY <3>1
    <3>3. ASSUME v # << >> PROVE Append(Front(v), Append(Last(v), p)) \in V
      <4>1. Front(v) \in V /\ Last(v) \in Seq(Nat)
        BY <3>3 DEF Front, Last
      <4>2. Append(Last(v), p) \in Seq(Nat)
        BY <3>1, <4>1
      <4> QED BY <4>1, <4>2
    <3> HIDE DEF V
    <3> QED BY <3>2, <3>3 DEF AddPage
  <2> HIDE DEF V
  <2> QED BY <2>1
<1>3. base \in V
  OBVIOUS
<1> HIDE DEF V, step, n, base
<1>4. PICK h, f : Unrolled(h, f, n, V, base, step)
  <2>1. \A k \in 1..n, v \in V : step[k][v] \in V
    BY <1>2
  <2> QED BY <1>1, <1>3, <2>1, LoopThrough
<1>5. \A s \in SUBSET (1..n) : s # {} => h[s] = AddPage(h[s \ {Max(s)}], listed[Max(s)], pages, budget)
  <2> HIDE DEF listed
  <2> QED BY <1>1, <1>2, <1>4 DEF Unrolled
<1>6. h = Body(h)
  <2> HIDE DEF listed
  <2> QED BY <1>1, <1>4, <1>5 DEF base, Unrolled
<1>7. g = Body(g)
  BY <1>6
<1>8. g[1..n] = f[n]
  <2> HIDE DEF g, listed
  <2>1. \A s \in SUBSET (1..n) :
            g[s] = IF s = {} THEN << >> ELSE AddPage(g[s \ {Max(s)}], listed[Max(s)], pages, budget)
    <3>1. SUBSET DOMAIN listed = SUBSET (1..n)
      BY <1>1
    <3> QED BY <1>7, <3>1
  <2>2. g[{}] = h[{}] /\ h[1..n] = f[n]
    BY <1>4, <2>1 DEF base, Unrolled
  <2> HIDE DEF Body
  <2>3. \A s \in SUBSET (1..n) : s # {} /\ h[s \ {Max(s)}] = g[s \ {Max(s)}] => h[s] = g[s]
    BY <1>5, <2>1
  <2>4. g[1..n] = h[1..n]
    BY <1>1, <2>2, <2>3, LoopsAlike
  <2> QED BY <2>2, <2>4
<1> DEFINE groups == f[n]
           T == {p \in 0..n : GroupedSoFar(pages, budget, p, f[p])}
<1>9. ByPageGroups(pages, budget) =
        [k \in DOMAIN groups |->
            [start |-> pages[Head(groups[k])].start, end |-> pages[Last(groups[k])].end,
             numbers |-> groups[k]]]
  <2>1. FoldLeftDomain(LAMBDA w, p : AddPage(w, p, pages, budget), << >>, pages) = g[DOMAIN listed]
    BY DEF FoldLeftDomain, FoldLeft, MapThenFoldSet
  <2> HIDE DEF g, listed
  <2>2. FoldLeftDomain(LAMBDA w, p : AddPage(w, p, pages, budget), << >>, pages) = f[n]
    BY <1>1, <1>8, <2>1
  <2> QED BY <2>2 DEF ByPageGroups
<1>10. 0 \in T
  <2>1. f[0] = << >> /\ 0 \in 0..n
    BY <1>1, <1>4 DEF IsLoop, base, Unrolled
  <2>2. << >> \in Seq(Seq(Nat)) /\ Len(<< >>) = 0 /\ 1..0 = {}
    OBVIOUS
  <2>3. GroupedSoFar(pages, budget, 0, << >>)
    BY <2>2 DEF GroupedSoFar
  <2> QED BY <2>1, <2>3
<1>11. ASSUME NEW p \in 1..n, p - 1 \in T PROVE p \in T
  <2>1. f[p] = step[p][f[p - 1]] /\ f[p - 1] \in V /\ p \in 0..n /\ p \in DOMAIN pages
    <3>1. p - 1 \in 0..n /\ p \in 0..n
      BY <1>1
    <3> QED BY <1>1, <1>4, <3>1 DEF IsLoop, Unrolled
  <2>2. f[p] = AddPage(f[p - 1], p, pages, budget)
    BY <1>2, <2>1
  <2>3. GroupedSoFar(pages, budget, p - 1, f[p - 1])
    BY <1>11
  <2>4. GroupedSoFar(pages, budget, p, AddPage(f[p - 1], p, pages, budget))
    BY <2>1, <2>3, PageGrouped
  <2> QED BY <2>1, <2>2, <2>4
<1>12. n \in T
  <2> HIDE DEF T
  <2> T \in SUBSET (0..n)
    BY DEF T
  <2> QED BY <1>1, <1>10, <1>11, LoopKeeps
<1> QED BY <1>9, <1>12 DEF n

\* What the groups are cut at: what each ends with is what the groups so far end with.
LEMMA GroupsRun ==
  ASSUME NEW pages, NEW budget, NEW p \in Nat \ {0}, NEW groups, GroupedSoFar(pages, budget, p, groups)
  PROVE  /\ groups # << >>
         /\ FlattenSeq(groups) = [i \in 1..p |-> i]
<1> DEFINE m == Len(groups)
           upto(k) == groups[k][1] + Len(groups[k]) - 1
<1>1. /\ groups \in Seq(Seq(Nat)) /\ groups # << >> /\ groups[1][1] = 1
      /\ groups[m][1] + Len(groups[m]) = p + 1
      /\ \A k \in 1..m : Group(pages, budget, p, groups[k])
      /\ \A k \in 1..m : k < m => NextGroup(pages, budget, groups[k], groups[k + 1])
  BY DEF GroupedSoFar
<1>2. m \in Nat /\ m > 0
  BY <1>1
<1>3. PICK f : /\ FlattenSeq(groups) = f[m]
               /\ f[1] = groups[1]
               /\ \A k \in 2..m : f[k] = f[k - 1] \o groups[k]
               /\ \A k \in 1..m : f[k] \in Seq(Nat)
  BY <1>1, FlattenedUp
<1> HIDE DEF m
<1>4. ASSUME NEW k \in 1..m
      PROVE  /\ groups[k] \in Seq(Nat) /\ Len(groups[k]) \in Nat \ {0} /\ groups[k][1] \in Nat \ {0}
             /\ \A i \in 1..Len(groups[k]) : groups[k][i] = groups[k][1] + i - 1
             /\ k < m => groups[k + 1][1] = groups[k][1] + Len(groups[k])
  <2>1. Group(pages, budget, p, groups[k]) /\ (k < m => NextGroup(pages, budget, groups[k], groups[k + 1]))
    BY <1>1
  <2>2. /\ groups[k] \in Seq(Nat) /\ Len(groups[k]) > 0 /\ groups[k][1] > 0
        /\ \A i \in 1..Len(groups[k]) : groups[k][i] = groups[k][1] + i - 1
    BY <2>1 DEF Group
  <2>3. Len(groups[k]) \in Nat /\ groups[k][1] \in Nat
    BY <2>2
  <2> QED BY <2>1, <2>2, <2>3 DEF NextGroup
<1> DEFINE T == {k \in 0..m : k = 0 \/ (Len(f[k]) = upto(k) /\ \A i \in 1..upto(k) : f[k][i] = i)}
<1>5. ASSUME NEW k \in 1..m, k - 1 \in T PROVE k \in T
  <2>1. CASE k = 1
    <3>1. f[k] = groups[1] /\ upto(k) = Len(groups[1])
      BY <1>1, <1>3, <1>4, <2>1
    <3>2. \A i \in 1..Len(groups[1]) : groups[1][i] = i
      <4>1. \A i \in 1..Len(groups[1]) : groups[1][i] = 1 + i - 1
        BY <1>1, <1>4, <2>1
      <4>2. Len(groups[1]) \in Nat
        BY <1>4, <2>1
      <4> QED BY <4>1, <4>2
    <3>3. k \in 0..m
      BY <1>2
    <3> HIDE DEF upto
    <3> QED BY <3>1, <3>2, <3>3
  <2>2. CASE k # 1
    <3>1. k \in 2..m /\ k - 1 \in 1..m /\ k - 1 < m /\ (k - 1) + 1 = k /\ k \in 0..m
      BY <1>2, <2>2
    <3> DEFINE a == f[k - 1]
               b == groups[k]
    <3>2. f[k] = a \o b /\ a \in Seq(Nat) /\ b \in Seq(Nat)
      BY <1>3, <1>4, <3>1
    <3>3. Len(a) = upto(k - 1) /\ \A i \in 1..Len(a) : a[i] = i
      <4>1. k - 1 # 0
        BY <3>1
      <4> QED BY <1>5, <4>1
    <3>4. b[1] = groups[k - 1][1] + Len(groups[k - 1])
      BY <1>4, <3>1
    <3>5. Len(a) \in Nat /\ b[1] = Len(a) + 1
      <4>1. groups[k - 1][1] \in Nat /\ Len(groups[k - 1]) \in Nat
        BY <1>4, <3>1
      <4>2. PICK x \in Nat, y \in Nat : x = groups[k - 1][1] /\ y = Len(groups[k - 1])
        BY <4>1
      <4>3. Len(a) \in Nat /\ Len(a) = x + y - 1
        BY <3>2, <3>3, <4>2
      <4>4. b[1] = x + y
        BY <3>4, <4>2
      <4> HIDE DEF a, b
      <4> QED BY <4>3, <4>4
    <3>6. Len(b) \in Nat /\ \A i \in 1..Len(b) : b[i] = b[1] + i - 1
      BY <1>4
    <3>7. upto(k) = Len(a) + Len(b)
      <4>1. upto(k) = b[1] + Len(b) - 1
        OBVIOUS
      <4> HIDE DEF a, b, upto
      <4> QED BY <3>5, <3>6, <4>1
    <3> HIDE DEF a, b
    <3>8. Len(f[k]) = Len(a) + Len(b)
      BY <3>2
    <3>9. \A i \in 1..(Len(a) + Len(b)) : f[k][i] = IF i <= Len(a) THEN a[i] ELSE b[i - Len(a)]
      BY <3>2
    <3>10. \A i \in 1..(Len(a) + Len(b)) : f[k][i] = i
      <4> SUFFICES ASSUME NEW i \in 1..(Len(a) + Len(b)) PROVE f[k][i] = i
        OBVIOUS
      <4>1. CASE i <= Len(a)
        <5>1. i \in 1..Len(a)
          BY <3>5, <3>6, <4>1
        <5> QED BY <3>3, <3>9, <4>1, <5>1
      <4>2. CASE ~ (i <= Len(a))
        <5>1. i - Len(a) \in 1..Len(b)
          BY <3>5, <3>6, <4>2
        <5>2. b[i - Len(a)] = b[1] + (i - Len(a)) - 1
          BY <3>6, <5>1
        <5> QED BY <3>5, <3>6, <3>9, <4>2, <5>2
      <4> QED BY <4>1, <4>2
    <3> HIDE DEF upto
    <3> QED BY <3>1, <3>7, <3>8, <3>10
  <2> QED BY <2>1, <2>2
<1>6. m \in T
  <2>1. 0 \in T /\ T \in SUBSET (0..m)
    BY <1>2
  <2> HIDE DEF T
  <2> QED BY <1>2, <1>5, <2>1, LoopKeeps
<1>7. upto(m) = p
  <2>1. m \in 1..m
    BY <1>2
  <2>2. Len(groups[m]) \in Nat /\ groups[m][1] \in Nat
    BY <1>4, <2>1
  <2> QED BY <1>1, <2>2 DEF m
<1>8. f[m] \in Seq(Nat) /\ Len(f[m]) = p /\ \A i \in 1..p : f[m][i] = i
  <2>1. m # 0 /\ m \in 1..m
    BY <1>2
  <2> HIDE DEF upto
  <2> QED BY <1>3, <1>6, <1>7, <2>1 DEF m
<1>9. f[m] = [i \in 1..p |-> i]
  <2> DEFINE w == f[m]
  <2> HIDE DEF w
  <2>1. w \in Seq(Nat) /\ Len(w) = p /\ \A i \in 1..p : w[i] = i
    BY <1>8 DEF w
  <2>2. w = [i \in 1..p |-> w[i]]
    BY <2>1
  <2> QED BY <2>1, <2>2 DEF w
<1> QED BY <1>1, <1>3, <1>9 DEF m

\* The groups begin one after the other.
LEMMA GroupsAscend ==
  ASSUME NEW pages, NEW budget, NEW p, NEW groups, GroupedSoFar(pages, budget, p, groups)
  PROVE  \A i, j \in 1..Len(groups) : i < j => groups[i][1] < groups[j][1]
<1> DEFINE m == Len(groups)
           first(k) == groups[k][1]
           T == {d \in 0..m : d = 0 \/ \A i \in 1..m : i + d <= m => first(i) < first(i + d)}
<1>1. /\ m \in Nat
      /\ \A k \in 1..m : groups[k] \in Seq(Nat) /\ Len(groups[k]) \in Nat \ {0} /\ first(k) \in Nat
      /\ \A k \in 1..m : k < m => first(k + 1) = first(k) + Len(groups[k])
  <2>1. /\ groups \in Seq(Seq(Nat)) /\ m \in Nat
        /\ \A k \in 1..m : Group(pages, budget, p, groups[k])
        /\ \A k \in 1..m : k < m => NextGroup(pages, budget, groups[k], groups[k + 1])
    BY DEF GroupedSoFar
  <2>2. ASSUME NEW k \in 1..m
        PROVE  groups[k] \in Seq(Nat) /\ Len(groups[k]) \in Nat \ {0} /\ groups[k][1] \in Nat
    <3>1. groups[k] \in Seq(Nat) /\ Len(groups[k]) > 0
      BY <2>1 DEF Group
    <3> QED BY <3>1
  <2> QED BY <2>1, <2>2 DEF NextGroup
<1>2. \A k \in 1..m : k + 1 <= m => first(k) < first(k + 1)
  <2> SUFFICES ASSUME NEW k \in 1..m, k + 1 <= m PROVE first(k) < first(k + 1)
    OBVIOUS
  <2>1. PICK x \in Nat, y \in Nat \ {0} : x = first(k) /\ y = Len(groups[k])
    BY <1>1
  <2>2. first(k + 1) = x + y
    BY <1>1, <2>1
  <2> QED BY <2>1, <2>2
<1> HIDE DEF m, first
<1>3. ASSUME NEW d \in 1..m, d - 1 \in T PROVE d \in T
  <2>1. ASSUME NEW i \in 1..m, i + d <= m PROVE first(i) < first(i + d)
    <3>1. CASE d = 1
      BY <1>2, <2>1, <3>1
    <3>2. CASE d # 1
      <4>1. i + (d - 1) <= m /\ i + (d - 1) \in 1..m /\ (i + (d - 1)) + 1 = i + d /\ i + d \in 1..m
        BY <1>1, <2>1
      <4>2. first(i) < first(i + (d - 1))
        BY <1>1, <1>3, <3>2, <4>1
      <4>3. first(i + (d - 1)) < first(i + d)
        BY <1>2, <2>1, <4>1
      <4>4. first(i) \in Nat /\ first(i + (d - 1)) \in Nat /\ first(i + d) \in Nat
        BY <1>1, <4>1
      <4> QED BY <4>2, <4>3, <4>4
    <3> QED BY <3>1, <3>2
  <2> QED BY <1>1, <2>1
<1>4. ASSUME NEW i \in 1..m, NEW j \in 1..m, i < j PROVE first(i) < first(j)
  <2> DEFINE d == j - i
  <2>1. d \in 1..m /\ d \in Nat /\ i + d = j /\ d # 0 /\ d <= m
    BY <1>1, <1>4
  <2> HIDE DEF d
  <2>2. T \cap (0..d) \in SUBSET (0..d) /\ 0 \in T \cap (0..d)
    BY <1>1, <2>1
  <2>3. \A k \in 1..d : k - 1 \in T \cap (0..d) => k \in T \cap (0..d)
    <3> SUFFICES ASSUME NEW k \in 1..d, k - 1 \in T PROVE k \in T /\ k \in 0..d
      BY DEF T
    <3>1. k \in 1..m
      BY <1>1, <2>1
    <3> QED BY <1>3, <2>1, <3>1
  <2>4. d \in T
    <3> DEFINE U == T \cap (0..d)
    <3> HIDE DEF T, U
    <3>1. U \in SUBSET (0..d) /\ 0 \in U /\ \A k \in 1..d : k - 1 \in U => k \in U
      BY <2>2, <2>3 DEF U
    <3>2. d \in U
      BY <2>1, <3>1, LoopKeeps
    <3> QED BY <3>2 DEF U
  <2> QED BY <1>4, <2>1, <2>4
<1> QED BY <1>4 DEF m, first

\* The chunks of a document, to choose from.
Cut(chunks) ==
    /\ chunks # << >>
    /\ \E m \in Nat : DOMAIN chunks = 1..m /\ m = Len(chunks) /\ chunks = [k \in 1..m |-> chunks[k]]
    /\ \A k \in DOMAIN chunks : chunks[k].start \in Nat
    /\ \A j, k \in DOMAIN chunks : chunks[j] = chunks[k] => j = k

\* Nothing of a document is lost to the budget, whatever its pages and whatever the
\* budget (by_page_groups).
THEOREM EveryPageIsInAChunk ==
  ASSUME NEW pages, InARow(pages), NEW budget \in Nat
  PROVE  /\ AllInChunks(pages, budget)
         /\ Cut(ByPageGroups(pages, budget)) /\ Len(ByPageGroups(pages, budget)) <= Len(pages)
<1> DEFINE n == Len(pages)
           chunks == ByPageGroups(pages, budget)
<1>1. /\ n \in Nat \ {0} /\ DOMAIN pages = 1..n
      /\ \A k \in 1..n : k + 1 \in 1..n => pages[k].end = pages[k + 1].start
  <2> DEFINE R == [start : Nat, end : Nat]
  <2>1. /\ pages \in Seq(R) /\ pages # << >>
        /\ \A k \in DOMAIN pages : k + 1 \in DOMAIN pages => pages[k].end = pages[k + 1].start
    BY DEF InARow
  <2> HIDE DEF R
  <2>2. n \in Nat \ {0} /\ DOMAIN pages = 1..n
    BY <2>1
  <2> QED BY <2>1, <2>2
<1>2. \A k \in 1..n : pages[k].start \in Nat /\ pages[k].end \in Nat
  <2> DEFINE R == [start : Nat, end : Nat]
  <2>0. pages \in Seq(R)
    BY DEF InARow
  <2>1. \A k \in 1..n : pages[k] \in R
    <3> HIDE DEF R
    <3> QED BY <2>0
  <2> QED BY <2>1
<1>3. PICK groups : /\ GroupedSoFar(pages, budget, n, groups)
                    /\ chunks = [k \in DOMAIN groups |->
                                    [start |-> pages[Head(groups[k])].start, end |-> pages[Last(groups[k])].end,
                                     numbers |-> groups[k]]]
  BY AllGrouped
<1> DEFINE m == Len(groups)
<1>4. groups # << >> /\ FlattenSeq(groups) = [i \in 1..n |-> i]
  BY <1>1, <1>3, GroupsRun
<1>5. groups \in Seq(Seq(Nat)) /\ m \in Nat \ {0} /\ DOMAIN groups = 1..m
  BY <1>3, <1>4 DEF GroupedSoFar
<1>6. \A i, j \in 1..m : i < j => groups[i][1] < groups[j][1]
  BY <1>3, GroupsAscend
<1> HIDE DEF m, n, chunks
<1>7. ASSUME NEW k \in 1..m
      PROVE  /\ groups[k] \in Seq(Nat) /\ Len(groups[k]) \in Nat \ {0}
             /\ groups[k][1] \in Nat \ {0} /\ groups[k][1] + Len(groups[k]) <= n + 1
             /\ Head(groups[k]) = groups[k][1] /\ Last(groups[k]) = groups[k][1] + Len(groups[k]) - 1
             /\ Len(groups[k]) = 1 \/ pages[Last(groups[k])].end - pages[groups[k][1]].start <= budget
             /\ k < m => /\ groups[k + 1][1] = groups[k][1] + Len(groups[k])
                         /\ pages[groups[k + 1][1]].end - pages[groups[k][1]].start > budget
  <2>1. Group(pages, budget, n, groups[k]) /\ (k < m => NextGroup(pages, budget, groups[k], groups[k + 1]))
    BY <1>3 DEF GroupedSoFar, m
  <2> DEFINE group == groups[k]
             size == Len(group)
  <2>2. /\ group \in Seq(Nat) /\ size > 0 /\ group[1] > 0 /\ group[1] + size <= n + 1
        /\ \A i \in 1..size : group[i] = group[1] + i - 1
        /\ size = 1 \/ pages[group[1] + size - 1].end - pages[group[1]].start <= budget
    BY <2>1 DEF Group
  <2> HIDE DEF group
  <2>3. size \in Nat \ {0} /\ group[1] \in Nat \ {0} /\ group # << >> /\ Head(group) = group[1]
    BY <2>2
  <2>4. Last(group) = group[1] + size - 1
    <3>1. size \in 1..size
      BY <2>3
    <3> QED BY <2>2, <3>1 DEF Last
  <2> QED BY <2>1, <2>2, <2>3, <2>4 DEF NextGroup, group
<1>8. /\ DOMAIN chunks = 1..m /\ Len(chunks) = m
      /\ \A k \in 1..m : /\ chunks[k].numbers = groups[k] /\ chunks[k].start = pages[groups[k][1]].start
                         /\ chunks[k].end = pages[Last(groups[k])].end
      /\ chunks = [k \in 1..m |-> chunks[k]]
  <2>1. /\ DOMAIN chunks = 1..m
        /\ \A k \in 1..m : chunks[k] = [start |-> pages[Head(groups[k])].start, end |-> pages[Last(groups[k])].end,
                                        numbers |-> groups[k]]
        /\ chunks = [k \in 1..m |-> chunks[k]]
    BY <1>3, <1>5
  <2>2. Len(chunks) = m
    BY <1>5, <2>1
  <2>3. ASSUME NEW k \in 1..m
        PROVE  /\ chunks[k].numbers = groups[k] /\ chunks[k].start = pages[groups[k][1]].start
               /\ chunks[k].end = pages[Last(groups[k])].end
    <3>1. Head(groups[k]) = groups[k][1]
      BY <1>7
    <3> QED BY <2>1, <3>1
  <2> QED BY <2>1, <2>2, <2>3
<1>9. \A k \in 1..m : groups[k][1] \in 1..n /\ Last(groups[k]) \in 1..n
  <2> SUFFICES ASSUME NEW k \in 1..m PROVE groups[k][1] \in 1..n /\ Last(groups[k]) \in 1..n
    OBVIOUS
  <2>1. PICK x \in Nat \ {0}, y \in Nat \ {0} : x = groups[k][1] /\ y = Len(groups[k])
    BY <1>7
  <2>2. x + y <= n + 1 /\ Last(groups[k]) = x + y - 1
    BY <1>7, <2>1
  <2>3. n \in Nat
    BY <1>1
  <2>4. x \in 1..n /\ x + y - 1 \in 1..n
    BY <2>2, <2>3
  <2> QED BY <2>1, <2>2, <2>4
<1>10. Cut(chunks)
  <2>1. \A k \in 1..m : chunks[k].start \in Nat
    BY <1>2, <1>8, <1>9
  <2>2. \A j, k \in 1..m : chunks[j] = chunks[k] => j = k
    <3> SUFFICES ASSUME NEW j \in 1..m, NEW k \in 1..m, chunks[j] = chunks[k] PROVE j = k
      OBVIOUS
    <3>1. groups[j] = groups[k]
      BY <1>8
    <3>2. groups[j][1] \in Nat /\ ~ (groups[j][1] < groups[j][1])
      BY <1>7
    <3>3. ~ (j < k) /\ ~ (k < j)
      BY <1>6, <3>1, <3>2
    <3> QED BY <1>5, <3>3
  <2>3. chunks # << >>
    BY <1>5, <1>8
  <2> QED BY <1>5, <1>8, <2>1, <2>2, <2>3 DEF Cut
<1>11. FlattenSeq([k \in DOMAIN chunks |-> chunks[k].numbers]) = [p \in DOMAIN pages |-> p]
  <2>1. [k \in DOMAIN chunks |-> chunks[k].numbers] = groups
    <3>1. groups = [k \in 1..m |-> groups[k]]
      BY <1>5
    <3>2. [k \in DOMAIN chunks |-> chunks[k].numbers] = [k \in 1..m |-> groups[k]]
      BY <1>8
    <3> QED BY <3>1, <3>2
  <2> QED BY <1>1, <1>4, <2>1
<1>12. ASSUME NEW k \in 1..m
       PROVE  /\ chunks[k].end - chunks[k].start <= budget \/ Len(chunks[k].numbers) = 1
              /\ k < Len(chunks) =>
                    /\ chunks[k].end = chunks[k + 1].start
                    /\ pages[Head(chunks[k + 1].numbers)].end - chunks[k].start > budget
  <2>1. chunks[k].end - chunks[k].start <= budget \/ Len(chunks[k].numbers) = 1
    BY <1>7, <1>8
  <2>2. ASSUME k < m
        PROVE  /\ chunks[k].end = chunks[k + 1].start
               /\ pages[Head(chunks[k + 1].numbers)].end - chunks[k].start > budget
    <3>1. k + 1 \in 1..m
      BY <1>5, <2>2
    <3>2. groups[k + 1][1] = Last(groups[k]) + 1
      <4>1. PICK x \in Nat \ {0}, y \in Nat \ {0} : x = groups[k][1] /\ y = Len(groups[k])
        BY <1>7
      <4>2. Last(groups[k]) = x + y - 1 /\ groups[k + 1][1] = x + y
        BY <1>7, <2>2, <4>1
      <4> QED BY <4>2
    <3>3. pages[Last(groups[k])].end = pages[groups[k + 1][1]].start
      BY <1>1, <1>9, <3>1, <3>2
    <3>4. Head(groups[k + 1]) = groups[k + 1][1]
      BY <1>7, <3>1
    <3>5. chunks[k].end = chunks[k + 1].start
      BY <1>8, <3>1, <3>3
    <3>6. Head(chunks[k + 1].numbers) = groups[k + 1][1] /\ chunks[k].start = pages[groups[k][1]].start
      BY <1>8, <3>1, <3>4
    <3>7. pages[groups[k + 1][1]].end - pages[groups[k][1]].start > budget
      BY <1>7, <2>2
    <3> QED BY <3>5, <3>6, <3>7
  <2> QED BY <1>8, <2>1, <2>2
<1>13. AllInChunks(pages, budget)
  BY <1>8, <1>11, <1>12 DEF AllInChunks, chunks
<1>14. m <= n
  <2> DEFINE T == {k \in 0..m : k = 0 \/ groups[k][1] >= k}
  <2>1. T \in SUBSET (0..m) /\ 0 \in T
    BY <1>5
  <2>2. ASSUME NEW k \in 1..m, k - 1 \in T PROVE k \in T
    <3>1. groups[k][1] \in Nat \ {0} /\ k \in Nat
      <4>1. groups[k][1] \in Nat \ {0}
        BY <1>7
      <4>2. k \in Nat
        BY <1>5
      <4> QED BY <4>1, <4>2
    <3>2. CASE k = 1
      BY <1>5, <3>1, <3>2
    <3>3. CASE k # 1
      <4>1. k - 1 \in 1..m /\ k - 1 < k
        BY <1>5, <3>3
      <4>2. groups[k - 1][1] \in Nat /\ groups[k - 1][1] >= k - 1 /\ groups[k - 1][1] < groups[k][1]
        BY <1>6, <1>7, <2>2, <3>3, <4>1
      <4> QED BY <3>1, <4>1, <4>2
    <3> QED BY <3>2, <3>3
  <2>3. m \in T
    <3> HIDE DEF T
    <3> QED BY <1>5, <2>1, <2>2, LoopKeeps
  <2>4. groups[m][1] >= m /\ groups[m][1] \in 1..n
    BY <1>5, <1>9, <2>3
  <2> QED BY <1>1, <1>5, <2>4
<1> QED BY <1>8, <1>10, <1>13, <1>14 DEF chunks, n

\* A criterion is judged on the best, whatever the chunks and whatever it finds in
\* them (select_for_criterion).
THEOREM EveryBestIsShown ==
  ASSUME NEW chunks, Cut(chunks), NEW overlap, \A k \in DOMAIN chunks : overlap[k] \in Nat
  PROVE  BestOf(chunks, overlap)
<1> DEFINE n == Len(chunks)
           D == 1..n
           A == [k \in D |-> Ahead(chunks, overlap, k)]
           chosen == {k \in D : Cardinality(A[k]) < TopK}
           before(j, k) == \/ chunks[j].start < chunks[k].start
                           \/ chunks[j].start = chunks[k].start /\ j \in Ahead(chunks, overlap, k)
           B == [k \in chosen |-> {j \in chosen : before(j, k)}]
           given == Selected(chunks, overlap)
           shown == {k \in DOMAIN chunks : Contains(given.chunks, chunks[k])}
<1>1. /\ n \in Nat \ {0} /\ DOMAIN chunks = D /\ chunks = [k \in D |-> chunks[k]]
      /\ \A k \in D : chunks[k].start \in Nat /\ overlap[k] \in Nat
      /\ \A j, k \in D : chunks[j] = chunks[k] => j = k
  <2>1. PICK m \in Nat : DOMAIN chunks = 1..m /\ m = Len(chunks) /\ chunks = [k \in 1..m |-> chunks[k]]
    BY DEF Cut
  <2>2. m # 0
    <3> SUFFICES ASSUME m = 0 PROVE FALSE
      OBVIOUS
    <3>1. chunks = [k \in 1..0 |-> chunks[k]] /\ 1..0 = {}
      BY <2>1
    <3>2. chunks = << >>
      BY <3>1
    <3> QED BY <3>2 DEF Cut
  <2> QED BY <2>1, <2>2 DEF Cut
<1>2. TopK \in Nat
  BY ProvenanceAssumption
<1>3. CASE n = 1
  <2>1. given = [chunks |-> chunks, selected |-> FALSE]
    BY <1>3 DEF Selected
  <2>2. given.chunks = chunks /\ given.selected = FALSE
    BY <2>1
  <2> HIDE DEF given
  <2>3. shown = {1}
    <3>1. DOMAIN chunks = 1..1
      BY <1>1, <1>3
    <3>2. Contains(given.chunks, chunks[1])
      BY <2>2, <3>1 DEF Contains
    <3> QED BY <3>1, <3>2
  <2>4. Cardinality({1}) = 1
    BY FS_Singleton
  <2> HIDE DEF shown
  <2>5. \A i, j \in DOMAIN given.chunks : ~ (i < j)
    BY <1>1, <1>3, <2>2
  <2>6. DOMAIN chunks \ shown = {}
    BY <1>1, <1>3, <2>3
  <2>7. Len(given.chunks) = 1 /\ Cardinality(shown) = 1
    BY <1>3, <2>2, <2>3, <2>4
  <2>8. /\ Len(given.chunks) = Cardinality(shown)
        /\ \A i, j \in DOMAIN given.chunks : i < j => given.chunks[i].start <= given.chunks[j].start
        /\ \A k \in shown, j \in DOMAIN chunks \ shown : overlap[k] >= overlap[j]
    BY <2>5, <2>6, <2>7
  <2>9. Cardinality(shown) = IF Len(chunks) > 1 /\ Len(chunks) > TopK THEN TopK ELSE Len(chunks)
    BY <1>3, <2>7
  <2>10. given.selected = (Len(chunks) > 1)
    <3>1. (Len(chunks) > 1) = FALSE
      BY <1>3
    <3> QED BY <2>2, <3>1
  <2> QED BY <2>8, <2>9, <2>10 DEF BestOf, given, shown
<1>4. CASE n # 1
  <2> HIDE DEF n
  <2>0. n > 1
    BY <1>1, <1>4
  <2>1. \A j, k \in D : j \in A[k] <=> overlap[j] > overlap[k] \/ (overlap[j] = overlap[k] /\ j < k)
    BY <1>1 DEF Ahead
  <2>2. IsFiniteSet(D) /\ Cardinality(D) = n
    <3>1. 1 \in Int /\ n \in Int
      BY <1>1
    <3> QED BY <1>1, <3>1, FS_Interval
  <2>3. Ordered(D, A)
    <3>1. A \in [D -> SUBSET D]
      BY <1>1 DEF Ahead
    <3> HIDE DEF A
    <3>2. \A j, k \in D : j # k => j \in A[k] \/ k \in A[j]
      BY <1>1, <2>1
    <3>3. \A k \in D : k \notin A[k]
      BY <1>1, <2>1
    <3>4. ASSUME NEW j \in D, NEW k \in D, j \in A[k], NEW i \in A[j] PROVE i \in A[k]
      <4>1. i \in D
        BY <3>1
      <4> QED BY <1>1, <2>1, <3>4, <4>1
    <3> HIDE DEF D
    <3> QED BY <2>2, <3>1, <3>2, <3>3, <3>4 DEF Ordered
  <2> DEFINE c == Cardinality(chosen)
  <2>4. /\ IsFiniteSet(chosen) /\ c = IF TopK <= n THEN TopK ELSE n
        /\ \A k \in chosen : A[k] \subseteq chosen
    <3> HIDE DEF A, D
    <3> QED BY <1>2, <2>2, <2>3, FirstByRank
  <2> HIDE DEF A
  <2>5. Ordered(chosen, B)
    <3>1. \A j, k \in D : before(j, k) <=> \/ chunks[j].start < chunks[k].start
                                           \/ chunks[j].start = chunks[k].start /\ j \in A[k]
      BY DEF A
    <3>2. A \in [D -> SUBSET D] /\ (\A k \in D : k \notin A[k])
          /\ (\A j, k \in D : j # k => j \in A[k] \/ k \in A[j])
          /\ (\A j, k \in D : j \in A[k] => A[j] \subseteq A[k])
      BY <2>3 DEF Ordered
    <3> HIDE DEF before
    <3>3. \A k \in D : ~ before(k, k)
      BY <1>1, <3>1, <3>2
    <3>4. \A j, k \in D : j # k => before(j, k) \/ before(k, j)
      <4> SUFFICES ASSUME NEW j \in D, NEW k \in D, j # k PROVE before(j, k) \/ before(k, j)
        OBVIOUS
      <4>1. chunks[j].start \in Nat /\ chunks[k].start \in Nat
        BY <1>1
      <4>2. \/ chunks[j].start < chunks[k].start \/ chunks[k].start < chunks[j].start
            \/ chunks[j].start = chunks[k].start
        BY <4>1
      <4> QED BY <3>1, <3>2, <4>2
    <3>5. \A i, j, k \in D : before(i, j) /\ before(j, k) => before(i, k)
      <4> SUFFICES ASSUME NEW i \in D, NEW j \in D, NEW k \in D, before(i, j), before(j, k) PROVE before(i, k)
        OBVIOUS
      <4>1. chunks[i].start \in Nat /\ chunks[j].start \in Nat /\ chunks[k].start \in Nat
        BY <1>1
      <4>2. \/ chunks[i].start < chunks[k].start
            \/ chunks[i].start = chunks[k].start /\ i \in A[j] /\ j \in A[k]
        BY <3>1, <4>1
      <4> QED BY <3>1, <3>2, <4>2
    <3>6. B \in [chosen -> SUBSET chosen] /\ \A j, k \in chosen : j \in B[k] <=> before(j, k)
      <4> HIDE DEF chosen
      <4> QED OBVIOUS
    <3>7. \A k \in chosen : k \in D
      OBVIOUS
    <3> HIDE DEF chosen, B, D
    <3>8. \A j, k \in chosen : j \in B[k] => B[j] \subseteq B[k]
      BY <3>5, <3>6, <3>7
    <3> QED BY <2>4, <3>3, <3>4, <3>6, <3>7, <3>8 DEF Ordered
  <2> DEFINE placed == Listing(chosen, B)
  <2>6. /\ c \in Nat /\ placed \in [1..c -> chosen]
        /\ \A k \in chosen : \E i \in 1..c : placed[i] = k
        /\ \A i, j \in 1..c : i < j <=> placed[i] \in B[placed[j]]
    <3> HIDE DEF chosen, B
    <3> QED BY <2>5, ListedByRank
  <2> DEFINE shows == [i \in DOMAIN placed |-> chunks[placed[i]]]
  <2>7. given = [chunks |-> shows, selected |-> TRUE]
    <3>1. chosen = {k \in DOMAIN chunks : Cardinality(Ahead(chunks, overlap, k)) < TopK}
      BY <1>1 DEF A
    <3> DEFINE list == Ranked(chosen, LAMBDA j, k : \/ chunks[j].start < chunks[k].start
                                                    \/ /\ chunks[j].start = chunks[k].start
                                                       /\ j \in Ahead(chunks, overlap, k))
    <3>2. list = placed
      <4> DEFINE first(i) == CHOOSE p \in chosen : Cardinality({q \in chosen : before(q, p)}) = i - 1
                 second(i) == CHOOSE p \in chosen : Cardinality(B[p]) = i - 1
      <4>1. \A p \in chosen : B[p] = {q \in chosen : before(q, p)}
        OBVIOUS
      <4>2. list = [i \in 1..c |-> first(i)]
        BY DEF Ranked
      <4> HIDE DEF B, before, chosen
      <4>3. \A i \in 1..c : first(i) = second(i)
        BY <4>1
      <4>4. placed = [i \in 1..c |-> second(i)]
        BY DEF Listing
      <4> HIDE DEF first, second
      <4> QED BY <4>2, <4>3, <4>4
    <3> HIDE DEF placed, chosen
    <3>3. ~ (Len(chunks) <= 1)
      BY <1>1, <2>0 DEF n
    <3> QED BY <3>1, <3>2, <3>3 DEF Selected
  <2>8. given.chunks = shows /\ given.selected = TRUE
    BY <2>7
  <2>9. /\ DOMAIN shows = 1..c /\ Len(shows) = c
        /\ \A i \in 1..c : shows[i] = chunks[placed[i]] /\ placed[i] \in chosen
    <3> HIDE DEF c, placed
    <3>1. DOMAIN placed = 1..c
      BY <2>6
    <3> QED BY <2>6, <3>1
  <2> HIDE DEF given, placed, shows
  <2>10. shown = chosen
    <3>1. \A k \in D : (\E i \in 1..c : shows[i] = chunks[k]) <=> k \in chosen
      <4> SUFFICES ASSUME NEW k \in D PROVE (\E i \in 1..c : shows[i] = chunks[k]) <=> k \in chosen
        OBVIOUS
      <4>1. ASSUME NEW i \in 1..c, shows[i] = chunks[k] PROVE k \in chosen
        <5>1. chunks[placed[i]] = chunks[k] /\ placed[i] \in chosen /\ placed[i] \in D
          BY <2>9, <4>1
        <5> HIDE DEF c, chosen
        <5>2. placed[i] = k
          BY <1>1, <5>1
        <5> QED BY <5>1, <5>2
      <4>2. ASSUME k \in chosen PROVE \E i \in 1..c : shows[i] = chunks[k]
        <5> HIDE DEF c, chosen, B
        <5> QED BY <2>6, <2>9, <4>2
      <4> HIDE DEF c, chosen
      <4> QED BY <4>1, <4>2
    <3>2. \A k \in D : Contains(given.chunks, chunks[k]) <=> \E i \in 1..c : shows[i] = chunks[k]
      <4> HIDE DEF c
      <4> QED BY <2>8, <2>9 DEF Contains
    <3> QED BY <1>1, <3>1, <3>2
  <2>11. \A i, j \in 1..c : i < j => shows[i].start <= shows[j].start
    <3> SUFFICES ASSUME NEW i \in 1..c, NEW j \in 1..c, i < j PROVE shows[i].start <= shows[j].start
      OBVIOUS
    <3>1. placed[i] \in B[placed[j]] /\ placed[i] \in chosen /\ placed[j] \in chosen
      <4> HIDE DEF c, chosen, B
      <4> QED BY <2>6, <2>9
    <3>2. before(placed[i], placed[j]) /\ placed[i] \in D /\ placed[j] \in D
      BY <3>1
    <3>3. chunks[placed[i]].start \in Nat /\ chunks[placed[j]].start \in Nat
      BY <1>1, <3>2
    <3> QED BY <2>9, <3>2, <3>3
  <2>12. \A k \in chosen, j \in D \ chosen : overlap[k] >= overlap[j]
    <3> SUFFICES ASSUME NEW k \in chosen, NEW j \in D \ chosen PROVE overlap[k] >= overlap[j]
      OBVIOUS
    <3>1. j \notin A[k] /\ k \in D /\ j \in D
      BY <2>4
    <3> QED BY <1>1, <2>1, <3>1
  <2> HIDE DEF chosen, c, shown, D
  <2>13. /\ Len(given.chunks) = Cardinality(shown)
         /\ \A i, j \in DOMAIN given.chunks : i < j => given.chunks[i].start <= given.chunks[j].start
         /\ \A k \in shown, j \in DOMAIN chunks \ shown : overlap[k] >= overlap[j]
    BY <1>1, <2>8, <2>9, <2>10, <2>11, <2>12 DEF c
  <2>14. Cardinality(shown) = IF Len(chunks) > 1 /\ Len(chunks) > TopK THEN TopK ELSE Len(chunks)
    BY <1>1, <1>2, <2>0, <2>4, <2>10 DEF c, n
  <2>15. given.selected = (Len(chunks) > 1)
    BY <2>0, <2>8 DEF n
  <2> QED BY <2>13, <2>14, <2>15 DEF BestOf, given, shown
<1> QED BY <1>3, <1>4

\* Pages of any lengths are in a row.
LEMMA PagesAreInARow ==
  ASSUME NEW n \in Nat \ {0}, NEW lengths \in [1..n -> Nat]
  PROVE  InARow(PagesOf(lengths)) /\ Len(PagesOf(lengths)) = n
<1> DEFINE Body(f) == [k \in 0..n |-> IF k = 0 THEN 1 ELSE f[k - 1] + lengths[k]]
           end == CHOOSE f : f = Body(f)
           W == [k \in 0..n |-> Nat]
           step == [k \in 1..n |-> [before \in Nat |-> before + lengths[k]]]
           base == 1
           pages == PagesOf(lengths)
<1>1. \A k \in 1..n : lengths[k] \in Nat
  OBVIOUS
<1>2. Len(lengths) = n
  OBVIOUS
<1>3. PICK f : IsChain(f, n, W, base, step)
  <2>1. /\ n \in Nat /\ base \in W[0] /\ \A k \in 1..n : W[k] = Nat /\ W[k - 1] = Nat
    OBVIOUS
  <2>2. \A k \in 1..n : \A v \in Nat : step[k][v] \in Nat
    BY <1>1
  <2> HIDE DEF W, base, step
  <2>3. Chained(n, W, base, step)
    BY <2>1, <2>2 DEF Chained
  <2> QED BY <2>3, ChainExists
<1>4. /\ f = [k \in 0..n |-> f[k]] /\ \A k \in 0..n : f[k] \in Nat
      /\ f[0] = 1 /\ \A k \in 1..n : f[k] = f[k - 1] + lengths[k]
  <2>1. /\ f = [k \in 0..n |-> f[k]] /\ \A k \in 0..n : f[k] \in W[k]
        /\ f[0] = base /\ \A k \in 1..n : f[k] = step[k][f[k - 1]]
    BY <1>3 DEF IsChain
  <2>2. \A k \in 0..n : f[k] \in Nat
    BY <2>1
  <2>3. \A k \in 1..n : k - 1 \in 0..n
    OBVIOUS
  <2>4. \A k \in 1..n : f[k] = f[k - 1] + lengths[k]
    BY <2>1, <2>2, <2>3
  <2> QED BY <2>1, <2>2, <2>4
<1>5. f = Body(f)
  <2>1. \A k \in 0..n : k = 0 \/ k \in 1..n
    OBVIOUS
  <2>2. \A k \in 0..n : f[k] = IF k = 0 THEN 1 ELSE f[k - 1] + lengths[k]
    BY <1>4, <2>1
  <2> QED BY <1>4, <2>2
<1>6. end = Body(end)
  BY <1>5
<1> HIDE DEF end
<1>7. /\ end[0] = 1
      /\ \A k \in 1..n : end[k] = end[k - 1] + lengths[k]
  <2>1. \A k \in 0..n : end[k] = IF k = 0 THEN 1 ELSE end[k - 1] + lengths[k]
    BY <1>6
  <2> QED BY <2>1
<1>8. \A k \in 0..n : end[k] \in Nat
  <2> SUFFICES ASSUME NEW k \in 0..n PROVE end[k] \in Nat
    OBVIOUS
  <2> DEFINE T == {i \in 0..k : end[i] \in Nat}
  <2>1. T \in SUBSET (0..k) /\ 0 \in T /\ k \in Nat
    BY <1>7
  <2>2. ASSUME NEW i \in 1..k, i - 1 \in T PROVE i \in T
    <3>1. i \in 1..n /\ end[i - 1] \in Nat
      BY <2>2
    <3> QED BY <1>1, <1>7, <3>1
  <2>3. k \in T
    <3> HIDE DEF T
    <3> QED BY <2>1, <2>2, LoopKeeps
  <2> QED BY <2>3
<1>9. pages = [k \in 1..n |-> [start |-> end[k - 1], end |-> end[k]]]
  BY <1>2 DEF PagesOf, end
<1> HIDE DEF pages
<1>10. /\ \A k \in 1..n : pages[k].start = end[k - 1] /\ pages[k].end = end[k]
       /\ DOMAIN pages = 1..n
  BY <1>9
<1>11. pages \in Seq([start : Nat, end : Nat]) /\ Len(pages) = n
  <2> DEFINE R == [start : Nat, end : Nat]
  <2>1. \A k \in 1..n : [start |-> end[k - 1], end |-> end[k]] \in R
    BY <1>8
  <2> HIDE DEF R
  <2>2. pages \in [1..n -> R]
    BY <1>9, <2>1
  <2>3. \A w \in [1..n -> R] : w \in Seq(R) /\ Len(w) = n
    OBVIOUS
  <2> QED BY <2>2, <2>3 DEF R
<1>12. \A k \in 1..n : pages[k].start <= pages[k].end
  <2> SUFFICES ASSUME NEW k \in 1..n PROVE pages[k].start <= pages[k].end
    OBVIOUS
  <2>1. k - 1 \in 0..n
    OBVIOUS
  <2> QED BY <1>1, <1>7, <1>8, <1>10, <2>1
<1>13. \A k \in 1..n : k + 1 \in 1..n => pages[k].end = pages[k + 1].start
  <2> SUFFICES ASSUME NEW k \in 1..n, k + 1 \in 1..n PROVE pages[k].end = pages[k + 1].start
    OBVIOUS
  <2>1. (k + 1) - 1 = k
    OBVIOUS
  <2> QED BY <1>10, <2>1
<1>14. pages # << >>
  BY <1>11
<1> QED BY <1>10, <1>11, <1>12, <1>13, <1>14 DEF InARow, pages

\* Every question about chunks is of pages in a row, and of how many of the terms
\* each of as many chunks as there can be has.
ChunksAsked ==
    topic = "chunks" => /\ InARow(input.pages) /\ input.budget \in Nat
                        /\ \A k \in 1..Len(input.pages) : input.overlap[k] \in Nat

\* The questions of the runs are such.
LEMMA ChunksAreAsked == Spec => []ChunksAsked
<1>1. Init => ChunksAsked
  BY DEF Init, ChunksAsked
<1>2. AskChunks => ChunksAsked'
  <2> SUFFICES ASSUME AskChunks
               PROVE  /\ InARow(input'.pages) /\ input'.budget \in Nat
                      /\ \A k \in 1..Len(input'.pages) : input'.overlap[k] \in Nat
    BY DEF ChunksAsked
  <2>0. PICK n \in 1..4 : \E lengths \in [1..n -> 0..3], overlap \in [1..n -> 0..2], budget \in 1..4 :
            input' = [pages |-> PagesOf(lengths), overlap |-> overlap, budget |-> budget]
    BY DEF AskChunks
  <2>1. PICK lengths \in [1..n -> 0..3], overlap \in [1..n -> 0..2], budget \in 1..4 :
            input' = [pages |-> PagesOf(lengths), overlap |-> overlap, budget |-> budget]
    BY <2>0
  <2>2. input'.pages = PagesOf(lengths) /\ input'.overlap = overlap /\ input'.budget = budget
    BY <2>1
  <2>3. n \in Nat \ {0} /\ lengths \in [1..n -> Nat] /\ budget \in Nat /\ \A k \in 1..n : overlap[k] \in Nat
    OBVIOUS
  <2>4. InARow(PagesOf(lengths)) /\ Len(PagesOf(lengths)) = n
    BY <2>3, PagesAreInARow
  <2> QED BY <2>2, <2>3, <2>4
<1>3. Next \/ UNCHANGED vars => (topic' = "chunks" => AskChunks \/ UNCHANGED vars)
  BY DEF Next, Ask, AskRules, AskTexts, AskQuotes, AskChunks, AskMerges, AskScans, AskFiles, AskAnchors,
         AskDrafts, AskCosts, AskPanels, AskRubrics, AskBatches, AskRates
<1>4. ChunksAsked /\ [Next]_vars => ChunksAsked'
  BY <1>2, <1>3 DEF ChunksAsked, vars
<1> QED BY <1>1, <1>4, PTL DEF Spec

\* Nothing of their documents is lost, and of their chunks the best are shown.
THEOREM BestAlwaysShown == Spec => []BestAreShown
<1>1. ASSUME ChunksAsked, topic = "chunks"
      PROVE  /\ AllInChunks(input.pages, input.budget)
             /\ BestOf(ByPageGroups(input.pages, input.budget), input.overlap)
  <2> DEFINE chunks == ByPageGroups(input.pages, input.budget)
  <2>1. /\ InARow(input.pages) /\ input.budget \in Nat
        /\ \A k \in 1..Len(input.pages) : input.overlap[k] \in Nat
    BY <1>1 DEF ChunksAsked
  <2>2. AllInChunks(input.pages, input.budget) /\ Cut(chunks) /\ Len(chunks) <= Len(input.pages)
    BY <2>1, EveryPageIsInAChunk
  <2>3. Len(input.pages) \in Nat
    <3> DEFINE R == [start : Nat, end : Nat]
    <3>1. input.pages \in Seq(R)
      BY <2>1 DEF InARow
    <3> HIDE DEF R
    <3> QED BY <3>1
  <2> HIDE DEF chunks
  <2>4. \A k \in DOMAIN chunks : k \in 1..Len(input.pages)
    BY <2>2, <2>3 DEF Cut
  <2>5. BestOf(chunks, input.overlap)
    BY <2>1, <2>2, <2>4, EveryBestIsShown
  <2> QED BY <2>2, <2>5 DEF chunks
<1>2. ChunksAsked => BestAreShown
  BY <1>1 DEF BestAreShown
<1> QED BY <1>2, ChunksAreAsked, PTL

=============================================================================
