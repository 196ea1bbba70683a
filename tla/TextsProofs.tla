----------------------------- MODULE TextsProofs -----------------------------
(***************************************************************************)
(* What becomes of a text and of what is quoted of it, for every text, all *)
(* its pages and every quotation: each character of what is read is one of *)
(* the original's, and what is said of a quotation is true of the document.*)
(***************************************************************************)
EXTENDS EvidenceProofs

-----------------------------------------------------------------------------
(* Texts read. *)

\* Positions in their order, each once.
LEMMA InTheirOrder ==
  ASSUME NEW n \in Nat, NEW S \in SUBSET (1..n)
  PROVE  /\ Cardinality(S) \in Nat /\ InOrder(S) \in [1..Cardinality(S) -> S]
         /\ \A p \in S : \E k \in 1..Cardinality(S) : InOrder(S)[k] = p
         /\ \A j, k \in 1..Cardinality(S) : j < k <=> InOrder(S)[j] < InOrder(S)[k]
<1> DEFINE A == [p \in S |-> {q \in S : q < p}]
<1>1. Ordered(S, A)
  <2>1. IsFiniteSet(1..n)
    <3>1. 1 \in Int /\ n \in Int
      OBVIOUS
    <3> QED BY <3>1, FS_Interval
  <2>2. IsFiniteSet(S)
    BY <2>1, FS_Subset
  <2>3. A \in [S -> SUBSET S]
    OBVIOUS
  <2>4. \A j, k \in S : j # k => j \in A[k] \/ k \in A[j]
    OBVIOUS
  <2>5. \A k \in S : k \notin A[k]
    OBVIOUS
  <2>6. ASSUME NEW j \in S, NEW k \in S, j \in A[k], NEW i \in A[j] PROVE i \in A[k]
    <3>1. i \in S /\ i < j /\ j < k
      BY <2>6
    <3> QED BY <3>1
  <2>7. \A j, k \in S : j \in A[k] => A[j] \subseteq A[k]
    <3> HIDE DEF A
    <3> QED BY <2>6
  <2> HIDE DEF A
  <2> QED BY <2>2, <2>3, <2>4, <2>5, <2>7 DEF Ordered
<1>2. InOrder(S) = Listing(S, A)
  <2> DEFINE first(k) == CHOOSE p \in S : Cardinality({q \in S : q < p}) = k - 1
             second(k) == CHOOSE p \in S : Cardinality(A[p]) = k - 1
  <2>1. \A p \in S : A[p] = {q \in S : q < p}
    OBVIOUS
  <2>2. \A k \in 1..Cardinality(S) : first(k) = second(k)
    BY <2>1
  <2>3. InOrder(S) = [k \in 1..Cardinality(S) |-> first(k)]
    BY DEF InOrder, Ranked
  <2> HIDE DEF A
  <2>4. Listing(S, A) = [k \in 1..Cardinality(S) |-> second(k)]
    BY DEF Listing
  <2> HIDE DEF first, second
  <2> QED BY <2>2, <2>3, <2>4
<1>3. /\ Cardinality(S) \in Nat /\ InOrder(S) \in [1..Cardinality(S) -> S]
      /\ \A p \in S : \E k \in 1..Cardinality(S) : InOrder(S)[k] = p
      /\ \A i, j \in 1..Cardinality(S) : i < j <=> InOrder(S)[i] \in A[InOrder(S)[j]]
  <2> HIDE DEF A
  <2> QED BY <1>1, <1>2, ListedByRank
<1>4. ASSUME NEW j \in 1..Cardinality(S), NEW k \in 1..Cardinality(S)
      PROVE  j < k <=> InOrder(S)[j] < InOrder(S)[k]
  <2>1. InOrder(S)[j] \in S /\ InOrder(S)[k] \in S
    BY <1>3
  <2> QED BY <1>3, <2>1
<1> QED BY <1>3, <1>4

\* All positions in their order are the numbers up to the last.
LEMMA AllInOrder ==
  ASSUME NEW n \in Nat
  PROVE  InOrder(1..n) = [k \in 1..n |-> k]
<1>1. \A p \in 1..n : Cardinality({q \in 1..n : q < p}) = p - 1
  <2> SUFFICES ASSUME NEW p \in 1..n PROVE Cardinality({q \in 1..n : q < p}) = p - 1
    OBVIOUS
  <2>1. {q \in 1..n : q < p} = 1..(p - 1)
    OBVIOUS
  <2>2. 1 \in Int /\ p - 1 \in Int /\ p - 1 >= 0
    OBVIOUS
  <2>3. Cardinality(1..(p - 1)) = p - 1
    BY <2>2, FS_Interval
  <2> QED BY <2>1, <2>3
<1>2. Cardinality(1..n) = n
  <2>1. 1 \in Int /\ n \in Int
    OBVIOUS
  <2> QED BY <2>1, FS_Interval
<1>3. ASSUME NEW k \in 1..n
      PROVE  (CHOOSE p \in 1..n : Cardinality({q \in 1..n : q < p}) = k - 1) = k
  <2>1. \A p \in 1..n : Cardinality({q \in 1..n : q < p}) = k - 1 <=> p = k
    <3> SUFFICES ASSUME NEW p \in 1..n PROVE p - 1 = k - 1 <=> p = k
      BY <1>1
    <3> QED OBVIOUS
  <2> QED BY <2>1
<1> QED BY <1>2, <1>3 DEF InOrder, Ranked

\* Characters, each with the position it came from, which go up.
Marked(m, n) ==
    /\ \E l \in Nat : m = [k \in 1..l |-> [ch |-> m[k].ch, at |-> m[k].at]]
    /\ \A k \in DOMAIN m : m[k].at \in 1..n
    /\ \A j, k \in DOMAIN m : j < k => m[j].at <= m[k].at

\* What it is one of.
LEMMA MarkedIs ==
  ASSUME NEW n, NEW m, Marked(m, n)
  PROVE  /\ Len(m) \in Nat /\ DOMAIN m = 1..Len(m)
         /\ m = [k \in 1..Len(m) |-> [ch |-> m[k].ch, at |-> m[k].at]]
         /\ DOMAIN Chars(m) = 1..Len(m) /\ Len(Chars(m)) = Len(m)
         /\ Chars(m) = [k \in 1..Len(m) |-> m[k].ch]
<1>1. PICK l \in Nat : m = [k \in 1..l |-> [ch |-> m[k].ch, at |-> m[k].at]]
  BY DEF Marked
<1>2. DOMAIN m = 1..l
  BY <1>1
<1>3. Len(m) = l
  BY <1>1
<1>4. Chars(m) = [k \in 1..l |-> m[k].ch]
  BY <1>2 DEF Chars
<1>5. Len(Chars(m)) = l /\ DOMAIN Chars(m) = 1..l
  BY <1>4
<1> QED BY <1>1, <1>2, <1>3, <1>4, <1>5

\* What is kept of a text.
LEMMA KeepKeeps ==
  ASSUME NEW n \in Nat, NEW text, NEW kept \in SUBSET (1..n)
  PROVE  /\ Marked(Keep(text, kept), n)
         /\ Len(Keep(text, kept)) = Cardinality(kept)
         /\ \A k \in DOMAIN Keep(text, kept) :
                /\ Keep(text, kept)[k].at = InOrder(kept)[k]
                /\ Keep(text, kept)[k].ch = text[InOrder(kept)[k]]
<1> DEFINE l == Cardinality(kept)
           f == InOrder(kept)
           m == Keep(text, kept)
<1>1. l \in Nat /\ f \in [1..l -> kept] /\ \A j, k \in 1..l : j < k <=> f[j] < f[k]
  BY InTheirOrder
<1> HIDE DEF f, l
<1>2. m = [k \in 1..l |-> [ch |-> text[f[k]], at |-> f[k]]]
  BY <1>1 DEF Keep, f
<1> HIDE DEF m
<1>3. /\ DOMAIN m = 1..l /\ Len(m) = l
      /\ \A k \in 1..l : m[k] = [ch |-> text[f[k]], at |-> f[k]]
  BY <1>1, <1>2
<1>4. \A k \in 1..l : f[k] \in 1..n
  BY <1>1
<1>5. m = [k \in 1..l |-> [ch |-> m[k].ch, at |-> m[k].at]]
  <2>1. \A k \in 1..l : [ch |-> m[k].ch, at |-> m[k].at] = [ch |-> text[f[k]], at |-> f[k]]
    BY <1>3
  <2> QED BY <1>2, <2>1
<1>6. ASSUME NEW j \in 1..l, NEW k \in 1..l, j < k PROVE m[j].at <= m[k].at
  <2>1. f[j] < f[k] /\ f[j] \in 1..n /\ f[k] \in 1..n
    BY <1>1, <1>4, <1>6
  <2> QED BY <1>3, <2>1
<1>7. \A k \in 1..l : m[k].at \in 1..n
  BY <1>3, <1>4
<1>8. Marked(m, n)
  BY <1>1, <1>3, <1>5, <1>6, <1>7 DEF Marked
<1> QED BY <1>3, <1>8 DEF m, l, f

\* What is made of a marked text by keeping some of it.
Picked(m, done, kept) == m = [k \in 1..Cardinality(kept) |-> done[InOrder(kept)[k]]]

LEMMA PickedIs ==
  ASSUME NEW n, NEW done, Marked(done, n), NEW kept \in SUBSET DOMAIN done
  PROVE  /\ Picked(After(done, Keep(Chars(done), kept)), done, kept)
         /\ Marked(After(done, Keep(Chars(done), kept)), n)
<1> DEFINE L == Len(done)
           l == Cardinality(kept)
           f == InOrder(kept)
           step == Keep(Chars(done), kept)
           m == After(done, step)
<1>1. /\ L \in Nat /\ DOMAIN done = 1..L
      /\ done = [k \in 1..L |-> [ch |-> done[k].ch, at |-> done[k].at]]
      /\ Chars(done) = [k \in 1..L |-> done[k].ch]
  BY MarkedIs
<1>2. /\ \A k \in 1..L : done[k].at \in 1..n
      /\ \A j, k \in 1..L : j < k => done[j].at <= done[k].at
  BY <1>1 DEF Marked
<1> HIDE DEF L
<1>3. kept \in SUBSET (1..L)
  BY <1>1
<1>4. /\ l \in Nat /\ f \in [1..l -> kept] /\ \A j, k \in 1..l : j < k <=> f[j] < f[k]
  BY <1>1, <1>3, InTheirOrder
<1>5. /\ Len(step) = l /\ DOMAIN step = 1..l
      /\ \A k \in 1..l : step[k].at = f[k] /\ step[k].ch = Chars(done)[f[k]]
  <2>1. Marked(step, L) /\ Len(step) = l /\ \A k \in DOMAIN step : step[k].at = f[k] /\ step[k].ch = Chars(done)[f[k]]
    BY <1>1, <1>3, KeepKeeps
  <2>2. DOMAIN step = 1..Len(step)
    <3> HIDE DEF step
    <3> QED BY <2>1, MarkedIs
  <2> QED BY <2>1, <2>2
<1> HIDE DEF step, l, f
<1>6. \A k \in 1..l : f[k] \in 1..L
  BY <1>3, <1>4
<1>7. \A k \in 1..l : [ch |-> step[k].ch, at |-> done[step[k].at].at] = done[f[k]]
  <2> SUFFICES ASSUME NEW k \in 1..l
               PROVE  [ch |-> step[k].ch, at |-> done[step[k].at].at] = done[f[k]]
    OBVIOUS
  <2>1. f[k] \in 1..L
    BY <1>6
  <2>2. step[k].ch = done[f[k]].ch /\ step[k].at = f[k]
    BY <1>1, <1>5, <2>1
  <2>3. done[f[k]] = [ch |-> done[f[k]].ch, at |-> done[f[k]].at]
    BY <1>1, <2>1
  <2> QED BY <2>2, <2>3
<1>8. m = [k \in 1..l |-> done[f[k]]]
  BY <1>5, <1>7 DEF After
<1> HIDE DEF m
<1>9. m = [k \in 1..l |-> [ch |-> m[k].ch, at |-> m[k].at]]
  <2>1. \A k \in 1..l : m[k] = [ch |-> m[k].ch, at |-> m[k].at]
    <3> SUFFICES ASSUME NEW k \in 1..l PROVE m[k] = [ch |-> m[k].ch, at |-> m[k].at]
      OBVIOUS
    <3>1. m[k] = done[f[k]] /\ f[k] \in 1..L
      BY <1>6, <1>8
    <3>2. done[f[k]] = [ch |-> done[f[k]].ch, at |-> done[f[k]].at]
      BY <1>1, <3>1
    <3> QED BY <3>1, <3>2
  <2>2. m = [k \in 1..l |-> m[k]]
    BY <1>8
  <2> QED BY <2>1, <2>2
<1>10. DOMAIN m = 1..l /\ \A k \in 1..l : m[k].at = done[f[k]].at
  BY <1>8
<1>11. \A k \in 1..l : m[k].at \in 1..n
  BY <1>2, <1>6, <1>10
<1>12. ASSUME NEW j \in 1..l, NEW k \in 1..l, j < k PROVE m[j].at <= m[k].at
  <2>1. f[j] < f[k] /\ f[j] \in 1..L /\ f[k] \in 1..L
    BY <1>4, <1>6, <1>12
  <2> QED BY <1>2, <1>10, <2>1
<1>13. Marked(m, n)
  BY <1>4, <1>9, <1>10, <1>11, <1>12 DEF Marked
<1> QED BY <1>8, <1>13 DEF Picked, m, l, f, step

\* What stands for a character.
LEMMA ReplacementIs ==
  ASSUME NEW c
  PROVE  /\ c = "fi" => Replacement(c) = << "f", "i" >>
         /\ c = "dash" => Replacement(c) = << "-" >>
         /\ c \notin {"fi", "dash"} => Replacement(c) = << c >>
         /\ Len(Replacement(c)) \in {1, 2} /\ DOMAIN Replacement(c) = 1..Len(Replacement(c))
         /\ \A j \in DOMAIN Replacement(c) : Replacement(c)[j] \in {"f", "i", "-", c}
<1>1. CASE c = "fi"
  <2>1. Replacement(c) = << "f", "i" >>
    BY <1>1 DEF Replacement
  <2> QED BY <1>1, <2>1
<1>2. CASE c = "dash"
  <2>1. Replacement(c) = << "-" >>
    BY <1>2 DEF Replacement
  <2> QED BY <1>2, <2>1
<1>3. CASE c \notin {"fi", "dash"}
  <2>1. Replacement(c) = << c >>
    BY <1>3 DEF Replacement
  <2> QED BY <1>3, <2>1
<1> QED BY <1>1, <1>2, <1>3

\* What stands for the first k characters of a text.
Substituted(text, k, m) ==
    /\ \A i \in 1..Len(m) : m[i].at \in 1..k /\ Contains(Replacement(text[m[i].at]), m[i].ch)
    /\ \A i, j \in 1..Len(m) : i < j => m[i].at <= m[j].at
    /\ (\A i \in 1..k : text[i] \notin {"fi", "dash"}) => m = [i \in 1..k |-> [ch |-> text[i], at |-> i]]

LEMMA SubstituteIs ==
  ASSUME NEW n \in Nat, NEW text, text = [i \in 1..n |-> text[i]]
  PROVE  Marked(Substitute(text), n) /\ Substituted(text, n, Substitute(text))
<1> DEFINE Q == {text[i] : i \in 1..n} \cup {"f", "i", "-"}
           R == [ch : Q, at : 1..n]
           seqs == [i \in 1..n |-> [j \in DOMAIN Replacement(text[i]) |-> [ch |-> Replacement(text[i])[j], at |-> i]]]
           m == Substitute(text)
<1>1. DOMAIN text = 1..n /\ m = FlattenSeq(seqs)
  <2>1. DOMAIN text = 1..n
    OBVIOUS
  <2> QED BY <2>1 DEF Substitute
<1>2. ASSUME NEW i \in 1..n
      PROVE  /\ seqs[i] \in Seq(R) /\ Len(seqs[i]) \in {1, 2}
             /\ \A j \in 1..Len(seqs[i]) : seqs[i][j].at = i /\ Contains(Replacement(text[i]), seqs[i][j].ch)
             /\ text[i] \notin {"fi", "dash"} => seqs[i] = << [ch |-> text[i], at |-> i] >>
  <2> DEFINE rep == Replacement(text[i])
             s == [j \in 1..Len(rep) |-> [ch |-> rep[j], at |-> i]]
  <2>1. /\ Len(rep) \in {1, 2} /\ DOMAIN rep = 1..Len(rep)
        /\ \A j \in DOMAIN rep : rep[j] \in {"f", "i", "-", text[i]}
        /\ text[i] \notin {"fi", "dash"} => rep = << text[i] >>
    BY ReplacementIs
  <2>2. seqs[i] = s
    BY <2>1
  <2> HIDE DEF rep, seqs
  <2>3. \A j \in 1..Len(rep) : rep[j] \in Q
    BY <2>1
  <2>4. \A j \in 1..Len(rep) : [ch |-> rep[j], at |-> i] \in R
    BY <2>3
  <2>5. DOMAIN s = 1..Len(rep) /\ Len(s) = Len(rep) /\ \A j \in 1..Len(rep) : s[j] = [ch |-> rep[j], at |-> i]
    BY <2>1
  <2>6. s \in Seq(R)
    <3> HIDE DEF R
    <3>1. s \in [1..Len(rep) -> R]
      BY <2>4
    <3>2. \A l \in Nat : \A w \in [1..l -> R] : w \in Seq(R)
      OBVIOUS
    <3> HIDE DEF s
    <3> QED BY <2>1, <3>1, <3>2
  <2>7. \A j \in 1..Len(rep) : s[j].at = i /\ Contains(rep, s[j].ch)
    BY <2>5 DEF Contains
  <2>8. ASSUME text[i] \notin {"fi", "dash"} PROVE s = << [ch |-> text[i], at |-> i] >>
    <3>1. rep = << text[i] >>
      BY <2>1, <2>8
    <3>2. Len(rep) = 1 /\ rep[1] = text[i]
      BY <3>1
    <3> QED BY <3>2
  <2> HIDE DEF s, R
  <2> QED BY <2>1, <2>2, <2>5, <2>6, <2>7, <2>8 DEF rep
<1> HIDE DEF seqs, R
<1>3. CASE n = 0
  <2>1. seqs = << >>
    BY <1>3 DEF seqs
  <2>2. m = << >>
    <3>1. FlattenSeq(<< >>) = << >>
      BY DEF FlattenSeq
    <3> QED BY <1>1, <2>1, <3>1
  <2> HIDE DEF m
  <2>3. m = [k \in 1..0 |-> [ch |-> m[k].ch, at |-> m[k].at]] /\ Len(m) = 0 /\ DOMAIN m = {} /\ 1..0 = {}
    BY <2>2
  <2>4. Marked(m, n)
    <3>1. \E l \in Nat : m = [k \in 1..l |-> [ch |-> m[k].ch, at |-> m[k].at]]
      <4> DEFINE l == 0
      <4>1. l \in Nat /\ m = [k \in 1..l |-> [ch |-> m[k].ch, at |-> m[k].at]]
        BY <2>3
      <4> HIDE DEF l
      <4> QED BY <4>1
    <3>2. \A k \in DOMAIN m : FALSE
      BY <2>3
    <3> QED BY <3>1, <3>2 DEF Marked
  <2>5. m = [i \in 1..n |-> [ch |-> text[i], at |-> i]]
    BY <1>3, <2>2
  <2>6. Substituted(text, n, m)
    BY <2>3, <2>5 DEF Substituted
  <2> QED BY <2>4, <2>6 DEF m
<1>4. CASE n # 0
  <2>1. seqs \in Seq(Seq(R)) /\ Len(seqs) = n /\ seqs # << >>
    <3>1. seqs \in [1..n -> Seq(R)]
      BY <1>2 DEF seqs
    <3>2. \A w \in [1..n -> Seq(R)] : w \in Seq(Seq(R)) /\ Len(w) = n
      OBVIOUS
    <3> QED BY <1>4, <3>1, <3>2
  <2>2. PICK f : /\ m = f[n] /\ f[1] = seqs[1]
                 /\ \A k \in 2..n : f[k] = f[k - 1] \o seqs[k]
                 /\ \A k \in 1..n : f[k] \in Seq(R)
    <3> HIDE DEF m
    <3> QED BY <1>1, <2>1, FlattenedUp
  <2> HIDE DEF m
  <2> DEFINE T == {k \in 0..n : k = 0 \/ Substituted(text, k, f[k])}
  <2>3. ASSUME NEW k \in 1..n, k - 1 \in T PROVE k \in T
    <3> DEFINE w == seqs[k]
               v == f[k]
    <3>1. /\ w \in Seq(R) /\ Len(w) \in {1, 2} /\ v \in Seq(R)
          /\ \A j \in 1..Len(w) : w[j].at = k /\ Contains(Replacement(text[k]), w[j].ch)
          /\ text[k] \notin {"fi", "dash"} => w = << [ch |-> text[k], at |-> k] >>
      BY <1>2, <2>2
    <3>2. CASE k = 1
      <4>1. v = w
        BY <2>2, <3>2
      <4> HIDE DEF v, w
      <4>2. (\A i \in 1..k : text[i] \notin {"fi", "dash"}) => w = [i \in 1..k |-> [ch |-> text[i], at |-> i]]
        <5> SUFFICES ASSUME text[1] \notin {"fi", "dash"} PROVE w = [i \in 1..1 |-> [ch |-> text[i], at |-> i]]
          BY <3>2
        <5>1. w = << [ch |-> text[1], at |-> 1] >>
          BY <3>1, <3>2
        <5> QED BY <5>1
      <4>3. Substituted(text, k, w)
        BY <3>1, <3>2, <4>2 DEF Substituted
      <4> QED BY <4>1, <4>3 DEF v
    <3>3. CASE k # 1
      <4> DEFINE u == f[k - 1]
      <4>1. k - 1 \in 1..n /\ k \in 2..n /\ k - 1 \in Nat
        BY <3>3
      <4>2. Substituted(text, k - 1, u) /\ u \in Seq(R) /\ v = u \o w
        <5>1. k - 1 = 0 \/ Substituted(text, k - 1, f[k - 1])
          BY <2>3
        <5>2. k - 1 # 0
          BY <3>3
        <5>3. Substituted(text, k - 1, u)
          BY <5>1, <5>2
        <5>4. u \in Seq(R)
          BY <2>2, <4>1
        <5>5. v = u \o w
          BY <2>2, <4>1
        <5> QED BY <5>3, <5>4, <5>5
      <4> HIDE DEF u, v, w
      <4>3. /\ Len(u) \in Nat /\ Len(w) \in Nat /\ Len(v) = Len(u) + Len(w)
            /\ \A i \in 1..Len(u) : v[i] = u[i]
            /\ \A i \in (Len(u) + 1)..Len(v) : v[i] = w[i - Len(u)] /\ i - Len(u) \in 1..Len(w)
        BY <3>1, <4>2
      <4>4. \A i \in 1..Len(v) : i \in 1..Len(u) \/ i \in (Len(u) + 1)..Len(v)
        BY <4>3
      <4>5. \A i \in 1..Len(u) : v[i].at \in 1..(k - 1) /\ Contains(Replacement(text[v[i].at]), v[i].ch)
        BY <4>2, <4>3 DEF Substituted
      <4>6. \A i \in (Len(u) + 1)..Len(v) : v[i].at = k /\ Contains(Replacement(text[v[i].at]), v[i].ch)
        BY <3>1, <4>3
      <4>7. \A i \in 1..Len(v) : v[i].at \in 1..k /\ Contains(Replacement(text[v[i].at]), v[i].ch)
        BY <4>1, <4>4, <4>5, <4>6
      <4>8. ASSUME NEW i \in 1..Len(v), NEW j \in 1..Len(v), i < j PROVE v[i].at <= v[j].at
        <5>1. CASE j \in 1..Len(u)
          <6>1. i \in 1..Len(u)
            BY <4>3, <4>8, <5>1
          <6>2. u[i].at <= u[j].at
            BY <4>2, <4>8, <5>1, <6>1 DEF Substituted
          <6> QED BY <4>3, <5>1, <6>1, <6>2
        <5>2. CASE j \notin 1..Len(u)
          <6>1. v[j].at = k
            BY <4>4, <4>6, <5>2
          <6>2. v[i].at \in 1..k
            BY <4>7
          <6> QED BY <6>1, <6>2
        <5> QED BY <5>1, <5>2
      <4>9. ASSUME \A i \in 1..k : text[i] \notin {"fi", "dash"}
            PROVE  v = [i \in 1..k |-> [ch |-> text[i], at |-> i]]
        <5>1. \A i \in 1..(k - 1) : text[i] \notin {"fi", "dash"}
          <6>1. \A i \in 1..(k - 1) : i \in 1..k
            BY <4>1
          <6> QED BY <4>9, <6>1
        <5>2. u = [i \in 1..(k - 1) |-> [ch |-> text[i], at |-> i]]
          BY <4>2, <5>1 DEF Substituted
        <5>3. w = << [ch |-> text[k], at |-> k] >>
          <6>1. k \in 1..k
            BY <4>1
          <6>2. text[k] \notin {"fi", "dash"}
            BY <4>9, <6>1
          <6> QED BY <3>1, <6>2
        <5>4. Len(u) = k - 1 /\ Len(w) = 1 /\ w[1] = [ch |-> text[k], at |-> k]
          BY <4>1, <5>2, <5>3
        <5>5. Len(v) = k
          BY <4>1, <4>3, <5>4
        <5>6. \A i \in 1..k : v[i] = [ch |-> text[i], at |-> i]
          <6> SUFFICES ASSUME NEW i \in 1..k PROVE v[i] = [ch |-> text[i], at |-> i]
            OBVIOUS
          <6>1. CASE i = k
            <7>1. i \in (Len(u) + 1)..Len(v) /\ i - Len(u) = 1
              BY <4>1, <5>4, <5>5, <6>1
            <7> QED BY <4>3, <5>4, <6>1, <7>1
          <6>2. CASE i # k
            <7>1. i \in 1..(k - 1)
              BY <4>1, <6>2
            <7> QED BY <4>3, <5>2, <5>4, <7>1
          <6> QED BY <6>1, <6>2
        <5>7. v = [i \in 1..Len(v) |-> v[i]]
          BY <3>1
        <5> QED BY <5>5, <5>6, <5>7
      <4>10. Substituted(text, k, v)
        BY <4>7, <4>8, <4>9 DEF Substituted
      <4> QED BY <4>10 DEF v
    <3> QED BY <3>2, <3>3
  <2>4. n \in T
    <3>1. T \in SUBSET (0..n) /\ 0 \in T
      OBVIOUS
    <3> HIDE DEF T
    <3> QED BY <2>3, <3>1, LoopKeeps
  <2>5. Substituted(text, n, m)
    BY <1>4, <2>2, <2>4
  <2>6. m \in Seq(R)
    BY <1>4, <2>2
  <2>7. Len(m) \in Nat /\ DOMAIN m = 1..Len(m) /\ m = [k \in 1..Len(m) |-> m[k]]
    BY <2>6
  <2>8. \A k \in 1..Len(m) : m[k] = [ch |-> m[k].ch, at |-> m[k].at]
    <3>1. \A k \in 1..Len(m) : m[k] \in R
      BY <2>6, <2>7
    <3> QED BY <3>1 DEF R
  <2>9. Marked(m, n)
    <3>1. m = [k \in 1..Len(m) |-> [ch |-> m[k].ch, at |-> m[k].at]]
      BY <2>7, <2>8
    <3>2. /\ \A k \in 1..Len(m) : m[k].at \in 1..n
          /\ \A j, k \in 1..Len(m) : j < k => m[j].at <= m[k].at
      BY <2>5 DEF Substituted
    <3> QED BY <2>7, <3>1, <3>2 DEF Marked
  <2> QED BY <2>5, <2>9 DEF m
<1> QED BY <1>3, <1>4

\* A text nothing is left to do to.
Settled(text) ==
    /\ \E n \in Nat : text = [i \in 1..n |-> text[i]]
    /\ \A i \in DOMAIN text : text[i] \notin {"fi", "dash", "zw", "nl"}
    /\ \A i \in DOMAIN text : text[i] = " " =>
            /\ i - 1 \in DOMAIN text /\ text[i - 1] # " "
            /\ i + 1 \in DOMAIN text /\ text[i + 1] # " "

\* Its characters, each from where it is.
Marks(text) == [i \in DOMAIN text |-> [ch |-> text[i], at |-> i]]

LEMMA SettledStays ==
  ASSUME NEW text, Settled(text)
  PROVE  NormalizeWithMap(text) = Marks(text) /\ Normalize(text) = text
<1>1. PICK n \in Nat : text = [i \in 1..n |-> text[i]]
  BY DEF Settled
<1>2. /\ DOMAIN text = 1..n
      /\ \A i \in 1..n : text[i] \notin {"fi", "dash", "zw", "nl"}
      /\ \A i \in 1..n : text[i] = " " => /\ i - 1 \in 1..n /\ text[i - 1] # " "
                                          /\ i + 1 \in 1..n /\ text[i + 1] # " "
  <2>1. DOMAIN text = 1..n
    BY <1>1
  <2> QED BY <2>1 DEF Settled
<1> DEFINE id == [i \in 1..n |-> [ch |-> text[i], at |-> i]]
<1>3. Substitute(text) = id
  <2>1. Substituted(text, n, Substitute(text))
    BY <1>1, SubstituteIs
  <2> QED BY <1>2, <2>1 DEF Substituted
<1>4. Chars(id) = text /\ DOMAIN id = 1..n
  <2>1. Chars(id) = [i \in 1..n |-> text[i]]
    BY DEF Chars
  <2> QED BY <1>1, <2>1
<1>5. Keep(text, 1..n) = id
  <2>1. InOrder(1..n) = [k \in 1..n |-> k]
    BY AllInOrder
  <2> QED BY <2>1 DEF Keep
<1>6. After(id, id) = id
  BY DEF After
<1> HIDE DEF id
<1>7. RemoveInvisible(text) = id
  <2>1. {i \in DOMAIN text : text[i] # "zw"} = 1..n
    BY <1>2
  <2> QED BY <1>5, <2>1 DEF RemoveInvisible
<1>8. Dehyphenate(text) = id
  <2> DEFINE broken == {i \in DOMAIN text : text[i] = "-" /\ GoesOn(text, i) # {}}
             kept == {p \in DOMAIN text : ~\E i \in broken : p \in i..(Min(GoesOn(text, i)) - 1)}
  <2>1. ASSUME NEW i \in 1..n, NEW f \in GoesOn(text, i) PROVE FALSE
    <3>1. f \in (i + 2)..Len(text) /\ \E k \in (i + 1)..(f - 1) : text[k] = "nl"
      BY DEF GoesOn
    <3>2. PICK k \in (i + 1)..(f - 1) : text[k] = "nl"
      BY <3>1
    <3>3. Len(text) = n
      BY <1>1
    <3>4. k \in 1..n
      BY <3>1, <3>2, <3>3
    <3> QED BY <1>2, <3>2, <3>4
  <2>2. broken = {}
    BY <1>2, <2>1
  <2> HIDE DEF broken
  <2>3. kept = 1..n
    BY <1>2, <2>2
  <2>4. Dehyphenate(text) = Keep(text, kept)
    BY DEF Dehyphenate, broken
  <2> QED BY <1>5, <2>3, <2>4
<1>9. CollapseWhitespace(text) = id
  <2> DEFINE words == {i \in DOMAIN text : text[i] \notin Space}
             between == {i \in DOMAIN text \ words : /\ i > 1 /\ text[i - 1] \notin Space
                                                     /\ \E j \in words : j > i}
             kept == Keep(text, words \cup between)
  <2>1. \A i \in 1..n : i \in words <=> text[i] # " "
    BY <1>2 DEF Space
  <2>2. words \subseteq 1..n
    BY <1>2
  <2>3. ASSUME NEW i \in 1..n, i \notin words PROVE i \in between
    <3>1. i - 1 \in 1..n /\ i + 1 \in 1..n /\ text[i] = " " /\ text[i - 1] # " " /\ text[i + 1] # " "
      BY <1>2, <2>1, <2>3
    <3>2. i > 1 /\ i + 1 > i
      <4>1. i - 1 \in 1..n
        BY <3>1
      <4> QED BY <4>1
    <3>3. text[i - 1] \notin Space /\ i + 1 \in words
      BY <2>1, <3>1, <1>2 DEF Space
    <3> QED BY <1>2, <2>3, <3>2, <3>3
  <2>4. words \cup between = 1..n
    <3>1. between \subseteq 1..n
      BY <1>2
    <3> HIDE DEF words, between
    <3> QED BY <2>2, <2>3, <3>1
  <2> DEFINE result == [k \in DOMAIN kept |-> IF kept[k].at \in words THEN kept[k] ELSE [kept[k] EXCEPT !.ch = " "]]
  <2>5. CollapseWhitespace(text) = result
    BY DEF CollapseWhitespace
  <2>6. kept = id
    <3> HIDE DEF words, between
    <3> QED BY <1>5, <2>4
  <2> HIDE DEF words, kept
  <2>7. \A k \in 1..n : result[k] = [ch |-> text[k], at |-> k]
    <3> SUFFICES ASSUME NEW k \in 1..n PROVE result[k] = [ch |-> text[k], at |-> k]
      OBVIOUS
    <3>1. kept[k] = [ch |-> text[k], at |-> k] /\ k \in DOMAIN kept
      BY <2>6 DEF id
    <3>2. [kept[k] EXCEPT !.ch = " "] = [ch |-> " ", at |-> k]
      <4> DEFINE r == kept[k]
                 s == [r EXCEPT !.ch = " "]
      <4>1. r \in [ch : {text[k]}, at : {k}]
        BY <3>1
      <4> HIDE DEF r
      <4>2. s \in [ch : {" "}, at : {k}]
        BY <4>1
      <4> HIDE DEF s
      <4>3. s = [ch |-> s.ch, at |-> s.at] /\ s.ch = " " /\ s.at = k
        BY <4>2
      <4>4. s = [ch |-> " ", at |-> k]
        BY <4>3
      <4> QED BY <4>4 DEF s, r
    <3>3. k \notin words => text[k] = " "
      BY <2>1
    <3> QED BY <3>1, <3>2, <3>3
  <2>8. result = [k \in 1..n |-> result[k]]
    BY <2>6, <1>4
  <2> HIDE DEF result
  <2> QED BY <2>5, <2>7, <2>8 DEF id
<1>10. NormalizeWithMap(text) = id
  BY <1>3, <1>4, <1>6, <1>7, <1>8, <1>9 DEF NormalizeWithMap
<1>11. Marks(text) = id
  BY <1>2 DEF Marks, id
<1> QED BY <1>4, <1>10, <1>11 DEF Normalize

\* What normalisation leaves of a text.
LEMMA NormalizedIs ==
  ASSUME NEW n \in Nat, NEW raw, raw = [i \in 1..n |-> raw[i]]
  PROVE  /\ Marked(NormalizeWithMap(raw), n)
         /\ Settled(Normalize(raw))
         /\ \A k \in DOMAIN NormalizeWithMap(raw) :
                \/ Contains(Replacement(raw[NormalizeWithMap(raw)[k].at]), NormalizeWithMap(raw)[k].ch)
                \/ NormalizeWithMap(raw)[k].ch = " " /\ raw[NormalizeWithMap(raw)[k].at] \in Space
<1> DEFINE s1 == Substitute(raw)
           t1 == Chars(s1)
           s2 == After(s1, RemoveInvisible(t1))
           t2 == Chars(s2)
           s3 == After(s2, Dehyphenate(t2))
           t3 == Chars(s3)
           s4 == After(s3, CollapseWhitespace(t3))
<1>0. NormalizeWithMap(raw) = s4
  BY DEF NormalizeWithMap
<1> DEFINE Clean(m) == \A k \in DOMAIN m : m[k].ch \notin {"fi", "dash"} /\ Contains(Replacement(raw[m[k].at]), m[k].ch)
<1>1. Marked(s1, n) /\ Clean(s1)
  <2>1. Marked(s1, n) /\ Substituted(raw, n, s1)
    BY SubstituteIs
  <2> HIDE DEF s1
  <2>2. DOMAIN s1 = 1..Len(s1)
    BY <2>1, MarkedIs
  <2>3. ASSUME NEW k \in DOMAIN s1
        PROVE  s1[k].ch \notin {"fi", "dash"} /\ Contains(Replacement(raw[s1[k].at]), s1[k].ch)
    <3> DEFINE c == raw[s1[k].at]
               rep == Replacement(c)
    <3>1. Contains(rep, s1[k].ch)
      BY <2>1, <2>2 DEF Substituted
    <3>2. /\ c = "fi" => rep = << "f", "i" >>
          /\ c = "dash" => rep = << "-" >>
          /\ c \notin {"fi", "dash"} => rep = << c >>
          /\ DOMAIN rep = 1..Len(rep)
          /\ \A j \in DOMAIN rep : rep[j] \in {"f", "i", "-", c}
      BY ReplacementIs
    <3> HIDE DEF c, rep
    <3>3. PICK j \in 1..Len(rep) : rep[j] = s1[k].ch
      BY <3>1 DEF Contains
    <3>4. s1[k].ch \in {"f", "i", "-", c}
      BY <3>2, <3>3
    <3>5. c = "fi" => s1[k].ch \in {"f", "i"}
      <4> SUFFICES ASSUME c = "fi" PROVE s1[k].ch \in {"f", "i"}
        OBVIOUS
      <4>1. rep = << "f", "i" >>
        BY <3>2
      <4>2. j \in 1..2
        BY <3>3, <4>1
      <4> QED BY <3>3, <4>1, <4>2
    <3>6. c = "dash" => s1[k].ch = "-"
      <4> SUFFICES ASSUME c = "dash" PROVE s1[k].ch = "-"
        OBVIOUS
      <4>1. rep = << "-" >>
        BY <3>2
      <4>2. j \in 1..1
        BY <3>3, <4>1
      <4> QED BY <3>3, <4>1, <4>2
    <3> QED BY <3>1, <3>4, <3>5, <3>6 DEF rep, c
  <2> QED BY <2>1, <2>3
<1> HIDE DEF s1
<1>2. /\ Marked(s2, n) /\ Clean(s2)
      /\ \A k \in DOMAIN s2 : s2[k].ch # "zw"
  <2> DEFINE kept == {i \in DOMAIN t1 : t1[i] # "zw"}
  <2>1. DOMAIN t1 = DOMAIN s1 /\ \A i \in DOMAIN t1 : t1[i] = s1[i].ch
    BY DEF Chars
  <2>2. s2 = After(s1, Keep(Chars(s1), kept))
    BY DEF RemoveInvisible
  <2> HIDE DEF s2
  <2>3. kept \in SUBSET DOMAIN s1 /\ \A i \in kept : s1[i].ch # "zw"
    BY <2>1
  <2> HIDE DEF kept, t1
  <2>4. Picked(s2, s1, kept) /\ Marked(s2, n)
    BY <1>1, <2>2, <2>3, PickedIs
  <2>5. \A k \in DOMAIN s2 : \E i \in kept : s2[k] = s1[i]
    <3>1. DOMAIN s1 = 1..Len(s1) /\ Len(s1) \in Nat
      BY <1>1, MarkedIs
    <3>2. InOrder(kept) \in [1..Cardinality(kept) -> kept]
      BY <2>3, <3>1, InTheirOrder
    <3> QED BY <2>4, <3>2 DEF Picked
  <2> QED BY <1>1, <2>3, <2>4, <2>5
<1> HIDE DEF s2
<1>3. /\ Marked(s3, n) /\ Clean(s3)
      /\ \A k \in DOMAIN s3 : s3[k].ch # "zw"
  <2> DEFINE broken == {i \in DOMAIN t2 : t2[i] = "-" /\ GoesOn(t2, i) # {}}
             kept == {p \in DOMAIN t2 : ~\E i \in broken : p \in i..(Min(GoesOn(t2, i)) - 1)}
  <2>1. DOMAIN t2 = DOMAIN s2
    BY DEF Chars
  <2>2. s3 = After(s2, Keep(Chars(s2), kept))
    BY DEF Dehyphenate
  <2> HIDE DEF s3
  <2>3. kept \in SUBSET DOMAIN s2
    BY <2>1
  <2> HIDE DEF kept, t2
  <2>4. Picked(s3, s2, kept) /\ Marked(s3, n)
    BY <1>2, <2>2, <2>3, PickedIs
  <2>5. \A k \in DOMAIN s3 : \E i \in kept : s3[k] = s2[i]
    <3>1. DOMAIN s2 = 1..Len(s2) /\ Len(s2) \in Nat
      BY <1>2, MarkedIs
    <3>2. InOrder(kept) \in [1..Cardinality(kept) -> kept]
      BY <2>3, <3>1, InTheirOrder
    <3> QED BY <2>4, <3>2 DEF Picked
  <2> QED BY <1>2, <2>3, <2>4, <2>5
<1> HIDE DEF s3
<1> DEFINE L == Len(s3)
           words == {i \in DOMAIN t3 : t3[i] \notin Space}
           between == {i \in DOMAIN t3 \ words : /\ i > 1 /\ t3[i - 1] \notin Space
                                                 /\ \E j \in words : j > i}
           kept == words \cup between
           step == Keep(t3, kept)
           f == InOrder(kept)
           l == Cardinality(kept)
<1>4. /\ L \in Nat /\ DOMAIN s3 = 1..L /\ DOMAIN t3 = 1..L
      /\ \A i \in 1..L : t3[i] = s3[i].ch
      /\ \A i \in 1..L : s3[i].at \in 1..n
      /\ \A i, j \in 1..L : i < j => s3[i].at <= s3[j].at
  <2>1. L \in Nat /\ DOMAIN s3 = 1..L /\ t3 = [k \in 1..L |-> s3[k].ch]
    BY <1>3, MarkedIs
  <2> HIDE DEF L
  <2> QED BY <1>3, <2>1 DEF Marked
<1> HIDE DEF L
<1>5. /\ kept \in SUBSET (1..L)
      /\ \A i \in 1..L : i \in words <=> t3[i] \notin Space
      /\ \A i \in 1..L : i \in kept <=> i \in words \/ /\ i - 1 \in words
                                                       /\ \E j \in words : j > i
  <2>1. words \in SUBSET (1..L) /\ \A i \in 1..L : i \in words <=> t3[i] \notin Space
    BY <1>4
  <2>2. \A i \in 1..L : i > 1 => i - 1 \in 1..L
    BY <1>4
  <2>3. \A i \in 1..L : i \in between <=> /\ i \notin words /\ i > 1 /\ t3[i - 1] \notin Space
                                          /\ \E j \in words : j > i
    BY <1>4
  <2>4. between \in SUBSET (1..L)
    BY <1>4
  <2> HIDE DEF words, between
  <2>5. \A i \in 1..L : i - 1 \in words => i > 1
    BY <1>4, <2>1
  <2> QED BY <2>1, <2>2, <2>3, <2>4, <2>5
<1>6. s4 = [k \in 1..l |-> [ch |-> IF f[k] \in words THEN t3[f[k]] ELSE " ", at |-> s3[f[k]].at]]
  <2> DEFINE result == [k \in DOMAIN step |-> IF step[k].at \in words THEN step[k] ELSE [step[k] EXCEPT !.ch = " "]]
  <2>1. CollapseWhitespace(t3) = result
    BY DEF CollapseWhitespace
  <2>2. Marked(step, L) /\ Len(step) = l /\ \A k \in DOMAIN step : step[k].at = f[k] /\ step[k].ch = t3[f[k]]
    <3> HIDE DEF kept, t3
    <3> QED BY <1>4, <1>5, KeepKeeps
  <2> HIDE DEF step
  <2>3. DOMAIN step = 1..l /\ step = [k \in 1..l |-> [ch |-> step[k].ch, at |-> step[k].at]]
    <3>1. Marked(step, L)
      BY <2>2
    <3>2. DOMAIN step = 1..Len(step) /\ step = [k \in 1..Len(step) |-> [ch |-> step[k].ch, at |-> step[k].at]]
      BY <3>1, MarkedIs
    <3> QED BY <2>2, <3>2
  <2> HIDE DEF words, f, t3, l
  <2>4. \A k \in 1..l : result[k].ch = (IF f[k] \in words THEN t3[f[k]] ELSE " ") /\ result[k].at = f[k]
    <3> SUFFICES ASSUME NEW k \in 1..l
                 PROVE  result[k].ch = (IF f[k] \in words THEN t3[f[k]] ELSE " ") /\ result[k].at = f[k]
      OBVIOUS
    <3>1. step[k].at = f[k] /\ step[k].ch = t3[f[k]] /\ k \in DOMAIN step
      BY <2>2, <2>3
    <3>2. step[k] = [ch |-> t3[f[k]], at |-> f[k]]
      BY <2>3, <3>1
    <3>3. [step[k] EXCEPT !.ch = " "] = [ch |-> " ", at |-> f[k]]
      <4> DEFINE r == step[k]
                 s == [r EXCEPT !.ch = " "]
      <4>1. r \in [ch : {t3[f[k]]}, at : {f[k]}]
        BY <3>2
      <4> HIDE DEF r
      <4>2. s \in [ch : {" "}, at : {f[k]}]
        BY <4>1
      <4> HIDE DEF s
      <4>3. s = [ch |-> s.ch, at |-> s.at] /\ s.ch = " " /\ s.at = f[k]
        BY <4>2
      <4>4. s = [ch |-> " ", at |-> f[k]]
        BY <4>3
      <4> QED BY <4>4 DEF s, r
    <3>4. /\ f[k] \in words => result[k] = [ch |-> t3[f[k]], at |-> f[k]]
          /\ f[k] \notin words => result[k] = [ch |-> " ", at |-> f[k]]
      BY <3>1, <3>2, <3>3
    <3> HIDE DEF result
    <3>5. CASE f[k] \in words
      <4>1. result[k] = [ch |-> t3[f[k]], at |-> f[k]]
        BY <3>4, <3>5
      <4> QED BY <3>5, <4>1
    <3>6. CASE f[k] \notin words
      <4>1. result[k] = [ch |-> " ", at |-> f[k]]
        BY <3>4, <3>6
      <4>2. (IF f[k] \in words THEN t3[f[k]] ELSE " ") = " "
        BY <3>6
      <4>3. result[k].ch = " " /\ result[k].at = f[k]
        <5> DEFINE blank == " "
                   r == result[k]
        <5>1. r = [ch |-> blank, at |-> f[k]]
          BY <4>1
        <5> HIDE DEF blank, r
        <5>2. r.ch = blank /\ r.at = f[k]
          BY <5>1
        <5> QED BY <5>2 DEF blank, r
      <4> QED BY <4>2, <4>3
    <3> QED BY <3>5, <3>6
  <2>5. DOMAIN result = 1..l
    BY <2>3
  <2> HIDE DEF result
  <2> QED BY <2>1, <2>4, <2>5 DEF After
<1>7. /\ l \in Nat /\ f \in [1..l -> kept]
      /\ \A p \in kept : \E k \in 1..l : f[k] = p
      /\ \A j, k \in 1..l : j < k <=> f[j] < f[k]
  <2> HIDE DEF kept
  <2> QED BY <1>4, <1>5, InTheirOrder
<1> DEFINE text == [k \in 1..l |-> IF f[k] \in words THEN t3[f[k]] ELSE " "]
<1>8. Normalize(raw) = text /\ DOMAIN s4 = 1..l
  <2> HIDE DEF s4, words, f, l, t3
  <2>1. DOMAIN s4 = 1..l /\ \A k \in 1..l : s4[k].ch = IF f[k] \in words THEN t3[f[k]] ELSE " "
    BY <1>6
  <2> QED BY <1>0, <2>1 DEF Normalize, Chars
<1> HIDE DEF s4, words, f, l, t3, kept
<1>9. \A k \in 1..l : f[k] \in 1..L /\ f[k] \in kept
  BY <1>5, <1>7
<1>10. Marked(s4, n)
  <2>1. \A k \in 1..l : s4[k] = [ch |-> IF f[k] \in words THEN t3[f[k]] ELSE " ", at |-> s3[f[k]].at]
    BY <1>6
  <2>2. \A k \in 1..l : s4[k] = [ch |-> s4[k].ch, at |-> s4[k].at] /\ s4[k].at = s3[f[k]].at
    <3> SUFFICES ASSUME NEW k \in 1..l
                 PROVE  s4[k] = [ch |-> s4[k].ch, at |-> s4[k].at] /\ s4[k].at = s3[f[k]].at
      OBVIOUS
    <3> DEFINE r == s4[k]
               c == IF f[k] \in words THEN t3[f[k]] ELSE " "
               a == s3[f[k]].at
    <3>1. r = [ch |-> c, at |-> a]
      BY <2>1
    <3> HIDE DEF r, c, a
    <3>2. r = [ch |-> r.ch, at |-> r.at] /\ r.at = a
      BY <3>1
    <3> QED BY <3>2 DEF r, a
  <2>3. s4 = [k \in 1..l |-> [ch |-> s4[k].ch, at |-> s4[k].at]]
    BY <1>6, <1>8, <2>2
  <2>4. \A k \in 1..l : s4[k].at \in 1..n
    BY <1>4, <1>9, <2>2
  <2>5. ASSUME NEW j \in 1..l, NEW k \in 1..l, j < k PROVE s4[j].at <= s4[k].at
    <3>1. f[j] < f[k]
      BY <1>7, <2>5
    <3> QED BY <1>4, <1>9, <2>2, <3>1
  <2> QED BY <1>7, <1>8, <2>3, <2>4, <2>5 DEF Marked
<1>11. ASSUME NEW k \in 1..l
       PROVE  \/ Contains(Replacement(raw[s4[k].at]), s4[k].ch)
              \/ s4[k].ch = " " /\ raw[s4[k].at] \in Space
  <2> DEFINE i == f[k]
             c == raw[s3[i].at]
             rep == Replacement(c)
  <2>1. i \in 1..L /\ s4[k].at = s3[i].at /\ s4[k].ch = IF i \in words THEN t3[i] ELSE " "
    BY <1>6, <1>9
  <2>2. t3[i] = s3[i].ch /\ Contains(rep, t3[i])
    BY <1>3, <1>4, <2>1
  <2>3. CASE i \in words
    BY <2>1, <2>2, <2>3
  <2>4. CASE i \notin words
    <3>1. t3[i] \in {" ", "nl"}
      BY <1>5, <2>1, <2>4 DEF Space
    <3>2. /\ c = "fi" => rep = << "f", "i" >>
          /\ c = "dash" => rep = << "-" >>
          /\ c \notin {"fi", "dash"} => rep = << c >>
          /\ DOMAIN rep = 1..Len(rep)
          /\ \A j \in DOMAIN rep : rep[j] \in {"f", "i", "-", c}
      BY ReplacementIs
    <3> HIDE DEF c, rep
    <3>3. PICK j \in 1..Len(rep) : rep[j] = t3[i]
      BY <2>2 DEF Contains
    <3>4. t3[i] = c
      BY <3>1, <3>2, <3>3
    <3> QED BY <2>1, <2>4, <3>1, <3>4 DEF c, Space
  <2> QED BY <2>3, <2>4
<1>12. Settled(text)
  <2>1. ASSUME NEW k \in 1..l
        PROVE  text[k] \notin {"fi", "dash", "zw", "nl"} /\ (text[k] = " " <=> f[k] \notin words)
    <3>1. f[k] \in 1..L /\ t3[f[k]] = s3[f[k]].ch
      BY <1>4, <1>9
    <3>2. t3[f[k]] \notin {"fi", "dash", "zw"}
      BY <1>3, <1>4, <3>1
    <3>3. f[k] \in words <=> t3[f[k]] \notin {" ", "nl"}
      BY <1>5, <3>1 DEF Space
    <3> QED BY <3>2, <3>3
  <2>2. ASSUME NEW k \in 1..l, f[k] \notin words
        PROVE  /\ k - 1 \in 1..l /\ f[k - 1] \in words
               /\ k + 1 \in 1..l /\ f[k + 1] \in words
    <3>1. f[k] - 1 \in words /\ f[k] \in 1..L /\ f[k] - 1 \in 1..L
      <4>1. f[k] - 1 \in words /\ f[k] \in 1..L
        BY <1>5, <1>9, <2>2
      <4>2. words \in SUBSET (1..L)
        BY <1>4 DEF words
      <4> QED BY <4>1, <4>2
    <3>2. PICK j \in words : j > f[k]
      BY <1>5, <1>9, <2>2
    <3>3. j \in 1..L
      BY <1>4 DEF words
    <3>4. PICK a \in 1..l : f[a] = f[k] - 1
      BY <1>5, <1>7, <3>1
    <3>5. a < k
      BY <1>7, <1>9, <3>4
    <3>6. k - 1 \in 1..l
      BY <1>7, <3>5
    <3>7. a = k - 1
      <4> SUFFICES ASSUME a < k - 1 PROVE FALSE
        BY <1>7, <3>5
      <4>1. f[a] < f[k - 1] /\ f[k - 1] < f[k]
        BY <1>7, <3>6
      <4> QED BY <1>9, <3>4, <3>6, <4>1
    <3>8. PICK b \in 1..l : f[b] = j
      BY <1>5, <1>7, <3>2, <3>3
    <3>9. k < b /\ k + 1 \in 1..l
      <4>1. k < b
        BY <1>7, <3>2, <3>8
      <4> QED BY <1>7, <4>1
    <3>10. f[k + 1] \in words
      <4> SUFFICES ASSUME f[k + 1] \notin words PROVE FALSE
        OBVIOUS
      <4>1. f[k + 1] - 1 \in words /\ f[k + 1] \in 1..L /\ f[k + 1] \in kept
        BY <1>5, <1>9, <3>9
      <4>2. f[k + 1] - 1 \in 1..L
        BY <1>4, <4>1 DEF words
      <4>3. PICK d \in 1..l : f[d] = f[k + 1] - 1
        BY <1>5, <1>7, <4>1, <4>2
      <4>4. d < k + 1
        BY <1>7, <3>9, <4>1, <4>3
      <4>5. f[k] < f[k + 1] /\ f[k] # f[d]
        <5>1. k < k + 1
          OBVIOUS
        <5>2. f[d] \in words
          BY <4>1, <4>3
        <5> QED BY <1>7, <2>2, <3>9, <5>1, <5>2
      <4>6. f[k] < f[d]
        BY <3>1, <4>1, <4>3, <4>5
      <4>7. k < d
        BY <1>7, <4>6
      <4> QED BY <4>4, <4>7
    <3> QED BY <3>1, <3>4, <3>6, <3>7, <3>9, <3>10
  <2>3. DOMAIN text = 1..l /\ text = [k \in 1..l |-> text[k]]
    OBVIOUS
  <2> HIDE DEF text
  <2>4. \A k \in DOMAIN text : text[k] = " " => /\ k - 1 \in DOMAIN text /\ text[k - 1] # " "
                                                /\ k + 1 \in DOMAIN text /\ text[k + 1] # " "
    <3> SUFFICES ASSUME NEW k \in 1..l, text[k] = " "
                 PROVE  /\ k - 1 \in 1..l /\ text[k - 1] # " "
                        /\ k + 1 \in 1..l /\ text[k + 1] # " "
      BY <2>3
    <3> QED BY <2>1, <2>2
  <2>5. \A k \in DOMAIN text : text[k] \notin {"fi", "dash", "zw", "nl"}
    BY <2>1, <2>3
  <2>6. \E m \in Nat : text = [k \in 1..m |-> text[k]]
    BY <1>7, <2>3
  <2> QED BY <2>4, <2>5, <2>6 DEF Settled
<1> QED BY <1>0, <1>8, <1>10, <1>11, <1>12

\* Where a run ends: the position after its last.
Past(run) == run.norm + run.length

\* Runs that tile a marked text, in each of which both sides advance together.
Tiles(runs, m) ==
    /\ \E c \in Nat : runs = [k \in 1..c |-> runs[k]] /\ Len(runs) = c /\ DOMAIN runs = 1..c
    /\ \A k \in 1..Len(runs) : /\ runs[k].norm \in Nat \ {0} /\ runs[k].length \in Nat \ {0} /\ runs[k].raw \in Nat
                               /\ Past(runs[k]) <= Len(m) + 1
                               /\ runs[k].norm = IF k = 1 THEN 1 ELSE Past(runs[k - 1])
    /\ IF Len(m) = 0 THEN runs = << >> ELSE Len(runs) > 0 /\ Past(runs[Len(runs)]) = Len(m) + 1
    /\ \A j, k \in 1..Len(runs) : j < k => Past(runs[j]) <= runs[k].norm
    /\ \A k \in 1..Len(runs) : \A p \in 1..Len(m) :
            runs[k].norm <= p /\ p < Past(runs[k]) => m[p].at = runs[k].raw + p - runs[k].norm
    /\ \A p \in 1..Len(m) : \E k \in 1..Len(runs) : runs[k].norm <= p /\ p < Past(runs[k])

LEMMA RunsTile ==
  ASSUME NEW n \in Nat, NEW m, Marked(m, n)
  PROVE  Tiles(OffsetRuns(m), m)
<1> DEFINE L == Len(m)
           B == {p \in DOMAIN m : p = 1 \/ m[p].at # m[p - 1].at + 1}
           c == Cardinality(B)
           s == InOrder(B)
           next(k) == IF k = c THEN L + 1 ELSE s[k + 1]
           runs == [k \in 1..c |-> [norm |-> s[k], raw |-> m[s[k]].at, length |-> next(k) - s[k]]]
<1>1. L \in Nat /\ DOMAIN m = 1..L
  BY MarkedIs
<1>2. \A p \in 1..L : m[p].at \in 1..n
  BY <1>1 DEF Marked
<1>3. B \in SUBSET (1..L)
  BY <1>1
<1>4. \A p \in 1..L : p \notin B => p # 1 /\ m[p].at = m[p - 1].at + 1
  BY <1>1
<1>5. 1 \in 1..L => 1 \in B
  BY <1>1
<1> HIDE DEF L, B
<1>6. /\ c \in Nat /\ s \in [1..c -> B]
      /\ \A p \in B : \E k \in 1..c : s[k] = p
      /\ \A j, k \in 1..c : j < k <=> s[j] < s[k]
  BY <1>1, <1>3, InTheirOrder
<1>7. OffsetRuns(m) = runs
  <2>1. DOMAIN s = 1..c /\ Len(s) = c
    BY <1>6
  <2> QED BY <2>1 DEF OffsetRuns, B, L
<1> HIDE DEF c, s
<1>8. \A k \in 1..c : s[k] \in 1..L /\ s[k] \in B
  BY <1>3, <1>6
<1>9. ASSUME NEW k \in 1..c
      PROVE  /\ next(k) \in Nat /\ s[k] < next(k) /\ next(k) <= L + 1
             /\ \A b \in B : ~ (s[k] < b /\ b < next(k))
  <2>1. CASE k = c
    <3>1. next(k) = L + 1
      BY <2>1
    <3>2. ASSUME NEW b \in B, s[k] < b PROVE FALSE
      <4>1. PICK j \in 1..c : s[j] = b
        BY <1>6
      <4> QED BY <1>6, <2>1, <3>2, <4>1
    <3> QED BY <1>1, <1>8, <3>1, <3>2
  <2>2. CASE k # c
    <3>1. next(k) = s[k + 1] /\ k + 1 \in 1..c /\ k < k + 1
      BY <1>6, <2>2
    <3>2. ASSUME NEW b \in B, s[k] < b, b < s[k + 1] PROVE FALSE
      <4>1. PICK j \in 1..c : s[j] = b
        BY <1>6
      <4>2. k < j /\ j < k + 1
        BY <1>6, <3>1, <3>2, <4>1
      <4> QED BY <4>2
    <3>3. s[k] < s[k + 1] /\ s[k + 1] \in 1..L
      BY <1>6, <1>8, <3>1
    <3> QED BY <1>1, <3>1, <3>2, <3>3
  <2> QED BY <2>1, <2>2
<1>10. \A k \in 1..c : /\ runs[k].norm = s[k] /\ runs[k].raw = m[s[k]].at
                       /\ runs[k].length = next(k) - s[k]
  BY DEF runs
<1>11. DOMAIN runs = 1..c /\ Len(runs) = c /\ runs = [k \in 1..c |-> runs[k]]
  BY <1>6
<1> HIDE DEF runs, next
<1>12. \A k \in 1..c : Past(runs[k]) = next(k) /\ runs[k].length \in Nat \ {0} /\ runs[k].norm \in Nat \ {0}
  <2> SUFFICES ASSUME NEW k \in 1..c
               PROVE  Past(runs[k]) = next(k) /\ runs[k].length \in Nat \ {0} /\ runs[k].norm \in Nat \ {0}
    OBVIOUS
  <2>1. s[k] \in 1..L /\ next(k) \in Nat /\ s[k] < next(k)
    BY <1>8, <1>9
  <2> QED BY <1>1, <1>10, <2>1 DEF Past
<1>13. c > 0 => s[1] = 1
  <2> SUFFICES ASSUME c > 0 PROVE s[1] = 1
    OBVIOUS
  <2>1. 1 \in 1..c /\ s[1] \in 1..L
    BY <1>6, <1>8
  <2>2. 1 \in B
    BY <1>1, <1>5, <2>1
  <2>3. PICK j \in 1..c : s[j] = 1
    BY <1>6, <2>2
  <2> QED BY <1>6, <2>1, <2>3
<1>14. L > 0 => c > 0
  BY <1>1, <1>5, <1>6
<1>15. L = 0 => c = 0
  BY <1>1, <1>6, <1>8
<1>16. \A j, k \in 1..c : j < k => next(j) <= s[k]
  <2> SUFFICES ASSUME NEW j \in 1..c, NEW k \in 1..c, j < k PROVE next(j) <= s[k]
    OBVIOUS
  <2>1. j # c /\ j + 1 \in 1..c
    BY <1>6
  <2>2. next(j) = s[j + 1]
    BY <2>1 DEF next
  <2>3. ~ (k < j + 1)
    BY <2>1
  <2>4. ~ (s[k] < s[j + 1])
    BY <1>6, <2>1, <2>3
  <2> QED BY <1>8, <2>1, <2>2, <2>4
<1>17. ASSUME NEW k \in 1..c, NEW p \in 1..L, s[k] <= p, p < next(k)
       PROVE  m[p].at = m[s[k]].at + p - s[k]
  <2> DEFINE a == s[k]
             T == {d \in 0..(p - a) : m[a + d].at = m[a].at + d}
  <2>1. a \in 1..L /\ a \in Nat /\ p \in Nat /\ p - a \in Nat /\ m[a].at \in Nat
    BY <1>1, <1>2, <1>8, <1>17
  <2>2. \A b \in B : ~ (a < b /\ b < next(k))
    BY <1>9
  <2> HIDE DEF a
  <2>3. T \in SUBSET (0..(p - a)) /\ 0 \in T
    <3>1. a + 0 = a
      BY <2>1
    <3> QED BY <2>1, <3>1
  <2>4. ASSUME NEW d \in 1..(p - a), d - 1 \in T PROVE d \in T
    <3>1. a + d \in 1..L /\ a < a + d /\ a + d <= p /\ (a + d) - 1 = a + (d - 1)
      BY <1>1, <2>1
    <3>2. next(k) \in Nat /\ a + d < next(k)
      BY <1>9, <1>17, <2>1, <3>1
    <3>3. a + d \notin B
      BY <2>2, <3>1, <3>2
    <3>4. m[a + d].at = m[a + (d - 1)].at + 1
      BY <1>4, <3>1, <3>3
    <3>5. m[a + (d - 1)].at = m[a].at + (d - 1)
      BY <2>4
    <3> QED BY <2>1, <3>4, <3>5
  <2>5. p - a \in T
    <3> HIDE DEF T
    <3> QED BY <2>1, <2>3, <2>4, LoopKeeps
  <2>6. a + (p - a) = p
    BY <2>1
  <2> QED BY <2>1, <2>5, <2>6 DEF a
<1>18. ASSUME NEW p \in 1..L PROVE \E k \in 1..c : s[k] <= p /\ p < next(k)
  <2> DEFINE U == {b \in B : b <= p}
  <2>1. U \in SUBSET (1..L) /\ U # {}
    <3>1. 1 \in B /\ 1 <= p
      BY <1>1, <1>5
    <3> QED BY <1>3, <3>1
  <2>2. Max(U) \in U /\ \A y \in U : Max(U) >= y
    BY <1>1, <2>1, MaxIsIn
  <2>3. PICK k \in 1..c : s[k] = Max(U)
    BY <1>6, <2>2
  <2>4. p < next(k)
    <3>1. CASE k = c
      <4>1. next(k) = L + 1
        BY <3>1 DEF next
      <4> QED BY <1>1, <4>1
    <3>2. CASE k # c
      <4>1. next(k) = s[k + 1] /\ k + 1 \in 1..c
        BY <1>6, <3>2 DEF next
      <4>2. s[k + 1] \in B /\ s[k + 1] \in 1..L /\ s[k] \in 1..L /\ s[k] < s[k + 1]
        BY <1>6, <1>8, <4>1
      <4>3. s[k + 1] \notin U
        <5>1. s[k + 1] \in U => s[k] >= s[k + 1]
          BY <2>2, <2>3
        <5> HIDE DEF U
        <5> QED BY <1>1, <4>2, <5>1
      <4> QED BY <1>1, <4>1, <4>2, <4>3
    <3> QED BY <3>1, <3>2
  <2> QED BY <2>2, <2>3, <2>4
<1>19. ASSUME NEW k \in 1..c, k # 1 PROVE s[k] = next(k - 1)
  <2>1. k - 1 \in 1..c /\ k - 1 # c /\ (k - 1) + 1 = k
    BY <1>6, <1>19
  <2> QED BY <2>1 DEF next
<1>20. ASSUME NEW k \in 1..c
       PROVE  /\ runs[k].norm \in Nat \ {0} /\ runs[k].length \in Nat \ {0} /\ runs[k].raw \in Nat
              /\ Past(runs[k]) <= L + 1
              /\ runs[k].norm = IF k = 1 THEN 1 ELSE Past(runs[k - 1])
  <2>1. runs[k].raw \in Nat
    BY <1>2, <1>8, <1>10
  <2>2. runs[k].norm = IF k = 1 THEN 1 ELSE Past(runs[k - 1])
    <3>1. CASE k = 1
      BY <1>6, <1>10, <1>13, <3>1
    <3>2. CASE k # 1
      <4>1. k - 1 \in 1..c
        BY <1>6, <3>2
      <4> QED BY <1>10, <1>12, <1>19, <3>2, <4>1
    <3> QED BY <3>1, <3>2
  <2> QED BY <1>9, <1>12, <2>1, <2>2
<1>21. IF L = 0 THEN runs = << >> ELSE c > 0 /\ Past(runs[c]) = L + 1
  <2>1. CASE L = 0
    <3>1. c = 0
      BY <1>15, <2>1
    <3>2. runs = << >>
      BY <1>11, <3>1
    <3> QED BY <2>1, <3>2
  <2>2. CASE L # 0
    <3>1. c > 0 /\ c \in 1..c
      BY <1>1, <1>6, <1>14, <2>2
    <3>2. Past(runs[c]) = L + 1
      BY <1>12, <3>1 DEF next
    <3> QED BY <2>2, <3>1, <3>2
  <2> QED BY <2>1, <2>2
<1>22. ASSUME NEW k \in 1..c, NEW p \in 1..L, runs[k].norm <= p, p < Past(runs[k])
       PROVE  m[p].at = runs[k].raw + p - runs[k].norm
  BY <1>10, <1>12, <1>17, <1>22
<1>23. ASSUME NEW p \in 1..L PROVE \E k \in 1..c : runs[k].norm <= p /\ p < Past(runs[k])
  BY <1>10, <1>12, <1>18
<1>24. \A j, k \in 1..c : j < k => Past(runs[j]) <= runs[k].norm
  BY <1>10, <1>12, <1>16
<1>25. Tiles(runs, m)
  BY <1>6, <1>11, <1>20, <1>21, <1>22, <1>23, <1>24 DEF Tiles, L
<1> QED BY <1>7, <1>25

\* A position of the text is taken back to where its character came from,
LEMMA ToRawIs ==
  ASSUME NEW n \in Nat, NEW m, Marked(m, n), NEW runs, Tiles(runs, m), NEW p \in 1..Len(m)
  PROVE  ToRaw(p, runs) = m[p].at
<1> DEFINE run == CHOOSE r \in Range(runs) : p \in r.norm..(r.norm + r.length - 1)
<1>1. Len(m) \in Nat
  BY MarkedIs
<1>2. PICK k \in 1..Len(runs) : runs[k].norm <= p /\ p < Past(runs[k])
  BY DEF Tiles
<1>3. DOMAIN runs = 1..Len(runs)
  BY DEF Tiles
<1>4. \A j \in 1..Len(runs) : runs[j].norm \in Nat \ {0} /\ runs[j].length \in Nat \ {0} /\ runs[j].raw \in Nat
  BY DEF Tiles
<1>5. p \in runs[k].norm..(runs[k].norm + runs[k].length - 1) /\ runs[k] \in Range(runs)
  <2>1. PICK x \in Nat, y \in Nat : x = runs[k].norm /\ y = runs[k].length
    BY <1>4
  <2>2. p \in Nat /\ x <= p /\ p < x + y
    BY <1>1, <1>2, <2>1 DEF Past
  <2>3. p \in x..(x + y - 1)
    BY <2>2
  <2>4. runs[k] \in Range(runs)
    BY <1>3 DEF Range
  <2> QED BY <2>1, <2>3, <2>4
<1>6. run \in Range(runs) /\ p \in run.norm..(run.norm + run.length - 1)
  BY <1>5
<1>7. PICK j \in 1..Len(runs) : run = runs[j]
  BY <1>3, <1>6 DEF Range
<1> HIDE DEF run
<1>8. runs[j].norm <= p /\ p < Past(runs[j])
  BY <1>1, <1>4, <1>6, <1>7 DEF Past
<1>9. m[p].at = run.raw + p - run.norm
  BY <1>7, <1>8 DEF Tiles
<1> QED BY <1>9 DEF ToRaw, run

\* and one of the original to the first character that came from there or after.
LEMMA NormAtIs ==
  ASSUME NEW n \in Nat, NEW m, Marked(m, n), NEW runs, Tiles(runs, m), NEW a \in Nat
  PROVE  /\ NormAt(a, runs, Len(m)) \in 1..(Len(m) + 1)
         /\ \A p \in 1..Len(m) : p < NormAt(a, runs, Len(m)) <=> m[p].at < a
<1> DEFINE L == Len(m)
           reaching == {k \in DOMAIN runs : a < runs[k].raw + runs[k].length}
           N == NormAt(a, runs, L)
<1>1. L \in Nat /\ DOMAIN m = 1..L
  BY MarkedIs
<1>2. /\ \A p \in 1..L : m[p].at \in Nat
      /\ \A p, q \in 1..L : p < q => m[p].at <= m[q].at
  <2>1. \A p \in 1..L : m[p].at \in 1..n
    BY <1>1 DEF Marked
  <2> QED BY <1>1, <2>1 DEF Marked
<1>3. /\ Len(runs) \in Nat /\ DOMAIN runs = 1..Len(runs)
      /\ \A k \in 1..Len(runs) : /\ runs[k].norm \in Nat \ {0} /\ runs[k].length \in Nat \ {0} /\ runs[k].raw \in Nat
                                 /\ runs[k].norm + runs[k].length <= L + 1
      /\ \A j, k \in 1..Len(runs) : j < k => runs[j].norm + runs[j].length <= runs[k].norm
      /\ \A k \in 1..Len(runs) : \A p \in 1..L :
            runs[k].norm <= p /\ p < runs[k].norm + runs[k].length => m[p].at = runs[k].raw + p - runs[k].norm
      /\ \A p \in 1..L : \E k \in 1..Len(runs) : runs[k].norm <= p /\ p < runs[k].norm + runs[k].length
  BY DEF Tiles, Past
<1> HIDE DEF L
<1>4. CASE reaching = {}
  <2>1. N = L + 1
    BY <1>4 DEF NormAt
  <2>2. ASSUME NEW p \in 1..L PROVE m[p].at < a
    <3>1. PICK k \in 1..Len(runs) : runs[k].norm <= p /\ p < runs[k].norm + runs[k].length
      BY <1>3
    <3>2. ~ (a < runs[k].raw + runs[k].length)
      BY <1>3, <1>4
    <3>3. m[p].at = runs[k].raw + p - runs[k].norm
      BY <1>3, <3>1
    <3>4. PICK x \in Nat, y \in Nat, z \in Nat : x = runs[k].raw /\ y = runs[k].norm /\ z = runs[k].length
      BY <1>3
    <3>5. y <= p /\ p < y + z /\ ~ (a < x + z) /\ m[p].at = x + p - y
      BY <3>1, <3>2, <3>3, <3>4
    <3>6. p \in Nat
      BY <1>1
    <3> QED BY <3>5, <3>6
  <2> HIDE DEF N
  <2> QED BY <1>1, <2>1, <2>2 DEF N, L
<1>5. CASE reaching # {}
  <2>1. PICK r \in reaching : \A k \in reaching : r <= k
    <3>1. reaching \in SUBSET Nat
      BY <1>3
    <3> HIDE DEF reaching
    <3> QED BY <1>5, <3>1, LeastIsIn
  <2>2. Min(reaching) = r
    <3>1. reaching \in SUBSET Int
      BY <1>3
    <3> HIDE DEF reaching
    <3> QED BY <2>1, <3>1, MinIs
  <2> DEFINE run == runs[r]
  <2>3. /\ r \in 1..Len(runs) /\ a < run.raw + run.length
        /\ run.norm \in Nat \ {0} /\ run.length \in Nat \ {0} /\ run.raw \in Nat
        /\ run.norm + run.length <= L + 1
    BY <1>3, <2>1
  <2>4. N = run.norm + (IF a > run.raw THEN a - run.raw ELSE 0)
    BY <1>5, <2>2 DEF NormAt
  <2> HIDE DEF N
  <2>5. N \in 1..L /\ run.norm <= N /\ N < run.norm + run.length
    <3>1. PICK x \in Nat, y \in Nat \ {0}, z \in Nat \ {0} : x = run.raw /\ y = run.norm /\ z = run.length
      BY <2>3
    <3>2. a < x + z /\ y + z <= L + 1 /\ N = y + (IF a > x THEN a - x ELSE 0)
      BY <2>3, <2>4, <3>1
    <3>3. CASE a > x
      <4>1. N = y + (a - x)
        BY <3>2, <3>3
      <4>2. N \in 1..L /\ y <= N /\ N < y + z
        BY <1>1, <3>2, <3>3, <4>1
      <4> QED BY <3>1, <4>2
    <3>4. CASE ~ (a > x)
      <4>1. N = y
        BY <3>2, <3>4
      <4>2. N \in 1..L /\ y <= N /\ N < y + z
        BY <1>1, <3>2, <4>1
      <4> QED BY <3>1, <4>2
    <3> QED BY <3>3, <3>4
  <2>6. m[N].at = run.raw + N - run.norm
    BY <1>3, <2>3, <2>5
  <2>7. m[N].at >= a
    BY <2>3, <2>4, <2>6
  <2>8. ASSUME NEW p \in 1..L, ~ (p < N) PROVE ~ (m[p].at < a)
    <3>1. p = N \/ N < p
      BY <1>1, <2>5, <2>8
    <3>2. m[N].at <= m[p].at
      BY <1>2, <2>5, <3>1
    <3> QED BY <1>2, <2>5, <2>7, <3>2
  <2>9. ASSUME NEW p \in 1..L, p < N PROVE m[p].at < a
    <3>1. PICK k \in 1..Len(runs) : runs[k].norm <= p /\ p < runs[k].norm + runs[k].length
      BY <1>3
    <3>2. m[p].at = runs[k].raw + p - runs[k].norm
      BY <1>3, <3>1
    <3>3. CASE k = r
      BY <1>1, <2>3, <2>4, <2>9, <3>1, <3>2, <3>3
    <3>4. CASE r < k
      <4>1. run.norm + run.length <= runs[k].norm
        BY <1>3, <2>3, <3>4
      <4>2. PICK x \in Nat, y \in Nat, z \in Nat : x = runs[k].norm /\ y = run.norm /\ z = run.length
        BY <1>3, <2>3
      <4>3. x <= p /\ y + z <= x /\ N < y + z /\ p < N
        BY <2>5, <2>9, <3>1, <4>1, <4>2
      <4>4. p \in Nat /\ N \in Nat
        BY <1>1, <2>5
      <4> QED BY <4>3, <4>4
    <3>5. CASE k < r
      <4>1. k \notin reaching
        <5>1. k \in reaching => r <= k
          BY <2>1
        <5>2. k \in Nat /\ r \in Nat
          BY <1>3, <2>3
        <5> HIDE DEF reaching
        <5> QED BY <3>5, <5>1, <5>2
      <4>2. ~ (a < runs[k].raw + runs[k].length)
        BY <1>3, <4>1
      <4>3. PICK x \in Nat, y \in Nat, z \in Nat : x = runs[k].raw /\ y = runs[k].norm /\ z = runs[k].length
        BY <1>3
      <4>4. ~ (a < x + z) /\ p < y + z /\ m[p].at = x + p - y
        BY <3>1, <3>2, <4>2, <4>3
      <4>5. p \in Nat
        BY <1>1
      <4> QED BY <4>4, <4>5
    <3>6. k = r \/ k < r \/ r < k
      BY <1>3, <2>3
    <3> QED BY <3>3, <3>4, <3>5, <3>6
  <2>10. N \in 1..(L + 1)
    BY <1>1, <2>5
  <2> QED BY <2>8, <2>9, <2>10 DEF N, L
<1> QED BY <1>4, <1>5

\* Pages of a text of n characters: where each begins, none before the one before.
PagesOver(pages, n) ==
    /\ Len(pages) \in Nat \ {0} /\ DOMAIN pages = 1..Len(pages)
    /\ pages[1].start = 1
    /\ \A k \in 1..Len(pages) : pages[k].start \in 1..(n + 1)
    /\ \A j, k \in 1..Len(pages) : j < k => pages[j].start <= pages[k].start

\* The pages of the text it is normalised to: they tile it, and each character is on
\* the page it was on.
PagesMoved(moved, pages, m) ==
    /\ Len(moved) = Len(pages) /\ DOMAIN moved = 1..Len(pages)
    /\ \A k \in 1..Len(pages) : /\ moved[k].start \in 1..(Len(m) + 1) /\ moved[k].end \in 1..(Len(m) + 1)
                                /\ moved[k].start <= moved[k].end
                                /\ moved[k].start = IF k = 1 THEN 1 ELSE moved[k - 1].end
                                /\ moved[k].method = pages[k].method
    /\ moved[Len(pages)].end = Len(m) + 1
    /\ \A j, k \in 1..Len(pages) : j < k => moved[j].end <= moved[k].start
    /\ \A p \in 1..Len(m) : \E k \in 1..Len(pages) : moved[k].start <= p /\ p < moved[k].end
    /\ \A p \in 1..Len(m) :
            LET page == moved[Cardinality({k \in DOMAIN pages : pages[k].start <= m[p].at})]
            IN  page.start <= p /\ p < page.end

LEMMA PagesMove ==
  ASSUME NEW n \in Nat, NEW m, Marked(m, n), NEW runs, Tiles(runs, m), NEW pages, PagesOver(pages, n),
         NEW moved, moved = MovedPages(pages, runs, Len(m))
  PROVE  PagesMoved(moved, pages, m)
<1> DEFINE L == Len(m)
           c == Len(pages)
           start(k) == IF k > c THEN L + 1 ELSE NormAt(pages[k].start, runs, L)
<1>1. /\ L \in Nat /\ DOMAIN m = 1..L
      /\ \A p \in 1..L : m[p].at \in 1..n
  <2>1. L \in Nat /\ DOMAIN m = 1..L
    BY MarkedIs
  <2> HIDE DEF L
  <2> QED BY <2>1 DEF Marked
<1>2. /\ c \in Nat \ {0} /\ DOMAIN pages = 1..c
      /\ pages[1].start = 1
      /\ \A k \in 1..c : pages[k].start \in Nat
      /\ \A j, k \in 1..c : j < k => pages[j].start <= pages[k].start
  BY DEF PagesOver
<1>3. moved = [k \in 1..c |-> [start |-> start(k), end |-> start(k + 1), method |-> pages[k].method]]
  BY <1>2 DEF MovedPages
<1>4. ASSUME NEW k \in 1..c
      PROVE  start(k) \in 1..(L + 1) /\ \A p \in 1..L : p < start(k) <=> m[p].at < pages[k].start
  <2>1. pages[k].start \in Nat /\ ~ (k > c)
    BY <1>2
  <2>2. start(k) = NormAt(pages[k].start, runs, L)
    BY <2>1
  <2>3. /\ NormAt(pages[k].start, runs, Len(m)) \in 1..(Len(m) + 1)
        /\ \A p \in 1..Len(m) : p < NormAt(pages[k].start, runs, Len(m)) <=> m[p].at < pages[k].start
    BY <2>1, NormAtIs
  <2> QED BY <2>2, <2>3
<1>5. start(c + 1) = L + 1
  BY <1>2
<1> HIDE DEF start, L, c
<1>6. /\ Len(moved) = c /\ DOMAIN moved = 1..c
      /\ \A k \in 1..c : /\ moved[k].start = start(k) /\ moved[k].end = start(k + 1)
                         /\ moved[k].method = pages[k].method
  BY <1>2, <1>3
<1>7. start(1) = 1
  <2>1. 1 \in 1..c
    BY <1>2
  <2>2. start(1) \in 1..(L + 1) /\ \A p \in 1..L : p < start(1) <=> m[p].at < 1
    BY <1>2, <1>4, <2>1
  <2> SUFFICES ASSUME start(1) # 1 PROVE FALSE
    OBVIOUS
  <2>3. 1 \in 1..L /\ 1 < start(1)
    BY <1>1, <2>2
  <2>4. m[1].at < 1 /\ m[1].at \in 1..n
    BY <1>1, <2>2, <2>3
  <2> QED BY <2>4
<1>8a. ASSUME NEW j \in 1..c, NEW k \in 1..c, j < k PROVE start(j) <= start(k)
  <2>1. start(j) \in 1..(L + 1) /\ start(k) \in 1..(L + 1)
    BY <1>4
  <2>2. ASSUME start(k) < start(j) PROVE FALSE
    <3> DEFINE q == start(k)
    <3>1. q \in 1..L /\ q < start(j) /\ ~ (q < start(k))
      BY <1>1, <2>1, <2>2
    <3> HIDE DEF q
    <3>2. m[q].at < pages[j].start /\ ~ (m[q].at < pages[k].start)
      BY <1>4, <3>1
    <3>3. /\ m[q].at \in 1..n /\ pages[j].start \in Nat /\ pages[k].start \in Nat
          /\ pages[j].start <= pages[k].start
      BY <1>1, <1>2, <1>8a, <3>1
    <3> QED BY <3>2, <3>3
  <2> QED BY <1>1, <2>1, <2>2
<1>8. ASSUME NEW k \in 1..c
      PROVE  start(k) \in 1..(L + 1) /\ start(k + 1) \in 1..(L + 1) /\ start(k) <= start(k + 1)
  <2>1. CASE k = c
    BY <1>1, <1>4, <1>5, <2>1
  <2>2. CASE k # c
    <3>1. k + 1 \in 1..c /\ k < k + 1
      BY <1>2, <2>2
    <3> QED BY <1>4, <1>8a, <3>1
  <2> QED BY <2>1, <2>2
<1>8b. ASSUME NEW j \in 1..c, NEW k \in 1..c, j < k PROVE moved[j].end <= moved[k].start
  <2>1. j + 1 \in 1..c /\ (j + 1 = k \/ j + 1 < k)
    BY <1>2, <1>8b
  <2>2. start(j + 1) <= start(k)
    BY <1>1, <1>4, <1>8a, <2>1
  <2> QED BY <1>6, <2>2
<1>9. ASSUME NEW k \in 1..c PROVE moved[k].start = IF k = 1 THEN 1 ELSE moved[k - 1].end
  <2>1. CASE k = 1
    BY <1>6, <1>7, <2>1
  <2>2. CASE k # 1
    <3>1. k - 1 \in 1..c /\ (k - 1) + 1 = k
      BY <1>2, <2>2
    <3> QED BY <1>6, <2>2, <3>1
  <2> QED BY <2>1, <2>2
<1>10. ASSUME NEW p \in 1..L
       PROVE  /\ \E k \in 1..c : moved[k].start <= p /\ p < moved[k].end
              /\ LET page == moved[Cardinality({k \in DOMAIN pages : pages[k].start <= m[p].at})]
                 IN  page.start <= p /\ p < page.end
  <2> DEFINE S == {k \in DOMAIN pages : pages[k].start <= m[p].at}
             j == Max(S)
  <2>1. S \in SUBSET (1..c) /\ 1 \in S
    <3>1. m[p].at \in 1..n /\ 1 \in 1..c
      BY <1>1, <1>2
    <3> QED BY <1>2, <3>1
  <2>2. j \in S /\ \A y \in S : j >= y
    <3> HIDE DEF S
    <3> QED BY <1>2, <2>1, MaxIsIn
  <2> HIDE DEF j
  <2>3. j \in 1..c /\ pages[j].start <= m[p].at /\ m[p].at \in Nat
    BY <1>1, <2>1, <2>2
  <2>4. S = 1..j
    <3>1. ASSUME NEW k \in 1..j PROVE k \in S
      <4>1. k \in 1..c /\ pages[k].start \in Nat /\ pages[j].start \in Nat
        BY <1>2, <2>3
      <4>2. pages[k].start <= pages[j].start
        BY <1>2, <2>3, <4>1
      <4> QED BY <1>2, <2>3, <4>1, <4>2
    <3>2. ASSUME NEW k \in S PROVE k \in 1..j
      <4>1. k \in 1..c /\ j >= k
        BY <2>1, <2>2
      <4> QED BY <1>2, <2>3, <4>1
    <3> HIDE DEF S
    <3> QED BY <3>1, <3>2
  <2>5. Cardinality(S) = j
    <3>1. 1 \in Int /\ j \in Int /\ j >= 1
      BY <1>2, <2>3
    <3>2. Cardinality(1..j) = j
      BY <3>1, FS_Interval
    <3> HIDE DEF S
    <3> QED BY <2>4, <3>2
  <2>6. moved[j].start <= p
    <3>1. ~ (p < start(j))
      BY <1>2, <1>4, <2>3
    <3> QED BY <1>1, <1>4, <1>6, <2>3, <3>1
  <2>7. p < moved[j].end
    <3>1. CASE j = c
      BY <1>1, <1>5, <1>6, <3>1, <2>3
    <3>2. CASE j # c
      <4>1. j + 1 \in 1..c
        BY <1>2, <2>3, <3>2
      <4>2. j + 1 \notin S
        BY <1>2, <2>2, <2>3
      <4>3. m[p].at < pages[j + 1].start
        BY <1>2, <2>3, <4>1, <4>2
      <4> QED BY <1>4, <1>6, <2>3, <4>1, <4>3
    <3> QED BY <3>1, <3>2
  <2> QED BY <2>3, <2>5, <2>6, <2>7
<1>11. moved[c].end = L + 1
  BY <1>2, <1>5, <1>6
<1>12. \A k \in 1..c : /\ moved[k].start \in 1..(L + 1) /\ moved[k].end \in 1..(L + 1)
                       /\ moved[k].start <= moved[k].end
  BY <1>6, <1>8
<1> QED BY <1>6, <1>8b, <1>9, <1>10, <1>11, <1>12 DEF PagesMoved, L, c

\* The parts of a text that has been read.
LEMMA SourceIs ==
  ASSUME NEW n \in Nat, NEW raw, raw = [i \in 1..n |-> raw[i]], NEW pages, PagesOver(pages, n),
         NEW source, source = SourceText(raw, pages), NEW m, m = NormalizeWithMap(raw)
  PROVE  /\ source.raw = raw /\ source.text = Normalize(raw)
         /\ source.runs = OffsetRuns(m) /\ source.pages = MovedPages(pages, source.runs, Len(m))
         /\ Marked(m, n) /\ Tiles(source.runs, m) /\ Settled(source.text)
         /\ Len(source.text) = Len(m) /\ DOMAIN source.text = 1..Len(m) /\ Len(m) \in Nat
         /\ \A k \in 1..Len(m) : source.text[k] = m[k].ch /\ ToRaw(k, source.runs) = m[k].at
         /\ SourceTextAccepted(source)
<1>1. source = [raw |-> raw, text |-> Chars(m), runs |-> OffsetRuns(m), pages |-> MovedPages(pages, OffsetRuns(m), Len(m))]
  BY DEF SourceText
<1>2. Marked(m, n) /\ Settled(Chars(m)) /\ Normalize(raw) = Chars(m)
  BY NormalizedIs DEF Normalize
<1>3. /\ source.raw = raw /\ source.text = Chars(m) /\ source.runs = OffsetRuns(m)
      /\ source.pages = MovedPages(pages, source.runs, Len(m))
  <2> DEFINE t == Chars(m)
             r == OffsetRuns(m)
             g == MovedPages(pages, r, Len(m))
  <2>1. source = [raw |-> raw, text |-> t, runs |-> r, pages |-> g]
    BY <1>1
  <2> HIDE DEF t, r, g
  <2>2. source.raw = raw /\ source.text = t /\ source.runs = r /\ source.pages = g
    BY <2>1
  <2> QED BY <2>2 DEF t, r, g
<1>4. /\ Len(m) \in Nat /\ Len(source.text) = Len(m) /\ DOMAIN source.text = 1..Len(m)
      /\ Chars(m) = [k \in 1..Len(m) |-> m[k].ch]
  <2>1. Marked(m, n)
    BY <1>2
  <2>2. /\ Len(m) \in Nat /\ DOMAIN Chars(m) = 1..Len(m) /\ Len(Chars(m)) = Len(m)
        /\ Chars(m) = [k \in 1..Len(m) |-> m[k].ch]
    <3>1. \A x : Marked(x, n) => /\ Len(x) \in Nat /\ DOMAIN Chars(x) = 1..Len(x) /\ Len(Chars(x)) = Len(x)
                                 /\ Chars(x) = [k \in 1..Len(x) |-> x[k].ch]
      BY MarkedIs
    <3> QED BY <2>1, <3>1
  <2> QED BY <1>3, <2>2
<1>5. \A k \in 1..Len(m) : source.text[k] = m[k].ch
  BY <1>3, <1>4
<1> DEFINE runs == source.runs
           moved == source.pages
           total == Len(source.text)
           c == Len(pages)
<1>6. Tiles(runs, m)
  BY <1>2, <1>3, RunsTile
<1>7. \A k \in 1..Len(m) : ToRaw(k, runs) = m[k].at
  BY <1>2, <1>6, ToRawIs
<1> HIDE DEF runs, moved
<1>8. /\ Len(moved) = c /\ DOMAIN moved = 1..c
      /\ \A k \in 1..c : /\ moved[k].start <= moved[k].end
                         /\ moved[k].start = IF k = 1 THEN 1 ELSE moved[k - 1].end
      /\ moved[c].end = total + 1
  <2>1. moved = MovedPages(pages, runs, Len(m))
    BY <1>3 DEF runs, moved
  <2>2. PagesMoved(moved, pages, m)
    BY <1>2, <1>6, <2>1, PagesMove
  <2> QED BY <1>4, <2>2 DEF PagesMoved
<1>9. Last(moved).end = total + 1
  BY <1>8 DEF Last
<1>10. /\ DOMAIN runs = 1..Len(runs)
       /\ \A k \in 1..Len(runs) : /\ runs[k].length > 0
                                  /\ runs[k].norm = IF k = 1 THEN 1 ELSE runs[k - 1].norm + runs[k - 1].length
       /\ IF runs = << >> THEN total = 0 ELSE runs[Len(runs)].norm + runs[Len(runs)].length = total + 1
  <2>1. /\ DOMAIN runs = 1..Len(runs)
        /\ \A k \in 1..Len(runs) : /\ runs[k].norm \in Nat \ {0} /\ runs[k].length \in Nat \ {0} /\ runs[k].raw \in Nat
                                   /\ Past(runs[k]) <= Len(m) + 1
                                   /\ runs[k].norm = IF k = 1 THEN 1 ELSE Past(runs[k - 1])
    BY <1>6 DEF Tiles
  <2>2. IF Len(m) = 0 THEN runs = << >> ELSE Len(runs) > 0 /\ Past(runs[Len(runs)]) = Len(m) + 1
    BY <1>6 DEF Tiles
  <2>3. IF runs = << >> THEN total = 0 ELSE Past(runs[Len(runs)]) = total + 1
    <3>1. CASE Len(m) = 0
      BY <1>4, <2>2, <3>1
    <3>2. CASE Len(m) # 0
      <4>1. runs # << >>
        <5>1. Len(<< >>) = 0
          OBVIOUS
        <5> QED BY <2>2, <3>2, <5>1
      <4> QED BY <1>4, <2>2, <3>2, <4>1
    <3> QED BY <3>1, <3>2
  <2>4. \A k \in 1..Len(runs) : runs[k].length > 0
    BY <2>1
  <2> QED BY <2>1, <2>3, <2>4 DEF Past
<1>11. SourceTextAccepted(source)
  <2>1. /\ \A k \in DOMAIN source.runs :
            /\ source.runs[k].length > 0
            /\ source.runs[k].norm = IF k = 1 THEN 1 ELSE source.runs[k - 1].norm + source.runs[k - 1].length
        /\ IF source.runs = << >> THEN total = 0
           ELSE source.runs[Len(source.runs)].norm + source.runs[Len(source.runs)].length = total + 1
    BY <1>10 DEF runs
  <2>2. /\ \A k \in DOMAIN source.pages :
            /\ source.pages[k].start <= source.pages[k].end
            /\ source.pages[k].start = IF k = 1 THEN 1 ELSE source.pages[k - 1].end
        /\ source.pages # << >> => Last(source.pages).end = total + 1
    BY <1>8, <1>9 DEF moved
  <2> QED BY <2>1, <2>2 DEF SourceTextAccepted
<1> QED BY <1>2, <1>3, <1>4, <1>5, <1>6, <1>7, <1>11 DEF runs

\* Every character of a text that has been read is one of the original's, whatever the
\* original and its pages (normalization.py, offsets.py, extract/node.py).
THEOREM EveryCharacterTraces ==
  ASSUME NEW n \in Nat, NEW raw, raw = [i \in 1..n |-> raw[i]], NEW pages, PagesOver(pages, n)
  PROVE  Traces(SourceText(raw, pages), pages)
<1> DEFINE source == SourceText(raw, pages)
           m == NormalizeWithMap(raw)
           L == Len(m)
           at(k) == ToRaw(k, source.runs)
           page(k) == source.pages[Cardinality({j \in DOMAIN pages : pages[j].start <= at(k)})]
<1>1. /\ source.raw = raw /\ source.text = Normalize(raw)
      /\ source.pages = MovedPages(pages, source.runs, Len(m))
      /\ Marked(m, n) /\ Tiles(source.runs, m) /\ Settled(source.text)
      /\ DOMAIN source.text = 1..L /\ L \in Nat
      /\ \A k \in 1..L : source.text[k] = m[k].ch /\ at(k) = m[k].at
      /\ SourceTextAccepted(source)
  <2> HIDE DEF source, m
  <2> QED BY SourceIs DEF source, m
<1>2. \A k \in 1..L : \/ Contains(Replacement(raw[m[k].at]), m[k].ch)
                      \/ m[k].ch = " " /\ raw[m[k].at] \in Space
  <2>1. DOMAIN m = 1..L
    BY <1>1, MarkedIs
  <2> QED BY <2>1, NormalizedIs
<1> HIDE DEF source, m
<1>3. Normalize(source.text) = source.text
  BY <1>1, SettledStays
<1>4. \A j, k \in 1..L : j < k => m[j].at <= m[k].at
  <2>1. DOMAIN m = 1..L
    BY <1>1, MarkedIs
  <2> QED BY <1>1, <2>1 DEF Marked
<1>5. ASSUME NEW p \in 1..L
      PROVE  LET page0 == source.pages[Cardinality({k \in DOMAIN pages : pages[k].start <= m[p].at})]
             IN  page0.start <= p /\ p < page0.end
  <2> HIDE DEF page, at
  <2>1. PagesMoved(source.pages, pages, m)
    BY <1>1, PagesMove
  <2> QED BY <2>1 DEF PagesMoved
<1>6. ASSUME NEW k \in 1..L
      PROVE  /\ \/ Contains(Replacement(source.raw[at(k)]), source.text[k])
                \/ source.text[k] = " " /\ source.raw[at(k)] \in Space
             /\ k > 1 => at(k - 1) <= at(k)
             /\ page(k).start <= k /\ k < page(k).end
  <2>1. k > 1 => at(k - 1) <= at(k)
    <3> SUFFICES ASSUME k > 1 PROVE at(k - 1) <= at(k)
      OBVIOUS
    <3>1. k - 1 \in 1..L /\ k - 1 < k
      BY <1>1
    <3> HIDE DEF at
    <3> QED BY <1>1, <1>4, <3>1
  <2>2. at(k) = m[k].at
    BY <1>1
  <2> HIDE DEF at
  <2>3. page(k).start <= k /\ k < page(k).end
    BY <1>5, <2>2
  <2> HIDE DEF page
  <2> QED BY <1>1, <1>2, <2>1, <2>2, <2>3
<1>7. Traces(source, pages)
  BY <1>1, <1>3, <1>6 DEF Traces
<1> QED BY <1>7 DEF source

\* The texts of the questions are such, and so are their pages.
TextsAsked == topic = "texts" => \E n \in Nat : /\ input.raw = [i \in 1..n |-> input.raw[i]]
                                                /\ PagesOver(input.pages, n)

LEMMA PageListsAre ==
  ASSUME NEW n \in Nat, NEW raw, Len(raw) = n, NEW pages \in PageLists(raw)
  PROVE  PagesOver(pages, n)
<1>1. CASE pages = << [start |-> 1, method |-> "DIGITAL_PDF"] >>
  <2>1. Len(pages) = 1 /\ DOMAIN pages = 1..1 /\ pages[1].start = 1
    BY <1>1
  <2> QED BY <2>1 DEF PagesOver
<1>2. ASSUME NEW p \in 2..n, pages = << [start |-> 1, method |-> "DIGITAL_PDF"], [start |-> p, method |-> "OCR"] >>
      PROVE  PagesOver(pages, n)
  <2>1. Len(pages) = 2 /\ DOMAIN pages = 1..2 /\ pages[1].start = 1 /\ pages[2].start = p
    BY <1>2
  <2>2. p \in 1..(n + 1) /\ 1 \in 1..(n + 1) /\ 1 <= p
    OBVIOUS
  <2>3. \A k \in 1..2 : k = 1 \/ k = 2
    OBVIOUS
  <2>4. \A k \in 1..2 : pages[k].start \in 1..(n + 1)
    BY <2>1, <2>2, <2>3
  <2>5. \A j, k \in 1..2 : j < k => pages[j].start <= pages[k].start
    BY <2>1, <2>2, <2>3
  <2> QED BY <2>1, <2>4, <2>5 DEF PagesOver
<1> QED BY <1>1, <1>2 DEF PageLists

LEMMA TextsAreAsked == Spec => []TextsAsked
<1>1. Init => TextsAsked
  BY DEF Init, TextsAsked
<1>2. AskTexts => TextsAsked'
  <2> SUFFICES ASSUME AskTexts
               PROVE  \E n \in Nat : /\ input'.raw = [i \in 1..n |-> input'.raw[i]]
                                     /\ PagesOver(input'.pages, n)
    BY DEF TextsAsked
  <2>1. PICK raw \in Texts(Letters, MaxText) : \E pages \in PageLists(raw) : input' = [raw |-> raw, pages |-> pages]
    BY DEF AskTexts
  <2>2. PICK pages \in PageLists(raw) : input' = [raw |-> raw, pages |-> pages]
    BY <2>1
  <2>3. PICK n \in 1..MaxText : raw \in [1..n -> Letters]
    BY DEF Texts
  <2>4. n \in Nat
    OBVIOUS
  <2>5. raw = [i \in 1..n |-> raw[i]] /\ Len(raw) = n
    BY <2>3, <2>4
  <2>6. PagesOver(pages, n)
    BY <2>4, <2>5, PageListsAre
  <2>7. input'.raw = raw /\ input'.pages = pages
    BY <2>2
  <2> QED BY <2>4, <2>5, <2>6, <2>7
<1>3. Next \/ UNCHANGED vars => (topic' = "texts" => AskTexts \/ UNCHANGED vars)
  BY DEF Next, Ask, AskRules, AskTexts, AskQuotes, AskChunks, AskMerges, AskScans, AskFiles, AskAnchors,
         AskDrafts, AskCosts, AskPanels, AskRubrics, AskBatches, AskRates
<1>4. TextsAsked /\ [Next]_vars => TextsAsked'
  BY <1>2, <1>3 DEF TextsAsked, vars
<1> QED BY <1>1, <1>4, PTL DEF Spec

\* What is read of them traces to them.
THEOREM TextsTrace == Spec => []TracesToTheOriginal
<1>1. TextsAsked => TracesToTheOriginal
  BY EveryCharacterTraces DEF TextsAsked, TracesToTheOriginal
<1> QED BY <1>1, TextsAreAsked, PTL

-----------------------------------------------------------------------------
(* What is quoted of them. *)

\* So many characters of a text, from a position on.
From(text, p, k) == [i \in 1..k |-> text[p + i - 1]]

LEMMA SliceIs ==
  ASSUME NEW text, NEW p \in Nat \ {0}, NEW k \in Nat
  PROVE  Slice(text, p, p + k) = From(text, p, k)
BY DEF Slice, From

\* Where a text holds another.
Places(text, needle) ==
    {p \in 1..Len(text) : /\ p + Len(needle) - 1 <= Len(text)
                          /\ \A i \in 1..Len(needle) : text[p + i - 1] = needle[i]}

LEMMA OccurrencesAre ==
  ASSUME NEW L \in Nat, NEW text, text = [i \in 1..L |-> text[i]],
         NEW c \in Nat \ {0}, NEW needle, needle = [i \in 1..c |-> needle[i]]
  PROVE  /\ Occurrences(text, needle) = Places(text, needle)
         /\ {p \in DOMAIN text : IsPrefix(needle, Slice(text, p, Len(text) + 1))} = Places(text, needle)
<1>1. Len(text) = L /\ DOMAIN text = 1..L /\ Len(needle) = c /\ DOMAIN needle = 1..c
  OBVIOUS
<1>2. ASSUME NEW p \in 1..L, p + c - 1 <= L
      PROVE  Slice(text, p, p + c) = needle <=> \A i \in 1..c : text[p + i - 1] = needle[i]
  <2>1. p \in Nat \ {0} /\ p + c <= L + 1
    BY <1>2
  <2>2. Slice(text, p, p + c) = From(text, p, c)
    BY <2>1, SliceIs
  <2>3. From(text, p, c) = [i \in 1..c |-> text[p + i - 1]]
    BY DEF From
  <2> QED BY <2>2, <2>3
<1>3. ASSUME NEW p \in 1..L
      PROVE  IsPrefix(needle, Slice(text, p, L + 1)) <=> p \in Places(text, needle)
  <2> DEFINE t == Slice(text, p, L + 1)
             l == (L + 1) - p
  <2>1. l \in Nat /\ p \in Nat \ {0} /\ p + l = L + 1 /\ 1..l = 1..((L + 1) - p)
    OBVIOUS
  <2>2. c <= l <=> p + c - 1 <= L
    OBVIOUS
  <2> HIDE DEF l
  <2>3. t = [i \in 1..l |-> text[p + i - 1]]
    <3>2. Slice(text, p, p + l) = From(text, p, l)
      BY <2>1, SliceIs
    <3> QED BY <2>1, <3>2 DEF From
  <2> HIDE DEF t
  <2>4. Len(t) = l /\ t = [i \in 1..l |-> t[i]] /\ \A i \in 1..l : t[i] = text[p + i - 1]
    BY <2>1, <2>3
  <2>5. SubSeq(needle, 1, c) = needle
    <3>1. 1 \in Nat \ {0} /\ 1 + c <= c + 1 /\ c \in Nat /\ (1 + c) - 1 = c
      OBVIOUS
    <3>2. Slice(needle, 1, 1 + c) = From(needle, 1, c)
      BY <3>1, SliceIs
    <3>3. \A i \in 1..c : 1 + i - 1 = i
      OBVIOUS
    <3>4. From(needle, 1, c) = [i \in 1..c |-> needle[i]]
      BY <3>3 DEF From
    <3> QED BY <3>1, <3>2, <3>4 DEF Slice
  <2>6. ASSUME c <= l PROVE SubSeq(t, 1, c) = [i \in 1..c |-> text[p + i - 1]]
    <3>1. 1 \in Nat \ {0} /\ 1 + c <= l + 1 /\ c \in Nat /\ (1 + c) - 1 = c
      BY <2>1, <2>6
    <3>2. Slice(t, 1, 1 + c) = From(t, 1, c)
      BY <3>1, SliceIs
    <3>3. \A i \in 1..c : 1 + i - 1 = i /\ i \in 1..l
      BY <2>1, <2>6
    <3>4. From(t, 1, c) = [i \in 1..c |-> text[p + i - 1]]
      BY <2>4, <3>3 DEF From
    <3> QED BY <3>1, <3>2, <3>4 DEF Slice
  <2>7. c <= l => (SubSeq(needle, 1, c) = SubSeq(t, 1, c) <=> \A i \in 1..c : text[p + i - 1] = needle[i])
    BY <2>5, <2>6
  <2>8. IsPrefix(needle, t) <=> c <= l /\ SubSeq(needle, 1, c) = SubSeq(t, 1, c)
    BY <1>1, <2>4 DEF IsPrefix
  <2>9. p \in Places(text, needle) <=> p + c - 1 <= L /\ \A i \in 1..c : text[p + i - 1] = needle[i]
    BY <1>1 DEF Places
  <2> QED BY <2>2, <2>7, <2>8, <2>9 DEF t
<1>4. Occurrences(text, needle) = Places(text, needle)
  <2>1. ASSUME NEW p \in 1..(L - c + 1) PROVE p \in 1..L /\ p + c - 1 <= L
    OBVIOUS
  <2>2. Occurrences(text, needle) = {p \in 1..(L - c + 1) : Slice(text, p, p + c) = needle}
    BY <1>1 DEF Occurrences
  <2>3. ASSUME NEW p PROVE p \in Occurrences(text, needle) <=> p \in Places(text, needle)
    <3>1. p \in 1..(L - c + 1) <=> p \in 1..L /\ p + c - 1 <= L
      OBVIOUS
    <3> QED BY <1>1, <1>2, <2>2, <3>1 DEF Places
  <2> QED BY <2>3
<1> QED BY <1>1, <1>3, <1>4 DEF Places

\* What is said of a quotation of a document, by where it is found.
VerdictOn(source, quote, claimed, near) ==
    LET needle == Normalize(quote)
        found == Occurrences(source.text, needle)
    IN  IF needle = << >> THEN Verdict("INVALID_NOT_FOUND", 0)
        ELSE IF claimed \in found THEN Verdict("VALID_EXACT", claimed)
        ELSE IF found # {} THEN Relocate(found, claimed)
        ELSE Fuzzy(source, claimed, near)

LEMMA ValidateIs ==
  ASSUME NEW source, NEW item, item.document = "own", NEW near
  PROVE  Validate(item, [d \in {"own"} |-> source], near) = VerdictOn(source, item.quote, item.claimed, near)
<1> DEFINE sources == [d \in {"own"} |-> source]
           needle == Normalize(item.quote)
           found == Occurrences(source.text, needle)
<1>1. item.document \in DOMAIN sources /\ sources[item.document] = source
  OBVIOUS
<1> HIDE DEF sources
<1>2. Validate(item, sources, near) =
        IF needle = << >> THEN Verdict("INVALID_NOT_FOUND", 0)
        ELSE CASE item.claimed \in found -> Verdict("VALID_EXACT", item.claimed)
               [] item.claimed \notin found /\ found # {} -> Relocate(found, item.claimed)
               [] OTHER -> Fuzzy(source, item.claimed, near)
  BY <1>1 DEF Validate
<1> HIDE DEF needle, found
<1>3. Validate(item, sources, near) =
        IF needle = << >> THEN Verdict("INVALID_NOT_FOUND", 0)
        ELSE IF item.claimed \in found THEN Verdict("VALID_EXACT", item.claimed)
        ELSE IF found # {} THEN Relocate(found, item.claimed)
        ELSE Fuzzy(source, item.claimed, near)
  BY <1>2
<1> QED BY <1>3 DEF VerdictOn, sources, needle, found

\* Where a quotation is found and not where it was claimed: the nearest place, or none
\* if there are several and all of them too far.
LEMMA RelocateIs ==
  ASSUME NEW found \in SUBSET Nat, IsFiniteSet(found), found # {}, NEW claimed \in Nat
  PROVE  \/ \E a \in found : /\ Relocate(found, claimed) = Verdict("VALID_NORMALIZED", a)
                             /\ \A q \in found : Distance(a, claimed) <= Distance(q, claimed)
         \/ /\ Relocate(found, claimed) = Verdict("INVALID_OFFSET_MISMATCH", 0)
            /\ Cardinality(found) > 1
            /\ \A p \in found : Distance(p, claimed) > Tolerance
<1> DEFINE d(p) == Distance(p, claimed)
           Near == {p \in found : \A q \in found : d(p) <= d(q)}
<1>1. \A p \in Nat : d(p) \in Nat
  BY DEF Distance
<1> HIDE DEF d
<1>2. \E p \in found : \A q \in found : d(p) <= d(q)
  <2> DEFINE S == {d(p) : p \in found}
  <2>1. S \in SUBSET Nat /\ S # {}
    BY <1>1
  <2> HIDE DEF S
  <2>2. PICK s \in S : \A t \in S : s <= t
    BY <2>1, LeastIsIn
  <2>3. PICK p \in found : s = d(p)
    BY DEF S
  <2>4. \A q \in found : d(q) \in S
    BY DEF S
  <2> QED BY <2>2, <2>3, <2>4
<1>3. Near \in SUBSET Nat /\ Near # {}
  BY <1>2
<1> HIDE DEF Near
<1>4. PICK a \in Near : \A k \in Near : a <= k
  BY <1>3, LeastIsIn
<1>5. Min(Near) = a
  <2>1. Near \in SUBSET Int
    BY <1>3
  <2> QED BY <1>4, <2>1, MinIs
<1>6. a \in found /\ \A q \in found : d(a) <= d(q)
  BY DEF Near
<1>7. Relocate(found, claimed) =
        IF Cardinality(found) = 1 \/ d(a) <= Tolerance THEN Verdict("VALID_NORMALIZED", a)
        ELSE Verdict("INVALID_OFFSET_MISMATCH", 0)
  BY <1>5 DEF Relocate, Near, d
<1>8. Cardinality(found) \in Nat /\ Cardinality(found) # 0
  BY FS_CardinalityType, FS_EmptySet
<1>9. CASE Cardinality(found) = 1 \/ d(a) <= Tolerance
  BY <1>6, <1>7, <1>9 DEF d
<1>10. CASE ~ (Cardinality(found) = 1 \/ d(a) <= Tolerance)
  <2>1. \A p \in found : d(p) > Tolerance
    <3>1. Tolerance \in Nat
      BY ProvenanceAssumption
    <3> QED BY <1>1, <1>6, <1>10, <3>1
  <2>2. Cardinality(found) > 1
    BY <1>8, <1>10
  <2> QED BY <1>7, <1>10, <2>1, <2>2 DEF d
<1> QED BY <1>9, <1>10

\* Where nothing is near enough, nothing is found on likeness.
LEMMA NothingAlike == \A source, claimed : Fuzzy(source, claimed, {}) = Verdict("INVALID_NOT_FOUND", 0)
BY DEF Fuzzy

\* Places are positions of the text.
LEMMA PlacesAre ==
  ASSUME NEW L \in Nat, NEW text, text = [i \in 1..L |-> text[i]], NEW needle
  PROVE  Places(text, needle) \in SUBSET (1..L) /\ IsFiniteSet(Places(text, needle))
<1>1. Places(text, needle) \in SUBSET (1..L)
  BY DEF Places
<1>2. IsFiniteSet(1..L)
  <2>1. 1 \in Int /\ L \in Int
    OBVIOUS
  <2> QED BY <2>1, FS_Interval
<1> QED BY <1>1, <1>2, FS_Subset

\* A text that nothing is left of, or one with so many characters.
LEMMA NeedleIs ==
  ASSUME NEW needle, Settled(needle)
  PROVE  needle = << >> \/ \E c \in Nat \ {0} : needle = [i \in 1..c |-> needle[i]]
<1>1. PICK c \in Nat : needle = [i \in 1..c |-> needle[i]]
  BY DEF Settled
<1>2. CASE c = 0
  <2>1. needle = [i \in 1..0 |-> needle[i]]
    BY <1>1, <1>2
  <2> QED BY <2>1
<1> QED BY <1>1, <1>2

LEMMA EvidenceIs ==
  ASSUME NEW L \in Nat, NEW source, source.text = [i \in 1..L |-> source.text[i]],
         NEW item, item.document = "own", item.claimed \in Nat, Settled(Normalize(item.quote)), NEW near
  PROVE  EvidenceIsWhereItIs(Validate(item, [d \in {"own"} |-> source], near), item.claimed,
                             Normalize(item.quote), source.text)
<1> DEFINE text == source.text
           needle == Normalize(item.quote)
           claimed == item.claimed
           found == Occurrences(text, needle)
           verdict == Validate(item, [d \in {"own"} |-> source], near)
           places == {p \in DOMAIN text : IsPrefix(needle, Slice(text, p, Len(text) + 1))}
<1>1. verdict = IF needle = << >> THEN Verdict("INVALID_NOT_FOUND", 0)
                ELSE IF claimed \in found THEN Verdict("VALID_EXACT", claimed)
                ELSE IF found # {} THEN Relocate(found, claimed)
                ELSE Fuzzy(source, claimed, near)
  BY ValidateIs DEF VerdictOn
<1>2. claimed \in Nat /\ Settled(needle) /\ text = [i \in 1..L |-> text[i]]
  OBVIOUS
<1> HIDE DEF needle, claimed, verdict, text
<1>3. needle # << >> => /\ found = places
                        /\ found \in SUBSET (1..L) /\ IsFiniteSet(found)
  <2> SUFFICES ASSUME needle # << >> PROVE found = places /\ found \in SUBSET (1..L) /\ IsFiniteSet(found)
    OBVIOUS
  <2>1. PICK c \in Nat \ {0} : needle = [i \in 1..c |-> needle[i]]
    BY <1>2, NeedleIs
  <2>2. found = Places(text, needle) /\ places = Places(text, needle)
    BY <1>2, <2>1, OccurrencesAre
  <2>3. Places(text, needle) \in SUBSET (1..L) /\ IsFiniteSet(Places(text, needle))
    BY <1>2, PlacesAre
  <2> HIDE DEF found, places
  <2> QED BY <2>2, <2>3
<1> HIDE DEF found, places
<1>4. VALID_SPAN_VALIDATIONS = {"VALID_EXACT", "VALID_NORMALIZED", "VALID_FUZZY_OCR"}
  BY DEF VALID_SPAN_VALIDATIONS
<1> DEFINE Goal == CASE verdict.validation \in VALID_SPAN_VALIDATIONS /\ places # {} ->
                          /\ verdict.at \in places
                          /\ \A p \in places : Distance(verdict.at, claimed) <= Distance(p, claimed)
                          /\ (verdict.validation = "VALID_EXACT") = (verdict.at = claimed)
                     [] verdict.validation = "INVALID_OFFSET_MISMATCH" ->
                          /\ Cardinality(places) > 1
                          /\ \A p \in places : Distance(p, claimed) > Tolerance
                     [] OTHER -> places = {} \/ needle = << >>
<1>5. CASE needle = << >>
  <2>1. verdict.validation = "INVALID_NOT_FOUND"
    BY <1>1, <1>5 DEF Verdict
  <2> QED BY <1>4, <1>5, <2>1 DEF EvidenceIsWhereItIs, places, verdict, needle, text, claimed
<1>6. CASE needle # << >> /\ claimed \in found
  <2>1. verdict.validation = "VALID_EXACT" /\ verdict.at = claimed
    BY <1>1, <1>6 DEF Verdict
  <2>2. claimed \in places
    BY <1>3, <1>6
  <2>3. \A p \in places : Distance(claimed, claimed) <= Distance(p, claimed)
    BY <1>2, <1>3, <1>6 DEF Distance
  <2>4. Goal
    BY <1>4, <2>1, <2>2, <2>3
  <2> QED BY <2>4 DEF EvidenceIsWhereItIs, places, verdict, needle, text, claimed
<1>7. CASE needle # << >> /\ claimed \notin found /\ found # {}
  <2>1. verdict = Relocate(found, claimed) /\ found = places
    BY <1>1, <1>3, <1>7
  <2>2. \/ \E a \in found : /\ Relocate(found, claimed) = Verdict("VALID_NORMALIZED", a)
                            /\ \A q \in found : Distance(a, claimed) <= Distance(q, claimed)
        \/ /\ Relocate(found, claimed) = Verdict("INVALID_OFFSET_MISMATCH", 0)
           /\ Cardinality(found) > 1
           /\ \A p \in found : Distance(p, claimed) > Tolerance
    <3>1. found \in SUBSET Nat /\ IsFiniteSet(found)
      BY <1>3, <1>7
    <3> QED BY <1>2, <1>7, <3>1, RelocateIs
  <2>3. CASE \E a \in found : /\ Relocate(found, claimed) = Verdict("VALID_NORMALIZED", a)
                              /\ \A q \in found : Distance(a, claimed) <= Distance(q, claimed)
    <3>1. PICK a \in found : /\ verdict = Verdict("VALID_NORMALIZED", a)
                             /\ \A q \in found : Distance(a, claimed) <= Distance(q, claimed)
      BY <2>1, <2>3
    <3>2. verdict.validation = "VALID_NORMALIZED" /\ verdict.at = a /\ a # claimed
      BY <1>7, <3>1 DEF Verdict
    <3>3. Goal
      BY <1>4, <2>1, <3>1, <3>2
    <3> QED BY <3>3 DEF EvidenceIsWhereItIs, places, verdict, needle, text, claimed
  <2>4. CASE /\ Relocate(found, claimed) = Verdict("INVALID_OFFSET_MISMATCH", 0)
             /\ Cardinality(found) > 1
             /\ \A p \in found : Distance(p, claimed) > Tolerance
    <3>1. verdict.validation = "INVALID_OFFSET_MISMATCH"
      BY <2>1, <2>4 DEF Verdict
    <3>2. Goal
      BY <1>4, <2>1, <2>4, <3>1
    <3> QED BY <3>2 DEF EvidenceIsWhereItIs, places, verdict, needle, text, claimed
  <2> QED BY <2>2, <2>3, <2>4
<1>8. CASE needle # << >> /\ found = {}
  <2>1. verdict = Fuzzy(source, claimed, near) /\ places = {}
    BY <1>1, <1>3, <1>8
  <2>2. verdict.validation # "INVALID_OFFSET_MISMATCH"
    BY <2>1 DEF Fuzzy, Verdict
  <2>3. Goal
    BY <2>1, <2>2
  <2> QED BY <2>3 DEF EvidenceIsWhereItIs, places, verdict, needle, text, claimed
<1> QED BY <1>5, <1>6, <1>7, <1>8 DEF verdict, needle, text, claimed

\* A value read in a text is placed where a quotation of it is found: at the first
\* place, on the page it begins on, and as far as the page it ends on.
LEMMA PlaceIs ==
  ASSUME NEW L \in Nat, NEW c \in Nat \ {0}, NEW source, NEW needle, Len(needle) = c,
         needle # << >>, source.text = [i \in 1..L |-> source.text[i]],
         NEW found, found = Occurrences(source.text, needle), found = Places(source.text, needle),
         NEW C \in Nat \ {0}, DOMAIN source.pages = 1..C, source.pages # << >>,
         \A k \in 1..C : /\ source.pages[k].start \in Nat /\ source.pages[k].end \in Nat
                         /\ source.pages[k].start <= source.pages[k].end,
         \A j, k \in 1..C : j < k => source.pages[j].end <= source.pages[k].start,
         \A p \in 1..L : \E k \in 1..C : source.pages[k].start <= p /\ p < source.pages[k].end
  PROVE  LET place == FirstPlace(needle, source)
         IN  IF found = {} THEN place = << >>
             ELSE /\ place # << >> /\ place[1].start \in found
                  /\ place[1].method = PageMethod(source, place[1].start)
                  /\ source.pages[place[1].last].end >= place[1].end
<1> DEFINE start == Min(found)
           end == start + c
           Touching == {k \in DOMAIN source.pages : source.pages[k].start < end /\ start < source.pages[k].end}
           Of == {k \in DOMAIN source.pages : source.pages[k].start <= start /\ start < source.pages[k].end}
           place == FirstPlace(needle, source)
<1>1. place = IF found = {} THEN << >> ELSE IF Touching = {} THEN << >>
              ELSE << [start |-> start, end |-> end, first |-> Min(Touching), last |-> Max(Touching),
                       method |-> source.pages[Min(Touching)].method] >>
  BY DEF FirstPlace
<1> HIDE DEF place
<1>2. CASE found = {}
  BY <1>1, <1>2 DEF place
<1>3. CASE found # {}
  <2>1. Len(source.text) = L
    OBVIOUS
  <2>2. found \in SUBSET (1..L) /\ \A p \in found : p + c - 1 <= L
    BY <2>1 DEF Places
  <2>3. PICK s \in found : \A q \in found : s <= q
    <3>1. found \in SUBSET Nat
      BY <2>2
    <3> QED BY <1>3, <3>1, LeastIsIn
  <2>4. start = s
    <3>1. found \in SUBSET Int
      BY <2>2
    <3> QED BY <2>3, <3>1, MinIs
  <2> HIDE DEF start
  <2>5. start \in found /\ start \in 1..L /\ start + c - 1 \in 1..L
    <3>1. s \in 1..L /\ s + c - 1 <= L
      BY <2>2
    <3>2. s + c - 1 \in 1..L
      BY <3>1
    <3> QED BY <2>3, <2>4, <3>1, <3>2
  <2>6. PICK a \in 1..C : source.pages[a].start <= start /\ start < source.pages[a].end
    BY <2>5
  <2>7. a \in Touching /\ a \in Of
    BY <2>5, <2>6
  <2>8. \A j \in 1..C : start < source.pages[j].end => a <= j
    <3> SUFFICES ASSUME NEW j \in 1..C, j < a PROVE ~ (start < source.pages[j].end)
      OBVIOUS
    <3>1. source.pages[j].end <= source.pages[a].start
      OBVIOUS
    <3>2. /\ source.pages[j].end \in Nat /\ source.pages[a].start \in Nat /\ start \in Nat
          /\ source.pages[a].start <= start
      BY <2>5, <2>6
    <3> QED BY <3>1, <3>2
  <2>9. Min(Touching) = a /\ Min(Of) = a
    <3>1. Touching \in SUBSET Int /\ Of \in SUBSET Int /\ \A k \in Touching : a <= k
      BY <2>8
    <3>2. \A k \in Of : a <= k
      BY <2>8
    <3> HIDE DEF Touching, Of
    <3> QED BY <2>7, <3>1, <3>2, MinIs
  <2>10. PageMethod(source, start) = source.pages[a].method
    <3>1. Of # {}
      BY <2>7
    <3> QED BY <2>9, <3>1 DEF PageMethod
  <2> DEFINE M == Max(Touching)
  <2>11. M \in Touching /\ \A y \in Touching : M >= y
    <3>1. Touching \in SUBSET (1..C) /\ Touching # {}
      BY <2>7
    <3> HIDE DEF Touching
    <3> QED BY <3>1, MaxIsIn
  <2> HIDE DEF M
  <2>12. source.pages[M].end >= end
    <3>1. PICK b \in 1..C : source.pages[b].start <= start + c - 1 /\ start + c - 1 < source.pages[b].end
      BY <2>5
    <3>2. b \in Touching
      <4>1. PICK x \in Nat, y \in Nat : x = source.pages[b].start /\ y = source.pages[b].end
        OBVIOUS
      <4>2. x <= start + c - 1 /\ start + c - 1 < y
        BY <3>1, <4>1
      <4>3. start \in Nat
        BY <2>5
      <4>4. x < end /\ start < y
        BY <4>2, <4>3
      <4> QED BY <4>1, <4>4
    <3>3. M \in 1..C /\ M >= b /\ source.pages[b].end >= end
      <4>1. M \in 1..C /\ M >= b
        BY <2>11, <3>2
      <4>2. source.pages[b].end \in Nat /\ start \in Nat
        BY <2>5
      <4> QED BY <3>1, <4>1, <4>2
    <3>4. CASE M = b
      BY <3>3, <3>4
    <3>5. CASE b < M
      <4>1. source.pages[b].end <= source.pages[M].start /\ source.pages[M].start <= source.pages[M].end
        BY <3>3, <3>5
      <4> HIDE DEF end
      <4>2. end \in Nat
        BY <2>5 DEF end
      <4> QED BY <3>3, <4>1, <4>2
    <3> QED BY <3>3, <3>4, <3>5
  <2> DEFINE r == [start |-> start, end |-> end, first |-> Min(Touching), last |-> M, method |-> source.pages[a].method]
  <2>13. Touching # {}
    BY <2>7
  <2> HIDE DEF end, Touching
  <2>14. place = << r >>
    BY <1>1, <1>3, <2>9, <2>13 DEF M
  <2>15. r.start = start /\ r.end = end /\ r.last = M /\ r.method = source.pages[a].method
    OBVIOUS
  <2> HIDE DEF r
  <2>16. place # << >> /\ place[1] = r
    BY <2>14
  <2> QED BY <1>3, <2>5, <2>10, <2>12, <2>15, <2>16 DEF place
<1> QED BY <1>2, <1>3

\* A piece of evidence claimed to be somewhere else.
Claimed(item, at) == [item EXCEPT !.claimed = at]

LEMMA ClaimedIs ==
  ASSUME NEW quote, NEW claimed, NEW at, NEW item,
         item = [document |-> "own", quote |-> quote, claimed |-> claimed]
  PROVE  /\ Claimed(item, at).document = "own" /\ Claimed(item, at).quote = quote
         /\ Claimed(item, at).claimed = at
<1> DEFINE s == Claimed(item, at)
<1>1. item \in [document : {"own"}, quote : {quote}, claimed : {claimed, at}]
  OBVIOUS
<1>2. s \in [document : {"own"}, quote : {quote}, claimed : {claimed, at}]
  BY <1>1 DEF Claimed
<1>3. s.claimed = at
  BY <1>1 DEF Claimed
<1> HIDE DEF s
<1>4. s.document = "own" /\ s.quote = quote
  BY <1>2
<1> QED BY <1>3, <1>4 DEF s

\* A piece of evidence of the document.
Evidence(quote, claimed) == [document |-> "own", quote |-> quote, claimed |-> claimed]

\* What is said of it, there being no likeness to go by.
SaidOf(item, at, source) == Validate(Claimed(item, at), [d \in {"own"} |-> source], {})

LEMMA ClaimedThere ==
  ASSUME NEW quote, NEW claimed, NEW at, NEW item, item = Evidence(quote, claimed), NEW source
  PROVE  SaidOf(item, at, source) = VerdictOn(source, quote, at, {})
<1> DEFINE other == Claimed(item, at)
<1>1. other.document = "own" /\ other.quote = quote /\ other.claimed = at
  BY ClaimedIs DEF Evidence
<1> HIDE DEF other
<1>2. Validate(other, [d \in {"own"} |-> source], {}) = VerdictOn(source, other.quote, other.claimed, {})
  BY <1>1, ValidateIs
<1> QED BY <1>1, <1>2 DEF SaidOf, other

\* Whatever the original and its pages, and whatever is quoted of it and said to be
\* anywhere: what the validator says of the quotation is true of the document, and the
\* profile places the same words where evidence of them is found (spans.py, structure.py).
THEOREM EveryQuotationIsWhereItIs ==
  ASSUME NEW n \in Nat, NEW raw, raw = [i \in 1..n |-> raw[i]], NEW pages, PagesOver(pages, n),
         NEW l \in Nat, NEW quote, quote = [i \in 1..l |-> quote[i]], NEW claimed \in Nat, NEW near,
         NEW item, item = Evidence(quote, claimed)
  PROVE  Located(item, SourceText(raw, pages), near)
<1> DEFINE source == SourceText(raw, pages)
           m == NormalizeWithMap(raw)
           L == Len(m)
           needle == Normalize(quote)
           found == Occurrences(source.text, needle)
           C == Len(pages)
<1>1. item.document = "own" /\ item.quote = quote /\ item.claimed = claimed
  BY DEF Evidence
<1>2. Settled(needle)
  BY NormalizedIs
<1>3. /\ source.pages = MovedPages(pages, source.runs, L)
      /\ Marked(m, n) /\ Tiles(source.runs, m) /\ Settled(source.text)
      /\ DOMAIN source.text = 1..L /\ L \in Nat
  <2> HIDE DEF source, m
  <2> QED BY SourceIs DEF source, m
<1> HIDE DEF source, m, needle, found
<1>4. source.text = [i \in 1..L |-> source.text[i]]
  <2>1. PICK k \in Nat : source.text = [i \in 1..k |-> source.text[i]]
    BY <1>3 DEF Settled
  <2> QED BY <1>3, <2>1
<1>5. PagesMoved(source.pages, pages, m)
  BY <1>3, PagesMove
<1>6. /\ C \in Nat \ {0} /\ DOMAIN source.pages = 1..C /\ source.pages # << >>
      /\ \A k \in 1..C : /\ source.pages[k].start \in Nat /\ source.pages[k].end \in Nat
                         /\ source.pages[k].start <= source.pages[k].end
      /\ \A j, k \in 1..C : j < k => source.pages[j].end <= source.pages[k].start
      /\ \A p \in 1..L : \E k \in 1..C : source.pages[k].start <= p /\ p < source.pages[k].end
  <2>1. C \in Nat \ {0}
    BY DEF PagesOver
  <2>2. DOMAIN source.pages = 1..C
    BY <1>5 DEF PagesMoved
  <2>3. source.pages # << >>
    <3>1. 1 \in 1..C
      BY <2>1
    <3> HIDE DEF C
    <3>2. DOMAIN source.pages # {}
      BY <2>2, <3>1
    <3> QED BY <3>2
  <2>4. \A k \in 1..C : /\ source.pages[k].start \in Nat /\ source.pages[k].end \in Nat
                        /\ source.pages[k].start <= source.pages[k].end
    BY <1>3, <1>5 DEF PagesMoved
  <2>5. /\ \A j, k \in 1..C : j < k => source.pages[j].end <= source.pages[k].start
        /\ \A p \in 1..L : \E k \in 1..C : source.pages[k].start <= p /\ p < source.pages[k].end
    BY <1>5 DEF PagesMoved
  <2> QED BY <2>1, <2>2, <2>3, <2>4, <2>5
<1> HIDE DEF L, C
<1>7. EvidenceIsWhereItIs(Validate(item, [d \in {"own"} |-> source], near), item.claimed,
                          Normalize(item.quote), source.text)
  BY <1>1, <1>2, <1>3, <1>4, EvidenceIs DEF needle
<1>8. \A at : SaidOf(item, at, source) = VerdictOn(source, quote, at, {})
  BY ClaimedThere
<1>9. ASSUME near = {} PROVE ProfileAgrees(Locate(item.quote, source), item, source)
  <2> DEFINE place == FirstPlace(needle, source)
             verdict(at) == SaidOf(item, at, source)
  <2>1. ASSUME NEW at
        PROVE  verdict(at) = IF needle = << >> THEN Verdict("INVALID_NOT_FOUND", 0)
                             ELSE IF at \in found THEN Verdict("VALID_EXACT", at)
                             ELSE IF found # {} THEN Relocate(found, at)
                             ELSE Fuzzy(source, at, {})
    BY <1>8 DEF VerdictOn, needle, found
  <2> HIDE DEF verdict, place
  <2>2. Locate(item.quote, source) = place
    BY <1>1 DEF Locate, place, needle
  <2>3. ProfileAgrees(place, item, source) <=>
          IF place = << >> THEN verdict(item.claimed).validation = "INVALID_NOT_FOUND"
          ELSE /\ verdict(place[1].start) = Verdict("VALID_EXACT", place[1].start)
               /\ place[1].method = PageMethod(source, place[1].start)
               /\ source.pages[place[1].last].end >= place[1].end
    BY DEF ProfileAgrees, verdict, SaidOf, Claimed
  <2>4. CASE needle = << >>
    <3>1. place = << >>
      BY <2>4 DEF place, FirstPlace
    <3>2. verdict(item.claimed) = Verdict("INVALID_NOT_FOUND", 0)
      BY <2>1, <2>4
    <3>3. verdict(item.claimed).validation = "INVALID_NOT_FOUND"
      BY <3>2 DEF Verdict
    <3> QED BY <2>2, <2>3, <3>1, <3>3
  <2>5. CASE needle # << >>
    <3>1. PICK c \in Nat \ {0} : needle = [i \in 1..c |-> needle[i]]
      BY <1>2, <2>5, NeedleIs
    <3>2. Len(needle) = c /\ found = Places(source.text, needle)
      <4>1. Len(needle) = c
        BY <3>1
      <4>2. Occurrences(source.text, needle) = Places(source.text, needle)
        <5> DEFINE text == source.text
        <5>1. text = [i \in 1..L |-> text[i]] /\ L \in Nat
          BY <1>3, <1>4
        <5> HIDE DEF text
        <5>2. Occurrences(text, needle) = Places(text, needle)
          BY <3>1, <5>1, OccurrencesAre
        <5> QED BY <5>2 DEF text
      <4> QED BY <4>1, <4>2 DEF found
    <3>3. IF found = {} THEN place = << >>
          ELSE /\ place # << >> /\ place[1].start \in found
               /\ place[1].method = PageMethod(source, place[1].start)
               /\ source.pages[place[1].last].end >= place[1].end
      <4>1. found = Occurrences(source.text, needle)
        BY DEF found
      <4>2. LET place0 == FirstPlace(needle, source)
            IN  IF found = {} THEN place0 = << >>
                ELSE /\ place0 # << >> /\ place0[1].start \in found
                     /\ place0[1].method = PageMethod(source, place0[1].start)
                     /\ source.pages[place0[1].last].end >= place0[1].end
        BY <1>3, <1>4, <1>6, <2>5, <3>2, <4>1, PlaceIs
      <4> QED BY <4>2 DEF place
    <3>4. CASE found = {}
      <4>1. verdict(item.claimed) = Verdict("INVALID_NOT_FOUND", 0)
        BY <2>1, <2>5, <3>4, NothingAlike
      <4>2. verdict(item.claimed).validation = "INVALID_NOT_FOUND"
        BY <4>1 DEF Verdict
      <4> QED BY <2>2, <2>3, <3>3, <3>4, <4>2
    <3>5. CASE found # {}
      <4>1. verdict(place[1].start) = Verdict("VALID_EXACT", place[1].start)
        BY <2>1, <2>5, <3>3, <3>5
      <4> QED BY <2>2, <2>3, <3>3, <3>5, <4>1
    <3> QED BY <3>4, <3>5
  <2> QED BY <2>4, <2>5
<1> QED BY <1>7, <1>9 DEF Located, source

\* The quotations of the questions are such.
QuotesAsked == topic = "quotes" =>
    \E n, l \in Nat : /\ input.raw = [i \in 1..n |-> input.raw[i]] /\ PagesOver(input.pages, n)
                      /\ input.item.quote = [i \in 1..l |-> input.item.quote[i]]
                      /\ input.item.claimed \in Nat
                      /\ input.item = [document |-> "own", quote |-> input.item.quote, claimed |-> input.item.claimed]

LEMMA QuotesAreAsked == Spec => []QuotesAsked
<1>1. Init => QuotesAsked
  BY DEF Init, QuotesAsked
<1>2. AskQuotes => QuotesAsked'
  <2> SUFFICES ASSUME AskQuotes
               PROVE  \E n, l \in Nat :
                        /\ input'.raw = [i \in 1..n |-> input'.raw[i]] /\ PagesOver(input'.pages, n)
                        /\ input'.item.quote = [i \in 1..l |-> input'.item.quote[i]]
                        /\ input'.item.claimed \in Nat
                        /\ input'.item = [document |-> "own", quote |-> input'.item.quote,
                                          claimed |-> input'.item.claimed]
    BY DEF QuotesAsked
  <2>1. PICK raw \in Texts(QuoteLetters, MaxText - 1) : \E pages \in PageLists(raw) :
            \E quote \in Needles(Normalize(raw)) \cup { << "i", "i" >> } :
            \E claimed \in {1, 3, MaxText + 1}, near \in {{}, {"as_is"}, {"folded"}} :
                input' = [raw |-> raw, pages |-> pages, near |-> near,
                          item |-> [document |-> "own", quote |-> quote, claimed |-> claimed]]
    BY DEF AskQuotes
  <2>2. PICK pages \in PageLists(raw) : \E quote \in Needles(Normalize(raw)) \cup { << "i", "i" >> } :
            \E claimed \in {1, 3, MaxText + 1}, near \in {{}, {"as_is"}, {"folded"}} :
                input' = [raw |-> raw, pages |-> pages, near |-> near,
                          item |-> [document |-> "own", quote |-> quote, claimed |-> claimed]]
    BY <2>1
  <2>3. PICK quote \in Needles(Normalize(raw)) \cup { << "i", "i" >> },
             claimed \in {1, 3, MaxText + 1}, near \in {{}, {"as_is"}, {"folded"}} :
                input' = [raw |-> raw, pages |-> pages, near |-> near,
                          item |-> [document |-> "own", quote |-> quote, claimed |-> claimed]]
    BY <2>2
  <2>4. PICK n \in 1..(MaxText - 1) : raw \in [1..n -> QuoteLetters]
    BY DEF Texts
  <2>5. n \in Nat
    OBVIOUS
  <2>6. raw = [i \in 1..n |-> raw[i]] /\ Len(raw) = n
    BY <2>4, <2>5
  <2>7. PagesOver(pages, n)
    BY <2>5, <2>6, PageListsAre
  <2>8. \E l \in Nat : quote = [i \in 1..l |-> quote[i]]
    <3>1. CASE quote = << "i", "i" >>
      <4>1. quote = [i \in 1..2 |-> quote[i]]
        BY <3>1
      <4> QED BY <4>1
    <3>2. CASE quote # << "i", "i" >>
      <4>1. quote \in Needles(Normalize(raw))
        BY <2>3, <3>2
      <4>2. PICK a \in DOMAIN Normalize(raw), b \in 1..(Len(Normalize(raw)) + 1) : quote = Slice(Normalize(raw), a, b)
        BY <4>1 DEF Needles
      <4>3. quote # << >>
        BY <4>1 DEF Needles
      <4>4. a \in Nat \ {0} /\ b \in Int
        <5>1. Marked(NormalizeWithMap(raw), n)
          BY <2>5, <2>6, NormalizedIs
        <5>2. DOMAIN Normalize(raw) = 1..Len(NormalizeWithMap(raw))
          BY <5>1, MarkedIs DEF Normalize
        <5> QED BY <4>2, <5>2
      <4> HIDE DEF Normalize
      <4>5. quote = SubSeq(Normalize(raw), a, b - 1)
        BY <4>2 DEF Slice
      <4>6. CASE b <= a
        <5>1. quote = << >>
          BY <4>4, <4>5, <4>6
        <5> QED BY <4>3, <5>1
      <4>7. CASE ~ (b <= a)
        <5> DEFINE k == b - a
        <5>1. k \in Nat /\ b = a + k
          BY <4>4, <4>7
        <5> HIDE DEF k
        <5>2. quote = From(Normalize(raw), a, k)
          BY <4>2, <4>4, <5>1, SliceIs
        <5>3. quote = [i \in 1..k |-> quote[i]]
          BY <5>2 DEF From
        <5> QED BY <5>1, <5>3
      <4> QED BY <4>6, <4>7
    <3> QED BY <3>1, <3>2
  <2>9. claimed \in Nat
    <3>1. MaxText \in Nat
      BY CalculationsAssumption
    <3> QED BY <2>3, <3>1
  <2>10. /\ input'.raw = raw /\ input'.pages = pages
         /\ input'.item = [document |-> "own", quote |-> quote, claimed |-> claimed]
    BY <2>3
  <2>11. input'.item.quote = quote /\ input'.item.claimed = claimed
    BY <2>10
  <2> QED BY <2>5, <2>6, <2>7, <2>8, <2>9, <2>10, <2>11
<1>3. Next \/ UNCHANGED vars => (topic' = "quotes" => AskQuotes \/ UNCHANGED vars)
  BY DEF Next, Ask, AskRules, AskTexts, AskQuotes, AskChunks, AskMerges, AskScans, AskFiles, AskAnchors,
         AskDrafts, AskCosts, AskPanels, AskRubrics, AskBatches, AskRates
<1>4. QuotesAsked /\ [Next]_vars => QuotesAsked'
  <2> SUFFICES ASSUME QuotesAsked, [Next]_vars PROVE QuotesAsked'
    OBVIOUS
  <2>1. CASE topic' # "quotes"
    BY <2>1 DEF QuotesAsked
  <2>2. CASE UNCHANGED vars
    <3>1. topic' = topic /\ input' = input
      BY <2>2 DEF vars
    <3> QED BY <3>1 DEF QuotesAsked
  <2> QED BY <1>2, <1>3, <2>1, <2>2
<1> QED BY <1>1, <1>4, PTL DEF Spec

\* What is said of them is true of the document.
THEOREM QuotesAreWhereTheyAre == Spec => []LocatedWhereItIs
<1>1. QuotesAsked => LocatedWhereItIs
  <2> SUFFICES ASSUME QuotesAsked, topic = "quotes"
               PROVE  Located(input.item, SourceText(input.raw, input.pages), input.near)
    BY DEF LocatedWhereItIs
  <2>1. PICK n \in Nat, l \in Nat :
            /\ input.raw = [i \in 1..n |-> input.raw[i]] /\ PagesOver(input.pages, n)
            /\ input.item.quote = [i \in 1..l |-> input.item.quote[i]]
            /\ input.item.claimed \in Nat
            /\ input.item = [document |-> "own", quote |-> input.item.quote, claimed |-> input.item.claimed]
    BY DEF QuotesAsked
  <2> DEFINE raw == input.raw
             pages == input.pages
             near == input.near
             item == input.item
             quote == item.quote
             claimed == item.claimed
  <2>2. /\ raw = [i \in 1..n |-> raw[i]] /\ PagesOver(pages, n)
        /\ quote = [i \in 1..l |-> quote[i]] /\ claimed \in Nat
        /\ item = Evidence(quote, claimed)
    BY <2>1 DEF Evidence
  <2> HIDE DEF raw, pages, near, item, quote, claimed
  <2>3. Located(item, SourceText(raw, pages), near)
    BY <2>2, EveryQuotationIsWhereItIs
  <2> QED BY <2>3 DEF item, raw, pages, near
<1> QED BY <1>1, QuotesAreAsked, PTL

=============================================================================
