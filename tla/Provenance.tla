----------------------------- MODULE Provenance -----------------------------
(***************************************************************************)
(* From a document to a quotation and back: the normalisation of a text    *)
(* and the map it leaves (domain/provenance/normalization.py, offsets.py), *)
(* the passages a model is shown (chunking.py), the search for what it     *)
(* quotes (validator.py), the passage a reviewer is shown (app/passages.py)*)
(* and the reunion of what was read in pieces (merge.py).                  *)
(*                                                                         *)
(* A text is a sequence of characters, of which six kinds matter to the    *)
(* steps; the tables of ligatures, dashes and quotes are one substitution. *)
(* Positions count from 1, and an end is the position after the last.      *)
(* How alike two strings are is not computed: a near match is an input.    *)
(***************************************************************************)
EXTENDS Integers, Sequences, FiniteSets, SequencesExt, FiniteSetsExt

CONSTANTS
    Tolerance,      \* SpanThresholds.offset_tolerance
    TopK            \* settings.assess_chunk_k

\* Both are counts (factory.number).
ASSUME ProvenanceAssumption == Tolerance \in Nat /\ TopK \in Nat

\* Two letters, an upper-case one, a ligature, a dash, a blank, the end of a
\* line, and a character with no width.
Char == {"f", "i", "A", "fi", "-", "dash", " ", "nl", "zw"}
Lower == {"f", "i"}
Blank == {" "}
Space == {" ", "nl"}

Distance(a, b) == IF a < b THEN b - a ELSE a - b

\* The elements of a set, each after those that go before it.
Ranked(S, before(_, _)) ==
    [k \in 1..Cardinality(S) |-> CHOOSE p \in S : Cardinality({q \in S : before(q, p)}) = k - 1]

\* Positions, from the first to the last.
InOrder(positions) == Ranked(positions, LAMBDA p, q : p < q)

Chars(marked) == [k \in DOMAIN marked |-> marked[k].ch]
Slice(text, start, end) == SubSeq(text, start, end - 1)

-----------------------------------------------------------------------------
(* Normalisation.  A step returns its characters, each with the position of *)
(* its input it came from. *)

Replacement(c) == CASE c = "fi" -> << "f", "i" >> [] c = "dash" -> << "-" >> [] OTHER -> << c >>

\* nfkc, expand_ligatures, unify_dashes, unify_quotes.
Substitute(text) ==
    FlattenSeq([i \in DOMAIN text |->
        [j \in DOMAIN Replacement(text[i]) |-> [ch |-> Replacement(text[i])[j], at |-> i]]])

Keep(text, kept) ==
    LET positions == InOrder(kept) IN
    [k \in DOMAIN positions |-> [ch |-> text[positions[k]], at |-> positions[k]]]

RemoveInvisible(text) == Keep(text, {i \in DOMAIN text : text[i] # "zw"})

\* The position a word broken at the hyphen i goes on at: past the end of the
\* line and the blanks around it, if a lower-case letter is there.
GoesOn(text, i) ==
    {f \in (i + 2)..Len(text) :
        /\ text[f] \in Lower
        /\ \E n \in (i + 1)..(f - 1) :
            /\ text[n] = "nl"
            /\ \A p \in ((i + 1)..(f - 1)) \ {n} : text[p] \in Blank}

Dehyphenate(text) ==
    LET broken == {i \in DOMAIN text : text[i] = "-" /\ GoesOn(text, i) # {}}
    IN  Keep(text, {p \in DOMAIN text :
                ~\E i \in broken : p \in i..(Min(GoesOn(text, i)) - 1)})

\* One space for each run of white space that has something before and after it.
CollapseWhitespace(text) ==
    LET words == {i \in DOMAIN text : text[i] \notin Space}
        between == {i \in DOMAIN text \ words :
                        /\ i > 1 /\ text[i - 1] \notin Space
                        /\ \E j \in words : j > i}
        kept == Keep(text, words \cup between)
    IN  [k \in DOMAIN kept |-> IF kept[k].at \in words THEN kept[k] ELSE [kept[k] EXCEPT !.ch = " "]]

\* compose_profile: the map of a step after those before it.
After(done, step) == [k \in DOMAIN step |-> [ch |-> step[k].ch, at |-> done[step[k].at].at]]

NormalizeWithMap(raw) ==
    LET visible(s) == After(s, RemoveInvisible(Chars(s)))
        joined(s) == After(s, Dehyphenate(Chars(s)))
        spaced(s) == After(s, CollapseWhitespace(Chars(s)))
    IN  spaced(joined(visible(Substitute(raw))))

Normalize(raw) == Chars(NormalizeWithMap(raw))

\* _runs_from_mapping: the stretches in which both sides advance together.
OffsetRuns(marked) ==
    LET breaks == {p \in DOMAIN marked : p = 1 \/ marked[p].at # marked[p - 1].at + 1}
        starts == InOrder(breaks)
        next(k) == IF k = Len(starts) THEN Len(marked) + 1 ELSE starts[k + 1]
    IN  [k \in DOMAIN starts |->
            [norm |-> starts[k], raw |-> marked[starts[k]].at, length |-> next(k) - starts[k]]]

\* A bug of the kind NormAt could have: only a position that survived is found.
FaultSurvivorsOnly(at, runs, total) ==
    LET holding == {k \in DOMAIN runs : at \in runs[k].raw..(runs[k].raw + runs[k].length - 1)} IN
    IF holding = {} THEN total + 1
    ELSE LET run == runs[Min(holding)] IN run.norm + at - run.raw

\* _norm_at: the first surviving character at or after a raw position.
NormAt(at, runs, total) ==
    LET reaching == {k \in DOMAIN runs : at < runs[k].raw + runs[k].length} IN
    IF reaching = {} THEN total + 1
    ELSE LET run == runs[Min(reaching)] IN
         run.norm + (IF at > run.raw THEN at - run.raw ELSE 0)

\* The pages of a text, put over its normalised form.
MovedPages(pages, runs, total) ==
    LET start(k) == IF k > Len(pages) THEN total + 1 ELSE NormAt(pages[k].start, runs, total)
    IN  [k \in DOMAIN pages |-> [start |-> start(k), end |-> start(k + 1), method |-> pages[k].method]]

\* normalize_source.  A page of the raw text is where it starts, and how it was
\* read.  The copy is not validated again.
SourceText(raw, pages) ==
    LET of(marked, runs) == [raw |-> raw, text |-> Chars(marked), runs |-> runs,
                             pages |-> MovedPages(pages, runs, Len(marked))]
        mapped(marked) == of(marked, OffsetRuns(marked))
    IN  mapped(NormalizeWithMap(raw))

\* SourceText's validators: the runs tile the text, and so do the pages.
SourceTextAccepted(source) ==
    LET covered(k) == source.runs[k].norm + source.runs[k].length
        total == Len(source.text)
    IN  /\ \A k \in DOMAIN source.runs :
            /\ source.runs[k].length > 0
            /\ source.runs[k].norm = IF k = 1 THEN 1 ELSE covered(k - 1)
        /\ IF source.runs = << >> THEN total = 0 ELSE covered(Len(source.runs)) = total + 1
        /\ \A k \in DOMAIN source.pages :
            /\ source.pages[k].start <= source.pages[k].end
            /\ source.pages[k].start = IF k = 1 THEN 1 ELSE source.pages[k - 1].end
        /\ source.pages # << >> => Last(source.pages).end = total + 1

\* offsets.to_raw, which refuses a position outside the map.
ToRaw(at, runs) ==
    LET run == CHOOSE r \in Range(runs) : at \in r.norm..(r.norm + r.length - 1)
    IN  run.raw + at - run.norm

RawSpan(start, end, runs) == << ToRaw(start, runs), ToRaw(end - 1, runs) + 1 >>

-----------------------------------------------------------------------------
(* The search for a quotation. *)

Occurrences(text, needle) ==
    {p \in 1..(Len(text) - Len(needle) + 1) : Slice(text, p, p + Len(needle)) = needle}

Verdict(validation, at) == [validation |-> validation, at |-> at]

\* A bug of the kind Relocate could have: the first occurrence is as good as any.
FaultFirstFound(found, claimed) == Verdict("VALID_NORMALIZED", Min(found))

\* _relocate, once there is an occurrence: the only one, or the nearest to the
\* claim if it is near, the first of two as near.
Relocate(found, claimed) ==
    LET nearest == Min({p \in found : \A q \in found : Distance(p, claimed) <= Distance(q, claimed)})
    IN  IF Cardinality(found) = 1 \/ Distance(nearest, claimed) <= Tolerance
          THEN Verdict("VALID_NORMALIZED", nearest)
          ELSE Verdict("INVALID_OFFSET_MISMATCH", 0)

\* _page_method: how the page of the claim was read, or the first one.
PageMethod(source, at) ==
    LET of == {k \in DOMAIN source.pages : source.pages[k].start <= at /\ at < source.pages[k].end}
    IN  IF source.pages = << >> THEN "none"
        ELSE source.pages[IF of = {} THEN 1 ELSE Min(of)].method

\* _fuzzy: `near' says whether some window is near enough as it is, and whether
\* it is once the characters a scanner confuses are folded.  The position stays
\* the claimed one, wherever the window was.
Fuzzy(source, claimed, near) ==
    IF PageMethod(source, claimed) = "OCR"
      THEN IF "folded" \in near THEN Verdict("VALID_FUZZY_OCR", claimed) ELSE Verdict("INVALID_NOT_FOUND", 0)
      ELSE IF "as_is" \in near THEN Verdict("VALID_NORMALIZED", claimed) ELSE Verdict("INVALID_NOT_FOUND", 0)

\* validate, for an item that quotes; `sources' is by document.
Validate(item, sources, near) ==
    IF item.document \notin DOMAIN sources THEN Verdict("INVALID_WRONG_DOCUMENT", 0)
    ELSE LET source == sources[item.document]
             judged(found) ==
                CASE item.claimed \in found -> Verdict("VALID_EXACT", item.claimed)
                  [] item.claimed \notin found /\ found # {} -> Relocate(found, item.claimed)
                  [] OTHER -> Fuzzy(source, item.claimed, near)
             sought(needle) == IF needle = << >> THEN Verdict("INVALID_NOT_FOUND", 0)
                               ELSE judged(Occurrences(source.text, needle))
         IN  sought(Normalize(item.quote))

\* passages._to_raw: past the map, its end.
ClampedRaw(at, source) ==
    IF source.runs = << >> THEN Min({at, Len(source.raw) + 1})
    ELSE IF at > Len(source.text)
           THEN Min({Last(source.runs).raw + Last(source.runs).length, Len(source.raw) + 1})
           ELSE ToRaw(at, source.runs)

\* A bug of the kind Passage could have: the normalised positions point into the
\* raw text.
FaultPassageUnmapped(source, quote, at) ==
    Slice(source.raw, at, Min({at + Len(quote), Len(source.raw) + 1}))

\* passage_around: the raw text at the located position, or, if it does not show
\* the quotation as it was written, wherever the raw text does.
Passage(source, quote, at) ==
    LET elsewhere == Occurrences(source.raw, quote)
        shown(quoted) == IF Occurrences(quoted, quote) = {} /\ elsewhere # {}
                           THEN Slice(source.raw, Min(elsewhere), Min(elsewhere) + Len(quote))
                           ELSE quoted
        orElse(passage) == IF passage = << >> THEN quote ELSE passage
    IN  orElse(shown(Slice(source.raw, ClampedRaw(at, source), ClampedRaw(at + Len(quote), source))))

-----------------------------------------------------------------------------
(* Chunks: whole pages, in order.  Here a document is its pages' ends. *)

\* One turn of the loop of by_page_groups: the page joins the group or starts one.
AddPage(groups, page, pages, budget) ==
    LET open == IF groups = << >> THEN << >> ELSE Last(groups)
        span == pages[page].end - pages[IF open = << >> THEN page ELSE Head(open)].start
    IN  IF open = << >> \/ span > budget
          THEN Append(groups, << page >>)
          ELSE Append(Front(groups), Append(open, page))

ByPageGroups(pages, budget) ==
    LET groups == FoldLeftDomain(LAMBDA g, p : AddPage(g, p, pages, budget), << >>, pages)
    IN  [k \in DOMAIN groups |->
            [start |-> pages[Head(groups[k])].start, end |-> pages[Last(groups[k])].end,
             numbers |-> groups[k]]]

\* A bug of the kind Selected could have: the sort by merit is lost to the other.
FaultFirstChunks(chunks, overlap) ==
    [chunks |-> SubSeq(chunks, 1, Min({TopK, Len(chunks)})), selected |-> Len(chunks) > 1]

\* The chunks that bear on the criterion more than this one, or as much and earlier.
Ahead(chunks, overlap, k) ==
    {j \in DOMAIN chunks : overlap[j] > overlap[k] \/ (overlap[j] = overlap[k] /\ j < k)}

\* select_for_criterion; `overlap' is how many of the criterion's terms a chunk
\* has.  The best TopK, the earlier of two as good, by where they start: of two that
\* start at the same place, of which one is empty, the better first.
Selected(chunks, overlap) ==
    LET chosen == {k \in DOMAIN chunks : Cardinality(Ahead(chunks, overlap, k)) < TopK}
        placed == Ranked(chosen, LAMBDA j, k : \/ chunks[j].start < chunks[k].start
                                               \/ /\ chunks[j].start = chunks[k].start
                                                  /\ j \in Ahead(chunks, overlap, k))
    IN  IF Len(chunks) <= 1
          THEN [chunks |-> chunks, selected |-> FALSE]
          ELSE [chunks |-> [i \in DOMAIN placed |-> chunks[placed[i]]], selected |-> TRUE]

-----------------------------------------------------------------------------
(* Readings put together.  A value is what it says and how it is written;   *)
(* two that say the same are the same to _normalise. *)

Unstated == [says |-> "nothing", written |-> "so"]

\* The lower of two confidences; -1 where none is given.
LowerOf(a, b) == IF a = -1 THEN b ELSE IF b = -1 THEN a ELSE Min({a, b})

\* A bug of the kind MergeField could have: an agreement settles what was noted.
FaultAgreementSettles(first, second) ==
    CASE first.value.says = "nothing" -> second
      [] first.value.says # "nothing" /\ second.value.says = "nothing" -> first
      [] OTHER ->
            [value |-> first.value, provenance |-> first.provenance \cup second.provenance,
             confidence |-> LowerOf(first.confidence, second.confidence),
             conflicts |-> IF first.value.says = second.value.says THEN {}
                           ELSE first.conflicts \cup second.conflicts
                                    \cup { << first.value, second.value >> }]

\* _merge_field: the first reading stands, and a disagreement is noted beside it.
MergeField(first, second) ==
    CASE first.value.says = "nothing" -> second
      [] first.value.says # "nothing" /\ second.value.says = "nothing" -> first
      [] OTHER ->
            [value |-> first.value, provenance |-> first.provenance \cup second.provenance,
             confidence |-> LowerOf(first.confidence, second.confidence),
             conflicts |-> first.conflicts \cup second.conflicts \cup
                 (IF first.value.says = second.value.says THEN {}
                  ELSE { << first.value, second.value >> })]

\* _merge_employment, one entry: a role is its employer and its title.  `dates'
\* stands for the start, the end and the summary, each merged by itself.
AddRole(merged, entry) ==
    LET same == {k \in DOMAIN merged : /\ merged[k].employer.value.says = entry.employer.value.says
                                       /\ merged[k].title.value.says = entry.title.value.says}
    IN  IF same = {} THEN Append(merged, entry)
        ELSE [merged EXCEPT ![Min(same)] =
                [employer |-> MergeField(@.employer, entry.employer),
                 title |-> MergeField(@.title, entry.title),
                 dates |-> MergeField(@.dates, entry.dates)]]

MergeEmployment(entries) == FoldLeft(AddRole, << >>, entries)

\* _union, one field: distinct values, in the order first seen.
AddValue(seen, field) ==
    LET same == {k \in DOMAIN seen : seen[k].value.says = field.value.says}
    IN  CASE field.value.says = "nothing" -> seen
          [] field.value.says # "nothing" /\ same = {} -> Append(seen, field)
          [] field.value.says # "nothing" /\ same # {} ->
                [seen EXCEPT ![Min(same)] =
                    [@ EXCEPT !.provenance = @ \cup field.provenance,
                              !.confidence = LowerOf(@, field.confidence),
                              !.conflicts = @ \cup field.conflicts]]

Union(fields) == FoldLeft(AddValue, << >>, fields)

\* _first_stated: what other readings say is not compared.
FirstStated(fields) ==
    LET stated == {k \in DOMAIN fields : fields[k].value.says # "nothing"} IN
    IF stated = {} THEN Unstated ELSE fields[Min(stated)].value

=============================================================================
