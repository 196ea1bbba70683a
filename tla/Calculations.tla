---------------------------- MODULE Calculations ----------------------------
(***************************************************************************)
(* The parts of the desk that only compute, asked one question at a time:  *)
(* a question is a topic and its input, and the answer is checked against  *)
(* a reference that says it another way.                                   *)
(***************************************************************************)
EXTENDS Reading, Integrity, Calibration, Drafting, Operations, Rubrics, Batches, TLC

CONSTANTS
    Letters,       \* bound: the characters of the texts looked at
    QuoteLetters,  \* bound: those of the texts quotations are looked for in
    MaxText,       \* bound: their length
    MaxSteps       \* bound: what is done to a rubric

ASSUME CalculationsAssumption == MaxText \in Nat

VARIABLES topic, input

vars == << topic, input >>

Init == topic = "none" /\ input = << >>

Ask(t) == topic = "none" /\ topic' = t

Texts(letters, n) == UNION {[1..k -> letters] : k \in 1..n}

-----------------------------------------------------------------------------
(* The rules. *)

\* What a criterion's model may have returned: nothing usable, a claim, two that
\* disagree, and the same with a quotation that was not found.
Item(state, span) == [state |-> state, span |-> span]
Claim == Item("SUPPORTED", "VALID_EXACT")
Denial == Item("CONTRADICTED", "VALID_NORMALIZED")
Invented == Item("SUPPORTED", "INVALID_NOT_FOUND")
Misplaced == Item("CONTRADICTED", "INVALID_OFFSET_MISMATCH")
Silence == Item("INSUFFICIENT_EVIDENCE", "NOT_APPLICABLE")
Returned == { << Silence >>, << Invented, Misplaced >>, << Claim >>, << Claim, Claim, Misplaced >>,
              << Denial, Invented >>, << Claim, Claim, Denial >> }

Points == [s \in SCORING_STATES |->
    CASE s = "MET" -> Scale [] s = "PARTIAL" -> Scale \div 2 [] s = "NOT_MET" -> 0
      [] s = "CONTRADICTED" -> Scale \div 4]
Bands == << [band |-> "ADVANCE", min_score |-> (3 * Scale) \div 4],
            [band |-> "HOLD", min_score |-> Scale \div 2], [band |-> "DECLINE", min_score |-> 0] >>

\* Three criteria; the second is worth twice the others.
Rubrics ==
    {[criteria |-> [i \in 1..3 |-> [kind |-> kinds[i], weight |-> IF i = 2 THEN 2 ELSE 1,
                                    min_supported |-> IF kinds[i] = "HIGH_STAKES" THEN 2 ELSE floor,
                                    points |-> Points]],
      bands |-> Bands, min_coverage |-> gate] :
        kinds \in [1..3 -> Kind], floor \in {0, 1}, gate \in {0, Scale \div 2}}

AskRules ==
    /\ Ask("rules")
    /\ \E rubric \in Rubrics, returned \in [1..3 -> Returned], unassessed \in {{}, {3}} :
        /\ RubricAccepted(rubric)
        /\ input' = [rubric |-> rubric, returned |-> returned, unassessed |-> unassessed,
                     integrity |-> IF unassessed = {} THEN "SUSPECT" ELSE "CLEAN"]

Resolutions(q) ==
    [i \in DOMAIN q.returned |->
        ResolveCriterion(Kept(q.returned[i]), q.rubric.criteria[i], i \in q.unassessed)]

\* The flags ASSESS raises on its state: what was set aside, what was not reached.
Flags(q) == [NoFlags EXCEPT !.invalid_span = \E i \in DOMAIN q.returned : Rejected(q.returned[i]) # << >>,
                            !.budget_capped = q.unassessed # {}]

Recommended(q) == Aggregate(Resolutions(q), q.rubric, q.integrity, Flags(q))

\* The band of some states said without an order: the gate, a blocker known to
\* fail, a blocker nobody knows of, and then the highest cutoff reached.
BandOf(rubric, states) ==
    LET weight(S) == SumFunction([i \in S |-> rubric.criteria[i].weight])
        known == {i \in DOMAIN states : states[i] # "INSUFFICIENT_EVIDENCE"}
        blockers == {i \in DOMAIN states : rubric.criteria[i].kind = "BLOCKER"}
        points == SumFunction([i \in known |-> rubric.criteria[i].weight * rubric.criteria[i].points[states[i]]])
        reached == {t \in Range(rubric.bands) : t.min_score * weight(known) <= points}
    IN  CASE known = {} \/ weight(known) * Scale < rubric.min_coverage * weight(DOMAIN states) ->
                  "INSUFFICIENT_INFORMATION"
          [] OTHER -> IF \E i \in blockers : states[i] \in {"NOT_MET", "CONTRADICTED"} THEN "DECLINE"
                      ELSE IF \E i \in blockers : i \notin known THEN "MANUAL_REVIEW_REQUIRED"
                      ELSE (CHOOSE t \in reached : \A u \in reached : u.min_score <= t.min_score).band

BandFollows(q) == LET rec == Recommended(q) IN rec.band = BandOf(q.rubric, rec.states)

\* A band depends on what the criteria resolved to and on nothing else: neither
\* the order the rubric lists them in, nor what wants a person (aggregate.py).
BandIsOfTheStates == topic = "rules" => BandFollows(input)

AsksAPerson(q) ==
    LET rec == Recommended(q) IN
        /\ RecommendationAccepted(rec)
        /\ rec.band \in GATE_BANDS => rec.human
        /\ rec.fired # {} => rec.band \in {"DECLINE", "MANUAL_REVIEW_REQUIRED"}

\* Every rubric the contract accepts leads to a recommendation its contract
\* accepts, and a run no score was given to is always put before a person: a
\* gate of zero, or a rubric that asks for no support, opens no way round.
GatesAskAPerson == topic = "rules" => AsksAPerson(input)

RestsOnLocated(q) ==
    LET rec == Recommended(q)
        found(i, state) == /\ i \notin q.unassessed
                           /\ \E k \in DOMAIN q.returned[i] :
                                /\ q.returned[i][k].state = state
                                /\ q.returned[i][k].span \in VALID_SPAN_VALIDATIONS
    IN  \A i \in DOMAIN rec.states :
            /\ rec.states[i] \in {"MET", "PARTIAL"} => found(i, "SUPPORTED") /\ ~found(i, "CONTRADICTED")
            /\ rec.states[i] \in {"NOT_MET", "CONTRADICTED"} => found(i, "CONTRADICTED")
            /\ i \in rec.fired /\ ~found(i, "CONTRADICTED") => rec.states[i] = "INSUFFICIENT_EVIDENCE"

\* Silence is no finding, and neither is a quotation that was not found: a
\* criterion is met or not on quotations located in the document, a located
\* denial is never outvoted, and a candidate is declined on a requirement only
\* if a located quotation denies it.
LocatedOnly == topic = "rules" => RestsOnLocated(input)

\* The reasons a review answers (recompute_recommendation.py:110).
ANSWERED == {"partial_profile", "budget_capped"}

ReviewRepeats(q) ==
    LET rec == Recommended(q)
        again(overrides) == Recompute(Resolutions(q), overrides, q.rubric, q.integrity)
        plain == again([i \in {} |-> "MET"])
    IN  /\ \A part \in {"band", "score", "states", "fired"} : plain[part] = rec[part]
        /\ ~Flags(q).invalid_span => plain.reasons \cup ANSWERED = rec.reasons \cup ANSWERED
        /\ \A i \in DOMAIN rec.states, state \in {"MET", "NOT_MET"} :
            LET corrected == again([j \in {i} |-> state]) IN
            /\ corrected.states = [rec.states EXCEPT ![i] = state]
            /\ corrected.band = BandOf(q.rubric, corrected.states)

\* What a reviewer is shown again is what the pipeline concluded: without an
\* override the band, the score and the blockers stand, and if no quotation was
\* set aside only the reasons a review has answered go; with one, the band is
\* that of the corrected states, whatever the criterion had been.  Nothing is said
\* of the reasons when quotations were set aside: the code means to keep that one
\* (recompute_recommendation.py:110) and drops it.
ReviewAgrees == topic = "rules" => ReviewRepeats(input)

-----------------------------------------------------------------------------
(* Texts and quotations. *)

\* Documents of one page, or of two, the second of which was scanned.
PageLists(raw) ==
    { << [start |-> 1, method |-> "DIGITAL_PDF"] >> } \cup
    { << [start |-> 1, method |-> "DIGITAL_PDF"], [start |-> p, method |-> "OCR"] >> : p \in 2..Len(raw) }

AskTexts ==
    /\ Ask("texts")
    /\ \E raw \in Texts(Letters, MaxText) : \E pages \in PageLists(raw) :
        input' = [raw |-> raw, pages |-> pages]

Traces(source, pages) ==
    LET rawPage(at) == Cardinality({k \in DOMAIN pages : pages[k].start <= at})
        raw(k) == ToRaw(k, source.runs)
    IN  /\ SourceTextAccepted(source)
        /\ Normalize(source.text) = source.text
        /\ \A k \in DOMAIN source.text :
            /\ \/ Contains(Replacement(source.raw[raw(k)]), source.text[k])
               \/ source.text[k] = " " /\ source.raw[raw(k)] \in Space
            /\ k > 1 => raw(k - 1) <= raw(k)
            /\ LET page == source.pages[rawPage(raw(k))] IN page.start <= k /\ k < page.end

\* Every character a reviewer is pointed at is one of the original, in its
\* order, and on the page it was on; the map and the pages cover the text though
\* the copy that carries them is not validated; and normalising twice is
\* normalising once, without which no quotation of a normalised text is found.
TracesToTheOriginal == topic = "texts" => Traces(SourceText(input.raw, input.pages), input.pages)

Needles(text) ==
    {Slice(text, a, b) : a \in DOMAIN text, b \in 1..(Len(text) + 1)} \ {<< >>}

\* A quotation of the document, or of nothing in it, claimed to be anywhere.
AskQuotes ==
    /\ Ask("quotes")
    /\ \E raw \in Texts(QuoteLetters, MaxText - 1) : \E pages \in PageLists(raw) :
       \E quote \in Needles(Normalize(raw)) \cup { << "i", "i" >> } :
       \E claimed \in {1, 3, MaxText + 1}, near \in {{}, {"as_is"}, {"folded"}} :
        input' = [raw |-> raw, pages |-> pages, near |-> near,
                  item |-> [document |-> "own", quote |-> quote, claimed |-> claimed]]

\* What is said to be in the document is: a position that was not accepted on
\* likeness holds the quotation, and no other place that does is nearer to where
\* it was claimed; a quotation that is there is refused only if it is there more
\* than once and never near the claim; and likeness serves only what is nowhere.
EvidenceIsWhereItIs(verdict, claimed, needle, text) ==
    LET places == {p \in DOMAIN text : IsPrefix(needle, Slice(text, p, Len(text) + 1))}
    IN  CASE verdict.validation \in VALID_SPAN_VALIDATIONS /\ places # {} ->
                /\ verdict.at \in places
                /\ \A p \in places : Distance(verdict.at, claimed) <= Distance(p, claimed)
                /\ (verdict.validation = "VALID_EXACT") = (verdict.at = claimed)
          [] verdict.validation = "INVALID_OFFSET_MISMATCH" ->
                /\ Cardinality(places) > 1
                /\ \A p \in places : Distance(p, claimed) > Tolerance
          [] OTHER -> places = {} \/ needle = << >>

\* A value of the profile and a piece of evidence that quote the same words are
\* judged alike: the value has a place exactly if the evidence would be kept
\* without a likeness, and evidence claimed to be there is found there exactly.
ProfileAgrees(place, item, source) ==
    LET verdict(at) == Validate([item EXCEPT !.claimed = at], [d \in {"own"} |-> source], {})
    IN  IF place = << >>
          THEN verdict(item.claimed).validation = "INVALID_NOT_FOUND"
          ELSE /\ verdict(place[1].start) = Verdict("VALID_EXACT", place[1].start)
               /\ place[1].method = PageMethod(source, place[1].start)
               /\ source.pages[place[1].last].end >= place[1].end

Located(item, source, near) ==
    /\ EvidenceIsWhereItIs(Validate(item, [d \in {"own"} |-> source], near), item.claimed,
                           Normalize(item.quote), source.text)
    /\ near = {} => ProfileAgrees(Locate(item.quote, source), item, source)

\* What is said of a quotation is true of the document, whether it is evidence
\* or where a value of the profile was read (spans.py, structure.py).
LocatedWhereItIs ==
    topic = "quotes" => Located(input.item, SourceText(input.raw, input.pages), input.near)

\* Neither end is inside what was one character of the original.
Whole(source, start, end) ==
    /\ start > 1 => ToRaw(start - 1, source.runs) # ToRaw(start, source.runs)
    /\ end <= Len(source.text) => ToRaw(end - 1, source.runs) # ToRaw(end, source.runs)

Shows(verdict, quote, source) ==
    verdict.validation \in VALID_SPAN_VALIDATIONS
      /\ Normalize(quote) = quote
      /\ Whole(source, verdict.at, verdict.at + Len(quote))
    => Occurrences(Normalize(Passage(source, quote, verdict.at)), quote) # {}

\* A reviewer who asks where is shown text that reads, once normalised, as the
\* quotation or with it inside.  A quotation that begins or ends inside what was
\* one character of the original may be shown cut short.
PassageShowsTheQuote ==
    topic = "quotes" /\ input.near = {} =>
        LET shown(source) == Shows(Validate(input.item, [d \in {"own"} |-> source], {}), input.item.quote, source)
        IN  shown(SourceText(input.raw, input.pages))

-----------------------------------------------------------------------------
(* Chunks. *)

\* Pages of the lengths given, in a row.
PagesOf(lengths) ==
    LET end[k \in 0..Len(lengths)] == IF k = 0 THEN 1 ELSE end[k - 1] + lengths[k]
    IN  [k \in 1..Len(lengths) |-> [start |-> end[k - 1], end |-> end[k]]]

AskChunks ==
    /\ Ask("chunks")
    /\ \E n \in 1..4 : \E lengths \in [1..n -> 0..3], overlap \in [1..n -> 0..2], budget \in 1..4 :
        input' = [pages |-> PagesOf(lengths), overlap |-> overlap, budget |-> budget]

\* The chunks are the pages, whole and once, in order; one is over the budget only if
\* it is a single page; and none could have taken the next page too.
AllInChunks(pages, budget) ==
    LET chunks == ByPageGroups(pages, budget)
    IN  /\ FlattenSeq([k \in DOMAIN chunks |-> chunks[k].numbers]) = [p \in DOMAIN pages |-> p]
        /\ \A k \in DOMAIN chunks :
            /\ chunks[k].end - chunks[k].start <= budget \/ Len(chunks[k].numbers) = 1
            /\ k < Len(chunks) =>
                /\ chunks[k].end = chunks[k + 1].start
                /\ pages[Head(chunks[k + 1].numbers)].end - chunks[k].start > budget

\* A criterion is judged on at most so many of them, in the order of the document, on
\* none while a better one is left out; and that they were selected is told exactly if
\* there was more than one to select from.
BestOf(chunks, overlap) ==
    LET given == Selected(chunks, overlap)
        shown == {k \in DOMAIN chunks : Contains(given.chunks, chunks[k])}
    IN  /\ Len(given.chunks) = Cardinality(shown)
        /\ \A i, j \in DOMAIN given.chunks : i < j => given.chunks[i].start <= given.chunks[j].start
        /\ Cardinality(shown) = IF Len(chunks) > 1 /\ Len(chunks) > TopK THEN TopK ELSE Len(chunks)
        /\ \A k \in shown, j \in DOMAIN chunks \ shown : overlap[k] >= overlap[j]
        /\ given.selected = (Len(chunks) > 1)

\* Nothing of a document is lost to the budget, and of what a criterion cannot be
\* judged on all of, it is judged on the best.
BestAreShown ==
    topic = "chunks" =>
        /\ AllInChunks(input.pages, input.budget)
        /\ BestOf(ByPageGroups(input.pages, input.budget), input.overlap)

-----------------------------------------------------------------------------
(* Profiles read in pieces. *)

Values == {Unstated} \cup {[says |-> v, written |-> w] : v \in {"x", "y"}, w \in {"so", "SO"}}

\* A reading of one field in the piece k, with the place it was read and how sure
\* of it the model was.
Reading(value, k, sure) ==
    [value |-> value, conflicts |-> {},
     provenance |-> IF value = Unstated THEN {} ELSE {k},
     confidence |-> IF value = Unstated THEN -1 ELSE sure]

Plain(v) == [says |-> v, written |-> "so"]

AskMerges ==
    /\ Ask("merges")
    /\ \E employer \in [1..3 -> {Plain("x"), Plain("y"), Unstated}], title \in {Plain("x"), Plain("y")},
          dates \in [1..3 -> Values], sure \in {<< 1, 2, 3 >>, << 2, 3, 1 >>} :
        input' = [entries |-> [k \in 1..3 |->
                    [employer |-> Reading(employer[k], k, 0),
                     title |-> Reading(IF k = 3 THEN title ELSE Plain("x"), k, 0),
                     dates |-> Reading(dates[k], k, sure[k])]]]

\* The pieces a role was read in.
PiecesOf(entries, role) ==
    {k \in DOMAIN entries : /\ entries[k].employer.value.says = role.employer.value.says
                            /\ entries[k].title.value.says = role.title.value.says}

\* The dates of a role are the first stated of its pieces; every piece that states
\* some is among their places, and every one that states others is noted beside
\* the value; and they are as sure as the least sure of them.
ToldOf(entries, pieces, field) ==
    LET stating == {k \in pieces : entries[k].dates.value # Unstated}
    IN  /\ field.provenance = stating
        /\ stating = {} => field.value = Unstated
        /\ stating # {} => /\ field.value = entries[Min(stating)].dates.value
                           /\ field.confidence = Min({entries[k].dates.confidence : k \in stating})
        /\ \A k \in stating :
            LET other == entries[k].dates.value IN
            other.says # field.value.says => \E note \in field.conflicts : note[2] = other

MergesAll(entries) ==
    LET merged == MergeEmployment(entries)
    IN  /\ \A i, j \in DOMAIN merged :
            i < j => Min(PiecesOf(entries, merged[i])) < Min(PiecesOf(entries, merged[j]))
        /\ \A k \in DOMAIN entries : \E i \in DOMAIN merged : k \in PiecesOf(entries, merged[i])
        /\ \A i \in DOMAIN merged : ToldOf(entries, PiecesOf(entries, merged[i]), merged[i].dates)

\* Putting pieces together decides nothing: one entry a role, in the order first
\* seen, which tells all that its pieces say of it.
MergeForgetsNothing == topic = "merges" => MergesAll(input.entries)

-----------------------------------------------------------------------------
(* Submissions looked at. *)

Hit(pattern, near) == [pattern |-> pattern, near |-> near]
Told(features, imperatives) == [features |-> features, imperatives |-> imperatives]
ScannedTexts == {Told({feature}, {}) : feature \in TextFeature} \cup
                { Told({}, {}), Told({"stuffed"}, {Hit(1, FALSE), Hit(2, FALSE)}), Told({"mixed_script", "stuffed"}, {}),
                  Told({}, {Hit(1, TRUE), Hit(2, FALSE)}), Told({}, {Hit(1, TRUE), Hit(2, TRUE)}) }

Run(drawn, long) == [drawn |-> drawn, long |-> long]
Sentence(chars, recovered) == [words |-> chars \div 8, chars |-> chars, recovered |-> recovered]
ScannedPage(runs, boxes, readable, seen, sentences) ==
    [runs |-> runs, boxes |-> boxes, readable |-> readable, seen |-> seen, sentences |-> sentences]
PlainPage == ScannedPage({Run("plain", TRUE)}, "one_origin", TRUE, TRUE, {Sentence(80, 90)})
ScannedPageKinds ==
    { PlainPage,
      ScannedPage({Run("plain", TRUE), Run("tiny", FALSE)}, "one_origin", TRUE, TRUE, {Sentence(80, 90), Sentence(24, 0)}),
      ScannedPage({Run("pale", TRUE)}, "one_origin", TRUE, TRUE, {Sentence(80, 90), Sentence(88, 10)}),
      ScannedPage({Run("outside", TRUE)}, "shifted", TRUE, FALSE, {Sentence(80, 0), Sentence(96, 0)}),
      ScannedPage({Run("outside", TRUE)}, "shifted", TRUE, TRUE, {Sentence(80, 0), Sentence(96, 0)}),
      ScannedPage({Run("plain", TRUE)}, "one_origin", TRUE, TRUE, {Sentence(80, 90), Sentence(72, 50)}),
      ScannedPage({Run("clear", TRUE)}, "one_origin", FALSE, TRUE, {Sentence(80, 90)}) }

Scanned(kind, text, pages, properties) ==
    [kind |-> kind, text |-> text, pages |-> pages, properties |-> properties]
Submitted ==
    {Scanned("pdf", text, pages, properties) :
        text \in ScannedTexts, pages \in UNION {{<< p >>, << PlainPage, p >>} : p \in ScannedPageKinds}, properties \in {{}, {"instructs"}}}
    \cup {Scanned(kind, text, << >>, {"instructs"}) : kind \in {"unopened", "text"}, text \in ScannedTexts}

Few == {d \in Submitted : d.kind = "text"}

AskScans ==
    /\ Ask("scans")
    /\ \E first \in Submitted, rest \in SeqOf(Few, 1), classifies \in BOOLEAN, compares \in BOOLEAN,
          threshold \in {75, 85}, mild \in {"LOW", "HIGH"}, strict \in {"LOW", "HIGH", "unavailable"} :
        input' = [documents |-> << first >> \o rest,
                  settings |-> [classifies |-> classifies, compares |-> compares, threshold |-> threshold],
                  verdict |-> [d \in DETECTOR_IDS |->
                                IF d \in {"D-INSTR-IMPERATIVE", "D-HOMOGLYPH"} THEN strict ELSE mild]]

OnlyRaises(q) ==
    LET node == SanitizeNode(q.documents, q.settings, q.verdict)
        alone(k) == ScanOne(q.documents[k], q.settings)
    IN  /\ \A k \in DOMAIN q.documents :
            LET report == node.reports[k] IN
            /\ ReportAccepted(report)
            /\ Severest({report.tier, alone(k).tier}) = report.tier
            /\ report.tier # alone(k).tier => alone(k).tier = "SUSPECT"
            /\ report.tier = "QUARANTINE" =>
                \E f \in alone(k).findings : f.confidence >= q.settings.threshold
            /\ report.classifier_unavailable => report.tier = alone(k).tier
        /\ (node.next = "QUARANTINED") = (\E k \in DOMAIN q.documents : node.reports[k].tier = "QUARANTINE")
        /\ (node.status = "OK") = (\A k \in DOMAIN q.documents : node.reports[k].tier = "CLEAN")

\* A model that is asked what a finding means can make it worse and nothing
\* else: whatever it answers, or if it does not, no document is judged milder
\* than the detectors judged it, only a suspect one may be judged worse, and a
\* run is halted on its word only for something a detector was sure it saw.  Every
\* report is one the contract accepts when it is read back, though the copy made
\* with the answers is not validated; and the submission goes on exactly if each
\* of its documents may.
OnlyWorse == topic = "scans" => OnlyRaises(input)

-----------------------------------------------------------------------------
(* Files read. *)

Block(x, y, text) == [x |-> x, y |-> y, text |-> text]
Reader(available, text, confidence) == [available |-> available, text |-> text, confidence |-> confidence]
Missing == Reader(FALSE, << >>, 0)
Blind == Reader(TRUE, << >>, 0)
Sharp == Reader(TRUE, << "f", " ", "i" >>, 70)
Blurred == Reader(TRUE, << "i", "f" >>, 30)

FileBlocks == {Block(x, y, text) : x \in {20, 80}, y \in {1, 2},
                    text \in { << "f" >>, << "f", "-" >>, << " ", "zw" >>, << "A", "nl", "fi" >> }}
FilePages(blocks, readers, languages) ==
    {[blocks |-> b, first |-> r[1], second |-> r[2], language |-> l] : b \in blocks, r \in readers, l \in languages}
FirstPages == FilePages(SeqOf(FileBlocks, 2), { << Blurred, Sharp >>, << Missing, Missing >> }, {"en"})
SecondPages == FilePages({<< Block(20, 1, << "f" >>) >>, << Block(80, 2, << "f", "i" >>), Block(20, 1, << "A" >>) >>},
                         { << Sharp, Blind >>, << Blind, Blurred >> }, {"ko", "unknown"})

File(looks) ==
    [looks |-> looks, has_word_part |-> TRUE, oversized |-> FALSE, encrypted |-> FALSE, truncated |-> FALSE,
     opens |-> TRUE, pages |-> << >>, text |-> << >>, paragraphs |-> << >>, rows |-> << >>]
Words == { << >>, << " " >>, << "f", "-" >>, << "i" >>, << "zw" >> }
AskedFiles ==
    {[File("pdf") EXCEPT !.pages = pages] :
        pages \in {<< p >> : p \in FirstPages} \cup {<< p, q >> : p \in FirstPages, q \in SecondPages}}
    \cup {[File("pdf") EXCEPT !.pages = << p >>, !.encrypted = e, !.truncated = t, !.opens = o] :
            p \in SecondPages, e \in BOOLEAN, t \in BOOLEAN, o \in BOOLEAN}
    \cup {[File("zip") EXCEPT !.paragraphs = << a, b >>, !.rows = << << c, a >> >>, !.has_word_part = w, !.opens = o] :
            a \in Words, b \in Words, c \in Words, w \in BOOLEAN, o \in BOOLEAN}
    \cup {[File("printable") EXCEPT !.text = text] : text \in Texts({"f", "-", "nl", "zw", " "}, 4)}

AskFiles == Ask("files") /\ \E file \in AskedFiles : input' = file

\* A row that begins or ends with an empty cell keeps its delimiter, whose blank
\* is taken off when the boundaries are counted and not when the text is put
\* together: from there on they are a character off (layout.py:83).
EmptyEdge(rows) == \E k \in DOMAIN rows : Strip(Head(rows[k])) = << >> \/ Strip(Last(rows[k])) = << >>

TiledBy(read, contents, counts) ==
    LET source == read.source
        pageOf(k) == Min({p \in DOMAIN counts : MapThenSumSet(LAMBDA q : counts[q], 1..p) >= k})
    IN  /\ Len(source.blocks) = Len(contents)
        /\ \A k \in DOMAIN contents :
            /\ Slice(source.text, source.blocks[k].start, source.blocks[k].end) = contents[k]
            /\ source.pages[pageOf(k)].start <= source.blocks[k].start
            /\ pageOf(k) < Len(source.pages) => source.blocks[k].end < source.pages[pageOf(k) + 1].start

StillTiled(normal, blocks, contents, visible) ==
    LET runsOn == \E k \in 1..(Len(contents) - 1) :
                    Contains(contents[k], "-") /\ Head(contents[k + 1]) \in Lower \cup {"fi"}
    IN  /\ SourceTextAccepted(normal)
        /\ \A k \in 1..(Len(blocks) - 1) : blocks[k].end <= blocks[k + 1].start
        /\ ~runsOn =>
            /\ Len(blocks) = Len(visible)
            /\ \A k \in DOMAIN blocks :
                Strip(Slice(normal.text, blocks[k].start, blocks[k].end)) = Normalize(visible[k])

PoorForAReason(pages) ==
    IsPoor(pages) =>
        \/ LanguageScore(pages) < 100
        \/ \E p \in DOMAIN pages : \/ Len(pages[p].blocks) <= 1
                                  \/ Len(pages[p].text) < MIN_CHARS_PER_PAGE
                                  \/ pages[p].method = "OCR"

\* What is read is what was written, where it was written.  The text is the
\* pages', in their order, and the pages tile it; a block's boundaries hold the
\* block, and once the text is normalised they still hold it, on the same page
\* and no more than it, unless a word runs on into the next; a file that INTAKE
\* accepts is refused by EXTRACT only for what cannot be seen from outside it,
\* and a text never; and a reading that is called poor has a reason to give.
ReadAsWritten ==
    topic = "files" =>
        LET written(read, contents) ==
                read.error = "none" /\ ~EmptyEdge(input.rows) =>
                    /\ TiledBy(read, contents, [p \in DOMAIN read.pages |-> Len(Contents(read.pages[p].blocks))])
                    /\ StillTiled(SourceText(read.source.text, read.source.pages), NormalizedBlocks(read.source),
                                  contents, SelectSeq(contents, LAMBDA t : Normalize(t) # << >>))
                    /\ PoorForAReason(read.pages)
            judged(read) ==
                /\ Classify(input) = "accepted" =>
                    /\ read.error \notin {"UNSUPPORTED_TYPE", "ENCRYPTED"}
                    /\ SniffType(input) = "txt" => read.error = "none"
                /\ written(read, FlattenSeq([p \in DOMAIN read.pages |-> Contents(read.pages[p].blocks)]))
        IN  judged(Extract(input))

-----------------------------------------------------------------------------
(* Past decisions. *)

Decided(band, near) ==
    [action |-> "APPROVE", band |-> band, corrected |-> "none", role |-> "desk", rubric |-> << 1, 0 >>,
     age |-> 10, states |-> << "MET" >>, embedder |-> "provider", near |-> near]
Agreed == {Decided(band, near) : band \in {"ADVANCE", "HOLD"}, near \in {1, 2, 3}}

\* One that should not be found, or is not what the model made of it.
Odd ==
    LET like == Decided("HOLD", 3) IN
    { [like EXCEPT !.action = "REJECT"], [like EXCEPT !.corrected = "DECLINE"], [like EXCEPT !.role = "clerk"],
      [like EXCEPT !.rubric = << 2, 0 >>], [like EXCEPT !.embedder = "away"], [like EXCEPT !.embedder = "local"],
      [like EXCEPT !.near = 0] }
Old == [Decided("HOLD", 3) EXCEPT !.age = 200]

Histories == {p \o q : p \in {<< >>} \cup {<< o >> : o \in Odd}, q \in SeqOf(Agreed, 3)}
Looking == {[id |-> 0, role |-> "desk", rubric |-> rubric, profile |-> profile, enabled |-> TRUE] :
                rubric \in {<< 1, 0 >>, << 2, 0 >>}, profile \in {NoProfile, Profile(<< "desk" >>, << "py" >>, << >>)}}
Wanted == [enabled |-> TRUE, indexed |-> TRUE, readable |-> TRUE, embedder |-> "provider", top_k |-> 2, staleness_days |-> 180]
Settings ==
    {[Wanted EXCEPT !.top_k = k, !.staleness_days = days] : k \in 1..3, days \in {0, 180}}
    \cup {[Wanted EXCEPT ![part] = FALSE] : part \in {"enabled", "indexed", "readable"}}
    \cup {[Wanted EXCEPT !.embedder = e] : e \in {"local", "away"}}

AskAnchors ==
    /\ Ask("anchors")
    /\ \E history \in Histories \cup {h \o << Old >> : h \in Histories}, settings \in Settings, run \in Looking :
        /\ settings # [Wanted EXCEPT !.staleness_days = settings.staleness_days, !.embedder = settings.embedder]
             => run.profile = NoProfile /\ run.rubric = << 1, 0 >>
        /\ input' = [history |-> history, settings |-> settings, run |-> run]

\* An anchor is what a person decided about somebody for this role: it was
\* approved, not long ago, and carries the band the person settled on.  Nobody
\* nearer is left out for it, unless it is the last and there to disagree; and
\* two or more anchors agree only if all that could be shown do, where there has
\* been only the one rubric: which of several they are decided under is
\* AnchorsOfOneBar's.  A search that cannot be made never stops the run.  The
\* local embedder finds them only for somebody nothing is known of.
AnchorsAreDecisions ==
    topic = "anchors" =>
        LET history == input.history
            settings == input.settings
            local == settings.embedder = "local"
            node == CalibrateNode(Cards(history), input.run, settings)
            shown == node.block
            approved == {k \in DOMAIN history : history[k].action = "APPROVE" /\ history[k].embedder # "away"
                                                  /\ history[k].role = "desk"}
            oneBar == input.run.rubric = << 1, 0 >> /\ \A k \in DOMAIN history : history[k].rubric = << 1, 0 >>
            could == {k \in approved : /\ Cardinality({j \in approved : j < k}) < MAX_CORPUS
                                       /\ history[k].age <= Max({settings.staleness_days, 1})
                                       /\ (history[k].embedder = "local") = local
                                       /\ IF local THEN input.run.profile = NoProfile ELSE history[k].near >= MIN_SIMILARITY}
            outcome(k) == IF history[k].corrected = "none" THEN history[k].band ELSE history[k].corrected
            sources == {shown[i].source : i \in DOMAIN shown}
            nearestFirst == \A i \in 1..(Len(shown) - 1) : \A k \in could \ sources :
                                local \/ history[k].near <= shown[i].near
        IN  /\ sources \subseteq could
            /\ \A i \in DOMAIN shown : shown[i].band = outcome(shown[i].source)
            /\ (node.calibration = "applied") = (shown # << >>)
            /\ oneBar =>
                /\ nearestFirst
                /\ shown # << >> =>
                    /\ Len(shown) = Min({settings.top_k, Cardinality(could)})
                    /\ settings.top_k > 1 /\ Cardinality({outcome(k) : k \in could}) > 1
                         => Cardinality({outcome(k) : k \in sources}) > 1
                /\ shown = << >> /\ could # {} =>
                    node.calibration \in {"disabled", "index_unavailable", "embedding_failed"}

\* An anchor was decided under the major version of the rubric the run is judged
\* by: another one was made against a different bar (index.py:123).  It does not
\* hold: a card is filed under the version of a state that has no rubric.
AnchorsOfOneBar ==
    topic = "anchors" =>
        LET shown == CalibrateNode(Cards(input.history), input.run, input.settings).block
        IN  \A i \in DOMAIN shown :
                MajorVersion(input.history[shown[i].source].rubric) = MajorVersion(input.run.rubric)

AnchorQuestions == Init /\ [][AskAnchors]_vars

-----------------------------------------------------------------------------
(* Rubrics. *)

\* What may be done to the rubric of a role: the admin page belongs to the web
\* process, and a worker may be interrupted in reading the file.
RubricSteps == [does : {"edit", "save"}, at : {"web"}, valid : BOOLEAN]
               \cup [does : {"reset", "load"}, at : {"web"}, valid : {TRUE}]
               \cup [does : {"load", "begin", "finish"}, at : {"worker"}, valid : {TRUE}]

AskRubrics ==
    /\ Ask("rubrics")
    /\ \E n \in 1..MaxSteps : \E steps \in [1..n -> RubricSteps], shipped \in BOOLEAN :
        /\ steps[n].does \in {"load", "finish"}
        /\ input' = [shipped |-> shipped, steps |-> steps]

ShippedRubric(q) ==
    Shipped(IF q.shipped THEN << [stamp |-> 0, text |-> Text(0, TRUE)] >> ELSE << >>)

\* The role after a step, and what the step answered.  The k-th writes the text k.
Done(role, step, k) ==
    CASE step.does = "edit"  -> Answer(Edit(role, k, Text(k, step.valid)), Ok(Text(k, TRUE)))
      [] step.does = "save"  -> Answer(Save(role, "web", Text(k, step.valid)), Ok(Text(k, TRUE)))
      [] step.does = "reset" -> Answer(Reset(role, "web"), Ok(Text(k, TRUE)))
      [] step.does = "load"  -> Load([role EXCEPT !.begun[step.at] = << >>], step.at)
      [] step.does = "begin" -> Begin(role, "worker")
      [] OTHER -> IF role.begun["worker"] = << >> THEN Load(role, "worker") ELSE Finish(role, "worker")

\* What each step left and answered, from the beginning.
Answers(q) ==
    LET answers[k \in 0..Len(q.steps)] ==
            IF k = 0 THEN Answer(ShippedRubric(q), FileNotFound)
            ELSE Done(answers[k - 1].role, q.steps[k], k)
    IN  answers

\* The rubric in force after some steps: the last one saved and not reset, or
\* else what the file says, or nothing.
InForce(q, n) ==
    LET saved == {k \in 1..n : q.steps[k].does = "save" /\ q.steps[k].valid}
        reset == {k \in 1..n : q.steps[k].does = "reset"}
        edited == {k \in 1..n : q.steps[k].does = "edit"}
    IN  IF saved # {} /\ \A k \in reset : k < Max(saved) THEN Ok(Text(Max(saved), TRUE))
        ELSE IF edited # {} THEN LoadRubric(Text(Max(edited), q.steps[Max(edited)].valid))
        ELSE IF q.shipped THEN Ok(Text(0, TRUE)) ELSE FileNotFound

\* Something was saved while a file was being read.
Disturbed(q) ==
    \E i, j, k \in DOMAIN q.steps :
        /\ i < j /\ j < k
        /\ q.steps[i].does = "begin" /\ q.steps[j].does = "save" /\ q.steps[k].does = "finish"

JudgedInForce(q) ==
    LET n == Len(q.steps)
        last == Answers(q)[n]
    IN  /\ ~Disturbed(q) => last.result = InForce(q, n)
        /\ ConfigNode(last.result, TRUE, TRUE).status = "OK" => last.result.text.valid
        /\ last.role.stored # << >> => last.role.stored[1].valid

\* A run is judged by the rubric in force when its text is read, whatever each
\* process has read before and whoever wrote in between; it is bound to that one,
\* and ends at once if there is none.  This needs that nothing is saved on the
\* page while a file is being read: what is read then is the saved copy, and is
\* kept as if it were the file (raw in rubrics.py:80 asks the store again), also
\* once the copy has been reset.
RubricInForce == topic = "rubrics" => JudgedInForce(input)

-----------------------------------------------------------------------------
(* Drafts. *)

DraftRubric ==
    [criteria |-> [i \in 1..2 |-> [kind |-> "STANDARD", weight |-> 1, min_supported |-> i, points |-> Points]],
     bands |-> Bands, min_coverage |-> 0, forbidden_attributes |-> {<< "marital", "status" >>}]
ReadDocument(answers) == [text |-> TRUE, answers |-> answers]
Unread == [text |-> FALSE, answers |-> << >>]
ReadDocuments ==
    { << Unread >>, << ReadDocument(<< "whole" >>) >>, << Unread, ReadDocument(<< "whole", "whole" >>) >>,
      << ReadDocument(<< "whole", "invalid" >>), Unread >>,
      << ReadDocument(<< "whole" >>), ReadDocument(<< "partial", "whole" >>) >>,
      << ReadDocument(<< "partial" >>), ReadDocument(<< "unavailable" >>) >> }
Harmless == { << "children", "of", "nodes" >>, << "status", "gendering" >> }
Straying == { << "gender" >>, << "your", "marital", "status" >>, << "children", "of", "yours", "children" >> }
Sentences == {Written(1, "model", words) : words \in Harmless \cup Straying}
             \cup {Written(i, "model", words) : i \in {0, 2}, words \in { << "gender" >>, << "status", "gendering" >> }}
DraftAnswers ==
    {[kind |-> kind, requests |-> << >>, questions |-> << >>] : kind \in {"unavailable", "invalid"}}
    \cup {[kind |-> "answered", requests |-> r, questions |-> q] :
            r \in {<< >>} \cup SeqOf(Sentences, 2), q \in {<< >>} \cup SeqOf(Sentences, 1)}

AskDrafts ==
    /\ Ask("drafts")
    /\ \E returned \in [1..2 -> {<< Silence >>, << Claim >>, << Denial >>, << Claim, Claim, Denial >>}],
          documents \in ReadDocuments, answer \in DraftAnswers :
        input' = [rubric |-> DraftRubric, returned |-> returned, unassessed |-> {}, integrity |-> "CLEAN",
                  documents |-> documents, answer |-> answer]

\* Every point the documents left open is asked about, by a sentence about it
\* that strays onto nothing protected or that the rubric forbids, however the
\* model answers, and none that only seems to is lost; no settled point is, and
\* the candidate is told something is not mentioned only if it was not found.  And a
\* run is staged as an ordinary one only if nothing was left out of what was read
\* and written, but for a profile that could not be begun (runner.py:195).
OpenPointsAreAsked ==
    topic = "drafts" =>
        LET structured == StructureNode(input.documents)
            flags == [Flags(input) EXCEPT !.partial_profile = structured.partial]
            rec == Aggregate(Resolutions(input), input.rubric, input.integrity, flags)
            composed == ComposeNode(input.rubric, rec, input.answer)
            requests == Range(composed.package.requests)
            supports(i) == CountOf(input.returned[i], "SUPPORTED")
            settled(i) == CountOf(input.returned[i], "CONTRADICTED") > 0 \/ supports(i) >= i
            degraded == structured.degraded \cup (IF composed.status = "DEGRADED" THEN {"compose"} ELSE {})
            staged == ReviewNode(rec, input.integrity, flags, degraded)
        IN  /\ {s.criterion : s \in requests} = {i \in 1..2 : ~settled(i)}
            /\ \A s \in requests \cup Range(composed.package.questions) : s.words \notin Straying /\ ~settled(s.criterion)
            /\ \A s \in Range(input.answer.requests) :
                    s.words \in Harmless /\ s.criterion \in 1..2 /\ ~settled(s.criterion) => s \in requests
            /\ \A s \in requests : s.by = "not mentioned" => supports(s.criterion) = 0
            /\ staged = "READY_FOR_REVIEW" =>
                /\ \A d \in Range(input.documents) : Range(d.answers) \cap {"partial", "invalid"} # {} =>
                        structured.status = "FAILED"
                /\ input.answer.kind # "answered" => requests = {}
                /\ \E i \in 1..2 : input.returned[i] # << Silence >>
                /\ \A i \in 1..2 : ~(supports(i) > 0 /\ CountOf(input.returned[i], "CONTRADICTED") > 0)

-----------------------------------------------------------------------------
(* Costs and panels. *)

PriceNames == ModelTier \X {"input", "output"}
Price(in, out, cached) == [input |-> in, output |-> out, cached |-> cached]
PriceFiles == {[CHEAP |-> cheap, STRONG |-> strong] : cheap \in {Price(Absent, Absent, Absent), Price(1, 2, 1)},
                                                      strong \in {Price(Absent, Absent, Absent), Price(3, 5, 0)}}
TypedPrices == {[name \in names |-> typed] : names \in SUBSET PriceNames, typed \in {Absent, 0, 7, Junk}}
CostedCalls == {[tier |-> tier, input |-> tokens, output |-> 1, cached |-> cached] :
                    tier \in ModelTier, tokens \in {1, 3}, cached \in {0, 2}}

AskCosts ==
    /\ Ask("costs")
    /\ \E file \in PriceFiles, stored \in {[name \in PriceNames |-> p] : p \in {Absent, 4}}, changes \in TypedPrices,
          run \in SeqOf(CostedCalls, 2), other \in {<< >>} \cup {<< c >> : c \in {k \in CostedCalls : k.input = 1 /\ k.cached = 0}} :
        input' = [file |-> file, stored |-> stored, changes |-> changes, runs |-> << run, other >>]

\* A cost that is shown is of one list, that of the page or that of the file; if
\* no call's tier has both its rates there none is shown, and no zero; and if
\* every call's has, it is the sum of what they cost, rounded a call at a time.
\* Nothing is said of a cost when only some have: it ought to be unknown
\* (repositories.py:307), and is not.
CostsAreOfOneList ==
    topic = "costs" =>
        LET q == input
            refused == \E name \in DOMAIN q.changes : q.changes[name] = Junk
            typed(tier, way) == IF << tier, way >> \in DOMAIN q.changes /\ ~refused
                                  THEN q.changes[<< tier, way >>] ELSE q.stored[<< tier, way >>]
            whole(tier) == typed(tier, "input") # Absent /\ typed(tier, "output") # Absent
            page == \E tier \in ModelTier : whole(tier)
            priced(tier) == IF page THEN whole(tier) ELSE q.file[tier].input # Absent
            rate(tier, way) == IF page THEN typed(tier, way) ELSE q.file[tier][way]
            calls == FlattenSeq(q.runs)
            counted == {k \in DOMAIN calls : priced(calls[k].tier)}
            exact(k) == LET c == calls[k] IN
                Max({c.input - c.cached, 0}) * rate(c.tier, "input") + c.output * rate(c.tier, "output")
                  + (IF page THEN 0 ELSE c.cached * q.file[c.tier].cached)
            spent == MapThenSumSet(exact, counted)
            cost == CostOfRuns(q.runs, PricingFor(SaveSettings(q.stored, q.changes), q.file))
        IN  /\ counted = {} => Shown(cost.total) = << >>
            /\ counted = DOMAIN calls /\ calls # << >> =>
                /\ cost.total >= 0
                /\ 2 * Distance(PER * cost.total, spent) <= PER * Cardinality(counted)

Row(status, started, last) == [status |-> status, started |-> started, last |-> last, finished |-> Never]
RunRows == {r \in {Row(s, a, b) : s \in {"CREATED", "ASSESSED", "INTERRUPTED", "NEEDS_REVIEW"}, a \in 0..11, b \in 0..11} :
                r.started <= r.last}
           \cup {[Row("DELIVERY_PENDING_RETRY", a, 11) EXCEPT !.finished = b] : a \in 0..5, b \in {5, 11}}
Readings == {[first |-> f, second |-> s, trigger |-> t] :
                f \in {"MET", "NOT_MET"}, s \in {"MET", "none"}, t \in {"invalid_span", "low_confidence"}}
Reviews == {[seconds |-> n, trust |-> t, overrides |-> o] :
                n \in {1, 3}, t \in {Never, 2}, o \in {<< >>, << "evidence" >>, << "rubric", "evidence" >>}}

AskPanels ==
    /\ Ask("panels")
    /\ \/ \E row \in RunRows, other \in {Row("ASSESSED", 3, 5), Row("CREATED", 9, 9)}, now \in {11, 13}, ticks \in {1, 5}, days \in 0..2 :
            input' = [rows |-> {row, other}, now |-> now, ticks |-> ticks, days |-> days]
       \/ \E values \in SeqOf(1..4, 5) : input' = [values |-> values]
       \/ \E readings \in SeqOf(Readings, 3) : input' = [readings |-> readings]
       \/ \E first, second \in SeqOf(Reviews, 2) : input' = [reviews |-> << first, second >>]

\* Whatever reconciliation would mark, the page shows as stopped part-way, if it
\* was started on a day before (one that was not ought to be shown as well, and
\* is not, metrics_sql.py:96); and what it shows was started longer ago than the
\* limit and waits for nobody.  Every run of the last days is counted once.
RunsTell(q) ==
    LET stuck == StuckRuns(q.rows, q.now, q.ticks)
        byStatus == RunsByStatus(q.rows, q.now, q.days)
        counted == MapThenSumSet(LAMBDA s : byStatus[s], DOMAIN byStatus)
        latency == RunLatency(SetToSeq(q.rows), q.now, q.days)
    IN  /\ \A r \in FindStale(q.rows, q.now, q.ticks) : r.started \div Day < (q.now - q.ticks) \div Day => r \in stuck
        /\ \A r \in stuck : r.started < q.now - q.ticks /\ r.status \notin {"NEEDS_REVIEW", "DELIVERY_PENDING_RETRY"}
        /\ counted >= Cardinality({r \in q.rows : r.started >= q.now - q.days * Day})
        /\ counted <= Cardinality(q.rows)
        /\ latency.count <= counted

\* A median is a value that was measured, with no more than half on either side.
MediansTell(q) ==
    LET spread == Spread(q.values) IN
    q.values # << >> =>
        /\ spread.p50 \in Range(q.values)
        /\ 2 * Cardinality({k \in DOMAIN q.values : q.values[k] < spread.p50}) <= Len(q.values)
        /\ 2 * Cardinality({k \in DOMAIN q.values : q.values[k] > spread.p50}) <= Len(q.values)
        /\ spread.p50 <= spread.p95

\* Every criterion read twice is told of under what made it be read again, and
\* nothing else is; a trigger is worth what its second readings changed.
EscalationsTell(q) ==
    LET assessments == [k \in DOMAIN q.readings |-> AssessmentRow(q.readings[k])]
        rate == EscalationRate(assessments)
        byTrigger == EscalationByTrigger(assessments)
        reread == {k \in DOMAIN q.readings : q.readings[k].second # "none"}
    IN  /\ (rate = << >>) = (q.readings = << >>)
        /\ rate # << >> =>
            rate[1].n = MapThenSumSet(LAMBDA t : byTrigger[t].escalations, DOMAIN byTrigger)
        /\ Cardinality({k \in reread : q.readings[k].first # q.readings[k].second})
             = MapThenSumSet(LAMBDA t : byTrigger[t].changed, DOMAIN byTrigger)

\* The corrections counted on the runs are those whose reasons are listed, unless
\* a run was decided more than once: then the earlier ones are listed only.
ReviewsTell(q) ==
    LET reviews == FlattenSeq(q.reviews)
        rate == OverrideRate(q.reviews)
        reasons == OverrideReasons(reviews)
        listed == MapThenSumSet(LAMBDA r : reasons[r], DOMAIN reasons)
        trust == TrustDistribution(reviews)
    IN  /\ rate.overrides <= listed
        /\ (\A k \in DOMAIN q.reviews : Len(q.reviews[k]) <= 1) => rate.overrides = listed
        /\ (rate.rate = << >>) = (reviews = << >>)
        /\ rate.rate # << >> => rate.rate[1].n <= rate.overrides /\ rate.rate[1].of <= Len(reviews)
        /\ MapThenSumSet(LAMBDA t : trust[t], DOMAIN trust) <= ReviewEffort(reviews).count

\* The page tells of runs, times, escalations and reviews what the record says,
\* and two of its panels that count the same thing agree (metrics_sql.py).
PanelsTell ==
    topic = "panels" =>
        CASE "rows" \in DOMAIN input     -> RunsTell(input)
          [] "values" \in DOMAIN input   -> MediansTell(input)
          [] "readings" \in DOMAIN input -> EscalationsTell(input)
          [] "reviews" \in DOMAIN input  -> ReviewsTell(input)

-----------------------------------------------------------------------------
(* Batches. *)

\* Names with either separator or both, with blanks, and with and without capitals.
Waits(name, offered) == [name |-> name, offered |-> offered]
FileNames == { << 1 >>, << 1, HYPHEN, 2 >>, << 1, UNDERSCORE, 3 >>, << 1 + SMALL, UNDERSCORE, 2 >>, << 2, BLANK, 1 >>,
               << BLANK, 2 >>, << UNDERSCORE, 1 >>, << 1, HYPHEN, 3, UNDERSCORE, 2 >>, << 1, UNDERSCORE, 2, HYPHEN, 2 >> }
Subfolder(name, files) == [name |-> name, files |-> files]
Folders == {{}, {Subfolder(<< 1 >>, {Waits(<< 2 >>, TRUE), Waits(<< 3 >>, FALSE)})},
            {Subfolder(<< 2 >>, {Waits(<< 1 >>, FALSE)}), Subfolder(<< 2, HYPHEN, 1 >>, {Waits(<< 1 >>, TRUE)})}}

Status429 == [status |-> "s429", sent |-> 0, announced |-> {}]
ServiceAnswers ==
    {[Status429 EXCEPT !.status = status] : status \in {"unreachable", "s429", "s401", "s404", "s400"}}
    \cup {[status |-> "ok", sent |-> sent, announced |-> announced] : sent \in {1, 2}, announced \in {{}, {2}}}

\* The statuses the pipeline leaves a run with, before anybody decides.
Ends == {"FAILED_TERMINAL", "QUARANTINED", "MANUAL_REVIEW_REQUIRED", "READY_FOR_REVIEW", "NEEDS_REVIEW"}
BatchCandidates ==
    {Candidate({1}, hashed, ends, TRUE) : hashed \in BOOLEAN, ends \in Ends \cup {"raises"}}
    \cup {Candidate({2}, TRUE, ends, FALSE) : ends \in {"raises", "FAILED_TERMINAL"}}
    \cup {Candidate({2}, TRUE, ends, TRUE) : ends \in {"QUARANTINED", "READY_FOR_REVIEW"}}
EarlierRuns == {<< >>} \cup {<< [docs |-> {1}, status |-> s, holds |-> TRUE] >> : s \in {"FAILED_TERMINAL", "QUARANTINED", "DELIVERED"}}

AskBatches ==
    /\ Ask("batches")
    /\ \/ \E names \in (SUBSET FileNames) \ {{}}, subfolders \in Folders, unread \in {{}, { << 1 >> }}, limit \in {2, 50} :
            input' = [files |-> {Waits(name, name \notin unread) : name \in names}, subfolders |-> subfolders, limit |-> limit]
       \/ \E answers \in [1..MAX_CALLS -> ServiceAnswers], after \in ServiceAnswers :
            input' = [answers |-> << answers, [k \in 1..MAX_CALLS |-> IF k = 1 THEN after ELSE answers[k]] >>]
       \/ \E runs \in EarlierRuns, n \in 1..3 : \E candidates \in [1..n -> BatchCandidates], force \in BOOLEAN :
            input' = [runs |-> runs, candidates |-> candidates, force |-> force]

\* Every file of the folder that is offered is in one candidate, unless the
\* listing was cut; files that begin with different words are never one person's,
\* outside a subfolder, though Drive takes no notice of capitals; and files whose
\* names begin with the same word and go on with no blank and only the one kind
\* of separator always are.
ListingsTell(q) ==
    LET folder == [files |-> q.files, subfolders |-> q.subfolders]
        here == LocalCandidates(folder, q.limit)
        there == DriveCandidates(q.files, q.limit)
        firstWord(name) == name[Min({k \in DOMAIN name : name[k] \notin {UNDERSCORE, HYPHEN, BLANK}})]
        plain(f) == /\ Cardinality(Range(f.name) \cap {UNDERSCORE, HYPHEN}) <= 1
                    /\ ~Contains(f.name, BLANK) /\ firstWord(f.name) = f.name[1]
        found(listing) == UNION {listing[k].files : k \in {j \in DOMAIN listing : ~listing[j].folder}}
        together(listing) == {pair \in found(listing) \X found(listing) :
                                \E k \in DOMAIN listing : ~listing[k].folder /\ Range(pair) \subseteq listing[k].files}
    IN  /\ Len(here) < q.limit => found(here) = Offered(q.files)
        /\ Len(there) < q.limit => found(there) = q.files
        /\ \A i, j \in DOMAIN here : i < j => \/ here[i].files \cap here[j].files = {}
                                              \/ here[i].folder # here[j].folder
        /\ \A pair \in together(here) : firstWord(pair[1].name) = firstWord(pair[2].name)
        /\ \A pair \in together(there) : firstWord(InSmall(pair[1].name)) = firstWord(InSmall(pair[2].name))
        /\ \A f, g \in {h \in found(here) : plain(h)} : firstWord(f.name) = firstWord(g.name) => << f, g >> \in together(here)
        /\ \A f, g \in {h \in found(there) : plain(h)} :
            firstWord(InSmall(f.name)) = firstWord(InSmall(g.name)) => << f, g >> \in together(there)

\* What a service sent is taken for a document only if it is all that was to be
\* sent; and it is asked again only when that may help, and then it is.  Nothing is
\* said of the call after one that disabled the adapter.
CallsTell(q) ==
    LET calls == Posted(<< "first", "second" >>, q.answers) IN
    /\ Len(calls) = 2
    /\ \A k \in DOMAIN calls :
        LET call == calls[k] IN
        /\ call.outcome = "ok" =>
            call.answer.status = "ok" /\ \A size \in call.answer.announced : call.answer.sent = size
        /\ call.attempts < MAX_CALLS => call.outcome \notin {"TRANSIENT", "RATE_LIMITED"}
        /\ \A j \in 1..(call.attempts - 1) :
            \/ q.answers[k][j].status \in {"unreachable", "s429"}
            \/ q.answers[k][j].announced = {2} /\ q.answers[k][j].sent = 1

\* Whatever becomes of one candidate the others are taken as if it had not been
\* there, every one has a run or is a failure, and none is told of twice.  The
\* same documents are gone through again in a batch only after a run of them that
\* failed, or whose hashes were not known.  A message that there is work follows
\* only if something was done.  Which outcomes the sentence leaves out is not said.
EachIsTold(q) ==
    LET batch == ProcessBatch(q.runs, q.candidates, q.force)
        others == ProcessBatch(q.runs, SelectSeq(q.candidates, LAMBDA c : c.ends # "raises"), q.force)
        said == BatchSentence(batch)
        posted == Messages(batch, [notifier |-> TRUE, demo |-> FALSE])
        new == (Len(q.runs) + 1)..Len(batch.runs)
    IN  /\ batch.runs = others.runs
        /\ said.processed = Len(q.candidates)
        /\ said.processed = Cardinality(new) + said.reused + said.failures
        /\ said.ready + said.quarantined + said.failures <= said.processed
        /\ (\A k \in DOMAIN q.candidates : q.candidates[k].hashed) /\ ~q.force =>
            \A i, j \in new : i < j /\ batch.runs[i].docs = batch.runs[j].docs =>
                \/ batch.runs[i].status = "FAILED_TERMINAL"
                \/ \E k \in 1..(i - 1) : batch.runs[k].docs = batch.runs[i].docs /\ batch.runs[k].status = "FAILED_TERMINAL"
        /\ \A k \in DOMAIN posted : posted[k].count > 0 /\ (posted[k].kind = "BATCH_READY" => new # {})
        /\ new # {} /\ said.ready > 0 => \E k \in DOMAIN posted : posted[k].kind = "BATCH_READY"
        /\ ~WentWell(batch) => \A k \in new : batch.runs[k].status \in {"FAILED_TERMINAL", "MANUAL_REVIEW_REQUIRED"}

\* Calls that come so long one after the other has been answered.
AskRates == Ask("rates") /\ \E waits \in [1..5 -> 0..3] : input' = waits

\* When each call was let through, and what the bucket held then.
Taken(waits) ==
    LET taken[k \in 0..Len(waits)] ==
            IF k = 0 THEN [at |-> 0, bucket |-> FullBucket]
            ELSE Take(taken[k - 1].bucket, taken[k - 1].at + waits[k])
    IN  taken

NeverAbove(waits) ==
    \A i, j \in DOMAIN waits :
        i <= j => (j - i + 1 - Capacity) * Interval <= Taken(waits)[j].at - Taken(waits)[i].at

\* However the calls come, no more are let through in any time than the limit
\* allows at once and one for every interval of it (retrying.py).
RateIsKept == topic = "rates" => NeverAbove(input)

\* A batch loses no file that is offered and no candidate, whatever the services,
\* the pipeline and the other candidates do (process_batch.py:3-6), and asks no
\* service faster than its limit.
BatchIsAccountedFor ==
    /\ topic = "batches" =>
        CASE "files" \in DOMAIN input   -> ListingsTell(input)
          [] "answers" \in DOMAIN input -> CallsTell(input)
          [] "runs" \in DOMAIN input    -> EachIsTold(input)
    /\ RateIsKept

Next ==
    \/ AskRates \/ AskBatches \/ AskRules \/ AskTexts \/ AskQuotes \/ AskChunks \/ AskMerges \/ AskScans
    \/ AskFiles \/ AskAnchors \/ AskDrafts \/ AskCosts \/ AskPanels \/ AskRubrics

Spec == Init /\ [][Next]_vars

=============================================================================
