------------------------------ MODULE Integrity ------------------------------
(***************************************************************************)
(* What the scanners say of a submission: the detectors                    *)
(* (infrastructure/security/detectors.py), what they are given of a file   *)
(* (scan.py, metadata.py, render_diff.py), the tier their findings imply   *)
(* (domain/contracts/integrity.py), and the SANITIZE node, which asks a    *)
(* model for a second opinion and halts a run (pipeline/sanitize.py).      *)
(*                                                                         *)
(* Patterns are not matched here: a text is the set of the features the    *)
(* detectors look for, and a run of text on a page is how it is drawn.     *)
(* Confidences are in hundredths.  Findings of one detector in a document  *)
(* are told apart by severity and confidence, not by their excerpt.        *)
(***************************************************************************)
EXTENDS Integers, Sequences, FiniteSets, SequencesExt, FiniteSetsExt

CONSTANTS
    RenderedPages,  \* settings.render_diff_max_pages
    ScannedPages    \* max_pages of spans_of

Severity == {"LOW", "MEDIUM", "HIGH"}
IntegrityTier == << "CLEAN", "SUSPECT", "QUARANTINE" >>

\* RANK: "may only raise" is an inequality.
RANK == [LOW |-> 0, MEDIUM |-> 1, HIGH |-> 2]

\* The ids of the detectors.
DETECTOR_IDS == {"D-INSTR-IMPERATIVE", "D-ROLE-TOKEN", "D-ZERO-WIDTH", "D-HIDDEN-COLOUR", "D-HIDDEN-SIZE",
             "D-OFFPAGE", "D-HOMOGLYPH", "D-METADATA", "D-REPETITION", "D-RENDER-DIFF"}

Finding(detector, severity, confidence) ==
    [detector |-> detector, severity |-> severity, confidence |-> confidence]

If(condition, finding) == IF condition THEN {finding} ELSE {}

-----------------------------------------------------------------------------
(* The detectors of a text, which is its features and its imperatives: each  *)
(* the pattern it matches and whether an addressing token is near.  The      *)
(* characters with no width are in the raw text only.                        *)

\* What the tables of patterns, tokens and characters can find in a text, and the
\* imperatives of one.
TextFeature == {"addresses", "role_token", "no_width", "mixed_script", "stuffed"}

Normalized(text) == [text EXCEPT !.features = @ \ {"no_width"}]

\* detect_instructions: one imperative may be a turn of phrase, two are not.
DetectInstructions(text) ==
    LET outward == {hit.pattern : hit \in {h \in text.imperatives : h.near}} IN
    CASE "addresses" \in text.features -> {Finding("D-INSTR-IMPERATIVE", "HIGH", 90)}
      [] "addresses" \notin text.features /\ Cardinality(outward) >= 2 ->
            {Finding("D-INSTR-IMPERATIVE", "HIGH", 80)}
      [] "addresses" \notin text.features /\ Cardinality(outward) = 1 ->
            {Finding("D-INSTR-IMPERATIVE", "MEDIUM", 55)}
      [] OTHER -> {}

DetectRoleTokens(text) == If("role_token" \in text.features, Finding("D-ROLE-TOKEN", "HIGH", 95))
DetectInvisibleGlyphs(text) == If("no_width" \in text.features, Finding("D-ZERO-WIDTH", "MEDIUM", 70))
DetectHomoglyphs(text) == If("mixed_script" \in text.features, Finding("D-HOMOGLYPH", "MEDIUM", 75))
DetectRepetition(text) == If("stuffed" \in text.features, Finding("D-REPETITION", "LOW", 60))

\* run_text_detectors: the invisible characters are looked for in the raw text.
RunTextDetectors(text) ==
    LET read == Normalized(text) IN
    UNION {DetectInstructions(read), DetectRoleTokens(read), DetectInvisibleGlyphs(text),
           DetectHomoglyphs(read), DetectRepetition(read)}

\* A property of the file needs no addressing token: nobody reads it.
DetectMetadata(properties) ==
    If("instructs" \in properties, Finding("D-METADATA", "HIGH", 90))

-----------------------------------------------------------------------------
(* A PDF is its pages: how its boxes lie, its runs of text, whether it can   *)
(* be read, whether any word was read from the picture of it, and its        *)
(* sentences as that picture supports them.                                  *)

\* spans_of: a page whose crop is lifted gives what lies between the two boxes.
SpansOf(pages) ==
    UNION {{run \in pages[p].runs : run.drawn = "outside" => pages[p].boxes = "one_origin"} :
            p \in {q \in DOMAIN pages : q <= ScannedPages /\ pages[q].readable}}

\* Too short a run is never reported, whatever is wrong with it.
Drawn(spans, hows) == \E run \in spans : run.long /\ run.drawn \in hows

DetectHiddenColour(spans) == If(Drawn(spans, {"pale", "clear"}), Finding("D-HIDDEN-COLOUR", "HIGH", 90))
DetectHiddenSize(spans) == If(Drawn(spans, {"tiny"}), Finding("D-HIDDEN-SIZE", "HIGH", 90))
DetectOffpage(spans) == If(Drawn(spans, {"outside"}), Finding("D-OFFPAGE", "HIGH", 85))

RunSpanDetectors(spans) ==
    DetectHiddenColour(spans) \cup DetectHiddenSize(spans) \cup DetectOffpage(spans)

\* unmatched_text, a length: the sentences long enough to judge that were not
\* recovered, with a blank between them.  A picture no word was read from is a
\* reader that failed; one that reads as something else is not.
UnmatchedChars(page) ==
    LET missing == {s \in page.sentences : s.words >= 4 /\ s.recovered < 60} IN
    IF ~page.seen \/ missing = {} THEN 0
    ELSE MapThenSumSet(LAMBDA s : s.chars, missing) + Cardinality(missing) - 1

\* compare_document and detect_render_diff.
DetectRenderDiff(pages) ==
    If(\E p \in DOMAIN pages : /\ p <= RenderedPages
                               /\ pages[p].readable
                               /\ UnmatchedChars(pages[p]) >= 60,
       Finding("D-RENDER-DIFF", "HIGH", 82))

\* scan_pdf and scan_text.  A file that does not open is still a text.
Scan(document, compares) ==
    RunTextDetectors(document.text) \cup
        IF document.kind = "pdf"
          THEN RunSpanDetectors(SpansOf(document.pages))
                   \cup DetectMetadata(document.properties)
                   \cup IF compares /\ Len(document.pages) <= RenderedPages
                          THEN DetectRenderDiff(document.pages) ELSE {}
          ELSE {}

-----------------------------------------------------------------------------
(* The tier. *)

\* tier_for.
TierFor(findings, threshold) ==
    IF \E f \in findings : f.severity = "HIGH" /\ f.confidence >= threshold THEN "QUARANTINE"
    ELSE IF \E f \in findings : f.severity \in {"HIGH", "MEDIUM"} THEN "SUSPECT" ELSE "CLEAN"

Severest(tiers) == CHOOSE t \in tiers : \A u \in tiers :
    SelectInSeq(IntegrityTier, LAMBDA x : x = u) <= SelectInSeq(IntegrityTier, LAMBDA x : x = t)

\* IntegrityReport's validator, on the way in and on the way out of the database.
ReportAccepted(report) == report.tier = TierFor(report.findings, report.threshold)

\* _scan_one.
ScanOne(document, settings) ==
    LET findings == Scan(document, settings.compares) IN
    [findings |-> findings, threshold |-> settings.threshold,
     tier |-> TierFor(findings, settings.threshold),
     classifier_used |-> FALSE, classifier_unavailable |-> FALSE]

\* A bug of the kind Raised could have: the verdict is the severity.
FaultVerdictStands(findings, verdict) ==
    {[f EXCEPT !.severity = verdict[f.detector]] : f \in findings}

Raised(findings, verdict) ==
    {IF RANK[verdict[f.detector]] > RANK[f.severity]
       THEN [f EXCEPT !.severity = verdict[f.detector]] ELSE f : f \in findings}

\* _second_opinion: of a suspect document only, and of every finding or none.
\* A verdict is a severity, or "unavailable".  The copy is not validated again.
SecondOpinion(report, settings, verdict) ==
    IF report.tier # "SUSPECT" \/ ~settings.classifies THEN report
    ELSE IF \E f \in report.findings : verdict[f.detector] = "unavailable"
      THEN [report EXCEPT !.classifier_unavailable = TRUE]
      ELSE LET findings == Raised(report.findings, verdict) IN
           [report EXCEPT !.findings = findings, !.classifier_used = TRUE,
                          !.tier = TierFor(findings, settings.threshold)]

\* _worst_of.
WorstOf(reports) == Severest({"CLEAN"} \cup {reports[k].tier : k \in DOMAIN reports})

\* node: one document's quarantine is the submission's, and it halts the run.
SanitizeNode(documents, settings, verdict) ==
    LET reports == [k \in DOMAIN documents |->
                        SecondOpinion(ScanOne(documents[k], settings), settings, verdict)]
        tier == WorstOf(reports)
    IN  [reports |-> reports, tier |-> tier,
         status |-> IF documents = << >> \/ tier = "QUARANTINE" THEN "FAILED"
                    ELSE IF tier = "SUSPECT" THEN "DEGRADED" ELSE "OK",
         next |-> IF documents = << >> \/ tier = "QUARANTINE" THEN "QUARANTINED" ELSE "SANITIZED"]

=============================================================================
