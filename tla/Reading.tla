------------------------------- MODULE Reading -------------------------------
(***************************************************************************)
(* From a file to a text: what INTAKE takes a file for                     *)
(* (pipeline/intake.py), the readers (infrastructure/extraction: pdf.py,   *)
(* ocr.py, docx.py, dispatcher.py), the order the blocks of a page are     *)
(* read in (layout.py), how well it went (confidence.py, language.py), and *)
(* what EXTRACT makes of that (pipeline/extract.py).                       *)
(*                                                                         *)
(* A file is what its bytes turn out to be.  A block of a PDF's page has a *)
(* centre, in hundredths of the width, and a height down the page.  What   *)
(* the optical reader makes of a page is an input.  Texts are Provenance's.*)
(***************************************************************************)
EXTENDS Provenance

CONSTANTS
    OCR_TRIGGER_CHARS, OCR_MAX_PAGES, MIN_CHARS_PER_PAGE,   \* pdf.py, confidence.py
    MAX_PAGES, MIN_DOCUMENT_CHARS,                          \* IntakeLimits
    WARN                                                    \* extraction_confidence_warn, in hundredths

PAGE_SEPARATOR == << "nl", "nl" >>
CELL_DELIMITER == << " ", "|", " " >>

Strip(text) ==
    LET words == {k \in DOMAIN text : text[k] \notin Space} IN
    IF words = {} THEN << >> ELSE SubSeq(text, Min(words), Max(words))

-----------------------------------------------------------------------------
(* INTAKE. *)

\* sniff_type, by the first bytes: `looks' is what they are.
SniffType(file) ==
    CASE file.looks = "pdf" -> "pdf"
      [] file.looks = "zip" /\ file.has_word_part -> "docx"
      [] file.looks = "printable" -> "txt"
      [] OTHER -> "unknown"

\* classify: the reason a recruiter is given, the first of the table that holds.
Classify(file) ==
    LET kind == SniffType(file)
        reasons == << << file.oversized, "OVERSIZED" >>,
                      << kind = "unknown", "UNSUPPORTED_TYPE" >>,
                      << kind = "pdf" /\ file.encrypted, "ENCRYPTED" >>,
                      << kind \in {"pdf", "docx"} /\ file.truncated, "CORRUPT_FILE" >>,
                      << kind = "pdf" /\ Len(file.pages) > MAX_PAGES, "OVERSIZED" >>,
                      << kind = "txt" /\ Len(Strip(file.text)) < MIN_DOCUMENT_CHARS, "EMPTY_DOCUMENT" >> >>
        failed == {k \in DOMAIN reasons : reasons[k][1]}
    IN  IF failed = {} THEN "accepted" ELSE reasons[Min(failed)][2]

-----------------------------------------------------------------------------
(* Reading order. *)

Join(texts, separator) ==
    FlattenSeq([k \in DOMAIN texts |-> IF k = 1 THEN texts[k] ELSE separator \o texts[k]])

\* detect_columns: from left to right, a block far enough from the last one
\* starts a column.
DetectColumns(blocks) ==
    LET ordered == SetToSortSeq(DOMAIN blocks, LAMBDA a, b :
                        blocks[a].x < blocks[b].x \/ (blocks[a].x = blocks[b].x /\ a < b))
        place(columns, b) ==
            IF columns = << >> \/ blocks[b].x - blocks[Last(Last(columns))].x > 15
              THEN Append(columns, << b >>)
              ELSE Append(Front(columns), Append(Last(columns), b))
    IN  FoldLeft(place, << >>, ordered)

\* reading_order: each column from its top, of two as high the one on the left.
ReadingOrder(blocks) ==
    LET down(column) == SetToSortSeq(Range(column), LAMBDA a, b :
            \/ blocks[a].y < blocks[b].y
            \/ blocks[a].y = blocks[b].y /\ blocks[a].x < blocks[b].x
            \/ blocks[a].y = blocks[b].y /\ blocks[a].x = blocks[b].x /\ a < b)
        columns == DetectColumns(blocks)
    IN  FlattenSeq([c \in DOMAIN columns |-> down(columns[c])])

\* The blocks that say something, as they are read.
Contents(blocks) ==
    SelectSeq([k \in DOMAIN blocks |-> Strip(blocks[ReadingOrder(blocks)[k]].text)], LAMBDA t : t # << >>)

PageText(blocks) == Join(Contents(blocks), << "nl" >>)

\* A bug of the kind BlockBoundaries could have: the blocks are gone through as
\* the file has them.
FaultFileOrder(blocks, offset) ==
    LET texts == SelectSeq([k \in DOMAIN blocks |-> Strip(blocks[k].text)], LAMBDA t : t # << >>)
        start(k) == offset + MapThenSumSet(LAMBDA j : Len(texts[j]) + 1, 1..(k - 1))
    IN  [k \in DOMAIN texts |-> [start |-> start(k), end |-> start(k) + Len(texts[k])]]

\* block_boundaries, and the one character between two blocks.
BlockBoundaries(blocks, offset) ==
    LET texts == Contents(blocks)
        start(k) == offset + MapThenSumSet(LAMBDA j : Len(texts[j]) + 1, 1..(k - 1))
    IN  [k \in DOMAIN texts |-> [start |-> start(k), end |-> start(k) + Len(texts[k])]]

-----------------------------------------------------------------------------
(* The readers.  A page read is its blocks, its text and how it was read. *)

ReadPage(method, blocks, text, confidence, language) ==
    [method |-> method, blocks |-> blocks, text |-> text, confidence |-> confidence, language |-> language]

Stacked(parts) == [k \in DOMAIN parts |-> [x |-> 50, y |-> k, text |-> parts[k]]]

\* read_with_retry: once more if the first reading was poor, and the better one.
ReadWithRetry(first, second) ==
    IF ~first.available \/ first.confidence >= 60 THEN first
    ELSE IF second.confidence > first.confidence THEN second ELSE first

\* _ocr_page: what the reader said stands in for the page, whatever it was.
OcrPage(page) ==
    LET result == ReadWithRetry(page.first, page.second) IN
    ReadPage("OCR", IF result.text = << >> THEN << >> ELSE << [x |-> 50, y |-> 0, text |-> result.text] >>,
             result.text, result.confidence, page.language)

\* pdf.extract_pages: a thin page is read as an image, up to so many of them.
PdfPages(pages) ==
    LET thin == {p \in DOMAIN pages : Len(PageText(pages[p].blocks)) < OCR_TRIGGER_CHARS}
        read == {p \in thin : Cardinality({q \in thin : q < p}) < OCR_MAX_PAGES}
    IN  [p \in DOMAIN pages |->
            IF p \in read THEN OcrPage(pages[p])
            ELSE ReadPage("DIGITAL_PDF", pages[p].blocks, PageText(pages[p].blocks), 100, pages[p].language)]

\* docx.extract_pages: the paragraphs, then the rows of the tables.
DocxPages(paragraphs, rows) ==
    LET said(texts) == SelectSeq([k \in DOMAIN texts |-> Strip(texts[k])], LAMBDA t : t # << >>)
        row(cells) == IF said(cells) = << >> THEN << >>
                      ELSE Join([k \in DOMAIN cells |-> Strip(cells[k])], CELL_DELIMITER)
        parts == said(paragraphs) \o SelectSeq([k \in DOMAIN rows |-> row(rows[k])], LAMBDA t : t # << >>)
    IN  << ReadPage("DOCX", Stacked(parts), Join(parts, << "nl" >>), 75, "en") >>

\* _plaintext_pages: a blank line parts two paragraphs.
PlainPages(text) ==
    LET blank == {k \in 1..(Len(text) - 1) : text[k] = "nl" /\ text[k + 1] = "nl"}
        cut == IF blank = {} THEN << text >>
               ELSE << SubSeq(text, 1, Min(blank) - 1), SubSeq(text, Min(blank) + 2, Len(text)) >>
        parts == SelectSeq([k \in DOMAIN cut |-> Strip(cut[k])], LAMBDA t : t # << >>)
    IN  << ReadPage("PLAINTEXT", Stacked(parts), Join(parts, << "nl" >>), 100, "en") >>

\* _assemble: the separator belongs to the page before it.
Assembled(pages) ==
    LET chunk(k) == pages[k].text \o (IF k < Len(pages) THEN PAGE_SEPARATOR ELSE << >>)
        start(k) == 1 + MapThenSumSet(LAMBDA j : Len(chunk(j)), 1..(k - 1))
    IN  [text |-> FlattenSeq([k \in DOMAIN pages |-> chunk(k)]),
         pages |-> [k \in DOMAIN pages |-> [start |-> start(k), method |-> pages[k].method]],
         blocks |-> FlattenSeq([k \in DOMAIN pages |-> BlockBoundaries(pages[k].blocks, start(k))])]

\* language.detect, the component of confidence: by pages, and half if no one
\* language is that of three pages in five.
LanguageScore(pages) ==
    LET of(l) == Cardinality({p \in DOMAIN pages : pages[p].language = l})
        languages == {pages[p].language : p \in DOMAIN pages} \ {"unknown"}
        most == IF languages = {} THEN 0 ELSE Max({of(l) : l \in languages})
    IN  IF languages = {} THEN 0
        ELSE IF 5 * most < 3 * MapThenSumSet(of, languages) THEN 50 ELSE 100

\* confidence.compute and total, in ten thousandths and times the pages.
ConfidenceTimesPages(pages) ==
    LET filled == {p \in DOMAIN pages : Len(Strip(pages[p].text)) >= MIN_CHARS_PER_PAGE}
        structured == {p \in DOMAIN pages : Len(pages[p].blocks) > 1}
    IN  4000 * Cardinality(filled) + 30 * MapThenSumSet(LAMBDA p : pages[p].confidence, DOMAIN pages)
          + 2000 * Cardinality(structured) + 10 * LanguageScore(pages) * Len(pages)

IsPoor(pages) == ConfidenceTimesPages(pages) < 100 * WARN * Len(pages)

Refusal(code) == [error |-> code, pages |-> << >>, source |-> << >>]

\* Extractor.extract, by the type INTAKE gave the file.  `opens' is whether the
\* library can.
Extract(file) ==
    LET kind == SniffType(file)
        pages == CASE kind = "pdf" -> PdfPages(file.pages)
                   [] kind = "docx" -> DocxPages(file.paragraphs, file.rows)
                   [] kind = "txt" -> PlainPages(file.text)
                   [] kind = "unknown" -> << >>
    IN  CASE kind = "unknown" -> Refusal("UNSUPPORTED_TYPE")
          [] kind \in {"pdf", "docx"} /\ ~file.opens -> Refusal("CORRUPT_FILE")
          [] kind = "pdf" /\ file.opens /\ file.encrypted -> Refusal("ENCRYPTED")
          [] OTHER -> IF \A p \in DOMAIN pages : Strip(pages[p].text) = << >>
                        THEN Refusal("EMPTY_DOCUMENT")
                        ELSE [error |-> "none", pages |-> pages, source |-> Assembled(pages)]

\* normalize_source's part for the blocks; one that nothing is left of is dropped.
NormalizedBlocks(source) ==
    LET moved(runs, total) == [k \in DOMAIN source.blocks |->
                                [start |-> NormAt(source.blocks[k].start, runs, total),
                                 end |-> NormAt(source.blocks[k].end, runs, total)]]
        kept(marked) == SelectSeq(moved(OffsetRuns(marked), Len(marked)), LAMBDA b : b.start < b.end)
    IN  kept(NormalizeWithMap(source.text))

\* EXTRACT: one file that cannot be read ends the run, one read badly does not.
\* `cached' are the files whose text an earlier run has left under this profile:
\* they are not read again, and nothing is said of how well they were.
ExtractNode(files, cached) ==
    LET read == [k \in DOMAIN files \ cached |-> Extract(files[k])]
        failed == {k \in DOMAIN read : read[k].error # "none"}
    IN  CASE files = << >> -> "NO_DOCUMENTS"
          [] files # << >> /\ failed # {} -> read[Min(failed)].error
          [] OTHER -> IF \E k \in DOMAIN read : IsPoor(read[k].pages) THEN "DEGRADED" ELSE "OK"

=============================================================================
