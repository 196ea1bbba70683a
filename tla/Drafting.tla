------------------------------ MODULE Drafting ------------------------------
(***************************************************************************)
(* What is written around a recommendation: the profile read from the      *)
(* documents (pipeline/structure.py), the requests and questions for what  *)
(* the documents left open (pipeline/compose.py, domain/fairness.py) and   *)
(* the reasons a reviewer is told to look closer (pipeline/review.py).     *)
(*                                                                         *)
(* Only what decides is here: a piece of a document is what the model made *)
(* of it, a sentence is the criterion it is for and its words.             *)
(***************************************************************************)
EXTENDS Rules, Provenance

-----------------------------------------------------------------------------
(* STRUCTURE. *)

\* The first place of some text, with the pages it lies on, or none.
FirstPlace(needle, source) ==
    LET found == Occurrences(source.text, needle)
        start == Min(found)
        end == start + Len(needle)
        pages == {k \in DOMAIN source.pages : source.pages[k].start < end /\ start < source.pages[k].end}
    IN  IF needle = << >> \/ found = {} THEN << >>
        ELSE IF pages = {} THEN << >>
        ELSE << [start |-> start, end |-> end, first |-> Min(pages), last |-> Max(pages),
                 method |-> source.pages[Min(pages)].method] >>

\* A bug of the kind Locate could have: the quote is looked for as it came.
FaultRawQuote(quote, source) == FirstPlace(quote, source)

\* _locate: the quote is normalised the way the source was.
Locate(quote, source) == FirstPlace(Normalize(quote), source)

\* Each document that has a text is read piece by piece, and what of it could not
\* be read is left out and said to be.  A model that cannot be reached ends the
\* node, with nothing kept of what was read before.
StructureNode(documents) ==
    LET sources == SelectSeq(documents, LAMBDA d : d.text)
        answers == UNION {Range(sources[k].answers) : k \in DOMAIN sources}
        partial == answers \cap {"partial", "invalid"} # {}
    IN  IF sources = << >> \/ "unavailable" \in answers
          THEN [status |-> "FAILED", partial |-> FALSE, degraded |-> {}]
          ELSE [status |-> IF partial THEN "DEGRADED" ELSE "OK", partial |-> partial,
                degraded |-> IF partial THEN {"partial_profile"} ELSE {}]

-----------------------------------------------------------------------------
(* What a sentence may not stray onto: a few terms of each of the lists.  A    *)
(* term and a text are their words, so that a term is never part of a word.    *)

PROTECTED_WORDS == { << "gender" >>, << "children" >> }
PROTECTED_PHRASES == { << "how", "old" >>, << "race", "or" >> }
TECHNICAL_SENSES == { << "children", "of" >> }

Mentions(text, terms) == \E term \in terms : \E at \in DOMAIN text : IsPrefix(term, SubSeq(text, at, Len(text)))

\* _without_technical_senses: what is taken out leaves a blank, no more.
WithoutTechnicalSenses(text) ==
    LET inside(k) == \E sense \in TECHNICAL_SENSES : \E at \in DOMAIN text :
            IsPrefix(sense, SubSeq(text, at, Len(text))) /\ at <= k /\ k < at + Len(sense)
        left == SelectSeq([k \in DOMAIN text |-> k], LAMBDA k : ~inside(k))
    IN  [j \in DOMAIN left |-> text[left[j]]]

\* mentions_protected_attribute: `extra' is what the rubric itself forbids.
MentionsProtectedAttribute(text, extra) ==
    Mentions(WithoutTechnicalSenses(text), PROTECTED_WORDS \cup PROTECTED_PHRASES \cup (extra \ {<< >>}))

-----------------------------------------------------------------------------
(* COMPOSE. *)

UNRESOLVED_STATES == {"INSUFFICIENT_EVIDENCE", "PARTIAL"}

\* find_gaps, in the order of the rubric; `absent' is what the template says.
FindGaps(rubric, states) ==
    LET open == SelectSeq([i \in DOMAIN rubric.criteria |-> i],
                          LAMBDA i : i \in DOMAIN states /\ states[i] \in UNRESOLVED_STATES)
    IN  [k \in DOMAIN open |->
            [criterion |-> open[k], absent |-> states[open[k]] = "INSUFFICIENT_EVIDENCE"]]

Written(criterion, by, words) == [criterion |-> criterion, by |-> by, words |-> words]

\* The words of a template and of a criterion's label are not looked at.
TemplateRequest(gap) == Written(gap.criterion, IF gap.absent THEN "not mentioned" ELSE "not much said", << >>)
TemplateQuestion(gap) == Written(gap.criterion, "tell me about", << >>)

FromTemplates(gaps) ==
    [requests |-> [k \in DOMAIN gaps |-> TemplateRequest(gaps[k])],
     questions |-> [k \in DOMAIN gaps |-> TemplateQuestion(gaps[k])], used_templates |-> TRUE]

\* A sentence about no gap, or that mentions_forbidden, is dropped.
Usable(gaps, sentences, forbidden) ==
    SelectSeq(sentences, LAMBDA s : /\ \E k \in DOMAIN gaps : gaps[k].criterion = s.criterion
                                    /\ ~MentionsProtectedAttribute(s.words, forbidden))

\* A bug of the kind Phrased could have: a gap the model answered for is asked.
FaultAnswered(gaps, sentences, forbidden) == {sentences[k].criterion : k \in DOMAIN sentences}

\* The gaps whose request was kept.
Phrased(gaps, sentences, forbidden) == {s.criterion : s \in Range(Usable(gaps, sentences, forbidden))}

\* _compose; `answer' is the model's, or none that can be used.
Compose(gaps, answer, forbidden) ==
    LET unphrased == SelectSeq(gaps, LAMBDA g : g.criterion \notin Phrased(gaps, answer.requests, forbidden))
    IN  IF gaps = << >> THEN [requests |-> << >>, questions |-> << >>, used_templates |-> FALSE]
        ELSE IF answer.kind # "answered" THEN FromTemplates(gaps)
        ELSE [requests |-> Usable(gaps, answer.requests, forbidden)
                             \o [k \in DOMAIN unphrased |-> TemplateRequest(unphrased[k])],
              questions |-> Usable(gaps, answer.questions, forbidden), used_templates |-> FALSE]

ComposeNode(rubric, rec, answer) ==
    LET package == Compose(FindGaps(rubric, rec.states), answer, rubric.forbidden_attributes)
    IN  [status |-> IF package.used_templates THEN "DEGRADED" ELSE "OK", package |-> package]

-----------------------------------------------------------------------------
(* REVIEW. *)

\* reasons_to_flag.
ReasonsToFlag(rec, integrity, flags, degraded) ==
    {r \in {"requires_human", "integrity", "partial_profile", "invalid_span", "budget_capped",
            "contradicted", "degraded"} :
        CASE r = "requires_human"  -> rec.human
          [] r = "integrity"       -> integrity # "CLEAN"
          [] r = "partial_profile" -> flags.partial_profile
          [] r = "invalid_span"    -> flags.invalid_span
          [] r = "budget_capped"   -> flags.budget_capped
          [] r = "contradicted"    -> \E i \in DOMAIN rec.states : rec.states[i] = "CONTRADICTED"
          [] r = "degraded"        -> degraded # {}}

\* The node that stages a run that has a recommendation.
ReviewNode(rec, integrity, flags, degraded) ==
    IF ReasonsToFlag(rec, integrity, flags, degraded) # {} THEN "NEEDS_REVIEW" ELSE "READY_FOR_REVIEW"

=============================================================================
