----------------------------- MODULE Calibration -----------------------------
(***************************************************************************)
(* Past decisions as anchors: the card a delivered approval leaves         *)
(* (domain/calibration.py, pipeline/deliver.py), the cards that are found  *)
(* for a candidate (infrastructure/calibration/index.py) and what the      *)
(* CALIBRATE node says of the search (pipeline/calibrate.py).              *)
(*                                                                         *)
(* A past run is what was decided and under which rubric.  A text is the    *)
(* set of its words, stopwords aside, and a vector of the local embedder is *)
(* those words: words whose hashes collide are not modelled.  How near a    *)
(* provider's vectors are is taken as given.  A rubric version is           *)
(* << major, patch >>, an age is in days.                                   *)
(***************************************************************************)
EXTENDS Integers, Sequences, FiniteSets, SequencesExt, FiniteSetsExt

CONSTANTS
    MAX_CORPUS,         \* cards a search reads, the latest decisions first
    MIN_SIMILARITY      \* below this a card is no reference

ASSUME CalibrationAssumption == MAX_CORPUS \in Nat /\ MIN_SIMILARITY \in Nat

CalibrationStatus == {"disabled", "applied", "empty_corpus", "no_matches",
                      "embedding_failed", "index_unavailable"}

-----------------------------------------------------------------------------
(* Texts and vectors. *)

MAX_ROLES == 4
MAX_TECHNOLOGIES == 12

Profile(titles, technologies, education) ==
    [titles |-> titles, technologies |-> technologies, education |-> education]
NoProfile == Profile(<< >>, << >>, << >>)

\* What summary_of says of somebody of whom nothing is known.
NoHistory == {<< "structured" >>, << "history" >>, << "available" >>, << "candidate" >>}

\* summary_of: the first few titles and technologies and the first education that
\* a profile states, and nothing else of it.
Summary(profile) ==
    LET first(fields, n) == Range(SubSeq(fields, 1, Min({n, Len(fields)})))
        words == first(profile.titles, MAX_ROLES) \cup first(profile.technologies, MAX_TECHNOLOGIES)
                   \cup first(profile.education, 1)
    IN  IF words = {} THEN NoHistory ELSE {<< w >> : w \in words}

\* embedding_text: the summary and what the criteria came to, never free text.
EmbeddingText(summary, states) == summary \cup {<< i, states[i] >> : i \in DOMAIN states}

\* embed: one vector or none.  A provider may be away or have nothing to say.
Embed(embedder, text) ==
    CASE embedder = "local"    -> IF text = {} THEN << >> ELSE << [by |-> "local", words |-> text] >>
      [] embedder = "provider" -> << [by |-> "provider", words |-> {}] >>
      [] embedder = "away"     -> << >>

-----------------------------------------------------------------------------
(* A card. *)

\* should_create: only an approval earns one.
ShouldCreate(run) == run.action = "APPROVE"

\* _band_of: a reviewer's corrected band wins.
BandDecided(run) == IF run.corrected # "none" THEN run.corrected ELSE run.band

\* The state a delivery works on is rebuilt from the row of the run: it has no
\* profile and no rubric, whatever the run had.
ResumedState == [profile |-> NoProfile, rubric |-> "none"]

\* getattr(rubric, "version", "1.0.0").
VersionOf(rubric) == IF rubric = "none" THEN << 1, 0 >> ELSE rubric

\* The card of `run', the k-th latest; card_from.
CardFrom(run, k, vector) ==
    [source |-> k, role |-> run.role, version |-> VersionOf(ResumedState.rubric), band |-> BandDecided(run),
     age |-> run.age, vector |-> vector, near |-> run.near]

\* _write_calibration_card: a decision whose text gave no vector leaves no card.
CardOf(run, k) ==
    LET vector == Embed(run.embedder, EmbeddingText(Summary(ResumedState.profile), run.states))
    IN  IF ShouldCreate(run) /\ vector # << >> THEN << CardFrom(run, k, vector[1]) >> ELSE << >>

\* Every card there is, the latest decision first.
Cards(history) == FlattenSeq([k \in DOMAIN history |-> CardOf(history[k], k)])

-----------------------------------------------------------------------------
(* The search. *)

\* for_role asks for the very version, so the major one is only looked at again.
ForRole(cards, role, version) ==
    LET found == SelectSeq(cards, LAMBDA c : c.role = role /\ c.version = version)
    IN  SubSeq(found, 1, Min({MAX_CORPUS, Len(found)}))

MajorVersion(version) == version[1]

Stale(card, query) == card.age > Max({query.staleness_days, 1})

\* apply_filters, before any similarity is computed.
ApplyFilters(cards, query) ==
    SelectSeq(cards, LAMBDA c :
        /\ c.role = query.role
        /\ MajorVersion(c.version) = MajorVersion(query.version)
        /\ c.source # query.run
        /\ ~Stale(c, query))

\* The words two texts share, or what the provider makes of them.
Similarity(vector, card) ==
    IF vector.by = "local" THEN Cardinality(vector.words \cap card.vector.words) ELSE card.near

\* rank: the cards whose vectors are as long as this one, the nearest first,
\* earlier ones first among equals.
Rank(vector, cards) ==
    LET usable == SelectSeq(cards, LAMBDA c : c.vector.by = vector.by /\ Similarity(vector, c) >= MIN_SIMILARITY)
        before(i, j) == LET a == Similarity(vector, usable[i]) b == Similarity(vector, usable[j])
                        IN  a > b \/ (a = b /\ i < j)
        order == SetToSortSeq(DOMAIN usable, before)
    IN  [k \in DOMAIN order |-> usable[order[k]]]

\* A bug of the kind Diversify could have: the next best takes the last slot.
FaultNextBest(ranked, top_k) ==
    IF Len(ranked) > top_k
      THEN SubSeq(ranked, 1, top_k - 1) \o << ranked[top_k + 1] >>
      ELSE ranked

\* diversify: the last slot goes to the nearest of another band, if the nearest
\* few all agree and there is one.
Diversify(ranked, top_k) ==
    LET chosen == SubSeq(ranked, 1, Min({top_k, Len(ranked)}))
        bands == {chosen[k].band : k \in DOMAIN chosen}
        others == SelectSeq(SubSeq(ranked, top_k + 1, Len(ranked)), LAMBDA c : c.band \notin bands)
    IN  IF Len(chosen) < top_k \/ Cardinality(bands) > 1 \/ others = << >>
          THEN chosen
          ELSE Front(chosen) \o << Head(others) >>

Found(status, matches) == [status |-> status, matches |-> matches]

\* search never raises.
Search(cards, query) ==
    LET read == ForRole(cards, query.role, query.version)
        kept == ApplyFilters(read, query)
        vector == Embed(query.embedder, EmbeddingText(query.summary, query.states))
        ranked == Rank(vector[1], kept)
    IN  CASE ~query.readable                 -> Found("index_unavailable", << >>)
          [] query.readable /\ read = << >>  -> Found("empty_corpus", << >>)
          [] OTHER ->
             IF kept = << >> THEN Found("no_matches", << >>)
             ELSE IF vector = << >> THEN Found("embedding_failed", << >>)
             ELSE IF ranked = << >> THEN Found("no_matches", << >>)
             ELSE Found("applied", Diversify(ranked, query.top_k))

\* _query_for, of a run on its way: its profile and its rubric are there, and its
\* criteria are not, because AGGREGATE is still to come.
QueryFor(run, settings) ==
    [run |-> run.id, role |-> run.role, version |-> VersionOf(run.rubric), summary |-> Summary(run.profile),
     states |-> << >>, top_k |-> settings.top_k, staleness_days |-> settings.staleness_days,
     readable |-> settings.readable, embedder |-> settings.embedder]

\* The CALIBRATE node: both the run and the deployment have to want it, and a
\* search that could not be made degrades the run.
CalibrateNode(cards, run, settings) ==
    LET result == IF ~(run.enabled /\ settings.enabled) THEN Found("disabled", << >>)
                  ELSE IF ~settings.indexed THEN Found("index_unavailable", << >>)
                  ELSE Search(cards, QueryFor(run, settings))
    IN  [status |-> IF result.status \in {"embedding_failed", "index_unavailable"}
                      THEN "DEGRADED" ELSE "OK",
         calibration |-> result.status, block |-> result.matches]

=============================================================================
