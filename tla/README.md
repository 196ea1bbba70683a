# Submission Desk: specifications and proofs

Submission Desk takes a candidate's documents through a pipeline of nodes, puts
the result in front of a reviewer, and sends what the reviewer approved to a
CSV file and a spreadsheet. This directory models the life of one run, from its
creation to the last destination, with everything that may act on it at the same
time; the threads and the money of its ASSESS node; the documents that runs
share; and what the nodes and the pages around them compute.

## 1. The system

| Part | State it keeps | Operations | Talks to |
|---|---|---|---|
| Status and node tables (`domain/state_machine.py`, `pipeline/registry.py`) | none | `can_transition`, `_next_status` | read by all |
| Runner and nodes (`application/runner.py`, `pipeline/*.py`) | `RunState` in memory | `run`, `_commit_node`, the budget stop | run, event, error and evidence rows |
| Run repository (`infrastructure/storage/sqlite`) | the rows | one transaction per method | all |
| Reconciliation (`application/recovery.py`) | none | `reconcile` | rows of runs whose worker is silent |
| Deletion, purge (`use_cases/delete_run.py`, `purge.py`) | none | `delete_run`, `purge`, `remove_run` | rows, blobs |
| Review (`use_cases/submit_review.py`) | the version the page shows | `submit_review` | run row, reviews, recommendation |
| Delivery (`pipeline/deliver.py`, `deliver_approved.py`, `retry_deliveries.py`) | none between passes | the DELIVER node, a retry | run row, delivery rows, sinks, cards |
| Destinations (`infrastructure/integrations`) | rows outside the database; "disabled" in memory | `deliver`, `deliver_batch` | the far side |
| Budget and accounting (`application/budget.py`, `accounting.py`) | counters per run, in memory; the ledger; the run's totals | `record`, `allows`, `may_escalate`, `record_call` | runner, ASSESS threads |
| Assessment (`pipeline/assess.py`) | per-criterion outcomes | thread pool, attempts, escalation | models, budget |
| Content keys, blobs, texts (`process_candidate.py`, `intake.py`, `extract.py`, `blobs.py`) | documents by hash, one key a run | submit, look, claim, store, remove | INTAKE, EXTRACT, deletion |
| Model stack (`infrastructure/models`) | response cache | cache, repair, route, call, price | SANITIZE, STRUCTURE, ASSESS, COMPOSE |
| Sources, services, batches (`integrations`, `process_batch.py`, `notify.py`) | a token bucket, "disabled" | list, download, process in turn, post | pipeline |
| Rubrics (`use_cases/rubrics.py`, `infrastructure/rubrics.py`) | file, stored copy, a cache per process | save, reset, load | CONFIG |
| Extraction (`infrastructure/extraction`) | none | sniff, read, order, OCR, assemble | EXTRACT |
| Integrity scanners (`infrastructure/security`, `pipeline/sanitize.py`) | none | detect, compare with the rendering, second opinion | SANITIZE |
| Provenance (`domain/provenance`, `app/passages.py`) | none | normalise, chunk, select, validate, merge, show | STRUCTURE, ASSESS, review page |
| Rules (`domain/rules`) | none | resolve, aggregate, explain | AGGREGATE, overrides |
| Composition and staging (`structure.py`, `compose.py`, `review.py`, `fairness.py`) | none | locate, draft, fall back, flag | models, rules |
| Calibration (`domain/calibration.py`, `infrastructure/calibration`) | cards | write, search, diversify | DELIVER, CALIBRATE |
| Prices and panels (`pricing.py`, `admin.py`, `metrics_sql.py`) | settings | save, price, total, summarise | operations page |
| Evaluation harness, scripts, front end | see PROJECT.json | | |

What is hard here is not inside a part. The worker, the web process's handlers,
the command line, the reconciler and the purge are separate actors on one row.
Nothing serialises them but SQLite's write lock around single statements
(`AdvisoryLock` exists and has no caller). A step of any of them is a read, a
decision and one or more later writes, and the process may die in between.
`runs.update` compares a version; `set_status`, `mark_node_complete` and
`set_integrity_tier` write unconditionally. A sink's answer may be lost after
it took the row. Deletion cascades over everything except what was already sent.

What makes each part correct:

* runner: no run is lost in a working state, and none whose documents were not
  clean is presented as clean, whichever nodes fail;
* repository: no write undoes another process's committed work;
* review: one decision per page version, and rows and status agree;
* delivery: nothing leaves without a persisted approval; a run is called
  delivered only when it is everywhere; what is approved arrives in the end;
* destinations: a row at most once, or once more per fault;
* reconciliation: it acts only on runs nobody else can act on, and what it
  interrupts is resumed;
* assessment: a ceiling is passed by no more than the calls in flight, what was
  paid is on the books, the three books agree, and the node ends;
* documents: nothing a run refers to is deleted, nothing is left when the last
  run is gone, and work done is recognised;
* provenance: what is quoted is in the document, where it is said to be;
* rules: silence is no finding, and a band is a function of the states;
* scanners and drafts: no answer of a model makes a finding milder, settles a
  point that is open, or says what may not be said;
* rubrics: a run is judged by the rubric in force, to the end;
* batches, prices, panels: everything is accounted for, once.

Not all of this is what the code does: the six violation runs say where, and
section 6 lists what was met beside them.

## 2. The modules

| Module | Stands for |
|---|---|
| `RunStatus` | the tables, as functions, and `_next_status` |
| `RunStore` | the columns and rows of one run; one operator per repository transaction |
| `Runner` | the worker: `Execute` is a node call, `AppendEvent`, `CommitTier`, `CommitStatus` the three transactions of `_commit_node`, `RefuseToSpend` and `RecordBudgetStop` the circuit breaker, `WorkerCrash` a kill at any point |
| `Housekeeping` | `reconcile` in three steps (list, event, mark); check and removal of `delete_run` and `purge` |
| `Review` | per reviewer: open page, submit (read and check), compare-and-swap, insert decision, store the recomputed recommendation |
| `Delivery` | per delivering process: list, load, gate, build, then sink by sink (key read, append attempts, record), verdict, card, event, status; and the retry's variant |
| `ReviewGate` | the abstract promise: approve, open a pass, send, close |
| `Desk` | the interleaving of all of them, the fairness, the properties, the refinement to `ReviewGate` |
| `MCDesk` | `Desk` for TLC |
| `DeskProofs`, `GateProofs`, `DecisionProofs` | the theorems about `Desk`: its types; what is sent, when a run is called delivered, the refinement and the flag; decisions, statuses and rows |
| `Routing` | the three routing policies over a request |
| `Assess` | the thread pool of ASSESS, the client stack each thread calls, the guard, the ledger and the totals, and the nodes that call the same client and record nothing |
| `AssessProofs` | the theorems about `Assess` |
| `Documents`, `MCDocuments` | submissions of the same bytes, INTAKE and EXTRACT document by document, the content key, and `remove_run` step by step |
| `DocumentsProofs` | the theorems about `Documents` |
| `Rules` | the rubric's contract, `resolve`, `aggregate`, the recommendation's contract, the recomputation |
| `Provenance` | normalisation and its map back, passages, chunks and their selection, the search for a quotation, the passage shown, merging |
| `Reading` (extends `Provenance`) | sniffing, block order, pages, OCR, assembly, confidence, EXTRACT's verdict |
| `Integrity` | the detectors, the tier, the render comparison, the second opinion, SANITIZE |
| `Calibration` | cards, search, diversity, CALIBRATE |
| `Drafting` (extends `Rules`, `Provenance`) | STRUCTURE's profile, COMPOSE's drafts and templates, REVIEW's reasons |
| `Operations` | settings, price list, costs, and the panels' queries |
| `Rubrics` | file, stored copy and caches, with a load in two steps |
| `Batches` | listings, downloads under `with_retries`, the rate limit, `process_batch`, messages |
| `Calculations` | one question of the last nine at a time, and their properties |
| `CalculationsProofs` | theorems about the rules, the scanners, the rate limit and the rubrics |
| `EvidenceProofs` (extends `CalculationsProofs`) | theorems about merged pieces, chunks and their selection |
| `TextsProofs` (extends `EvidenceProofs`) | theorems about normalised texts and quotations |

How state corresponds: `status`, `version`, `completed`, `finished`, `tier` are
the columns of `runs` (`completed` is a set: the loop only asks membership);
`rec` says who computed the stored recommendation; `decisions`, `records`,
`cards` are `reviews`, the `deliveries` rows saying DELIVERED, and calibration
cards. Variables starting with `w` are the worker's memory, `r` a reviewer's,
`d` a pass's, `c` the reconciler's and `a` the removal's place. `rows[s]` is what
destination `s` holds, outside the database.

What is abstracted in the desk:

* A node's computation is reduced to how it may end (`Ends`, from the node's own
  returns, and FAILED for every node since `_execute` catches any exception), the
  tier SANITIZE gives, whether it leaves a reason to flag the run, and whether
  the budget is then spent. `Exceptional` is the set of nodes an instance lets
  end otherwise than OK.
* `completed` keeps RECOVERY because `reconcile` adds it.
* A payload is the pair of whose decision and whose recommendation it carries.
* Time is not modelled. `Quiet` is the part of `find_stale` that compares the age
  of the last event: a worker inside a node, or dead, may be that old; a worker
  between two of its own writes may not.
* A deleted run's columns take the values of a new one, which keeps the state
  space small; every property that reads them asks `exists` first.
* `is_sample` in `delete_run` is a nondeterministic refusal: deletion simply may
  not happen.

In `Assess`, a task's `pc` is where its thread is between two steps another
thread can see; `tokens` and `escalations` are the guard's counters, `ledger` and
`totals` the sums of the rows of `llm_calls` and of the run. `BudgetGuard.record`
adds the tokens in one step of the interpreter and reads and stores the
escalations in two (`Count`, `Store`), since a call comes between. Money is
tokens; no cost ceiling is configured anywhere in the repository. A reply of the
client is what was billed, what the caller is told of it and how it ends
(`StructuredGenerate`). `billed` and `unsaid` are history.

In `Documents`, a document is its hash and a content key is a set of them: what
else goes into a key is the same for every submission of an instance. Looking
whether a blob exists and getting it are one step. A crash takes one thread, of
the web process or of the command line. `torn` (documents a removal was still to
delete when a run recorded them) and `abandoned` (left by work that was given up)
are history, so that the properties can name the one window and the one kind of
leftover the code has.

In the modules that only compute:

* A text is a sequence over an alphabet with one character for each kind of
  replacement (ligature, dash, blank, end of line, no width, upper case). The
  Unicode tables and the likeness of two strings are not computed: a near match
  is an input.
* Scores, cutoffs, confidences and prices are whole numbers of a unit; quotients
  are compared by cross multiplication. Where the code has floats, what happens
  exactly at a cutoff is not what these modules speak of.
* What a parser, an optical reader, a pattern or a model returns is an input,
  from a set that has each kind of it.
* Vectors are what they are near to; a day is `Day` ticks; a name is a sequence of
  words, with a capital or without, and separators.

## 3. The runs

All runs switch deadlock checking off, because a run that is rejected, delivered
or deleted, an ASSESS that is over, submissions that are all in, and a question
that is answered really have nothing left to do.

| Run | Instance | Shows |
|---|---|---|
| `pipeline` | one reviewer, no delivery, all ten nodes exceptional, reconcile and remove | `TypeOK`, `UncleanIsFlagged`, `NoLostWork`, `WorkingRunIsCleared` |
| `delivery` | one reviewer, one process, two sinks, demo mode on and off, four faults | `OneRowPerFault`, `ApprovedIsDelivered` |
| `passes` | two reviewers with one page, two concurrent processes, two sinks, one fault, removal | `ApprovalGate`, `DeliveredEverywhere`, `RecordHasRow`, `OneDecision`, `DecisionMatchesStatus`, `GateRefinement` |
| `assess` | two criteria, one high-stakes; a pool of one (a setting of 0) and of two; three policies | `CeilingOvershoot`, `BooksAgree`, `PaidIsCounted`, `AloneCapHolds`, `AssessEnds` |
| `documents` | two submissions of two documents, uploads and re-assessments, both removals, one fault | `LostOnlyWhileRecording`, `AssessedWhole`, `NothingIsKept`, `KeysAreTrue` |
| `calculations` | every bounded input of fourteen topics | one property a topic, more for the rules and the texts; the rates share one with the batches |
| `failed_node` | STRUCTURE may fail | a failed node that is not required leaves no flag |
| `two_passes` | two processes | DELIVERED is left for DELIVERY_PENDING_RETRY |
| `late_reconcile` | reconcile beside a slow worker | a reviewable run is interrupted |
| `interrupted` | reconcile after a crash | nobody resumes it |
| `repeated` | three submissions in turn, one failure | the third repeats what the second did |
| `other_bar` | the anchors topic | an anchor that was decided under another major version of the rubric |

The last six are expected to be violated; each quotes, in PROJECT.json, the
sentence of the repository the code disagrees with. `other_bar` asks the anchors
topic of `Calculations` only (`AnchorQuestions`); `AnchorsAreDecisions` says nothing
of the versions of the rubrics. Other disagreements are in section 6, each with
what the property next to it leaves out: no property that passes says that such
behaviour is right.

In `two_passes` the first pass lists the run after the reviewer's
compare-and-swap and before the insert of the decision, so its gate refuses it.
Before it commits, the decision is stored and the second pass delivers. The
first pass's `set_status` then overwrites DELIVERED. In `late_reconcile` the
worker is in a long node when `find_stale` runs and reaches REVIEW before the
unconditional mark.

In `calculations` a first step picks a topic and an input, and the properties
compare what the modelled functions answer with a reference that says it another
way: `BandOf` has no order where `aggregate` has one; a quotation's place is
checked in the original text, not through the map; what a batch does is compared
with the batch without the candidates that raise.

| Topic | Property | Inputs |
|---|---|---|
| rules | `BandIsOfTheStates`, `GatesAskAPerson`, `LocatedOnly`, `ReviewAgrees` | three criteria of any kinds and weights 1, 2, 1; six returned lists each; gate 0 or a half |
| texts | `TracesToTheOriginal` | texts of up to five characters, one page or two |
| quotes | `LocatedWhereItIs`, `PassageShowsTheQuote` | texts of up to five, quotations claimed anywhere, near matches included |
| chunks | `BestAreShown` | documents over the chunk budget, any scores |
| merges | `MergeForgetsNothing` | pieces that agree, differ or are silent |
| scans | `OnlyWorse` | documents with each feature, any answers of the classifier |
| files | `ReadAsWritten` | each kind of file, block layouts, OCR outcomes |
| anchors | `AnchorsAreDecisions`, `AnchorsOfOneBar` (violated) | past runs, cards of other roles and versions, failing searches |
| rubrics | `RubricInForce` | up to five steps of two processes and the page |
| drafts | `OpenPointsAreAsked` | documents, evidence, and answers that stray |
| costs | `CostsAreOfOneList` | price files, typed prices, calls with cached tokens |
| panels | `PanelsTell` | runs over twelve ticks, readings, reviews |
| batches | `BatchIsAccountedFor` | listings of names with and without capitals and blanks, three calls' answers, three candidates |
| rates | `BatchIsAccountedFor` (its part `RateIsKept`) | five calls, up to three ticks apart |

Bounds. Two actors of a kind are the fewest that race, and no code path
distinguishes a third. Two sinks give the partial outcomes (the CSV file is the one
without a key read, the sheet the one with). `MaxFaults` counts a sink's refusals,
lost answers and crashes of passes: three in a row exhaust `with_retries`
(`MAX_ATTEMPTS`), so four lets an exhausted attempt be followed by another
failure, and one is enough where two passes interleave. `MaxVersion` bounds demo
mode, whose passes change nothing but the version, at more than a run's own
writes need. No other variable of the desk grows without a bound of its own.
Symmetry over reviewers and passes, and over submissions and documents, is used in
safety runs only. `passes` lets nodes end well (`Exceptional = {}`), so that the
cost goes to the race it is about; `pipeline` has every other ending and no
delivery.

In `assess`, a ceiling of four tokens and requests of one or two let each of two
threads pass the question with the ceiling one token away and then pay for a
repair, which is the overshoot's worst case. `MaxTokens` is what one request may
cost, a fact about a provider rather than a bound; `MaxUnsaid` caps what refusals
lose, and `MaxSideCalls` the calls of the other nodes, which change nothing the
properties read. `documents` needs two documents so that a submission can be half
recorded, two submissions to share them and two removals so that one can be at
work on the run of each; `MaxFaults` lets one thread or removal fail or die.
`repeated` has three submissions, since the divergence is in the third. In
`calculations` each bound is the least at which the branches of its topic all
occur: five characters hold a ligature, a broken word and a repeated quotation;
three candidates a failure between two others; five calls a bucket emptied and
refilled.

Fairness (`FairSpec`) is weak and given only to what the code or its schedule
repeats: a live worker's steps; reconciliation, run at every start; a submission
once sent, which is one request; delivery passes, which a schedule or button asks
for again; the rebuilding of sinks at a start. Opening a page, deciding,
deleting, and every crash or fault are never owed. Fairness on passes is what
`ApprovedIsDelivered` needs; the bound on faults stands for outages that end. In
`Assess` it is given to each task of the pool, to the thread that waits for them
and to the end of another node: a call comes back or times out, and the threads
run on one interpreter. No call, no failure and no side call is owed.
`Documents` and `Calculations` state no liveness.

## 4. The proofs

### The desk

TLAPS proves these for every set of reviewers, any set of
sinks holding `CsvSink`, any number of passes, any `Exceptional`, `Jobs`,
`MaxFaults` and `MaxVersion`. The assumptions are `ExceptionalAssumption`,
`JobsAssumption` and `DeliveryAssumption`, stated in the modules that declare the
constants.

* `TypeCorrect`: `Spec => []TypeOK`. `TypeOK` is not inductive: that `NextSink`
  returns a sink where a record is written needs the pass to have one in hand
  there. `TypeInv` adds `SinkInHand`.
* `NothingLeavesUnapproved`: `Spec => []ApprovalGate`. The gate is read once and
  acted on many steps later, so the invariant has to say that a pass past the
  gate still stands on an approval: `GateInv == ApprovalGate /\ Standing`.
  Decisions are never taken back while the run exists (`NothingIsTakenBack`);
  a pass enters the sending steps only through an open gate
  (`PassesGoThroughTheGate`) and only passes there add rows (`OnlyPassesSend`).
* `RecordsAreTrue`: `Spec => []RecordHasRow`. A pass about to record a success
  has put its row, or found it there.
* `DeliveredMeansEverywhere`: `Spec => []DeliveredEverywhere`. The status is
  written by a pass long after the sinks were tried, and by processes that never
  look at the records. `ClosingInv` adds that the worker and the reviewers never
  write DELIVERED, what status a pass past the gate believes in, that a pass
  accounts for every sink as recorded, outstanding or refused, and that a pass
  about to close has them all.
* `DeskImplementsTheGate`: `Spec => GateRefinement`. Every step of the desk maps,
  through `Open`, `Sent` and `Closed`, to a step of `ReviewGate` or to a stutter:
  a decision opens the gate, a row written sends, the last write of a pass closes,
  a deletion forgets. The step case uses `TypeInv`, `RecordInv` and
  `ClosingInv`: without them the abstract guards of sending and closing are not
  known to hold.
* `UncleanIsNeverOrdinary`: `Spec => []UncleanIsFlagged`. The tier SANITIZE
  raises and the status REVIEW proposes are columns of one row, written by
  different transactions, with failing nodes and reviewers saving a page between
  them. `FlagInv` adds that a live worker knows of any raised tier the row or a
  reviewer's copy shows (`Remembered`), that only SANITIZE raises it (`Scanned`),
  what a result being committed may propose (`InHand`, `AtReview`), and that only
  the worker's last write makes a run ready (`NotYetReady`).

The next five are about what a reader would take for granted and the code only does
under conditions, so all but the first carry hypotheses. Each is about an instance,
not about its states, and each is needed: on a small instance without it TLC finds
the property violated.
`ComposeIsSafe` says COMPOSE never ends badly: its failure puts the run in
NEEDS_REVIEW while the worker goes on to REVIEW, which overwrites the status a
reviewer may have set, so the run can be decided and sent again (section 6).
"reconcile" in `Jobs` makes the unconditional mark of `late_reconcile` possible, and
two passes the overwrite of `two_passes`.

* `NothingCommittedIsLost`: `Spec => NoLostWork`, of every instance, an action
  property. A submission writes back a whole copy of a row it read long before.
  `CopyInv` says that a copy whose version would be let through is the row as it is
  now (`CopyIsCurrent`), that nobody has one while the scanner, whose write leaves the
  version alone, may still write (`Untouched`, `ScannedOnce`), and what a result being
  committed may propose (`PlainResult`).
* `DecidedOnce`: `Spec => [](ComposeIsSafe => OneDecision)`. A decision is three
  transactions, so two reviewers are told apart by the version only. `DecisionInv`
  counts the decisions stored and about to be (`Answers`): they are one, the status is
  of its outcomes, and no page can be opened any more.
* `StatusTellsTheDecision`: with `ComposeIsSafe` and no "reconcile" in `Jobs`, the
  status and the decision agree at every step between their two transactions
  (`NeverInterrupted`).
* `EndedIsEnded`: with one pass at a time and neither of the other two, no step takes a
  run that exists out of a terminal status: the action property `two_passes` refutes
  for two. `EndInv` adds that a pass has only a run that is still to be delivered.
* `OnceAndOnceMorePerFault`: with one pass at a time and `ComposeIsSafe`, a
  destination holds one row of a run and at most one more for each fault. `RowInv`
  says who owes the row that the bound allows (`RowBound`, `IsSpent`): of the CSV file,
  which is never read back, the record or the pass about to write it; of a sheet, the
  read that comes before the append.

### The shared documents

`DocumentsProofs` holds for any sets of submissions and of documents, any bound
`Together` and `MaxFaults`, whichever origins and removals are allowed. The
assumption is `DocumentsAssumption`.

* `DocumentsTypeCorrect`: `Spec => []TypeOK`. `TypeInv` adds that a removal is of a
  run that was there (`Aimed`), and what a submission has at each step of its
  treatment (`InTurn`): what is left to do is among what was submitted, a document
  is in hand only between two steps, a run is done only once its thread is over.
* `KeysHoldTrue`: `Spec => []KeysAreTrue`. The key is claimed after the documents
  are recorded one by one, so `KeyInv` adds `Recorded`: until it is claimed there is
  no key, and every document is recorded or still to be. The unique index gives the
  rest, and a removal takes the row, the documents and the key in one transaction.
* `OnlyTornIsLost`: `Spec => []LostOnlyWhileRecording`. The removal asks who refers
  to a document and deletes its text and its bytes two steps later. `LostInv` adds
  `Guarded`: bytes are in the store, or torn, when their row is written; and what a
  removal has found unreferenced and not deleted yet is recorded by nobody, or torn.
* `DoneIsAssessedWhole`: `Spec => []AssessedWhole`. ASSESS asks for one text only, so
  the promise rests on what EXTRACT left and no removal took since: `WholeInv` adds
  `Extracted`, and the step of a removal uses `LostInv`.
* `NothingKeptForNobody`: `Spec => []NothingIsKept`. The property speaks of moments
  of rest; `KeptInv` says of every moment who will see to each document (`Accounted`:
  a row, work given up, a submission under way, a removal that has it before it) and
  that bytes whose text is gone are in a removal's hand (`Going`). A submission that
  finds its key taken leaves its documents to the holder, which uses `KeyInv`.

### The model calls

`AssessProofs` holds for any number of criteria and workers, any policies, ceiling,
caps and prices of a call. The assumptions are `RoutingAssumption` and
`AssessAssumption`.

* `AssessTypeCorrect`: `Spec => []TypeOK`. `Carried` adds what a task takes from one
  step to the next: one call's report at most, attempt 1 only in a second attempt,
  and the tiers the two fixed policies give.
* `CeilingIsKept`: `Spec => []CeilingOvershoot`. `CeilingInv` bounds the tasks at work
  by the pool and says `tokens + MaxCall * |InFlight| <= LastAllowed + PoolSize *
  MaxCall`, where a task in flight may report a call no gate stands before. Whoever
  passes a gate finds room for the whole pool (`Gated`), every other step puts nobody
  new in flight (`NobodyNew`), and a count takes from the one side what it adds to the
  other. That the routed policy is a gate is `RoutedIsBelow`, from the first row of
  its table. Under the policy that is always strong a refused first attempt is made
  again without a gate, which is why `Ungated` names it.
* `AloneTheCapIsKept`: `Spec => []AloneCapHolds`. With one worker nobody else is at
  work (`Alone`), so what `record` read is still what the guard holds when it writes
  (`Room`), and the answered second attempts are those the guard counted (`Charged`).

* `BooksAlwaysAgree`: `Spec => []BooksAgree`. The guard, the ledger and the totals are
  written one after the other by each thread, and each write may fail. `BooksInv` says
  that the guard is ahead of the ledger by what the tasks at `store` and `ledger` hold
  at least, the ledger ahead of the totals by what those at `totals` hold, and by no
  more than that unless a task has raised; and that COMPOSE is reached only when none
  has. What the tasks at some places hold is the number of tokens reported there
  (`Sum`), so that a step of one task moves its own (`OneShare`).
* `WhatIsPaidIsCounted`: `Spec => []PaidIsCounted`. `PaidInv`: what was billed is what
  the guard counts, what the tasks are about to tell it, and what refusals never told.

### What the parts compute

These hold for any `Scale`, sizes, `TopK` and `Tolerance`; the assumptions are
`RulesAssumption`, `BatchesAssumption`, `RubricsAssumption`, `ProvenanceAssumption`
(both settings of the provenance are counts) and `CalculationsAssumption` (so is the
bound on texts). Each topic has a theorem about any question of its kind, far beyond
what `calculations` enumerates, and one that the questions `Calculations` asks are of
that kind, which makes the property an invariant of `Spec`.

Of the rules, the scanners, the rate and the rubrics (`CalculationsProofs`):

* `EveryBandFollows`, `EveryGateAsks`, `EveryFindingIsLocated`, `EveryReviewAgrees`:
  of every rubric the contract accepts (any number of criteria, weights, points,
  cutoffs, support asked for) and any lists of items returned. The loop over the
  blockers is a fold in the rubric's order and ends where a definition without an
  order says (`BlockersTell`); a score reaches a cutoff, since the last is zero, and
  the first it reaches is the highest (`BandLands`); points earned are at most the
  weight resolved (`EarnedFits`); keeping the located twice is keeping them once
  (`KeptCounts`). `Aggregated` collects what `aggregate` makes of that.
  A review gives the pipeline's reasons, but for those it answers, when no quotation
  was set aside; otherwise it does not (section 6).
* `EveryOpinionRaises`: of every submission of any number of documents, any settings
  and any answer of the classifier. The worst of a set of findings is of it and no
  finding is worse (`SeverestIs`), and raising some keeps that order (`RaisedIs`).
* `EveryRateIsKept`: of every sequence of calls. The bucket is never left with more
  than it holds, and what it gains between two calls is the time between them
  (`TakeTells`), so the calls of any interval pay for themselves but for a bucketful.
* `EveryRunIsJudgedInForce`: of every session of edits, saves, resets and loads, by
  the page and by a worker that may be interrupted between the two readings of a
  load. `RoleIs` says after each step what the file and the copy are, that what each
  process keeps is true of what it was read from (`Sound`: a stored text of itself, a
  file's of that time), and what a reading under way was begun on (`ReadingIs`). Only
  a copy saved while the file is being read breaks it, and `Disturbed` is exactly that.

Of what becomes of a document on its way to a criterion (`EvidenceProofs`):

* `EveryMergeForgetsNothing`: of any number of pieces, whatever each says. `merge.py`
  keeps a list of roles and merges each entry into the first that is of the same role,
  so a value is the outcome of a loop in which it may be replaced, joined or noted
  against. `PutTogether` says of the list after each entry which entries its roles are
  of and that each role tells all of them (`ToldOf`): the first stated, where, how
  sure, and every other value that was noted (`OneMoreRecalled`).
* `EveryPageIsInAChunk`: of a document of any pages. `GroupedSoFar` says of the groups
  after each page that they are runs of pages, whole and in order, within the budget
  unless alone, and that each could not have taken the page that starts the next.
* `EveryBestIsShown`: of any chunks and any overlaps. `RanksFill` shows that ranks,
  said as how many go before, are each number once, for every order; so the chosen are
  as many as allowed (`FirstByRank`), and sorting them by where they start loses and
  repeats none (`ListedByRank`).

Of texts and quotations (`TextsProofs`):

* `EveryCharacterTraces`: of every text of any length and any pages. Each step of the
  normalisation keeps some characters, replaces some, and carries the position each
  came from (`Marked`); after the last, no character is left that any step would touch
  (`Settled`), so a second normalisation changes nothing (`SettledStays`). The runs
  `_runs_from_mapping` makes of the positions tile the text (`RunsTile`), reading them
  gives each position back (`ToRawIs`), and going the other way lands on the first
  character from there or after (`NormAtIs`), so the pages tile the text and each
  character is on the page it was on (`PagesMove`).
* `EveryQuotationIsWhereItIs`: of every such text, every quotation, every claimed
  position and any likeness. The search and its reference say the same places
  (`OccurrencesAre`); of several the nearest is named, or none if all are too far
  (`RelocateIs`); likeness is asked only where there is none (`EvidenceIs`); and the
  profile's place is one of them, on the page the validator reads the method of, to the
  page the quotation ends on (`PlaceIs`, which rests on `PagesMove`).

How: sums and loops of the models are folds of the community modules and recursive
functions, which the library defines by CHOOSE. `FoldExists` and `ChainExists` show,
by induction over a finite set and over the numbers (as sets of those for which it
holds, so that no operator is a parameter), that the function so chosen exists,
and `SumFolds`, `BlockersFold`, `TakenTells` and `AnswersTell` unfold it.

### What is only model-checked

Liveness and whatever rests on fairness or ENABLED, which this prover does not
handle: `ApprovedIsDelivered`, `AssessEnds`, and `WorkingRunIsCleared`. Of
`calculations`: `PassageShowsTheQuote`, `ReadAsWritten`, `AnchorsAreDecisions`,
`OpenPointsAreAsked`, `CostsAreOfOneList`, `PanelsTell` and the rest of
`BatchIsAccountedFor`. The passage shown normalises a piece cut out of a text, whose
end may join what the text kept apart, so its proof would have to follow every step of
the normalisation past both cuts; the parsers, the cards, the drafts and the panels
are built with `SelectSeq`, `SetToSortSeq` and sums inside sums, which tlapm does not
expand. There, exhaustive checking over bounded inputs is the evidence. (`Provenance`
ranks with `Ranked` and `InOrder` instead, which the provers can follow.)

## 5. The plan

Done: the core in the order `RunStatus`, `RunStore`, `Runner`, `Housekeeping`,
`Review`, `Delivery`, `ReviewGate`, `Desk` with the first six theorems; then
`Routing`, `Assess`, `Documents` and theorems about the last two; then the parts that
compute, `Rules` to `Batches`, and `Calculations` over them; then the theorems of
decisions, statuses and rows, of the books, and of the parts that compute: the rules,
the scanners, the rate, the rubrics, the merge, the chunks, the texts, the quotations.

Next, most important first:

1. Theorems: the passage shown (`PassageShowsTheQuote`), from what `TextsProofs` says
   of a text, and the costs (`CostsAreOfOneList`), whose sums are single folds.
2. Theorems: the policies of `Routing` (a capped or spent run is never given the
   strong tier by `routed`), and monotonicity of the guard.
3. Further instances of `Desk`: a COMPOSE failure racing a reviewer; a crash after
   a STRUCTURE failure; a payload that straddles the recomputation.
4. The response cache shared by runs, and the registry of bindings.

## 6. Met on the way

Behaviour that disagrees with what one might expect, or with a comment, and that
no violation run shows. Each is in the model unless marked (not in the model). The
first group contradicts a sentence of the repository; the property beside each
says nothing of that case.

* `sheets.py:155`: `with_retries` wraps the append alone, so an append whose answer
  is lost is made twice, though column A is read back first "so a retry after a lost
  response does not write a duplicate" (`RUNBOOK.md:162-163`). `OneRowPerFault`
  allows one more row a fault.
* `recompute_recommendation.py:109`: `invalid_span_count` is created as zero and
  never written, so working a run out again drops `invalid_span_present`, which
  lines 110-115 mean to keep, and with it the request for a person, if there is no
  other. `ReviewAgrees` speaks of the reasons of runs with no quotation set aside.
* `repositories.py:332`: a call without a price is passed over, so a run with both
  kinds is shown the part that has one, though lines 307-310 say its total is
  unknown. `CostsAreOfOneList` speaks of runs all or none of whose calls have one.
* `metrics_sql.py:96`: times with a T are compared as texts with times with a blank,
  so a run that stopped on the day it was started is not among those that "stopped
  mid-flight and never finished" (line 85). `PanelsTell` speaks of earlier days.
* `rubrics.py:72`: a load that has looked up the time of the file and is overtaken by
  a save keeps what was saved as the file's, also once the page has reset it, though
  the file is what a reset returns to (lines 12-13). `RubricInForce` leaves out a
  save during a reading.
* `slack.py:96`, `drive.py:123`: an adapter that was refused notes that it is
  disabled and makes the next call all the same, though a wrong credential or
  folder should "disable the adapter for the session" (`retrying.py:9-11`).
  `BatchIsAccountedFor` speaks of the attempts of a call, not of the next one.
* `process_batch.py:78`: a candidate whose run ended MANUAL_REVIEW_REQUIRED or
  FAILED_TERMINAL is in no clause of the sentence, though it is "naming every
  outcome that occurred" (line 65). `BatchIsAccountedFor` says that none is told of
  twice, not that each is named.

The rest was only unexpected, or falls short of what a comment suggests.

* `state_machine.py:23`: QUARANTINED and MANUAL_REVIEW_REQUIRED to NEEDS_REVIEW
  and NEEDS_INFO to CREATED are in the table and nothing performs them.
* `registry.py:142`: a failed COMPOSE puts the run in NEEDS_REVIEW, where a
  reviewer may decide while REVIEW is still to come; REVIEW then puts the status
  back, and the run can be decided, and sent, once more. `registry.py:113`: a failed
  STRUCTURE puts it in MANUAL_REVIEW_REQUIRED while the worker goes on; a crash
  then leaves it there.
* `submit_review.py:147`: a pass between the decision and the recomputed
  recommendation sends the old recommendation with the new decision.
* `deliver.py:154`: the calibration card is written by a first pass that reached
  every sink, never by a retry; two passes may write two.
* `budget.py:3`: SANITIZE, STRUCTURE and COMPOSE calls are not recorded, so neither
  ceiling nor totals see them.
* `assess.py:167`: the first attempt's evidence is dropped when a second is made,
  also when that one is refused.
* `sanitize.py:215`: a classifier that becomes unavailable half-way drops the
  raises it had made in that document.
* `purge.py:3`: an upload INTAKE refuses leaves its bytes in the store for good.
  `blobs.py:66`: two writers of the same bytes share a staging name (modelled as a
  failure of INTAKE).
* `submit_review.py:130` is the only writer of `finished_at`: runs that failed or
  were never reviewed do not age for the purge (not in the model).
* `config_node.py:52` puts the setting's blind mode in the key a lookup uses and
  INTAKE the run's (not in the model: one configuration per instance).
* `recompute_recommendation.py:83` uses the rubric as it is now, not the one the
  run was assessed under (not in the model: both are given the same one).
* `index.py`: `for_role` compares exact versions, though a major version is kept
  beside them and compared afterwards.
* `merge.py:48`: of two pieces that claim different totals of years the second is
  dropped without a note, while their dates are noted.
* `compose.py:94`: the template says "does not mention" of a criterion that was
  never assessed for want of budget.
* `extract.py:43`: a text that is in the cache is not judged again, so a poor
  reading degrades the first run of a document only. `pricing.py:104`: cached tokens without a cached rate cost nothing.
  Several counters of failures are never incremented, so their panel shows zero (not in the model).
* `process_batch.py:132`: a batch of known work still says QUARANTINE_DETECTED.
* `local.py:94`, `drive.py:218`: files whose names hold both separators or a blank,
  or differ in capitals, are grouped differently by the folder and by Drive. A
  listing cut at fifty is the same fifty each time.

## 7. Not modelled

* What lies outside the code: parsers, the optical reader, the renderer, HTTP
  transports, the models and the embedding service. Their answers are inputs.
* The response cache across runs (a hit is one of the replies of `Assess`), the
  registry of bindings, the prompts.
* `resume()`: no production code calls it (`interrupted` is about that).
* Accounts, sessions, secrets and credentials, the `doctor` probes, log
  formatting, rendering and wording of the pages.
* The Unicode tables, similarity of strings and hash collisions of the local
  embedder, floating-point rounding.
* The evaluation harness, the scripts and the browser front end, which are not part
  of the running pipeline. PROJECT.json lists every part with the reason.
