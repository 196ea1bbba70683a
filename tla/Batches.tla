------------------------------- MODULE Batches -------------------------------
(***************************************************************************)
(* A batch of candidates: where the documents wait (infrastructure/        *)
(* integrations/local.py, drive.py), the calls to a service and what is    *)
(* made of its answers (retrying.py), the candidates taken one after the   *)
(* other (use_cases/process_batch.py) and the message that says it is      *)
(* ready (application/notify.py, slack.py).                                *)
(*                                                                         *)
(* A name, without what follows its last dot, is a sequence of words and   *)
(* separators, numbered in the order names are sorted in: a word below     *)
(* UNDERSCORE is capitalised, and SMALL more is the same one that is not.  *)
(* It has a word.  A service's answer is what it comes to: its bytes or    *)
(* one of its errors.                                                      *)
(***************************************************************************)
EXTENDS Integers, Sequences, FiniteSets, SequencesExt, FiniteSetsExt

LOCAL INSTANCE RunStatus

CONSTANTS
    Capacity,   \* calls a rate limit allows at once
    Interval    \* ticks from one call to the next when it is used up

ASSUME BatchesAssumption == Capacity \in Nat \ {0} /\ Interval \in Nat \ {0}

-----------------------------------------------------------------------------
(* Calls to a service. *)

MAX_CALLS == 3

\* Errors that asking again may mend, and those that stop an adapter.
RETRYABLE == {"TRANSIENT", "RATE_LIMITED"}
DISABLING == {"AUTH", "CONFIG"}

\* classify_status, and the failure that has no status.
ClassifyStatus ==
    [unreachable |-> "TRANSIENT", s500 |-> "TRANSIENT", s429 |-> "RATE_LIMITED", s401 |-> "AUTH",
     s403 |-> "AUTH", s404 |-> "CONFIG", s400 |-> "PERMANENT"]

\* _download: an answer is a status, or what was sent and what was to be.  Less,
\* or more, than was to be sent is no document.
Attempted(answer) ==
    CASE answer.status \in DOMAIN ClassifyStatus -> ClassifyStatus[answer.status]
      [] answer.status = "ok" /\ answer.sent \notin answer.announced /\ answer.announced # {} -> "TRANSIENT"
      [] OTHER -> "ok"

\* with_retries: the attempts made, of those answered so.
WithRetries(answers) ==
    Min({k \in 1..MAX_CALLS : Attempted(answers[k]) \notin RETRYABLE} \cup {MAX_CALLS})

\* DriveSource.fetch, and a notification posted: the outcome, and whether the
\* adapter is disabled from now on, which neither looks at before it calls.
Call(disabled, answers) ==
    LET attempts == WithRetries(answers)
        outcome == Attempted(answers[attempts])
    IN  [outcome |-> outcome, attempts |-> attempts, answer |-> answers[attempts],
         disabled |-> disabled \/ outcome \in DISABLING]

\* A bucket holds time, Interval of it for a call.
FullBucket == [holds |-> Capacity * Interval, last |-> 0]

\* take: the time of the call, and what is left.
Take(bucket, now) ==
    LET holds == Min({Capacity * Interval, bucket.holds + now - bucket.last})
        at == now + Max({Interval - holds, 0})
    IN  [at |-> at, bucket |-> [holds |-> Max({holds - Interval, 0}), last |-> at]]

-----------------------------------------------------------------------------
(* Where documents wait. *)

BLANK == -2
HYPHEN == -1
UNDERSCORE == 10
SMALL == 10

Before(name, separator) ==
    IF Contains(name, separator) THEN SubSeq(name, 1, SelectInSeq(name, LAMBDA c : c = separator) - 1) ELSE name

OrWhole(prefix, name) == IF prefix = << >> THEN name ELSE prefix

\* The two guesses at whose a file is: the folder's, and Drive's.
LocalPrefix(name) == OrWhole(Before(Before(name, UNDERSCORE), HYPHEN), name)

InSmall(name) == [k \in DOMAIN name |-> IF name[k] \in 1..(UNDERSCORE - 1) THEN name[k] + SMALL ELSE name[k]]

Trim(name) ==
    LET said == {k \in DOMAIN name : name[k] # BLANK} IN SubSeq(name, Min(said), Max(said))

CandidateIdFor(name) ==
    LET stem == InSmall(Trim(name))
        there == SelectSeq(<< UNDERSCORE, HYPHEN, BLANK >>, LAMBDA s : Contains(stem, s))
    IN  IF there = << >> THEN stem ELSE OrWhole(Before(stem, Head(there)), stem)

Alphabetic(a, b) ==
    \E k \in 1..Len(b) : /\ SubSeq(a, 1, k - 1) = SubSeq(b, 1, k - 1)
                         /\ k > Len(a) \/ a[k] < b[k]

Waiting(id, files, folder) == [id |-> id, files |-> files, folder |-> folder]

\* Loose files, put together by the candidate idOf makes each one's.
Grouped(files, idOf) == {Waiting(id, {f \in files : idOf[f] = id}, FALSE) : id \in {idOf[f] : f \in files}}

\* The sort is stable, and folders are listed before files.
Listed(candidates) ==
    SetToSortSeq(candidates, LAMBDA a, b : Alphabetic(a.id, b.id) \/ (a.id = b.id /\ a.folder /\ ~b.folder))

UpTo(limit, candidates) == SubSeq(candidates, 1, Min({limit, Len(candidates)}))

Offered(files) == {f \in files : f.offered}

\* LocalFolderSource.list_candidates.
LocalCandidates(folder, limit) ==
    LET subfolders == {Waiting(s.name, Offered(s.files), TRUE) : s \in folder.subfolders}
        loose == Grouped(Offered(folder.files), [f \in folder.files |-> LocalPrefix(f.name)])
    IN  UpTo(limit, Listed({c \in subfolders : c.files # {}} \cup loose))

\* DriveSource.list_candidates, which offers everything that is there.
DriveCandidates(files, limit) == UpTo(limit, Listed(Grouped(files, [f \in files |-> CandidateIdFor(f.name)])))

-----------------------------------------------------------------------------
(* The candidates in turn. *)

\* A candidate's documents, whether they are named by their hashes, and what
\* becomes of a run of it: that it could not be made, or the status the pipeline
\* leaves and whether INTAKE came to its key.
Candidate(docs, hashed, ends, keyed) == [docs |-> docs, hashed |-> hashed, ends |-> ends, keyed |-> keyed]

\* _existing_run.  A run that failed keeps its key and is not returned.
ExistingRun(runs, candidate) ==
    {k \in DOMAIN runs : /\ candidate.hashed /\ runs[k].holds /\ runs[k].docs = candidate.docs
                         /\ runs[k].status # "FAILED_TERMINAL"}

HoldsKey(runs, candidate) ==
    candidate.keyed /\ \A k \in DOMAIN runs : ~(runs[k].holds /\ runs[k].docs = candidate.docs)

Result(run, status, reused) == [run |-> run, status |-> status, reused |-> reused]

\* process_candidate: what there is of it, if it did not raise, and the runs.
ProcessCandidate(runs, candidate, force) ==
    LET existing == IF force THEN {} ELSE ExistingRun(runs, candidate) IN
    IF existing # {} THEN [runs |-> runs, results |-> {Result(k, runs[k].status, TRUE) : k \in existing}]
    ELSE IF candidate.ends = "raises" THEN [runs |-> runs, results |-> {}]
    ELSE [runs |-> Append(runs, [docs |-> candidate.docs, status |-> candidate.ends, holds |-> HoldsKey(runs, candidate)]),
          results |-> {Result(Len(runs) + 1, candidate.ends, FALSE)}]

BatchOf(runs) == [runs |-> runs, results |-> << >>, failures |-> 0]

\* A bug of the kind ProcessNext could have: the first that raises ends the batch.
FaultStopsAtFirst(batch, candidate, force) ==
    LET one == ProcessCandidate(batch.runs, candidate, force) IN
    IF batch.failures > 0 THEN batch
    ELSE IF one.results = {} THEN [batch EXCEPT !.failures = @ + 1]
    ELSE [batch EXCEPT !.runs = one.runs, !.results = @ \o SetToSeq(one.results)]

ProcessNext(batch, candidate, force) ==
    LET one == ProcessCandidate(batch.runs, candidate, force) IN
    IF one.results = {} THEN [batch EXCEPT !.failures = @ + 1]
    ELSE [batch EXCEPT !.runs = one.runs, !.results = @ \o SetToSeq(one.results)]

ProcessBatch(runs, candidates, force) ==
    FoldLeft(LAMBDA batch, candidate : ProcessNext(batch, candidate, force), BatchOf(runs), candidates)

-----------------------------------------------------------------------------
(* What is said of a batch. *)

\* requires_review.
NEEDS_ATTENTION == {"NEEDS_REVIEW", "QUARANTINED", "MANUAL_REVIEW_REQUIRED"}

HowMany(batch, statuses) == Len(SelectSeq(batch.results, LAMBDA r : r.status \in statuses))
Reused(batch) == Len(SelectSeq(batch.results, LAMBDA r : r.reused))

\* sentence: a clause with nothing to count is left out, but the first.
BatchSentence(batch) ==
    [processed   |-> Len(batch.results) + batch.failures,
     ready       |-> HowMany(batch, REVIEWABLE) - HowMany(batch, {"QUARANTINED"}),
     quarantined |-> HowMany(batch, {"QUARANTINED"}),
     reused      |-> Reused(batch),
     failures    |-> batch.failures]

\* cmd_process: whether the command says it went well.
WentWell(batch) == LET s == BatchSentence(batch) IN s.ready > 0 \/ s.quarantined > 0 \/ s.reused > 0

Message(kind, count, flagged) == [kind |-> kind, count |-> count, flagged |-> flagged]

\* process_batch's end, with notify: nothing is posted in demo mode.
Messages(batch, deployment) ==
    LET said == BatchSentence(batch)
        ready == IF said.ready > 0 /\ said.reused < Len(batch.results)
                   THEN << Message("BATCH_READY", said.ready, HowMany(batch, NEEDS_ATTENTION \ {"QUARANTINED"})) >>
                   ELSE << >>
        quarantine == IF said.quarantined > 0 THEN << Message("QUARANTINE_DETECTED", said.quarantined, 0) >> ELSE << >>
    IN  IF ~deployment.notifier \/ deployment.demo THEN << >> ELSE ready \o quarantine

\* SlackNotifier.notify of each in turn; answers[k] are those to the k-th.
Posted(messages, answers) ==
    FoldLeftDomain(LAMBDA posts, k :
        Append(posts, Call(posts # << >> /\ Last(posts).disabled, answers[k])), << >>, messages)

=============================================================================
