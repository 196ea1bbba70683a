----------------------------- MODULE Documents -----------------------------
(***************************************************************************)
(* The documents that runs share: submissions of the same bytes racing     *)
(* each other (use_cases/process_candidate.py, pipeline/intake.py), the    *)
(* content key that recognises work done before, the store of bytes        *)
(* (infrastructure/storage/blobs.py), the cache of extracted texts         *)
(* (pipeline/extract.py), and the removal of a run with whatever no other  *)
(* run refers to (use_cases/purge.py, delete_run.py).                      *)
(*                                                                         *)
(* A document is its hash, so a submission is a set of them.  Everything   *)
(* else in a content key (rubric, prompts, bindings, settings) is the same *)
(* for all submissions, so a key is that set too.  A job is the thread of  *)
(* one submission, and names the run it may create.                        *)
(*                                                                         *)
(* `torn' and `abandoned' are history variables: the documents a removal   *)
(* was still to delete when a run recorded them, and those that work which *)
(* was given up left behind.                                               *)
(***************************************************************************)
EXTENDS FiniteSets, Integers

CONSTANTS
    Job,          \* submissions, each with its thread
    Sha,          \* documents, by hash
    NoJob,        \* the author of a text nobody has stored
    Origins,      \* where submissions come from, of SubmissionOrigin
    Removers,     \* the removals allowed, of {"api", "cli"}
    Together,     \* bound: jobs at work at once
    MaxFaults     \* bound: failures and crashes

SubmissionOrigin == {"upload", "folder", "reassess"}

ASSUME DocumentsAssumption ==
    /\ NoJob \notin Job
    /\ Origins \subseteq SubmissionOrigin
    /\ Removers \subseteq {"api", "cli"}
    /\ Together \in Nat /\ MaxFaults \in Nat

VARIABLES
    pc,          \* what each job is about to do
    origin,      \* where its documents come from
    docs,        \* the documents submitted
    todo,        \* those the present node has still to treat
    held,        \* the one whose bytes or text it has in memory
    status,      \* runs: the row of the job's run, if there is one
    rows,        \* documents: the hashes recorded for the run
    key,         \* runs.content_key: a set of hashes, {} for the placeholder
    assessed,    \* the hashes whose texts ASSESS was given
    blobs,       \* the store
    text,        \* source_texts: by hash, the run whose document_id it carries
    remover,     \* per removal: what it does, to which run, with which documents left
    torn, abandoned, faults

work == << pc, origin, docs, todo, held >>
tables == << status, rows, key, assessed >>
history == << torn, abandoned, faults >>
vars == << work, tables, blobs, text, remover, history >>

Steps == {"idle", "put", "look", "create", "read", "store", "record", "claim",
          "extract", "keep", "sanitize", "assess", "over"}
RunRow == {"none", "working", "interrupted", "done", "failed", "removed"}

\* A remove_run: the run, the documents listed and not yet treated, the present one.
Removal == [pc : {"idle", "list", "delete", "count", "texts", "bytes"},
            run : Job \cup {NoJob}, left : SUBSET Sha, now : SUBSET Sha]
Stage(step, run, left, now) == [pc |-> step, run |-> run, left |-> left, now |-> now]
Resting == Stage("idle", NoJob, {}, {})

\* Also: no row without its run, and one document in hand at a time.
TypeOK ==
    /\ pc \in [Job -> Steps]
    /\ origin \in [Job -> SubmissionOrigin]
    /\ docs \in [Job -> SUBSET Sha] /\ todo \in [Job -> SUBSET Sha]
    /\ held \in [Job -> SUBSET Sha]
    /\ status \in [Job -> RunRow]
    /\ rows \in [Job -> SUBSET Sha]
    /\ key \in [Job -> SUBSET Sha]
    /\ assessed \in [Job -> SUBSET Sha]
    /\ blobs \subseteq Sha
    /\ text \in [Sha -> Job \cup {NoJob}]
    /\ remover \in [Removers -> Removal]
    /\ torn \subseteq Sha /\ abandoned \subseteq Sha
    /\ faults \in 0..MaxFaults
    /\ \A j \in Job : status[j] \in {"none", "removed"} => rows[j] = {} /\ key[j] = {}
    /\ \A j \in Job : rows[j] \subseteq docs[j] /\ held[j] \subseteq todo[j]
    /\ \A m \in Removers : remover[m].now \subseteq remover[m].left

Init ==
    /\ pc = [j \in Job |-> "idle"]
    /\ origin = [j \in Job |-> "folder"]
    /\ docs = [j \in Job |-> {}] /\ todo = [j \in Job |-> {}]
    /\ held = [j \in Job |-> {}]
    /\ status = [j \in Job |-> "none"]
    /\ rows = [j \in Job |-> {}]
    /\ key = [j \in Job |-> {}]
    /\ assessed = [j \in Job |-> {}]
    /\ blobs = {}
    /\ text = [d \in Sha |-> NoJob]
    /\ remover = [m \in Removers |-> Resting]
    /\ torn = {} /\ abandoned = {} /\ faults = 0

-----------------------------------------------------------------------------
(* The rows. *)

\* A bug of the kind Exists could have: rows may name a run that is gone.
FaultNoForeignKey(j) == status[j] # "none"

Exists(j) == status[j] \notin {"none", "removed"}

\* A bug of the kind Referenced could have: only finished runs count.
FaultFinishedOnly(d) == \E j \in Job : d \in rows[j] /\ status[j] = "done"

\* sha_referenced: some run's row names the document.
Referenced(d) == \E j \in Job : d \in rows[j]

\* A bug of the kind Holder could have: a column without its unique index.
FaultNoIndex(k) == {}

\* The run that holds a key; runs.content_key is UNIQUE.
Holder(k) == {j \in Job : Exists(j) /\ key[j] = k}

Stored == blobs \cup {d \in Sha : text[d] # NoJob}

To(j, step) == pc' = [pc EXCEPT ![j] = step]

\* The thread is over and its run, if it still exists, has ended as given.  What
\* it was given and is in no row of its run is nobody's.
Ends(j, how) ==
    /\ To(j, "over")
    /\ todo' = [todo EXCEPT ![j] = {}]
    /\ held' = [held EXCEPT ![j] = {}]
    /\ status' = IF Exists(j) THEN [status EXCEPT ![j] = how] ELSE status
    /\ abandoned' = abandoned \cup ((docs[j] \ rows[j]) \cap Stored)
    /\ UNCHANGED << origin, docs, rows, key, torn >>

-----------------------------------------------------------------------------
(* A submission. *)

Active == {j \in Job : pc[j] \notin {"idle", "over"}}

\* The upload request, the folder's listing, or the assessment again of a run
\* that still has its documents: each names them by hash.
Submit(j) ==
    /\ pc[j] = "idle" /\ Cardinality(Active) < Together
    /\ \E o \in Origins, ds \in (SUBSET Sha) \ {{}} :
        /\ o = "reassess" => \E r \in Job : Exists(r) /\ rows[r] = ds
        /\ origin' = [origin EXCEPT ![j] = o]
        /\ docs' = [docs EXCEPT ![j] = ds]
        /\ todo' = [todo EXCEPT ![j] = IF o = "upload" THEN ds ELSE {}]
        /\ To(j, IF o = "upload" THEN "put" ELSE "look")
    /\ UNCHANGED << held, tables, blobs, text, remover, history >>

\* The request puts the bytes in the store before there is a run, and before
\* anything looks at what they are.
Upload(j) ==
    /\ pc[j] = "put"
    /\ \E d \in todo[j] :
        /\ blobs' = blobs \cup {d}
        /\ todo' = [todo EXCEPT ![j] = @ \ {d}]
        /\ To(j, IF todo[j] = {d} THEN "look" ELSE "put")
    /\ UNCHANGED << origin, docs, held, tables, text, remover, history >>

\* _existing_run: the run that holds the key is returned, unless it failed.
Look(j) ==
    /\ pc[j] = "look"
    /\ To(j, IF \E r \in Holder(docs[j]) : status[r] # "failed" THEN "over" ELSE "create")
    /\ UNCHANGED << origin, docs, todo, held, tables, blobs, text, remover, history >>

\* _new_record and its insertion, with a placeholder for the key.
Create(j) ==
    /\ pc[j] = "create"
    /\ status' = [status EXCEPT ![j] = "working"]
    /\ todo' = [todo EXCEPT ![j] = docs[j]]
    /\ To(j, "read")
    /\ UNCHANGED << origin, docs, held, rows, key, assessed, blobs, text, remover, history >>

-----------------------------------------------------------------------------
(* INTAKE: the documents in turn, and then the key. *)

\* From the store if it is there, else from where it came, which for an upload
\* or a run assessed again is nowhere.
Accepts(j, d) == d \in blobs \/ origin[j] = "folder"

Read(j) ==
    /\ pc[j] = "read"
    /\ \E d \in todo[j] :
        IF Accepts(j, d)
          THEN /\ held' = [held EXCEPT ![j] = {d}]
               /\ To(j, "store")
               /\ UNCHANGED << origin, docs, todo, status, rows, key, torn, abandoned >>
          ELSE Ends(j, "failed")
    /\ UNCHANGED << assessed, blobs, text, remover, faults >>

Store(j) ==
    /\ pc[j] = "store"
    /\ blobs' = blobs \cup held[j]
    /\ To(j, "record")
    /\ UNCHANGED << origin, docs, todo, held, tables, text, remover, history >>

\* A removal that has counted the references of a document and not deleted it yet.
Condemned(d) == \E m \in Removers : remover[m].pc \in {"texts", "bytes"} /\ d \in remover[m].now

\* add_document; without its run's row the foreign key refuses it.
Record(j) ==
    /\ pc[j] = "record"
    /\ IF Exists(j)
         THEN /\ rows' = [rows EXCEPT ![j] = @ \cup held[j]]
              /\ todo' = [todo EXCEPT ![j] = @ \ held[j]]
              /\ held' = [held EXCEPT ![j] = {}]
              /\ torn' = torn \cup {d \in held[j] : Condemned(d)}
              /\ To(j, IF todo[j] = held[j] THEN "claim" ELSE "read")
              /\ UNCHANGED << origin, docs, status, key, abandoned >>
         ELSE Ends(j, "failed")
    /\ UNCHANGED << assessed, blobs, text, remover, faults >>

\* set_content_key, and the node is committed: a run removed meanwhile has no
\* row to put an event against, and the exception ends the thread.
Claim(j) ==
    /\ pc[j] = "claim"
    /\ IF Exists(j)
         THEN /\ key' = IF Holder(docs[j]) = {} THEN [key EXCEPT ![j] = docs[j]] ELSE key
              /\ status' = [status EXCEPT ![j] = "working"]
              /\ todo' = [todo EXCEPT ![j] = rows[j]]
              /\ To(j, "extract")
              /\ UNCHANGED << origin, docs, held, rows, torn, abandoned >>
         ELSE Ends(j, "failed")
    /\ UNCHANGED << assessed, blobs, text, remover, faults >>

-----------------------------------------------------------------------------
(* EXTRACT, SANITIZE and ASSESS, as far as they read documents. *)

\* Each document without a cached text: its bytes are read, and extracted.
Extract(j) ==
    /\ pc[j] = "extract"
    /\ \E d \in todo[j] :
        IF text[d] # NoJob
          THEN /\ todo' = [todo EXCEPT ![j] = @ \ {d}]
               /\ UNCHANGED << pc, origin, docs, held, status, rows, key, torn, abandoned >>
          ELSE IF d \in blobs
                 THEN /\ held' = [held EXCEPT ![j] = {d}]
                      /\ To(j, "keep")
                      /\ UNCHANGED << origin, docs, todo, status, rows, key, torn, abandoned >>
                 ELSE Ends(j, "failed")
    /\ UNCHANGED << assessed, blobs, text, remover, faults >>

\* put_source_text: nothing ties the text to a run that still exists.
Keep(j) ==
    /\ pc[j] = "keep"
    /\ text' = [d \in Sha |-> IF d \in held[j] THEN j ELSE text[d]]
    /\ todo' = [todo EXCEPT ![j] = @ \ held[j]]
    /\ held' = [held EXCEPT ![j] = {}]
    /\ To(j, "extract")
    /\ UNCHANGED << origin, docs, tables, blobs, remover, history >>

\* A bug of the kind EndExtract could have: a node that does not wait for every
\* document.
FaultOneIsEnough(j) ==
    /\ pc[j] = "extract" /\ todo[j] # rows[j]
    /\ IF Exists(j)
         THEN /\ status' = [status EXCEPT ![j] = "working"]
              /\ todo' = [todo EXCEPT ![j] = {}]
              /\ To(j, "sanitize")
              /\ UNCHANGED << origin, docs, held, rows, key, torn, abandoned >>
         ELSE Ends(j, "failed")
    /\ UNCHANGED << assessed, blobs, text, remover, faults >>

EndExtract(j) ==
    /\ pc[j] = "extract" /\ todo[j] = {}
    /\ IF Exists(j)
         THEN /\ status' = [status EXCEPT ![j] = "working"]
              /\ To(j, "sanitize")
              /\ UNCHANGED << origin, docs, todo, held, rows, key, torn, abandoned >>
         ELSE Ends(j, "failed")
    /\ UNCHANGED << assessed, blobs, text, remover, faults >>

\* SANITIZE reads the bytes again, for every document.
Sanitize(j) ==
    /\ pc[j] = "sanitize"
    /\ IF Exists(j) /\ rows[j] \subseteq blobs
         THEN /\ status' = [status EXCEPT ![j] = "working"]
              /\ To(j, "assess")
              /\ UNCHANGED << origin, docs, todo, held, rows, key, torn, abandoned >>
         ELSE Ends(j, "failed")
    /\ UNCHANGED << assessed, blobs, text, remover, faults >>

\* ASSESS works from the texts that are there, and refuses only to work from none.
Assess(j) ==
    /\ pc[j] = "assess"
    /\ LET found == {d \in rows[j] : text[d] # NoJob} IN
        /\ Ends(j, IF found = {} THEN "failed" ELSE "done")
        /\ assessed' = IF Exists(j) THEN [assessed EXCEPT ![j] = found] ELSE assessed
    /\ UNCHANGED << blobs, text, remover, faults >>

\* A node fails for a reason of its own: INTAKE refuses a document for what it
\* is or cannot store it (two submissions of the same bytes write them beside the
\* target under one name, and the second finds nothing left to rename), EXTRACT
\* cannot read one.  All of these end in FAILED_TERMINAL.
NodeFails(j) ==
    /\ pc[j] \in {"read", "store", "extract", "sanitize", "assess"}
    /\ faults < MaxFaults /\ faults' = faults + 1
    /\ Ends(j, "failed")
    /\ UNCHANGED << assessed, blobs, text, remover >>

\* The process dies; the run stays as it was.
Crash(j) ==
    /\ j \in Active
    /\ faults < MaxFaults /\ faults' = faults + 1
    /\ Ends(j, status[j])
    /\ UNCHANGED << assessed, blobs, text, remover >>

\* recovery.reconcile: a run at rest too long, whether its thread died or is slow.
Reconcile(j) ==
    /\ status[j] = "working"
    /\ status' = [status EXCEPT ![j] = "interrupted"]
    /\ UNCHANGED << work, rows, key, assessed, blobs, text, remover, history >>

-----------------------------------------------------------------------------
(* The removal of a run. *)

Turns(m, r) == remover' = [remover EXCEPT ![m] = r]

\* delete_run refuses a run in flight (and the samples that ship with the
\* system, which are left out); purge takes finished runs past their retention.
MayRemove(m, r) ==
    \/ status[r] \in {"done", "failed"}
    \/ m = "api" /\ status[r] = "interrupted"

Ask(m) ==
    /\ remover[m].pc = "idle"
    /\ \E r \in Job : MayRemove(m, r) /\ Turns(m, Stage("list", r, {}, {}))
    /\ UNCHANGED << work, tables, blobs, text, history >>

List(m) ==
    /\ remover[m].pc = "list"
    /\ Turns(m, Stage("delete", remover[m].run, rows[remover[m].run], {}))
    /\ UNCHANGED << work, tables, blobs, text, history >>

\* runs.delete, and every row that cascades from it, those recorded since the
\* list was made included.
DeleteRow(m) ==
    /\ remover[m].pc = "delete"
    /\ LET r == remover[m].run IN
        /\ status' = [status EXCEPT ![r] = "removed"]
        /\ rows' = [rows EXCEPT ![r] = {}]
        /\ key' = [key EXCEPT ![r] = {}]
        /\ assessed' = [assessed EXCEPT ![r] = {}]
        /\ abandoned' = abandoned \cup (rows[r] \ remover[m].left)
    /\ Turns(m, IF remover[m].left = {} THEN Resting
                ELSE Stage("count", remover[m].run, remover[m].left, {}))
    /\ UNCHANGED << work, blobs, text, torn, faults >>

\* The next of the documents listed: kept if a row refers to it.
Treated(m, d) ==
    IF remover[m].left = {d} THEN Resting
    ELSE Stage("count", remover[m].run, remover[m].left \ {d}, {})

Count(m) ==
    /\ remover[m].pc = "count"
    /\ \E d \in remover[m].left :
        Turns(m, IF Referenced(d) THEN Treated(m, d)
                 ELSE Stage("texts", remover[m].run, remover[m].left, {d}))
    /\ UNCHANGED << work, tables, blobs, text, history >>

\* Documents whose bytes a submission has read and not recorded yet.
Unrecorded(d) == \E j \in Job : pc[j] \in {"store", "record"} /\ d \in held[j]

\* A bug of the kind DeleteTexts could have: the cached text is left.
FaultKeepTexts(m) ==
    /\ remover[m].pc = "texts"
    /\ Turns(m, Stage("bytes", remover[m].run, remover[m].left, remover[m].now))
    /\ UNCHANGED << work, tables, blobs, text, history >>

DeleteTexts(m) ==
    /\ remover[m].pc = "texts"
    /\ text' = [d \in Sha |-> IF d \in remover[m].now THEN NoJob ELSE text[d]]
    /\ Turns(m, Stage("bytes", remover[m].run, remover[m].left, remover[m].now))
    /\ UNCHANGED << work, tables, blobs, history >>

DeleteBytes(m) ==
    /\ remover[m].pc = "bytes"
    /\ \E d \in remover[m].now :
        /\ blobs' = blobs \ {d}
        /\ torn' = IF Unrecorded(d) THEN torn \cup {d} ELSE torn
        /\ abandoned' = IF text[d] = NoJob THEN abandoned \ {d} ELSE abandoned
        /\ Turns(m, Treated(m, d))
    /\ UNCHANGED << work, tables, text, faults >>

\* The process that removes dies; nothing takes up what it had left.
RemoverCrash(m) ==
    /\ remover[m].pc # "idle"
    /\ faults < MaxFaults /\ faults' = faults + 1
    /\ abandoned' = IF remover[m].pc \in {"count", "texts", "bytes"}
                        THEN abandoned \cup (remover[m].left \cap Stored)
                        ELSE abandoned
    /\ Turns(m, Resting)
    /\ UNCHANGED << work, tables, blobs, text, torn >>

JobStep(j) ==
    \/ Submit(j) \/ Upload(j) \/ Look(j) \/ Create(j)
    \/ Read(j) \/ Store(j) \/ Record(j) \/ Claim(j)
    \/ Extract(j) \/ Keep(j) \/ EndExtract(j) \/ Sanitize(j) \/ Assess(j)
    \/ NodeFails(j) \/ Crash(j) \/ Reconcile(j)

RemoverStep(m) ==
    \/ Ask(m) \/ List(m) \/ DeleteRow(m) \/ Count(m) \/ DeleteTexts(m) \/ DeleteBytes(m)
    \/ RemoverCrash(m)

Next == (\E j \in Job : JobStep(j)) \/ (\E m \in Removers : RemoverStep(m))

Spec == Init /\ [][Next]_vars

-----------------------------------------------------------------------------
(* Properties. *)

\* A document some run refers to is in the store.  The one way to lose it is a
\* removal that counted its references before a submission of the same bytes had
\* recorded its own, which is what purge.py's count is there to prevent.
LostOnlyWhileRecording ==
    \A j \in Job : \A d \in rows[j] : d \in blobs \/ d \in torn

\* A run that ends well was assessed from every document recorded for it, though
\* ASSESS does not ask: nothing that EXTRACT found or stored may go before
\* ASSESS reads it, but through that same window.
AssessedWhole ==
    \A j \in Job : status[j] = "done" => assessed[j] = rows[j] \/ rows[j] \cap torn # {}

\* Whatever was shared, and in whatever order runs are removed, the last one
\* takes the bytes and the texts with it.  What stays behind with no run was
\* left by work that was given up: an upload INTAKE refused or never reached, a
\* removal or a worker that died, a slow worker whose run was removed meanwhile.
NothingIsKept ==
    Active = {} /\ (\A m \in Removers : remover[m] = Resting) =>
        \A d \in Stored : Referenced(d) \/ d \in abandoned

\* However submissions race, a key is held by one run, and is that run's
\* documents as they were recorded.
KeysAreTrue ==
    \A j \in Job : key[j] # {} =>
        key[j] = rows[j] /\ \A r \in Job \ {j} : key[r] # key[j]

\* What process_candidate promises: work that was done and is still there is
\* returned rather than repeated.
RepeatIsRecognised ==
    [][\A j \in Job : pc[j] = "look" /\ pc'[j] = "create" =>
          \A r \in Job : status[r] = "done" => rows[r] # docs[j]]_vars

=============================================================================
