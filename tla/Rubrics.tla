------------------------------- MODULE Rubrics -------------------------------
(***************************************************************************)
(* The rubric of one role: the file, the copy the admin page keeps over it *)
(* (application/use_cases/rubrics.py), the loader of each process with its *)
(* cache (infrastructure/rubrics.py) and the node every run begins with    *)
(* (pipeline/config_node.py).                                              *)
(*                                                                         *)
(* A text is told from others by its name, and is a rubric or is not.  The *)
(* loader reads the file in two steps, its time and then its text, between *)
(* which anything may be written.                                          *)
(***************************************************************************)
EXTENDS Integers, Sequences, FiniteSets, SequencesExt

CONSTANT Process

\* The pages are served by a process of their own; a worker is another.
ASSUME RubricsAssumption == {"web", "worker"} \subseteq Process

Text(name, valid) == [name |-> name, valid |-> valid]

\* Of what there may be one, << it >>, or none.  `begun' is the time of the file a
\* process has read and not the text yet.
Shipped(file) ==
    [file |-> file, stored |-> << >>, cache |-> [p \in Process |-> << >>], begun |-> [p \in Process |-> << >>]]

Ok(text) == [outcome |-> "ok", text |-> text]
RubricInvalid == [outcome |-> "RUBRIC_INVALID", text |-> Text(0, FALSE)]
FileNotFound == [outcome |-> "RUBRIC_NOT_FOUND", text |-> Text(0, FALSE)]

\* load_rubric: the contract's validators.
LoadRubric(text) == IF text.valid THEN Ok(text) ELSE RubricInvalid

-----------------------------------------------------------------------------
(* The file and the admin page. *)

\* Every edit has a time of its own.
Edit(role, stamp, text) == [role EXCEPT !.file = << [stamp |-> stamp, text |-> text] >>]

\* save_rubric: nothing is stored that is not a rubric.
Save(role, p, text) ==
    IF LoadRubric(text).outcome = "ok"
      THEN [role EXCEPT !.stored = << text >>, !.cache[p] = << >>] ELSE role

\* reset_rubric: only the process that is asked forgets what it has read.
Reset(role, p) == [role EXCEPT !.stored = << >>, !.cache[p] = << >>]

-----------------------------------------------------------------------------
(* The loader. *)

\* raw: the store, or the file if it has none.
Raw(role) == IF role.stored # << >> THEN role.stored ELSE [k \in DOMAIN role.file |-> role.file[k].text]

\* A bug of the kind IsFresh could have: what was read once is good for ever.
FaultCachedForGood(role, p, key) == role.cache[p] # << >>

\* What a process keeps is good for the stored text or the time it was read at.
IsFresh(role, p, key) == role.cache[p] # << >> /\ role.cache[p][1].key = key

Remember(role, p, key, text) ==
    IF LoadRubric(text).outcome = "ok"
      THEN [role EXCEPT !.cache[p] = << [key |-> key, text |-> text] >>, !.begun[p] = << >>]
      ELSE [role EXCEPT !.begun[p] = << >>]

Answer(role, result) == [role |-> role, result |-> result]

\* The file was there and had this time; now its text is read, as raw reads it.
Finish(role, p) ==
    LET text == Raw(role) IN
    IF text = << >> THEN Answer([role EXCEPT !.begun[p] = << >>], FileNotFound)
    ELSE Answer(Remember(role, p, << "file", role.begun[p][1] >>, text[1]), LoadRubric(text[1]))

\* __call__ up to the reading of the file: an answer, or the time of the file.
Begin(role, p) ==
    LET stored == << "stored", Raw(role) >>
        stamp == role.file[1].stamp
    IN  IF role.stored # << >>
          THEN IF IsFresh(role, p, stored) THEN Answer(role, Ok(role.cache[p][1].text))
               ELSE Answer(Remember(role, p, stored, role.stored[1]), LoadRubric(role.stored[1]))
        ELSE IF role.file = << >> THEN Answer(role, FileNotFound)
        ELSE IF IsFresh(role, p, << "file", stamp >>) THEN Answer(role, Ok(role.cache[p][1].text))
        ELSE Answer([role EXCEPT !.begun[p] = << stamp >>], [outcome |-> "reading", text |-> Text(0, FALSE)])

\* __call__, undisturbed.
Load(role, p) ==
    LET begun == Begin(role, p) IN
    IF begun.result.outcome = "reading" THEN Finish(begun.role, p) ELSE begun

-----------------------------------------------------------------------------
(* The CONFIG node: a run whose rubric cannot be loaded ends here, and one     *)
(* whose rubric can be is bound to it by its hash.                             *)

ConfigNode(result, asked, byDefault) ==
    IF result.outcome # "ok" THEN [status |-> "FAILED", next |-> "FAILED_TERMINAL", hash |-> 0, blind |-> asked]
    ELSE [status |-> "OK", next |-> "CREATED", hash |-> result.text.name, blind |-> asked /\ byDefault]

=============================================================================
