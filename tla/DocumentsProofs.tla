--------------------------- MODULE DocumentsProofs ---------------------------
(***************************************************************************)
(* Theorems about Documents, for any number of submissions, of documents   *)
(* and of faults, and whichever removals are allowed.                      *)
(***************************************************************************)
EXTENDS Documents, TLAPS

-----------------------------------------------------------------------------
(* Types, and where a submission is *)

\* A removal is of a run that was there.
Aimed ==
    \A m \in Removers : remover[m].pc # "idle" =>
        remover[m].run \in Job /\ status[remover[m].run] # "none"

\* What a submission has left to do is among what it was given, it has a document
\* in hand only between two steps of its treatment, and it has no run before it
\* creates one, nor a finished one before its thread is over.
InTurn ==
    \A j \in Job :
        /\ todo[j] \subseteq docs[j]
        /\ pc[j] \notin {"store", "record", "keep"} => held[j] = {}
        /\ pc[j] # "idle" => docs[j] # {}
        /\ pc[j] \in {"idle", "put", "look", "create"} => status[j] = "none"
        /\ status[j] = "done" => pc[j] = "over"

TypeInv == TypeOK /\ Aimed /\ InTurn

LEMMA InitTypes == Init => TypeInv
<1> SUFFICES ASSUME Init PROVE TypeInv
    OBVIOUS
<1>1. TypeOK
    BY DocumentsAssumption DEF Init, TypeOK, Steps, SubmissionOrigin, RunRow, Removal, Resting, Stage
<1>2. Aimed /\ InTurn
    BY DEF Init, Aimed, InTurn, Resting, Stage
<1> QED BY <1>1, <1>2 DEF TypeInv

\* A thread that is over leaves its run with a status it can have.
LEMMA EndsTypes ==
    ASSUME TypeInv, NEW j \in Job, NEW how, pc[j] # "idle", Ends(j, how),
           Exists(j) => how \in {"working", "interrupted", "done", "failed"},
           assessed' \in [Job -> SUBSET Sha], faults' \in 0..MaxFaults,
           UNCHANGED << blobs, text, remover >>
    PROVE  TypeInv'
<1>1. TypeOK'
    BY DEF TypeInv, TypeOK, InTurn, Ends, To, Exists, Steps, RunRow, Stored
<1>2. Aimed' /\ InTurn'
    BY DEF TypeInv, TypeOK, Aimed, InTurn, Ends, To, Exists
<1> QED BY <1>1, <1>2 DEF TypeInv

LEMMA SubmitTypes == ASSUME TypeInv, NEW j \in Job, Submit(j) PROVE TypeInv'
<1>1. TypeOK'
    BY DocumentsAssumption DEF TypeInv, TypeOK, InTurn, Submit, To, tables, history, Steps, RunRow
<1>2. Aimed' /\ InTurn'
    BY DEF TypeInv, TypeOK, Aimed, InTurn, Submit, To, tables, history
<1> QED BY <1>1, <1>2 DEF TypeInv

LEMMA UploadTypes == ASSUME TypeInv, NEW j \in Job, Upload(j) PROVE TypeInv'
<1>1. TypeOK'
    BY DEF TypeInv, TypeOK, InTurn, Upload, To, tables, history, Steps, RunRow
<1>2. Aimed' /\ InTurn'
    BY DEF TypeInv, TypeOK, Aimed, InTurn, Upload, To, tables, history
<1> QED BY <1>1, <1>2 DEF TypeInv

LEMMA LookTypes == ASSUME TypeInv, NEW j \in Job, Look(j) PROVE TypeInv'
<1>1. TypeOK'
    BY DEF TypeInv, TypeOK, InTurn, Look, To, tables, history, Steps, RunRow
<1>2. Aimed' /\ InTurn'
    BY DEF TypeInv, TypeOK, Aimed, InTurn, Look, To, tables, history
<1> QED BY <1>1, <1>2 DEF TypeInv

LEMMA CreateTypes == ASSUME TypeInv, NEW j \in Job, Create(j) PROVE TypeInv'
<1>1. TypeOK'
    BY DEF TypeInv, TypeOK, InTurn, Create, To, history, Steps, RunRow
<1>2. Aimed' /\ InTurn'
    BY DEF TypeInv, TypeOK, Aimed, InTurn, Create, To, history
<1> QED BY <1>1, <1>2 DEF TypeInv

LEMMA ReadTypes == ASSUME TypeInv, NEW j \in Job, Read(j) PROVE TypeInv'
<1> PICK d \in todo[j] :
        IF Accepts(j, d)
          THEN /\ held' = [held EXCEPT ![j] = {d}]
               /\ To(j, "store")
               /\ UNCHANGED << origin, docs, todo, status, rows, key, torn, abandoned >>
          ELSE Ends(j, "failed")
    BY DEF Read
<1> USE DEF Read
<1>1. CASE Accepts(j, d)
  <2>1. TypeOK'
    BY <1>1 DEF TypeInv, TypeOK, InTurn, To, Steps
  <2>2. Aimed' /\ InTurn'
    BY <1>1 DEF TypeInv, TypeOK, Aimed, InTurn, To
  <2> QED BY <2>1, <2>2 DEF TypeInv
<1>2. CASE ~Accepts(j, d)
    BY <1>2, EndsTypes DEF TypeInv, TypeOK
<1> QED BY <1>1, <1>2

LEMMA StoreTypes == ASSUME TypeInv, NEW j \in Job, Store(j) PROVE TypeInv'
<1>1. TypeOK'
    BY DEF TypeInv, TypeOK, InTurn, Store, To, tables, history, Steps, RunRow
<1>2. Aimed' /\ InTurn'
    BY DEF TypeInv, TypeOK, Aimed, InTurn, Store, To, tables, history
<1> QED BY <1>1, <1>2 DEF TypeInv

LEMMA RecordTypes == ASSUME TypeInv, NEW j \in Job, Record(j) PROVE TypeInv'
<1>1. CASE Exists(j)
  <2>1. TypeOK'
    BY <1>1 DEF TypeInv, TypeOK, InTurn, Record, To, Exists, Steps, RunRow
  <2>2. Aimed' /\ InTurn'
    BY <1>1 DEF TypeInv, TypeOK, Aimed, InTurn, Record, To, Exists
  <2> QED BY <2>1, <2>2 DEF TypeInv
<1>2. CASE ~(Exists(j))
    BY <1>2, EndsTypes DEF Record, TypeInv, TypeOK
<1> QED BY <1>1, <1>2

LEMMA ClaimTypes == ASSUME TypeInv, NEW j \in Job, Claim(j) PROVE TypeInv'
<1>1. CASE Exists(j)
  <2>1. TypeOK'
    BY <1>1 DEF TypeInv, TypeOK, InTurn, Claim, To, Holder, Exists, Steps, RunRow
  <2>2. Aimed' /\ InTurn'
    BY <1>1 DEF TypeInv, TypeOK, Aimed, InTurn, Claim, To, Holder, Exists
  <2> QED BY <2>1, <2>2 DEF TypeInv
<1>2. CASE ~(Exists(j))
    BY <1>2, EndsTypes DEF Claim, TypeInv, TypeOK
<1> QED BY <1>1, <1>2

LEMMA ExtractTypes == ASSUME TypeInv, NEW j \in Job, Extract(j) PROVE TypeInv'
<1> PICK d \in todo[j] :
        IF text[d] # NoJob
          THEN /\ todo' = [todo EXCEPT ![j] = @ \ {d}]
               /\ UNCHANGED << pc, origin, docs, held, status, rows, key, torn, abandoned >>
          ELSE IF d \in blobs
                 THEN /\ held' = [held EXCEPT ![j] = {d}]
                      /\ To(j, "keep")
                      /\ UNCHANGED << origin, docs, todo, status, rows, key, torn, abandoned >>
                 ELSE Ends(j, "failed")
    BY DEF Extract
<1> USE DEF Extract
<1>1. CASE text[d] # NoJob
  <2>1. TypeOK'
    BY <1>1 DEF TypeInv, TypeOK, InTurn
  <2>2. Aimed' /\ InTurn'
    BY <1>1 DEF TypeInv, TypeOK, Aimed, InTurn
  <2> QED BY <2>1, <2>2 DEF TypeInv
<1>2. CASE text[d] = NoJob /\ d \in blobs
  <2>1. TypeOK'
    BY <1>2 DEF TypeInv, TypeOK, InTurn, To, Steps
  <2>2. Aimed' /\ InTurn'
    BY <1>2 DEF TypeInv, TypeOK, Aimed, InTurn, To
  <2> QED BY <2>1, <2>2 DEF TypeInv
<1>3. CASE text[d] = NoJob /\ d \notin blobs
    BY <1>3, EndsTypes DEF TypeInv, TypeOK
<1> QED BY <1>1, <1>2, <1>3

LEMMA KeepTypes == ASSUME TypeInv, NEW j \in Job, Keep(j) PROVE TypeInv'
<1>1. TypeOK'
    BY DocumentsAssumption DEF TypeInv, TypeOK, InTurn, Keep, To, tables, history, Steps, RunRow
<1>2. Aimed' /\ InTurn'
    BY DEF TypeInv, TypeOK, Aimed, InTurn, Keep, To, tables, history
<1> QED BY <1>1, <1>2 DEF TypeInv

LEMMA EndExtractTypes == ASSUME TypeInv, NEW j \in Job, EndExtract(j) PROVE TypeInv'
<1>1. CASE Exists(j)
  <2>1. TypeOK'
    BY <1>1 DEF TypeInv, TypeOK, InTurn, EndExtract, To, Exists, Steps, RunRow
  <2>2. Aimed' /\ InTurn'
    BY <1>1 DEF TypeInv, TypeOK, Aimed, InTurn, EndExtract, To, Exists
  <2> QED BY <2>1, <2>2 DEF TypeInv
<1>2. CASE ~(Exists(j))
    BY <1>2, EndsTypes DEF EndExtract, TypeInv, TypeOK
<1> QED BY <1>1, <1>2

LEMMA SanitizeTypes == ASSUME TypeInv, NEW j \in Job, Sanitize(j) PROVE TypeInv'
<1>1. CASE Exists(j) /\ rows[j] \subseteq blobs
  <2>1. TypeOK'
    BY <1>1 DEF TypeInv, TypeOK, InTurn, Sanitize, To, Exists, Steps, RunRow
  <2>2. Aimed' /\ InTurn'
    BY <1>1 DEF TypeInv, TypeOK, Aimed, InTurn, Sanitize, To, Exists
  <2> QED BY <2>1, <2>2 DEF TypeInv
<1>2. CASE ~(Exists(j) /\ rows[j] \subseteq blobs)
    BY <1>2, EndsTypes DEF Sanitize, TypeInv, TypeOK
<1> QED BY <1>1, <1>2

LEMMA AssessTypes == ASSUME TypeInv, NEW j \in Job, Assess(j) PROVE TypeInv'
<1>1. PICK how \in {"failed", "done"} : Ends(j, how)
    BY DEF Assess
<1>2. assessed' \in [Job -> SUBSET Sha]
    BY DEF Assess, TypeInv, TypeOK
<1> QED BY <1>1, <1>2, EndsTypes DEF Assess, TypeInv, TypeOK

LEMMA NodeFailsTypes == ASSUME TypeInv, NEW j \in Job, NodeFails(j) PROVE TypeInv'
<1>1. faults' \in 0..MaxFaults
    BY DocumentsAssumption DEF NodeFails, TypeInv, TypeOK
<1> QED BY <1>1, EndsTypes DEF NodeFails, TypeInv, TypeOK

LEMMA CrashTypes == ASSUME TypeInv, NEW j \in Job, Crash(j) PROVE TypeInv'
<1>1. faults' \in 0..MaxFaults
    BY DocumentsAssumption DEF Crash, TypeInv, TypeOK
<1>2. /\ pc[j] # "idle" /\ pc[j] # "over"
      /\ Exists(j) => status[j] \in {"working", "interrupted", "done", "failed"}
    BY DEF Crash, Active, TypeInv, TypeOK, Exists, RunRow
<1> QED BY <1>1, <1>2, EndsTypes DEF Crash, TypeInv, TypeOK

LEMMA ReconcileTypes == ASSUME TypeInv, NEW j \in Job, Reconcile(j) PROVE TypeInv'
<1>1. TypeOK'
    BY DEF TypeInv, TypeOK, InTurn, Reconcile, work, history, Steps, RunRow
<1>2. Aimed' /\ InTurn'
    BY DEF TypeInv, TypeOK, Aimed, InTurn, Reconcile, work, history
<1> QED BY <1>1, <1>2 DEF TypeInv

\* A removal.

LEMMA AskTypes == ASSUME TypeInv, NEW m \in Removers, Ask(m) PROVE TypeInv'
<1>1. TypeOK'
    BY DEF TypeInv, TypeOK, Aimed, InTurn, Ask, MayRemove, work, tables, history, Turns, Stage, Resting, Removal, Steps, RunRow
<1>2. Aimed' /\ InTurn'
    BY DEF TypeInv, TypeOK, Aimed, InTurn, Ask, MayRemove, work, tables, history, Turns, Stage, Resting, Removal
<1> QED BY <1>1, <1>2 DEF TypeInv

LEMMA ListTypes == ASSUME TypeInv, NEW m \in Removers, List(m) PROVE TypeInv'
<1>1. TypeOK'
    BY DEF TypeInv, TypeOK, Aimed, InTurn, List, work, tables, history, Turns, Stage, Resting, Removal, Steps, RunRow
<1>2. Aimed' /\ InTurn'
    BY DEF TypeInv, TypeOK, Aimed, InTurn, List, work, tables, history, Turns, Stage, Resting, Removal
<1> QED BY <1>1, <1>2 DEF TypeInv

LEMMA DeleteRowTypes == ASSUME TypeInv, NEW m \in Removers, DeleteRow(m) PROVE TypeInv'
<1>1. TypeOK'
    BY DEF TypeInv, TypeOK, Aimed, InTurn, DeleteRow, work, Turns, Stage, Resting, Removal, Steps, RunRow
<1>2. Aimed' /\ InTurn'
    BY DEF TypeInv, TypeOK, Aimed, InTurn, DeleteRow, work, Turns, Stage, Resting, Removal
<1> QED BY <1>1, <1>2 DEF TypeInv

LEMMA CountTypes == ASSUME TypeInv, NEW m \in Removers, Count(m) PROVE TypeInv'
<1>1. TypeOK'
    BY DEF TypeInv, TypeOK, Aimed, InTurn, Count, Treated, work, tables, history, Turns, Stage, Resting, Removal, Steps, RunRow
<1>2. Aimed' /\ InTurn'
    BY DEF TypeInv, TypeOK, Aimed, InTurn, Count, Treated, work, tables, history, Turns, Stage, Resting, Removal
<1> QED BY <1>1, <1>2 DEF TypeInv

LEMMA DeleteTextsTypes == ASSUME TypeInv, NEW m \in Removers, DeleteTexts(m) PROVE TypeInv'
<1>1. TypeOK'
    BY DEF TypeInv, TypeOK, Aimed, InTurn, DeleteTexts, work, tables, history, Turns, Stage, Resting, Removal, Steps, RunRow
<1>2. Aimed' /\ InTurn'
    BY DEF TypeInv, TypeOK, Aimed, InTurn, DeleteTexts, work, tables, history, Turns, Stage, Resting, Removal
<1> QED BY <1>1, <1>2 DEF TypeInv

LEMMA DeleteBytesTypes == ASSUME TypeInv, NEW m \in Removers, DeleteBytes(m) PROVE TypeInv'
<1>1. TypeOK'
    BY DEF TypeInv, TypeOK, Aimed, InTurn, DeleteBytes, Treated, work, tables, Turns, Stage, Resting, Removal, Steps, RunRow
<1>2. Aimed' /\ InTurn'
    BY DEF TypeInv, TypeOK, Aimed, InTurn, DeleteBytes, Treated, work, tables, Turns, Stage, Resting, Removal
<1> QED BY <1>1, <1>2 DEF TypeInv

LEMMA RemoverCrashTypes == ASSUME TypeInv, NEW m \in Removers, RemoverCrash(m) PROVE TypeInv'
<1>1. TypeOK'
    BY DocumentsAssumption DEF TypeInv, TypeOK, Aimed, InTurn, RemoverCrash, work, tables, Stored, Turns, Stage, Resting, Removal, Steps, RunRow
<1>2. Aimed' /\ InTurn'
    BY DEF TypeInv, TypeOK, Aimed, InTurn, RemoverCrash, work, tables, Stored, Turns, Stage, Resting, Removal
<1> QED BY <1>1, <1>2 DEF TypeInv

LEMMA NextTypes == TypeInv /\ [Next]_vars => TypeInv'
<1> SUFFICES ASSUME TypeInv, [Next]_vars PROVE TypeInv'
    OBVIOUS
<1>1. ASSUME NEW j \in Job, JobStep(j) PROVE TypeInv'
    BY <1>1, SubmitTypes, UploadTypes, LookTypes, CreateTypes, ReadTypes, StoreTypes, RecordTypes,
       ClaimTypes, ExtractTypes, KeepTypes, EndExtractTypes, SanitizeTypes, AssessTypes,
       NodeFailsTypes, CrashTypes, ReconcileTypes DEF JobStep
<1>2. ASSUME NEW m \in Removers, RemoverStep(m) PROVE TypeInv'
    BY <1>2, AskTypes, ListTypes, DeleteRowTypes, CountTypes, DeleteTextsTypes, DeleteBytesTypes,
       RemoverCrashTypes DEF RemoverStep
<1>3. CASE UNCHANGED vars
    BY <1>3 DEF TypeInv, TypeOK, Aimed, InTurn, vars, work, tables, history
<1> QED BY <1>1, <1>2, <1>3 DEF Next

\* Every variable of a submission, of the tables and of the store has its type, no
\* row is without its run, and one document is in hand at a time (documents.cfg).
THEOREM DocumentsTypeCorrect == Spec => []TypeOK
<1>1. Spec => []TypeInv
    BY InitTypes, NextTypes, PTL DEF Spec
<1> QED BY <1>1, PTL DEF TypeInv

-----------------------------------------------------------------------------
(* Content keys *)

\* Until its key is claimed a run has none, and each of its documents is recorded
\* or still to be; when it claims one they are all recorded.
Recorded ==
    \A j \in Job : pc[j] \in {"read", "store", "record", "claim"} =>
        /\ key[j] = {}
        /\ Exists(j) => docs[j] = rows[j] \cup todo[j]
        /\ pc[j] = "claim" => todo[j] = {}

KeyInv == KeysAreTrue /\ Recorded

\* Ending a thread changes no row, no key and no document submitted.
LEMMA EndsKeys ==
    ASSUME TypeInv, KeyInv, NEW j \in Job, NEW how, Ends(j, how)
    PROVE  KeyInv'
<1> /\ rows' = rows /\ key' = key /\ docs' = docs
    /\ \A r \in Job : pc'[r] \in {"read", "store", "record", "claim"} =>
            pc'[r] = pc[r] /\ todo'[r] = todo[r] /\ status'[r] = status[r]
    BY DEF TypeInv, TypeOK, Ends, To
<1> QED BY DEF KeyInv, KeysAreTrue, Recorded, Exists

\* The one step that records: what was in hand is in a row and no longer to do.
LEMMA RecordKeys == ASSUME TypeInv, KeyInv, NEW j \in Job, Record(j) PROVE KeyInv'
<1>1. CASE Exists(j)
  <2>1. KeysAreTrue'
    BY <1>1 DEF TypeInv, TypeOK, KeyInv, KeysAreTrue, Recorded, Record
  <2>2. Recorded'
    BY <1>1 DEF TypeInv, TypeOK, KeyInv, Recorded, Exists, Record, To
  <2> QED BY <2>1, <2>2 DEF KeyInv
<1>2. CASE ~Exists(j)
    BY <1>2, EndsKeys DEF Record
<1> QED BY <1>1, <1>2

\* The one step that gives a key: nobody who exists holds it, and who does not
\* exist holds none.
LEMMA ClaimKeys == ASSUME TypeInv, KeyInv, NEW j \in Job, Claim(j) PROVE KeyInv'
<1>1. CASE Exists(j)
  <2>1. /\ pc[j] = "claim" /\ rows' = rows /\ docs' = docs
        /\ key' = IF Holder(docs[j]) = {} THEN [key EXCEPT ![j] = docs[j]] ELSE key
    BY <1>1 DEF Claim
  <2>2. docs[j] = rows[j] /\ docs[j] # {}
    BY <1>1, <2>1 DEF TypeInv, InTurn, KeyInv, Recorded
  <2>3. Holder(docs[j]) = {} => \A r \in Job : key[r] # docs[j]
    BY <2>2 DEF Holder, TypeInv, TypeOK, Exists, RunRow
  <2>4. KeysAreTrue'
    BY <2>1, <2>3, <2>2 DEF KeyInv, KeysAreTrue, TypeInv, TypeOK
  <2>5. Recorded'
    BY <1>1 DEF TypeInv, TypeOK, KeyInv, Recorded, Exists, Claim, To
  <2> QED BY <2>4, <2>5 DEF KeyInv
<1>2. CASE ~Exists(j)
    BY <1>2, EndsKeys DEF Claim
<1> QED BY <1>1, <1>2

\* The other steps of a submission change no row and no key.
LEMMA JobKeys == ASSUME TypeInv, KeyInv, NEW j \in Job, JobStep(j) PROVE KeyInv'
<1>1. CASE Submit(j)
    BY <1>1 DEF TypeInv, TypeOK, InTurn, KeyInv, KeysAreTrue, Recorded, Exists, Submit, To, tables
<1>2. CASE Upload(j)
    BY <1>2 DEF TypeInv, TypeOK, KeyInv, KeysAreTrue, Recorded, Exists, Upload, To, tables
<1>3. CASE Look(j)
    BY <1>3 DEF TypeInv, TypeOK, KeyInv, KeysAreTrue, Recorded, Exists, Look, To, tables
<1>4. CASE Create(j)
  <2>1. rows[j] = {} /\ key[j] = {}
    BY <1>4 DEF TypeInv, TypeOK, InTurn, Create
  <2> QED BY <1>4, <2>1 DEF TypeInv, TypeOK, KeyInv, KeysAreTrue, Recorded, Exists, Create, To
<1>5. CASE Read(j)
  <2>1. CASE Ends(j, "failed")
    BY <2>1, EndsKeys
  <2>2. CASE ~Ends(j, "failed")
    BY <1>5, <2>2 DEF TypeInv, TypeOK, KeyInv, KeysAreTrue, Recorded, Exists, Read, To
  <2> QED BY <2>1, <2>2
<1>6. CASE Store(j)
    BY <1>6 DEF TypeInv, TypeOK, KeyInv, KeysAreTrue, Recorded, Exists, Store, To, tables
<1>7. CASE Extract(j)
  <2>1. CASE Ends(j, "failed")
    BY <2>1, EndsKeys
  <2>2. CASE ~Ends(j, "failed")
    BY <1>7, <2>2 DEF TypeInv, TypeOK, KeyInv, KeysAreTrue, Recorded, Exists, Extract, To
  <2> QED BY <2>1, <2>2
<1>8. CASE Keep(j)
    BY <1>8 DEF TypeInv, TypeOK, KeyInv, KeysAreTrue, Recorded, Exists, Keep, To, tables
<1>9. CASE EndExtract(j) \/ Sanitize(j)
  <2>1. CASE Ends(j, "failed")
    BY <2>1, EndsKeys
  <2>2. CASE ~Ends(j, "failed")
    BY <1>9, <2>2 DEF TypeInv, TypeOK, KeyInv, KeysAreTrue, Recorded, Exists, EndExtract, Sanitize, To
  <2> QED BY <2>1, <2>2
<1>10. CASE Assess(j) \/ NodeFails(j) \/ Crash(j)
    BY <1>10, EndsKeys DEF Assess, NodeFails, Crash
<1>11. CASE Reconcile(j)
    BY <1>11 DEF TypeInv, TypeOK, KeyInv, KeysAreTrue, Recorded, Exists, Reconcile, work
<1> QED BY <1>1, <1>2, <1>3, <1>4, <1>5, <1>6, <1>7, <1>8, <1>9, <1>10, <1>11, RecordKeys, ClaimKeys DEF JobStep

\* Of the steps of a removal only one touches the tables, and it takes the row
\* and the key of one run together.
LEMMA RemoverKeys == ASSUME TypeInv, KeyInv, NEW m \in Removers, RemoverStep(m) PROVE KeyInv'
<1>1. CASE DeleteRow(m)
    BY <1>1 DEF TypeInv, TypeOK, Aimed, KeyInv, KeysAreTrue, Recorded, Exists, DeleteRow, work
<1>2. CASE ~DeleteRow(m)
  <2>1. UNCHANGED << work, tables >>
    BY <1>2 DEF RemoverStep, Ask, List, Count, DeleteTexts, DeleteBytes, RemoverCrash
  <2> QED BY <2>1 DEF KeyInv, KeysAreTrue, Recorded, Exists, work, tables
<1> QED BY <1>1, <1>2

LEMMA NextKeys == TypeInv /\ KeyInv /\ [Next]_vars => KeyInv'
<1> SUFFICES ASSUME TypeInv, KeyInv, [Next]_vars PROVE KeyInv'
    OBVIOUS
<1>1. CASE UNCHANGED vars
    BY <1>1 DEF KeyInv, KeysAreTrue, Recorded, Exists, vars, work, tables
<1> QED BY <1>1, JobKeys, RemoverKeys DEF Next

\* However submissions race, a key is held by one run, and is that run's documents
\* as they were recorded (set_content_key, intake.py).
THEOREM KeysHoldTrue == Spec => []KeysAreTrue
<1>1. Init => KeyInv
    BY DEF Init, KeyInv, KeysAreTrue, Recorded
<1>2. Spec => [](TypeInv /\ KeyInv)
    BY <1>1, InitTypes, NextTypes, NextKeys, PTL DEF Spec
<1> QED BY <1>2, PTL DEF KeyInv

-----------------------------------------------------------------------------
(* Nothing is lost, but through the one window *)

\* Bytes are in the store when their row is written, and what a removal has found
\* unreferenced and not deleted yet is recorded by nobody, or else is torn.
Guarded ==
    /\ \A j \in Job : pc[j] = "record" => held[j] \subseteq blobs \cup torn
    /\ \A d \in Sha : Condemned(d) /\ Referenced(d) => d \in torn

LostInv == LostOnlyWhileRecording /\ Guarded

LEMMA EndsLost ==
    ASSUME TypeInv, LostInv, NEW j \in Job, NEW how, Ends(j, how), UNCHANGED << blobs, remover >>
    PROVE  LostInv'
<1> /\ rows' = rows /\ torn' = torn
    /\ \A r \in Job : pc'[r] = "record" => pc[r] = "record" /\ held'[r] = held[r]
    BY DEF TypeInv, TypeOK, Ends, To
<1> QED BY DEF LostInv, LostOnlyWhileRecording, Guarded, Condemned, Referenced

\* A document recorded while a removal is about to delete it is torn.
LEMMA RecordLost == ASSUME TypeInv, LostInv, NEW j \in Job, Record(j) PROVE LostInv'
<1>1. CASE Exists(j)
  <2>1. /\ pc[j] = "record" /\ rows' = [rows EXCEPT ![j] = @ \cup held[j]]
        /\ held' = [held EXCEPT ![j] = {}] /\ blobs' = blobs /\ remover' = remover
        /\ torn' = torn \cup {d \in held[j] : Condemned(d)}
    BY <1>1 DEF Record
  <2>2. LostOnlyWhileRecording'
    BY <2>1 DEF TypeInv, TypeOK, LostInv, LostOnlyWhileRecording, Guarded
  <2>3. \A r \in Job : pc'[r] = "record" => pc[r] = "record" /\ held'[r] = held[r]
    BY <1>1, <2>1 DEF TypeInv, TypeOK, Record, To
  <2>4. \A d \in Sha : Condemned(d)' /\ Referenced(d)' => d \in torn'
    <3> SUFFICES ASSUME NEW d \in Sha, Condemned(d)', Referenced(d)' PROVE d \in torn'
        OBVIOUS
    <3>1. Condemned(d)
        BY <2>1 DEF Condemned
    <3>2. Referenced(d) \/ d \in held[j]
        BY <2>1 DEF Referenced, TypeInv, TypeOK
    <3> QED BY <2>1, <3>1, <3>2 DEF LostInv, Guarded
  <2> QED BY <2>1, <2>2, <2>3, <2>4 DEF LostInv, Guarded
<1>2. CASE ~Exists(j)
    BY <1>2, EndsLost DEF Record
<1> QED BY <1>1, <1>2

LEMMA JobLost == ASSUME TypeInv, LostInv, NEW j \in Job, JobStep(j) PROVE LostInv'
<1>1. CASE Submit(j) \/ Look(j) \/ Create(j) \/ Keep(j) \/ Reconcile(j)
  <2>1. /\ rows' = rows /\ torn' = torn /\ blobs' = blobs /\ remover' = remover
        /\ \A r \in Job : pc'[r] = "record" => pc[r] = "record" /\ held'[r] = held[r]
    BY <1>1 DEF TypeInv, TypeOK, Submit, Look, Create, Keep, Reconcile, To, work, tables, history
  <2> QED BY <2>1 DEF LostInv, LostOnlyWhileRecording, Guarded, Condemned, Referenced
<1>2. CASE Upload(j) \/ Store(j)
  <2>1. /\ rows' = rows /\ torn' = torn /\ remover' = remover /\ blobs \subseteq blobs'
        /\ \A r \in Job : pc'[r] = "record" =>
                (pc[r] = "record" /\ held'[r] = held[r]) \/ held'[r] \subseteq blobs'
    BY <1>2 DEF TypeInv, TypeOK, Upload, Store, To, tables, history
  <2> QED BY <2>1 DEF LostInv, LostOnlyWhileRecording, Guarded, Condemned, Referenced
<1>3. CASE Read(j) \/ Claim(j) \/ Extract(j) \/ EndExtract(j) \/ Sanitize(j)
  <2>1. blobs' = blobs /\ remover' = remover
    BY <1>3 DEF Read, Claim, Extract, EndExtract, Sanitize
  <2>2. CASE Ends(j, "failed")
    BY <2>1, <2>2, EndsLost
  <2>3. CASE ~Ends(j, "failed")
    <3>1. /\ rows' = rows /\ torn' = torn
          /\ \A r \in Job : pc'[r] = "record" => pc[r] = "record" /\ held'[r] = held[r]
        BY <1>3, <2>3 DEF TypeInv, TypeOK, Read, Claim, Extract, EndExtract, Sanitize, To
    <3> QED BY <2>1, <3>1 DEF LostInv, LostOnlyWhileRecording, Guarded, Condemned, Referenced
  <2> QED BY <2>2, <2>3
<1>4. CASE Assess(j) \/ NodeFails(j) \/ Crash(j)
    BY <1>4, EndsLost DEF Assess, NodeFails, Crash
<1> QED BY <1>1, <1>2, <1>3, <1>4, RecordLost DEF JobStep

\* The bytes go only if no row refers to them, or the row is torn; a submission
\* that has them in hand finds them torn when it records.
LEMMA DeleteBytesLost == ASSUME TypeInv, LostInv, NEW m \in Removers, DeleteBytes(m) PROVE LostInv'
<1> PICK d \in remover[m].now :
        /\ blobs' = blobs \ {d}
        /\ torn' = IF Unrecorded(d) THEN torn \cup {d} ELSE torn
        /\ Turns(m, Treated(m, d))
    BY DEF DeleteBytes
<1>1. d \in Sha /\ remover[m].pc = "bytes" /\ Condemned(d)
    BY DEF DeleteBytes, Condemned, TypeInv, TypeOK, Removal
<1>2. pc' = pc /\ held' = held /\ rows' = rows
    BY DEF DeleteBytes, work, tables
<1>3. LostOnlyWhileRecording'
    BY <1>1, <1>2 DEF LostInv, LostOnlyWhileRecording, Guarded, Referenced, TypeInv, TypeOK
<1>4. \A j \in Job : pc'[j] = "record" => held'[j] \subseteq blobs' \cup torn'
    BY <1>2 DEF LostInv, Guarded, Unrecorded
<1>5. \A e \in Sha : Condemned(e)' /\ Referenced(e)' => Condemned(e) /\ Referenced(e)
    BY <1>2 DEF Condemned, Referenced, Turns, Treated, Stage, Resting, TypeInv, TypeOK
<1> QED BY <1>3, <1>4, <1>5 DEF LostInv, Guarded

LEMMA RemoverLost == ASSUME TypeInv, LostInv, NEW m \in Removers, RemoverStep(m) PROVE LostInv'
<1>1. CASE ~DeleteBytes(m)
  <2>1. /\ pc' = pc /\ held' = held /\ torn' = torn /\ blobs' = blobs
        /\ \A j \in Job : rows'[j] \subseteq rows[j]
    BY <1>1 DEF RemoverStep, Ask, List, DeleteRow, Count, DeleteTexts, RemoverCrash,
                work, tables, history, TypeInv, TypeOK, Aimed
  <2>2. \A d \in Sha : Referenced(d)' => Referenced(d)
    BY <2>1 DEF Referenced
  <2>3. \A d \in Sha : Condemned(d)' => Condemned(d) \/ ~Referenced(d)
    BY <1>1 DEF RemoverStep, Ask, List, DeleteRow, Count, DeleteTexts, RemoverCrash,
                Condemned, Turns, Treated, Stage, Resting, TypeInv, TypeOK
  <2> QED BY <2>1, <2>2, <2>3 DEF LostInv, LostOnlyWhileRecording, Guarded
<1> QED BY <1>1, DeleteBytesLost

LEMMA NextLost == TypeInv /\ LostInv /\ [Next]_vars => LostInv'
<1> SUFFICES ASSUME TypeInv, LostInv, [Next]_vars PROVE LostInv'
    OBVIOUS
<1>1. CASE UNCHANGED vars
    BY <1>1 DEF LostInv, LostOnlyWhileRecording, Guarded, Condemned, Referenced, vars, work, tables, history
<1> QED BY <1>1, JobLost, RemoverLost DEF Next

\* A document some run refers to is in the store, unless its references were
\* counted before a submission of the same bytes had recorded its own (purge.py).
THEOREM OnlyTornIsLost == Spec => []LostOnlyWhileRecording
<1>1. Init => LostInv
    BY DEF Init, LostInv, LostOnlyWhileRecording, Guarded, Referenced
<1>2. Spec => [](TypeInv /\ LostInv)
    BY <1>1, InitTypes, NextTypes, NextLost, PTL DEF Spec
<1> QED BY <1>2, PTL DEF LostInv

-----------------------------------------------------------------------------
(* A run that ends well was assessed from all its documents *)

\* What EXTRACT has treated has a text until ASSESS reads it, or is torn.
Extracted ==
    \A j \in Job : Exists(j) =>
        /\ pc[j] \in {"extract", "keep"} =>
              \A d \in rows[j] \ todo[j] : text[d] # NoJob \/ d \in torn
        /\ pc[j] \in {"sanitize", "assess"} =>
              \A d \in rows[j] : text[d] # NoJob \/ d \in torn

WholeInv == AssessedWhole /\ Extracted

\* What WholeInv reads of one submission, and what leaves it as it was.
Still(r) ==
    /\ pc'[r] = pc[r] /\ todo'[r] = todo[r] /\ rows'[r] = rows[r]
    /\ assessed'[r] = assessed[r]
    /\ Exists(r)' => Exists(r)
    /\ status'[r] = "done" => status[r] = "done"

\* A step of a submission that leaves the others still, loses no text and is
\* right about its own run.
LEMMA OwnStep ==
    ASSUME WholeInv, NEW j \in Job, \A r \in Job \ {j} : Still(r), torn \subseteq torn',
           \A d \in Sha : text[d] # NoJob => text'[d] # NoJob, TypeInv,
           status'[j] = "done" => assessed'[j] = rows'[j] \/ rows'[j] \cap torn' # {},
           Exists(j)' /\ pc'[j] \in {"extract", "keep"} =>
               \A d \in rows'[j] \ todo'[j] : text'[d] # NoJob \/ d \in torn',
           Exists(j)' /\ pc'[j] \in {"sanitize", "assess"} =>
               \A d \in rows'[j] : text'[d] # NoJob \/ d \in torn'
    PROVE  WholeInv'
<1>1. AssessedWhole'
  <2> SUFFICES ASSUME NEW r \in Job, status'[r] = "done"
               PROVE  assessed'[r] = rows'[r] \/ rows'[r] \cap torn' # {}
    BY DEF AssessedWhole
  <2> QED BY DEF WholeInv, AssessedWhole, Still
<1>2. Extracted'
  <2> SUFFICES ASSUME NEW r \in Job \ {j}, Exists(r)'
               PROVE  /\ pc'[r] \in {"extract", "keep"} =>
                            \A d \in rows'[r] \ todo'[r] : text'[d] # NoJob \/ d \in torn'
                      /\ pc'[r] \in {"sanitize", "assess"} =>
                            \A d \in rows'[r] : text'[d] # NoJob \/ d \in torn'
    BY DEF Extracted
  <2>1. rows[r] \subseteq Sha
    BY DEF TypeInv, TypeOK
  <2> QED BY <2>1 DEF WholeInv, Extracted, Still
<1> QED BY <1>1, <1>2 DEF WholeInv

\* A thread that fails or dies says nothing of what was assessed.
LEMMA EndsWhole ==
    ASSUME TypeInv, WholeInv, NEW j \in Job, NEW how, how # "done", Ends(j, how),
           UNCHANGED << assessed, text >>
    PROVE  WholeInv'
<1>1. \A r \in Job \ {j} : Still(r)
    BY DEF TypeInv, TypeOK, Ends, To, Still, Exists
<1>2. pc'[j] = "over" /\ status'[j] # "done" /\ torn' = torn
    BY DEF TypeInv, TypeOK, Ends, To, Exists
<1> QED BY <1>1, <1>2, OwnStep

\* ASSESS reads what EXTRACT left, and torn documents are all it can miss.
LEMMA AssessWhole == ASSUME TypeInv, WholeInv, NEW j \in Job, Assess(j) PROVE WholeInv'
<1> DEFINE found == {d \in rows[j] : text[d] # NoJob}
<1>1. \A r \in Job \ {j} : Still(r)
    BY DEF TypeInv, TypeOK, Assess, Ends, To, Still, Exists
<1>2. pc'[j] = "over" /\ torn' = torn /\ text' = text /\ rows' = rows
    BY DEF TypeInv, TypeOK, Assess, Ends, To
<1>3. status'[j] = "done" => Exists(j) /\ assessed'[j] = found
    BY DEF TypeInv, TypeOK, InTurn, Assess, Ends, Exists
<1>4. Exists(j) => found = rows[j] \/ rows[j] \cap torn # {}
    BY DEF WholeInv, Extracted, Assess
<1> QED BY <1>1, <1>2, <1>3, <1>4, OwnStep

LEMMA JobWhole == ASSUME TypeInv, WholeInv, NEW j \in Job, JobStep(j) PROVE WholeInv'
<1>1. CASE Submit(j) \/ Upload(j) \/ Look(j) \/ Create(j) \/ Store(j)
  <2>1. \A r \in Job \ {j} : Still(r)
    BY <1>1 DEF TypeInv, TypeOK, Submit, Upload, Look, Create, Store, To, Still, Exists, tables
  <2>2. pc'[j] \in {"put", "look", "over", "create", "read", "record"} /\ torn' = torn /\ text' = text
    BY <1>1 DEF TypeInv, TypeOK, Submit, Upload, Look, Create, Store, To, history
  <2>3. status'[j] # "done"
    BY <1>1 DEF TypeInv, TypeOK, InTurn, Submit, Upload, Look, Create, Store, tables
  <2> QED BY <2>1, <2>2, <2>3, OwnStep
<1>2. CASE Read(j) \/ Record(j) \/ Claim(j)
  <2>1. text' = text /\ assessed' = assessed
    BY <1>2 DEF Read, Record, Claim
  <2>2. CASE Ends(j, "failed")
    BY <2>1, <2>2, EndsWhole
  <2>3. CASE ~Ends(j, "failed")
    <3>1. \A r \in Job \ {j} : Still(r)
        BY <1>2, <2>3 DEF TypeInv, TypeOK, Read, Record, Claim, To, Still, Exists
    <3>2. torn \subseteq torn' /\ status'[j] # "done"
        BY <1>2, <2>3 DEF TypeInv, TypeOK, InTurn, Read, Record, Claim
    <3>3. /\ pc'[j] \in {"store", "read", "claim", "extract"}
          /\ pc'[j] = "extract" => rows'[j] = todo'[j]
        BY <1>2, <2>3 DEF TypeInv, TypeOK, Read, Record, Claim, To
    <3> QED BY <2>1, <3>1, <3>2, <3>3, OwnStep
  <2> QED BY <2>2, <2>3
<1>3. CASE Extract(j)
  <2>1. text' = text /\ assessed' = assessed
    BY <1>3 DEF Extract
  <2>2. CASE Ends(j, "failed")
    BY <2>1, <2>2, EndsWhole
  <2>3. CASE ~Ends(j, "failed")
    <3>1. \A r \in Job \ {j} : Still(r)
        BY <1>3, <2>3 DEF TypeInv, TypeOK, Extract, To, Still, Exists
    <3>2. /\ torn' = torn /\ status' = status /\ rows' = rows /\ pc[j] = "extract"
          /\ status[j] # "done" /\ pc'[j] \in {"extract", "keep"}
        BY <1>3, <2>3 DEF TypeInv, TypeOK, InTurn, Extract, To
    <3>3. todo'[j] = todo[j] \/ \E d \in Sha : text[d] # NoJob /\ todo'[j] = todo[j] \ {d}
        BY <1>3, <2>3 DEF TypeInv, TypeOK, Extract
    <3>4. Exists(j) => \A d \in rows'[j] \ todo'[j] : text'[d] # NoJob \/ d \in torn'
        BY <2>1, <3>2, <3>3 DEF WholeInv, Extracted
    <3> QED BY <2>1, <3>1, <3>2, <3>4, OwnStep DEF Exists
  <2> QED BY <2>2, <2>3
<1>4. CASE Keep(j)
  <2>1. \A r \in Job \ {j} : Still(r)
    BY <1>4 DEF TypeInv, TypeOK, Keep, To, Still, Exists, tables
  <2>2. /\ torn' = torn /\ status' = status /\ rows' = rows
        /\ pc[j] = "keep" /\ pc'[j] = "extract" /\ status[j] # "done"
        /\ todo'[j] = todo[j] \ held[j]
    BY <1>4 DEF TypeInv, TypeOK, InTurn, Keep, To, tables, history
  <2>3. \A d \in Sha : (d \in held[j] => text'[d] = j) /\ (d \notin held[j] => text'[d] = text[d])
    BY <1>4 DEF Keep
  <2>4. j # NoJob
    BY DocumentsAssumption
  <2>5. rows[j] \subseteq Sha
    BY DEF TypeInv, TypeOK
  <2>6. Exists(j) => \A d \in rows'[j] \ todo'[j] : text'[d] # NoJob \/ d \in torn'
    BY <2>2, <2>3, <2>4, <2>5 DEF WholeInv, Extracted
  <2> QED BY <2>1, <2>2, <2>3, <2>4, <2>6, OwnStep DEF Exists
<1>5. CASE EndExtract(j) \/ Sanitize(j)
  <2>1. text' = text /\ assessed' = assessed
    BY <1>5 DEF EndExtract, Sanitize
  <2>2. CASE Ends(j, "failed")
    BY <2>1, <2>2, EndsWhole
  <2>3. CASE ~Ends(j, "failed")
    <3>1. \A r \in Job \ {j} : Still(r)
        BY <1>5, <2>3 DEF TypeInv, TypeOK, EndExtract, Sanitize, To, Still, Exists
    <3>2. /\ torn' = torn /\ rows' = rows /\ Exists(j) /\ status'[j] # "done"
          /\ pc'[j] \in {"sanitize", "assess"}
        BY <1>5, <2>3 DEF TypeInv, TypeOK, EndExtract, Sanitize, To
    <3>3. \A d \in rows[j] : text[d] # NoJob \/ d \in torn
        BY <1>5, <2>3, <3>2 DEF WholeInv, Extracted, EndExtract, Sanitize
    <3> QED BY <2>1, <3>1, <3>2, <3>3, OwnStep
  <2> QED BY <2>2, <2>3
<1>6. CASE NodeFails(j) \/ Crash(j)
  <2>1. status[j] # "done"
    BY <1>6 DEF TypeInv, InTurn, NodeFails, Crash, Active
  <2> QED BY <1>6, <2>1, EndsWhole DEF NodeFails, Crash
<1>7. CASE Reconcile(j)
  <2>1. \A r \in Job \ {j} : Still(r)
    BY <1>7 DEF TypeInv, TypeOK, Reconcile, work, Still, Exists
  <2>2. /\ torn' = torn /\ text' = text /\ rows' = rows /\ todo' = todo /\ pc' = pc
        /\ Exists(j) /\ status'[j] # "done"
    BY <1>7 DEF TypeInv, TypeOK, Reconcile, work, history, Exists
  <2> QED BY <2>1, <2>2, OwnStep DEF WholeInv, Extracted
<1> QED BY <1>1, <1>2, <1>3, <1>4, <1>5, <1>6, <1>7, AssessWhole DEF JobStep

\* A text that goes had been found unreferenced: who refers to it now is torn.
LEMMA RemoverWhole ==
    ASSUME TypeInv, LostInv, WholeInv, NEW m \in Removers, RemoverStep(m) PROVE WholeInv'
<1>1. torn \subseteq torn' /\ pc' = pc /\ todo' = todo
    BY DEF RemoverStep, Ask, List, DeleteRow, Count, DeleteTexts, DeleteBytes, RemoverCrash,
           work, history
<1>2. \A r \in Job : Exists(r)' => Still(r)
    BY <1>1 DEF RemoverStep, Ask, List, DeleteRow, Count, DeleteTexts, DeleteBytes, RemoverCrash,
           TypeInv, TypeOK, Aimed, Still, Exists, tables
<1>3. \A r \in Job : \A d \in rows[r] : text[d] # NoJob => text'[d] # NoJob \/ d \in torn
  <2>1. CASE DeleteTexts(m)
    BY <2>1 DEF DeleteTexts, LostInv, Guarded, Condemned, Referenced, TypeInv, TypeOK
  <2>2. CASE ~DeleteTexts(m)
    BY <2>2 DEF RemoverStep, Ask, List, DeleteRow, Count, DeleteBytes, RemoverCrash
  <2> QED BY <2>1, <2>2
<1>4. AssessedWhole'
    BY <1>1, <1>2 DEF WholeInv, AssessedWhole, Still, Exists
<1>5. Extracted'
    BY <1>1, <1>2, <1>3 DEF WholeInv, Extracted, Still
<1> QED BY <1>4, <1>5 DEF WholeInv

\* A run that ends well was assessed from every document recorded for it, or one of
\* them is torn (the ASSESS node asks only for one text, pipeline/assess.py).
THEOREM DoneIsAssessedWhole == Spec => []AssessedWhole
<1>1. Init => LostInv /\ WholeInv
    BY DEF Init, LostInv, LostOnlyWhileRecording, Guarded, Referenced,
           WholeInv, AssessedWhole, Extracted
<1>2. TypeInv /\ LostInv /\ WholeInv /\ [Next]_vars => WholeInv'
  <2> SUFFICES ASSUME TypeInv, LostInv, WholeInv, [Next]_vars PROVE WholeInv'
    OBVIOUS
  <2>1. CASE UNCHANGED vars
    BY <2>1 DEF WholeInv, AssessedWhole, Extracted, Exists, vars, work, tables, history
  <2> QED BY <2>1, JobWhole, RemoverWhole DEF Next
<1>3. Spec => [](TypeInv /\ LostInv /\ WholeInv)
    BY <1>1, <1>2, InitTypes, NextTypes, NextLost, PTL DEF Spec
<1> QED BY <1>3, PTL DEF WholeInv

-----------------------------------------------------------------------------
(* Nothing is kept for nobody *)

\* Who will see to a document: a run's row, work that was given up, a submission
\* under way, or a removal that has it before it.
Accounted(d) ==
    \/ Referenced(d)
    \/ d \in abandoned
    \/ \E j \in Active : d \in docs[j]
    \/ \E m \in Removers :
          \/ remover[m].pc \in {"count", "texts"} /\ d \in remover[m].left
          \/ remover[m].pc = "bytes" /\ d \in remover[m].left \ remover[m].now

\* A removal that has taken a text still has its bytes to take.
Going(d) == \E m \in Removers : remover[m].pc = "bytes" /\ d \in remover[m].now

KeptInv ==
    \A d \in Sha :
        /\ text[d] # NoJob => Accounted(d)
        /\ d \in blobs => Accounted(d) \/ Going(d)

\* A step of a submission that leaves the removals and the other submissions alone,
\* and sees to what it was given and to what it adds.
LEMMA OwnKept ==
    ASSUME KeptInv, NEW j \in Job, remover' = remover, abandoned \subseteq abandoned',
           \A r \in Job : rows[r] \subseteq rows'[r],
           \A r \in Active \ {j} : r \in Active' /\ docs'[r] = docs[r],
           j \in Active => \A d \in docs[j] : d \in Stored => Accounted(d)',
           \A d \in Sha : text'[d] # NoJob => text[d] # NoJob \/ Accounted(d)',
           \A d \in Sha : d \in blobs' => d \in blobs \/ Accounted(d)'
    PROVE  KeptInv'
<1>1. \A d \in Sha : d \in Stored /\ Accounted(d) => Accounted(d)'
  <2> SUFFICES ASSUME NEW d \in Sha, d \in Stored, Accounted(d) PROVE Accounted(d)'
    OBVIOUS
  <2>1. CASE Referenced(d)
    BY <2>1 DEF Referenced, Accounted
  <2>2. CASE \E r \in Active : d \in docs[r]
    BY <2>2 DEF Accounted, Active
  <2> QED BY <2>1, <2>2 DEF Accounted
<1>2. \A d \in Sha : Going(d) => Going(d)'
    BY DEF Going
<1> QED BY <1>1, <1>2 DEF KeptInv, Stored

\* A step that goes on: the submission still has its documents.
LEMMA GoesOnKept ==
    ASSUME TypeInv, KeptInv, NEW j \in Job, remover' = remover, abandoned \subseteq abandoned',
           \A r \in Job : rows[r] \subseteq rows'[r],
           \A r \in Job \ {j} : pc'[r] = pc[r] /\ docs'[r] = docs[r],
           pc'[j] \notin {"idle", "over"}, j \in Active => docs'[j] = docs[j],
           \A d \in Sha : text'[d] # NoJob => text[d] # NoJob \/ d \in docs'[j],
           \A d \in Sha : d \in blobs' => d \in blobs \/ d \in docs'[j]
    PROVE  KeptInv'
<1>1. \A d \in docs'[j] : Accounted(d)'
    BY DEF Accounted, Active
<1>2. \A r \in Active \ {j} : r \in Active' /\ docs'[r] = docs[r]
    BY DEF Active
<1> QED BY <1>1, <1>2, OwnKept

\* A thread that is over gives up what it was given and did not record.
LEMMA EndsKept ==
    ASSUME TypeInv, KeptInv, NEW j \in Job, NEW how, Ends(j, how), UNCHANGED << blobs, text, remover >>
    PROVE  KeptInv'
<1>1. /\ rows' = rows /\ docs' = docs
      /\ abandoned' = abandoned \cup ((docs[j] \ rows[j]) \cap Stored)
      /\ \A r \in Job \ {j} : pc'[r] = pc[r]
    BY DEF TypeInv, TypeOK, Ends, To
<1>2. \A d \in docs[j] : d \in Stored => Accounted(d)'
    BY <1>1 DEF Accounted, Referenced
<1>3. \A r \in Active \ {j} : r \in Active' /\ docs'[r] = docs[r]
    BY <1>1 DEF Active
<1> QED BY <1>1, <1>2, <1>3, OwnKept

\* Who is given a run that holds the key leaves its documents to that run.
LEMMA LookKept == ASSUME TypeInv, KeyInv, KeptInv, NEW j \in Job, Look(j) PROVE KeptInv'
<1>1. /\ rows' = rows /\ docs' = docs /\ remover' = remover /\ abandoned' = abandoned
      /\ text' = text /\ blobs' = blobs
      /\ \A r \in Job \ {j} : pc'[r] = pc[r]
    BY DEF TypeInv, TypeOK, Look, To, tables, history
<1>2. CASE pc'[j] = "create"
    BY <1>1, <1>2, GoesOnKept
<1>3. CASE pc'[j] # "create"
  <2>1. PICK r \in Job : key[r] = docs[j]
    BY <1>3 DEF TypeInv, TypeOK, Look, To, Holder
  <2>2. docs[j] = rows[r]
    BY <2>1 DEF Look, TypeInv, InTurn, KeyInv, KeysAreTrue
  <2>3. \A d \in docs[j] : Accounted(d)'
    BY <1>1, <2>2 DEF Accounted, Referenced
  <2>4. \A i \in Active \ {j} : i \in Active' /\ docs'[i] = docs[i]
    BY <1>1 DEF Active
  <2> QED BY <1>1, <2>3, <2>4, OwnKept
<1> QED BY <1>2, <1>3

LEMMA JobKept == ASSUME TypeInv, KeyInv, KeptInv, NEW j \in Job, JobStep(j) PROVE KeptInv'
<1>1. CASE Submit(j) \/ Upload(j) \/ Create(j) \/ Store(j) \/ Keep(j)
  <2>1. /\ rows' = rows /\ remover' = remover /\ abandoned' = abandoned
        /\ \A r \in Job \ {j} : pc'[r] = pc[r] /\ docs'[r] = docs[r]
        /\ pc'[j] \notin {"idle", "over"} /\ (j \in Active => docs'[j] = docs[j])
    BY <1>1 DEF TypeInv, TypeOK, Submit, Upload, Create, Store, Keep, To, tables, history, Active
  <2>2. /\ \A d \in Sha : text'[d] # NoJob => text[d] # NoJob \/ d \in docs'[j]
        /\ \A d \in Sha : d \in blobs' => d \in blobs \/ d \in docs'[j]
    BY <1>1 DEF TypeInv, TypeOK, InTurn, Submit, Upload, Create, Store, Keep, tables, history
  <2> QED BY <2>1, <2>2, GoesOnKept
<1>2. CASE Read(j) \/ Record(j) \/ Claim(j) \/ Extract(j) \/ EndExtract(j) \/ Sanitize(j)
  <2>1. blobs' = blobs /\ text' = text /\ remover' = remover
    BY <1>2 DEF Read, Record, Claim, Extract, EndExtract, Sanitize
  <2>2. CASE Ends(j, "failed")
    BY <2>1, <2>2, EndsKept
  <2>3. CASE ~Ends(j, "failed")
    <3>1. /\ \A r \in Job : rows[r] \subseteq rows'[r]
          /\ abandoned' = abandoned /\ docs' = docs
        BY <1>2, <2>3 DEF TypeInv, TypeOK, Read, Record, Claim, Extract, EndExtract, Sanitize
    <3>2. /\ \A r \in Job \ {j} : pc'[r] = pc[r]
          /\ pc'[j] \notin {"idle", "over"}
        BY <1>2, <2>3 DEF TypeInv, TypeOK, Read, Record, Claim, Extract, EndExtract, Sanitize, To
    <3> QED BY <2>1, <3>1, <3>2, GoesOnKept
  <2> QED BY <2>2, <2>3
<1>3. CASE Assess(j) \/ NodeFails(j) \/ Crash(j)
    BY <1>3, EndsKept DEF Assess, NodeFails, Crash
<1>4. CASE Reconcile(j)
  <2>1. /\ Active' = Active /\ docs' = docs /\ rows' = rows /\ remover' = remover
        /\ abandoned' = abandoned /\ text' = text /\ blobs' = blobs
    BY <1>4 DEF Reconcile, work, history, Active
  <2>2. \A d \in Sha : (Accounted(d) => Accounted(d)') /\ (Going(d) => Going(d)')
    BY <2>1 DEF Accounted, Going, Referenced
  <2> QED BY <2>1, <2>2 DEF KeptInv
<1> QED BY <1>1, <1>2, <1>3, <1>4, LookKept DEF JobStep

\* The removals in the order of their steps.
LEMMA RemoverKept == ASSUME TypeInv, KeptInv, NEW m \in Removers, RemoverStep(m) PROVE KeptInv'
<1>1. Active' = Active /\ docs' = docs
    BY DEF RemoverStep, Ask, List, DeleteRow, Count, DeleteTexts, DeleteBytes, RemoverCrash,
           work, Active
<1>2. CASE Ask(m) \/ List(m)
  <2>1. remover[m].pc \in {"idle", "list"} /\ rows' = rows /\ abandoned' = abandoned
    BY <1>2 DEF Ask, List, tables, history
  <2>2. \A d \in Sha : (Accounted(d) => Accounted(d)') /\ (Going(d) => Going(d)')
    BY <1>1, <1>2, <2>1 DEF Ask, List, Turns, Accounted, Going, Referenced, TypeInv, TypeOK
  <2> QED BY <1>2, <2>2 DEF Ask, List, KeptInv
<1>3. CASE DeleteRow(m)
  <2> DEFINE r == remover[m].run
  <2>1. /\ remover[m].pc = "delete" /\ r \in Job
        /\ abandoned' = abandoned \cup (rows[r] \ remover[m].left)
        /\ \A i \in Job \ {r} : rows'[i] = rows[i]
    BY <1>3 DEF DeleteRow, TypeInv, TypeOK, Aimed
  <2>2. remover[m].left # {} => remover'[m].pc = "count" /\ remover'[m].left = remover[m].left
    BY <1>3 DEF DeleteRow, Turns, Stage, TypeInv, TypeOK
  <2>3. \A n \in Removers \ {m} : remover'[n] = remover[n]
    BY <1>3 DEF DeleteRow, Turns, TypeInv, TypeOK
  <2>4. \A d \in Sha : Referenced(d) => Accounted(d)'
    BY <2>1, <2>2 DEF Referenced, Accounted
  <2>5. \A d \in Sha : (Accounted(d) => Accounted(d)') /\ (Going(d) => Going(d)')
    BY <1>1, <2>1, <2>3, <2>4 DEF Accounted, Going
  <2> QED BY <1>3, <2>5 DEF DeleteRow, KeptInv
<1>4. CASE Count(m)
  <2>1. PICK e \in remover[m].left :
            Turns(m, IF Referenced(e) THEN Treated(m, e)
                     ELSE Stage("texts", remover[m].run, remover[m].left, {e}))
    BY <1>4 DEF Count
  <2>2. remover[m].pc = "count" /\ rows' = rows /\ abandoned' = abandoned
    BY <1>4 DEF Count, tables, history
  <2>3. \A d \in Sha : Referenced(d)' <=> Referenced(d)
    BY <2>2 DEF Referenced
  <2>4. \A d \in remover[m].left :
            Referenced(d) \/ (remover'[m].pc \in {"count", "texts"} /\ d \in remover'[m].left)
    BY <2>1 DEF Turns, Treated, Stage, Resting, TypeInv, TypeOK
  <2>5. \A n \in Removers \ {m} : remover'[n] = remover[n]
    BY <2>1 DEF Turns, TypeInv, TypeOK
  <2>6. \A d \in Sha : (Accounted(d) => Accounted(d)') /\ (Going(d) => Going(d)')
    BY <1>1, <2>2, <2>3, <2>4, <2>5 DEF Accounted, Going
  <2> QED BY <1>4, <2>6 DEF Count, KeptInv
<1>5. CASE DeleteTexts(m)
  <2>1. /\ remover[m].pc = "texts" /\ rows' = rows /\ abandoned' = abandoned /\ blobs' = blobs
        /\ remover'[m].pc = "bytes" /\ remover'[m].left = remover[m].left
        /\ remover'[m].now = remover[m].now
        /\ \A n \in Removers \ {m} : remover'[n] = remover[n]
    BY <1>5 DEF DeleteTexts, Turns, Stage, tables, history, TypeInv, TypeOK
  <2>2. \A d \in Sha : d \in remover[m].now => text'[d] = NoJob /\ Going(d)'
    BY <1>5, <2>1 DEF DeleteTexts, Going
  <2>3. \A d \in Sha : d \notin remover[m].now => text'[d] = text[d] /\ (Accounted(d) => Accounted(d)')
    BY <1>1, <1>5, <2>1 DEF DeleteTexts, Accounted, Referenced
  <2>4. \A d \in Sha : Going(d) => Going(d)'
    BY <2>1 DEF Going
  <2> QED BY <2>1, <2>2, <2>3, <2>4 DEF KeptInv
<1>6. CASE DeleteBytes(m)
  <2>1. PICK e \in remover[m].now :
            /\ blobs' = blobs \ {e}
            /\ abandoned' = IF text[e] = NoJob THEN abandoned \ {e} ELSE abandoned
            /\ Turns(m, Treated(m, e))
    BY <1>6 DEF DeleteBytes
  <2>2. remover[m].pc = "bytes" /\ rows' = rows /\ text' = text
    BY <1>6 DEF DeleteBytes, tables
  <2>3. \A d \in remover[m].left \ {e} : remover'[m].pc = "count" /\ d \in remover'[m].left
    BY <2>1 DEF Turns, Treated, Stage, Resting, TypeInv, TypeOK
  <2>4. \A n \in Removers \ {m} : remover'[n] = remover[n]
    BY <2>1 DEF Turns, TypeInv, TypeOK
  <2>5. remover[m].now \subseteq remover[m].left
    BY DEF TypeInv, TypeOK
  <2>6. \A d \in Sha : d # e => (Accounted(d) => Accounted(d)') /\ (Going(d) => Going(d)' \/ Accounted(d)')
    BY <1>1, <2>1, <2>2, <2>3, <2>4, <2>5 DEF Accounted, Going, Referenced
  <2>7. text[e] # NoJob => (Accounted(e) => Accounted(e)')
    BY <1>1, <2>1, <2>2, <2>3, <2>4 DEF Accounted, Referenced
  <2> QED BY <2>1, <2>2, <2>6, <2>7 DEF KeptInv
<1>7. CASE RemoverCrash(m)
  <2>1. /\ rows' = rows /\ text' = text /\ blobs' = blobs
        /\ abandoned \subseteq abandoned'
        /\ remover[m].pc \in {"count", "texts", "bytes"} => remover[m].left \cap Stored \subseteq abandoned'
        /\ \A n \in Removers \ {m} : remover'[n] = remover[n]
    BY <1>7 DEF RemoverCrash, Turns, tables, TypeInv, TypeOK
  <2>2. remover[m].now \subseteq remover[m].left
    BY DEF TypeInv, TypeOK
  <2>3. \A d \in Stored : (Accounted(d) => Accounted(d)') /\ (Going(d) => Going(d)' \/ Accounted(d)')
    BY <1>1, <2>1, <2>2 DEF Accounted, Going, Referenced
  <2> QED BY <2>1, <2>3 DEF KeptInv, Stored
<1> QED BY <1>2, <1>3, <1>4, <1>5, <1>6, <1>7 DEF RemoverStep

\* Once nobody is at work, what the store and the cache of texts hold is some run's
\* or was left by work that was given up (remove_run, purge.py).
THEOREM NothingKeptForNobody == Spec => []NothingIsKept
<1>1. Init => KeyInv /\ KeptInv
    BY DEF Init, KeyInv, KeysAreTrue, Recorded, KeptInv
<1>2. TypeInv /\ KeyInv /\ KeptInv /\ [Next]_vars => KeptInv'
  <2> SUFFICES ASSUME TypeInv, KeyInv, KeptInv, [Next]_vars PROVE KeptInv'
    OBVIOUS
  <2>1. CASE UNCHANGED vars
    BY <2>1 DEF KeptInv, Accounted, Going, Referenced, Active, vars, work, tables, history
  <2> QED BY <2>1, JobKept, RemoverKept DEF Next
<1>3. TypeInv /\ KeptInv => NothingIsKept
  <2> SUFFICES ASSUME TypeInv, KeptInv, Active = {}, \A m \in Removers : remover[m] = Resting,
                      NEW d \in Stored
               PROVE  Referenced(d) \/ d \in abandoned
    BY DEF NothingIsKept
  <2>1. \A m \in Removers : remover[m].pc = "idle"
    BY DEF Resting, Stage
  <2>2. d \in Sha /\ ~Going(d)
    BY <2>1 DEF Stored, Going, TypeInv, TypeOK
  <2>3. Accounted(d)
    BY <2>2 DEF KeptInv, Stored
  <2> QED BY <2>1, <2>3 DEF Accounted
<1>4. Spec => [](TypeInv /\ KeyInv /\ KeptInv)
    BY <1>1, <1>2, InitTypes, NextTypes, NextKeys, PTL DEF Spec
<1> QED BY <1>3, <1>4, PTL

=============================================================================
