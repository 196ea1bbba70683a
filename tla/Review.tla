------------------------------- MODULE Review -------------------------------
(***************************************************************************)
(* Reviewers deciding: application/use_cases/submit_review.py, from the    *)
(* page a reviewer opened to the last write of the decision.               *)
(*                                                                         *)
(* A submission is four steps other processes interleave with: read the    *)
(* row and check; compare-and-swap the row; insert the decision; and, when *)
(* criteria were overridden, store the recomputed recommendation.          *)
(***************************************************************************)
EXTENDS RunStore

VARIABLES
    rpc,         \* where each reviewer is
    rpage,       \* the version the page was rendered from
    rdraft,      \* the decision being submitted
    rexpected,   \* the version the write expects
    rcopy        \* the row as submit_review read it

reviewVars == << rpc, rpage, rdraft, rexpected, rcopy >>

ReviewerPC == {"away", "open", "write", "save", "recompute"}

RowCopy == [completed : SUBSET NodeName, tier : Tier]

ReviewTypeOK ==
    /\ rpc \in [Reviewer -> ReviewerPC]
    /\ rpage \in [Reviewer -> Nat]
    /\ rdraft \in [Reviewer -> Decision]
    /\ rexpected \in [Reviewer -> Nat]
    /\ rcopy \in [Reviewer -> RowCopy]

NoDraft(r) == [version |-> 0, action |-> "REJECT", by |-> r, overridden |-> FALSE]

NoCopy == [completed |-> {}, tier |-> "CLEAN"]

ReviewInit ==
    /\ rpc = [r \in Reviewer |-> "away"]
    /\ rpage = [r \in Reviewer |-> 0]
    /\ rdraft = [r \in Reviewer |-> NoDraft(r)]
    /\ rexpected = [r \in Reviewer |-> 0]
    /\ rcopy = [r \in Reviewer |-> NoCopy]

\* Nothing is remembered once a submission has ended, however it ended.
Leave(r) ==
    /\ rpc' = [rpc EXCEPT ![r] = "away"]
    /\ rpage' = [rpage EXCEPT ![r] = 0]
    /\ rdraft' = [rdraft EXCEPT ![r] = NoDraft(r)]
    /\ rexpected' = [rexpected EXCEPT ![r] = 0]
    /\ rcopy' = [rcopy EXCEPT ![r] = NoCopy]

\* Where each action leaves the run.
NEXT_STATUS ==
    [APPROVE |-> "APPROVED", REJECT |-> "REJECTED", REQUEST_INFO |-> "NEEDS_INFO"]

\* The page is rendered from the row as it is now.
OpenPage(r) ==
    /\ rpc[r] = "away"
    /\ exists
    /\ status \in REVIEWABLE
    /\ rpc' = [rpc EXCEPT ![r] = "open"]
    /\ rpage' = [rpage EXCEPT ![r] = version]
    /\ UNCHANGED << rdraft, rexpected, rcopy >>
    /\ UNCHANGED storeVars

\* The read and the check.  A caller that passes no expected_version gets the
\* version of this read.
Submit(r) ==
    /\ rpc[r] = "open"
    /\ exists
    /\ \E action \in Action, overridden \in BOOLEAN, expected \in {rpage[r], version} :
          /\ CanTransition(status, NEXT_STATUS[action])
          /\ rdraft' = [rdraft EXCEPT ![r] = [version |-> version, action |-> action,
                                              by |-> r, overridden |-> overridden]]
          /\ rexpected' = [rexpected EXCEPT ![r] = expected]
    /\ rcopy' = [rcopy EXCEPT ![r] = [completed |-> completed, tier |-> tier]]
    /\ rpc' = [rpc EXCEPT ![r] = "write"]
    /\ UNCHANGED rpage
    /\ UNCHANGED storeVars

\* The submission is refused: no such run, or no legal transition.
Refuse(r) ==
    /\ rpc[r] = "open"
    /\ \/ ~exists
       \/ \E action \in Action : ~CanTransition(status, NEXT_STATUS[action])
    /\ Leave(r)
    /\ UNCHANGED storeVars

\* runs.update: the whole row, if the version is the expected one.
WriteRow(r) ==
    /\ rpc[r] = "write"
    /\ VersionMatches(rexpected[r])
    /\ UpdateRun([status    |-> NEXT_STATUS[rdraft[r].action],
                  completed |-> rcopy[r].completed,
                  finished  |-> rdraft[r].action # "REQUEST_INFO",
                  tier      |-> rcopy[r].tier])
    /\ rpc' = [rpc EXCEPT ![r] = "save"]
    /\ UNCHANGED << rpage, rdraft, rexpected, rcopy >>

\* StaleRunVersion: somebody else changed the candidate.
WriteIsStale(r) ==
    /\ rpc[r] = "write"
    /\ ~VersionMatches(rexpected[r])
    /\ Leave(r)
    /\ UNCHANGED storeVars

\* reviews.save, which raises when the run has been deleted.
InsertDecision(r) ==
    /\ rpc[r] = "save"
    /\ IF exists THEN SaveDecision(rdraft[r]) ELSE UNCHANGED storeVars
    /\ IF exists /\ rdraft[r].overridden
       THEN rpc' = [rpc EXCEPT ![r] = "recompute"] /\ UNCHANGED << rpage, rdraft, rexpected, rcopy >>
       ELSE Leave(r)

\* The recommendation the overrides produce replaces the stored one.
StoreRecomputed(r) ==
    /\ rpc[r] = "recompute"
    /\ SaveRecommendation(r)
    /\ Leave(r)

\* The process dies, or the reviewer walks away.
ReviewerCrash(r) ==
    /\ rpc[r] # "away"
    /\ Leave(r)
    /\ UNCHANGED storeVars

SubmissionStep(r) ==
    \/ WriteRow(r)
    \/ WriteIsStale(r)
    \/ InsertDecision(r)
    \/ StoreRecomputed(r)

ReviewStep(r) == OpenPage(r) \/ Submit(r) \/ Refuse(r) \/ SubmissionStep(r) \/ ReviewerCrash(r)

=============================================================================
