----------------------------- MODULE ReviewGate -----------------------------
(***************************************************************************)
(* What the desk promises about sending, and nothing of how it is done.    *)
(*                                                                         *)
(* A package goes out only in a pass that was opened while an approval     *)
(* stood; what was sent is never unsent; and the run is closed only once   *)
(* the package is at every destination.  Desk implements this              *)
(* specification for any number of reviewers, of concurrent passes and of  *)
(* crashes; see GateRefinement there.                                      *)
(***************************************************************************)
CONSTANT Destination

VARIABLES
    approved,    \* an approval stands
    open,        \* a pass that may send is under way
    sent,        \* the destinations that hold the package
    closed       \* the run counts as delivered

gateVars == << approved, open, sent, closed >>

GateTypeOK ==
    /\ approved \in BOOLEAN
    /\ open \in BOOLEAN
    /\ sent \subseteq Destination
    /\ closed \in BOOLEAN

GateInit ==
    /\ approved = FALSE
    /\ open = FALSE
    /\ sent = {}
    /\ closed = FALSE

\* A person approves.
Approve ==
    /\ approved' = TRUE
    /\ UNCHANGED << open, sent, closed >>

\* The gate: a pass may send only if the approval stands when it starts.
OpenPass ==
    /\ approved
    /\ open' = TRUE
    /\ UNCHANGED << approved, sent, closed >>

Send ==
    /\ open
    /\ \E d \in Destination : sent' = sent \cup {d}
    /\ UNCHANGED << approved, open, closed >>

\* The pass ends without closing the run.
EndOfPass ==
    /\ open' = FALSE
    /\ UNCHANGED << approved, sent, closed >>

\* The pass ends and the run counts as delivered; another may be under way.
Close ==
    /\ open
    /\ sent = Destination
    /\ closed' = TRUE
    /\ open' \in BOOLEAN
    /\ UNCHANGED << approved, sent >>

\* A pass that ends badly after another one had closed the run.
Reopen ==
    /\ closed' = FALSE
    /\ open' \in {open, FALSE}
    /\ UNCHANGED << approved, sent >>

\* The run is deleted, and its decisions with it.
Withdraw ==
    /\ approved' = FALSE
    /\ closed' = FALSE
    /\ UNCHANGED << open, sent >>

GateNext ==
    \/ Approve
    \/ OpenPass
    \/ Send
    \/ EndOfPass
    \/ Close
    \/ Reopen
    \/ Withdraw

GateSpec == GateInit /\ [][GateNext]_gateVars

=============================================================================
