------------------------------- MODULE MCDesk -------------------------------
(***************************************************************************)
(* Instances of Desk for the model checker.  The constants are given in    *)
(* the .cfg files; what is here is the symmetry of the people and of the   *)
(* processes that make delivery passes, used by the safety runs only.      *)
(***************************************************************************)
EXTENDS Desk, TLC

Symmetry == Permutations(Reviewer) \cup Permutations(Deliverer)

=============================================================================
