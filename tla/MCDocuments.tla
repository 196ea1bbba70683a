---------------------------- MODULE MCDocuments ----------------------------
(* Documents for TLC: documents and submissions are interchangeable. *)
EXTENDS Documents, TLC

Symmetry == Permutations(Job) \cup Permutations(Sha)

=============================================================================
