------------------------------ MODULE MCResumeReview ---------------------------
(* Instances of ResumeReview for TLC: surfaces and commands are interchangeable. *)
EXTENDS ResumeReview, TLC

Symmetry == Permutations(Surfaces) \union Permutations(Commands)

================================================================================
