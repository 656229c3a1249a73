------------------------------ MODULE MCNavigation -----------------------------
(* Instances of Navigation for TLC: the names of panes are alike. *)
EXTENDS Navigation, TLC

Symmetry == Permutations(Panes)

================================================================================
