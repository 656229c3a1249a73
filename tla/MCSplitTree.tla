------------------------------ MODULE MCSplitTree ------------------------------
(* SplitTree on small windows: lengths of up to twelve pixels. *)
EXTENDS SplitTree

Symmetry == Permutations(Panes)

================================================================================
