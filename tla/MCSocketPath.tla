------------------------------ MODULE MCSocketPath -----------------------------
(* Instances of SocketPath for TLC: processes and inodes are alike. *)
EXTENDS SocketPath, TLC

Symmetry == Permutations(Procs) \union Permutations(Inodes)

================================================================================
