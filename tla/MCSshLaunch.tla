-------------------------------- MODULE MCSshLaunch ----------------------------
(* Instances of SshLaunch for TLC: processes and remote commands are interchangeable. *)
EXTENDS SshLaunch, TLC

Symmetry == Permutations(Procs) \union Permutations(Commands)

================================================================================
