------------------------------- MODULE MCClosing ------------------------------
(* Instances of Closing for TLC: p1 and p2 share a tab, p3 has a tab of its own in *)
(* the same group, p4 a group of its own in the same workspace, p5 a workspace of  *)
(* its own and an SSH session.                                                     *)
EXTENDS Closing, TLC

CONSTANTS p1, p2, p3, p4, p5

MCHome ==
  [tab       |-> p1 :> 1 @@ p2 :> 1 @@ p3 :> 2 @@ p4 :> 3 @@ p5 :> 4,
   group     |-> p1 :> 1 @@ p2 :> 1 @@ p3 :> 1 @@ p4 :> 2 @@ p5 :> 3,
   workspace |-> p1 :> 1 @@ p2 :> 1 @@ p3 :> 1 @@ p4 :> 1 @@ p5 :> 2]

================================================================================
