----------------------------- MODULE SnapshotStore -----------------------------
(***************************************************************************)
(* What saving the session state promises, without files.  The store       *)
(* stands for a set of snapshots, the ones a launch may find: one of them  *)
(* after a save that was acknowledged, the old and the new one while a     *)
(* save is under way or after one that failed.  A session that did not get *)
(* to see the stored snapshot may show something else, but it never        *)
(* writes.                                                                 *)
(*                                                                         *)
(* All this is promised as long as the store is not contested: one process *)
(* at a time, and nobody else changes the files.  StateStore implements    *)
(* this specification.                                                     *)
(***************************************************************************)
CONSTANTS
  Procs,                \* the processes that may run
  Snapshots             \* session states

VARIABLES
  stable,               \* the snapshots a launch may find
  session,              \* session[p]: what p would save
  writable,             \* writable[p]: p runs and may save
  saved,                \* saved[p]: p was told that session[p] is saved
  contested             \* two processes were at work at once, or files were changed

svars == <<stable, session, writable, saved>>

Init ==
  /\ \E s \in Snapshots : stable = {s} /\ session = [p \in Procs |-> s]
  /\ writable = [p \in Procs |-> FALSE]
  /\ saved = [p \in Procs |-> FALSE]

\* A session starts from what it finds, or without it and read-only.
Launch(p) ==
  /\ \E s \in Snapshots, w \in BOOLEAN :
       /\ w => s \in stable
       /\ session' = [session EXCEPT ![p] = s]
       /\ writable' = [writable EXCEPT ![p] = w]
  /\ saved' = [saved EXCEPT ![p] = FALSE]
  /\ UNCHANGED stable

Edit(p) ==
  /\ \E s \in Snapshots : session' = [session EXCEPT ![p] = s]
  /\ saved' = [saved EXCEPT ![p] = FALSE]
  /\ UNCHANGED <<stable, writable>>

\* The new snapshot becomes one that a launch may find.
Write(p) ==
  /\ writable[p]
  /\ stable' = stable \union {session[p]}
  /\ UNCHANGED <<session, writable, saved>>

\* Told "saved": whatever happens now, a launch finds this snapshot.
Acknowledge(p) ==
  /\ writable[p]
  /\ session[p] \in stable
  /\ stable' = {session[p]}
  /\ saved' = [saved EXCEPT ![p] = TRUE]
  /\ UNCHANGED <<session, writable>>

\* What is stored becomes certain, and processes may be gone: a failed save's last
\* step, a crash, a power failure.
Settle ==
  /\ \E S \in SUBSET stable : S # {} /\ stable' = S
  /\ \E Q \in SUBSET Procs :
       /\ \A p \in Procs \ Q : session'[p] = session[p]
       /\ session' \in [Procs -> Snapshots]
       /\ writable' = [p \in Procs |-> writable[p] /\ p \notin Q]
       /\ saved' = [p \in Procs |-> saved[p] /\ p \notin Q]

Next ==
  \/ Settle
  \/ \E p \in Procs : Launch(p) \/ Edit(p) \/ Write(p) \/ Acknowledge(p)

Spec == Init /\ [][contested' \/ Next]_svars

================================================================================
