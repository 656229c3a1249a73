---------------------------- MODULE SocketPathProofs ---------------------------
(***************************************************************************)
(* What SocketPath promises, for any processes and any inodes.             *)
(*                                                                         *)
(* The lock makes the path and the noted inode of a starting server its    *)
(* own; from there on the noted inode speaks for the server's socket, for  *)
(* as long as no inode number comes twice.                                 *)
(***************************************************************************)
EXTENDS SocketPath, TLAPS

\* Where a process has its socket open.
Listening == {"bound", "noted", "serving", "leaving", "removing", "closing"}

\* What has been given out: the path's inode, every open one, every noted one.
GivenInv ==
  /\ path # Nothing => path \in given /\ path \notin moved
  /\ \A i \in Inodes : Open(i) => i \in given /\ pc[listener[i]] \in Listening
  /\ \A p \in Procs : identity[p] # Nothing => identity[p] \in given

\* What a starting server knows of the path.
StartInv ==
  \A p \in Procs :
    /\ pc[p] = "stale" => path = Nothing \/ ~ Open(path)
    /\ pc[p] = "bound" => path = Nothing \/ listener[path] = p

\* A noted inode is one.
NotedInv ==
  \A p \in Procs : pc[p] \in {"noted", "serving"} \union Stopping => identity[p] # Nothing

\* While no number came twice: a server that has closed its listener never finds its
\* inode at the path again, and one about to remove the path finds its own there.
OwnInv ==
  again = {} =>
    \A p \in Procs :
      /\ pc[p] # "dropping"
      /\ pc[p] \in {"closing", "joined"} => path # identity[p]
      /\ pc[p] = "removing" => path = identity[p]

\* ... and the socket of a server that is up is at the path, or somebody renamed it.
UpInv ==
  again = {} =>
    \A p \in Procs :
      Serving(p) => \E i \in Inodes : listener[i] = p /\ (path = i \/ i \in moved)

IInv == TypeOK /\ GivenInv /\ StartInv /\ NotedInv /\ IdentityIsOwn /\ OwnInv /\ UpInv

--------------------------------------------------------------------------------
(* The invariant is inductive: a lemma for each part. *)

\* The shape of the state; the lock is held exactly while its holder starts.
LEMMA TypeStep == IInv /\ [Next]_vars => TypeOK'
<1> SUFFICES ASSUME IInv, [Next]_vars PROVE TypeOK'
  OBVIOUS
<1> USE NamesAssumption DEF IInv, TypeOK, Starting, Stopping, Places, inodes
<1>1. ASSUME NEW p \in Procs, Start(p) PROVE TypeOK'
  BY <1>1 DEF Start, Goto
<1>2. ASSUME NEW p \in Procs, AcquireLock(p) PROVE TypeOK'
  BY <1>2 DEF AcquireLock, Goto
<1>3. ASSUME NEW p \in Procs, CheckPath(p) PROVE TypeOK'
  BY <1>3 DEF CheckPath, Goto
<1>4. ASSUME NEW p \in Procs, Probe(p) PROVE TypeOK'
  BY <1>4 DEF Probe, Goto, GivesUp
<1>5. ASSUME NEW p \in Procs, RemoveStale(p) PROVE TypeOK'
  BY <1>5 DEF RemoveStale, Goto, GivesUp
<1>6. ASSUME NEW p \in Procs, Bind(p) PROVE TypeOK'
  BY <1>6 DEF Bind, Goto, Free
<1>7. ASSUME NEW p \in Procs, NoteIdentity(p) PROVE TypeOK'
  BY <1>7 DEF NoteIdentity, Goto
<1>8. ASSUME NEW p \in Procs, Serve(p) PROVE TypeOK'
  BY <1>8 DEF Serve, Goto
<1>9. ASSUME NEW p \in Procs, StartFails(p) PROVE TypeOK'
  BY <1>9 DEF StartFails, Goto, GivesUp, Closed
<1>10. ASSUME NEW p \in Procs, LeaveLoop(p) PROVE TypeOK'
  BY <1>10 DEF LeaveLoop, Goto
<1>11. ASSUME NEW p \in Procs, CheckOwn(p) PROVE TypeOK'
  BY <1>11 DEF CheckOwn, Goto
<1>12. ASSUME NEW p \in Procs, RemoveOwn(p) PROVE TypeOK'
  BY <1>12 DEF RemoveOwn, Goto
<1>13. ASSUME NEW p \in Procs, CloseListener(p) PROVE TypeOK'
  BY <1>13 DEF CloseListener, Goto, Closed
<1>14. ASSUME NEW p \in Procs, DropChecks(p) PROVE TypeOK'
  BY <1>14 DEF DropChecks, Goto
<1>15. ASSUME NEW p \in Procs, DropRemoves(p) PROVE TypeOK'
  BY <1>15 DEF DropRemoves, Goto
<1>16. ASSUME NEW p \in Procs, Kill(p) PROVE TypeOK'
  BY <1>16 DEF Kill, Goto, Closed
<1>17. CASE RenameAway
  BY <1>17 DEF RenameAway, GivenInv
<1>18. CASE UNCHANGED vars
  BY <1>18 DEF vars
<1>19. QED
  BY <1>1, <1>2, <1>3, <1>4, <1>5, <1>6, <1>7, <1>8, <1>9, <1>10, <1>11, <1>12, <1>13,
     <1>14, <1>15, <1>16, <1>17, <1>18 DEF Next, StartStep, StopStep

\* Only Bind opens a socket and only NoteIdentity notes one.
LEMMA GivenStep == IInv /\ [Next]_vars => GivenInv'
<1> SUFFICES ASSUME IInv, [Next]_vars PROVE GivenInv'
  OBVIOUS
<1> USE NamesAssumption, TypeStep DEF IInv, GivenInv, Open, Listening, TypeOK, Starting,
        Stopping, Places, inodes
<1>1. ASSUME NEW p \in Procs, Start(p) PROVE GivenInv'
  BY <1>1 DEF Start, Goto
<1>2. ASSUME NEW p \in Procs, AcquireLock(p) PROVE GivenInv'
  BY <1>2 DEF AcquireLock, Goto
<1>3. ASSUME NEW p \in Procs, CheckPath(p) PROVE GivenInv'
  BY <1>3 DEF CheckPath, Goto
<1>4. ASSUME NEW p \in Procs, Probe(p) PROVE GivenInv'
  BY <1>4 DEF Probe, Goto, GivesUp
<1>5. ASSUME NEW p \in Procs, RemoveStale(p) PROVE GivenInv'
  BY <1>5 DEF RemoveStale, Goto, GivesUp
<1>6. ASSUME NEW p \in Procs, Bind(p) PROVE GivenInv'
  BY <1>6 DEF Bind, Goto, Free
<1>7. ASSUME NEW p \in Procs, NoteIdentity(p) PROVE GivenInv'
  BY <1>7 DEF NoteIdentity, Goto
<1>8. ASSUME NEW p \in Procs, Serve(p) PROVE GivenInv'
  BY <1>8 DEF Serve, Goto
<1>9. ASSUME NEW p \in Procs, StartFails(p) PROVE GivenInv'
  BY <1>9 DEF StartFails, Goto, GivesUp, Closed
<1>10. ASSUME NEW p \in Procs, LeaveLoop(p) PROVE GivenInv'
  BY <1>10 DEF LeaveLoop, Goto
<1>11. ASSUME NEW p \in Procs, CheckOwn(p) PROVE GivenInv'
  BY <1>11 DEF CheckOwn, Goto
<1>12. ASSUME NEW p \in Procs, RemoveOwn(p) PROVE GivenInv'
  BY <1>12 DEF RemoveOwn, Goto
<1>13. ASSUME NEW p \in Procs, CloseListener(p) PROVE GivenInv'
  BY <1>13 DEF CloseListener, Goto, Closed
<1>14. ASSUME NEW p \in Procs, DropChecks(p) PROVE GivenInv'
  BY <1>14 DEF DropChecks, Goto
<1>15. ASSUME NEW p \in Procs, DropRemoves(p) PROVE GivenInv'
  BY <1>15 DEF DropRemoves, Goto
<1>16. ASSUME NEW p \in Procs, Kill(p) PROVE GivenInv'
  BY <1>16 DEF Kill, Goto, Closed
<1>17. CASE RenameAway
  BY <1>17 DEF RenameAway
<1>18. CASE UNCHANGED vars
  BY <1>18 DEF vars
<1>19. QED
  BY <1>1, <1>2, <1>3, <1>4, <1>5, <1>6, <1>7, <1>8, <1>9, <1>10, <1>11, <1>12, <1>13,
     <1>14, <1>15, <1>16, <1>17, <1>18 DEF Next, StartStep, StopStep

\* Only the holder of the lock binds, so a path that held no server when it looked
\* holds none later.
LEMMA StartKnows == IInv /\ [Next]_vars => StartInv'
<1> SUFFICES ASSUME IInv, [Next]_vars PROVE StartInv'
  OBVIOUS
<1> USE NamesAssumption, TypeStep DEF IInv, StartInv, GivenInv, Open, Listening, TypeOK,
        Starting, Stopping, Places, inodes
<1>1. ASSUME NEW p \in Procs, Start(p) PROVE StartInv'
  BY <1>1 DEF Start, Goto
<1>2. ASSUME NEW p \in Procs, AcquireLock(p) PROVE StartInv'
  BY <1>2 DEF AcquireLock, Goto
<1>3. ASSUME NEW p \in Procs, CheckPath(p) PROVE StartInv'
  BY <1>3 DEF CheckPath, Goto
<1>4. ASSUME NEW p \in Procs, Probe(p) PROVE StartInv'
  BY <1>4 DEF Probe, Goto, GivesUp
<1>5. ASSUME NEW p \in Procs, RemoveStale(p) PROVE StartInv'
  BY <1>5 DEF RemoveStale, Goto, GivesUp
<1>6. ASSUME NEW p \in Procs, Bind(p) PROVE StartInv'
  BY <1>6 DEF Bind, Goto, Free
<1>7. ASSUME NEW p \in Procs, NoteIdentity(p) PROVE StartInv'
  BY <1>7 DEF NoteIdentity, Goto
<1>8. ASSUME NEW p \in Procs, Serve(p) PROVE StartInv'
  BY <1>8 DEF Serve, Goto
<1>9. ASSUME NEW p \in Procs, StartFails(p) PROVE StartInv'
  BY <1>9 DEF StartFails, Goto, GivesUp, Closed
<1>10. ASSUME NEW p \in Procs, LeaveLoop(p) PROVE StartInv'
  BY <1>10 DEF LeaveLoop, Goto
<1>11. ASSUME NEW p \in Procs, CheckOwn(p) PROVE StartInv'
  BY <1>11 DEF CheckOwn, Goto
<1>12. ASSUME NEW p \in Procs, RemoveOwn(p) PROVE StartInv'
  BY <1>12 DEF RemoveOwn, Goto
<1>13. ASSUME NEW p \in Procs, CloseListener(p) PROVE StartInv'
  BY <1>13 DEF CloseListener, Goto, Closed
<1>14. ASSUME NEW p \in Procs, DropChecks(p) PROVE StartInv'
  BY <1>14 DEF DropChecks, Goto
<1>15. ASSUME NEW p \in Procs, DropRemoves(p) PROVE StartInv'
  BY <1>15 DEF DropRemoves, Goto
<1>16. ASSUME NEW p \in Procs, Kill(p) PROVE StartInv'
  BY <1>16 DEF Kill, Goto, Closed
<1>17. CASE RenameAway
  BY <1>17 DEF RenameAway
<1>18. CASE UNCHANGED vars
  BY <1>18 DEF vars
<1>19. QED
  BY <1>1, <1>2, <1>3, <1>4, <1>5, <1>6, <1>7, <1>8, <1>9, <1>10, <1>11, <1>12, <1>13,
     <1>14, <1>15, <1>16, <1>17, <1>18 DEF Next, StartStep, StopStep

\* What is noted is an inode, not nothing.
LEMMA NotedStep == IInv /\ [Next]_vars => NotedInv'
<1> SUFFICES ASSUME IInv, [Next]_vars PROVE NotedInv'
  OBVIOUS
<1> USE NamesAssumption, TypeStep DEF IInv, NotedInv, TypeOK, Starting, Stopping, Places, inodes
<1>1. ASSUME NEW p \in Procs, Start(p) PROVE NotedInv'
  BY <1>1 DEF Start, Goto
<1>2. ASSUME NEW p \in Procs, AcquireLock(p) PROVE NotedInv'
  BY <1>2 DEF AcquireLock, Goto
<1>3. ASSUME NEW p \in Procs, CheckPath(p) PROVE NotedInv'
  BY <1>3 DEF CheckPath, Goto
<1>4. ASSUME NEW p \in Procs, Probe(p) PROVE NotedInv'
  BY <1>4 DEF Probe, Goto, GivesUp
<1>5. ASSUME NEW p \in Procs, RemoveStale(p) PROVE NotedInv'
  BY <1>5 DEF RemoveStale, Goto, GivesUp
<1>6. ASSUME NEW p \in Procs, Bind(p) PROVE NotedInv'
  BY <1>6 DEF Bind, Goto, Free
<1>7. ASSUME NEW p \in Procs, NoteIdentity(p) PROVE NotedInv'
  BY <1>7 DEF NoteIdentity, Goto
<1>8. ASSUME NEW p \in Procs, Serve(p) PROVE NotedInv'
  BY <1>8 DEF Serve, Goto
<1>9. ASSUME NEW p \in Procs, StartFails(p) PROVE NotedInv'
  BY <1>9 DEF StartFails, Goto, GivesUp, Closed
<1>10. ASSUME NEW p \in Procs, LeaveLoop(p) PROVE NotedInv'
  BY <1>10 DEF LeaveLoop, Goto
<1>11. ASSUME NEW p \in Procs, CheckOwn(p) PROVE NotedInv'
  BY <1>11 DEF CheckOwn, Goto
<1>12. ASSUME NEW p \in Procs, RemoveOwn(p) PROVE NotedInv'
  BY <1>12 DEF RemoveOwn, Goto
<1>13. ASSUME NEW p \in Procs, CloseListener(p) PROVE NotedInv'
  BY <1>13 DEF CloseListener, Goto, Closed
<1>14. ASSUME NEW p \in Procs, DropChecks(p) PROVE NotedInv'
  BY <1>14 DEF DropChecks, Goto
<1>15. ASSUME NEW p \in Procs, DropRemoves(p) PROVE NotedInv'
  BY <1>15 DEF DropRemoves, Goto
<1>16. ASSUME NEW p \in Procs, Kill(p) PROVE NotedInv'
  BY <1>16 DEF Kill, Goto, Closed
<1>17. CASE RenameAway
  BY <1>17 DEF RenameAway
<1>18. CASE UNCHANGED vars
  BY <1>18 DEF vars
<1>19. QED
  BY <1>1, <1>2, <1>3, <1>4, <1>5, <1>6, <1>7, <1>8, <1>9, <1>10, <1>11, <1>12, <1>13,
     <1>14, <1>15, <1>16, <1>17, <1>18 DEF Next, StartStep, StopStep

\* NoteIdentity reads the path while the lock keeps other servers from it.
LEMMA IdentityStep == IInv /\ [Next]_vars => IdentityIsOwn'
<1> SUFFICES ASSUME IInv, [Next]_vars PROVE IdentityIsOwn'
  OBVIOUS
<1> USE NamesAssumption, TypeStep DEF IInv, IdentityIsOwn, StartInv, NotedInv, GivenInv, Open,
        Listening, TypeOK, Starting, Stopping, Places, inodes
<1>1. ASSUME NEW p \in Procs, Start(p) PROVE IdentityIsOwn'
  BY <1>1 DEF Start, Goto
<1>2. ASSUME NEW p \in Procs, AcquireLock(p) PROVE IdentityIsOwn'
  BY <1>2 DEF AcquireLock, Goto
<1>3. ASSUME NEW p \in Procs, CheckPath(p) PROVE IdentityIsOwn'
  BY <1>3 DEF CheckPath, Goto
<1>4. ASSUME NEW p \in Procs, Probe(p) PROVE IdentityIsOwn'
  BY <1>4 DEF Probe, Goto, GivesUp
<1>5. ASSUME NEW p \in Procs, RemoveStale(p) PROVE IdentityIsOwn'
  BY <1>5 DEF RemoveStale, Goto, GivesUp
<1>6. ASSUME NEW p \in Procs, Bind(p) PROVE IdentityIsOwn'
  BY <1>6 DEF Bind, Goto, Free
<1>7. ASSUME NEW p \in Procs, NoteIdentity(p) PROVE IdentityIsOwn'
  BY <1>7 DEF NoteIdentity, Goto
<1>8. ASSUME NEW p \in Procs, Serve(p) PROVE IdentityIsOwn'
  BY <1>8 DEF Serve, Goto
<1>9. ASSUME NEW p \in Procs, StartFails(p) PROVE IdentityIsOwn'
  BY <1>9 DEF StartFails, Goto, GivesUp, Closed
<1>10. ASSUME NEW p \in Procs, LeaveLoop(p) PROVE IdentityIsOwn'
  BY <1>10 DEF LeaveLoop, Goto
<1>11. ASSUME NEW p \in Procs, CheckOwn(p) PROVE IdentityIsOwn'
  BY <1>11 DEF CheckOwn, Goto
<1>12. ASSUME NEW p \in Procs, RemoveOwn(p) PROVE IdentityIsOwn'
  BY <1>12 DEF RemoveOwn, Goto
<1>13. ASSUME NEW p \in Procs, CloseListener(p) PROVE IdentityIsOwn'
  BY <1>13 DEF CloseListener, Goto, Closed
<1>14. ASSUME NEW p \in Procs, DropChecks(p) PROVE IdentityIsOwn'
  BY <1>14 DEF DropChecks, Goto
<1>15. ASSUME NEW p \in Procs, DropRemoves(p) PROVE IdentityIsOwn'
  BY <1>15 DEF DropRemoves, Goto
<1>16. ASSUME NEW p \in Procs, Kill(p) PROVE IdentityIsOwn'
  BY <1>16 DEF Kill, Goto, Closed
<1>17. CASE RenameAway
  BY <1>17 DEF RenameAway
<1>18. CASE UNCHANGED vars
  BY <1>18 DEF vars
<1>19. QED
  BY <1>1, <1>2, <1>3, <1>4, <1>5, <1>6, <1>7, <1>8, <1>9, <1>10, <1>11, <1>12, <1>13,
     <1>14, <1>15, <1>16, <1>17, <1>18 DEF Next, StartStep, StopStep

\* A noted inode comes back to the path only if its number comes twice.
LEMMA OwnStep == IInv /\ [Next]_vars => OwnInv'
<1> SUFFICES ASSUME IInv, [Next]_vars PROVE OwnInv'
  OBVIOUS
<1> USE NamesAssumption, TypeStep DEF IInv, OwnInv, IdentityIsOwn, StartInv, NotedInv,
        GivenInv, Open, Listening, TypeOK, Starting, Stopping, Places, inodes
<1>1. ASSUME NEW p \in Procs, Start(p) PROVE OwnInv'
  BY <1>1 DEF Start, Goto
<1>2. ASSUME NEW p \in Procs, AcquireLock(p) PROVE OwnInv'
  BY <1>2 DEF AcquireLock, Goto
<1>3. ASSUME NEW p \in Procs, CheckPath(p) PROVE OwnInv'
  BY <1>3 DEF CheckPath, Goto
<1>4. ASSUME NEW p \in Procs, Probe(p) PROVE OwnInv'
  BY <1>4 DEF Probe, Goto, GivesUp
<1>5. ASSUME NEW p \in Procs, RemoveStale(p) PROVE OwnInv'
  BY <1>5 DEF RemoveStale, Goto, GivesUp
<1>6. ASSUME NEW p \in Procs, Bind(p) PROVE OwnInv'
  BY <1>6 DEF Bind, Goto, Free
<1>7. ASSUME NEW p \in Procs, NoteIdentity(p) PROVE OwnInv'
  BY <1>7 DEF NoteIdentity, Goto
<1>8. ASSUME NEW p \in Procs, Serve(p) PROVE OwnInv'
  BY <1>8 DEF Serve, Goto
<1>9. ASSUME NEW p \in Procs, StartFails(p) PROVE OwnInv'
  BY <1>9 DEF StartFails, Goto, GivesUp, Closed
<1>10. ASSUME NEW p \in Procs, LeaveLoop(p) PROVE OwnInv'
  BY <1>10 DEF LeaveLoop, Goto
<1>11. ASSUME NEW p \in Procs, CheckOwn(p) PROVE OwnInv'
  BY <1>11 DEF CheckOwn, Goto
<1>12. ASSUME NEW p \in Procs, RemoveOwn(p) PROVE OwnInv'
  BY <1>12 DEF RemoveOwn, Goto
<1>13. ASSUME NEW p \in Procs, CloseListener(p) PROVE OwnInv'
  BY <1>13 DEF CloseListener, Goto, Closed
<1>14. ASSUME NEW p \in Procs, DropChecks(p) PROVE OwnInv'
  BY <1>14 DEF DropChecks, Goto
<1>15. ASSUME NEW p \in Procs, DropRemoves(p) PROVE OwnInv'
  BY <1>15 DEF DropRemoves, Goto
<1>16. ASSUME NEW p \in Procs, Kill(p) PROVE OwnInv'
  BY <1>16 DEF Kill, Goto, Closed
<1>17. CASE RenameAway
  BY <1>17 DEF RenameAway
<1>18. CASE UNCHANGED vars
  BY <1>18 DEF vars
<1>19. QED
  BY <1>1, <1>2, <1>3, <1>4, <1>5, <1>6, <1>7, <1>8, <1>9, <1>10, <1>11, <1>12, <1>13,
     <1>14, <1>15, <1>16, <1>17, <1>18 DEF Next, StartStep, StopStep

\* The path loses a socket to its own server, to who finds it dead, or to a rename.
LEMMA UpStep == IInv /\ [Next]_vars => UpInv'
<1> SUFFICES ASSUME IInv, [Next]_vars PROVE UpInv'
  OBVIOUS
<1> USE NamesAssumption, TypeStep DEF IInv, UpInv, Serving, OwnInv, IdentityIsOwn, StartInv,
        NotedInv, GivenInv, Open, Listening, TypeOK, Starting, Stopping, Places, inodes
<1>1. ASSUME NEW p \in Procs, Start(p) PROVE UpInv'
  BY <1>1 DEF Start, Goto
<1>2. ASSUME NEW p \in Procs, AcquireLock(p) PROVE UpInv'
  BY <1>2 DEF AcquireLock, Goto
<1>3. ASSUME NEW p \in Procs, CheckPath(p) PROVE UpInv'
  BY <1>3 DEF CheckPath, Goto
<1>4. ASSUME NEW p \in Procs, Probe(p) PROVE UpInv'
  BY <1>4 DEF Probe, Goto, GivesUp
<1>5. ASSUME NEW p \in Procs, RemoveStale(p) PROVE UpInv'
  BY <1>5 DEF RemoveStale, Goto, GivesUp
<1>6. ASSUME NEW p \in Procs, Bind(p) PROVE UpInv'
  BY <1>6 DEF Bind, Goto, Free
<1>7. ASSUME NEW p \in Procs, NoteIdentity(p) PROVE UpInv'
  BY <1>7 DEF NoteIdentity, Goto
<1>8. ASSUME NEW p \in Procs, Serve(p) PROVE UpInv'
  BY <1>8 DEF Serve, Goto
<1>9. ASSUME NEW p \in Procs, StartFails(p) PROVE UpInv'
  BY <1>9 DEF StartFails, Goto, GivesUp, Closed
<1>10. ASSUME NEW p \in Procs, LeaveLoop(p) PROVE UpInv'
  BY <1>10 DEF LeaveLoop, Goto
<1>11. ASSUME NEW p \in Procs, CheckOwn(p) PROVE UpInv'
  BY <1>11 DEF CheckOwn, Goto
<1>12. ASSUME NEW p \in Procs, RemoveOwn(p) PROVE UpInv'
  BY <1>12 DEF RemoveOwn, Goto
<1>13. ASSUME NEW p \in Procs, CloseListener(p) PROVE UpInv'
  BY <1>13 DEF CloseListener, Goto, Closed
<1>14. ASSUME NEW p \in Procs, DropChecks(p) PROVE UpInv'
  BY <1>14 DEF DropChecks, Goto
<1>15. ASSUME NEW p \in Procs, DropRemoves(p) PROVE UpInv'
  BY <1>15 DEF DropRemoves, Goto
<1>16. ASSUME NEW p \in Procs, Kill(p) PROVE UpInv'
  BY <1>16 DEF Kill, Goto, Closed
<1>17. CASE RenameAway
  BY <1>17 DEF RenameAway
<1>18. CASE UNCHANGED vars
  BY <1>18 DEF vars
<1>19. QED
  BY <1>1, <1>2, <1>3, <1>4, <1>5, <1>6, <1>7, <1>8, <1>9, <1>10, <1>11, <1>12, <1>13,
     <1>14, <1>15, <1>16, <1>17, <1>18 DEF Next, StartStep, StopStep

LEMMA Inductive == Spec => []IInv
<1>1. Init => IInv
  BY NamesAssumption DEF Init, IInv, TypeOK, GivenInv, StartInv, NotedInv, IdentityIsOwn,
     OwnInv,
     UpInv, Serving, Open, Starting, Stopping, Places
<1>2. IInv /\ [Next]_vars => IInv'
  BY TypeStep, GivenStep, StartKnows, NotedStep, IdentityStep, OwnStep, UpStep DEF IInv
<1>3. QED
  BY <1>1, <1>2, PTL DEF Spec

--------------------------------------------------------------------------------
(* What follows from it. *)

\* The shape of the state, and the lock: it is held exactly by the process between flock
\* and the end of ControlServer::start, in any number of processes.
THEOREM TypeCorrect == Spec => []TypeOK
  BY Inductive, PTL DEF IInv

\* The inode a server noted is its own socket's, on any file system: while it holds the
\* lock nobody else can bind the path it reads the inode from.
THEOREM NotedIsOwn == Spec => []IdentityIsOwn
  BY Inductive, PTL DEF IInv

\* Two servers are up at the same time only if the socket of one was renamed away.
THEOREM SimultaneousStartsHaveOneWinner == Spec => []OneWinner
<1>1. IInv => OneWinner
  BY NamesAssumption DEF IInv, UpInv, OneWinner, SocketOf, TypeOK
<1>2. QED
  BY <1>1, Inductive, PTL

\* Only the server itself, about to stop, and a rename take a live socket from the path,
\* while no inode number comes twice.
THEOREM LiveSocketIsKept == Spec => LiveSocketKept
<1> DEFINE Keeps == again = {} => \A i \in Inodes : Kept(i)
<1>1. IInv /\ [Next]_vars => Keeps
  <2> SUFFICES ASSUME IInv, [Next]_vars, again = {}, NEW i \in Inodes,
                      path = i, Open(i), path' # i
               PROVE  i \in moved' \/ pc[listener[i]] = "removing"
    BY DEF Kept
  <2> USE NamesAssumption DEF IInv, OwnInv, StartInv, GivenInv, IdentityIsOwn, TypeOK, Open
  <2>1. ASSUME NEW p \in Procs, RemoveStale(p) PROVE FALSE
    BY <2>1 DEF RemoveStale
  <2>2. ASSUME NEW p \in Procs, Bind(p) PROVE FALSE
    BY <2>2 DEF Bind
  <2>3. ASSUME NEW p \in Procs, RemoveOwn(p) PROVE pc[listener[i]] = "removing"
    BY <2>3 DEF RemoveOwn
  <2>4. ASSUME NEW p \in Procs, DropRemoves(p) PROVE FALSE
    BY <2>4 DEF DropRemoves
  <2>5. CASE RenameAway
    BY <2>5 DEF RenameAway
  <2>6. ASSUME NEW p \in Procs,
               Start(p) \/ AcquireLock(p) \/ CheckPath(p) \/ Probe(p) \/ NoteIdentity(p)
                 \/ Serve(p) \/ StartFails(p) \/ LeaveLoop(p) \/ CheckOwn(p)
                 \/ CloseListener(p) \/ DropChecks(p) \/ Kill(p)
        PROVE  FALSE
    BY <2>6 DEF Start, AcquireLock, CheckPath, Probe, NoteIdentity, Serve, StartFails,
       LeaveLoop,
       CheckOwn, CloseListener, DropChecks, Kill
  <2>7. CASE UNCHANGED vars
    BY <2>7 DEF vars
  <2>8. QED
    BY <2>1, <2>2, <2>3, <2>4, <2>5, <2>6, <2>7 DEF Next, StartStep, StopStep
<1>2. QED
  BY <1>1, Inductive, PTL DEF Spec, LiveSocketKept

================================================================================
