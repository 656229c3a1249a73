------------------------------- MODULE SocketPath ------------------------------
(***************************************************************************)
(* Processes that start and stop control servers on one socket path.       *)
(*                                                                         *)
(*   rust/model/src/control_socket.rs  ControlServer::start,               *)
(*                                     SocketPathLock, remove_stale_socket,*)
(*                                     the end of accept_loop, Drop        *)
(*                                                                         *)
(* Starting is serialised by a file lock; stopping is not, and goes by the *)
(* device and inode that start() noted.  A socket is represented by its    *)
(* inode.  A bound socket keeps its inode from being given out again until *)
(* its listener is closed, even when the path was renamed or removed.      *)
(* Modes, owners and things at the path that are no sockets are left out.  *)
(***************************************************************************)
EXTENDS FiniteSets

CONSTANTS
  Procs,                \* the processes
  Inodes,               \* names for inodes
  Nothing,              \* no inode
  Nobody                \* no process

ASSUME NamesAssumption == Nothing \notin Inodes /\ Nobody \notin Procs

VARIABLES
  path,                 \* the inode at the path
  listener,             \* listener[i]: the process whose open listener is bound to i
  moved,                \* sockets somebody else renamed away
  given,                \* inodes given out so far
  again,                \* of these, the ones given out more than once
  lock,                 \* the holder of the lock file
  pc,                   \* pc[p]: where p stands
  identity              \* identity[p]: the inode p noted after bind

inodes == <<given, again>>
vars == <<path, listener, moved, inodes, lock, pc, identity>>

(***************************************************************************)
(* "off"       not running, or without a control server                    *)
(* "waiting"   in flock                                                    *)
(* "checking"  holds the lock, about to look at the path                   *)
(* "found"     there is a socket: about to connect to it                   *)
(* "stale"     nobody answered: about to remove it                         *)
(* "binding"   the path was free: about to bind                            *)
(* "bound"     listening, about to note the inode of the path              *)
(* "noted"     about to validate, release the lock and spawn the thread    *)
(* "serving"   the accept thread runs                                      *)
(* "leaving"   the accept loop is over: about to look at the path          *)
(* "removing"  the path has the noted inode: about to remove it            *)
(* "closing"   about to close the listener                                 *)
(* "joined"    Drop, after the join: about to look at the path             *)
(* "dropping"  the path has the noted inode: about to remove it            *)
(***************************************************************************)
Starting == {"checking", "found", "stale", "binding", "bound", "noted"}
Stopping == {"leaving", "removing", "closing", "joined", "dropping"}
Places   == {"off", "waiting", "serving"} \union Starting \union Stopping

Open(i) == listener[i] # Nobody

\* Inodes a new socket may get: not at the path, not held by an open socket.
\* Some file systems give out the number of a freed inode at once, some never.
Free == {i \in Inodes : i # path /\ ~ Open(i) /\ i \notin moved}

Goto(p, place) == pc' = [pc EXCEPT ![p] = place]

Init ==
  /\ path = Nothing
  /\ listener = [i \in Inodes |-> Nobody]
  /\ moved = {}
  /\ given = {}
  /\ again = {}
  /\ lock = Nobody
  /\ pc = [p \in Procs |-> "off"]
  /\ identity = [p \in Procs |-> Nothing]

--------------------------------------------------------------------------------
(* Mistakes the actions below avoid, to show which property notices. *)

\* Probe takes every socket for a stale one.
ProbeSkipped(p) ==
  /\ pc[p] = "found"
  /\ Goto(p, "stale")
  /\ UNCHANGED <<path, listener, moved, inodes, lock, identity>>

\* DropChecks does not look whose socket it is.
DropRemovesAny(p) ==
  /\ pc[p] = "joined"
  /\ Goto(p, "dropping")
  /\ UNCHANGED <<path, listener, moved, inodes, lock, identity>>

--------------------------------------------------------------------------------
(* ControlServer::start *)

Start(p) ==
  /\ pc[p] = "off"
  /\ Goto(p, "waiting")
  /\ UNCHANGED <<path, listener, moved, inodes, lock, identity>>

AcquireLock(p) ==
  /\ pc[p] = "waiting"
  /\ lock = Nobody
  /\ lock' = p
  /\ Goto(p, "checking")
  /\ UNCHANGED <<path, listener, moved, inodes, identity>>

\* start() returns an error: the lock is released and nothing else undone.
GivesUp(p) ==
  /\ lock' = Nobody
  /\ Goto(p, "off")
  /\ identity' = [identity EXCEPT ![p] = Nothing]

\* remove_stale_socket, symlink_metadata.
CheckPath(p) ==
  /\ pc[p] = "checking"
  /\ Goto(p, IF path = Nothing THEN "binding" ELSE "found")
  /\ UNCHANGED <<path, listener, moved, inodes, lock, identity>>

\* remove_stale_socket, connect: a server that answers is left alone.
Probe(p) ==
  /\ pc[p] = "found"
  /\ IF path # Nothing /\ Open(path)
     THEN GivesUp(p)
     ELSE Goto(p, "stale") /\ UNCHANGED <<lock, identity>>
  /\ UNCHANGED <<path, listener, moved, inodes>>

\* remove_stale_socket, remove_file: it fails if somebody else was faster.
RemoveStale(p) ==
  /\ pc[p] = "stale"
  /\ path' = Nothing
  /\ IF path = Nothing
     THEN GivesUp(p)
     ELSE Goto(p, "binding") /\ UNCHANGED <<lock, identity>>
  /\ UNCHANGED <<listener, moved, inodes>>

Bind(p) ==
  /\ pc[p] = "binding"
  /\ path = Nothing
  /\ \E i \in Free :
       /\ path' = i
       /\ listener' = [listener EXCEPT ![i] = p]
       /\ given' = given \union {i}
       /\ again' = again \union ({i} \intersect given)
  /\ Goto(p, "bound")
  /\ UNCHANGED <<moved, lock, identity>>

\* socket_identity
NoteIdentity(p) ==
  /\ pc[p] = "bound"
  /\ path # Nothing
  /\ identity' = [identity EXCEPT ![p] = path]
  /\ Goto(p, "noted")
  /\ UNCHANGED <<path, listener, moved, inodes, lock>>

\* validate_bound_socket, the accept thread, the release of the lock.
Serve(p) ==
  /\ pc[p] = "noted"
  /\ path = identity[p]
  /\ lock' = Nobody
  /\ Goto(p, "serving")
  /\ UNCHANGED <<path, listener, moved, inodes, identity>>

Closed(p) == [i \in Inodes |-> IF listener[i] = p THEN Nobody ELSE listener[i]]

\* A call after bind fails: the listener is closed, its socket stays at the path.
StartFails(p) ==
  /\ pc[p] \in {"binding", "bound", "noted"}
  /\ listener' = Closed(p)
  /\ GivesUp(p)
  /\ UNCHANGED <<path, moved, inodes>>

--------------------------------------------------------------------------------
(* The end of accept_loop (stop, or accept failed), then Drop. *)

LeaveLoop(p) ==
  /\ pc[p] = "serving"
  /\ Goto(p, "leaving")
  /\ UNCHANGED <<path, listener, moved, inodes, lock, identity>>

CheckOwn(p) ==
  /\ pc[p] = "leaving"
  /\ Goto(p, IF path = identity[p] THEN "removing" ELSE "closing")
  /\ UNCHANGED <<path, listener, moved, inodes, lock, identity>>

RemoveOwn(p) ==
  /\ pc[p] = "removing"
  /\ path' = Nothing
  /\ Goto(p, "closing")
  /\ UNCHANGED <<listener, moved, inodes, lock, identity>>

CloseListener(p) ==
  /\ pc[p] = "closing"
  /\ listener' = Closed(p)
  /\ Goto(p, "joined")
  /\ UNCHANGED <<path, moved, inodes, lock, identity>>

DropChecks(p) ==
  /\ pc[p] = "joined"
  /\ IF path = identity[p]
     THEN Goto(p, "dropping") /\ UNCHANGED identity
     ELSE Goto(p, "off") /\ identity' = [identity EXCEPT ![p] = Nothing]
  /\ UNCHANGED <<path, listener, moved, inodes, lock>>

DropRemoves(p) ==
  /\ pc[p] = "dropping"
  /\ path' = Nothing
  /\ Goto(p, "off")
  /\ identity' = [identity EXCEPT ![p] = Nothing]
  /\ UNCHANGED <<listener, moved, inodes, lock>>

--------------------------------------------------------------------------------
(* What else may happen. *)

\* A process is killed: the kernel closes its listener and releases its lock.
Kill(p) ==
  /\ pc[p] # "off"
  /\ listener' = Closed(p)
  /\ lock' = IF lock = p THEN Nobody ELSE lock
  /\ Goto(p, "off")
  /\ identity' = [identity EXCEPT ![p] = Nothing]
  /\ UNCHANGED <<path, moved, inodes>>

\* Somebody renames the socket of a server, though not just when that server has
\* looked at the path and is about to remove it.
RenameAway ==
  /\ path # Nothing
  /\ \A p \in Procs : pc[p] \in {"removing", "dropping"} => identity[p] # path
  /\ moved' = moved \union {path}
  /\ path' = Nothing
  /\ UNCHANGED <<listener, inodes, lock, pc, identity>>

StartStep(p) ==
  \/ Start(p) \/ AcquireLock(p) \/ CheckPath(p) \/ Probe(p) \/ RemoveStale(p)
  \/ Bind(p) \/ NoteIdentity(p) \/ Serve(p) \/ StartFails(p)

StopStep(p) ==
  \/ LeaveLoop(p) \/ CheckOwn(p) \/ RemoveOwn(p) \/ CloseListener(p)
  \/ DropChecks(p) \/ DropRemoves(p)

Next ==
  \/ \E p \in Procs : StartStep(p) \/ StopStep(p) \/ Kill(p)
  \/ RenameAway

Spec == Init /\ [][Next]_vars

--------------------------------------------------------------------------------
(* Properties *)

Serving(p) == pc[p] \in {"bound", "noted", "serving"}
SocketOf(p) == {i \in Inodes : listener[i] = p}

\* The shape of the state; the lock belongs to the process that is starting.
TypeOK ==
  /\ path \in Inodes \union {Nothing}
  /\ listener \in [Inodes -> Procs \union {Nobody}]
  /\ moved \subseteq given /\ again \subseteq given /\ given \subseteq Inodes
  /\ lock \in Procs \union {Nobody}
  /\ \A p \in Procs : lock = p <=> pc[p] \in Starting
  /\ pc \in [Procs -> Places]
  /\ identity \in [Procs -> Inodes \union {Nothing}]

\* The inode a server noted is that of its own socket, though it was read from the
\* path and not from the listener: what it removes later depends on it.
IdentityIsOwn ==
  \A p \in Procs :
    pc[p] \in {"noted", "serving", "leaving", "removing", "closing"} =>
      listener[identity[p]] = p

\* "Simultaneous starts have one winner": two servers listen at the same time only if
\* the socket of one was renamed away (as long as no inode number comes twice).
OneWinner ==
  again = {} =>
    \A p, q \in Procs :
      p # q /\ Serving(p) /\ Serving(q) =>
        (SocketOf(p) \union SocketOf(q)) \intersect moved # {}

\* The socket of a server that is up leaves the path only when that server stops or
\* somebody renames it.
Kept(i) ==
  path = i /\ Open(i) /\ path' # i => i \in moved' \/ pc[listener[i]] = "removing"

\* Nothing another process does on its way in or out takes a live server's socket
\* away, as long as no inode number comes twice.
LiveSocketKept == [][again = {} => \A i \in Inodes : Kept(i)]_vars

================================================================================
