-------------------------------- MODULE SshLaunch ------------------------------
(***************************************************************************)
(* SSH profiles, the approval of what a profile resolves to, and the       *)
(* connections launched from them.                                         *)
(*                                                                         *)
(*   rust/model/src/ssh.rs     SshResolution, SshProfileStore              *)
(*   rust/app/src/ssh.rs       resolve_ssh_profile, disconnected_ssh_argv  *)
(*   rust/app/src/control.rs   control_ssh_action                          *)
(*   rust/app/src/terminal.rs  initialize, replace_ssh_surface,            *)
(*                             create_ssh_tab                              *)
(*                                                                         *)
(* Several processes may run, each with a copy of the profiles in memory   *)
(* and all with the same file.  A request resolves the profile with        *)
(* `ssh -G`, saves an approval when one is required and starts ssh, one    *)
(* after the other: `ssh -G` and the ssh that is started read the user's   *)
(* ssh_config each for itself, and it may have changed in between, as may  *)
(* the file.  The main loop waits for all of it, so a process does nothing *)
(* else meanwhile.  A fingerprint is a digest of what was resolved, here   *)
(* those fields themselves.  Names and times of profiles are left out, and *)
(* so are requests that fail before anything has changed.  The application *)
(* offers no way to create, update or delete a profile: the store does,    *)
(* and a user may edit the file.                                           *)
(***************************************************************************)
EXTENDS Naturals

CONSTANTS
  Procs,                \* processes
  Panes,                \* names for the panes of a process that hold an SSH surface
  Profiles,             \* profile identifiers
  Hosts,                \* host aliases
  Commands,             \* remote commands, "no command" being one
  Resolutions,          \* what `ssh -G` may say of a host
  External,             \* the ones with an externally listening forward
  None                  \* no profile, no fingerprint, no store, no request

Fingerprints == [host : Hosts, resolution : Resolutions, command : Commands]
Profile ==
  [host : Hosts, command : Commands, reviewed : Fingerprints \union {None}]
Documents == [Profiles -> Profile \union {None}]

ASSUME SshAssumption ==
  /\ External \subseteq Resolutions
  /\ None \notin Profiles /\ None \notin Fingerprints
  /\ None \notin Profile /\ None \notin Documents

(***************************************************************************)
(* "absent"   no file                                                      *)
(* "good"     a document that can be decoded                               *)
(* "bad"      malformed, of a later version, or invalid                    *)
(* "exposed"  a file that others may read                                  *)
(* "unsafe"   a link, not a file, or of another owner                      *)
(***************************************************************************)
Files == {"absent", "good", "bad", "exposed", "unsafe"}

VARIABLES
  config,               \* what the ssh_config says of each host
  disk,                 \* the profile file: which of Files it is
  onDisk,               \* what it holds when it is good
  up,                   \* the processes that run
  store,                \* store[p]: the document of p, None if it could not be opened
  surface,              \* surface[p][n]: the SSH surface in pane n of p
  request,              \* request[p]: the request p is carrying out, None without one
  agreed,               \* <<profile, fingerprint>> pairs some request has named
  handEdited            \* the profiles somebody has edited in the file itself

profileFile == <<disk, onDisk>>
history == <<agreed, handEdited>>
vars == <<config, profileFile, up, store, surface, request, history>>

Empty == [i \in Profiles |-> None]

(***************************************************************************)
(* A surface is "live" while ssh runs in it and "ended" otherwise.  For a  *)
(* live one the model notes what its profile was resolved to, the          *)
(* fingerprint the request had named, whether ssh_config changed for its   *)
(* host before ssh was started, and what ssh itself made of it.            *)
(***************************************************************************)
Idle(state, i) ==
  [state |-> state, profile |-> i, as |-> None, named |-> None, drifted |-> FALSE, ran |-> None]
NoSurface == Idle("none", None)
Ended(i)  == Idle("ended", i)

\* The started ssh reads the host's configuration as it is now.
Live(i, fp, named, drifted) ==
  [state |-> "live", profile |-> i, as |-> fp, named |-> named, drifted |-> drifted,
   ran |-> [fp EXCEPT !.resolution = config[fp.host]]]

Has(p, i) == p \in up /\ store[p] # None /\ store[p][i] # None

Init ==
  /\ config \in [Hosts -> Resolutions]
  /\ disk = "absent" /\ onDisk = Empty
  /\ up = {}
  /\ store = [p \in Procs |-> None]
  /\ surface = [p \in Procs |-> [n \in Panes |-> NoSurface]]
  /\ request = [p \in Procs |-> None]
  /\ agreed = {} /\ handEdited = {}

--------------------------------------------------------------------------------
(* Launch and end of a process. *)

\* SshProfileStore::open: what cannot be decoded is moved aside, unless that fails.
OpenStore(p) ==
  \/ /\ disk = "good"
     /\ store' = [store EXCEPT ![p] = onDisk] /\ UNCHANGED disk
  \/ /\ disk \in {"absent", "bad"}
     /\ store' = [store EXCEPT ![p] = Empty] /\ disk' = "absent"
  \/ /\ disk \in {"bad", "exposed", "unsafe"}
     /\ store' = [store EXCEPT ![p] = None] /\ UNCHANGED disk

\* spawn_restored_surface: a saved SSH pane comes back with a note, disconnected.
Restored(i) == IF i = None THEN NoSurface ELSE Ended(i)

\* initialize: which SSH panes the state file has is the subject of StateStore.  The
\* store is opened first.
Launch(p) ==
  /\ p \notin up /\ store[p] = None
  /\ OpenStore(p)
  /\ up' = up \union {p}
  /\ UNCHANGED <<config, onDisk, surface, request, history>>

RestoreSurfaces(p) ==
  /\ p \in up
  /\ \A n \in Panes : surface[p][n] = NoSurface
  /\ \E saved \in [Panes -> Profiles \union {None}] :
       surface' = [surface EXCEPT ![p] = [n \in Panes |-> Restored(saved[n])]]
  /\ UNCHANGED <<config, profileFile, up, store, request, history>>

\* The process ends, or is killed, and its sessions and the request with it.
End(p) ==
  /\ p \in up
  /\ up' = up \ {p}
  /\ store' = [store EXCEPT ![p] = None]
  /\ surface' = [surface EXCEPT ![p] = [n \in Panes |-> NoSurface]]
  /\ request' = [request EXCEPT ![p] = None]
  /\ UNCHANGED <<config, profileFile, history>>

--------------------------------------------------------------------------------
(* The store. *)

\* save_locked, then the assignment to the document in memory.  The whole document is
\* written, over whatever other processes wrote; a file that is unsafe is not replaced.
Saved(p, document) ==
  /\ disk # "unsafe"
  /\ disk' = "good" /\ onDisk' = document
  /\ store' = [store EXCEPT ![p] = document]

\* The directory could not be synced: the file is replaced, the memory is not.
HalfSaved(document) ==
  /\ disk # "unsafe"
  /\ disk' = "good" /\ onDisk' = document
  /\ UNCHANGED store

Stored(p, document) == Saved(p, document) \/ HalfSaved(document)

Create(p, i, host, command) ==
  /\ p \in up /\ store[p] # None /\ store[p][i] = None
  /\ Stored(p, [store[p] EXCEPT
                  ![i] = [host |-> host, command |-> command, reviewed |-> None]])
  /\ UNCHANGED <<config, up, surface, request, history>>

\* A mistake Updated avoids: the approval is kept when only the command changes.
UpdatedKeeping(profile, host, command) ==
  [host |-> host, command |-> command,
   reviewed |-> IF host = profile.host THEN profile.reviewed ELSE None]

\* update() clears the approval when what it was given for changes.
Updated(profile, host, command) ==
  [host |-> host, command |-> command,
   reviewed |-> IF host = profile.host /\ command = profile.command
                THEN profile.reviewed ELSE None]

Update(p, i, host, command) ==
  /\ Has(p, i)
  /\ Stored(p, [store[p] EXCEPT ![i] = Updated(store[p][i], host, command)])
  /\ UNCHANGED <<config, up, surface, request, history>>

Delete(p, i) ==
  /\ Has(p, i)
  /\ Stored(p, [store[p] EXCEPT ![i] = None])
  /\ UNCHANGED <<config, up, surface, request, history>>

--------------------------------------------------------------------------------
(* Requests: ssh.connect and ssh.reconnect. *)

\* resolve_ssh_profile: what `ssh -G` says of the profile now, and whether one of its
\* forwards listens externally.
Resolution(profile) == config[profile.host]
Exposed(profile)    == Resolution(profile) \in External

\* The fingerprint of review().
Fingerprint(profile) ==
  [host |-> profile.host, resolution |-> Resolution(profile), command |-> profile.command]

\* A mistake RequiresApproval avoids: one approval is enough for an external forward.
RequiresApprovalOnce(profile) == profile.reviewed # Fingerprint(profile)

RequiresApproval(profile) ==
  \/ Exposed(profile)
  \/ profile.reviewed # Fingerprint(profile)

\* A fingerprint that is not the one resolved now is stale; without one the review is
\* answered when an approval is required.
Proceeds(profile, named) ==
  /\ named \in {None, Fingerprint(profile)}
  /\ RequiresApproval(profile) => named = Fingerprint(profile)

\* What the request named is what its user agreed to, for good.
Agrees(i, named) ==
  agreed' = IF named = None THEN agreed ELSE agreed \union {<<i, named>>}

\* The request once the profile is resolved: what is still to be done, and for which
\* answer of `ssh -G`.
Pending(n, i, profile, named) ==
  [step |-> IF RequiresApproval(profile) THEN "approve" ELSE "start",
   pane |-> n, profile |-> i, as |-> Fingerprint(profile), named |-> named,
   drifted |-> FALSE]

Begins(p, n, i, named) ==
  /\ Has(p, i)
  /\ Proceeds(store[p][i], named)
  /\ request' = [request EXCEPT ![p] = Pending(n, i, store[p][i], named)]
  /\ Agrees(i, named)
  /\ UNCHANGED <<config, profileFile, up, store, surface, handEdited>>

Connect(p, n, i, named) ==
  /\ surface[p][n] = NoSurface
  /\ Begins(p, n, i, named)

\* "SSH pane is still connected" otherwise.
Reconnect(p, n, named) ==
  /\ surface[p][n].state = "ended"
  /\ Begins(p, n, surface[p][n].profile, named)

\* approve() stores the fingerprint and changes nothing else of the profile.
Reviewed(profile, fp) == [profile EXCEPT !.reviewed = fp]
Approving(p, i, fp) == [store[p] EXCEPT ![i] = Reviewed(store[p][i], fp)]

\* approve(), by the identifier alone.
Approve(p) ==
  LET r == request[p] IN
  /\ r # None /\ r.step = "approve"
  /\ Saved(p, Approving(p, r.profile, r.as))
  /\ request' = [request EXCEPT ![p].step = "start"]
  /\ UNCHANGED <<config, up, surface, history>>

\* The approval could not be saved: "store_failed".  The file may be replaced already.
ApprovalFails(p) ==
  LET r == request[p] IN
  /\ r # None /\ r.step = "approve"
  /\ HalfSaved(Approving(p, r.profile, r.as)) \/ UNCHANGED <<profileFile, store>>
  /\ request' = [request EXCEPT ![p] = None]
  /\ UNCHANGED <<config, up, surface, history>>

\* The tab or the replacement of the surface, or the failure to start it: the approval
\* stays then.
Start(p) ==
  LET r == request[p] IN
  /\ r # None /\ r.step = "start"
  /\ \/ surface' = [surface EXCEPT ![p][r.pane] = Live(r.profile, r.as, r.named, r.drifted)]
     \/ UNCHANGED surface
  /\ request' = [request EXCEPT ![p] = None]
  /\ UNCHANGED <<config, profileFile, up, store, history>>

--------------------------------------------------------------------------------
(* What goes on meanwhile. *)

\* ssh ends, and on_child_exit marks the surface as disconnected.
Disconnects(p, n) ==
  /\ surface[p][n].state = "live"
  /\ surface' = [surface EXCEPT ![p][n] = Ended(surface[p][n].profile)]
  /\ UNCHANGED <<config, profileFile, up, store, request, history>>

Closes(p, n) ==
  /\ surface[p][n].state # "none"
  /\ surface' = [surface EXCEPT ![p][n] = NoSurface]
  /\ UNCHANGED <<config, profileFile, up, store, request, history>>

ConfigChanges(h, r) ==
  /\ config[h] # r
  /\ config' = [config EXCEPT ![h] = r]
  /\ request' = [p \in Procs |-> IF request[p] # None /\ request[p].as.host = h
                                THEN [request[p] EXCEPT !.drifted = TRUE] ELSE request[p]]
  /\ UNCHANGED <<profileFile, up, store, surface, history>>

\* Somebody overwrites the profile file, removes it, opens it to others or puts a link
\* in its place.
FileDamaged(d) ==
  /\ disk' = d /\ disk # d
  /\ onDisk' = Empty
  /\ UNCHANGED <<config, up, store, surface, request, history>>

\* Somebody edits a profile in the file, or writes a new one.  The field with the
\* approval stays as it is.
FileEdited(i, host, command) ==
  /\ disk' = "good"
  /\ onDisk' = [onDisk EXCEPT
       ![i] = [host |-> host, command |-> command,
               reviewed |-> IF onDisk[i] = None THEN None ELSE onDisk[i].reviewed]]
  /\ onDisk' # onDisk
  /\ handEdited' = handEdited \union {i}
  /\ UNCHANGED <<config, up, store, surface, request, agreed>>

--------------------------------------------------------------------------------
\* What the main loop does when it is not busy with a request.
Turn(p) ==
  \/ RestoreSurfaces(p)
  \/ \E i \in Profiles :
       \/ Delete(p, i)
       \/ \E host \in Hosts, command \in Commands :
            Create(p, i, host, command) \/ Update(p, i, host, command)
  \/ \E n \in Panes, named \in Fingerprints \union {None} :
       \/ Reconnect(p, n, named)
       \/ \E i \in Profiles : Connect(p, n, i, named)
  \/ \E n \in Panes : Disconnects(p, n) \/ Closes(p, n)

Process(p) ==
  \/ Launch(p) \/ End(p)
  \/ Approve(p) \/ ApprovalFails(p) \/ Start(p)
  \/ request[p] = None /\ Turn(p)

Next ==
  \/ \E p \in Procs : Process(p)
  \/ \E h \in Hosts, r \in Resolutions : ConfigChanges(h, r)
  \/ \E d \in Files \ {"good"} : FileDamaged(d)
  \/ \E i \in Profiles, host \in Hosts, command \in Commands : FileEdited(i, host, command)

Spec == Init /\ [][Next]_vars

--------------------------------------------------------------------------------
(* Properties *)

Surface ==
  [state : {"none", "live", "ended"}, profile : Profiles \union {None},
   as : Fingerprints \union {None}, named : Fingerprints \union {None},
   drifted : BOOLEAN, ran : Fingerprints \union {None}]
Request ==
  [step : {"approve", "start"}, pane : Panes, profile : Profiles, as : Fingerprints,
   named : Fingerprints \union {None}, drifted : BOOLEAN]

TypeOK ==
  /\ config \in [Hosts -> Resolutions]
  /\ disk \in Files /\ onDisk \in Documents
  /\ up \in SUBSET Procs
  /\ store \in [Procs -> Documents \union {None}]
  /\ surface \in [Procs -> [Panes -> Surface]]
  /\ request \in [Procs -> Request \union {None}]
  /\ agreed \in SUBSET (Profiles \X Fingerprints)
  /\ handEdited \in SUBSET Profiles

\* Whatever becomes of the profile and the file before, during and after its request,
\* with approvals other processes stored and ones left from before an edit: a connection
\* runs only what a request had named for this profile, and one with an externally
\* listening forward only what its own request named.  That is so of the answer of
\* `ssh -G` it was started on; it is so of the ssh that runs unless ssh_config changed
\* between the two.
LaunchWasApproved ==
  \A p \in Procs, n \in Panes :
    LET s == surface[p][n] IN
    s.state = "live" =>
      /\ <<s.profile, s.as>> \in agreed
      /\ s.as.resolution \in External => s.named = s.as
      /\ s.ran = s.as \/ s.drifted

\* "Edits clear a prior approval": in the file and in every copy an approval is one of
\* the profile's present host and command, unless it was edited past the store, though
\* approve() is told the identifier only and every save writes a copy that may be old.
ApprovalsBelong(document, but) ==
  \A i \in Profiles \ but :
    LET profile == document[i] IN
    profile # None /\ profile.reviewed # None =>
      /\ profile.reviewed.host = profile.host
      /\ profile.reviewed.command = profile.command
EditsClearApproval ==
  /\ ApprovalsBelong(onDisk, handEdited)
  /\ \A p \in Procs : store[p] # None => ApprovalsBelong(store[p], handEdited)

================================================================================
