------------------------------- MODULE StateStore ------------------------------
(***************************************************************************)
(* The session snapshot on disk: state.json and state.json.last-good, the  *)
(* atomic writer both go through, and the processes that load and save     *)
(* them.  The application is registered NON_UNIQUE, so several processes   *)
(* may work on the same two files.                                         *)
(*                                                                         *)
(*   rust/model/src/persistence.rs  load_state_at_launch, save_state       *)
(*   rust/model/src/platform.rs     atomic_write_private                   *)
(*   rust/app/src/terminal.rs       persist_state_now, shutdown            *)
(*                                                                         *)
(* A file is what decode_snapshot makes of its bytes, and whether they     *)
(* have reached the disk.  Directory operations reach it in the order they *)
(* were made, at the latest when the directory is synced: `images` are the *)
(* directories a power failure may leave.  Any system call may fail.       *)
(***************************************************************************)
EXTENDS Naturals, FiniteSets

CONSTANTS
  Procs,                \* processes that may run
  MaxSnapshot,          \* bound of the model: how many session states there are
  MaxDamage,            \* bound of the model: how often files are damaged
  Absent,               \* no such file
  Corrupt,              \* bytes that are no snapshot
  Newer                 \* a snapshot of a later version, unreadable to this one

ASSUME SizeAssumption == MaxSnapshot \in Nat /\ MaxDamage \in Nat
ASSUME NamesAssumption ==
  /\ {Absent, Corrupt, Newer} \intersect (0 .. MaxSnapshot) = {}
  /\ Absent # Corrupt /\ Absent # Newer /\ Corrupt # Newer

Fresh     == 0                  \* the session of a first start
Snapshots == Fresh .. MaxSnapshot
Unusable  == {Corrupt, Newer}
Contents  == Snapshots \union Unusable \union {Absent}
Targets   == {"lastGood", "primary"}

VARIABLES
  dir,                  \* the two files, and whether a later version's was set aside
  images,               \* the directories a power failure may leave
  step,                 \* step[p]: where p stands in loading or saving
  memory,               \* memory[p]: the session state p would save
  mayWrite,             \* mayWrite[p]: state_may_write
  saved,                \* saved[p]: the last save_state returned Ok, nothing since
  target,               \* target[p]: the file p is replacing
  temp,                 \* temp[p]: the bytes p puts there, then its temporary file
  edits,                \* session states used so far
  damage,               \* files damaged or replaced by others so far
  overtaken,            \* history: the processes that were at work when a later
                        \* version last saved, and are since
  contested             \* history: two processes were at work at once, or damage was done

files    == <<dir, images>>
procVars == <<step, memory, mayWrite, saved, target, temp>>
vars     == <<files, procVars, edits, damage, overtaken, contested>>

File(data, synced) == [data |-> data, synced |-> synced]
NoFile == File(Absent, TRUE)

(***************************************************************************)
(* "off"        not running                                                *)
(* "linking"    unusable primary: about to hard-link it aside              *)
(* "unlinking"  linked, about to remove the primary                        *)
(* "recovering" about to read last-good                                    *)
(* "running"    the session is up                                          *)
(* "choosing"   saving; the primary is no snapshot, about to read last-good*)
(* "writing"    about to create and sync the temporary file for target     *)
(* "renaming"   about to rename it over target                             *)
(* "syncing"    about to sync the directory                                *)
(***************************************************************************)
Steps == {"off", "linking", "unlinking", "recovering", "running",
          "choosing", "writing", "renaming", "syncing"}

\* What a launch finds in directory d.
LoadOf(d) ==
  IF d.primary.data \in Snapshots THEN d.primary.data
  ELSE IF d.lastGood.data \in Snapshots THEN d.lastGood.data
  ELSE Fresh

\* What a power failure makes of directory d: bytes never synced are gone.
Survivor(f) == IF f.synced THEN f ELSE File(Corrupt, TRUE)
AfterLoss(d) ==
  [primary |-> Survivor(d.primary), lastGood |-> Survivor(d.lastGood), aside |-> d.aside]

\* Directory d with file f under the name t, and with its primary linked aside.
Placed(d, t, f) ==
  [primary  |-> IF t = "primary" THEN f ELSE d.primary,
   lastGood |-> IF t = "lastGood" THEN f ELSE d.lastGood,
   aside    |-> d.aside]
LinkedAside(d) ==
  [primary |-> d.primary, lastGood |-> d.lastGood, aside |-> d.aside \/ d.primary.data = Newer]

Init ==
  /\ dir = [primary |-> NoFile, lastGood |-> NoFile, aside |-> FALSE]
  /\ images = {dir}
  /\ step = [p \in Procs |-> "off"]
  /\ memory = [p \in Procs |-> Fresh]
  /\ mayWrite = [p \in Procs |-> FALSE]
  /\ saved = [p \in Procs |-> FALSE]
  /\ target = [p \in Procs |-> "primary"]
  /\ temp = [p \in Procs |-> NoFile]
  /\ edits = 0
  /\ damage = 0
  /\ overtaken = {}
  /\ contested = FALSE

\* A directory operation: visible at once, on disk some time later.
Directory(d) == dir' = d /\ images' = images \union {d}

AtWork == {p \in Procs : step[p] # "off"}

Goto(p, s) == step' = [step EXCEPT ![p] = s]

--------------------------------------------------------------------------------
(* Loading (load_state_at_launch). *)

\* A mistake LinkAside avoids: set_aside removes the primary without linking it.
RemoveOutright(p) ==
  /\ step[p] = "linking"
  /\ dir.primary.data # Absent
  /\ Directory(Placed(dir, "primary", NoFile))
  /\ Goto(p, "unlinking")
  /\ UNCHANGED <<memory, mayWrite, saved, target, temp, edits, damage>>

\* The session is up with what the primary holds.
LaunchLoaded(p) ==
  /\ step[p] = "off"
  /\ dir.primary.data \in Snapshots
  /\ memory' = [memory EXCEPT ![p] = dir.primary.data]
  /\ mayWrite' = [mayWrite EXCEPT ![p] = TRUE]
  /\ saved' = [saved EXCEPT ![p] = FALSE]
  /\ Goto(p, "running")
  /\ UNCHANGED <<files, target, temp, edits, damage>>

\* No primary, or it cannot be read: the session may write only in the first case.
LaunchWithout(p) ==
  /\ step[p] = "off"
  /\ \E readable \in BOOLEAN :
       /\ readable => dir.primary.data = Absent
       /\ mayWrite' = [mayWrite EXCEPT ![p] = readable]
  /\ saved' = [saved EXCEPT ![p] = FALSE]
  /\ Goto(p, "recovering")
  /\ UNCHANGED <<files, memory, target, temp, edits, damage>>

LaunchUnusable(p) ==
  /\ step[p] = "off"
  /\ dir.primary.data \in Unusable
  /\ saved' = [saved EXCEPT ![p] = FALSE]
  /\ Goto(p, "linking")
  /\ UNCHANGED <<files, memory, mayWrite, target, temp, edits, damage>>

\* set_aside, first half: link whatever is the primary now under another name.
LinkAside(p) ==
  /\ step[p] = "linking"
  /\ dir.primary.data # Absent
  /\ Directory(LinkedAside(dir))
  /\ Goto(p, "unlinking")
  /\ UNCHANGED <<memory, mayWrite, saved, target, temp, edits, damage>>

\* set_aside, second half: remove whatever is the primary now.
UnlinkPrimary(p) ==
  /\ step[p] = "unlinking"
  /\ dir.primary.data # Absent
  /\ Directory(Placed(dir, "primary", NoFile))
  /\ mayWrite' = [mayWrite EXCEPT ![p] = TRUE]
  /\ Goto(p, "recovering")
  /\ UNCHANGED <<memory, saved, target, temp, edits, damage>>

SetAsideFails(p) ==
  /\ step[p] \in {"linking", "unlinking"}
  /\ mayWrite' = [mayWrite EXCEPT ![p] = FALSE]
  /\ Goto(p, "recovering")
  /\ UNCHANGED <<files, memory, saved, target, temp, edits, damage>>

\* load_last_good; an unreadable last-good counts as none.
LoadLastGood(p) ==
  /\ step[p] = "recovering"
  /\ memory' = [memory EXCEPT ![p] =
                  IF dir.lastGood.data \in Snapshots THEN dir.lastGood.data ELSE Fresh]
  /\ Goto(p, "running")
  /\ UNCHANGED <<files, mayWrite, saved, target, temp, edits, damage>>

--------------------------------------------------------------------------------
(* The bytes go to file t next; the save is over.                          *)

WriteNext(p, t, data) ==
  /\ target' = [target EXCEPT ![p] = t]
  /\ temp' = [temp EXCEPT ![p] = File(data, FALSE)]
  /\ Goto(p, "writing")

SaveOver(p) ==
  /\ target' = [target EXCEPT ![p] = "primary"]
  /\ temp' = [temp EXCEPT ![p] = NoFile]
  /\ Goto(p, "running")

(* Mistakes that saving, below, avoids, to show which property notices. *)

\* BeginSave keeps the primary as last-good whatever it holds.
KeepAnyPrimary(p) ==
  /\ step[p] = "running" /\ mayWrite[p]
  /\ saved' = [saved EXCEPT ![p] = FALSE]
  /\ IF dir.primary.data # Absent
     THEN WriteNext(p, "lastGood", dir.primary.data)
     ELSE Goto(p, "choosing") /\ UNCHANGED <<target, temp>>
  /\ UNCHANGED <<files, memory, mayWrite, edits, damage>>

\* SyncDirectory returns without the sync.
SkipSync(p) ==
  /\ step[p] = "syncing"
  /\ IF target[p] = "lastGood"
     THEN WriteNext(p, "primary", memory[p]) /\ UNCHANGED saved
     ELSE SaveOver(p) /\ saved' = [saved EXCEPT ![p] = TRUE]
  /\ UNCHANGED <<files, memory, mayWrite, edits, damage>>

--------------------------------------------------------------------------------
(* The session, and saving it (persist_state_now, shutdown, save_state).   *)

Edit(p) ==
  /\ step[p] = "running"
  /\ edits < MaxSnapshot
  /\ edits' = edits + 1
  /\ memory' = [memory EXCEPT ![p] = edits + 1]
  /\ saved' = [saved EXCEPT ![p] = FALSE]
  /\ UNCHANGED <<files, step, mayWrite, target, temp, damage>>

\* A readable snapshot in the primary becomes the last-good one.
BeginSave(p) ==
  /\ step[p] = "running"
  /\ mayWrite[p]
  /\ saved' = [saved EXCEPT ![p] = FALSE]
  /\ IF dir.primary.data \in Snapshots
     THEN WriteNext(p, "lastGood", dir.primary.data)
     ELSE Goto(p, "choosing") /\ UNCHANGED <<target, temp>>
  /\ UNCHANGED <<files, memory, mayWrite, edits, damage>>

\* Otherwise the last-good file stays what it is, or becomes the new snapshot.
ChooseLastGood(p) ==
  /\ step[p] = "choosing"
  /\ WriteNext(p, "lastGood",
               IF dir.lastGood.data \in Snapshots THEN dir.lastGood.data ELSE memory[p])
  /\ UNCHANGED <<files, memory, mayWrite, saved, edits, damage>>

\* atomic_write_private: create, write and sync the temporary file.
WriteTemp(p) ==
  /\ step[p] = "writing"
  /\ temp' = [temp EXCEPT ![p] = File(temp[p].data, TRUE)]
  /\ Goto(p, "renaming")
  /\ UNCHANGED <<files, memory, mayWrite, saved, target, edits, damage>>

RenameTemp(p) ==
  /\ step[p] = "renaming"
  /\ Directory(Placed(dir, target[p], temp[p]))
  /\ temp' = [temp EXCEPT ![p] = NoFile]
  /\ Goto(p, "syncing")
  /\ UNCHANGED <<memory, mayWrite, saved, target, edits, damage>>

\* The directory is synced; after last-good comes the primary, after that Ok.
SyncDirectory(p) ==
  /\ step[p] = "syncing"
  /\ images' = {dir}
  /\ IF target[p] = "lastGood"
     THEN WriteNext(p, "primary", memory[p]) /\ UNCHANGED saved
     ELSE SaveOver(p) /\ saved' = [saved EXCEPT ![p] = TRUE]
  /\ UNCHANGED <<dir, memory, mayWrite, edits, damage>>

\* Any call of the save fails: the temporary file is removed, the session goes on.
SaveFails(p) ==
  /\ step[p] \in {"choosing", "writing", "renaming", "syncing"}
  /\ SaveOver(p)
  /\ UNCHANGED <<files, memory, mayWrite, saved, edits, damage>>

--------------------------------------------------------------------------------
(* What may happen to a process and to the machine. *)

\* Nothing of the processes in Q is left but their files.
End(Q) ==
  /\ step' = [p \in Procs |-> IF p \in Q THEN "off" ELSE step[p]]
  /\ memory' = [p \in Procs |-> IF p \in Q THEN Fresh ELSE memory[p]]
  /\ mayWrite' = [p \in Procs |-> mayWrite[p] /\ p \notin Q]
  /\ saved' = [p \in Procs |-> saved[p] /\ p \notin Q]
  /\ target' = [p \in Procs |-> IF p \in Q THEN "primary" ELSE target[p]]
  /\ temp' = [p \in Procs |-> IF p \in Q THEN NoFile ELSE temp[p]]

\* A process ends: after the save of shutdown, or killed anywhere.
Stop(p) ==
  /\ step[p] # "off"
  /\ End({p})
  /\ UNCHANGED <<files, edits, damage>>

PowerFails ==
  /\ \E d \in images : dir' = AfterLoss(d) /\ images' = {AfterLoss(d)}
  /\ End(Procs)
  /\ UNCHANGED <<edits, damage>>

\* Another program overwrites a file with bytes that are no snapshot.
DamageFile(f) ==
  /\ damage < MaxDamage
  /\ damage' = damage + 1
  /\ (IF f = "primary" THEN dir.primary ELSE dir.lastGood).data # Absent
  /\ dir' = Placed(dir, f, File(Corrupt, TRUE))
  /\ images' = {Placed(d, f, File(Corrupt, TRUE)) : d \in images}
  /\ saved' = [p \in Procs |-> FALSE]
  /\ UNCHANGED <<step, memory, mayWrite, target, temp, edits>>

\* A later version saves: it takes the place of the primary while whatever processes of
\* this version are at work.
LaterVersionSaves ==
  /\ damage < MaxDamage
  /\ damage' = damage + 1
  /\ dir' = Placed(dir, "primary", File(Newer, TRUE))
  /\ images' = {dir'}
  /\ saved' = [p \in Procs |-> FALSE]
  /\ overtaken' = AtWork
  /\ UNCHANGED <<step, memory, mayWrite, target, temp, edits>>

Launch(p) ==
  \/ LaunchLoaded(p) \/ LaunchWithout(p) \/ LaunchUnusable(p)
  \/ LinkAside(p) \/ UnlinkPrimary(p) \/ SetAsideFails(p)
  \/ LoadLastGood(p)

Save(p) ==
  \/ BeginSave(p) \/ ChooseLastGood(p)
  \/ WriteTemp(p) \/ RenameTemp(p) \/ SyncDirectory(p)
  \/ SaveFails(p)

Next ==
  /\ \/ /\ \/ \E p \in Procs : Launch(p) \/ Edit(p) \/ Save(p) \/ Stop(p)
           \/ PowerFails
           \/ \E f \in Targets : DamageFile(f)
        /\ overtaken' = overtaken \intersect AtWork'
     \/ LaterVersionSaves
  /\ contested' = (contested \/ damage' # damage \/ \E p, q \in AtWork' : p # q)

Spec == Init /\ [][Next]_vars

--------------------------------------------------------------------------------
\* The shape of the state.
Files == [data : Contents, synced : BOOLEAN]
Directories == [primary : Files, lastGood : Files, aside : BOOLEAN]

Shape ==
  /\ dir \in Directories
  /\ dir \in images /\ images \subseteq Directories
  /\ step \in [Procs -> Steps]
  /\ memory \in [Procs -> Snapshots]
  /\ mayWrite \in [Procs -> BOOLEAN]
  /\ saved \in [Procs -> BOOLEAN]
  /\ target \in [Procs -> Targets]
  /\ temp \in [Procs -> Files]
  /\ edits \in 0 .. MaxSnapshot
  /\ damage \in 0 .. MaxDamage

TypeOK == Shape /\ overtaken \subseteq AtWork /\ contested \in BOOLEAN

\* Directory d lets a launch find a snapshot.
Usable(d) == {d.primary.data, d.lastGood.data} \intersect Snapshots # {}
AllUsable == \A d \in images : Usable(AfterLoss(d))

\* Once a launch would find a snapshot, no step of any process, no crash and no power
\* failure changes that; only damage by somebody else can.  It needs the last-good file:
\* when that was damaged as well, a process that has found the primary unusable and is
\* about to set it aside may remove the good one another process has put there since.
LastGoodUsable == \A d \in images : AfterLoss(d).lastGood.data \in Snapshots
UsableForGood ==
  [][/\ AllUsable /\ (LastGoodUsable \/ damage <= 1)
     /\ damage' = damage
     => AllUsable']_vars

\* Directory d has the snapshot of a later version, under its own name or set aside.
HasNewer(d) == d.primary.data = Newer \/ d.aside
NewerLost == \E d \in images : ~ HasNewer(d)

\* Process p carries out the directory operation it is about to make.
Replaces(p) == step[p] \in {"unlinking", "renaming"} /\ step'[p] \notin {step[p], "off"}

\* A launch never costs a later version its snapshot: it sets the file aside, or the
\* session does not write.  Unless somebody else damages the file, the step that loses
\* it is one of a process that was launched before the file was written.
LaterVersionKept ==
  [][~ NewerLost /\ NewerLost' /\ damage' = damage
       => \E p \in overtaken : Replaces(p)]_vars

\* What the feature inventory says, without that exception: an unknown newer schema is
\* set aside rather than rewritten as the current version.  A process that was launched
\* before does rewrite it, with its next save.
LaterVersionNeverRewritten ==
  [][~ NewerLost /\ NewerLost' => damage' # damage]_vars

\* What saving promises to a process alone at its files, and to the launches after it:
\* the snapshots a launch may find, and the sessions that may save.
Stable   == {LoadOf(AfterLoss(d)) : d \in images}
Writable == [p \in Procs |->
              mayWrite[p] /\ step[p] \in {"running", "choosing", "writing", "renaming",
                                          "syncing"}]

Promise == INSTANCE SnapshotStore WITH
  stable <- Stable, session <- memory, writable <- Writable

PromiseSpec == Promise!Spec

================================================================================
