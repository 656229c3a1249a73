---------------------------- MODULE StateStoreProofs ---------------------------
(***************************************************************************)
(* Theorems about StateStore, for any number of processes, of session      *)
(* states and of damages.                                                  *)
(*                                                                         *)
(* UsableForGood rests on an account of the damage done.  While last-good  *)
(* was never damaged, a save has made it usable in every image before it   *)
(* touches the primary (LastGoodClean).  While the primary was not, nobody *)
(* sets it aside (PrimaryClean).  One damage breaks only one of the two.   *)
(* LaterVersionKept rests on state_may_write: while the only copy of a     *)
(* later version's snapshot is the primary, no process may write that was  *)
(* launched since (NewerInv).  PromiseSpec rests on what a process alone   *)
(* at the files finds between its own steps (SoloInv).                     *)
(***************************************************************************)
EXTENDS StateStore, TLAPS

\* Every file of every image has reached the disk: a file is renamed into place only
\* after it was synced.
Synced == \A d \in images : d.primary.synced = TRUE /\ d.lastGood.synced = TRUE

\* What is about to be renamed into place is a snapshot.
TempInv ==
  \A p \in Procs :
    /\ step[p] \in {"writing", "renaming"} => temp[p].data \in Snapshots
    /\ step[p] = "renaming" => temp[p].synced = TRUE

LastGoodClean ==
  /\ \A d \in images :
       /\ d.lastGood.data \in Snapshots \union {Absent}
       /\ d.primary.data \in Snapshots => d.lastGood.data \in Snapshots
  /\ \A p \in Procs :
       /\ target[p] = "primary" /\ step[p] \in {"writing", "renaming"} =>
            \A d \in images : d.lastGood.data \in Snapshots
       /\ target[p] = "lastGood" /\ step[p] = "syncing" => dir.lastGood.data \in Snapshots

PrimaryClean ==
  /\ \A d \in images : d.primary.data \in Snapshots \union {Absent}
  /\ \A p \in Procs : step[p] \notin {"linking", "unlinking"}

DamageInv ==
  /\ damage = 0 => LastGoodClean /\ PrimaryClean
  /\ damage = 1 => LastGoodClean \/ PrimaryClean

\* A process may write only once it has loaded, and saves only if it may.
WriteInv ==
  \A p \in Procs :
    /\ step[p] \in {"off", "linking", "unlinking"} => mayWrite[p] = FALSE
    /\ step[p] \in {"choosing", "writing", "renaming", "syncing"} => mayWrite[p] = TRUE

\* A later version's snapshot that nobody has linked aside yet.
NewerInv ==
  dir.primary.data = Newer /\ ~ dir.aside =>
    \A p \in Procs \ overtaken : mayWrite[p] = FALSE /\ step[p] # "unlinking"

HistoryOK == overtaken \subseteq AtWork /\ contested \in BOOLEAN

IInv == Shape /\ HistoryOK /\ Synced /\ TempInv /\ DamageInv /\ WriteInv /\ NewerInv

--------------------------------------------------------------------------------
(* Files and directories. *)

LEMMA Names ==
  /\ Absent \notin Snapshots /\ Corrupt \notin Snapshots /\ Newer \notin Snapshots
  /\ Absent # Corrupt /\ Absent # Newer /\ Corrupt # Newer
  /\ Fresh \in Snapshots /\ Snapshots \subseteq Contents
  /\ Absent \in Contents /\ Corrupt \in Contents /\ Newer \in Contents
  BY SizeAssumption, NamesAssumption DEF Snapshots, Fresh, Contents, Unusable

LEMMA FileFields ==
  ASSUME NEW data
  PROVE  /\ File(data, TRUE).data = data /\ File(data, TRUE).synced = TRUE
         /\ File(data, FALSE).data = data
         /\ data \in Contents => File(data, TRUE) \in Files /\ File(data, FALSE) \in Files
  BY DEF File, Files

LEMMA PlacedFields ==
  ASSUME NEW d, NEW f, NEW t \in Targets
  PROVE  /\ Placed(d, t, f).primary = IF t = "primary" THEN f ELSE d.primary
         /\ Placed(d, t, f).lastGood = IF t = "lastGood" THEN f ELSE d.lastGood
         /\ Placed(d, t, f).aside = d.aside
         /\ d \in Directories /\ f \in Files => Placed(d, t, f) \in Directories
  BY DEF Placed, Directories, Targets

LEMMA LinkedFields ==
  ASSUME NEW d
  PROVE  /\ LinkedAside(d).primary = d.primary /\ LinkedAside(d).lastGood = d.lastGood
         /\ LinkedAside(d).aside = (d.aside \/ d.primary.data = Newer)
         /\ d \in Directories => LinkedAside(d) \in Directories
  BY DEF LinkedAside, Directories, Files

\* A directory of synced files survives a power failure as it is.
LEMMA LossFields ==
  ASSUME NEW d, d.primary.synced = TRUE, d.lastGood.synced = TRUE
  PROVE  /\ AfterLoss(d).primary = d.primary /\ AfterLoss(d).lastGood = d.lastGood
         /\ AfterLoss(d).aside = d.aside
         /\ d \in Directories => AfterLoss(d) \in Directories
  BY DEF AfterLoss, Survivor, Directories

--------------------------------------------------------------------------------
LEMMA Initially == Init => IInv
<1> SUFFICES ASSUME Init PROVE IInv
  OBVIOUS
<1>1. /\ dir \in Directories /\ images = {dir}
      /\ dir.primary = NoFile /\ dir.lastGood = NoFile /\ dir.aside = FALSE
      /\ NoFile \in Files /\ NoFile.data = Absent /\ NoFile.synced = TRUE
  BY Names, FileFields DEF Init, Directories, NoFile
<1>2. Shape
  BY <1>1, Names, SizeAssumption DEF Init, Shape, Steps, Targets
<1>3. LastGoodClean /\ PrimaryClean
  BY <1>1, Names DEF Init, LastGoodClean, PrimaryClean
<1>4. Synced /\ TempInv /\ WriteInv /\ NewerInv
  BY <1>1, Names DEF Init, Synced, TempInv, WriteInv, NewerInv
<1>5. HistoryOK
  BY DEF Init, HistoryOK
<1>6. QED
  BY <1>2, <1>3, <1>4, <1>5 DEF IInv, DamageInv

--------------------------------------------------------------------------------
(* What an action does to the files; the shape of the state. *)

\* A directory operation adds one image, made of the directory the processes see.
LEMMA DirectoryTyped ==
  ASSUME Shape, NEW d \in Directories, Directory(d)
  PROVE  dir' \in Directories /\ dir' \in images' /\ images' \subseteq Directories
  BY DEF Shape, Directory

LEMMA EndTyped ==
  ASSUME Shape, NEW Q \in SUBSET Procs, End(Q)
  PROVE  /\ step' \in [Procs -> Steps] /\ memory' \in [Procs -> Snapshots]
         /\ mayWrite' \in [Procs -> BOOLEAN] /\ saved' \in [Procs -> BOOLEAN]
         /\ target' \in [Procs -> Targets] /\ temp' \in [Procs -> Files]
<1>1. NoFile \in Files
  BY Names, FileFields DEF NoFile
<1>2. step' \in [Procs -> Steps] /\ memory' \in [Procs -> Snapshots]
  BY Names DEF Shape, End, Steps
<1>3. mayWrite' \in [Procs -> BOOLEAN] /\ saved' \in [Procs -> BOOLEAN]
  BY DEF End
<1>4. target' \in [Procs -> Targets] /\ temp' \in [Procs -> Files]
  BY <1>1 DEF Shape, End, Targets
<1>5. QED
  BY <1>2, <1>3, <1>4

LEMMA WriteNextTyped ==
  ASSUME Shape, NEW p \in Procs, NEW t \in Targets, NEW data \in Snapshots,
         WriteNext(p, t, data)
  PROVE  /\ step' \in [Procs -> Steps] /\ target' \in [Procs -> Targets]
         /\ temp' \in [Procs -> Files]
<1>1. File(data, FALSE) \in Files
  BY Names, FileFields
<1>2. QED
  BY <1>1 DEF Shape, WriteNext, Goto, Steps

LEMMA SaveOverTyped ==
  ASSUME Shape, NEW p \in Procs, SaveOver(p)
  PROVE  /\ step' \in [Procs -> Steps] /\ target' \in [Procs -> Targets]
         /\ temp' \in [Procs -> Files]
<1>1. NoFile \in Files
  BY Names, FileFields DEF NoFile
<1>2. QED
  BY <1>1 DEF Shape, SaveOver, Goto, Steps, Targets

LEMMA LaunchTyped ==
  ASSUME Shape, NEW p \in Procs, Launch(p)
  PROVE  Shape'
<1>1. CASE LaunchLoaded(p)
  BY <1>1 DEF LaunchLoaded, Shape, Goto, Steps, files
<1>2. CASE LaunchWithout(p)
  BY <1>2 DEF LaunchWithout, Shape, Goto, Steps, files
<1>3. CASE LaunchUnusable(p)
  BY <1>3 DEF LaunchUnusable, Shape, Goto, Steps, files
<1>4. CASE LinkAside(p)
  <2>1. dir' \in Directories /\ dir' \in images' /\ images' \subseteq Directories
    BY <1>4, DirectoryTyped, LinkedFields DEF LinkAside, Shape
  <2>2. QED
    BY <1>4, <2>1 DEF LinkAside, Shape, Goto, Steps
<1>5. CASE UnlinkPrimary(p)
  <2>1. Placed(dir, "primary", NoFile) \in Directories
    BY Names, FileFields, PlacedFields DEF NoFile, Targets, Shape
  <2>2. dir' \in Directories /\ dir' \in images' /\ images' \subseteq Directories
    BY <1>5, <2>1, DirectoryTyped DEF UnlinkPrimary
  <2>3. QED
    BY <1>5, <2>2 DEF UnlinkPrimary, Shape, Goto, Steps
<1>6. CASE SetAsideFails(p)
  BY <1>6 DEF SetAsideFails, Shape, Goto, Steps, files
<1>7. CASE LoadLastGood(p)
  BY <1>7, Names DEF LoadLastGood, Shape, Goto, Steps, files
<1>8. QED
  BY <1>1, <1>2, <1>3, <1>4, <1>5, <1>6, <1>7 DEF Launch

LEMMA SaveTyped ==
  ASSUME Shape, TempInv, NEW p \in Procs, Save(p)
  PROVE  Shape'
<1>1. CASE BeginSave(p)
  <2>1. CASE dir.primary.data \in Snapshots
    BY <1>1, <2>1, WriteNextTyped DEF BeginSave, Shape, files, Targets
  <2>2. CASE dir.primary.data \notin Snapshots
    BY <1>1, <2>2 DEF BeginSave, Shape, Goto, Steps, files
  <2>3. QED
    BY <2>1, <2>2
<1>2. CASE ChooseLastGood(p)
  <2>1. (IF dir.lastGood.data \in Snapshots THEN dir.lastGood.data ELSE memory[p]) \in Snapshots
    BY DEF Shape
  <2>2. "lastGood" \in Targets
    BY DEF Targets
  <2>3. QED
    BY <1>2, <2>1, <2>2, WriteNextTyped DEF ChooseLastGood, Shape, files
<1>3. CASE WriteTemp(p)
  <2>1. File(temp[p].data, TRUE) \in Files
    BY <1>3, Names, FileFields DEF TempInv, WriteTemp
  <2>2. QED
    BY <1>3, <2>1 DEF WriteTemp, Shape, Goto, Steps, files
<1>4. CASE RenameTemp(p)
  <2>1. Placed(dir, target[p], temp[p]) \in Directories
    BY PlacedFields DEF Shape
  <2>2. dir' \in Directories /\ dir' \in images' /\ images' \subseteq Directories
    BY <1>4, <2>1, DirectoryTyped DEF RenameTemp
  <2>3. NoFile \in Files
    BY Names, FileFields DEF NoFile
  <2>4. QED
    BY <1>4, <2>2, <2>3 DEF RenameTemp, Shape, Goto, Steps
<1>5. CASE SyncDirectory(p)
  <2>1. dir' \in Directories /\ dir' \in images' /\ images' \subseteq Directories
    BY <1>5 DEF SyncDirectory, Shape
  <2>2. CASE target[p] = "lastGood"
    <3>1. memory[p] \in Snapshots /\ "primary" \in Targets
      BY DEF Shape, Targets
    <3>2. QED
      BY <1>5, <2>1, <2>2, <3>1, WriteNextTyped DEF SyncDirectory, Shape
  <2>3. CASE target[p] # "lastGood"
    BY <1>5, <2>1, <2>3, SaveOverTyped DEF SyncDirectory, Shape
  <2>4. QED
    BY <2>2, <2>3
<1>6. CASE SaveFails(p)
  BY <1>6, SaveOverTyped DEF SaveFails, Shape, files
<1>7. QED
  BY <1>1, <1>2, <1>3, <1>4, <1>5, <1>6 DEF Save

\* What another program does to the files; PowerFails leaves one image that was there.
LEMMA DamageTyped ==
  ASSUME Shape, NEW f \in Targets, DamageFile(f)
  PROVE  Shape'
<1>1. File(Corrupt, TRUE) \in Files
  BY Names, FileFields
<1>2. \A d \in Directories : Placed(d, f, File(Corrupt, TRUE)) \in Directories
  BY <1>1, PlacedFields
<1>3. dir' \in Directories /\ dir' \in images' /\ images' \subseteq Directories
  BY <1>2 DEF DamageFile, Shape
<1>4. damage' \in 0 .. MaxDamage
  BY SizeAssumption DEF DamageFile, Shape
<1>5. QED
  BY <1>3, <1>4 DEF DamageFile, Shape

LEMMA LaterTyped ==
  ASSUME Shape, LaterVersionSaves
  PROVE  Shape'
<1>1. Placed(dir, "primary", File(Newer, TRUE)) \in Directories
  BY Names, FileFields, PlacedFields DEF Shape, Targets
<1>2. damage' \in 0 .. MaxDamage
  BY SizeAssumption DEF LaterVersionSaves, Shape
<1>3. QED
  BY <1>1, <1>2 DEF LaterVersionSaves, Shape

LEMMA PowerTyped ==
  ASSUME Shape, Synced, PowerFails
  PROVE  Shape'
<1>1. dir' \in Directories /\ dir' \in images' /\ images' \subseteq Directories
  BY LossFields DEF PowerFails, Shape, Synced
<1>2. QED
  BY <1>1, EndTyped DEF PowerFails, Shape

LEMMA StepTyped ==
  ASSUME Shape, Synced, TempInv, [Next]_vars
  PROVE  Shape'
<1>1. ASSUME NEW p \in Procs, Edit(p) PROVE Shape'
  BY <1>1, SizeAssumption DEF Edit, Shape, Snapshots, Fresh, files
<1>2. ASSUME NEW p \in Procs, Stop(p) PROVE Shape'
  BY <1>2, EndTyped DEF Stop, Shape, files
<1>3. CASE UNCHANGED vars
  BY <1>3 DEF vars, files, procVars, Shape
<1>4. QED
  BY <1>1, <1>2, <1>3, LaunchTyped, SaveTyped, DamageTyped, LaterTyped, PowerTyped DEF Next

--------------------------------------------------------------------------------
(* The parts of the invariant, step by step. *)

\* The steps that leave the files as they are.
Quiet(p) ==
  \/ LaunchLoaded(p) \/ LaunchWithout(p) \/ LaunchUnusable(p) \/ SetAsideFails(p)
  \/ LoadLastGood(p) \/ Edit(p) \/ BeginSave(p) \/ ChooseLastGood(p) \/ WriteTemp(p)
  \/ SaveFails(p) \/ Stop(p)

\* The steps of the processes and a power failure: all but what other programs do.
Own ==
  \/ \E p \in Procs : Launch(p) \/ Edit(p) \/ Save(p) \/ Stop(p)
  \/ PowerFails
  \/ UNCHANGED vars

LEMMA OwnOrDamage ==
  ASSUME [Next]_vars
  PROVE  Own \/ DamageFile("primary") \/ DamageFile("lastGood") \/ LaterVersionSaves
  BY DEF Next, Own, Targets

LEMMA QuietFiles ==
  ASSUME NEW p \in Procs, Quiet(p)
  PROVE  dir' = dir /\ images' = images /\ damage' = damage
  BY DEF Quiet, LaunchLoaded, LaunchWithout, LaunchUnusable, SetAsideFails, LoadLastGood,
         Edit, BeginSave, ChooseLastGood, WriteTemp, SaveFails, Stop, files

LEMMA SyncedStep ==
  ASSUME IInv, [Next]_vars
  PROVE  Synced'
<1>1. dir \in images /\ dir.primary.synced = TRUE /\ dir.lastGood.synced = TRUE
  BY DEF IInv, Shape, Synced
<1>2. ASSUME NEW p \in Procs, Quiet(p) PROVE Synced'
  BY <1>2, QuietFiles DEF IInv, Synced
<1>3. ASSUME NEW p \in Procs, LinkAside(p) PROVE Synced'
  BY <1>1, <1>3, LinkedFields DEF IInv, Synced, LinkAside, Directory
<1>4. ASSUME NEW p \in Procs, UnlinkPrimary(p) PROVE Synced'
  <2>1. "primary" \in Targets /\ NoFile.synced = TRUE
    BY FileFields DEF Targets, NoFile
  <2>2. QED
    BY <1>1, <1>4, <2>1, PlacedFields DEF IInv, Synced, UnlinkPrimary, Directory
<1>5. ASSUME NEW p \in Procs, RenameTemp(p) PROVE Synced'
  <2>1. target[p] \in Targets /\ temp[p].synced = TRUE
    BY <1>5 DEF IInv, Shape, TempInv, RenameTemp
  <2>2. QED
    BY <1>1, <1>5, <2>1, PlacedFields DEF IInv, Synced, RenameTemp, Directory
<1>6. ASSUME NEW p \in Procs, SyncDirectory(p) PROVE Synced'
  BY <1>1, <1>6 DEF Synced, SyncDirectory
<1>7. CASE PowerFails
  BY <1>7, LossFields DEF IInv, Synced, PowerFails
<1>8. ASSUME NEW f \in Targets, DamageFile(f) PROVE Synced'
  <2> DEFINE bad == File(Corrupt, TRUE)
  <2>1. bad.synced = TRUE
    BY FileFields
  <2>2. images' = {Placed(d, f, bad) : d \in images}
    BY <1>8 DEF DamageFile
  <2> HIDE DEF bad
  <2>3. \A d \in images : /\ Placed(d, f, bad).primary.synced = TRUE
                         /\ Placed(d, f, bad).lastGood.synced = TRUE
    BY <2>1, PlacedFields DEF IInv, Synced
  <2>4. QED
    BY <2>2, <2>3 DEF Synced
<1>9. CASE LaterVersionSaves
  <2> DEFINE later == File(Newer, TRUE)
  <2>1. later.synced = TRUE
    BY FileFields
  <2>2. dir' = Placed(dir, "primary", later) /\ images' = {dir'} /\ "primary" \in Targets
    BY <1>9 DEF LaterVersionSaves, Targets
  <2> HIDE DEF later
  <2>3. QED
    BY <1>1, <2>1, <2>2, PlacedFields DEF Synced
<1>10. CASE UNCHANGED vars
  BY <1>10 DEF vars, files, IInv, Synced
<1>11. QED
  BY <1>2, <1>3, <1>4, <1>5, <1>6, <1>7, <1>8, <1>9, <1>10 DEF Next, Launch, Save, Quiet

LEMMA TempStep ==
  ASSUME IInv, [Next]_vars
  PROVE  TempInv'
<1>1. step \in [Procs -> Steps] /\ temp \in [Procs -> Files] /\ memory \in [Procs -> Snapshots]
      /\ target \in [Procs -> Targets]
  BY DEF IInv, Shape
<1>2. ASSUME NEW p \in Procs, Launch(p) \/ Edit(p) PROVE TempInv'
  BY <1>1, <1>2 DEF IInv, TempInv, Launch, Edit, LaunchLoaded, LaunchWithout, LaunchUnusable,
     LinkAside, UnlinkPrimary, SetAsideFails, LoadLastGood, Goto
<1>3. ASSUME NEW p \in Procs, NEW t, NEW data \in Snapshots, WriteNext(p, t, data)
      PROVE TempInv'
  BY <1>1, <1>3, FileFields DEF IInv, TempInv, WriteNext, Goto
<1>4. ASSUME NEW p \in Procs, SaveOver(p) PROVE TempInv'
  BY <1>1, <1>4 DEF IInv, TempInv, SaveOver, Goto
<1>5. ASSUME NEW p \in Procs, Save(p) PROVE TempInv'
  <2>1. CASE BeginSave(p)
    <3>1. CASE dir.primary.data \in Snapshots
      BY <1>3, <2>1, <3>1 DEF BeginSave
    <3>2. CASE dir.primary.data \notin Snapshots
      BY <1>1, <2>1, <3>2 DEF BeginSave, IInv, TempInv, Goto
    <3>3. QED
      BY <3>1, <3>2
  <2>2. CASE ChooseLastGood(p)
    <3>1. (IF dir.lastGood.data \in Snapshots THEN dir.lastGood.data ELSE memory[p])
            \in Snapshots
      BY <1>1
    <3>2. QED
      BY <1>3, <2>2, <3>1 DEF ChooseLastGood
  <2>3. CASE WriteTemp(p)
    BY <1>1, <2>3, FileFields DEF WriteTemp, IInv, TempInv, Goto
  <2>4. CASE RenameTemp(p)
    BY <1>1, <2>4 DEF RenameTemp, IInv, TempInv, Goto
  <2>5. CASE SyncDirectory(p)
    BY <1>1, <1>3, <1>4, <2>5 DEF SyncDirectory
  <2>6. CASE SaveFails(p)
    BY <1>4, <2>6 DEF SaveFails
  <2>7. QED
    BY <1>5, <2>1, <2>2, <2>3, <2>4, <2>5, <2>6 DEF Save
<1>6. ASSUME NEW Q \in SUBSET Procs, End(Q) PROVE TempInv'
  BY <1>1, <1>6 DEF End, IInv, TempInv
<1>7. ASSUME NEW p \in Procs, Stop(p) PROVE TempInv'
  BY <1>6, <1>7 DEF Stop
<1>8. CASE PowerFails
  BY <1>6, <1>8 DEF PowerFails
<1>9. ASSUME UNCHANGED <<step, temp>> PROVE TempInv'
  BY <1>9 DEF IInv, TempInv
<1>10. (\E f \in Targets : DamageFile(f)) \/ LaterVersionSaves \/ UNCHANGED vars
          => UNCHANGED <<step, temp>>
  BY DEF DamageFile, LaterVersionSaves, vars, procVars
<1>11. QED
  BY <1>2, <1>5, <1>7, <1>8, <1>9, <1>10 DEF Next

\* What the quiet steps do to where the processes stand.
LEMMA QuietSteps ==
  ASSUME Shape, NEW p \in Procs, Quiet(p)
  PROVE  /\ \A q \in Procs \ {p} : step'[q] = step[q] /\ target'[q] = target[q]
         /\ \/ step'[p] \in {"off", "linking", "recovering", "running", "choosing"}
            \/ step'[p] = "writing" /\ target'[p] = "lastGood"
            \/ step[p] = "writing" /\ step'[p] = "renaming" /\ target'[p] = target[p]
         /\ step'[p] = "linking" => dir.primary.data \in Unusable
  BY ZenonT(40) DEF Quiet, LaunchLoaded, LaunchWithout, LaunchUnusable, SetAsideFails, LoadLastGood,
         Edit, BeginSave, ChooseLastGood, WriteTemp, SaveFails, Stop, End, WriteNext,
         SaveOver, Goto, Shape

LEMMA LastGoodStep ==
  ASSUME IInv, LastGoodClean, Own \/ DamageFile("primary") \/ LaterVersionSaves
  PROVE  LastGoodClean'
<1>1. /\ step \in [Procs -> Steps] /\ target \in [Procs -> Targets] /\ dir \in images
      /\ "primary" \in Targets /\ "lastGood" \in Targets
  BY DEF IInv, Shape, Targets
<1>2. ASSUME NEW p \in Procs, Quiet(p) PROVE LastGoodClean'
  <2>1. dir' = dir /\ images' = images
    BY <1>2, QuietFiles
  <2>2. Shape
    BY DEF IInv
  <2>3. QED
    BY <1>2, <2>1, <2>2, QuietSteps DEF LastGoodClean
<1>3. ASSUME NEW p \in Procs, LinkAside(p) PROVE LastGoodClean'
  <2>1. dir' = LinkedAside(dir) /\ images' = images \union {LinkedAside(dir)}
        /\ step' = [step EXCEPT ![p] = "unlinking"] /\ target' = target
    BY <1>3 DEF LinkAside, Directory, Goto
  <2>2. LinkedAside(dir).primary = dir.primary /\ LinkedAside(dir).lastGood = dir.lastGood
    BY LinkedFields
  <2>3. QED
    BY <1>1, <2>1, <2>2 DEF LastGoodClean
<1>4. ASSUME NEW p \in Procs, UnlinkPrimary(p) PROVE LastGoodClean'
  <2> DEFINE new == Placed(dir, "primary", NoFile)
  <2>1. dir' = new /\ images' = images \union {new}
        /\ step' = [step EXCEPT ![p] = "recovering"] /\ target' = target
    BY <1>4 DEF UnlinkPrimary, Directory, Goto
  <2>2. new.primary = NoFile /\ NoFile.data = Absent /\ new.lastGood = dir.lastGood
    <3>1. NoFile.data = Absent
      BY FileFields DEF NoFile
    <3>2. QED
      BY <1>1, <3>1, PlacedFields
  <2> HIDE DEF new
  <2>3. QED
    BY <1>1, <2>1, <2>2, Names DEF LastGoodClean
<1>5. ASSUME NEW p \in Procs, RenameTemp(p) PROVE LastGoodClean'
  <2> DEFINE new == Placed(dir, target[p], temp[p])
  <2>1. dir' = new /\ images' = images \union {new} /\ step[p] = "renaming"
        /\ step' = [step EXCEPT ![p] = "syncing"] /\ target' = target
    BY <1>5 DEF RenameTemp, Directory, Goto
  <2>2. temp[p].data \in Snapshots
    BY <2>1 DEF IInv, TempInv
  <2>3. /\ target[p] = "primary" => new.lastGood = dir.lastGood /\ new.primary = temp[p]
        /\ target[p] = "lastGood" => new.lastGood = temp[p] /\ new.primary = dir.primary
        /\ target[p] \in {"primary", "lastGood"}
    BY <1>1, PlacedFields DEF Targets
  <2> HIDE DEF new
  <2>4. CASE target[p] = "primary"
    <3>1. \A d \in images : d.lastGood.data \in Snapshots
      BY <2>1, <2>4 DEF LastGoodClean
    <3>2. QED
      BY <1>1, <2>1, <2>3, <2>4, <3>1 DEF LastGoodClean
  <2>5. CASE target[p] = "lastGood"
    BY <1>1, <2>1, <2>2, <2>3, <2>5 DEF LastGoodClean
  <2>6. QED
    BY <2>3, <2>4, <2>5
<1>6. ASSUME NEW p \in Procs, SyncDirectory(p) PROVE LastGoodClean'
  <2>1. step[p] = "syncing" /\ dir' = dir /\ images' = {dir}
    BY <1>6 DEF SyncDirectory
  <2>2. /\ \A q \in Procs \ {p} : step'[q] = step[q] /\ target'[q] = target[q]
        /\ \/ target[p] = "lastGood" /\ step'[p] = "writing" /\ target'[p] = "primary"
           \/ step'[p] = "running"
    BY <1>1, <1>6 DEF SyncDirectory, WriteNext, SaveOver, Goto
  <2>3. target[p] = "lastGood" => dir.lastGood.data \in Snapshots
    BY <2>1 DEF LastGoodClean
  <2>4. QED
    BY <1>1, <2>1, <2>2, <2>3 DEF LastGoodClean
<1>7. CASE PowerFails
  <2>1. PICK d \in images : dir' = AfterLoss(d) /\ images' = {AfterLoss(d)}
    BY <1>7 DEF PowerFails
  <2>2. AfterLoss(d).primary = d.primary /\ AfterLoss(d).lastGood = d.lastGood
    BY LossFields DEF IInv, Synced
  <2>3. \A p \in Procs : step'[p] = "off"
    BY <1>7 DEF PowerFails, End
  <2>4. QED
    BY <2>1, <2>2, <2>3 DEF LastGoodClean
<1>8. CASE DamageFile("primary")
  <2> DEFINE bad == File(Corrupt, TRUE)
  <2>1. images' = {Placed(d, "primary", bad) : d \in images} /\ dir' = Placed(dir, "primary", bad)
        /\ step' = step /\ target' = target /\ bad.data = Corrupt
    BY <1>8, FileFields DEF DamageFile
  <2> HIDE DEF bad
  <2>2. \A d : Placed(d, "primary", bad).primary = bad /\ Placed(d, "primary", bad).lastGood = d.lastGood
    BY <1>1, PlacedFields
  <2>3. QED
    BY <1>1, <2>1, <2>2, Names DEF LastGoodClean
<1>9. CASE LaterVersionSaves
  <2> DEFINE later == File(Newer, TRUE)
             new   == Placed(dir, "primary", later)
  <2>1. images' = {new} /\ dir' = new /\ step' = step /\ target' = target
    BY <1>9 DEF LaterVersionSaves
  <2>2. new.primary = later /\ later.data = Newer /\ new.lastGood = dir.lastGood
    <3>1. later.data = Newer
      BY FileFields
    <3> HIDE DEF later
    <3>2. QED
      BY <1>1, <3>1, PlacedFields
  <2> HIDE DEF new
  <2>3. QED
    BY <1>1, <2>1, <2>2, Names DEF LastGoodClean
<1>10. CASE UNCHANGED vars
  BY <1>10 DEF vars, files, procVars, LastGoodClean
<1>11. QED
  BY <1>2, <1>3, <1>4, <1>5, <1>6, <1>7, <1>8, <1>9, <1>10 DEF Own, Launch, Save, Quiet

LEMMA PrimaryStep ==
  ASSUME IInv, PrimaryClean, Own \/ DamageFile("lastGood")
  PROVE  PrimaryClean'
<1>1. /\ step \in [Procs -> Steps] /\ target \in [Procs -> Targets] /\ dir \in images
      /\ "primary" \in Targets /\ "lastGood" \in Targets
  BY DEF IInv, Shape, Targets
<1>2. ASSUME NEW p \in Procs, Quiet(p) PROVE PrimaryClean'
  <2>1. dir' = dir /\ images' = images
    BY <1>2, QuietFiles
  <2>2. Shape
    BY DEF IInv
  <2>3. dir.primary.data \notin Unusable
    BY <1>1, Names DEF PrimaryClean, Unusable
  <2>4. QED
    BY <1>2, <2>1, <2>2, <2>3, QuietSteps DEF PrimaryClean
<1>3. ASSUME NEW p \in Procs, LinkAside(p) \/ UnlinkPrimary(p) PROVE FALSE
  BY <1>3 DEF PrimaryClean, LinkAside, UnlinkPrimary
<1>4. ASSUME NEW p \in Procs, RenameTemp(p) PROVE PrimaryClean'
  <2> DEFINE new == Placed(dir, target[p], temp[p])
  <2>1. images' = images \union {new} /\ step[p] = "renaming"
        /\ step' = [step EXCEPT ![p] = "syncing"]
    BY <1>4 DEF RenameTemp, Directory, Goto
  <2>2. temp[p].data \in Snapshots
    BY <2>1 DEF IInv, TempInv
  <2>3. new.primary \in {temp[p], dir.primary}
    BY <1>1, PlacedFields
  <2> HIDE DEF new
  <2>4. QED
    BY <1>1, <2>1, <2>2, <2>3 DEF PrimaryClean
<1>5. ASSUME NEW p \in Procs, SyncDirectory(p) PROVE PrimaryClean'
  BY <1>1, <1>5 DEF PrimaryClean, SyncDirectory, WriteNext, SaveOver, Goto
<1>6. CASE PowerFails
  <2>1. PICK d \in images : images' = {AfterLoss(d)}
    BY <1>6 DEF PowerFails
  <2>2. AfterLoss(d).primary = d.primary
    BY LossFields DEF IInv, Synced
  <2>3. \A p \in Procs : step'[p] = "off"
    BY <1>6 DEF PowerFails, End
  <2>4. QED
    BY <2>1, <2>2, <2>3 DEF PrimaryClean
<1>7. CASE DamageFile("lastGood")
  <2> DEFINE bad == File(Corrupt, TRUE)
  <2>1. images' = {Placed(d, "lastGood", bad) : d \in images} /\ step' = step
    BY <1>7 DEF DamageFile
  <2> HIDE DEF bad
  <2>2. \A d : Placed(d, "lastGood", bad).primary = d.primary
    BY <1>1, PlacedFields
  <2>3. QED
    BY <2>1, <2>2 DEF PrimaryClean
<1>8. CASE UNCHANGED vars
  BY <1>8 DEF vars, files, procVars, PrimaryClean
<1>9. QED
  BY <1>2, <1>3, <1>4, <1>5, <1>6, <1>7, <1>8 DEF Own, Launch, Save, Quiet

LEMMA DamageStep ==
  ASSUME IInv, [Next]_vars
  PROVE  DamageInv'
<1>1. damage \in Nat
  BY SizeAssumption DEF IInv, Shape
<1>2. CASE Own
  <2>1. damage' = damage
    BY <1>2 DEF Own, vars, Launch, Save, LaunchLoaded, LaunchWithout, LaunchUnusable, LinkAside,
       UnlinkPrimary, SetAsideFails, LoadLastGood, Edit, BeginSave, ChooseLastGood, WriteTemp,
       RenameTemp, SyncDirectory, SaveFails, Stop, PowerFails
  <2>2. QED
    BY <1>2, <2>1, LastGoodStep, PrimaryStep DEF IInv, DamageInv
<1>3. CASE DamageFile("primary") \/ LaterVersionSaves
  <2>1. damage' = damage + 1
    BY <1>3 DEF DamageFile, LaterVersionSaves
  <2>2. damage' # 0 /\ (damage' = 1 => damage = 0)
    BY <1>1, <2>1
  <2>3. QED
    BY <1>3, <2>2, LastGoodStep DEF IInv, DamageInv
<1>4. CASE DamageFile("lastGood")
  <2>1. damage' = damage + 1
    BY <1>4 DEF DamageFile
  <2>2. damage' # 0 /\ (damage' = 1 => damage = 0)
    BY <1>1, <2>1
  <2>3. QED
    BY <1>4, <2>2, PrimaryStep DEF IInv, DamageInv
<1>5. QED
  BY <1>2, <1>3, <1>4, OwnOrDamage

LEMMA WriteStep ==
  ASSUME IInv, [Next]_vars
  PROVE  WriteInv'
<1>1. step \in [Procs -> Steps] /\ mayWrite \in [Procs -> BOOLEAN]
  BY DEF IInv, Shape
<1>2. ASSUME NEW p \in Procs, Launch(p) PROVE WriteInv'
  <2>1. \A q \in Procs \ {p} : step'[q] = step[q] /\ mayWrite'[q] = mayWrite[q]
    BY <1>1, <1>2 DEF Launch, LaunchLoaded, LaunchWithout, LaunchUnusable, LinkAside,
       UnlinkPrimary, SetAsideFails, LoadLastGood, Goto
  <2>2. \/ step'[p] \in {"running", "recovering"}
        \/ step'[p] \in {"linking", "unlinking"} /\ step[p] \in {"off", "linking"}
           /\ mayWrite' = mayWrite
    BY <1>1, <1>2 DEF Launch, LaunchLoaded, LaunchWithout, LaunchUnusable, LinkAside,
       UnlinkPrimary, SetAsideFails, LoadLastGood, Goto
  <2>3. QED
    BY <2>1, <2>2 DEF IInv, WriteInv
<1>3. ASSUME NEW p \in Procs, Edit(p) \/ Save(p) PROVE WriteInv'
  <2>1. mayWrite' = mayWrite
    BY <1>3 DEF Edit, Save, BeginSave, ChooseLastGood, WriteTemp, RenameTemp, SyncDirectory,
       SaveFails
  <2>2. \A q \in Procs \ {p} : step'[q] = step[q]
    BY <1>1, <1>3 DEF Edit, Save, BeginSave, ChooseLastGood, WriteTemp, RenameTemp,
       SyncDirectory, SaveFails, WriteNext, SaveOver, Goto
  <2>3. step'[p] \in {"running", "choosing", "writing", "renaming", "syncing"}
    BY <1>1, <1>3 DEF Edit, Save, BeginSave, ChooseLastGood, WriteTemp, RenameTemp,
       SyncDirectory, SaveFails, WriteNext, SaveOver, Goto
  <2>4. step'[p] # "running" => mayWrite[p] = TRUE
    <3>1. CASE BeginSave(p)
      BY <1>1, <3>1 DEF BeginSave
    <3>2. CASE ~ BeginSave(p) /\ step'[p] # "running"
      <4>1. step[p] \in {"choosing", "writing", "renaming", "syncing"}
        BY <1>1, <1>3, <3>2 DEF Edit, Save, ChooseLastGood, WriteTemp, RenameTemp,
           SyncDirectory, SaveFails
      <4>2. QED
        BY <4>1 DEF IInv, WriteInv
    <3>3. QED
      BY <3>1, <3>2
  <2>5. QED
    BY <2>1, <2>2, <2>3, <2>4 DEF IInv, WriteInv
<1>4. ASSUME NEW Q \in SUBSET Procs, End(Q) PROVE WriteInv'
  <2>1. \A q \in Procs \ Q : step'[q] = step[q] /\ mayWrite'[q] = mayWrite[q]
    BY <1>1, <1>4 DEF End
  <2>2. \A q \in Q : step'[q] = "off" /\ mayWrite'[q] = FALSE
    BY <1>1, <1>4 DEF End
  <2>3. QED
    BY <2>1, <2>2 DEF IInv, WriteInv
<1>5. ASSUME NEW p \in Procs, Stop(p) PROVE WriteInv'
  BY <1>4, <1>5 DEF Stop
<1>6. CASE PowerFails
  BY <1>4, <1>6 DEF PowerFails
<1>7. ASSUME UNCHANGED <<step, mayWrite>> PROVE WriteInv'
  BY <1>7 DEF IInv, WriteInv
<1>8. (\E f \in Targets : DamageFile(f)) \/ LaterVersionSaves \/ UNCHANGED vars
         => UNCHANGED <<step, mayWrite>>
  BY DEF DamageFile, LaterVersionSaves, vars, procVars
<1>9. QED
  BY <1>2, <1>3, <1>5, <1>6, <1>7, <1>8 DEF Next

\* Who is overtaken stays so until its end; only a later version adds to them.
LEMMA OvertakenStep ==
  ASSUME [Next]_vars, ~ LaterVersionSaves, NEW q \in Procs, q \notin overtaken'
  PROVE  q \notin overtaken \/ step'[q] = "off"
  BY DEF Next, vars, AtWork

LEMMA HistoryStep ==
  ASSUME IInv, [Next]_vars
  PROVE  HistoryOK'
<1>1. CASE UNCHANGED vars
  BY <1>1 DEF vars, procVars, IInv, HistoryOK, AtWork
<1>2. CASE Next
  <2>1. contested' \in BOOLEAN
    BY <1>2 DEF Next
  <2>2. CASE LaterVersionSaves
    BY <2>1, <2>2 DEF LaterVersionSaves, HistoryOK, AtWork
  <2>3. CASE ~ LaterVersionSaves
    BY <1>2, <2>1, <2>3 DEF Next, HistoryOK
  <2>4. QED
    BY <2>2, <2>3
<1>3. QED
  BY <1>1, <1>2

\* Only the primary there is, and the writing to it, can hide a later version's snapshot.
Hidden(d) == d.primary.data = Newer /\ ~ d.aside

LEMMA NewerStep ==
  ASSUME IInv, [Next]_vars
  PROVE  NewerInv'
<1>1. /\ step \in [Procs -> Steps] /\ mayWrite \in [Procs -> BOOLEAN]
      /\ target \in [Procs -> Targets]
      /\ "primary" \in Targets /\ "lastGood" \in Targets
  BY DEF IInv, Shape, Targets
<1>2. SUFFICES ASSUME Hidden(dir)', NEW q \in Procs, q \notin overtaken'
               PROVE  mayWrite'[q] = FALSE /\ step'[q] # "unlinking"
  BY DEF NewerInv, Hidden
<1>3. CASE LaterVersionSaves
  <2>1. step[q] = "off" /\ step' = step /\ mayWrite' = mayWrite
    BY <1>2, <1>3 DEF LaterVersionSaves, AtWork
  <2>2. QED
    BY <2>1 DEF IInv, WriteInv
<1>4. CASE step'[q] = "off"
  BY <1>4, WriteStep DEF WriteInv
<1>5. CASE ~ LaterVersionSaves /\ step'[q] # "off"
  <2>1. q \notin overtaken
    BY <1>2, <1>5, OvertakenStep
  <2>2. Hidden(dir) => mayWrite[q] = FALSE /\ step[q] # "unlinking"
    BY <1>2, <2>1 DEF IInv, NewerInv, Hidden
  <2>3. ASSUME NEW p \in Procs, Quiet(p)
        PROVE  mayWrite'[q] = FALSE /\ step'[q] # "unlinking"
    <3>1. Hidden(dir)
      BY <1>2, <2>3, QuietFiles DEF Hidden
    <3>2. dir.primary.data \notin Snapshots /\ dir.primary.data # Absent
      BY <3>1, Names DEF Hidden
    <3>3. (q # p => step'[q] = step[q]) /\ step'[p] # "unlinking"
      BY <2>3, QuietSteps DEF IInv
    <3>4. mayWrite'[q] = FALSE
      <4>1. CASE LaunchWithout(p)
        <5>1. mayWrite' = [mayWrite EXCEPT ![p] = FALSE]
          BY <3>2, <4>1 DEF LaunchWithout
        <5>2. QED
          BY <1>1, <2>2, <3>1, <5>1
      <4>2. CASE SetAsideFails(p)
        BY <1>1, <2>2, <3>1, <4>2 DEF SetAsideFails
      <4>3. CASE Stop(p)
        <5>1. mayWrite'[q] = (mayWrite[q] /\ q \notin {p})
          BY <4>3 DEF Stop, End
        <5>2. QED
          BY <2>2, <3>1, <5>1
      <4>4. CASE UNCHANGED mayWrite
        BY <2>2, <3>1, <4>4
      <4>5. QED
        BY <2>3, <3>2, <4>1, <4>2, <4>3, <4>4 DEF Quiet, LaunchLoaded, LaunchUnusable,
           LoadLastGood, Edit, BeginSave, ChooseLastGood, WriteTemp, SaveFails
    <3>5. QED
      BY <2>2, <3>1, <3>3, <3>4
  <2>4. ASSUME NEW p \in Procs, LinkAside(p) PROVE FALSE
    <3>1. dir' = LinkedAside(dir)
      BY <2>4 DEF LinkAside, Directory
    <3>2. QED
      BY <1>2, <3>1, LinkedFields DEF Hidden
  <2>5. ASSUME NEW p \in Procs, UnlinkPrimary(p) PROVE FALSE
    <3>1. dir' = Placed(dir, "primary", NoFile)
      BY <2>5 DEF UnlinkPrimary, Directory
    <3>2. NoFile.data = Absent
      BY FileFields DEF NoFile
    <3>3. dir'.primary = NoFile
      BY <1>1, <3>1, PlacedFields
    <3>4. QED
      BY <1>2, <3>2, <3>3, Names DEF Hidden
  <2>6. ASSUME NEW p \in Procs, RenameTemp(p)
        PROVE  mayWrite'[q] = FALSE /\ step'[q] # "unlinking"
    <3>1. /\ dir' = Placed(dir, target[p], temp[p]) /\ step[p] = "renaming"
          /\ step' = [step EXCEPT ![p] = "syncing"] /\ mayWrite' = mayWrite
      BY <2>6 DEF RenameTemp, Directory, Goto
    <3>2. temp[p].data \in Snapshots
      BY <3>1 DEF IInv, TempInv
    <3>3. dir'.primary \in {temp[p], dir.primary} /\ dir'.aside = dir.aside
      BY <1>1, <3>1, PlacedFields
    <3>4. Hidden(dir)
      BY <1>2, <3>2, <3>3, Names DEF Hidden
    <3>5. QED
      BY <1>1, <2>2, <3>1, <3>4
  <2>7. ASSUME NEW p \in Procs, SyncDirectory(p)
        PROVE  mayWrite'[q] = FALSE /\ step'[q] # "unlinking"
    <3>1. dir' = dir /\ mayWrite' = mayWrite
      BY <2>7 DEF SyncDirectory
    <3>2. Hidden(dir)
      BY <1>2, <3>1 DEF Hidden
    <3>3. step'[q] = "unlinking" => step[q] = "unlinking"
      BY <1>1, <2>7 DEF SyncDirectory, WriteNext, SaveOver, Goto
    <3>4. QED
      BY <2>2, <3>1, <3>2, <3>3
  <2>8. CASE PowerFails
    BY <1>5, <2>8 DEF PowerFails, End
  <2>9. ASSUME NEW f \in Targets, DamageFile(f)
        PROVE  mayWrite'[q] = FALSE /\ step'[q] # "unlinking"
    <3> DEFINE bad == File(Corrupt, TRUE)
    <3>1. bad.data = Corrupt
      BY FileFields
    <3>2. dir' = Placed(dir, f, bad) /\ mayWrite' = mayWrite /\ step' = step
      BY <2>9 DEF DamageFile
    <3> HIDE DEF bad
    <3>3. dir'.primary \in {bad, dir.primary} /\ dir'.aside = dir.aside
      BY <3>2, PlacedFields
    <3>4. Hidden(dir)
      BY <1>2, <3>1, <3>3, Names DEF Hidden
    <3>5. QED
      BY <2>2, <3>2, <3>4
  <2>10. CASE UNCHANGED vars
    <3>1. dir' = dir /\ mayWrite' = mayWrite /\ step' = step
      BY <2>10 DEF vars, files, procVars
    <3>2. QED
      BY <1>2, <2>2, <3>1 DEF Hidden
  <2>11. QED
    BY <1>5, <2>3, <2>4, <2>5, <2>6, <2>7, <2>8, <2>9, <2>10 DEF Next, Launch, Save, Quiet
<1>6. QED
  BY <1>3, <1>4, <1>5

LEMMA Inductive == Spec => []IInv
<1>1. IInv /\ [Next]_vars => IInv'
  <2> SUFFICES ASSUME IInv, [Next]_vars PROVE IInv'
    OBVIOUS
  <2>1. Shape' /\ Synced' /\ TempInv' /\ DamageInv' /\ WriteInv' /\ NewerInv'
        /\ HistoryOK'
    BY StepTyped, SyncedStep, TempStep, DamageStep, WriteStep, NewerStep, HistoryStep DEF IInv
  <2>2. QED
    BY <2>1 DEF IInv
<1>2. QED
  BY <1>1, Initially, PTL DEF Spec

--------------------------------------------------------------------------------
(* The theorems. *)

\* The files hold what the code can put there, and the processes stand where the code can.
THEOREM TypeCorrect == Spec => []TypeOK
<1>1. IInv => TypeOK
  BY DEF IInv, HistoryOK, TypeOK
<1>2. QED
  BY <1>1, Inductive, PTL

\* A directory that a launch can load from is one with a snapshot, after a power failure too.
HasSnapshot(d) == d.primary.data \in Snapshots \/ d.lastGood.data \in Snapshots

LEMMA UsableImages ==
  ASSUME IInv
  PROVE  /\ AllUsable <=> \A d \in images : HasSnapshot(d)
         /\ LastGoodUsable <=> \A d \in images : d.lastGood.data \in Snapshots
<1>1. \A d \in images : AfterLoss(d).primary = d.primary /\ AfterLoss(d).lastGood = d.lastGood
  BY LossFields DEF IInv, Synced
<1>2. \A d \in images : Usable(AfterLoss(d)) <=> HasSnapshot(d)
  BY <1>1 DEF Usable, HasSnapshot
<1>3. QED
  BY <1>1, <1>2 DEF AllUsable, LastGoodUsable

\* With the primary gone the last-good file is left, unless both were damaged.
LEMMA LastGoodLeft ==
  ASSUME IInv, AllUsable, LastGoodUsable \/ damage <= 1,
         NEW p \in Procs, step[p] = "unlinking"
  PROVE  dir.lastGood.data \in Snapshots
<1>1. dir \in images /\ damage \in Nat
  BY SizeAssumption DEF IInv, Shape
<1>2. HasSnapshot(dir)
  BY <1>1, UsableImages
<1>3. CASE LastGoodUsable
  BY <1>1, <1>3, UsableImages
<1>4. CASE damage <= 1
  <2>1. ~ PrimaryClean
    BY DEF PrimaryClean
  <2>2. damage = 0 \/ damage = 1
    BY <1>1, <1>4
  <2>3. LastGoodClean
    BY <2>1, <2>2 DEF IInv, DamageInv
  <2>4. QED
    BY <1>1, <1>2, <2>3 DEF LastGoodClean, HasSnapshot
<1>5. QED
  BY <1>3, <1>4

LEMMA UsableStep ==
  ASSUME IInv, IInv', [Next]_vars, AllUsable, LastGoodUsable \/ damage <= 1,
         damage' = damage
  PROVE  AllUsable'
<1>1. damage \in Nat /\ dir \in images /\ target \in [Procs -> Targets]
      /\ "primary" \in Targets
  BY SizeAssumption DEF IInv, Shape, Targets
<1>2. \A d \in images : HasSnapshot(d)
  BY UsableImages
<1>3. AllUsable' <=> \A d \in images' : HasSnapshot(d)
  <2>1. \A d \in images' : AfterLoss(d).primary = d.primary /\ AfterLoss(d).lastGood = d.lastGood
    BY LossFields DEF IInv, Synced
  <2>2. \A d \in images' : Usable(AfterLoss(d)) <=> HasSnapshot(d)
    BY <2>1 DEF Usable, HasSnapshot
  <2>3. QED
    BY <2>2 DEF AllUsable
<1>4. SUFFICES \A d \in images' : HasSnapshot(d)
  BY <1>3
<1>5. ASSUME NEW p \in Procs, Quiet(p) \/ SyncDirectory(p)
      PROVE  \A d \in images' : HasSnapshot(d)
  <2>1. CASE Quiet(p)
    BY <1>2, <2>1, QuietFiles
  <2>2. CASE SyncDirectory(p)
    BY <1>1, <1>2, <2>2 DEF SyncDirectory
  <2>3. QED
    BY <1>5, <2>1, <2>2
<1>6. ASSUME NEW p \in Procs, LinkAside(p) PROVE \A d \in images' : HasSnapshot(d)
  BY <1>1, <1>2, <1>6, LinkedFields DEF LinkAside, Directory, HasSnapshot
<1>7. ASSUME NEW p \in Procs, UnlinkPrimary(p) PROVE \A d \in images' : HasSnapshot(d)
  <2>1. dir.lastGood.data \in Snapshots
    BY <1>7, LastGoodLeft DEF UnlinkPrimary
  <2>2. images' = images \union {Placed(dir, "primary", NoFile)}
    BY <1>7 DEF UnlinkPrimary, Directory
  <2>3. Placed(dir, "primary", NoFile).lastGood = dir.lastGood
    BY <1>1, PlacedFields
  <2>4. QED
    BY <1>2, <2>1, <2>2, <2>3 DEF HasSnapshot
<1>8. ASSUME NEW p \in Procs, RenameTemp(p) PROVE \A d \in images' : HasSnapshot(d)
  <2>1. images' = images \union {Placed(dir, target[p], temp[p])} /\ step[p] = "renaming"
    BY <1>8 DEF RenameTemp, Directory
  <2>2. temp[p].data \in Snapshots
    BY <2>1 DEF IInv, TempInv
  <2>3. \/ Placed(dir, target[p], temp[p]).primary = temp[p]
        \/ Placed(dir, target[p], temp[p]).lastGood = temp[p]
    BY <1>1, PlacedFields DEF Targets
  <2>4. QED
    BY <1>2, <2>1, <2>2, <2>3 DEF HasSnapshot
<1>9. CASE PowerFails
  <2>1. PICK d \in images : images' = {AfterLoss(d)}
    BY <1>9 DEF PowerFails
  <2>2. AfterLoss(d).primary = d.primary /\ AfterLoss(d).lastGood = d.lastGood
    BY LossFields DEF IInv, Synced
  <2>3. QED
    BY <1>2, <2>1, <2>2 DEF HasSnapshot
<1>10. damage' # damage + 1
  BY <1>1
<1>11. ~ LaterVersionSaves /\ \A f \in Targets : ~ DamageFile(f)
  BY <1>10 DEF LaterVersionSaves, DamageFile
<1>12. CASE UNCHANGED vars
  BY <1>2, <1>12 DEF vars, files
<1>13. QED
  BY <1>5, <1>6, <1>7, <1>8, <1>9, <1>11, <1>12 DEF Next, Launch, Save, Quiet

\* Whatever step any process takes, and wherever it or the machine stops, a launch that
\* would have found a snapshot still finds one.
THEOREM StaysUsable == Spec => UsableForGood
<1>1. IInv /\ IInv' /\ [Next]_vars =>
        [/\ AllUsable /\ (LastGoodUsable \/ damage <= 1)
         /\ damage' = damage
         => AllUsable']_vars
  BY UsableStep
<1>2. QED
  BY <1>1, Inductive, PTL DEF Spec, UsableForGood

LEMMA KeptStep ==
  ASSUME IInv, [Next]_vars, damage' = damage, ~ NewerLost, NewerLost'
  PROVE  \E p \in overtaken : Replaces(p)
<1>1. /\ damage \in Nat /\ dir \in images /\ target \in [Procs -> Targets]
      /\ step \in [Procs -> Steps] /\ "primary" \in Targets /\ "lastGood" \in Targets
  BY SizeAssumption DEF IInv, Shape, Targets
<1>2. (\A d \in images : HasNewer(d)) /\ ~ (\A d \in images' : HasNewer(d))
  BY DEF NewerLost
<1>3. dir.aside \/ \A p \in Procs \ overtaken : mayWrite[p] = FALSE /\ step[p] # "unlinking"
  BY <1>1, <1>2 DEF IInv, NewerInv, HasNewer
<1>4. ASSUME NEW p \in Procs, Quiet(p) \/ SyncDirectory(p)
      PROVE  \A d \in images' : HasNewer(d)
  <2>1. CASE Quiet(p)
    BY <1>2, <2>1, QuietFiles
  <2>2. CASE SyncDirectory(p)
    BY <1>1, <1>2, <2>2 DEF SyncDirectory
  <2>3. QED
    BY <1>4, <2>1, <2>2
<1>5. ASSUME NEW p \in Procs, LinkAside(p)
      PROVE  \A d \in images' : HasNewer(d)
  BY <1>1, <1>2, <1>5, LinkedFields DEF LinkAside, Directory, HasNewer
<1>6. ASSUME NEW p \in Procs, UnlinkPrimary(p) \/ RenameTemp(p)
      PROVE  \E q \in overtaken : Replaces(q)
  <2>1. step[p] = "unlinking" \/ mayWrite[p] = TRUE
    BY <1>6 DEF UnlinkPrimary, RenameTemp, IInv, WriteInv
  <2>2. CASE p \in overtaken
    <3>1. step[p] \in {"unlinking", "renaming"} /\ step'[p] \in {"recovering", "syncing"}
      BY <1>1, <1>6 DEF UnlinkPrimary, RenameTemp, Goto
    <3>2. QED
      BY <2>2, <3>1 DEF Replaces
  <2>3. CASE p \notin overtaken
    <3>1. dir.aside
      BY <1>3, <2>1, <2>3
    <3>2. PICK t \in Targets, f \in {NoFile, temp[p]} : images' = images \union {Placed(dir, t, f)}
      BY <1>1, <1>6 DEF UnlinkPrimary, RenameTemp, Directory
    <3>3. Placed(dir, t, f).aside = dir.aside
      BY PlacedFields
    <3>4. QED
      BY <1>2, <3>1, <3>2, <3>3 DEF HasNewer
  <2>4. QED
    BY <2>2, <2>3
<1>7. CASE PowerFails
  <2>1. PICK d \in images : images' = {AfterLoss(d)}
    BY <1>7 DEF PowerFails
  <2>2. AfterLoss(d).primary = d.primary /\ AfterLoss(d).aside = d.aside
    BY LossFields DEF IInv, Synced
  <2>3. QED
    BY <1>2, <2>1, <2>2 DEF HasNewer
<1>8. damage' # damage + 1
  BY <1>1
<1>9. ~ LaterVersionSaves /\ \A f \in Targets : ~ DamageFile(f)
  BY <1>8 DEF LaterVersionSaves, DamageFile
<1>10. CASE UNCHANGED vars
  BY <1>2, <1>10 DEF vars, files
<1>11. QED
  BY <1>2, <1>4, <1>5, <1>6, <1>7, <1>9, <1>10 DEF Next, Launch, Save, Quiet

\* No process launched since a later version saved its snapshot writes over the only copy
\* of it, nor removes it.
THEOREM LaterVersionIsKept == Spec => LaterVersionKept
<1>1. IInv /\ [Next]_vars =>
        [~ NewerLost /\ NewerLost' /\ damage' = damage
           => \E p \in overtaken : Replaces(p)]_vars
  BY KeptStep
<1>2. QED
  BY <1>1, Inductive, PTL DEF Spec, LaterVersionKept

--------------------------------------------------------------------------------
(* The files and system calls implement SnapshotStore, whose promise holds *)
(* while a process is alone at them.                                       *)

\* What a process relies on between the steps of a launch or a save: that the files are
\* as it left them.
SoloInv(q) ==
  /\ step[q] = "recovering" => saved[q] = FALSE /\ (mayWrite[q] = TRUE => dir.primary.data = Absent)
  /\ step[q] \in {"writing", "renaming"} =>
       /\ target[q] = "primary" => temp[q].data = memory[q]
       /\ target[q] = "lastGood" =>
            \/ dir.primary.data \in Snapshots
            \/ temp[q].data \in {memory[q], dir.lastGood.data}
  /\ step[q] = "syncing" /\ target[q] = "primary" => dir.primary.data = memory[q]

\* As long as the files are not contested one process is at work and nothing was damaged.
AloneInv == ~ contested => damage = 0 /\ \A p, q \in AtWork : p = q

SoloAll == ~ contested => \A q \in Procs : SoloInv(q)

LEMMA AloneStep ==
  ASSUME AloneInv, [Next]_vars
  PROVE  AloneInv'
<1>1. CASE UNCHANGED vars
  BY <1>1 DEF vars, procVars, AloneInv, AtWork
<1>2. CASE Next
  BY <1>2 DEF Next, AloneInv
<1>3. QED
  BY <1>1, <1>2

\* The processes a step of q leaves alone.
Apart(q) ==
  \A r \in Procs \ {q} :
    /\ step'[r] = step[r] /\ mayWrite'[r] = mayWrite[r]
    /\ memory'[r] = memory[r] /\ saved'[r] = saved[r]

LEMMA ApartStep ==
  ASSUME IInv, NEW q \in Procs, Launch(q) \/ Edit(q) \/ Save(q) \/ Stop(q)
  PROVE  Apart(q) /\ (~ Stop(q) => step'[q] # "off")
<1>1. /\ step \in [Procs -> Steps] /\ mayWrite \in [Procs -> BOOLEAN]
      /\ saved \in [Procs -> BOOLEAN] /\ memory \in [Procs -> Snapshots]
  BY DEF IInv, Shape
<1>2. CASE Launch(q)
  BY <1>1, <1>2 DEF Apart, Launch, LaunchLoaded, LaunchWithout, LaunchUnusable, LinkAside,
     UnlinkPrimary, SetAsideFails, LoadLastGood, Goto
<1>3. CASE Edit(q)
  BY <1>1, <1>3 DEF Apart, Edit
<1>4. CASE Save(q)
  BY <1>1, <1>4 DEF Apart, Save, BeginSave, ChooseLastGood, WriteTemp, RenameTemp,
     SyncDirectory, SaveFails, WriteNext, SaveOver, Goto
<1>5. CASE Stop(q)
  BY <1>1, <1>5 DEF Apart, Stop, End
<1>6. QED
  BY <1>2, <1>3, <1>4, <1>5

\* What a step may be that leaves the files uncontested and process q at work.
LEMMA SoleStep ==
  ASSUME IInv, AloneInv, [Next]_vars, ~ contested', NEW q \in Procs, step'[q] # "off"
  PROVE  ~ contested /\ (Launch(q) \/ Edit(q) \/ Save(q) \/ UNCHANGED vars)
<1>1. CASE UNCHANGED vars
  BY <1>1 DEF vars
<1>2. CASE Next
  <2>1. ~ contested /\ damage' = damage /\ \A p, r \in AtWork' : p = r
    BY <1>2 DEF Next
  <2>2. damage = 0
    BY <2>1 DEF AloneInv
  <2>3. ~ LaterVersionSaves /\ \A f \in Targets : ~ DamageFile(f)
    BY <2>1, <2>2 DEF LaterVersionSaves, DamageFile
  <2>4. ~ PowerFails
    BY DEF PowerFails, End
  <2>5. PICK p \in Procs : Launch(p) \/ Edit(p) \/ Save(p) \/ Stop(p)
    BY <1>2, <2>3, <2>4 DEF Next
  <2>6. CASE Stop(p)
    <3>1. step[p] # "off" /\ step'[p] = "off"
      BY <2>6 DEF Stop, End
    <3>2. step[q] # "off" /\ q # p
      BY <2>5, <3>1, ApartStep DEF Apart
    <3>3. QED
      BY <2>1, <3>1, <3>2 DEF AloneInv, AtWork
  <2>7. CASE ~ Stop(p)
    <3>1. step'[p] # "off"
      BY <2>5, <2>7, ApartStep
    <3>2. p = q
      BY <2>1, <3>1 DEF AtWork
    <3>3. QED
      BY <2>1, <2>5, <2>7, <3>2
  <2>8. QED
    BY <2>6, <2>7
<1>3. QED
  BY <1>1, <1>2

LEMMA SoloStep ==
  ASSUME NEW q \in Procs, damage = 0, IInv, SoloInv(q),
         Launch(q) \/ Edit(q) \/ Save(q) \/ UNCHANGED vars
  PROVE  SoloInv(q)'
<1>1. /\ step \in [Procs -> Steps] /\ mayWrite \in [Procs -> BOOLEAN]
      /\ target \in [Procs -> Targets] /\ temp \in [Procs -> Files]
      /\ saved \in [Procs -> BOOLEAN] /\ memory \in [Procs -> Snapshots]
      /\ "primary" \in Targets /\ "lastGood" \in Targets /\ q \in Procs
      /\ damage = 0
  BY DEF IInv, Shape, Targets
<1>2. ASSUME NEW t, NEW data, WriteNext(q, t, data)
      PROVE  step'[q] = "writing" /\ target'[q] = t /\ temp'[q].data = data
  BY <1>1, <1>2, FileFields DEF WriteNext, Goto
<1>3. ASSUME SaveOver(q) PROVE SoloInv(q)'
  BY <1>1, <1>3 DEF SaveOver, Goto, SoloInv
<1>4. CASE LaunchLoaded(q) \/ LaunchUnusable(q) \/ LoadLastGood(q) \/ LinkAside(q)
           \/ UnlinkPrimary(q) \/ SetAsideFails(q)
  <2>1. PrimaryClean
    BY <1>1 DEF IInv, DamageInv
  <2>2. dir.primary.data \notin Unusable /\ step[q] \notin {"linking", "unlinking"}
    BY <1>1, <2>1, Names DEF PrimaryClean, IInv, Shape, Unusable
  <2>3. LaunchLoaded(q) \/ LoadLastGood(q)
    BY <1>4, <2>2 DEF LaunchUnusable, LinkAside, UnlinkPrimary, SetAsideFails
  <2>4. step'[q] = "running"
    BY <1>1, <2>3 DEF LaunchLoaded, LoadLastGood, Goto
  <2>5. QED
    BY <2>4 DEF SoloInv
<1>5. CASE LaunchWithout(q)
  <2>1. step'[q] = "recovering" /\ saved'[q] = FALSE /\ dir' = dir
    BY <1>1, <1>5 DEF LaunchWithout, Goto, files
  <2>2. mayWrite'[q] = TRUE => dir.primary.data = Absent
    BY <1>1, <1>5 DEF LaunchWithout
  <2>3. QED
    BY <2>1, <2>2 DEF SoloInv
<1>6. CASE Edit(q)
  <2>1. step'[q] = "running"
    BY <1>1, <1>6 DEF Edit
  <2>2. QED
    BY <2>1 DEF SoloInv
<1>7. CASE BeginSave(q)
  <2>1. CASE dir.primary.data \in Snapshots
    <3>1. step'[q] = "writing" /\ target'[q] = "lastGood" /\ dir' = dir
      BY <1>2, <1>7, <2>1 DEF BeginSave, files
    <3>2. QED
      BY <2>1, <3>1 DEF SoloInv
  <2>2. CASE dir.primary.data \notin Snapshots
    <3>1. step'[q] = "choosing"
      BY <1>1, <1>7, <2>2 DEF BeginSave, Goto
    <3>2. QED
      BY <3>1 DEF SoloInv
  <2>3. QED
    BY <2>1, <2>2
<1>8. CASE ChooseLastGood(q)
  <2>1. step'[q] = "writing" /\ target'[q] = "lastGood" /\ dir' = dir /\ memory' = memory
        /\ temp'[q].data = IF dir.lastGood.data \in Snapshots THEN dir.lastGood.data ELSE memory[q]
    BY <1>2, <1>8 DEF ChooseLastGood, files
  <2>2. QED
    BY <2>1 DEF SoloInv
<1>9. CASE WriteTemp(q)
  <2>1. step[q] = "writing" /\ step'[q] = "renaming" /\ target' = target /\ dir' = dir
        /\ memory' = memory /\ temp'[q].data = temp[q].data
    BY <1>1, <1>9, FileFields DEF WriteTemp, Goto, files
  <2>2. QED
    BY <2>1 DEF SoloInv
<1>10. CASE RenameTemp(q)
  <2>1. step[q] = "renaming" /\ step'[q] = "syncing" /\ target' = target
        /\ memory' = memory /\ dir' = Placed(dir, target[q], temp[q])
    BY <1>1, <1>10 DEF RenameTemp, Goto, Directory
  <2>2. target[q] = "primary" => dir'.primary = temp[q]
    BY <1>1, <2>1, PlacedFields
  <2>3. QED
    BY <2>1, <2>2 DEF SoloInv
<1>11. CASE SyncDirectory(q)
  <2>1. CASE target[q] = "lastGood"
    <3>1. step'[q] = "writing" /\ target'[q] = "primary" /\ temp'[q].data = memory[q]
          /\ memory' = memory
      BY <1>2, <1>11, <2>1 DEF SyncDirectory
    <3>2. QED
      BY <3>1 DEF SoloInv
  <2>2. CASE target[q] # "lastGood"
    BY <1>3, <1>11, <2>2 DEF SyncDirectory
  <2>3. QED
    BY <2>1, <2>2
<1>12. CASE SaveFails(q)
  BY <1>3, <1>12 DEF SaveFails
<1>13. CASE UNCHANGED vars
  BY <1>13 DEF vars, files, procVars, SoloInv
<1>14. QED
  BY <1>4, <1>5, <1>6, <1>7, <1>8, <1>9, <1>10, <1>11, <1>12, <1>13 DEF Launch, Save

LEMMA SoloAllStep ==
  ASSUME IInv, AloneInv, SoloAll, [Next]_vars
  PROVE  SoloAll'
<1> SUFFICES ASSUME ~ contested', NEW q \in Procs PROVE SoloInv(q)'
  BY DEF SoloAll
<1>1. CASE step'[q] = "off"
  BY <1>1 DEF SoloInv
<1>2. CASE step'[q] # "off"
  <2>1. ~ contested /\ (Launch(q) \/ Edit(q) \/ Save(q) \/ UNCHANGED vars)
    BY <1>2, SoleStep
  <2>2. damage = 0 /\ SoloInv(q)
    BY <2>1 DEF AloneInv, SoloAll
  <2>3. QED
    BY <2>1, <2>2, SoloStep
<1>3. QED
  BY <1>1, <1>2

\* A launch finds the same before and after a power failure.
LEMMA FoundImages ==
  ASSUME IInv
  PROVE  Stable = {LoadOf(d) : d \in images}
<1>1. \A d \in images : LoadOf(AfterLoss(d)) = LoadOf(d)
  BY LossFields DEF IInv, Synced, LoadOf
<1>2. QED
  BY <1>1 DEF Stable

LEMMA FoundImagesNext ==
  ASSUME IInv'
  PROVE  Stable' = {LoadOf(d) : d \in images'}
<1>1. \A d \in images' : LoadOf(AfterLoss(d)) = LoadOf(d)
  BY LossFields DEF IInv, Synced, LoadOf
<1>2. QED
  BY <1>1 DEF Stable

\* The steps of SnapshotStore for a process q, in terms of its values.
LEMMA PromiseSteps ==
  ASSUME NEW q \in Procs, IInv, IInv', Apart(q)
  PROVE  /\ (saved'[q] = FALSE /\ Stable' = Stable
                /\ (Writable'[q] = TRUE => memory'[q] \in Stable)
              => Promise!Launch(q))
         /\ (saved'[q] = FALSE /\ Stable' = Stable /\ Writable'[q] = Writable[q]
              => Promise!Edit(q))
         /\ (Writable[q] = TRUE /\ Stable' = Stable \union {memory[q]} /\ memory' = memory
                /\ Writable'[q] = Writable[q] /\ saved' = saved
              => Promise!Write(q))
         /\ (Writable[q] = TRUE /\ memory[q] \in Stable /\ Stable' = {memory[q]}
                /\ saved'[q] = TRUE /\ memory' = memory /\ Writable'[q] = Writable[q]
              => Promise!Acknowledge(q))
         /\ (Stable' \subseteq Stable /\ Stable' # {} /\ saved'[q] = FALSE /\ Writable'[q] = FALSE
              => Promise!Settle)
         /\ (Stable' \subseteq Stable /\ Stable' # {} /\ saved'[q] = saved[q]
                /\ Writable'[q] = Writable[q] /\ memory' = memory
              => Promise!Settle)
<1>1. /\ memory \in [Procs -> Snapshots] /\ memory' \in [Procs -> Snapshots]
      /\ saved \in [Procs -> BOOLEAN] /\ saved' \in [Procs -> BOOLEAN]
      /\ Writable \in [Procs -> BOOLEAN]
  BY DEF IInv, Shape, Writable
<1>2. Writable' \in [Procs -> BOOLEAN]
  BY DEF Writable
<1>3. \A r \in Procs \ {q} :
        memory'[r] = memory[r] /\ saved'[r] = saved[r] /\ Writable'[r] = Writable[r]
  BY DEF Apart, Writable
<1>12. Writable'[q] = Writable[q] => Writable' = Writable
  BY <1>1, <1>2, <1>3
<1>4. ASSUME saved'[q] = FALSE, Stable' = Stable, Writable'[q] = TRUE => memory'[q] \in Stable
      PROVE  Promise!Launch(q)
  <2>1. saved' = [saved EXCEPT ![q] = FALSE]
    BY <1>1, <1>3, <1>4
  <2>2. memory' = [memory EXCEPT ![q] = memory'[q]] /\ memory'[q] \in Snapshots
    BY <1>1, <1>3
  <2>3. Writable' = [Writable EXCEPT ![q] = Writable'[q]] /\ Writable'[q] \in BOOLEAN
    BY <1>1, <1>2, <1>3
  <2>4. QED
    BY <1>4, <2>1, <2>2, <2>3 DEF Promise!Launch
<1>5. ASSUME saved'[q] = FALSE, Stable' = Stable, Writable'[q] = Writable[q]
      PROVE  Promise!Edit(q)
  <2>1. saved' = [saved EXCEPT ![q] = FALSE]
    BY <1>1, <1>3, <1>5
  <2>2. memory' = [memory EXCEPT ![q] = memory'[q]] /\ memory'[q] \in Snapshots
    BY <1>1, <1>3
  <2>3. Writable' = Writable
    BY <1>5, <1>12
  <2>4. QED
    BY <1>5, <2>1, <2>2, <2>3 DEF Promise!Edit
<1>6. ASSUME Writable[q] = TRUE, Stable' = Stable \union {memory[q]}, memory' = memory,
             Writable'[q] = Writable[q], saved' = saved
      PROVE  Promise!Write(q)
  <2>1. Writable' = Writable
    BY <1>6, <1>12
  <2>2. QED
    BY <1>6, <2>1 DEF Promise!Write
<1>7. ASSUME Writable[q] = TRUE, memory[q] \in Stable, Stable' = {memory[q]},
             saved'[q] = TRUE, memory' = memory, Writable'[q] = Writable[q]
      PROVE  Promise!Acknowledge(q)
  <2>1. Writable' = Writable
    BY <1>7, <1>12
  <2>2. saved' = [saved EXCEPT ![q] = TRUE]
    BY <1>1, <1>3, <1>7
  <2>3. QED
    BY <1>7, <2>1, <2>2 DEF Promise!Acknowledge
<1>8. ASSUME Stable' \subseteq Stable, Stable' # {}, saved'[q] = FALSE, Writable'[q] = FALSE
      PROVE  Promise!Settle
  <2>1. saved' = [p \in Procs |-> saved[p] /\ p \notin {q}]
    BY <1>1, <1>3, <1>8
  <2>2. Writable' = [p \in Procs |-> Writable[p] /\ p \notin {q}]
    BY <1>1, <1>2, <1>3, <1>8
  <2>3. \E Q \in SUBSET Procs :
          /\ \A p \in Procs \ Q : memory'[p] = memory[p]
          /\ memory' \in [Procs -> Snapshots]
          /\ Writable' = [p \in Procs |-> Writable[p] /\ p \notin Q]
          /\ saved' = [p \in Procs |-> saved[p] /\ p \notin Q]
    <3> WITNESS {q} \in SUBSET Procs
    <3>1. QED
      BY <1>1, <1>3, <2>1, <2>2
  <2>4. QED
    BY <1>8, <2>3 DEF Promise!Settle
<1>9. ASSUME Stable' \subseteq Stable, Stable' # {}, saved'[q] = saved[q],
             Writable'[q] = Writable[q], memory' = memory
      PROVE  Promise!Settle
  <2>1. saved' = [p \in Procs |-> saved[p] /\ p \notin {}]
    BY <1>1, <1>3, <1>9
  <2>2. Writable' = [p \in Procs |-> Writable[p] /\ p \notin {}]
    BY <1>1, <1>2, <1>9, <1>12
  <2>3. \E Q \in SUBSET Procs :
          /\ \A p \in Procs \ Q : memory'[p] = memory[p]
          /\ memory' \in [Procs -> Snapshots]
          /\ Writable' = [p \in Procs |-> Writable[p] /\ p \notin Q]
          /\ saved' = [p \in Procs |-> saved[p] /\ p \notin Q]
    <3> WITNESS {} \in SUBSET Procs
    <3>1. QED
      BY <1>1, <1>9, <2>1, <2>2
  <2>4. QED
    BY <1>9, <2>3 DEF Promise!Settle
<1>10. QED
  BY <1>4, <1>5, <1>6, <1>7, <1>8, <1>9

LEMMA PromiseInit ==
  ASSUME Init
  PROVE  Promise!Init
<1>1. IInv
  BY Initially
<1>2. Stable = {LoadOf(dir)}
  BY <1>1, FoundImages DEF Init
<1>3. LoadOf(dir) = Fresh
  <2>1. dir.primary = NoFile /\ dir.lastGood = NoFile /\ NoFile.data = Absent
    BY FileFields DEF Init, NoFile
  <2>2. QED
    BY <2>1, Names DEF LoadOf
<1>4. Writable = [p \in Procs |-> FALSE]
  BY DEF Init, Writable
<1>5. QED
  BY <1>2, <1>3, <1>4, Names DEF Init, Promise!Init

\* Every step of a process alone at the files is a step of SnapshotStore.
LEMMA PromiseOfStep ==
  ASSUME NEW q \in Procs, damage = 0, IInv, IInv', SoloInv(q),
         Launch(q) \/ Edit(q) \/ Save(q) \/ Stop(q)
  PROVE  Promise!Next
<1>1. /\ step \in [Procs -> Steps] /\ mayWrite \in [Procs -> BOOLEAN]
      /\ target \in [Procs -> Targets] /\ temp \in [Procs -> Files]
      /\ saved \in [Procs -> BOOLEAN] /\ memory \in [Procs -> Snapshots]
      /\ "primary" \in Targets /\ "lastGood" \in Targets /\ q \in Procs
      /\ damage = 0 /\ dir \in images
  BY DEF IInv, Shape, Targets
<1>2. LastGoodClean /\ PrimaryClean
  BY <1>1 DEF IInv, DamageInv
<1>3. Stable = {LoadOf(d) : d \in images} /\ Stable' = {LoadOf(d) : d \in images'}
  BY FoundImages, FoundImagesNext
<1>4. LoadOf(dir) \in Stable /\ Stable # {}
  BY <1>1, <1>3
<1>5. images' = images => Stable' = Stable
  BY <1>3
<1> DEFINE Saving == {"running", "choosing", "writing", "renaming", "syncing"}
<1>6. /\ Writable[q] = (mayWrite[q] /\ step[q] \in Saving)
      /\ Writable'[q] = (mayWrite'[q] /\ step'[q] \in Saving)
  BY <1>1 DEF Writable
<1>0. Apart(q)
  BY ApartStep
<1>7. step[q] \in {"choosing", "writing", "renaming", "syncing"} =>
        mayWrite[q] = TRUE /\ Writable[q] = TRUE
  BY <1>1, <1>6 DEF IInv, WriteInv
<1>8. CASE LaunchLoaded(q)
  <2>1. memory'[q] = dir.primary.data /\ dir.primary.data \in Snapshots /\ saved'[q] = FALSE
        /\ images' = images
    BY <1>1, <1>8 DEF LaunchLoaded, files
  <2>2. memory'[q] \in Stable
    BY <1>4, <2>1 DEF LoadOf
  <2>3. Promise!Launch(q)
    BY <1>0, <1>5, <2>1, <2>2, PromiseSteps
  <2>4. QED
    BY <1>1, <2>3 DEF Promise!Next
<1>9. CASE LaunchWithout(q)
  <2>1. saved'[q] = FALSE /\ images' = images /\ step'[q] = "recovering"
    BY <1>1, <1>9 DEF LaunchWithout, files, Goto
  <2>2. Writable'[q] = FALSE
    BY <1>6, <2>1
  <2>3. Promise!Settle
    BY <1>0, <1>4, <1>5, <2>1, <2>2, PromiseSteps
  <2>4. QED
    BY <2>3 DEF Promise!Next
<1>10. CASE LaunchUnusable(q) \/ LinkAside(q) \/ UnlinkPrimary(q) \/ SetAsideFails(q)
  <2>1. dir.primary.data \notin Unusable /\ step[q] \notin {"linking", "unlinking"}
    BY <1>1, <1>2, Names DEF PrimaryClean, Unusable
  <2>2. QED
    BY <1>10, <2>1 DEF LaunchUnusable, LinkAside, UnlinkPrimary, SetAsideFails
<1>11. CASE LoadLastGood(q)
  <2>1. /\ saved' = saved /\ images' = images /\ mayWrite' = mayWrite /\ step[q] = "recovering"
        /\ memory'[q] = IF dir.lastGood.data \in Snapshots THEN dir.lastGood.data ELSE Fresh
    BY <1>1, <1>11 DEF LoadLastGood, files
  <2>2. saved'[q] = FALSE
    BY <2>1 DEF SoloInv
  <2>3. ASSUME Writable'[q] = TRUE PROVE memory'[q] \in Stable
    <3>1. mayWrite[q] = TRUE
      BY <1>1, <1>6, <2>1, <2>3
    <3>2. dir.primary.data \notin Snapshots
      BY <2>1, <3>1, Names DEF SoloInv
    <3>3. QED
      BY <1>4, <2>1, <3>2 DEF LoadOf
  <2>4. Promise!Launch(q)
    BY <1>0, <1>5, <2>1, <2>2, <2>3, PromiseSteps
  <2>5. QED
    BY <1>1, <2>4 DEF Promise!Next
<1>12. CASE Edit(q) \/ BeginSave(q)
  <2>1. saved'[q] = FALSE /\ images' = images /\ mayWrite' = mayWrite
    BY <1>1, <1>12 DEF Edit, BeginSave, files
  <2>2. step[q] \in Saving /\ step'[q] \in Saving
    BY <1>1, <1>12 DEF Edit, BeginSave, WriteNext, Goto
  <2>3. Writable'[q] = Writable[q]
    BY <1>6, <2>1, <2>2
  <2>4. Promise!Edit(q)
    BY <1>0, <1>5, <2>1, <2>3, PromiseSteps
  <2>5. QED
    BY <1>1, <2>4 DEF Promise!Next
<1>13. ASSUME Stable' \subseteq Stable, Stable' # {}, UNCHANGED <<saved, memory, mayWrite>>,
              step[q] \in Saving, step'[q] \in Saving
       PROVE  Promise!Next
  <2>1. Writable'[q] = Writable[q]
    BY <1>6, <1>13
  <2>2. Promise!Settle
    BY <1>0, <1>13, <2>1, PromiseSteps
  <2>3. QED
    BY <2>2 DEF Promise!Next
<1>14. CASE ChooseLastGood(q) \/ WriteTemp(q) \/ SaveFails(q)
  <2>1. images' = images /\ UNCHANGED <<saved, memory, mayWrite>>
    BY <1>14 DEF ChooseLastGood, WriteTemp, SaveFails, files
  <2>2. step[q] \in Saving /\ step'[q] \in Saving
    BY <1>1, <1>14 DEF ChooseLastGood, WriteTemp, SaveFails, WriteNext, SaveOver, Goto
  <2>3. QED
    BY <1>4, <1>5, <1>13, <2>1, <2>2
<1>15. CASE RenameTemp(q)
  <2> DEFINE new == Placed(dir, target[q], temp[q])
  <2>1. /\ step[q] = "renaming" /\ step'[q] = "syncing" /\ images' = images \union {new}
        /\ UNCHANGED <<saved, memory, mayWrite>>
    BY <1>1, <1>15 DEF RenameTemp, Directory, Goto
  <2>2. Stable' = Stable \union {LoadOf(new)}
    BY <1>3, <2>1
  <2>3. temp[q].data \in Snapshots /\ mayWrite[q] = TRUE
    BY <1>1, <1>7, <2>1 DEF IInv, TempInv
  <2>4. LoadOf(new) \in Stable \union {memory[q]}
    <3>1. CASE target[q] = "primary"
      <4>1. new.primary = temp[q]
        BY <1>1, <3>1, PlacedFields
      <4>2. LoadOf(new) = temp[q].data
        BY <2>3, <4>1 DEF LoadOf
      <4>3. QED
        BY <2>1, <3>1, <4>2 DEF SoloInv
    <3>2. CASE target[q] = "lastGood"
      <4>1. new.primary = dir.primary /\ new.lastGood = temp[q]
        BY <1>1, <3>2, PlacedFields
      <4>2. CASE dir.primary.data \in Snapshots
        BY <1>4, <4>1, <4>2 DEF LoadOf
      <4>3. CASE dir.primary.data \notin Snapshots
        <5>1. LoadOf(new) = temp[q].data
          BY <2>3, <4>1, <4>3 DEF LoadOf
        <5>2. temp[q].data \in {memory[q], dir.lastGood.data}
          BY <2>1, <3>2, <4>3 DEF SoloInv
        <5>3. temp[q].data = dir.lastGood.data => LoadOf(dir) = temp[q].data
          BY <2>3, <4>3 DEF LoadOf
        <5>4. QED
          BY <1>4, <5>1, <5>2, <5>3
      <4>4. QED
        BY <4>2, <4>3
    <3>3. QED
      BY <1>1, <3>1, <3>2 DEF Targets
  <2> HIDE DEF new
  <2>5. step[q] \in Saving /\ step'[q] \in Saving
    BY <2>1
  <2>6. CASE LoadOf(new) \in Stable
    BY <1>4, <1>13, <2>1, <2>2, <2>5, <2>6
  <2>7. CASE LoadOf(new) = memory[q]
    <3>1. Writable[q] = TRUE
      BY <1>7, <2>1
    <3>2. Writable'[q] = Writable[q]
      BY <1>6, <2>1, <2>5
    <3>3. Promise!Write(q)
      BY <1>0, <2>1, <2>2, <2>7, <3>1, <3>2, PromiseSteps
    <3>4. QED
      BY <1>1, <3>3 DEF Promise!Next
  <2>8. QED
    BY <2>4, <2>6, <2>7
<1>16. CASE SyncDirectory(q)
  <2>1. step[q] = "syncing" /\ images' = {dir} /\ UNCHANGED <<memory, mayWrite>>
    BY <1>16 DEF SyncDirectory
  <2>2. Stable' = {LoadOf(dir)}
    BY <1>3, <2>1
  <2>3. step'[q] \in Saving /\ step[q] \in Saving
    BY <1>1, <1>16 DEF SyncDirectory, WriteNext, SaveOver, Goto
  <2>4. CASE target[q] = "lastGood"
    <3>1. saved' = saved
      BY <1>16, <2>4 DEF SyncDirectory
    <3>2. QED
      BY <1>4, <1>13, <2>1, <2>2, <2>3, <3>1
  <2>5. CASE target[q] = "primary"
    <3>1. dir.primary.data = memory[q] /\ memory[q] \in Snapshots
      BY <1>1, <2>1, <2>5 DEF SoloInv
    <3>2. LoadOf(dir) = memory[q]
      BY <3>1 DEF LoadOf
    <3>3. saved'[q] = TRUE
      BY <1>1, <1>16, <2>5 DEF SyncDirectory
    <3>4. Writable[q] = TRUE
      BY <1>7, <2>1
    <3>5. Writable'[q] = Writable[q]
      BY <1>6, <2>1, <2>3
    <3>6. Promise!Acknowledge(q)
      BY <1>0, <1>4, <2>1, <2>2, <3>2, <3>3, <3>4, <3>5, PromiseSteps
    <3>7. QED
      BY <1>1, <3>6 DEF Promise!Next
  <2>6. QED
    BY <1>1, <2>4, <2>5 DEF Targets
<1>17. CASE Stop(q)
  <2>1. step'[q] = "off" /\ saved'[q] = FALSE /\ images' = images
    BY <1>1, <1>17 DEF Stop, End, files
  <2>2. Stable' \subseteq Stable /\ Stable' # {}
    BY <1>4, <1>5, <2>1
  <2>3. Writable'[q] = FALSE
    BY <1>6, <2>1
  <2>4. Promise!Settle
    BY <1>0, <2>1, <2>2, <2>3, PromiseSteps
  <2>5. QED
    BY <2>4 DEF Promise!Next
<1>18. QED
  BY <1>8, <1>9, <1>10, <1>11, <1>12, <1>14, <1>15, <1>16, <1>17 DEF Launch, Save

\* A power failure settles what is stored, and nobody is left.
LEMMA PromisePower ==
  ASSUME IInv, IInv', PowerFails
  PROVE  Promise!Next
<1>1. PICK d \in images : images' = {AfterLoss(d)}
  BY DEF PowerFails
<1>2. Stable' = {LoadOf(d)}
  <2>1. Stable' = {LoadOf(AfterLoss(d))}
    BY <1>1, FoundImagesNext
  <2>2. LoadOf(AfterLoss(d)) = LoadOf(d)
    BY LossFields DEF IInv, Synced, LoadOf
  <2>3. QED
    BY <2>1, <2>2
<1>3. Stable' \in SUBSET Stable /\ Stable' # {}
  BY <1>2, FoundImages
<1>4. \A p \in Procs : step'[p] = "off"
  BY DEF PowerFails, End
<1>5. Writable' = [p \in Procs |-> Writable[p] /\ p \notin Procs]
  BY <1>4 DEF Writable
<1>6. saved' = [p \in Procs |-> saved[p] /\ p \notin Procs]
  BY DEF PowerFails, End
<1>7. memory' \in [Procs -> Snapshots]
  BY DEF IInv, Shape
<1>8. Promise!Settle
  BY <1>3, <1>5, <1>6, <1>7 DEF Promise!Settle
<1>9. QED
  BY <1>8 DEF Promise!Next

LEMMA PromiseStep ==
  ASSUME IInv, IInv', AloneInv, SoloAll, [Next]_vars
  PROVE  [contested' \/ Promise!Next]_(Promise!svars)
<1>1. CASE UNCHANGED vars
  <2>1. Stable' = Stable
    BY <1>1, FoundImages, FoundImagesNext DEF vars, files
  <2>2. Writable' = Writable /\ memory' = memory /\ saved' = saved /\ contested' = contested
    BY <1>1 DEF vars, procVars, Writable
  <2>3. QED
    BY <2>1, <2>2 DEF Promise!svars
<1>2. CASE Next /\ ~ contested'
  <2>1. ~ contested /\ damage' = damage
    BY <1>2 DEF Next
  <2>2. damage = 0 /\ \A q \in Procs : SoloInv(q)
    BY <2>1 DEF AloneInv, SoloAll
  <2>3. ~ LaterVersionSaves /\ \A f \in Targets : ~ DamageFile(f)
    BY <2>1, <2>2 DEF LaterVersionSaves, DamageFile
  <2>4. \/ PowerFails
        \/ \E q \in Procs : Launch(q) \/ Edit(q) \/ Save(q) \/ Stop(q)
    BY <1>2, <2>3 DEF Next
  <2>5. QED
    BY <2>2, <2>4, PromisePower, PromiseOfStep
<1>3. QED
  BY <1>1, <1>2

\* What a process is told about saving is true, through every failing call, kill and
\* power failure and however many processes there were before it, as long as no two are
\* at work at once and nobody else touches the files.
THEOREM ImplementsPromise == Spec => PromiseSpec
<1>1. Init => Promise!Init
  BY PromiseInit
<1>2. Init => AloneInv /\ SoloAll
  BY DEF Init, AloneInv, SoloAll, SoloInv, AtWork
<1>3. IInv /\ AloneInv /\ SoloAll /\ [Next]_vars => AloneInv' /\ SoloAll'
  BY AloneStep, SoloAllStep
<1>4. IInv /\ IInv' /\ AloneInv /\ SoloAll /\ [Next]_vars
        => [contested' \/ Promise!Next]_(Promise!svars)
  BY PromiseStep
<1>5. QED
  BY <1>1, <1>2, <1>3, <1>4, Inductive, PTL DEF Spec, PromiseSpec, Promise!Spec

================================================================================
