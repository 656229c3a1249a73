---------------------------- MODULE ResumeReviewProofs ---------------------------
(***************************************************************************)
(* What ResumeReview promises, for any surfaces, commands and directories. *)
(*                                                                         *)
(* That what runs was reviewed rests on three facts about the review: a    *)
(* row that is shown or offered has a command, only shown rows are ticked, *)
(* and no dialog outlives its window.  That a command survives a crash     *)
(* rests on one about the file: a surface it does not have, it has no      *)
(* command for.                                                            *)
(***************************************************************************)
EXTENDS ResumeReview, TLAPS

\* A row that is there has a command.
HasCommands(r) == \A s \in Surfaces : r[s] # NoRow => r[s].command # NoCommand

ReviewInv ==
  /\ HasCommands(offers) /\ HasCommands(rows)
  /\ \A s \in ticked : rows[s] # NoRow
  /\ ~ Up => dialog = "none"

SavedInv == \A s \in Surfaces : s \notin saved.surfaces => saved.row[s].command = NoCommand

IInv == TypeOK /\ ReviewInv /\ SavedInv /\ CommandSurvives /\ EditorKeepsSubject

--------------------------------------------------------------------------------
(* Rows. *)

LEMMA RowTyped ==
  ASSUME NEW c \in MaybeCommand, NEW d \in AnyDir
  PROVE  /\ Row(c, d) \in [command : MaybeCommand, dir : AnyDir]
         /\ Row(c, d).command = c /\ Row(c, d).dir = d
  BY DEF Row

LEMMA UsableTyped ==
  ASSUME NEW d \in AnyDir
  PROVE  Usable(d) \in AnyDir
  BY DEF Usable, AnyDir

LEMMA NoRowTyped ==
  /\ NoRow \in [command : MaybeCommand, dir : AnyDir] /\ NoRow.command = NoCommand
  /\ NoRows \in Rows /\ HasCommands(NoRows)
  BY DEF NoRow, NoRows, Row, MaybeCommand, AnyDir, Rows, HasCommands

\* What a snapshot has of the sessions' commands.
LEMMA SnapshotTyped ==
  ASSUME TypeOK, NEW c \in [Surfaces -> MaybeCommand]
  PROVE  /\ Snapshot(c) \in [surfaces : SUBSET Surfaces, row : Rows]
         /\ \A s \in there : shell[s] # "none" => Snapshot(c).row[s].command = c[s]
         /\ \A s \in Surfaces : s \notin Snapshot(c).surfaces =>
              Snapshot(c).row[s].command = NoCommand
<1> DEFINE r == [s \in Surfaces |->
                   IF s \in there /\ shell[s] # "none" THEN Row(c[s], Usable(known[s]))
                   ELSE NoRow]
<1>1. \A s \in Surfaces : Row(c[s], Usable(known[s])) \in [command : MaybeCommand, dir : AnyDir]
                            /\ Row(c[s], Usable(known[s])).command = c[s]
  BY RowTyped, UsableTyped DEF TypeOK
<1>2. r \in Rows
  BY <1>1, NoRowTyped DEF Rows
<1>3. \A s \in Surfaces : r[s].command = IF s \in there /\ shell[s] # "none" THEN c[s]
                                         ELSE NoCommand
  BY <1>1, NoRowTyped
<1>4. Snapshot(c).row = r /\ Snapshot(c).surfaces = there
  BY DEF Snapshot
<1>5. Snapshot(c) = [surfaces |-> there, row |-> r]
  BY DEF Snapshot
<1> HIDE DEF r
<1>6. QED
  BY <1>2, <1>3, <1>4, <1>5 DEF TypeOK

--------------------------------------------------------------------------------
(* The kinds of steps. *)

\* The state is saved, or that fails, when a command has changed.
LEMMA PersistStep ==
  ASSUME IInv, NEW c \in [Surfaces -> MaybeCommand], Persist(c), command' = c,
         UNCHANGED <<there, shell>>
  PROVE  /\ saved' \in [surfaces : SUBSET Surfaces, row : Rows] /\ unsaved' \in BOOLEAN
         /\ SavedInv' /\ CommandSurvives'
<1>1. CASE saved' = Snapshot(c) /\ unsaved' = FALSE
  <2>1. SavedInv'
    BY <1>1, SnapshotTyped DEF IInv, SavedInv
  <2>2. CommandSurvives'
    BY <1>1, SnapshotTyped DEF IInv, CommandSurvives
  <2>3. QED
    BY <1>1, <2>1, <2>2, SnapshotTyped DEF IInv
<1>2. CASE saved' = saved /\ unsaved' = TRUE
  BY <1>2 DEF IInv, TypeOK, SavedInv, CommandSurvives
<1>3. QED
  BY <1>1, <1>2 DEF Persist

\* Nothing happens to the commands of the sessions that are there, nor to the file.
LEMMA CommandsStay ==
  ASSUME IInv, UNCHANGED <<saved, unsaved>>,
         Up' => Up,
         \A s \in there' : s \in there /\ shell'[s] # "none" =>
           shell[s] # "none" /\ command'[s] = command[s],
         \A s \in there' : s \notin there => command'[s] = NoCommand /\ s \notin saved.surfaces,
         there' \subseteq Surfaces
  PROVE  SavedInv' /\ CommandSurvives'
<1>1. SavedInv'
  BY DEF IInv, SavedInv
<1>2. CommandSurvives'
  BY DEF IInv, SavedInv, CommandSurvives
<1>3. QED
  BY <1>1, <1>2

\* Nothing happens to offers and review, or they are cleared.
LEMMA ReviewStays ==
  ASSUME IInv, Up' \/ dialog' = "none",
         offers' \in {offers, NoRows},
         (rows' = rows /\ ticked' = ticked) \/ NoReview
  PROVE  ReviewInv'
<1>1. HasCommands(offers')
  BY NoRowTyped DEF IInv, ReviewInv
<1>2. HasCommands(rows') /\ \A s \in ticked' : rows'[s] # NoRow
  BY NoRowTyped DEF IInv, ReviewInv, NoReview
<1>3. HasCommands(offers)' /\ HasCommands(rows)'
  BY <1>1, <1>2 DEF HasCommands
<1>4. QED
  BY <1>2, <1>3 DEF ReviewInv

\* The process goes down.
LEMMA DownStep ==
  ASSUME IInv, Down, saved' \in [surfaces : SUBSET Surfaces, row : Rows], SavedInv'
  PROVE  IInv'
<1>1. ~ Up' /\ dialog' = "none"
  BY DEF Down, Up
<1>2. HomeDir \in AnyDir /\ NoCommand \in MaybeCommand
  BY DEF AnyDir, MaybeCommand
<1>3. TypeOK'
  <2>1. known' \in [Surfaces -> AnyDir] /\ dir' \in [Surfaces -> AnyDir]
          /\ command' \in [Surfaces -> MaybeCommand]
          /\ shell' \in [Surfaces -> {"none", "live", "exited"}]
    BY <1>2 DEF Down
  <2>2. runs' \in [Surfaces -> Nat]
    BY DEF Down
  <2>3. /\ offers' \in Rows /\ rows' \in Rows
        /\ ticked' \in SUBSET Surfaces /\ subject' \in SUBSET Surfaces
    BY NoRowTyped DEF Down, NoReview
  <2>4. QED
    BY <1>1, <2>1, <2>2, <2>3 DEF Down, IInv, TypeOK
<1>4. ReviewInv'
  BY <1>1, ReviewStays DEF Down
<1>5. CommandSurvives' /\ EditorKeepsSubject'
  BY <1>1 DEF CommandSurvives, EditorKeepsSubject
<1>6. QED
  BY <1>3, <1>4, <1>5 DEF IInv

--------------------------------------------------------------------------------
(* A launch. *)

LEMMA LaunchStep == ASSUME IInv, Launch PROVE IInv'
<1> DEFINE restored == IF saved.surfaces = {} THEN {active} ELSE saved.surfaces
           row(s)   == Row(saved.row[s].command, Usable(saved.row[s].dir))
<1>0. TypeOK
  BY DEF IInv
<1>1. PICK failed \in SUBSET (restored \ {active'}) :
        /\ shell' = [s \in Surfaces |-> IF s \in restored \ failed THEN "live" ELSE "none"]
        /\ command' = [s \in Surfaces |-> IF s \in restored \ failed
                                          THEN row(s).command ELSE NoCommand]
  BY DEF Launch, Spawned, SavedOffers, Restored, RestoredRow
<1>2. /\ there' = restored /\ active' \in restored
      /\ dir' = [s \in Surfaces |-> row(s).dir] /\ known' = [s \in Surfaces |-> row(s).dir]
      /\ offers' = [s \in Surfaces |->
                      IF saved.row[s].command = NoCommand THEN NoRow ELSE row(s)]
      /\ UNCHANGED <<saved, gone, review, unsaved, runs>>
  BY DEF Launch, Spawned, SavedOffers, Restored, RestoredRow
<1>3. restored \in SUBSET Surfaces /\ saved.row \in Rows
  BY <1>0 DEF TypeOK
<1>4. \A s \in Surfaces :
        /\ saved.row[s].command \in MaybeCommand
        /\ row(s) \in [command : MaybeCommand, dir : AnyDir]
        /\ row(s).command = saved.row[s].command
        /\ row(s).dir \in AnyDir
  <2> SUFFICES ASSUME NEW s \in Surfaces
               PROVE  /\ saved.row[s].command \in MaybeCommand
                      /\ row(s) \in [command : MaybeCommand, dir : AnyDir]
                      /\ row(s).command = saved.row[s].command
                      /\ row(s).dir \in AnyDir
    OBVIOUS
  <2>1. saved.row[s].command \in MaybeCommand /\ saved.row[s].dir \in AnyDir
    BY <1>3 DEF Rows
  <2>2. QED
    BY <2>1, RowTyped, UsableTyped
<1> HIDE DEF restored, row
<1>5. TypeOK'
  <2>1. shell' \in [Surfaces -> {"none", "live", "exited"}]
    BY <1>1
  <2>2. command' \in [Surfaces -> MaybeCommand]
    BY <1>1, <1>4 DEF MaybeCommand
  <2>3. dir' \in [Surfaces -> AnyDir] /\ known' \in [Surfaces -> AnyDir]
    BY <1>2, <1>4
  <2>4. offers' \in Rows
    BY <1>2, <1>4, NoRowTyped DEF Rows
  <2>5. there' \in SUBSET Surfaces /\ active' \in there' /\ active' \in Surfaces
    BY <1>2, <1>3
  <2>6. UNCHANGED <<saved, gone, dialog, rows, ticked, subject, unsaved, runs>>
    BY <1>2 DEF review
  <2>7. QED
    BY <1>0, <2>1, <2>2, <2>3, <2>4, <2>5, <2>6 DEF TypeOK
<1>6. Up' /\ dialog' = "none"
  BY <1>2 DEF Launch, Up, review, IInv, ReviewInv
<1>7. ReviewInv'
  <2>1. HasCommands(offers)'
    BY <1>2, <1>4 DEF HasCommands
  <2>2. HasCommands(rows)' /\ \A s \in ticked' : rows'[s] # NoRow
    BY <1>2 DEF review, IInv, ReviewInv, HasCommands
  <2>3. QED
    BY <1>6, <2>1, <2>2 DEF ReviewInv
<1>8. SavedInv'
  BY <1>2 DEF IInv, SavedInv
<1>9. CommandSurvives'
  <2>1. \A s \in there' : shell'[s] # "none" => saved'.row[s].command = command'[s]
    BY <1>1, <1>2, <1>3, <1>4
  <2>2. QED
    BY <2>1 DEF CommandSurvives
<1>10. QED
  BY <1>5, <1>6, <1>7, <1>8, <1>9 DEF IInv, EditorKeepsSubject

--------------------------------------------------------------------------------
LEMMA StepKeeps == IInv /\ [Next]_vars => IInv'
<1> SUFFICES ASSUME IInv, [Next]_vars PROVE IInv'
  OBVIOUS
<1>0. TypeOK
  BY DEF IInv
<1> USE DEF session, review
<1>1. CASE Launch
  BY <1>1, LaunchStep
<1>2. CASE Quit
  <2>1. saved' \in [surfaces : SUBSET Surfaces, row : Rows]
    BY <1>0, <1>2, SnapshotTyped DEF Quit, TypeOK
  <2>2. SavedInv'
    BY <1>0, <1>2, SnapshotTyped DEF Quit, TypeOK, IInv, SavedInv
  <2>3. QED
    BY <1>2, <2>1, <2>2, DownStep DEF Quit
<1>3. CASE Crash
  BY <1>0, <1>3, DownStep DEF Crash, TypeOK, IInv, SavedInv
<1>4. CASE PresentOffers
  <2>1. TypeOK'
    BY <1>0, <1>4, NoRowTyped DEF PresentOffers, TypeOK, Up
  <2>2. ReviewInv'
    <3>1. Up' /\ offers' = NoRows
      BY <1>4 DEF PresentOffers, Up
    <3>2. (rows' = offers /\ ticked' = {}) \/ (rows' = rows /\ ticked' = ticked)
      BY <1>4 DEF PresentOffers
    <3>3. HasCommands(offers') /\ HasCommands(rows') /\ \A s \in ticked' : rows'[s] # NoRow
      BY <3>1, <3>2, NoRowTyped DEF IInv, ReviewInv
    <3>4. QED
      BY <3>1, <3>3 DEF ReviewInv, HasCommands
  <2>3. SavedInv' /\ CommandSurvives'
    BY <1>0, <1>4, CommandsStay DEF PresentOffers, TypeOK, Up
  <2>4. EditorKeepsSubject'
    BY <1>4 DEF PresentOffers, IInv, EditorKeepsSubject, Up
  <2>5. QED
    BY <2>1, <2>2, <2>3, <2>4 DEF IInv
<1>5. ASSUME NEW s \in Surfaces, Tick(s) PROVE IInv'
  <2>1. TypeOK'
    BY <1>0, <1>5 DEF Tick, TypeOK, Up
  <2>2. ReviewInv'
    BY <1>5 DEF Tick, Offered, IInv, ReviewInv, HasCommands, Up
  <2>3. SavedInv' /\ CommandSurvives'
    BY <1>0, <1>5, CommandsStay DEF Tick, TypeOK, Up
  <2>4. EditorKeepsSubject'
    BY <1>5 DEF Tick, EditorKeepsSubject
  <2>5. QED
    BY <2>1, <2>2, <2>3, <2>4 DEF IInv
<1>6. CASE RunSelected
  <2>1. runs' \in [Surfaces -> Nat]
    BY <1>0, <1>6 DEF RunSelected, TypeOK
  <2>2. TypeOK'
    BY <1>0, <1>6, <2>1, NoRowTyped DEF RunSelected, NoReview, TypeOK, Up
  <2>3. ReviewInv'
    BY <1>6, ReviewStays DEF RunSelected
  <2>4. SavedInv' /\ CommandSurvives'
    BY <1>0, <1>6, CommandsStay DEF RunSelected, TypeOK, Up
  <2>5. EditorKeepsSubject'
    BY <1>6 DEF RunSelected, EditorKeepsSubject
  <2>6. QED
    BY <2>2, <2>3, <2>4, <2>5 DEF IInv
<1>7. CASE CloseDialog
  <2>0. offers' \in {offers, NoRows}
    BY <1>7 DEF CloseDialog
  <2>1. TypeOK'
    BY <1>0, <1>7, <2>0, NoRowTyped DEF CloseDialog, NoReview, TypeOK, Up
  <2>2. ReviewInv'
    BY <1>7, <2>0, ReviewStays DEF CloseDialog
  <2>3. SavedInv' /\ CommandSurvives'
    BY <1>0, <1>7, CommandsStay DEF CloseDialog, TypeOK, Up
  <2>4. EditorKeepsSubject'
    BY <1>7 DEF CloseDialog, EditorKeepsSubject
  <2>5. QED
    BY <2>1, <2>2, <2>3, <2>4 DEF IInv
<1>8. CASE OpenOther \/ OpenEditor
  <2>1. TypeOK'
    BY <1>0, <1>8 DEF OpenOther, OpenEditor, TypeOK, Up
  <2>2. ReviewInv'
    BY <1>8, ReviewStays DEF OpenOther, OpenEditor, Up
  <2>3. SavedInv' /\ CommandSurvives'
    BY <1>0, <1>8, CommandsStay DEF OpenOther, OpenEditor, TypeOK, Up
  <2>4. EditorKeepsSubject'
    BY <1>8 DEF OpenOther, OpenEditor, EditorKeepsSubject
  <2>5. QED
    BY <2>1, <2>2, <2>3, <2>4 DEF IInv
<1>9. ASSUME NEW c \in MaybeCommand, SaveEditor(c) PROVE IInv'
  <2>1. command' \in [Surfaces -> MaybeCommand]
    BY <1>0, <1>9 DEF SaveEditor, TypeOK
  <2>2. Persist(command') /\ UNCHANGED <<there, shell>>
    BY <1>9 DEF SaveEditor
  <2>3. /\ saved' \in [surfaces : SUBSET Surfaces, row : Rows] /\ unsaved' \in BOOLEAN
        /\ SavedInv' /\ CommandSurvives'
    BY <2>1, <2>2, PersistStep
  <2>4. TypeOK'
    BY <1>0, <1>9, <2>1, <2>3 DEF SaveEditor, TypeOK, Up
  <2>5. ReviewInv'
    BY <1>9, ReviewStays DEF SaveEditor, Up
  <2>6. EditorKeepsSubject'
    BY <1>9 DEF SaveEditor, EditorKeepsSubject
  <2>7. QED
    BY <2>3, <2>4, <2>5, <2>6 DEF IInv
<1>10. ASSUME NEW s \in Surfaces, NEW c \in MaybeCommand, Capture(s, c) PROVE IInv'
  <2>1. command' \in [Surfaces -> MaybeCommand]
    BY <1>0, <1>10 DEF Capture, TypeOK
  <2>2. Persist(command') /\ UNCHANGED <<there, shell>>
    BY <1>10 DEF Capture
  <2>3. /\ saved' \in [surfaces : SUBSET Surfaces, row : Rows] /\ unsaved' \in BOOLEAN
        /\ SavedInv' /\ CommandSurvives'
    BY <2>1, <2>2, PersistStep
  <2>4. known' \in [Surfaces -> AnyDir]
    BY <1>0, <1>10 DEF Capture, TypeOK
  <2>5. TypeOK'
    BY <1>0, <1>10, <2>1, <2>3, <2>4 DEF Capture, TypeOK, Up
  <2>6. ReviewInv'
    BY <1>10, ReviewStays DEF Capture, Up
  <2>7. EditorKeepsSubject'
    BY <1>10 DEF Capture, IInv, EditorKeepsSubject, Up
  <2>8. QED
    BY <2>3, <2>5, <2>6, <2>7 DEF IInv
<1>11. ASSUME \/ Pump \/ \E s \in Surfaces, d \in AnyDir : ChangeDir(s, d)
       PROVE IInv'
  <2>1. dir' \in [Surfaces -> AnyDir] /\ known' \in [Surfaces -> AnyDir]
    BY <1>0, <1>11 DEF Pump, ChangeDir, TypeOK
  <2>2. TypeOK'
    BY <1>0, <1>11, <2>1 DEF Pump, ChangeDir, TypeOK, Up
  <2>3. ReviewInv'
    BY <1>11, ReviewStays DEF Pump, ChangeDir, Up
  <2>4. SavedInv' /\ CommandSurvives'
    BY <1>0, <1>11, CommandsStay DEF Pump, ChangeDir, TypeOK, Up
  <2>5. EditorKeepsSubject'
    BY <1>11 DEF Pump, ChangeDir, IInv, EditorKeepsSubject, Up
  <2>6. QED
    BY <2>2, <2>3, <2>4, <2>5 DEF IInv
<1>12. ASSUME NEW d \in Dirs, RemoveDir(d) PROVE IInv'
  <2>1. TypeOK'
    BY <1>0, <1>12 DEF RemoveDir, TypeOK, Up
  <2>2. ReviewInv'
    BY <1>12, ReviewStays DEF RemoveDir, Up, IInv, ReviewInv
  <2>3. SavedInv' /\ CommandSurvives'
    BY <1>0, <1>12, CommandsStay DEF RemoveDir, TypeOK, Up
  <2>4. EditorKeepsSubject'
    BY <1>12 DEF RemoveDir, IInv, EditorKeepsSubject, Up
  <2>5. QED
    BY <2>1, <2>2, <2>3, <2>4 DEF IInv
<1>13. ASSUME NEW s \in Surfaces, ShellExits(s) PROVE IInv'
  <2>1. shell' \in [Surfaces -> {"none", "live", "exited"}] /\ dir' \in [Surfaces -> AnyDir]
    BY <1>0, <1>13 DEF ShellExits, TypeOK, AnyDir
  <2>2. TypeOK'
    BY <1>0, <1>13, <2>1 DEF ShellExits, TypeOK, Up
  <2>3. ReviewInv'
    BY <1>13, ReviewStays DEF ShellExits, Up
  <2>4. SavedInv' /\ CommandSurvives'
    BY <1>0, <1>13, CommandsStay DEF ShellExits, TypeOK, Up
  <2>5. EditorKeepsSubject'
    BY <1>13 DEF ShellExits, IInv, EditorKeepsSubject, Up
  <2>6. QED
    BY <2>2, <2>3, <2>4, <2>5 DEF IInv
<1>14. ASSUME NEW s \in Surfaces, Select(s) PROVE IInv'
  <2>1. TypeOK'
    BY <1>0, <1>14 DEF Select, TypeOK, Up
  <2>2. ReviewInv'
    BY <1>14, ReviewStays DEF Select, Up
  <2>3. SavedInv' /\ CommandSurvives'
    BY <1>0, <1>14, CommandsStay DEF Select, TypeOK, Up
  <2>4. EditorKeepsSubject'
    BY <1>14 DEF Select, NotPaused, EditorKeepsSubject
  <2>5. QED
    BY <2>1, <2>2, <2>3, <2>4 DEF IInv
<1>15. ASSUME NEW s \in Surfaces, OpenSurface(s) PROVE IInv'
  <2>1. /\ shell' \in [Surfaces -> {"none", "live", "exited"}]
        /\ command' \in [Surfaces -> MaybeCommand]
        /\ dir' \in [Surfaces -> AnyDir] /\ known' \in [Surfaces -> AnyDir]
    BY <1>0, <1>15 DEF OpenSurface, TypeOK, MaybeCommand, AnyDir
  <2>2. there' = there \union {s} /\ active' = s /\ Up'
          /\ UNCHANGED <<saved, gone, offers, dialog, rows, ticked, subject, unsaved, runs>>
    BY <1>15 DEF OpenSurface, Up
  <2>3. TypeOK'
    BY <1>0, <2>1, <2>2 DEF TypeOK
  <2>4. ReviewInv'
    BY <2>2, ReviewStays
  <2>5. SavedInv' /\ CommandSurvives'
    BY <1>0, <1>15, CommandsStay DEF OpenSurface, TypeOK, Up
  <2>6. EditorKeepsSubject'
    BY <1>15 DEF OpenSurface, NotPaused, EditorKeepsSubject
  <2>7. QED
    BY <2>3, <2>4, <2>5, <2>6 DEF IInv
<1>16. ASSUME NEW s \in Surfaces, CloseSurface(s) PROVE IInv'
  <2>1. /\ shell' \in [Surfaces -> {"none", "live", "exited"}]
        /\ command' \in [Surfaces -> MaybeCommand]
        /\ dir' \in [Surfaces -> AnyDir] /\ known' \in [Surfaces -> AnyDir]
    BY <1>0, <1>16 DEF CloseSurface, TypeOK, MaybeCommand, AnyDir
  <2>2. there' = there \ {s} /\ active \in there' /\ Up'
          /\ UNCHANGED <<saved, active, gone, offers, dialog, rows, ticked, subject,
                         unsaved, runs>>
    BY <1>0, <1>16 DEF CloseSurface, TypeOK, Up
  <2>3. TypeOK'
    BY <1>0, <2>1, <2>2 DEF TypeOK
  <2>4. ReviewInv'
    BY <2>2, ReviewStays
  <2>5. SavedInv' /\ CommandSurvives'
    BY <1>0, <1>16, CommandsStay DEF CloseSurface, TypeOK, Up
  <2>6. EditorKeepsSubject'
    BY <1>16 DEF CloseSurface, NotPaused, EditorKeepsSubject
  <2>7. QED
    BY <2>3, <2>4, <2>5, <2>6 DEF IInv
<1>17. CASE UNCHANGED vars
  <2>1. TypeOK'
    BY <1>0, <1>17 DEF vars, TypeOK, Up
  <2>2. ReviewInv'
    BY <1>17, ReviewStays DEF vars, Up, IInv, ReviewInv
  <2>3. SavedInv' /\ CommandSurvives'
    BY <1>0, <1>17, CommandsStay DEF vars, TypeOK, Up
  <2>4. EditorKeepsSubject'
    BY <1>17 DEF vars, IInv, EditorKeepsSubject, Up
  <2>5. QED
    BY <2>1, <2>2, <2>3, <2>4 DEF IInv
<1>18. QED
  BY <1>1, <1>2, <1>3, <1>4, <1>5, <1>6, <1>7, <1>8, <1>9, <1>10, <1>11, <1>12, <1>13,
     <1>14, <1>15, <1>16, <1>17 DEF Next, Review, Shells

LEMMA Inductive == Spec => []IInv
<1>1. Init => IInv
  <2> SUFFICES ASSUME Init PROVE IInv
    OBVIOUS
  <2>1. TypeOK
    BY NoRowTyped DEF Init, TypeOK, Up, MaybeCommand, AnyDir
  <2>2. ReviewInv
    BY NoRowTyped DEF Init, ReviewInv
  <2>3. SavedInv
    BY NoRowTyped DEF Init, SavedInv, NoRows
  <2>4. CommandSurvives /\ EditorKeepsSubject
    BY DEF Init, CommandSurvives, EditorKeepsSubject, Up
  <2>5. QED
    BY <2>1, <2>2, <2>3, <2>4 DEF IInv
<1>2. QED
  BY <1>1, StepKeeps, PTL DEF Spec

--------------------------------------------------------------------------------
(* What follows from it. *)

\* The shape of the state.
THEOREM TypeCorrect == Spec => []TypeOK
  BY Inductive, PTL DEF IInv

\* The file has the commands of the sessions that are there, unless it could not be
\* written.
THEOREM CommandsSurvive == Spec => []CommandSurvives
  BY Inductive, PTL DEF IInv

\* The editor saves to the surface it shows.
THEOREM EditorsKeepSubject == Spec => []EditorKeepsSubject
  BY Inductive, PTL DEF IInv

\* Nothing is typed into a shell that was not ticked in a review of this launch, or is no
\* longer the command of that session.
THEOREM OnlyReviewedCommandsRun == Spec => OnlyReviewedRuns
<1> DEFINE Reviewed == \A s \in Surfaces :
       runs'[s] > runs[s] =>
         /\ dialog = "review" /\ s \in ticked
         /\ rows[s].command = command[s] /\ command[s] # NoCommand
         /\ s \in there /\ shell[s] = "live"
<1>1. IInv /\ [Next]_vars => Reviewed
  <2> SUFFICES ASSUME IInv, [Next]_vars PROVE Reviewed
    OBVIOUS
  <2>0. runs \in [Surfaces -> Nat]
    BY DEF IInv, TypeOK
  <2>1. CASE RunSelected
    <3> SUFFICES ASSUME NEW s \in Surfaces, runs'[s] > runs[s]
                 PROVE  /\ dialog = "review" /\ s \in ticked
                        /\ rows[s].command = command[s] /\ command[s] # NoCommand
                        /\ s \in there /\ shell[s] = "live"
      OBVIOUS
    <3>1. s \in ticked /\ Executable(s)
      BY <2>0, <2>1 DEF RunSelected
    <3>2. rows[s].command # NoCommand
      BY <3>1 DEF IInv, ReviewInv, HasCommands
    <3>3. QED
      BY <2>1, <3>1, <3>2 DEF RunSelected, Executable
  <2>2. CASE Down
    BY <2>0, <2>2 DEF Down
  <2>3. CASE UNCHANGED runs
    BY <2>0, <2>3
  <2>4. CASE Next
    BY <2>1, <2>2, <2>3, <2>4 DEF Next, Quit, Crash, Launch, Review, Shells, PresentOffers,
       CloseDialog, OpenOther, OpenEditor, Tick, SaveEditor, Capture, ChangeDir, ShellExits,
       Pump, RemoveDir, Select, OpenSurface, CloseSurface
  <2>5. QED
    BY <2>3, <2>4 DEF vars
<1>2. QED
  BY <1>1, Inductive, PTL DEF Spec, OnlyReviewedRuns

================================================================================
