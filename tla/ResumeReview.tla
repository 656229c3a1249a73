------------------------------- MODULE ResumeReview ----------------------------
(***************************************************************************)
(* Resume commands: a program tells the terminal how to start it again,    *)
(* the command is saved with the session, and the next launch offers it    *)
(* for review.                                                             *)
(*                                                                         *)
(*   rust/app/src/terminal.rs  on_user_var, pump_pty, refresh_cwd,         *)
(*                             snapshot, persist_state_now, initialize,    *)
(*                             resume_current_state, run_resume_commands   *)
(*   rust/app/src/restore.rs   restored_product                            *)
(*   rust/app/src/dialogs.rs   request_resume_command,                     *)
(*                             present_resume_offers                       *)
(*   rust/model/src/resume.rs  ResumeCommandSelectionPolicy                *)
(*                                                                         *)
(* A surface stands for itself and its pane.  Surfaces with an SSH profile *)
(* save no command and are left out, as are windows without a state file   *)
(* that may be written and launches that do not restore the layout.  The   *)
(* file is replaced as a whole: how that fails half-way is the subject of  *)
(* StateStore.                                                             *)
(***************************************************************************)
EXTENDS Naturals, FiniteSets

CONSTANTS
  Surfaces,             \* names for surfaces
  Commands,             \* resume commands
  NoCommand,            \* resume_command is None
  Dirs,                 \* directories other than the user's home
  HomeDir               \* account_home

ASSUME NamesAssumption == NoCommand \notin Commands /\ HomeDir \notin Dirs

VARIABLES
  saved,                \* the state file: its surfaces, their commands and directories
  there,                \* the surfaces of the hierarchy; none while no window is up
  active,               \* active_surface_id
  shell,                \* shell[s]: "none" (no session), "live" or "exited"
  command,              \* command[s]: resume_command of the session
  dir,                  \* dir[s]: the directory the shell of s is in, while it lives
  known,                \* known[s]: last_cwd, what the program knows of that
  gone,                 \* directories that have been removed
  offers,               \* pending_resume_offers, each surface with its row
  dialog,               \* "none", "review", "editor", or "other" guarded dialogs
  rows,                 \* displayed_rows of the review
  ticked,               \* selected
  subject,              \* the surface whose command the editor shows, {} without editor
  unsaved,              \* the last attempt to save the state failed
  runs                  \* runs[s]: commands written to s in this launch

session  == <<shell, command, dir, known>>
review   == <<dialog, rows, ticked, subject>>
vars == <<saved, there, active, session, gone, offers, review, unsaved, runs>>

MaybeCommand == Commands \union {NoCommand}
AnyDir       == Dirs \union {HomeDir}

Row(c, d) == [command |-> c, dir |-> d]
NoRow     == Row(NoCommand, HomeDir)
NoRows    == [s \in Surfaces |-> NoRow]
NoReview  == rows' = NoRows /\ ticked' = {} /\ subject' = {}
Offered(r) == {s \in Surfaces : r[s] # NoRow}

\* valid_restored_cwd, home otherwise.
Usable(d) == IF d \in gone THEN HomeDir ELSE d

Up == there # {}

Init ==
  /\ saved = [surfaces |-> {}, row |-> NoRows]
  /\ there = {}
  /\ active \in Surfaces
  /\ shell = [s \in Surfaces |-> "none"]
  /\ command = [s \in Surfaces |-> NoCommand]
  /\ dir = [s \in Surfaces |-> HomeDir]
  /\ known = [s \in Surfaces |-> HomeDir]
  /\ gone = {}
  /\ offers = NoRows
  /\ dialog = "none" /\ rows = NoRows /\ ticked = {} /\ subject = {}
  /\ unsaved = FALSE
  /\ runs = [s \in Surfaces |-> 0]

--------------------------------------------------------------------------------
(* The state file. *)

\* snapshot(): a surface without a session is written without its command.
Snapshot(c) ==
  [surfaces |-> there,
   row |-> [s \in Surfaces |->
              IF s \in there /\ shell[s] # "none" THEN Row(c[s], Usable(known[s]))
              ELSE NoRow]]

\* A mistake Persist avoids: the state is only saved at the end.
PersistLater(c) == UNCHANGED <<saved, unsaved>>

\* persist_state_now, when the sessions' commands have become c.
Persist(c) ==
  \/ saved' = Snapshot(c) /\ unsaved' = FALSE
  \/ saved' = saved /\ unsaved' = TRUE

--------------------------------------------------------------------------------
(* A launch. *)

\* restored_product: the surfaces of the state file, or one new one.  A row has the
\* directory its session is started in, and a saved command becomes an offer.
Restored       == IF saved.surfaces = {} THEN {active} ELSE saved.surfaces
RestoredRow(s) == Row(saved.row[s].command, Usable(saved.row[s].dir))
SavedOffers ==
  [s \in Surfaces |-> IF saved.row[s].command = NoCommand THEN NoRow ELSE RestoredRow(s)]

\* spawn_restored_surface, for those of the surfaces for which it succeeds.
Spawned(started) ==
  /\ shell' = [s \in Surfaces |-> IF s \in started THEN "live" ELSE "none"]
  /\ command' = [s \in Surfaces |-> IF s \in started THEN RestoredRow(s).command ELSE NoCommand]
  /\ dir' = [s \in Surfaces |-> RestoredRow(s).dir]
  /\ known' = [s \in Surfaces |-> RestoredRow(s).dir]

\* initialize: the active surface gets a session, another one may fail to.
Launch ==
  /\ ~ Up
  /\ there' = Restored
  /\ active' \in Restored
  /\ \E failed \in SUBSET (Restored \ {active'}) : Spawned(Restored \ failed)
  /\ offers' = SavedOffers
  /\ UNCHANGED <<saved, gone, review, unsaved, runs>>

\* present_resume_offers, from the idle loop: the offers are taken, and lost for this
\* launch when a dialog is open already.
PresentOffers ==
  /\ Up /\ offers # NoRows
  /\ offers' = NoRows
  /\ IF dialog = "none" THEN dialog' = "review" /\ rows' = offers /\ ticked' = {}
     ELSE UNCHANGED <<dialog, rows, ticked>>
  /\ UNCHANGED <<saved, there, active, session, gone, subject, unsaved, runs>>

\* The process is gone, and with it everything it remembered.
Down ==
  /\ there' = {}
  /\ shell' = [s \in Surfaces |-> "none"]
  /\ command' = [s \in Surfaces |-> NoCommand]
  /\ dir' = [s \in Surfaces |-> HomeDir] /\ known' = dir'
  /\ offers' = NoRows
  /\ dialog' = "none" /\ NoReview
  /\ unsaved' = FALSE
  /\ runs' = [s \in Surfaces |-> 0]
  /\ UNCHANGED <<active, gone>>

\* The window is closed: shutdown() saves the state, or fails to.
Quit == Up /\ Down /\ saved' \in {Snapshot(command), saved}

Crash == Up /\ Down /\ UNCHANGED saved

--------------------------------------------------------------------------------
(* The review. *)

\* set_selected
Tick(s) ==
  /\ Up /\ dialog = "review" /\ s \in Offered(rows)
  /\ ticked' = IF s \in ticked THEN ticked \ {s} ELSE ticked \union {s}
  /\ UNCHANGED <<saved, there, active, session, gone, offers, dialog, rows, subject,
                 unsaved, runs>>

\* A mistake Executable avoids: the command is not compared again.
ExecutableAnyway(s) == shell[s] = "live" /\ s \in there

\* executable_rows for the current state of s, and the session looked at once more.
Executable(s) ==
  /\ s \in there /\ shell[s] = "live"
  /\ Usable(known[s]) = rows[s].dir
  /\ command[s] = rows[s].command

\* Run selected: the dialog closes, then each ticked command is checked again and typed.
RunSelected ==
  /\ Up /\ dialog = "review" /\ ticked # {}
  /\ dialog' = "none" /\ NoReview
  /\ runs' = [s \in Surfaces |-> runs[s] + IF s \in ticked /\ Executable(s) THEN 1 ELSE 0]
  /\ UNCHANGED <<saved, there, active, session, gone, offers, unsaved>>

\* Don't Run, Cancel, Escape, or the end of a dialog of another kind.
CloseDialog ==
  /\ Up /\ dialog # "none"
  /\ dialog' = "none" /\ NoReview
  /\ offers' \in IF dialog = "review" THEN {offers, NoRows} ELSE {offers}
  /\ UNCHANGED <<saved, there, active, session, gone, unsaved, runs>>

OpenOther ==
  /\ Up /\ dialog = "none"
  /\ dialog' = "other"
  /\ UNCHANGED <<saved, there, active, session, gone, offers, rows, ticked, subject,
                 unsaved, runs>>

\* request_resume_command: the editor shows the command of the active surface ...
OpenEditor ==
  /\ Up /\ dialog = "none"
  /\ dialog' = "editor"
  /\ subject' = {active}
  /\ UNCHANGED <<saved, there, active, session, gone, offers, rows, ticked, unsaved, runs>>

\* ... and Save writes to the surface that is active then, and closes.
SaveEditor(c) ==
  /\ Up /\ dialog = "editor"
  /\ command' = [command EXCEPT ![active] = c]
  /\ Persist(command')
  /\ dialog' = "none" /\ subject' = {}
  /\ UNCHANGED <<there, active, shell, dir, known, gone, offers, rows, ticked, runs>>

--------------------------------------------------------------------------------
(* What goes on meanwhile. *)

\* on_user_var and the rest of pump_pty: the output of a shell names a resume command
\* (valid_resume_command made it None or a command), and the state is saved.
Capture(s, c) ==
  /\ Up /\ shell[s] = "live"
  /\ command' = [command EXCEPT ![s] = c]
  /\ Persist(command')
  /\ known' = IF s = active THEN [known EXCEPT ![s] = dir[s]] ELSE known
  /\ UNCHANGED <<there, active, shell, dir, gone, offers, review, runs>>

\* pump_pty: output of the active shell refreshes what is known of its directory.
Pump ==
  /\ Up /\ shell[active] = "live"
  /\ known' = [known EXCEPT ![active] = dir[active]]
  /\ UNCHANGED <<saved, there, active, shell, command, dir, gone, offers, review, unsaved,
                 runs>>

ChangeDir(s, d) ==
  /\ Up /\ shell[s] = "live" /\ d \notin gone
  /\ dir' = [dir EXCEPT ![s] = d]
  /\ UNCHANGED <<saved, there, active, shell, command, known, gone, offers, review, unsaved,
                 runs>>

RemoveDir(d) ==
  /\ gone' = gone \union {d}
  /\ d \notin gone
  /\ UNCHANGED <<saved, there, active, session, offers, review, unsaved, runs>>

ShellExits(s) ==
  /\ Up /\ shell[s] = "live"
  /\ shell' = [shell EXCEPT ![s] = "exited"]
  /\ dir' = [dir EXCEPT ![s] = HomeDir]
  /\ UNCHANGED <<saved, there, active, command, known, gone, offers, review, unsaved, runs>>

\* A mistake NotPaused avoids: requests run while a dialog is open.
NeverPaused == TRUE

\* Control requests are answered "busy" while a dialog is open; users are held up by it.
NotPaused == dialog = "none"

Select(s) ==
  /\ Up /\ NotPaused
  /\ s \in there /\ shell[s] # "none"
  /\ active' = s
  /\ UNCHANGED <<saved, there, session, gone, offers, review, unsaved, runs>>

OpenSurface(s) ==
  /\ Up /\ NotPaused
  /\ s \notin there \union saved.surfaces
  /\ there' = there \union {s}
  /\ active' = s
  /\ shell' = [shell EXCEPT ![s] = "live"]
  /\ command' = [command EXCEPT ![s] = NoCommand]
  /\ dir' = [dir EXCEPT ![s] = HomeDir]
  /\ known' = [known EXCEPT ![s] = HomeDir]
  /\ UNCHANGED <<saved, gone, offers, review, unsaved, runs>>

CloseSurface(s) ==
  /\ Up /\ NotPaused
  /\ s \in there \ {active}
  /\ there' = there \ {s}
  /\ shell' = [shell EXCEPT ![s] = "none"]
  /\ command' = [command EXCEPT ![s] = NoCommand]
  /\ dir' = [dir EXCEPT ![s] = HomeDir]
  /\ known' = [known EXCEPT ![s] = HomeDir]
  /\ UNCHANGED <<saved, active, gone, offers, review, unsaved, runs>>

--------------------------------------------------------------------------------
Review ==
  \/ PresentOffers \/ RunSelected \/ CloseDialog \/ OpenOther \/ OpenEditor
  \/ \E s \in Surfaces : Tick(s)
  \/ \E c \in MaybeCommand : SaveEditor(c)

Shells ==
  \/ \E s \in Surfaces :
       \/ \E c \in MaybeCommand : Capture(s, c)
       \/ \E d \in AnyDir : ChangeDir(s, d)
       \/ ShellExits(s)
  \/ Pump
  \/ \E d \in Dirs : RemoveDir(d)

Next ==
  \/ Launch \/ Quit \/ Crash
  \/ Review \/ Shells
  \/ \E s \in Surfaces : Select(s) \/ OpenSurface(s) \/ CloseSurface(s)

Spec == Init /\ [][Next]_vars

--------------------------------------------------------------------------------
(* Properties *)

Rows == [Surfaces -> [command : MaybeCommand, dir : AnyDir]]

TypeOK ==
  /\ saved \in [surfaces : SUBSET Surfaces, row : Rows]
  /\ there \in SUBSET Surfaces
  /\ active \in Surfaces /\ (Up => active \in there)
  /\ shell \in [Surfaces -> {"none", "live", "exited"}]
  /\ command \in [Surfaces -> MaybeCommand]
  /\ dir \in [Surfaces -> AnyDir] /\ known \in [Surfaces -> AnyDir]
  /\ gone \in SUBSET Dirs
  /\ offers \in Rows /\ rows \in Rows
  /\ dialog \in {"none", "review", "editor", "other"}
  /\ ticked \in SUBSET Surfaces /\ subject \in SUBSET Surfaces
  /\ unsaved \in BOOLEAN
  /\ runs \in [Surfaces -> Nat]

\* A crash loses no command: of every session, the state file has the command it was
\* last told, unless the last attempt to write the file failed.
CommandSurvives ==
  Up /\ ~ unsaved =>
    \A s \in there : shell[s] # "none" => saved.row[s].command = command[s]

\* "Never executed by loading, importing, or restoring": what is typed into a shell was
\* ticked in the review of this launch, and is still the command of a live session of
\* that surface, however much its programs told since the review was shown.
OnlyReviewedRuns ==
  [][\A s \in Surfaces :
       runs'[s] > runs[s] =>
         /\ dialog = "review" /\ s \in ticked
         /\ rows[s].command = command[s] /\ command[s] # NoCommand
         /\ s \in there /\ shell[s] = "live"]_vars

\* The editor saves to the surface whose command it shows.
EditorKeepsSubject == Up /\ dialog = "editor" => subject = {active}

================================================================================
