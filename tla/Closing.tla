-------------------------------- MODULE Closing --------------------------------
(***************************************************************************)
(* The ways a terminal session or the window is closed, and the review     *)
(* that stands between a close and a program that is running.              *)
(*                                                                         *)
(*   rust/app/src/dialogs.rs   request_navigation_command, the guarded     *)
(*                             dialogs                                     *)
(*   rust/app/src/window.rs    the handler of the window's close request   *)
(*   rust/app/src/control.rs   control_close, the pause while a dialog is  *)
(*                             open                                        *)
(*   rust/app/src/terminal.rs  foreground_surfaces, on_child_exit,         *)
(*                             shutdown, attach_sigterm_source             *)
(*                                                                         *)
(* Handlers run to their end on the GTK main loop: each is one action.     *)
(* The dialogs are modal: while one is shown the user's input goes to it,  *)
(* but timers, control requests, child processes and the window manager    *)
(* go on.  Of the hierarchy the model keeps which panes share a tab, a     *)
(* group, a workspace; which pane is selected after another one closed is  *)
(* the subject of Navigation and left open here.                           *)
(***************************************************************************)
EXTENDS Naturals, FiniteSets

CONSTANTS
  Panes,                \* names for panes and their surfaces
  SshPanes,             \* the ones whose session is an SSH connection
  Home                  \* Home[level][p]: the tab, group or workspace p belongs to

Levels == {"tab", "group", "workspace"}

ASSUME HomeAssumption ==
  /\ SshPanes \subseteq Panes
  /\ DOMAIN Home = Levels
  /\ \A p, q \in Panes :
       /\ Home["tab"][p] = Home["tab"][q] => Home["group"][p] = Home["group"][q]
       /\ Home["group"][p] = Home["group"][q] => Home["workspace"][p] = Home["workspace"][q]

VARIABLES
  window,               \* "open", "closed" by shutdown(), or "aborted" by a panic
  forced,               \* the panes a request was told to close by force in the last step
  panes,                \* the panes of the hierarchy, all with a session
  selected,             \* the focused pane of the active tab
  busy,                 \* the panes with a program in the foreground
  exited,               \* the panes whose shell has exited
  asks,                 \* the setting confirm_close_with_running_process
  confirmed,            \* close_confirmed
  modal,                \* modal_dialog_open
  dialog,               \* the guarded dialog that is shown
  idleClose,            \* a shell's exit has left a window.close() to the idle loop
  term                  \* SIGTERM: "none", "requested", "served"

Shown   == <<modal, dialog>>
Running == <<busy, exited>>
Place   == <<panes, selected>>
vars == <<window, forced, Place, Running, asks, confirmed, Shown, idleClose, term>>

Scopes == {"pane"} \union Levels

\* foreground_surfaces(scope) looks at the panes that share the scope with the
\* selected one; scope None, here "window", at all of them.
Within(scope, p) ==
  CASE scope = "pane"   -> {p}
    [] scope = "window" -> panes
    [] OTHER            -> {q \in panes : Home[scope][q] = Home[scope][p]}
Foreground(scope, p) == busy \intersect Within(scope, p)

\* A tab, a group or a workspace is not closed when it is the last of its parent.
Parent == [tab |-> "group", group |-> "workspace", workspace |-> "window"]
CanClose(scope, p) == Within(scope, p) # Within(Parent[scope], p)

\* A review covers the panes its command would close when it was shown, and tells how
\* many of them were busy then: `counted`.
NoDialog == [kind |-> "none", scope |-> "none", covers |-> {}, counted |-> {}]
Dialogs ==
  [kind : {"none", "review", "other"}, scope : Scopes \union {"window", "none"},
   covers : SUBSET Panes, counted : SUBSET Panes]

Init ==
  /\ window = "open" /\ forced = {}
  /\ \E p \in Panes : panes = {p} /\ selected = p
  /\ busy = {} /\ exited = {}
  /\ asks \in BOOLEAN
  /\ confirmed = FALSE
  /\ modal = FALSE /\ dialog = NoDialog
  /\ idleClose = FALSE
  /\ term = "none"

Up     == window = "open"
AtUser == Up /\ dialog = NoDialog

--------------------------------------------------------------------------------
(* What the handlers share. *)

Unforced == forced' = {}

\* shutdown(): the state is saved and every session ended.
Shutdown ==
  /\ window' = "closed" /\ Unforced
  /\ busy' = {}
  /\ UNCHANGED <<Place, exited, asks, term>>

\* open_modal_dialog and the dialog it guards, with the panes a review is about.
Show(kind, scope, covers) ==
  /\ modal' = TRUE
  /\ dialog' = [kind |-> kind, scope |-> scope, covers |-> covers,
                counted |-> busy \intersect covers]

Dismiss ==
  /\ modal' = FALSE
  /\ dialog' = NoDialog

\* The handler of window.close().  When the state is borrowed it tries again from the idle
\* loop, where nobody borrows it: no action of its own.
CloseHandler ==
  IF confirmed \/ ~ asks \/ Foreground("window", selected) = {}
  THEN Shutdown /\ UNCHANGED <<confirmed, Shown>>
  ELSE /\ IF modal THEN UNCHANGED Shown ELSE Show("review", "window", panes)
       /\ Unforced /\ UNCHANGED <<window, Place, Running, asks, confirmed, term>>

\* The panes in `gone` leave the hierarchy, their sessions are closed, and one of the
\* others is selected.
Removes(gone) ==
  /\ panes' = panes \ gone
  /\ busy' = busy \ gone
  /\ exited' = exited \ gone
  /\ \E p \in panes \ gone : selected' = p

\* apply_navigation_command for the close command of a scope, on what is selected now.
\* The last pane takes the window with it, and the handler lets it: either nothing runs
\* in it, or the setting is off, or this was reviewed.
CloseSelected(scope, reviewed) ==
  IF scope = "pane" /\ panes = {selected}
  THEN Shutdown /\ confirmed' = (confirmed \/ reviewed)
  ELSE /\ IF scope = "pane" \/ CanClose(scope, selected)
          THEN Removes(Within(scope, selected))
          ELSE UNCHANGED <<Place, Running>>
       /\ Unforced
       /\ UNCHANGED <<window, asks, confirmed, term>>

--------------------------------------------------------------------------------
(* The user. *)

\* A mistake CloseUnreviewed avoids: only the selected pane is looked at.
CloseUnlookedAt(scope) ==
  /\ AtUser
  /\ ~ asks \/ selected \notin busy
  /\ CloseSelected(scope, FALSE)
  /\ UNCHANGED <<Shown, idleClose>>

\* request_navigation_command: nothing that runs is in the scope, or the setting is off.
CloseUnreviewed(scope) ==
  /\ AtUser
  /\ ~ asks \/ Foreground(scope, selected) = {}
  /\ CloseSelected(scope, FALSE)
  /\ UNCHANGED <<Shown, idleClose>>

\* request_navigation_command: the review is shown.
AskForScope(scope) ==
  /\ AtUser
  /\ asks /\ Foreground(scope, selected) # {} /\ ~ modal
  /\ Show("review", scope, Within(scope, selected))
  /\ Unforced /\ UNCHANGED <<window, Place, Running, asks, confirmed, idleClose, term>>

\* The answer to a review of a scope is Close: the command runs on what is selected
\* now.  The panes that are busy now are counted again for a diagnostic only, and
\* whatever the number the command runs.
ConfirmScope ==
  /\ Up /\ dialog.kind = "review" /\ dialog.scope # "window"
  /\ Dismiss
  /\ CloseSelected(dialog.scope, TRUE)
  /\ UNCHANGED idleClose

\* The answer to the review of the window is Close: window.close() again, confirmed.
ConfirmWindow ==
  /\ Up /\ dialog.kind = "review" /\ dialog.scope = "window"
  /\ Dismiss
  /\ confirmed' = TRUE
  /\ Shutdown
  /\ UNCHANGED idleClose

\* The answer is Cancel, or a dialog of another kind is closed.
CloseDialog ==
  /\ Up /\ dialog # NoDialog
  /\ Dismiss
  /\ Unforced /\ UNCHANGED <<window, Place, Running, asks, confirmed, idleClose, term>>

\* Rename, palette, settings, resume command and the offers at a launch.
OpenOther ==
  /\ AtUser /\ ~ modal
  /\ Show("other", "none", {})
  /\ Unforced /\ UNCHANGED <<window, Place, Running, asks, confirmed, idleClose, term>>

\* The close button of the window and the window manager: also while a dialog is shown.
CloseWindow ==
  /\ Up
  /\ CloseHandler
  /\ UNCHANGED idleClose

--------------------------------------------------------------------------------
(* User and control requests. *)

\* A mistake NotPaused avoids: requests run while a dialog is open.
NeverPaused == TRUE

\* dispatch_control_request answers "busy" while a guarded dialog is open.
NotPaused == ~ modal

MayNavigate == Up /\ (NotPaused \/ dialog = NoDialog)

Select(p) ==
  /\ MayNavigate
  /\ p \in panes
  /\ selected' = p
  /\ Unforced
  /\ UNCHANGED <<window, panes, Running, asks, confirmed, Shown, idleClose, term>>

\* A new pane, in a new tab, group or workspace or in the tab of another.
Open(p) ==
  /\ MayNavigate
  /\ p \notin panes
  /\ panes' = panes \union {p}
  /\ selected' = p
  /\ Unforced /\ UNCHANGED <<window, Running, asks, confirmed, Shown, idleClose, term>>

\* What a request may close without force: nothing that runs is in the scope.
MayClose(p, scope, force) == force \/ Foreground(scope, p) = {}

\* A mistake RequestClose avoids: close_confirmed stays set.
RequestCloseForGood(p, scope, force) ==
  /\ Up /\ NotPaused
  /\ p \in panes
  /\ MayClose(p, scope, force)
  /\ IF scope = "pane" THEN panes # {p} ELSE CanClose(scope, p)
  /\ Removes(Within(scope, p))
  /\ confirmed' = (confirmed \/ force)
  /\ forced' = IF force THEN Within(scope, p) ELSE {}
  /\ UNCHANGED <<window, asks, Shown, idleClose, term>>

\* control_close, of a pane or of the container p is in.  Whatever the setting, a busy
\* scope needs force; close_confirmed is set by force and put back at the end.
RequestClose(p, scope, force) ==
  /\ Up /\ NotPaused
  /\ p \in panes
  /\ MayClose(p, scope, force)
  /\ IF scope = "pane" THEN panes # {p} ELSE CanClose(scope, p)
  /\ Removes(Within(scope, p))
  /\ forced' = IF force THEN Within(scope, p) ELSE {}
  /\ UNCHANGED <<window, asks, confirmed, Shown, idleClose, term>>

\* control_close of the last pane: window.close() runs inside the dispatch of the
\* request, and shutdown() takes CONTROL_WAKE, which the dispatch has borrowed.  The
\* process panics before the state is saved.
RequestCloseLast(p, force) ==
  /\ Up /\ NotPaused
  /\ panes = {p}
  /\ MayClose(p, "pane", force)
  /\ window' = "aborted" /\ forced' = IF force THEN {p} ELSE {}
  /\ busy' = {}
  /\ UNCHANGED <<Place, exited, asks, confirmed, Shown, idleClose, term>>

--------------------------------------------------------------------------------
(* Programs, shells, timers and signals. *)

StartProgram(p) ==
  /\ Up /\ p \in panes \ (busy \union exited)
  /\ busy' = busy \union {p}
  /\ Unforced
  /\ UNCHANGED <<window, Place, exited, asks, confirmed, Shown, idleClose, term>>

EndProgram(p) ==
  /\ Up /\ p \in busy
  /\ busy' = busy \ {p}
  /\ Unforced
  /\ UNCHANGED <<window, Place, exited, asks, confirmed, Shown, idleClose, term>>

\* on_child_exit: the shell that is shown takes the window along, from the idle loop.  The
\* code asks whether its session is the visible one, here the selected pane's: the two
\* part only in the runs of requests that Navigation shows for InputGoesToFocused.
ChildExit(p) ==
  /\ Up /\ p \in panes \ exited
  /\ exited' = exited \union {p}
  /\ busy' = busy \ {p}
  /\ idleClose' = (idleClose \/ (p = selected /\ p \notin SshPanes))
  /\ Unforced /\ UNCHANGED <<window, Place, asks, confirmed, Shown, term>>

IdleClose ==
  /\ Up /\ idleClose
  /\ idleClose' = FALSE
  /\ CloseHandler

\* The settings timer finds the setting changed.
ChangeSetting ==
  /\ Up
  /\ asks' = ~ asks
  /\ Unforced /\ UNCHANGED <<window, Place, Running, confirmed, Shown, idleClose, term>>

TermArrives ==
  /\ Up /\ term = "none"
  /\ term' = "requested"
  /\ Unforced /\ UNCHANGED <<window, Place, Running, asks, confirmed, Shown, idleClose>>

\* A mistake ServeTerm avoids: the close is not marked as confirmed.
ServeTermUnconfirmed ==
  /\ Up /\ term = "requested"
  /\ IF ~ asks \/ busy = {}
     THEN window' = "closed" /\ Unforced /\ busy' = {} /\ UNCHANGED Shown
     ELSE /\ IF modal THEN UNCHANGED Shown ELSE Show("review", "window", panes)
          /\ Unforced /\ UNCHANGED <<window, busy>>
  /\ term' = "served"
  /\ UNCHANGED <<Place, exited, asks, confirmed, idleClose>>

\* attach_sigterm_source: the timer that polls TERMINATION_REQUESTED.
ServeTerm ==
  /\ Up /\ term = "requested"
  /\ confirmed' = TRUE
  /\ window' = "closed" /\ Unforced
  /\ busy' = {}
  /\ term' = "served"
  /\ UNCHANGED <<Place, exited, asks, Shown, idleClose>>

--------------------------------------------------------------------------------
UserCloses ==
  \/ \E s \in Scopes : CloseUnreviewed(s) \/ AskForScope(s)
  \/ ConfirmScope \/ ConfirmWindow \/ CloseDialog \/ OpenOther \/ CloseWindow

Request ==
  \E p \in Panes, force \in BOOLEAN :
    RequestCloseLast(p, force) \/ \E s \in Scopes : RequestClose(p, s, force)

Environment ==
  \/ \E p \in Panes : StartProgram(p) \/ EndProgram(p) \/ ChildExit(p)
  \/ ChangeSetting \/ TermArrives

Next ==
  \/ UserCloses \/ Request \/ Environment
  \/ \E p \in Panes : Select(p) \/ Open(p)
  \/ IdleClose \/ ServeTerm

Spec == Init /\ [][Next]_vars

\* GLib runs timers and idle functions as long as the loop does.
FairSpec == Spec /\ WF_vars(ServeTerm) /\ WF_vars(IdleClose)

--------------------------------------------------------------------------------
(* Properties *)

TypeOK ==
  /\ window \in {"open", "closed", "aborted"} /\ forced \in SUBSET Panes
  /\ panes \in SUBSET Panes /\ selected \in panes
  /\ busy \in SUBSET (panes \ exited) /\ exited \in SUBSET panes
  /\ asks \in BOOLEAN /\ confirmed \in BOOLEAN
  /\ modal \in BOOLEAN /\ dialog \in Dialogs
  /\ idleClose \in BOOLEAN
  /\ term \in {"none", "requested", "served"}

\* The panes a shown review covers are the panes its command would close, in whatever
\* order settings, child processes, timers and requests come: the command is run on the
\* selection at the time of the answer, not on the one that was reviewed.
ReviewIsOfSelection ==
  window = "open" /\ dialog.kind = "review" =>
    dialog.covers = Within(dialog.scope, selected)

\* The two flags of the guard mean what they say, on every path that sets and resets
\* them.  modal_dialog_open is set exactly while a guarded dialog is shown: left behind
\* it would refuse every request, reset under a dialog it would let requests move the
\* selection a review is about.  close_confirmed does not outlive the close it was given
\* for: with the window still open no later close skips its review.
FlagsInStep ==
  window = "open" => (modal <=> dialog # NoDialog) /\ ~ confirmed

\* The panes whose program is ended by a step.
Killed == {p \in busy : p \notin panes' \/ window' # "open"}

\* While the setting is on, a program is ended only in a pane that the confirmed review
\* covered, in a scope a request closes with force, or by SIGTERM: no close path, shell
\* exit or order of them ends a program elsewhere.  A program that was started in the
\* scope after the review was shown is ended with the ones it counted.
KillsStayInScope ==
  [][Killed # {} /\ asks =>
       \/ dialog.kind = "review" /\ Killed \subseteq dialog.covers /\ dialog' = NoDialog
       \/ term' = "served"
       \/ Killed \subseteq forced']_vars

\* What the feature inventory says beyond that: the busy set is checked again immediately
\* before closing, and panes that have become busy since ask again.
NewlyBusyAsksAgain ==
  [][asks /\ dialog.kind = "review" /\ dialog' = NoDialog
       => Killed \subseteq dialog.counted]_vars

\* A SIGTERM closes the window, whatever runs and whatever dialog is open.
TermCloses == term = "requested" ~> window # "open"

================================================================================
