------------------------------- MODULE Navigation ------------------------------
(***************************************************************************)
(* The window at work: the hierarchy of AppModel, the terminal sessions    *)
(* its surfaces run, and the surface that keystrokes go to.                *)
(*                                                                         *)
(*   rust/app/src/terminal.rs    navigation_action and its neighbours      *)
(*   rust/app/src/navigation.rs  apply_navigation_effect,                  *)
(*                               reconcile_sessions                        *)
(*   rust/app/src/control.rs     control_select, control_move,             *)
(*                               control_close, pane.split, pane.move, ... *)
(*                                                                         *)
(* Handlers run to their end on the GTK main loop: each one is an action.  *)
(* Users and control requests reach the same handlers; `reply` is what a   *)
(* control request is told.  Requests that are turned down before they     *)
(* touch anything are not steps.  Which pane lies in which direction, what *)
(* runs in the foreground, and the dialogs are left open.                  *)
(***************************************************************************)
EXTENDS AppModel

CONSTANTS
  Panes,                \* names for panes
  MaxPanes              \* bound of the model: panes at any one time

VARIABLES
  app,                  \* Terminal.navigation
  sessions,             \* the surfaces that have a session
  active,               \* active_surface_id: where keys, text and pastes go
  open,                 \* the window is up
  reply                 \* of the last handler: "changed" or "refused"

vars == <<app, sessions, active, open, reply>>

Directions == {-1, 1}

\* Names no pane, container or session has.
Names(a) ==
  LET ids(s) == {s[i].id : i \in DOMAIN s}
  IN  PanesOf(a) \union ids(a.items)
      \union (UNION {ids(a.items[i].items) : i \in DOMAIN a.items})
      \union {TabAt(a, at).id : at \in Places(a)}
Fresh ==
  IF Cardinality(PanesOf(app)) < MaxPanes THEN Panes \ (Names(app) \union sessions) ELSE {}

Init ==
  /\ \E p \in Panes : app = NewApp(p) /\ sessions = {p} /\ active = p
  /\ open = TRUE
  /\ reply = "changed"

--------------------------------------------------------------------------------
(* What follows a change. *)

\* A mistake Reconciled avoids: the focused surface becomes the active one even when
\* it has no session.
ReconciledBlindly(a, s) ==
  /\ sessions' = s \intersect PanesOf(a)
  /\ active' = Focused(a)

\* Another: it closes every session but those of the tab that is shown.
ReconciledToTab(a, s) ==
  IF Focused(a) \in s
  THEN sessions' = s \intersect ToSet(ActiveTab(a).panes) /\ active' = Focused(a)
  ELSE sessions' = s /\ UNCHANGED active

\* reconcile_sessions, for hierarchy a and the sessions s: it gives up when the
\* focused surface has none, otherwise closes those whose surface is gone.
Reconciled(a, s) ==
  IF Focused(a) \in s
  THEN sessions' = s \intersect PanesOf(a) /\ active' = Focused(a)
  ELSE sessions' = s /\ UNCHANGED active

\* apply_navigation_effect with Changed, after the model became a.
Changed(a, s) ==
  /\ open
  /\ app' = a
  /\ Reconciled(a, s)
  /\ reply' = "changed"
  /\ UNCHANGED open

\* The handler gives up after the model became a: nothing reconciles.
Refused(a) ==
  /\ open
  /\ app' = a
  /\ reply' = "refused"
  /\ UNCHANGED <<sessions, active, open>>

\* restore_navigation: back to the positions `at` if they still exist, level by level.
Restored(a, at) ==
  LET toWorkspace == Selected(a, at[1])
      toGroup == WithWorkspace(toWorkspace, Selected(Current(toWorkspace), at[2]))
      toTab == WithGroup(toGroup, Selected(Current(Current(toGroup)), at[3]))
  IN  IF at[1] \notin DOMAIN a.items THEN a
      ELSE IF at[2] \notin DOMAIN Current(toWorkspace).items THEN toWorkspace
      ELSE IF at[3] \notin DOMAIN Current(Current(toGroup)).items THEN toGroup
      ELSE toTab

--------------------------------------------------------------------------------
(* New nodes: the session is started first, then the node is added.        *)

CreateWorkspace ==
  \E p \in Fresh : Changed(Appended(app, NewWorkspace(p)), sessions \union {p})

CreateGroup ==
  \E p \in Fresh :
    Changed(WithWorkspace(app, Appended(Current(app), NewGroup(p))),
            sessions \union {p})

\* terminal.new-tab, tab.create and a new SSH tab.
CreateTab ==
  \E p \in Fresh :
    Changed(WithGroup(app, Appended(Current(Current(app)), NewTab(p))),
            sessions \union {p})

\* pane.split focuses the pane it names before it splits the focused one.
SplitPane(target) ==
  \E p \in Fresh :
    LET a == PaneFocused(app, target)
    IN  Changed(WithTab(a, PaneSplit(ActiveTab(a), target, p)), sessions \union {p})

\* pane.split and pane.move stop after that: no session, or no such second pane.
StopAfterFocus(target) == Refused(PaneFocused(app, target))

--------------------------------------------------------------------------------
(* Selection: shortcuts, sidebar, tab strip, mouse, select, rename, send.  *)

SelectWorkspace(i) == Changed(Selected(app, i), sessions)

SelectGroup(i) == Changed(WithWorkspace(app, Selected(Current(app), i)), sessions)

SelectTab(i) ==
  Changed(WithGroup(app, Selected(Current(Current(app)), i)), sessions)

CycleGroup(direction) ==
  /\ Len(Current(app).items) > 1
  /\ Changed(WithWorkspace(app, Cycled(Current(app), direction)), sessions)

CycleTab(direction) ==
  /\ Len(Current(Current(app)).items) > 1
  /\ Changed(WithGroup(app, Cycled(Current(Current(app)), direction)), sessions)

CyclePane(direction) ==
  /\ Len(ActiveTab(app).panes) > 1
  /\ Changed(WithTab(app, FocusCycled(ActiveTab(app), direction)), sessions)

\* pane.focus, pane.send, pane.send_key, a click, and the directional moves.
FocusPane(target) == Changed(PaneFocused(app, target), sessions)

--------------------------------------------------------------------------------
(* Reordering. *)

MoveWorkspace(id, i) ==
  CanMove(app, id, i) /\ Changed(Moved(app, id, i), sessions)

MoveGroup(id, i) ==
  /\ CanMove(Current(app), id, i)
  /\ Changed(WithWorkspace(app, Moved(Current(app), id, i)), sessions)

MoveTab(id, i) ==
  /\ CanMove(Current(Current(app)), id, i)
  /\ Changed(WithGroup(app, Moved(Current(Current(app)), id, i)), sessions)

\* pane.move focuses the first pane, then swaps it with the second.
MovePane(p, q) ==
  LET a == PaneFocused(app, p)
  IN  /\ CanSwap(ActiveTab(a), p, q)
      /\ Changed(WithTab(a, PanesSwapped(ActiveTab(a), p, q)), sessions)

--------------------------------------------------------------------------------
(* Closing.  A user closes what is selected; a request selects it first.   *)

CloseTabHere(a) ==
  /\ CanRemove(Current(Current(a)), Current(Current(a)).active)
  /\ Changed(WithGroup(a, Removed(Current(Current(a)), Current(Current(a)).active)),
             sessions)

CloseGroupHere(a) ==
  /\ CanRemove(Current(a), Current(a).active)
  /\ Changed(WithWorkspace(a, Removed(Current(a), Current(a).active)), sessions)

CloseWorkspaceHere(a) ==
  /\ CanRemove(a, a.active)
  /\ Changed(Removed(a, a.active), sessions)

CloseTab(i) ==
  CloseTabHere(WithGroup(app, Selected(Current(Current(app)), i)))

CloseGroup(i) ==
  CloseGroupHere(WithWorkspace(app, Selected(Current(app), i)))

CloseWorkspace(i) == CloseWorkspaceHere(Selected(app, i))

\* The command closes the focused pane.
ClosePane ==
  /\ ~ HostCloseRequired(app, Focused(app))
  /\ Changed(PaneClosed(app, Focused(app)), sessions)

\* The request closes the pane it names, and reconciles; then, the effect being
\* applied already, it takes the branch of a refusal: the old positions are selected
\* again and the answer is "rejected".
RequestClosePane(target) ==
  LET closed == PaneClosed(PaneFocused(app, target), target)
  IN  /\ open
      /\ ~ HostCloseRequired(app, target)
      /\ app' = Restored(closed, ActivePlace(app))
      /\ Reconciled(closed, sessions)
      /\ reply' = "refused"
      /\ UNCHANGED open

\* A program runs in the foreground and the request does not force: the old positions
\* are selected again.  (For a tab, group or workspace that undoes the selection.)
RequestNeedsReview(target) ==
  Refused(Restored(PaneFocused(app, target), ActivePlace(app)))

\* The last pane of the last workspace, or the window itself.
CloseWindow ==
  /\ open
  /\ open' = FALSE
  /\ sessions' = {}
  /\ reply' = "changed"
  /\ UNCHANGED <<app, active>>

\* A launch restores the hierarchy that was saved.  The focused surface must get a
\* session, any other may fail to (state_restore_surface_failed).
Relaunch ==
  /\ ~ open
  /\ open' = TRUE
  /\ active' = Focused(app)
  /\ \E S \in SUBSET PanesOf(app) : sessions' = S \union {Focused(app)}
  /\ reply' = "changed"
  /\ UNCHANGED app

--------------------------------------------------------------------------------
Create == CreateWorkspace \/ CreateGroup \/ CreateTab

Select ==
  \/ \E i \in DOMAIN app.items : SelectWorkspace(i)
  \/ \E i \in DOMAIN Current(app).items : SelectGroup(i)
  \/ \E i \in DOMAIN Current(Current(app)).items : SelectTab(i)
  \/ \E d \in Directions : CycleGroup(d) \/ CycleTab(d) \/ CyclePane(d)

Move ==
  \E id \in Panes :
    \/ \E i \in DOMAIN app.items : MoveWorkspace(id, i)
    \/ \E i \in DOMAIN Current(app).items : MoveGroup(id, i)
    \/ \E i \in DOMAIN Current(Current(app)).items : MoveTab(id, i)

Close ==
  \/ \E i \in DOMAIN app.items : CloseWorkspace(i)
  \/ \E i \in DOMAIN Current(app).items : CloseGroup(i)
  \/ \E i \in DOMAIN Current(Current(app)).items : CloseTab(i)
  \/ ClosePane

AtPane(p) ==
  \/ FocusPane(p) \/ SplitPane(p) \/ StopAfterFocus(p)
  \/ RequestClosePane(p) \/ RequestNeedsReview(p)
  \/ \E q \in PanesOf(app) : MovePane(p, q)

Next ==
  \/ Create \/ Select \/ Move \/ Close
  \/ \E p \in PanesOf(app) : AtPane(p)
  \/ CloseWindow \/ Relaunch

Spec == Init /\ [][Next]_vars

--------------------------------------------------------------------------------
(* Properties *)

Chosen(c) == c.items # << >> /\ c.active \in DOMAIN c.items

\* The nodes of one level, as a set of containers.
Groups(a) == UNION {ToSet(a.items[w].items) : w \in DOMAIN a.items}
Tabs(a)   == {TabAt(a, at) : at \in Places(a)}

Distinct(s) == \A i, j \in DOMAIN s : s[i] = s[j] => i = j
Ids(c) == [i \in DOMAIN c.items |-> c.items[i].id]

\* The shape of the state: no level is empty, something is selected on each, a tab
\* focuses one of its panes, and no name occurs twice.
TypeOK ==
  /\ \A c \in {app} \union ToSet(app.items) \union Groups(app) : Chosen(c) /\ Distinct(Ids(c))
  /\ \A t \in Tabs(app) : t.focused \in ToSet(t.panes) /\ Distinct(t.panes)
  /\ \A s, t \in Places(app) :
       s # t => ToSet(TabAt(app, s).panes) \intersect ToSet(TabAt(app, t).panes) = {}
  /\ PanesOf(app) \subseteq Panes
  /\ sessions \subseteq Panes
  /\ active \in Panes
  /\ open \in BOOLEAN
  /\ reply \in {"changed", "refused"}

\* The active surface has a session as long as the window is up, whatever was closed,
\* refused or not restored: Deref for Terminal indexes the sessions with it.
ActiveHasSession == open => active \in sessions

\* No operation ends the session of a pane that stays in the hierarchy, and a pane is
\* never added without one.
SessionsKept ==
  [][open /\ open' =>
       /\ sessions \intersect PanesOf(app') \subseteq sessions'
       /\ PanesOf(app') \ PanesOf(app) \subseteq sessions']_vars

\* The panes that share a workspace, a group, a tab with pane p.
Neighbours(a, p) ==
  LET at == PlaceOf(a, p)
      within(n) == UNION {ToSet(TabAt(a, bt).panes) :
                          bt \in {x \in Places(a) : \A i \in 1 .. n : x[i] = at[i]}}
  IN  {within(1), within(2), within(3)}

\* Closing a pane removes no other pane, whichever containers go with it, and the
\* focus stays as near as it can: in the same tab, group, workspace where any pane
\* is left in it.
ClosePaneStaysNear ==
  [][ClosePane =>
       /\ PanesOf(app') = PanesOf(app) \ {Focused(app)}
       /\ \A near \in Neighbours(app, Focused(app)) :
            near # {Focused(app)} => Focused(app') \in near]_vars

\* Reordering workspaces, groups or tabs never moves the focus to another pane.
MoveKeepsFocus == [][Move => Focused(app') = Focused(app)]_vars

\* "Only the focused surface receives ordinary input": keys go to the focused pane.
InputGoesToFocused == open => active = Focused(app)

================================================================================
