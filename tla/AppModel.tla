-------------------------------- MODULE AppModel -------------------------------
(***************************************************************************)
(* The hierarchy of a window: workspaces hold groups, groups hold tabs,    *)
(* tabs hold panes, and every level has a selected element.  Operators     *)
(* only: Navigation is the state machine that applies them.                *)
(*                                                                         *)
(*   rust/model/src/model.rs   AppModel, WorkspaceModel, GroupModel,       *)
(*                             TabModel, remove_selected, move_selected    *)
(*   rust/model/src/split.rs   the order of the leaves of a split tree     *)
(*                                                                         *)
(* Identifiers are fresh UUIDs.  Here every container has the name of the  *)
(* pane it was created with, and the surface of a pane has the name of the *)
(* pane.  Of a split tree the model keeps the depth-first order of its     *)
(* leaves.  Positions count from 1.  Labels are left out.                  *)
(***************************************************************************)
EXTENDS Integers, Sequences, SequencesExt

(* A container, at any level: a non-empty sequence and a selected position. *)

Current(c) == c.items[c.active]

\* The position of the element called id, 0 if there is none.
PositionOf(c, id) == SelectInSeq(c.items, LAMBDA x : x.id = id)

\* wrapped_index
Wrapped(i, direction, n) == ((i - 1 + direction) % n) + 1

Selected(c, i) == [c EXCEPT !.active = i]

Cycled(c, direction) == Selected(c, Wrapped(c.active, direction, Len(c.items)))

\* append_workspace, append_group, append_tab: the new element is selected.
Appended(c, x) == [c EXCEPT !.items = Append(@, x), !.active = Len(c.items) + 1]

CanRemove(c, i) == i \in DOMAIN c.items /\ Len(c.items) > 1

\* remove_selected
Removed(c, i) ==
  [c EXCEPT !.items = RemoveAt(@, i),
            !.active = IF @ = i THEN Min({i, Len(c.items) - 1})
                       ELSE IF i < @ THEN @ - 1 ELSE @]

CanMove(c, id, target) ==
  target \in DOMAIN c.items /\ PositionOf(c, id) \notin {0, target}

\* A mistake Moved avoids: the selected position stays what it was.
MovedUnrepaired(c, id, target) ==
  LET source == PositionOf(c, id)
  IN  [c EXCEPT !.items = InsertAt(RemoveAt(@, source), target, @[source])]

\* move_selected: whatever was selected stays selected.
Moved(c, id, target) ==
  LET source == PositionOf(c, id)
      moved  == [c EXCEPT !.items = InsertAt(RemoveAt(@, source), target, @[source])]
  IN  Selected(moved, PositionOf(moved, Current(c).id))

--------------------------------------------------------------------------------
(* Tabs, and what a new pane comes in. *)

NewTab(p)       == [id |-> p, panes |-> <<p>>, focused |-> p]
NewGroup(p)     == [id |-> p, items |-> <<NewTab(p)>>, active |-> 1]
NewWorkspace(p) == [id |-> p, items |-> <<NewGroup(p)>>, active |-> 1]
NewApp(p)       == [items |-> <<NewWorkspace(p)>>, active |-> 1]

LeafOf(tab, p) == SelectInSeq(tab.panes, LAMBDA q : q = p)

\* cycle_focus
FocusCycled(tab, direction) ==
  [tab EXCEPT !.focused =
     tab.panes[Wrapped(LeafOf(tab, @), direction, Len(tab.panes))]]

\* split_pane: the new leaf comes right after the one that is split.
PaneSplit(tab, p, new) ==
  [tab EXCEPT !.panes = InsertAt(@, LeafOf(tab, p) + 1, new), !.focused = new]

CanSwap(tab, p, q) == p # q /\ {p, q} \subseteq ToSet(tab.panes)

\* swap_panes
PanesSwapped(tab, p, q) ==
  [tab EXCEPT !.panes[LeafOf(tab, p)] = q, !.panes[LeafOf(tab, q)] = p]

\* A mistake PaneRemoved avoids: the focus stays where it was.
PaneRemovedKeepsFocus(tab, p) == [tab EXCEPT !.panes = RemoveAt(@, LeafOf(tab, p))]

\* remove_pane: the next leaf is focused in its place, the one before if it was last.
PaneRemoved(tab, p) ==
  LET i == LeafOf(tab, p)
      n == Len(tab.panes)
  IN  [tab EXCEPT !.panes = RemoveAt(@, i),
                  !.focused = IF @ # p THEN @
                              ELSE tab.panes[IF i < n THEN i + 1 ELSE i - 1]]

--------------------------------------------------------------------------------
(* The whole.  A place is the positions of a workspace, a group and a tab. *)

TabAt(app, at) == app.items[at[1]].items[at[2]].items[at[3]]

Places(app) ==
  UNION {UNION {{<<w, g, t>> : t \in DOMAIN app.items[w].items[g].items}
                : g \in DOMAIN app.items[w].items}
         : w \in DOMAIN app.items}

PanesOf(app) == UNION {ToSet(TabAt(app, at).panes) : at \in Places(app)}

ActivePlace(app) ==
  <<app.active, Current(app).active, Current(Current(app)).active>>

ActiveTab(app) == TabAt(app, ActivePlace(app))
Focused(app)   == ActiveTab(app).focused

\* The active workspace, group or tab becomes x.
WithWorkspace(app, x) == [app EXCEPT !.items[app.active] = x]
WithGroup(app, x) ==
  WithWorkspace(app, [Current(app) EXCEPT !.items[Current(app).active] = x])
WithTab(app, x) ==
  LET group == Current(Current(app))
  IN  WithGroup(app, [group EXCEPT !.items[group.active] = x])

\* find_pane_location
PlaceOf(app, p) == CHOOSE at \in Places(app) : p \in ToSet(TabAt(app, at).panes)

\* The path down to a tab, selected.
PlaceSelected(app, at) ==
  [app EXCEPT !.active = at[1],
              !.items[at[1]].active = at[2],
              !.items[at[1]].items[at[2]].active = at[3]]

\* focus_pane
PaneFocused(app, p) ==
  LET there == PlaceSelected(app, PlaceOf(app, p))
  IN  WithTab(there, [ActiveTab(there) EXCEPT !.focused = p])

\* resolve_close_scope
CloseScope(app, p) ==
  LET at == PlaceOf(app, p)
      workspace == app.items[at[1]]
      group == workspace.items[at[2]]
  IN  IF Len(TabAt(app, at).panes) > 1 THEN "pane"
      ELSE IF Len(group.items) > 1 THEN "tab"
      ELSE IF Len(workspace.items) > 1 THEN "group"
      ELSE "workspace"

HostCloseRequired(app, p) == CloseScope(app, p) = "workspace" /\ Len(app.items) = 1

\* A mistake PaneClosed avoids: it looks at the panes of the tab and then goes
\* straight to the group.
PaneClosedWithGroup(app, p) ==
  LET at == PlaceOf(app, p)
  IN  CASE CloseScope(app, p) = "pane" ->
             [app EXCEPT !.items[at[1]].items[at[2]].items[at[3]] = PaneRemoved(@, p)]
        [] CloseScope(app, p) \in {"tab", "group"} /\ CanRemove(app.items[at[1]], at[2]) ->
             [app EXCEPT !.items[at[1]] = Removed(@, at[2])]
        [] OTHER ->
             IF CanRemove(app, at[1]) THEN Removed(app, at[1]) ELSE app

\* close_pane: the pane goes, with every container it would leave empty.
PaneClosed(app, p) ==
  LET at == PlaceOf(app, p)
  IN  CASE CloseScope(app, p) = "pane" ->
             [app EXCEPT !.items[at[1]].items[at[2]].items[at[3]] = PaneRemoved(@, p)]
        [] CloseScope(app, p) = "tab" ->
             [app EXCEPT !.items[at[1]].items[at[2]] = Removed(@, at[3])]
        [] CloseScope(app, p) = "group" ->
             [app EXCEPT !.items[at[1]] = Removed(@, at[2])]
        [] CloseScope(app, p) = "workspace" ->
             Removed(app, at[1])

================================================================================
