------------------------------- MODULE SplitTree -------------------------------
(***************************************************************************)
(* One tab: its split tree, the pane with the focus, the ratios that       *)
(* keyboard and pointer change, the layout the panes are drawn in, and     *)
(* zoom.                                                                   *)
(*                                                                         *)
(*   rust/model/src/split.rs     SplitNode, layout, directional_neighbor   *)
(*   rust/model/src/model.rs     TabModel                                  *)
(*   rust/app/src/terminal.rs    resize_divider, toggle_zoom, render       *)
(*                                                                         *)
(* Lengths are pixels.  A ratio, an f64 in the code, is a number of        *)
(* 1/Scale, which is finer than a pixel; in the runs Scale is a common     *)
(* multiple of all lengths, and the divisions are exact.  A node is named  *)
(* by the way to it from the root, and the tree is the function from its   *)
(* ways to its nodes.                                                      *)
(***************************************************************************)
EXTENDS Integers, Sequences, SequencesExt, FiniteSets, FiniteSetsExt

CONSTANTS
  Panes,                \* names for panes
  MaxPanes,             \* bound of the model: panes at any one time
  Widths, Heights,      \* sizes the window may get
  Pointers,             \* pixels of an axis the pointer is dragged to
  MinWidth, MinHeight,  \* MINIMUM_PANE (80 by 50 in the code)
  Gap,                  \* SPLIT_GAP (4 in the code)
  Scale,                \* ratios are multiples of 1/Scale
  Step,                 \* the keyboard's ratio step (Scale / 20 in the code)
  Nothing               \* no pane

ASSUME SizesAssumption ==
  /\ Widths \subseteq Nat /\ Heights \subseteq Nat
  /\ MinWidth \in Nat \ {0} /\ MinHeight \in Nat \ {0} /\ Gap \in Nat
\* A divider is narrower than any pane.
ASSUME GapAssumption == Gap < MinWidth /\ Gap < MinHeight
ASSUME RatioAssumption ==
  /\ Scale \in Nat \ {0} /\ Step \in Nat /\ Pointers \subseteq Int
\* A tenth is a ratio, and no length needs a finer one: a ratio is an f64.
ASSUME FineAssumption ==
  /\ Scale % 10 = 0
  /\ \A length \in Widths \union Heights : 2 * length <= Scale

VARIABLES
  root,                 \* TabModel.root
  focused,              \* focused_pane_id
  zoomed,               \* Terminal.zoomed_pane
  view                  \* the area the tab is laid out in

vars == <<root, focused, zoomed, view>>

Tab == INSTANCE AppModel

Directions == {"left", "right", "up", "down"}
AxisOf(direction) == IF direction \in {"left", "right"} THEN "leftRight" ELSE "topBottom"
Forward(direction) == direction \in {"right", "down"}

Axes == {"leftRight", "topBottom"}
Halves == {"first", "second"}

Leaf(p) == [kind |-> "pane", id |-> p]
Split(axis) == [kind |-> "split", axis |-> axis, ratio |-> Scale \div 2]

Bounded(x, low, high) == Max({low, Min({x, high})})
Rounded(a, b) == (2 * a + b) \div (2 * b)

--------------------------------------------------------------------------------
(* The tree. *)

Splits(t) == {way \in DOMAIN t : t[way].kind = "split"}
Leaves(t) == DOMAIN t \ Splits(t)

First(way)  == Append(way, "first")
Second(way) == Append(way, "second")

\* contains: the panes of the subtree a way leads to.
PanesBelow(t, way) == {t[leaf].id : leaf \in {v \in Leaves(t) : IsPrefix(way, v)}}
Within(t) == {t[leaf].id : leaf \in Leaves(t)}

WayTo(t, p) == CHOOSE way \in Leaves(t) : t[way].id = p

\* pane_ids: the leaves, depth first.
PaneIds(t) ==
  LET ids[way \in DOMAIN t] ==
        IF t[way].kind = "pane" THEN <<t[way].id>> ELSE ids[First(way)] \o ids[Second(way)]
  IN  ids[<< >>]

\* A mistake SplitAt avoids: the new pane comes first.
SplitBefore(t, p, axis, new) ==
  LET way == WayTo(t, p)
  IN  [v \in DOMAIN t \union {First(way), Second(way)} |->
         CASE v = way         -> Split(axis)
           [] v = First(way)  -> Leaf(new)
           [] v = Second(way) -> Leaf(p)
           [] OTHER           -> t[v]]

\* split_pane_unchecked
SplitAt(t, p, axis, new) ==
  LET way == WayTo(t, p)
  IN  [v \in DOMAIN t \union {First(way), Second(way)} |->
         CASE v = way         -> Split(axis)
           [] v = First(way)  -> Leaf(p)
           [] v = Second(way) -> Leaf(new)
           [] OTHER           -> t[v]]

\* Where a way leads to when what is below one way is moved to another.
Moved(from, to, way) ==
  IF IsPrefix(from, way) THEN to \o SubSeq(way, Len(from) + 1, Len(way)) ELSE way

\* removing_pane: the other half takes the place of the split.
Without(t, p) ==
  LET way   == WayTo(t, p)
      split == Front(way)
      other == CHOOSE half \in {First(split), Second(split)} : half # way
      kept  == {v \in DOMAIN t : IsPrefix(split, v) => IsPrefix(other, v)}
  IN  [v \in {Moved(other, split, u) : u \in kept} |-> t[Moved(split, other, v)]]

\* swap_panes_unchecked
Swapped(t, p, q) ==
  [way \in DOMAIN t |->
     CASE t[way] = Leaf(p) -> Leaf(q) [] t[way] = Leaf(q) -> Leaf(p) [] OTHER -> t[way]]

WithRatio(t, way, ratio) == [t EXCEPT ![way].ratio = ratio]

--------------------------------------------------------------------------------
(* Lengths along an axis. *)

Along(axis, rect) == IF axis = "leftRight" THEN rect.w ELSE rect.h
Start(axis, rect) == IF axis = "leftRight" THEN rect.x ELSE rect.y
End(axis, rect)   == Start(axis, rect) + Along(axis, rect)

\* The part of rect that begins at an offset along the axis.
Strip(axis, rect, offset, length) ==
  IF axis = "leftRight" THEN [rect EXCEPT !.x = @ + offset, !.w = length]
  ELSE [rect EXCEPT !.y = @ + offset, !.h = length]

\* minimum_size
MinimumAlong(t, way, axis) ==
  LET minimum[v \in DOMAIN t] ==
        IF t[v].kind = "pane" THEN IF axis = "leftRight" THEN MinWidth ELSE MinHeight
        ELSE LET first  == minimum[First(v)]
                 second == minimum[Second(v)]
             IN  IF t[v].axis = axis THEN first + Gap + second ELSE Max({first, second})
  IN  minimum[way]

\* What the halves of a split have to keep along its axis.
FirstMinimum(t, way)  == MinimumAlong(t, First(way), t[way].axis)
SecondMinimum(t, way) == MinimumAlong(t, Second(way), t[way].axis)

\* What a split has to give to its halves.
Usable(split, rect) == LET along == Along(split.axis, rect) IN along - Min({Gap, along})

\* A mistake FirstLength avoids: the ratio alone decides.
RatioLength(t, way, rect) == Rounded(Usable(t[way], rect) * t[way].ratio, Scale)

\* fill_layout: what the first half gets.
FirstLength(t, way, rect) ==
  LET usable == Usable(t[way], rect)
      first  == FirstMinimum(t, way)
      second == SecondMinimum(t, way)
  IN  IF usable >= first + second
      THEN Bounded(Rounded(usable * t[way].ratio, Scale), first, usable - second)
      ELSE IF usable >= 2
      THEN Bounded(Rounded(usable * first, Max({first + second, 1})), 1, usable - 1)
      ELSE usable

FirstRect(t, way, rect) == Strip(t[way].axis, rect, 0, FirstLength(t, way, rect))

DividerRect(t, way, rect) ==
  Strip(t[way].axis, rect, FirstLength(t, way, rect),
        Along(t[way].axis, rect) - Usable(t[way], rect))

\* A mistake SecondRect avoids: the rest is computed from the ratio, too.
SecondByRatio(t, way, rect) ==
  Strip(t[way].axis, rect,
        Along(t[way].axis, rect) - Usable(t[way], rect) + FirstLength(t, way, rect),
        Rounded(Usable(t[way], rect) * (Scale - t[way].ratio), Scale))

SecondRect(t, way, rect) ==
  Strip(t[way].axis, rect,
        Along(t[way].axis, rect) - Usable(t[way], rect) + FirstLength(t, way, rect),
        Usable(t[way], rect) - FirstLength(t, way, rect))

\* layout: pane_frames and split_frames.
Layout(t, rect) ==
  LET frames[way \in DOMAIN t] ==
        IF way = << >> THEN rect
        ELSE IF Last(way) = "first" THEN FirstRect(t, Front(way), frames[Front(way)])
        ELSE SecondRect(t, Front(way), frames[Front(way)])
  IN  frames

Frame(way) == Layout(root, view)[way]
Frames == [p \in Within(root) |-> Frame(WayTo(root, p))]

--------------------------------------------------------------------------------
(* Ratios. *)

\* ratio_bounds: there may be none.
LowerBound(t, way, usable) ==
  Max({Scale \div 10, (FirstMinimum(t, way) * Scale) \div usable})
UpperBound(t, way, usable) ==
  Min({Scale - Scale \div 10, Scale - (SecondMinimum(t, way) * Scale) \div usable})
HasBounds(t, way, rect) ==
  LET usable == Along(t[way].axis, rect) - Gap
  IN  usable > 0 /\ LowerBound(t, way, usable) <= UpperBound(t, way, usable)

\* adjust_ratio and set_ratio; clamp_to_bounds keeps the bounds within 0 and 1 too.
BoundedRatio(t, way, rect, ratio) ==
  LET usable == Along(t[way].axis, rect) - Gap
      lower  == Bounded(LowerBound(t, way, usable), 0, Scale)
      upper  == Bounded(UpperBound(t, way, usable), lower, Scale)
  IN  Bounded(ratio, lower, upper)

\* A mistake Movable avoids: it does not look which half p is in.
MovableAnyway(p, direction) ==
  {way \in Splits(root) :
     root[way].axis = AxisOf(direction) /\ p \in PanesBelow(root, way)}

\* resize_target: a split around p that can move its divider that way, the innermost.
Movable(p, direction) ==
  {way \in Splits(root) :
     /\ root[way].axis = AxisOf(direction)
     /\ p \in PanesBelow(root, IF Forward(direction) THEN First(way) ELSE Second(way))}

Innermost(ways) == CHOOSE w \in ways : \A v \in ways : Len(w) >= Len(v)

--------------------------------------------------------------------------------
(* directional_neighbor *)

Centre2(axis, rect) == 2 * Start(axis, rect) + Along(axis, rect)
Across(axis) == IF axis = "leftRight" THEN "topBottom" ELSE "leftRight"

\* Distance from source to rect in a direction; negative if they overlap.
Ahead(direction, source, rect) ==
  IF Forward(direction)
  THEN Start(AxisOf(direction), rect) - End(AxisOf(direction), source)
  ELSE Start(AxisOf(direction), source) - End(AxisOf(direction), rect)

Overlap(axis, a, b) ==
  Max({Start(axis, a), Start(axis, b)}) < Min({End(axis, a), End(axis, b)})

InDirection(frames, p, direction) ==
  LET axis == AxisOf(direction)
      from == Centre2(axis, frames[p])
  IN  {q \in DOMAIN frames :
         IF Forward(direction) THEN Centre2(axis, frames[q]) > from
         ELSE Centre2(axis, frames[q]) < from}

Before(q, r) ==
  LET leaves == [panes |-> PaneIds(root)] IN Tab!LeafOf(leaves, q) < Tab!LeafOf(leaves, r)

\* A mistake Neighbour avoids: the pane furthest away.
Furthest(frames, p, direction) ==
  CHOOSE q \in InDirection(frames, p, direction) :
    \A r \in InDirection(frames, p, direction) :
      Ahead(direction, frames[p], frames[q]) >= Ahead(direction, frames[p], frames[r])

\* Aligned panes if there are any, the nearest of these, then the best centred, then
\* the first in the tree.
Neighbour(frames, p, direction) ==
  LET across  == Across(AxisOf(direction))
      there   == InDirection(frames, p, direction)
      aligned == {q \in there : Overlap(across, frames[p], frames[q])}
      found   == IF aligned # {} THEN aligned ELSE there
      far(q)  == Max({Ahead(direction, frames[p], frames[q]), 0})
      off(q)  == LET d == Centre2(across, frames[p]) - Centre2(across, frames[q])
                 IN  Max({d, -d})
      better(q, r) ==
        \/ far(q) < far(r)
        \/ far(q) = far(r) /\ off(q) < off(r)
        \/ far(q) = far(r) /\ off(q) = off(r) /\ Before(q, r)
  IN  CHOOSE q \in found : \A r \in found \ {q} : better(q, r)

--------------------------------------------------------------------------------
(* The tab at work. *)

Rects == {[x |-> 0, y |-> 0, w |-> w, h |-> h] : w \in Widths, h \in Heights}
Order == PaneIds(root)
Fresh == Panes \ (Within(root) \union {zoomed})

Init ==
  /\ \E p \in Panes : root = [way \in {<< >>} |-> Leaf(p)] /\ focused = p
  /\ zoomed = Nothing
  /\ view \in Rects

\* pane.split-right and pane.split-down
SplitFocused(axis, new) ==
  /\ Len(Order) < MaxPanes
  /\ root' = SplitAt(root, focused, axis, new)
  /\ focused' = new
  /\ UNCHANGED <<zoomed, view>>

\* TabModel::remove_pane; the last pane goes with its tab.
ClosePane(i) ==
  /\ Len(Order) > 1
  /\ root' = Without(root, Order[i])
  /\ focused' = IF focused # Order[i] THEN focused
                ELSE Order[IF i < Len(Order) THEN i + 1 ELSE i - 1]
  /\ UNCHANGED <<zoomed, view>>

\* pane.move: the pane is focused first.
SwapPanes(p, q) ==
  /\ p # q
  /\ root' = Swapped(root, p, q)
  /\ focused' = p
  /\ UNCHANGED <<zoomed, view>>

CycleFocus(direction) ==
  LET i == CHOOSE j \in DOMAIN Order : Order[j] = focused
  IN  /\ Len(Order) > 1
      /\ focused' = Order[((i - 1 + direction) % Len(Order)) + 1]
      /\ UNCHANGED <<root, zoomed, view>>

\* A click, or pane.focus: any pane, also one that zoom hides.
FocusPane(p) ==
  /\ focused' = p
  /\ UNCHANGED <<root, zoomed, view>>

\* The layout that is asked for neighbours does not know of zoom.
MoveFocus(direction) ==
  /\ InDirection(Frames, focused, direction) # {}
  /\ LET frames == Frames IN focused' = Neighbour(frames, focused, direction)
  /\ UNCHANGED <<root, zoomed, view>>

\* A mistake ResizeFocused avoids: the new ratio is not bounded.
ResizeUnbounded(direction) ==
  /\ Movable(focused, direction) # {}
  /\ LET way == Innermost(Movable(focused, direction))
     IN  /\ HasBounds(root, way, Frame(way))
         /\ root' = WithRatio(root, way,
                      root[way].ratio + (IF Forward(direction) THEN Step ELSE -Step))
  /\ UNCHANGED <<focused, zoomed, view>>

\* TabModel::resize_focused
ResizeFocused(direction) ==
  /\ Movable(focused, direction) # {}
  /\ LET way   == Innermost(Movable(focused, direction))
         rect  == Frame(way)
         ratio == root[way].ratio + (IF Forward(direction) THEN Step ELSE -Step)
     IN  /\ HasBounds(root, way, rect)
         /\ root' = WithRatio(root, way, BoundedRatio(root, way, rect, ratio))
  /\ UNCHANGED <<focused, zoomed, view>>

\* A mistake DragDivider avoids: the gap counts as part of the halves.
DragOverGap(way, pointer) ==
  LET axis  == root[way].axis
      rect  == Frame(way)
      ratio == ((pointer - Start(axis, rect)) * Scale) \div Along(axis, rect)
  IN  /\ zoomed \notin Within(root)
      /\ HasBounds(root, way, rect)
      /\ root' = WithRatio(root, way, BoundedRatio(root, way, rect, ratio))
      /\ UNCHANGED <<focused, zoomed, view>>

\* resize_divider, with the pointer at a pixel of the axis; a zoomed tab has no dividers.
DragDivider(way, pointer) ==
  LET axis  == root[way].axis
      rect  == Frame(way)
      ratio == ((pointer - Start(axis, rect)) * Scale) \div Max({Along(axis, rect) - Gap, 1})
  IN  /\ zoomed \notin Within(root)
      /\ HasBounds(root, way, rect)
      /\ root' = WithRatio(root, way, BoundedRatio(root, way, rect, ratio))
      /\ UNCHANGED <<focused, zoomed, view>>

ToggleZoom ==
  /\ zoomed' = IF zoomed = focused THEN Nothing ELSE focused
  /\ UNCHANGED <<root, focused, view>>

ResizeWindow(rect) ==
  /\ rect # view
  /\ view' = rect
  /\ UNCHANGED <<root, focused, zoomed>>

Next ==
  \/ \E axis \in {"leftRight", "topBottom"}, new \in Fresh : SplitFocused(axis, new)
  \/ \E i \in DOMAIN Order : ClosePane(i)
  \/ \E p, q \in Within(root) : SwapPanes(p, q)
  \/ \E direction \in {1, -1} : CycleFocus(direction)
  \/ \E p \in Within(root) : FocusPane(p)
  \/ \E direction \in Directions : MoveFocus(direction)
  \/ \E direction \in Directions : ResizeFocused(direction)
  \/ \E way \in Splits(root), pointer \in Pointers : DragDivider(way, pointer)
  \/ ToggleZoom
  \/ \E rect \in Rects : ResizeWindow(rect)

Spec == Init /\ [][Next]_vars

--------------------------------------------------------------------------------
(* Properties. *)

Nodes == {Leaf(p) : p \in Panes} \union [kind : {"split"}, axis : Axes, ratio : 0 .. Scale]

\* Every split has two halves, and every node but the root is one of these.
IsTree(t) ==
  /\ << >> \in DOMAIN t
  /\ \A way \in DOMAIN t : way \in Seq(Halves) /\ t[way] \in Nodes
  /\ \A way \in DOMAIN t : way # << >> => Front(way) \in Splits(t)
  /\ \A way \in Splits(t) : First(way) \in DOMAIN t /\ Second(way) \in DOMAIN t

\* No pane is in the tree twice, every ratio is within 0 and 1, and the focused pane is in
\* the tree: has_unique_ids_and_valid_ratios after every operation.
TypeOK ==
  /\ IsTree(root)
  /\ \A v, w \in Leaves(root) : root[v].id = root[w].id => v = w
  /\ focused \in Within(root)
  /\ zoomed \in Panes \union {Nothing}
  /\ view \in Rects

Covers(rect, x, y) ==
  rect.x <= x /\ x < rect.x + rect.w /\ rect.y <= y /\ y < rect.y + rect.h
Inside(a, b) ==
  \A axis \in Axes : Start(axis, a) >= Start(axis, b) /\ End(axis, a) <= End(axis, b)

\* What is drawn for a node: a pane, or the divider between the halves of a split.
Tile(way) ==
  IF root[way].kind = "pane" THEN Frame(way) ELSE DividerRect(root, way, Frame(way))

\* Panes and dividers tile the view, at every size: they lie in it, share no pixel and
\* leave none out ("Layout consumes every pixel at odd sizes", split layout).
Tiled ==
  LET tiles == {<<way, Tile(way)>> : way \in DOMAIN root}
  IN  /\ \A s \in tiles : Inside(s[2], view) /\ s[2].w >= 0 /\ s[2].h >= 0
      /\ \A x \in view.x .. view.x + view.w - 1, y \in view.y .. view.y + view.h - 1 :
           \E s \in tiles : \A r \in tiles : Covers(r[2], x, y) <=> r = s

Roomy == \A axis \in Axes : Along(axis, view) >= MinimumAlong(root, << >>, axis)

\* Whatever the ratios are, no pane is smaller than MINIMUM_PANE in a window that has
\* room for the tree (the layout against the minimum sizes of nested splits).
MinimumHonoured ==
  Roomy => LET frames == Frames
           IN  \A p \in DOMAIN frames : frames[p].w >= MinWidth /\ frames[p].h >= MinHeight

\* The four focus commands lead from every pane to every other one: no set of panes is
\* out of the keyboard's reach (directional_neighbor over any layout that has room).
AllReachable ==
  LET frames == Frames
      ways(p) == {d \in Directions : InDirection(frames, p, d) # {}}
      next   == [p \in Within(root) |-> {Neighbour(frames, p, d) : d \in ways(p)}]
  IN  Roomy => \A some \in (SUBSET Within(root)) \ {{}, Within(root)} :
                 \E p \in some : ~(next[p] \subseteq some)

\* The operations on the tree are, on the order of its leaves and the focus, those the
\* hierarchy model takes them for (AppModel): TabModel's promises to Navigation.
tab == [panes |-> Order, focused |-> focused]
TabKept ==
  [][\/ UNCHANGED tab
     \/ \E p \in ToSet(tab.panes) : tab' = [tab EXCEPT !.focused = p]
     \/ \E new \in Panes \ ToSet(tab.panes) : tab' = Tab!PaneSplit(tab, focused, new)
     \/ Len(tab.panes) > 1 /\ \E p \in ToSet(tab.panes) : tab' = Tab!PaneRemoved(tab, p)
     \/ \E p, q \in ToSet(tab.panes) :
          Tab!CanSwap(tab, p, q) /\ tab' = Tab!PanesSwapped([tab EXCEPT !.focused = p], p, q)]_vars

\* Resizing a pane towards a side never makes it shorter along that axis, whatever the
\* bounds do to the ratio (resize_focused, then the layout).
ResizeNeverShrinks ==
  [][\A direction \in Directions :
       root' # root /\ ResizeFocused(direction) =>
         Along(AxisOf(direction), Frames'[focused])
           >= Along(AxisOf(direction), Frames[focused])]_vars

\* A dragged divider begins at the pixel of the pointer, unless a tenth of the split or
\* the minimum of a half is in the way (resize_divider's ratio, its bounds, and the
\* rounding of the layout agree).
DragFollowsPointer ==
  [][\A way \in Splits(root), pointer \in Pointers :
       root' # root /\ DragDivider(way, pointer) =>
         LET axis   == root[way].axis
             rect   == Frame(way)
             usable == Along(axis, rect) - Gap
             low    == Max({FirstMinimum(root, way), Rounded(usable, 10)})
             high   == usable - SecondMinimum(root, way)
             tenth  == Rounded(9 * usable, 10)
         IN  Start(axis, DividerRect(root', way, rect))
               = Bounded(pointer, Start(axis, rect) + low,
                         Start(axis, rect) + Min({high, tenth}))]_vars

\* What the feature inventory says of it: a drag centres the divider under the pointer,
\* to the pixel, wherever the divider is not held back.
DragCentresDivider ==
  [][\A way \in Splits(root), pointer \in Pointers :
       root' # root /\ DragDivider(way, pointer) =>
         LET axis    == root[way].axis
             rect    == Frame(way)
             usable  == Along(axis, rect) - Gap
             low     == Max({FirstMinimum(root, way), Rounded(usable, 10)})
             high    == Min({usable - SecondMinimum(root, way), Rounded(9 * usable, 10)})
             divider == DividerRect(root', way, rect)
         IN  Start(axis, divider) - Start(axis, rect) \in (low + 1) .. (high - 1) =>
               Start(axis, divider) + End(axis, divider) \in (2 * pointer - 1) .. (2 * pointer + 1)]_vars

================================================================================
