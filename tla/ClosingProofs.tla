------------------------------ MODULE ClosingProofs ------------------------------
(***************************************************************************)
(* What Closing promises, for any panes and any way they share tabs,       *)
(* groups and workspaces.                                                  *)
(*                                                                         *)
(* The three invariants hold each other up: the selection under a review   *)
(* stays what it was because requests are refused while the flag is set,   *)
(* and the flag is set because every dialog that is shown sets it.  What a *)
(* close ends then follows from the one step that ends it.                 *)
(***************************************************************************)
EXTENDS Closing, TLAPS

IInv == TypeOK /\ FlagsInStep /\ ReviewIsOfSelection

--------------------------------------------------------------------------------
(* The kinds of steps. *)

\* A pane is in every scope it is the selected pane of.
LEMMA WithinTyped ==
  ASSUME TypeOK, NEW scope, NEW p \in panes
  PROVE  Within(scope, p) \subseteq panes /\ p \in Within(scope, p)
  BY DEF Within

\* The window closes.
LEMMA ShutdownStep ==
  ASSUME TypeOK, Shutdown, confirmed' \in BOOLEAN, modal' \in BOOLEAN, dialog' \in Dialogs,
         idleClose' \in BOOLEAN
  PROVE  IInv'
<1>1. TypeOK'
  BY DEF Shutdown, Unforced, Place, TypeOK
<1>2. window' = "closed"
  BY DEF Shutdown
<1>3. QED
  BY <1>1, <1>2 DEF IInv, FlagsInStep, ReviewIsOfSelection

\* The hierarchy changes, and no dialog is shown afterwards.
LEMMA UndisturbedStep ==
  ASSUME TypeOK', window' = "open", modal' = FALSE, dialog' = NoDialog, confirmed' = FALSE
  PROVE  IInv'
<1>1. dialog'.kind = "none"
  BY DEF NoDialog
<1>2. QED
  BY <1>1 DEF IInv, FlagsInStep, ReviewIsOfSelection

\* Neither the hierarchy nor the dialog changes.
LEMMA SteadyStep ==
  ASSUME IInv, TypeOK', UNCHANGED <<window, panes, selected, confirmed, modal, dialog>>
  PROVE  IInv'
<1>1. \A scope, p : Within(scope, p)' = Within(scope, p)
  BY DEF Within
<1>2. FlagsInStep'
  BY DEF IInv, FlagsInStep
<1>3. ReviewIsOfSelection'
  BY DEF IInv, ReviewIsOfSelection, Within
<1>4. QED
  BY <1>2, <1>3 DEF IInv

\* A dialog is shown, and a review covers what is selected.
LEMMA ShowStep ==
  ASSUME IInv, NEW kind \in {"review", "other"}, NEW scope \in Scopes \union {"window", "none"},
         NEW covers \in SUBSET Panes,
         Show(kind, scope, covers), kind = "review" => covers = Within(scope, selected),
         Unforced, UNCHANGED <<window, Place, Running, asks, confirmed, term>>,
         idleClose' \in BOOLEAN
  PROVE  IInv'
<1>1. /\ dialog' = [kind |-> kind, scope |-> scope, covers |-> covers,
                     counted |-> busy \intersect covers]
      /\ modal' = TRUE
  BY DEF Show
<1>2. dialog'.kind = kind /\ dialog'.scope = scope /\ dialog'.covers = covers
  BY <1>1
<1>3. dialog' \in Dialogs
  BY <1>1 DEF Dialogs
<1>4. dialog' # NoDialog
  BY <1>2 DEF NoDialog
<1>5. TypeOK'
  BY <1>1, <1>3 DEF IInv, TypeOK, Unforced, Place, Running
<1>6. FlagsInStep'
  BY <1>1, <1>4 DEF IInv, FlagsInStep
<1>7. ReviewIsOfSelection'
  BY <1>2 DEF ReviewIsOfSelection, Within, Place
<1>8. QED
  BY <1>5, <1>6, <1>7 DEF IInv

--------------------------------------------------------------------------------
(* What the handlers share. *)

\* The close of the window: at once, or after a review.
LEMMA CloseHandlerStep ==
  ASSUME IInv, Up, CloseHandler, idleClose' \in BOOLEAN
  PROVE  IInv'
<1>1. CASE Shutdown /\ UNCHANGED <<confirmed, Shown>>
  BY <1>1, ShutdownStep DEF IInv, TypeOK, Shown
<1>2. CASE /\ UNCHANGED Shown
           /\ Unforced /\ UNCHANGED <<window, Place, Running, asks, confirmed, term>>
  <2>1. TypeOK'
    BY <1>2 DEF IInv, TypeOK, Shown, Unforced, Place, Running
  <2>2. QED
    BY <1>2, <2>1, SteadyStep DEF Shown, Place
<1>3. CASE /\ Show("review", "window", panes)
           /\ Unforced /\ UNCHANGED <<window, Place, Running, asks, confirmed, term>>
  BY <1>3, ShowStep DEF IInv, TypeOK, Within
<1>4. QED
  BY <1>1, <1>2, <1>3 DEF CloseHandler

\* The close of a scope, when no dialog is shown afterwards.
LEMMA CloseSelectedStep ==
  ASSUME IInv, Up, NEW scope, NEW reviewed \in BOOLEAN, CloseSelected(scope, reviewed),
         modal' = FALSE, dialog' = NoDialog, UNCHANGED idleClose
  PROVE  IInv'
<1>1. dialog' \in Dialogs
  BY DEF NoDialog, Dialogs
<1>2. CASE Shutdown /\ confirmed' = (confirmed \/ reviewed)
  <2>1. confirmed' \in BOOLEAN
    BY <1>2 DEF IInv, TypeOK
  <2>2. QED
    BY <1>1, <1>2, <2>1, ShutdownStep DEF IInv, TypeOK
<1>3. CASE /\ Removes(Within(scope, selected)) \/ UNCHANGED <<Place, Running>>
           /\ Unforced
           /\ UNCHANGED <<window, asks, confirmed, term>>
  <2>1. TypeOK'
    BY <1>1, <1>3 DEF IInv, TypeOK, Removes, Place, Running, Unforced
  <2>2. window' = "open" /\ confirmed' = FALSE
    BY <1>3 DEF IInv, FlagsInStep, Up, TypeOK
  <2>3. QED
    BY <2>1, <2>2, UndisturbedStep
<1>4. QED
  BY <1>2, <1>3 DEF CloseSelected

\* While requests are answered, or the user is at the window, no dialog is shown.
LEMMA NothingShown ==
  ASSUME IInv, MayNavigate \/ AtUser \/ (Up /\ NotPaused)
  PROVE  /\ window = "open" /\ Up
         /\ modal = FALSE /\ dialog = NoDialog /\ confirmed = FALSE
  BY DEF IInv, FlagsInStep, TypeOK, MayNavigate, AtUser, Up, NotPaused

--------------------------------------------------------------------------------
LEMMA StepKeeps == IInv /\ [Next]_vars => IInv'
<1> SUFFICES ASSUME IInv, [Next]_vars PROVE IInv'
  OBVIOUS
<1>0. TypeOK
  BY DEF IInv
<1>1. ASSUME NEW s \in Scopes, CloseUnreviewed(s) PROVE IInv'
  BY <1>1, NothingShown, CloseSelectedStep DEF CloseUnreviewed, Shown
<1>2. ASSUME NEW s \in Scopes, AskForScope(s) PROVE IInv'
  <2>1. Within(s, selected) \in SUBSET Panes
    BY <1>0, WithinTyped DEF TypeOK
  <2>2. idleClose' \in BOOLEAN
    BY <1>0, <1>2 DEF AskForScope, TypeOK
  <2>3. Show("review", s, Within(s, selected)) /\ Unforced
          /\ UNCHANGED <<window, Place, Running, asks, confirmed, term>>
    BY <1>2 DEF AskForScope
  <2>4. QED
    BY <2>1, <2>2, <2>3, ShowStep
<1>3. CASE ConfirmScope
  BY <1>3, CloseSelectedStep DEF ConfirmScope, Dismiss
<1>4. CASE ConfirmWindow
  <2>1. NoDialog \in Dialogs
    BY DEF NoDialog, Dialogs
  <2>2. QED
    BY <1>0, <1>4, <2>1, ShutdownStep DEF ConfirmWindow, Dismiss, TypeOK
<1>5. CASE CloseDialog
  <2>1. NoDialog \in Dialogs
    BY DEF NoDialog, Dialogs
  <2>2. TypeOK'
    BY <1>0, <1>5, <2>1 DEF CloseDialog, Dismiss, TypeOK, Unforced, Place, Running
  <2>3. QED
    BY <1>5, <2>2, UndisturbedStep DEF CloseDialog, Dismiss, IInv, FlagsInStep, Up, TypeOK
<1>6. CASE OpenOther
  BY <1>0, <1>6, ShowStep DEF OpenOther, TypeOK
<1>7. CASE CloseWindow
  BY <1>0, <1>7, CloseHandlerStep DEF CloseWindow, TypeOK
<1>8. CASE IdleClose
  BY <1>8, CloseHandlerStep DEF IdleClose
<1>9. ASSUME NEW p \in Panes, Select(p) \/ Open(p) PROVE IInv'
  <2>1. TypeOK'
    BY <1>0, <1>9 DEF Select, Open, TypeOK, Unforced, Running, Shown
  <2>2. QED
    BY <1>9, <2>1, NothingShown, UndisturbedStep DEF Select, Open, Shown
<1>10. ASSUME NEW p \in Panes, NEW s \in Scopes, NEW force \in BOOLEAN, RequestClose(p, s, force)
       PROVE  IInv'
  <2>1. forced' \in SUBSET Panes
    BY <1>0, <1>10, WithinTyped DEF RequestClose, TypeOK
  <2>2. TypeOK'
    BY <1>0, <1>10, <2>1 DEF RequestClose, Removes, TypeOK, Shown
  <2>3. QED
    BY <1>10, <2>2, NothingShown, UndisturbedStep DEF RequestClose, Shown
<1>11. ASSUME NEW p \in Panes, NEW force \in BOOLEAN, RequestCloseLast(p, force) PROVE IInv'
  <2>1. TypeOK'
    BY <1>0, <1>11 DEF RequestCloseLast, TypeOK, Place, Shown
  <2>2. QED
    BY <1>11, <2>1 DEF RequestCloseLast, IInv, FlagsInStep, ReviewIsOfSelection
<1>12. ASSUME NEW p \in Panes, StartProgram(p) \/ EndProgram(p) \/ ChildExit(p) PROVE IInv'
  <2>1. TypeOK'
    BY <1>0, <1>12 DEF StartProgram, EndProgram, ChildExit, TypeOK, Unforced, Place, Shown
  <2>2. QED
    BY <1>12, <2>1, SteadyStep DEF StartProgram, EndProgram, ChildExit, Place, Shown
<1>13. CASE ChangeSetting \/ TermArrives
  <2>1. TypeOK'
    BY <1>0, <1>13 DEF ChangeSetting, TermArrives, TypeOK, Unforced, Place, Running, Shown
  <2>2. QED
    BY <1>13, <2>1, SteadyStep DEF ChangeSetting, TermArrives, Place, Shown
<1>14. CASE ServeTerm
  <2>1. TypeOK'
    BY <1>0, <1>14 DEF ServeTerm, TypeOK, Unforced, Place, Shown
  <2>2. QED
    BY <1>14, <2>1 DEF ServeTerm, IInv, FlagsInStep, ReviewIsOfSelection
<1>15. CASE UNCHANGED vars
  <2>1. TypeOK'
    BY <1>0, <1>15 DEF vars, TypeOK, Place, Running, Shown
  <2>2. QED
    BY <1>15, <2>1, SteadyStep DEF vars, Place, Shown
<1>16. QED
  BY <1>1, <1>2, <1>3, <1>4, <1>5, <1>6, <1>7, <1>8, <1>9, <1>10, <1>11, <1>12, <1>13, <1>14,
     <1>15 DEF Next, UserCloses, Request, Environment

LEMMA Inductive == Spec => []IInv
<1>1. Init => IInv
  <2> SUFFICES ASSUME Init PROVE IInv
    OBVIOUS
  <2>1. dialog = NoDialog /\ NoDialog \in Dialogs /\ NoDialog.kind = "none"
    BY DEF Init, NoDialog, Dialogs
  <2>2. TypeOK
    BY <2>1 DEF Init, TypeOK
  <2>3. modal = FALSE /\ confirmed = FALSE
    BY DEF Init
  <2>4. FlagsInStep
    BY <2>1, <2>3 DEF FlagsInStep
  <2>5. ReviewIsOfSelection
    BY <2>1 DEF ReviewIsOfSelection
  <2>6. QED
    BY <2>2, <2>4, <2>5 DEF IInv
<1>2. QED
  BY <1>1, StepKeeps, PTL DEF Spec

--------------------------------------------------------------------------------
(* What follows from it. *)

\* The shape of the state.
THEOREM TypeCorrect == Spec => []TypeOK
  BY Inductive, PTL DEF IInv

\* No dialog without its flag, no flag without its dialog, and no confirmation that is
\* left over.
THEOREM FlagsAreInStep == Spec => []FlagsInStep
  BY Inductive, PTL DEF IInv

\* A review that is shown covers what its command would close.
THEOREM ReviewsAreOfSelection == Spec => []ReviewIsOfSelection
  BY Inductive, PTL DEF IInv

--------------------------------------------------------------------------------
(* What a step ends. *)

InScope ==
  Killed # {} /\ asks =>
    \/ dialog.kind = "review" /\ Killed \subseteq dialog.covers /\ dialog' = NoDialog
    \/ term' = "served"
    \/ Killed \subseteq forced'

\* Nothing, as long as the window stays open and no pane leaves.
LEMMA NothingKilled ==
  ASSUME TypeOK, panes \subseteq panes', window' = "open"
  PROVE  Killed = {}
  BY DEF TypeOK, Killed

\* What is closed unreviewed has nothing that runs.
LEMMA HandlerKills == ASSUME IInv, Up, CloseHandler PROVE InScope
<1>1. CASE Foreground("window", selected) = {}
  BY <1>1 DEF Foreground, Within, IInv, TypeOK, Killed, InScope
<1>2. CASE ~ asks
  BY <1>2 DEF InScope
<1>3. CASE UNCHANGED <<window, Place>>
  BY <1>3, NothingKilled DEF InScope, IInv, Place, Up
<1>4. ~ confirmed
  BY DEF IInv, FlagsInStep, Up
<1>5. QED
  BY <1>1, <1>2, <1>3, <1>4 DEF CloseHandler

\* The close of a scope ends what runs in the scope.
LEMMA SelectedKills ==
  ASSUME IInv, Up, NEW scope, NEW reviewed, CloseSelected(scope, reviewed)
  PROVE  Killed \subseteq Foreground(scope, selected)
<1>1. CASE scope = "pane" /\ panes = {selected}
  BY <1>1 DEF Killed, Foreground, Within, IInv, TypeOK
<1>2. CASE Removes(Within(scope, selected)) /\ UNCHANGED window
  BY <1>2 DEF Killed, Foreground, Removes, IInv, TypeOK, Up
<1>3. CASE UNCHANGED <<window, Place>>
  BY <1>3, NothingKilled DEF IInv, Place, Up
<1>4. QED
  BY <1>1, <1>2, <1>3 DEF CloseSelected

\* A program is ended by a review that covered its pane, by force, or by SIGTERM.
THEOREM EveryKillIsInScope == Spec => KillsStayInScope
<1>1. IInv /\ [Next]_vars => [InScope]_vars
  <2> SUFFICES ASSUME IInv, Next PROVE InScope
    OBVIOUS
  <2>0. TypeOK
    BY DEF IInv
  <2>1. ASSUME NEW s \in Scopes, CloseUnreviewed(s) PROVE InScope
    <3>1. Killed \subseteq Foreground(s, selected)
      BY <2>1, SelectedKills DEF CloseUnreviewed, AtUser
    <3>2. ~ asks \/ Foreground(s, selected) = {}
      BY <2>1 DEF CloseUnreviewed
    <3>3. QED
      BY <3>1, <3>2 DEF InScope
  <2>2. CASE ConfirmScope
    <3>1. Killed \subseteq Foreground(dialog.scope, selected)
      BY <2>2, SelectedKills DEF ConfirmScope
    <3>2. dialog.covers = Within(dialog.scope, selected)
      BY <2>2 DEF ConfirmScope, IInv, ReviewIsOfSelection, Up
    <3>3. QED
      BY <2>2, <3>1, <3>2 DEF ConfirmScope, Dismiss, InScope, Foreground
  <2>3. CASE ConfirmWindow
    <3>1. dialog.covers = panes
      BY <2>3 DEF ConfirmWindow, IInv, ReviewIsOfSelection, Up, Within
    <3>2. QED
      BY <2>0, <2>3, <3>1 DEF ConfirmWindow, Dismiss, InScope, Killed, TypeOK
  <2>4. CASE CloseWindow \/ IdleClose
    BY <2>4, HandlerKills DEF CloseWindow, IdleClose
  <2>5. ASSUME NEW p \in Panes, NEW s \in Scopes, NEW force \in BOOLEAN, RequestClose(p, s, force)
        PROVE  InScope
    <3>1. Killed \subseteq Foreground(s, p)
      BY <2>0, <2>5 DEF RequestClose, Removes, Killed, Foreground, TypeOK, Up
    <3>2. force => forced' = Within(s, p)
      BY <2>5 DEF RequestClose
    <3>3. ~ force => Foreground(s, p) = {}
      BY <2>5 DEF RequestClose, MayClose
    <3>4. QED
      BY <3>1, <3>2, <3>3 DEF InScope, Foreground
  <2>6. ASSUME NEW p \in Panes, NEW force \in BOOLEAN, RequestCloseLast(p, force) PROVE InScope
    <3>1. Killed \subseteq Foreground("pane", p)
      BY <2>0, <2>6 DEF RequestCloseLast, Killed, Foreground, Within, TypeOK
    <3>2. force => forced' = {p}
      BY <2>6 DEF RequestCloseLast
    <3>3. ~ force => Foreground("pane", p) = {}
      BY <2>6 DEF RequestCloseLast, MayClose
    <3>4. QED
      BY <3>1, <3>2, <3>3 DEF InScope, Foreground, Within
  <2>7. CASE ServeTerm
    BY <2>7 DEF ServeTerm, InScope
  <2>8. ASSUME panes \subseteq panes', window' = window, window = "open" PROVE InScope
    BY <2>0, <2>8, NothingKilled DEF InScope
  <2>9. CASE \/ \E s \in Scopes : AskForScope(s)
             \/ CloseDialog \/ OpenOther \/ Environment
             \/ \E p \in Panes : Select(p) \/ Open(p)
    BY <2>8, <2>9 DEF AskForScope, CloseDialog, OpenOther, Environment, StartProgram,
       EndProgram, ChildExit, ChangeSetting, TermArrives, Select, Open, MayNavigate, AtUser,
       Up, Place
  <2>10. QED
    BY <2>1, <2>2, <2>3, <2>4, <2>5, <2>6, <2>7, <2>9 DEF Next, UserCloses, Request
<1>2. QED
  BY <1>1, Inductive, PTL DEF Spec, KillsStayInScope, InScope

================================================================================
