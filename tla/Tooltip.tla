------------------------------ MODULE Tooltip ------------------------------
(***************************************************************************)
(* The tooltips of a window's elements (elements/div.rs, window.rs).  A    *)
(* mouse move over an element starts a timer to show its tooltip; a        *)
(* visible one asks for a draw when the pointer leaves, and the draw       *)
(* decides: it hides the tooltip, or starts a timer to hide one that can   *)
(* be hovered itself.  An element that is not painted has no listeners,    *)
(* and one that is not rendered loses its state and the timer with it.     *)
(*                                                                         *)
(* Elements are numbered in the order of their prepaint.  The pointer is   *)
(* in the bounds of one or none, possibly covered by another element, and  *)
(* in the bounds of some tooltips.                                         *)
(***************************************************************************)
EXTENDS Naturals, FiniteSetsExt

CONSTANTS
    Tips,       \* the number of elements with a tooltip
    Hoverable   \* those whose tooltip may be hovered

VARIABLES
    active_tooltip,  \* "none", "show" (WaitingForShow), "visible" or "hide"
    tooltip_bounds,  \* the element whose tooltip the last frame shows, or 0
    painted,         \* elements with mouse listeners in the last frame
    over, covered, on_tips,  \* the pointer
    keyboard,        \* last_input_was_keyboard
    pending_mouse_down,      \* the element pressed, or 0
    tip_dirty,       \* the window is to be drawn
    exited,          \* history: the pointer has left the window
    rested           \* history: elements whose tooltip the last draw saw hovered

tipVars == <<active_tooltip, tooltip_bounds, painted, over, covered, on_tips, keyboard,
             pending_mouse_down, tip_dirty, exited, rested>>

TipElements == 1..Tips

TipInit ==
    /\ active_tooltip = [e \in TipElements |-> "none"]
    /\ tooltip_bounds = 0
    /\ painted = TipElements
    /\ over = 0 /\ covered = FALSE /\ on_tips = {}
    /\ keyboard = FALSE /\ pending_mouse_down = 0
    /\ tip_dirty = FALSE /\ exited = FALSE /\ rested = {}

-----------------------------------------------------------------------------
\* TooltipId::is_hovered, of the element's request in the last frame.
TipHovered(e) == tooltip_bounds = e /\ e \in on_tips

\* check_is_hovered and check_is_hovered_during_prepaint.
IsHovered(e) == pending_mouse_down # e /\ ~keyboard /\ over = e /\ ~covered
IsHoveredDuringPrepaint(e) == pending_mouse_down # e /\ ~keyboard /\ over = e

\* handle_tooltip_mouse_move, in both phases; a listener in front may keep
\* the bubble phase from it.
AfterMove(e) ==
    CASE active_tooltip[e] = "none" -> IF IsHovered(e)' THEN {"none", "show"} ELSE {"none"}
      [] active_tooltip[e] = "show" -> IF IsHovered(e)' THEN {"show"} ELSE {"none"}
      [] OTHER -> {active_tooltip[e]}

\* ... Action::CheckVisible, which notifies the view.
ChecksVisible(e) ==
    \/ active_tooltip[e] = "visible" /\ ~IsHovered(e)' /\ (e \notin Hoverable \/ ~TipHovered(e)')
    \/ active_tooltip[e] = "hide" /\ (IsHovered(e)' \/ TipHovered(e)')

\* A mouse move.  Elements that are only painted when hovered watch it too.
MouseMoves(o, c, t) ==
    /\ c => o # 0
    /\ \A e \in t : active_tooltip[e] \in {"visible", "hide"}
    /\ over' = o /\ covered' = c /\ on_tips' = t
    /\ keyboard' = FALSE /\ exited' = FALSE
    /\ UNCHANGED <<tooltip_bounds, painted, pending_mouse_down, rested>>
    /\ active_tooltip' \in [TipElements -> {"none", "show", "visible", "hide"}]
    /\ \A e \in TipElements :
          active_tooltip'[e] \in IF e \in painted THEN AfterMove(e) ELSE {active_tooltip[e]}
    /\ tip_dirty' = \/ tip_dirty \/ keyboard
                    \/ \E e \in painted : ChecksVisible(e)
                    \/ o # over /\ {o, over} \cap (TipElements \ painted) # {}

\* clear_active_tooltip_if_not_hoverable, for all listeners.
Cleared == {e \in painted : ~TipHovered(e) /\ active_tooltip[e] = "visible" /\ e \notin Hoverable}
ClearNotHoverable ==
    active_tooltip' = [e \in TipElements |-> IF e \in Cleared THEN "none" ELSE active_tooltip[e]]

MousePressed ==
    /\ ClearNotHoverable
    /\ keyboard' = FALSE
    /\ pending_mouse_down' = IF over \in painted /\ ~covered THEN over ELSE pending_mouse_down
    /\ tip_dirty' = (tip_dirty \/ keyboard \/ Cleared # {} \/ pending_mouse_down' # 0)
    /\ UNCHANGED <<tooltip_bounds, painted, over, covered, on_tips, exited, rested>>

MouseReleased ==
    /\ pending_mouse_down # 0
    /\ pending_mouse_down' = 0
    /\ tip_dirty' = TRUE
    /\ UNCHANGED <<active_tooltip, tooltip_bounds, painted, over, covered, on_tips, keyboard,
                   exited, rested>>

WheelScrolled ==
    /\ ClearNotHoverable
    /\ tip_dirty' = (tip_dirty \/ Cleared # {})
    /\ UNCHANGED <<tooltip_bounds, painted, over, covered, on_tips, keyboard,
                   pending_mouse_down, exited, rested>>

KeyPressed ==
    /\ ~keyboard
    /\ keyboard' = TRUE
    /\ tip_dirty' = TRUE
    /\ UNCHANGED <<active_tooltip, tooltip_bounds, painted, over, covered, on_tips,
                   pending_mouse_down, exited, rested>>

\* MouseExited leaves the position as it was, and no tooltip listens to it.
MouseExits ==
    /\ ~exited
    /\ exited' = TRUE
    /\ UNCHANGED <<active_tooltip, tooltip_bounds, painted, over, covered, on_tips, keyboard,
                   pending_mouse_down, tip_dirty, rested>>

\* The delayed tasks; one that was replaced or dropped does not run.  A new
\* tooltip is laid out beside the pointer.
ShowTimer(e) ==
    /\ active_tooltip[e] = "show"
    /\ active_tooltip' = [active_tooltip EXCEPT ![e] = "visible"]
    /\ on_tips' = on_tips \ {e}
    /\ tip_dirty' = TRUE
    /\ UNCHANGED <<tooltip_bounds, painted, over, covered, keyboard, pending_mouse_down,
                   exited, rested>>

HideTimer(e) ==
    /\ active_tooltip[e] = "hide"
    /\ active_tooltip' = [active_tooltip EXCEPT ![e] = "none"]
    /\ tip_dirty' = TRUE
    /\ UNCHANGED <<tooltip_bounds, painted, over, covered, on_tips, keyboard,
                   pending_mouse_down, exited, rested>>

-----------------------------------------------------------------------------
SeenHovered(e) == IsHoveredDuringPrepaint(e) \/ (e \in Hoverable /\ e \in on_tips)

\* Mutant of CheckVisible: a tooltip that is hovered again is still to go.
CheckVisibleNoCancel(e) ==
    CASE active_tooltip[e] = "visible" /\ ~SeenHovered(e) ->
            IF e \in Hoverable THEN "hide" ELSE "none"
      [] OTHER -> active_tooltip[e]

\* handle_tooltip_check_visible_and_update.
CheckVisible(e) ==
    CASE active_tooltip[e] = "visible" /\ ~SeenHovered(e) ->
            IF e \in Hoverable THEN "hide" ELSE "none"
      [] active_tooltip[e] = "hide" /\ SeenHovered(e) -> "visible"
      [] OTHER -> active_tooltip[e]

\* A draw that renders some elements and paints some of those.  Unless a
\* prompt or a drag is shown, the requests are tried from the last to the
\* first, until one is still visible; those before it are not looked at.
DrawTips(elements, shown, blocked) ==
    LET requests == {e \in elements : active_tooltip[e] \in {"visible", "hide"}}
        top == IF blocked THEN Tips + 1
               ELSE Max({e \in requests : CheckVisible(e) # "none"} \cup {0})
        checked == {e \in requests : e >= top}
    IN /\ tip_dirty
       /\ shown \subseteq elements
       /\ tip_dirty' = FALSE
       /\ painted' = shown
       /\ tooltip_bounds' = IF blocked THEN 0 ELSE top
       /\ active_tooltip' = [e \in TipElements |->
                                CASE e \notin elements -> "none"
                                  [] e \in checked -> CheckVisible(e)
                                  [] OTHER -> active_tooltip[e]]
       /\ rested' = (rested \ checked) \cup {e \in checked : SeenHovered(e)}
       /\ UNCHANGED <<over, covered, on_tips, keyboard, pending_mouse_down, exited>>

DrawsTips == \E elements, shown \in SUBSET TipElements, blocked \in BOOLEAN :
                 DrawTips(elements, shown, blocked)

TipNext ==
    \/ \E o \in 0..Tips, c \in BOOLEAN, t \in SUBSET TipElements : MouseMoves(o, c, t)
    \/ MousePressed \/ MouseReleased \/ WheelScrolled \/ KeyPressed \/ MouseExits
    \/ \E e \in TipElements : ShowTimer(e) \/ HideTimer(e)
    \/ DrawsTips

\* A dirty window is drawn, see FrameLoop, and timers fire.
TipFairness ==
    /\ WF_tipVars(DrawsTips)
    /\ \A e \in TipElements : WF_tipVars(HideTimer(e))

TipSpec == TipInit /\ [][TipNext]_tipVars /\ TipFairness

-----------------------------------------------------------------------------
\* The pointer is neither on the element nor on the tooltip shown for it.
Stray(e) == tooltip_bounds = e /\ over # e /\ e \notin on_tips

\* A tooltip that the pointer has left goes away by itself, also when other
\* tooltips were asked for in front of it, or a key, a timer or a drag came
\* in between; unless the pointer left the window, or the element is no
\* longer painted and so hears nothing of the pointer.
StrayTipGoes ==
    \A e \in TipElements :
        Stray(e) /\ e \in painted ~> ~Stray(e) \/ exited \/ e \notin painted

\* A hoverable tooltip on which the last draw found the pointer is not
\* hidden by a timer from before.
RestedTipStays == [][\A e \in TipElements : HideTimer(e) => e \notin rested]_tipVars

\* Tooltips go where the pointer goes: away when it leaves, and not under it.
TipFollowsPointer == StrayTipGoes /\ RestedTipStays

=============================================================================
