---------------------------- MODULE WindowFocus ----------------------------
(***************************************************************************)
(* The focus of a window (window.rs): Window::focus and blur say where it  *)
(* shall be, a draw finds out where it is, because only an element that is *)
(* rendered has it, and tells the listeners by comparing the focus paths   *)
(* of two frames.  Listeners move the focus again, in the middle of the    *)
(* draw, where refresh does nothing.                                       *)
(***************************************************************************)
CONSTANTS
    FocusIds,
    NoFocusId,
    Above      \* for an id, the ids of the elements it is in and its own

VARIABLES
    focus_id, focus_enabled,  \* Window.focus
    window_dirty, window_active,
    tree,       \* the ids of the elements a draw renders now
    live,       \* the ids with a FocusHandle left
    rendered,   \* the rendered frame: its focus path and window_active
    inside,     \* history: the ids whose listeners were last told of a focus in
    unseen      \* history: the last draw moved the focus after it was rendered,
                \* in an element or a focus-lost listener

focusVars == <<focus_id, focus_enabled, window_dirty, window_active, tree, live, rendered,
               inside, unseen>>

FocusInit ==
    /\ focus_id = NoFocusId /\ focus_enabled = TRUE
    /\ window_dirty = TRUE /\ window_active = FALSE
    /\ tree = FocusIds /\ live = FocusIds
    /\ rendered = [path |-> {}, active |-> FALSE]
    /\ inside = {} /\ unseen = FALSE

-----------------------------------------------------------------------------
\* DispatchTree::focus_path: empty unless the element was rendered.
FocusPath(f) == IF f \in tree THEN Above[f] \cap tree ELSE {}

\* Where a listener may leave a focus that is at f.
MovedFrom(f) == IF focus_enabled THEN {f, NoFocusId} \cup live ELSE {f}

Focus(f) ==
    /\ focus_enabled /\ f \in live /\ focus_id # f
    /\ focus_id' = f
    /\ window_dirty' = TRUE
    /\ UNCHANGED <<focus_enabled, window_active, tree, live, rendered, inside, unseen>>

BlurFocus ==
    /\ focus_enabled
    /\ focus_id' = NoFocusId
    /\ window_dirty' = TRUE
    /\ UNCHANGED <<focus_enabled, window_active, tree, live, rendered, inside, unseen>>

DisableFocus ==
    /\ focus_enabled
    /\ focus_enabled' = FALSE
    /\ focus_id' = NoFocusId
    /\ window_dirty' = TRUE
    /\ UNCHANGED <<window_active, tree, live, rendered, inside, unseen>>

\* The callback of on_active_status_change.
ActiveStatusChanges ==
    /\ window_active' = ~window_active
    /\ window_dirty' = TRUE
    /\ UNCHANGED <<focus_id, focus_enabled, tree, live, rendered, inside, unseen>>

\* A view is notified and will render other elements.
RenderOthers(t) ==
    /\ t # tree
    /\ tree' = t
    /\ window_dirty' = TRUE
    /\ UNCHANGED <<focus_id, focus_enabled, window_active, live, rendered, inside, unseen>>

\* release_dropped_focus_handles, for this window.
ReleaseFocus(f) ==
    IF focus_id = f /\ focus_enabled
    THEN focus_id' = NoFocusId /\ window_dirty' = TRUE
    ELSE UNCHANGED <<focus_id, window_dirty>>

\* The last handle of an id that is not rendered any more is dropped in an
\* update, whose flush releases it.
DropFocusHandle(f) ==
    /\ f \in live /\ f \notin tree
    /\ live' = live \ {f}
    /\ ReleaseFocus(f)
    /\ UNCHANGED <<focus_enabled, window_active, tree, rendered, inside, unseen>>

-----------------------------------------------------------------------------

\* Whether the draw dispatches a WindowFocusEvent.
FocusChanged(next) == rendered.path # next.path \/ rendered.active # next.active

\* What listeners hear: is_focus_out and is_focus_in of the event.
Heard(next) ==
    LET previous == IF rendered.active THEN rendered.path ELSE {}
        current == IF next.active THEN next.path ELSE {}
    IN (inside \ (previous \ current)) \cup (current \ previous)

\* Mutant of RedrawFor: as if refresh worked inside a draw.
RedrawForNothing(before, after) == FALSE

\* The end of draw: a focus that the listeners moved wants another frame.
RedrawFor(before, after) == after # before

\* Window::draw.  Elements may move the focus after they were asked whether
\* they have it; focus-lost listeners choose a fallback; and then the focus
\* listeners have their turn.
DrawFocus ==
    LET next == [path |-> FocusPath(focus_id), active |-> window_active]
        changed == FocusChanged(next)
        lost == changed /\ rendered.path # {} /\ next.path = {}
    IN /\ window_dirty
       /\ \E drawn \in MovedFrom(focus_id) :
          \E before \in IF lost THEN MovedFrom(drawn) ELSE {drawn} :
          \E after \in IF changed THEN MovedFrom(before) ELSE {before} :
             /\ focus_id' = after
             /\ window_dirty' = RedrawFor(before, after)
             /\ unseen' = (before # focus_id)
       /\ rendered' = next
       /\ inside' = IF changed THEN Heard(next) ELSE inside
       /\ UNCHANGED <<focus_enabled, window_active, tree, live>>

FocusNext ==
    \/ \E f \in FocusIds : Focus(f) \/ DropFocusHandle(f)
    \/ BlurFocus \/ DisableFocus \/ ActiveStatusChanges
    \/ \E t \in SUBSET live : RenderOthers(t)
    \/ DrawFocus

FocusSpec == FocusInit /\ [][FocusNext]_focusVars

-----------------------------------------------------------------------------
\* on_focus_in and on_focus_out come in turns for every handle, though
\* elements and windows come and go between two draws: whoever was told of
\* a focus in, and not of a focus out, has the focus inside.
ListenersKnow == inside = IF rendered.active THEN rendered.path ELSE {}

\* A window that has no more to draw has told everybody where the focus is:
\* none of the ways to move it, and no order of them with draws, leaves the
\* listeners behind.  Two do, see the definition of unseen.
FocusIsSettled ==
    ~window_dirty /\ ~unseen => inside = IF window_active THEN FocusPath(focus_id) ELSE {}

\* A window never focuses an id whose last handle is gone.
FocusIsLive == focus_id \in live \cup {NoFocusId}

\* Listeners, window and handles agree on where the focus is.
FocusIsKnown == ListenersKnow /\ FocusIsSettled /\ FocusIsLive

=============================================================================
