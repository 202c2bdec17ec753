------------------------------ MODULE ViewCache ------------------------------
(***************************************************************************)
(* How a window decides what to draw again.  Context::notify marks the     *)
(* windows that track the entity (App::notify, WindowInvalidator); a draw  *)
(* (Window::draw) marks the views on the path to each notified one dirty,  *)
(* renders the root, recycles every cached view that is clean (view.rs),   *)
(* and ends by tracking the entities that were accessed on the way         *)
(* (EntityMap.accessed_entities, App::record_entities_accessed).  A        *)
(* recycled view renders nothing, so the entities its subtree had accessed *)
(* when it was rendered are kept with it and added instead                 *)
(* (detect_accessed_entities, extend_accessed).                            *)
(*                                                                         *)
(* One window; the root is not cached, it shows panels, which are, and     *)
(* panels show items.  What a view nested in a cached one does with its    *)
(* own cache does not matter: it is rendered when its panel is (the panel  *)
(* sets `refreshing`) and recycled when its panel is.  Each view is shown  *)
(* in one place.                                                           *)
(***************************************************************************)
EXTENDS Naturals, Sequences

CONSTANTS
    Root,    \* the root view of the window
    Panels,  \* the cached views the root may show, in the order it does
    Items,   \* the views inside the panels
    Home,    \* the panel an item is shown in
    Reads    \* pairs <<v, w>>: the render of v may read the entity of w

PanelSet == {Panels[k] : k \in 1..Len(Panels)}
Views == {Root} \cup PanelSet \cup Items

ASSUME HomeAssumption == Home \in [Items -> PanelSet]
ASSUME PanelsAssumption ==
    /\ Panels \in Seq(PanelSet)
    /\ \A k, l \in 1..Len(Panels) : Panels[k] = Panels[l] => k = l
ASSUME ReadsAssumption == Reads \subseteq Views \X Views
ASSUME TreeAssumption ==
    Root \notin PanelSet \cup Items /\ PanelSet \cap Items = {}

VARIABLES
    phase,           \* draw_phase: none, prepaint (and paint), focus
    todo,            \* positions of the panels of the frame under way that
                     \* are to be prepainted
    rendered_frame,  \* the views in the frame that is on screen
    next_frame,      \* the views in the frame under way, so far
    element_state,   \* accessed_entities of the ViewElementState of a panel
    dirty,           \* WindowInvalidator.dirty
    notified,        \* WindowInvalidator.dirty_views
    dirty_views,     \* Window.dirty_views
    refreshing,      \* Window.refreshing
    accessed,        \* EntityMap.accessed_entities
    tracked,         \* App.tracked_entities of the window
    asked,           \* history: views on screen notified outside a draw since
                     \* they were rendered
    kept,            \* history: views on screen notified while tracked since
                     \* they were rendered
    due              \* history: what was kept when this draw started

viewVars == <<phase, todo, rendered_frame, next_frame, element_state, dirty,
          notified, dirty_views, refreshing, accessed, tracked, asked,
          kept, due>>

\* A panel without ViewElementState: no state holds the root, which is accessed
\* before every panel.
NoState == {Root}

ViewTypeOK ==
    /\ phase \in {"none", "prepaint", "focus"}
    /\ todo \subseteq 1..Len(Panels)
    /\ rendered_frame \subseteq Views
    /\ next_frame \subseteq Views
    /\ element_state \in [PanelSet -> SUBSET Views]
    /\ dirty \in BOOLEAN
    /\ notified \subseteq Views
    /\ dirty_views \subseteq rendered_frame
    /\ refreshing \in BOOLEAN
    /\ accessed \subseteq Views
    /\ tracked \subseteq Views
    /\ asked \subseteq Views
    /\ kept \subseteq Views
    /\ due \subseteq Views

\* The views of the subtree of panel p in the frame on screen.
SubtreeOf(p) == {p} \cup {i \in Items \cap rendered_frame : Home[i] = p}

\* Mutant of PathOf: the panel around a notified item is left out.
PathOfAlone(v) == {v, Root} \cap rendered_frame

\* DispatchTree::view_path_reversed: v and the views around it, if v is shown.
PathOf(v) ==
    IF v \notin rendered_frame THEN {}
    ELSE {v, Root} \cup {Home[i] : i \in Items \cap {v}}

\* What the render of v may read besides the entities it renders.
MayRead(v) == {w \in Views : <<v, w>> \in Reads}

ViewInit ==
    /\ phase = "none"
    /\ todo = {}
    /\ rendered_frame = {}
    /\ next_frame = {}
    /\ element_state = [p \in PanelSet |-> NoState]
    /\ dirty = TRUE
    /\ notified = {}
    /\ dirty_views = {}
    /\ refreshing = FALSE
    /\ accessed = {}
    /\ tracked = {}
    /\ asked = {}
    /\ kept = {}
    /\ due = {}

-----------------------------------------------------------------------------
\* WindowInvalidator::invalidate_view: a notify during a draw is kept for the
\* next one, but asks for none.
InvalidateView(v) ==
    /\ notified' = notified \cup {v}
    /\ dirty' = (dirty \/ phase = "none")

\* App::notify, by code that runs between draws or by the render of a view; the
\* window is invalidated only if it tracks the entity.  (The effect that goes
\* to the observers is in App.)
Notify(v) ==
    /\ IF v \in tracked THEN InvalidateView(v) ELSE UNCHANGED <<notified, dirty>>
    /\ asked' = IF phase = "none" THEN asked \cup ({v} \cap rendered_frame)
                ELSE asked
    /\ kept' = kept \cup ({v} \cap rendered_frame \cap tracked)
    /\ UNCHANGED <<phase, todo, rendered_frame, next_frame, element_state,
                   dirty_views, refreshing, accessed, tracked, due>>

\* Window::refresh, which does nothing during a draw.
Refresh ==
    /\ phase = "none"
    /\ refreshing' = TRUE
    /\ dirty' = TRUE
    /\ UNCHANGED <<phase, todo, rendered_frame, next_frame, element_state,
                   notified, dirty_views, accessed, tracked, asked, kept, due>>

-----------------------------------------------------------------------------
\* invalidate_entities: mark_view_dirty of each notified view.
MarkDirty == UNION {PathOf(v) : v \in notified}

\* Window::draw of a dirty window (a forced frame refreshes it first), up to the
\* panels: the root is rendered and picks the panels of this frame.
StartDraw(shown, reads) ==
    /\ phase = "none"
    /\ dirty
    /\ phase' = "prepaint"
    /\ dirty_views' = MarkDirty
    /\ notified' = {}
    /\ dirty' = FALSE
    /\ accessed' = {Root} \cup reads
    /\ next_frame' = {Root}
    /\ todo' = {k \in 1..Len(Panels) : Panels[k] \in shown}
    /\ due' = kept \ {Root}
    /\ kept' = kept \ {Root}
    /\ asked' = asked \ {Root}
    /\ UNCHANGED <<rendered_frame, element_state, refreshing, tracked>>

\* The panel at position k is prepainted next: in the order the root shows them.
IsNext(k) ==
    /\ phase = "prepaint"
    /\ k \in todo
    /\ \A l \in todo : k <= l

\* ViewElement::prepaint may recycle p: there is a state from the last frame
\* with the same cache key (bounds, mask, text style, opacity), and p is clean.
Clean(p) ==
    /\ element_state[p] # NoState
    /\ p \notin dirty_views
    /\ ~refreshing

\* Mutant of Recycle: the entities the subtree had accessed are not added.
RecycleForgets(k) ==
    LET p == Panels[k]
    IN
    /\ IsNext(k)
    /\ Clean(p)
    /\ todo' = todo \ {k}
    /\ next_frame' = next_frame \cup SubtreeOf(p)
    /\ UNCHANGED <<phase, rendered_frame, element_state, dirty, notified,
                   dirty_views, refreshing, accessed, tracked, asked, kept,
                   due>>

\* ... and it does: reuse_prepaint, extend_accessed.
Recycle(k) ==
    LET p == Panels[k]
    IN
    /\ IsNext(k)
    /\ Clean(p)
    /\ todo' = todo \ {k}
    /\ next_frame' = next_frame \cup SubtreeOf(p)
    /\ accessed' = accessed \cup element_state[p]
    /\ UNCHANGED <<phase, rendered_frame, element_state, dirty, notified,
                   dirty_views, refreshing, tracked, asked, kept, due>>

\* ... or it renders p, because p is not clean or because its cache key differs:
\* what was accessed on the way and not before is kept.
Render(k, shown, reads) ==
    LET p == Panels[k]
        got == {p} \cup shown \cup reads
    IN
    /\ IsNext(k)
    /\ \A i \in shown : Home[i] = p
    /\ reads \subseteq UNION {MayRead(v) : v \in {p} \cup shown}
    /\ todo' = todo \ {k}
    /\ next_frame' = next_frame \cup {p} \cup shown
    /\ accessed' = accessed \cup got
    /\ element_state' = [element_state EXCEPT ![p] = got \ accessed]
    /\ asked' = asked \ ({p} \cup shown)
    /\ kept' = kept \ ({p} \cup shown)
    /\ due' = due \ ({p} \cup shown)
    /\ UNCHANGED <<phase, rendered_frame, dirty, notified, dirty_views,
                   refreshing, tracked>>

\* draw after draw_roots: the frames are swapped, and the states of the panels
\* that are not in the new one go with the old one.
SwapFrames ==
    /\ phase = "prepaint" /\ todo = {}
    /\ phase' = "focus"
    /\ dirty_views' = {}
    /\ rendered_frame' = next_frame
    /\ next_frame' = {}
    /\ element_state' = [p \in PanelSet |-> IF p \in next_frame
                                            THEN element_state[p] ELSE NoState]
    /\ asked' = asked \cap next_frame
    /\ kept' = kept \cap next_frame
    /\ due' = {}
    /\ UNCHANGED <<todo, dirty, notified, refreshing, accessed, tracked>>

\* The focus listeners have run: record_entities_accessed; if one of them moved
\* the focus, refresh.
EndDraw(moved) ==
    /\ phase = "focus"
    /\ phase' = "none"
    /\ tracked' = accessed
    /\ refreshing' = moved
    /\ dirty' = (dirty \/ moved)
    /\ UNCHANGED <<todo, rendered_frame, next_frame, element_state, notified,
                   dirty_views, accessed, asked, kept, due>>

ViewNext ==
    \/ \E v \in Views : Notify(v)
    \/ Refresh
    \/ \E shown \in SUBSET PanelSet, reads \in SUBSET MayRead(Root) :
          StartDraw(shown, reads)
    \/ \E k \in 1..Len(Panels) : Recycle(k)
    \/ \E k \in 1..Len(Panels), shown \in SUBSET Items,
          reads \in SUBSET {w \in Views : \E v \in Views : <<v, w>> \in Reads} :
          Render(k, shown, reads)
    \/ SwapFrames
    \/ \E moved \in BOOLEAN : EndDraw(moved)

ViewSpec == ViewInit /\ [][ViewNext]_viewVars

-----------------------------------------------------------------------------
\* Between draws the window tracks every view it shows, also those in panels it
\* recycled: otherwise App::notify would pass the window by.
ShownIsTracked == phase = "none" => rendered_frame \subseteq tracked

\* "Tell GPUI that this entity has changed": a view on screen that was notified
\* outside a draw is rendered again, or the window is dirty and will be.
NotifyRedraws == phase = "none" /\ asked # {} => dirty

\* What is on screen is current, or the window knows that it is not.
ViewsAreCurrent == ViewTypeOK /\ ShownIsTracked /\ NotifyRedraws

\* A notification that reached the window is honoured by the next draw that
\* starts after it, even if it came during a draw: no panel is recycled with a
\* view in its subtree that is due.
NextDrawHonours == phase = "prepaint" => due \cap next_frame = {}

=============================================================================
