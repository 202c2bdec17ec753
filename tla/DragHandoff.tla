----------------------------- MODULE DragHandoff -----------------------------
(***************************************************************************)
(* A drag inside the application that leaves its window becomes one of the *)
(* platform (app.rs, window.rs, elements/div.rs): App.active_drag is put   *)
(* away in platform_owned_drag, given back while the pointer is over the   *)
(* source window, and let go when the platform's session ends.  Meanwhile  *)
(* other windows see a drag of files, and windows are closed.              *)
(*                                                                         *)
(* The platform is external: it sends Entered and Exited in turn, Exited   *)
(* before it cancels a session over a window, and Ended to the source.     *)
(***************************************************************************)
CONSTANTS
    DragWindows,
    Nothing,     \* no drag, no window
    Outside      \* another application, as the source of a session

VARIABLES
    active_drag,   \* Nothing, or [from, payload]: the window a drag was started
                   \* in, Outside for files, and is external_payload_source there
    platform_owned_drag,  \* Nothing, or [source_window, suspended]; the latter is
                          \* Nothing for RestoredInSourceWindow
    open_windows,
    pressed,       \* the left button is down, in a window of ours
    session,       \* Nothing, or the platform's: [source, over, done]
    given_up,      \* history: the drag of the session was dropped or stopped
    orphaned       \* history: a window was closed under a drag

\* What the three variables hold, when it is not Nothing.
Drags == [from : DragWindows \cup {Outside}, payload : BOOLEAN]
LentDrags == [source_window : DragWindows, suspended : Drags \cup {Nothing}]
DragSessions == [source : DragWindows \cup {Outside}, over : DragWindows \cup {Nothing},
                 done : BOOLEAN]

ASSUME DragAssumption ==
    /\ Outside \notin DragWindows
    /\ Nothing \notin DragWindows \cup {Outside}
    /\ Nothing \notin Drags \cup LentDrags \cup DragSessions

dragVars == <<active_drag, platform_owned_drag, open_windows, pressed, session, given_up,
              orphaned>>

DragInit ==
    /\ active_drag = Nothing /\ platform_owned_drag = Nothing
    /\ open_windows = DragWindows
    /\ pressed = FALSE
    /\ session = Nothing
    /\ given_up = FALSE /\ orphaned = FALSE

InSession == session # Nothing
SourceIs(w) == platform_owned_drag # Nothing /\ platform_owned_drag.source_window = w
Restored(w) == SourceIs(w) /\ platform_owned_drag.suspended = Nothing

-----------------------------------------------------------------------------
(* Mouse events of the application.                                        *)

\* The listeners of a draggable div, from the mouse down to the move past
\* the threshold.
StartDrag(w) ==
    /\ w \in open_windows /\ ~InSession /\ ~pressed
    /\ pressed' = TRUE
    /\ active_drag' \in IF active_drag = Nothing
                        THEN {[from |-> w, payload |-> p] : p \in BOOLEAN} ELSE {active_drag}
    /\ UNCHANGED <<platform_owned_drag, open_windows, session, given_up, orphaned>>

\* dispatch_mouse_event: a drop or a cancel.
MouseUp ==
    /\ pressed
    /\ pressed' = FALSE
    /\ active_drag' = Nothing
    /\ orphaned' = FALSE
    /\ UNCHANGED <<platform_owned_drag, open_windows, session, given_up>>

\* promote_external_drag_to_platform: a move outside the window.  The
\* payload is asked for once; without one, or when the platform declines,
\* the drag stays an internal one.
Promote(w) ==
    /\ pressed /\ w \in open_windows
    /\ active_drag # Nothing /\ active_drag.payload
    /\ \/ /\ active_drag' = [active_drag EXCEPT !.payload = FALSE]
          /\ UNCHANGED <<platform_owned_drag, pressed, session, given_up>>
       \/ /\ active_drag' = Nothing
          /\ platform_owned_drag' =
                [source_window |-> w, suspended |-> [active_drag EXCEPT !.payload = FALSE]]
          /\ pressed' = FALSE
          /\ session' = [source |-> w, over |-> Nothing, done |-> FALSE]
          /\ given_up' = FALSE
    /\ UNCHANGED <<open_windows, orphaned>>

\* stop_active_drag, called by the application in any window.
StopActiveDrag(w) ==
    /\ w \in open_windows /\ active_drag # Nothing
    /\ active_drag' = Nothing
    /\ platform_owned_drag' = IF Restored(w) THEN Nothing ELSE platform_owned_drag
    /\ given_up' = TRUE
    /\ UNCHANGED <<open_windows, pressed, session, orphaned>>

-----------------------------------------------------------------------------
(* FileDropEvent.                                                          *)

\* Another application drags files over our windows.
SessionFromOutside ==
    /\ ~InSession /\ ~pressed
    /\ session' = [source |-> Outside, over |-> Nothing, done |-> FALSE]
    /\ UNCHANGED <<active_drag, platform_owned_drag, open_windows, pressed, given_up, orphaned>>

\* restore_platform_drag has something to restore.
RestorePlatformDrag(w) == SourceIs(w) /\ ~Restored(w)

\* Otherwise it is a new drag of files.
Entered(w) ==
    /\ InSession /\ ~session.done /\ session.over = Nothing
    /\ w \in open_windows
    /\ session' = [session EXCEPT !.over = w]
    /\ IF RestorePlatformDrag(w)
       THEN /\ active_drag' = platform_owned_drag.suspended
            /\ platform_owned_drag' = [platform_owned_drag EXCEPT !.suspended = Nothing]
       ELSE /\ active_drag' = IF active_drag = Nothing
                              THEN [from |-> Outside, payload |-> FALSE] ELSE active_drag
            /\ UNCHANGED platform_owned_drag
    /\ UNCHANGED <<open_windows, pressed, given_up, orphaned>>

\* Mutant of HandRestored: the drag is dropped where it is.
HandRestoredNot(w) == active_drag' = Nothing /\ UNCHANGED platform_owned_drag

\* hand_restored_drag_to_platform, or the end of a drag of files.
HandRestored(w) ==
    /\ active_drag' = Nothing
    /\ platform_owned_drag' = IF Restored(w) /\ active_drag # Nothing
                              THEN [platform_owned_drag EXCEPT !.suspended = active_drag]
                              ELSE platform_owned_drag

Exited(w) ==
    /\ InSession /\ session.over = w
    /\ session' = [session EXCEPT !.over = Nothing]
    /\ HandRestored(w)
    /\ UNCHANGED <<open_windows, pressed, given_up, orphaned>>

\* Submit is a mouse up over the drop target.  On macOS an Exited follows.
Submit(w) ==
    /\ InSession /\ ~session.done /\ session.over = w
    /\ active_drag' = Nothing
    /\ given_up' = TRUE
    /\ orphaned' = FALSE
    /\ \E exit_follows \in BOOLEAN :
          session' = [session EXCEPT !.done = TRUE, !.over = IF exit_follows THEN w ELSE Nothing]
    /\ UNCHANGED <<platform_owned_drag, open_windows, pressed>>

\* Mutant of EndPlatformDrag: lets go of the marker only.
EndPlatformDragMarker(w) ==
    /\ platform_owned_drag' = IF SourceIs(w) THEN Nothing ELSE platform_owned_drag
    /\ UNCHANGED active_drag

EndPlatformDrag(w) ==
    /\ platform_owned_drag' = IF SourceIs(w) THEN Nothing ELSE platform_owned_drag
    /\ active_drag' = IF SourceIs(w) THEN Nothing ELSE active_drag

\* The session is over, by a drop here or elsewhere or by a cancel; a source
\* window that is still there is told.
Ended ==
    /\ InSession /\ session.over = Nothing
    /\ session' = Nothing
    /\ IF session.source \in open_windows THEN EndPlatformDrag(session.source)
       ELSE UNCHANGED <<active_drag, platform_owned_drag>>
    /\ UNCHANGED <<open_windows, pressed, given_up, orphaned>>

-----------------------------------------------------------------------------
\* A window is removed at the end of an update: end_platform_drag, and no
\* more events for it.
CloseWindow(w) ==
    /\ w \in open_windows
    /\ open_windows' = open_windows \ {w}
    /\ EndPlatformDrag(w)
    /\ session' = IF InSession /\ session.over = w
                  THEN [session EXCEPT !.over = Nothing] ELSE session
    /\ pressed' = (pressed /\ active_drag # Nothing /\ active_drag.from # w)
    /\ orphaned' = (orphaned \/ (active_drag # Nothing /\ ~SourceIs(w)))
    /\ UNCHANGED given_up

DragNext ==
    \/ \E w \in DragWindows :
          \/ StartDrag(w) \/ Promote(w) \/ StopActiveDrag(w)
          \/ Entered(w) \/ Exited(w) \/ Submit(w) \/ CloseWindow(w)
    \/ MouseUp \/ SessionFromOutside \/ Ended

DragSpec == DragInit /\ [][DragNext]_dragVars

-----------------------------------------------------------------------------
\* No ghost: when no button is down and the platform has no session, nothing
\* is being dragged and nothing is kept for the platform, whatever came in
\* between.  A window closed under a drag leaves one until the next mouse up.
NoGhostDrag ==
    ~InSession /\ ~pressed => /\ platform_owned_drag = Nothing
                              /\ orphaned \/ active_drag = Nothing

\* Until it is dropped, stopped or its window closed, the drag that was
\* handed to the platform is there: put away, or active over its source.
HandedDragIsKept ==
    InSession /\ session.source \in open_windows /\ ~given_up =>
        /\ platform_owned_drag # Nothing
        /\ IF session.over = session.source
           THEN active_drag # Nothing /\ active_drag.from # Outside
           ELSE platform_owned_drag.suspended # Nothing

\* Other windows never get hold of it: they see files.
OthersSeeFiles ==
    InSession /\ active_drag # Nothing /\ ~orphaned =>
        active_drag.from = Outside \/ session.over = session.source

\* During a session of the platform the drag stays with its source: it is
\* kept until it is given up, and no other window gets it.
DragStaysOurs == HandedDragIsKept /\ OthersSeeFiles

=============================================================================
