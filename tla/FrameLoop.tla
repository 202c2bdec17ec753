----------------------------- MODULE FrameLoop -----------------------------
(***************************************************************************)
(* How a window gets its frames: the on_request_frame callback (window.rs) *)
(* that draws, presents, throttles and defers, under three platforms: the  *)
(* frame callbacks of Wayland, the refresh timer and Expose events of X11, *)
(* and WM_PAINT of Windows, whose message pump re-enters it.  The GPU      *)
(* device may be lost at any time; recovery clears the sprite atlas, and   *)
(* with it every tile the last scene refers to, until a forced render has  *)
(* built a new scene.                                                      *)
(*                                                                         *)
(* A scene is "fresh" when all its tiles are in the atlas.  Time is only   *)
(* whether the last frame is recent enough to throttle the next one.       *)
(***************************************************************************)
CONSTANT Backends  \* a subset of {"wayland", "x11", "windows"}

VARIABLES
    backend,
    dirty,
    next_frame_callbacks,   \* there are some
    recent,                 \* last_frame_time is within min_interval
    needs_present,
    deferred_force_render,  \* of the on_request_frame closure
    force_after_recovery,   \* of the platform: force_render_after_recovery on
                            \* Linux, force_render_pending on Windows
    device_lost, skip_draws,
    scene,                  \* "fresh" or "stale"
    frame,                  \* where on_request_frame is
    wl_callback,            \* Wayland: "wanted" by surface.frame(), or "committed"
    renderer_presented,
    stale_drawn             \* history: a stale scene was given to the GPU

frameVars == <<backend, dirty, next_frame_callbacks, recent, needs_present,
               deferred_force_render, force_after_recovery, device_lost, skip_draws, scene,
               frame, wl_callback, renderer_presented, stale_drawn>>

\* own draw: drawn by GPUI outside a request, for key dispatch or a new window.
FrameSteps == {"idle", "own draw", "drawing", "presenting", "completing"}

\* open_window has drawn the window once, and presented nothing.
FrameInit ==
    /\ backend \in Backends
    /\ dirty = FALSE
    /\ next_frame_callbacks = FALSE /\ recent = FALSE /\ needs_present = TRUE
    /\ deferred_force_render = FALSE /\ force_after_recovery = FALSE
    /\ device_lost = FALSE /\ skip_draws = FALSE
    /\ scene = "fresh"
    /\ frame = "idle"
    /\ wl_callback = "committed"
    /\ renderer_presented = FALSE
    /\ stale_drawn = FALSE

-----------------------------------------------------------------------------
(* The application and the world.                                          *)

\* notify and refresh outside a draw.
Invalidate ==
    /\ frame \notin {"own draw", "drawing"} /\ ~dirty
    /\ dirty' = TRUE
    /\ UNCHANGED <<backend, next_frame_callbacks, recent, needs_present,
                   deferred_force_render, force_after_recovery, device_lost, skip_draws, scene,
                   frame, wl_callback, renderer_presented, stale_drawn>>

OnNextFrame ==
    /\ ~next_frame_callbacks
    /\ next_frame_callbacks' = TRUE
    /\ UNCHANGED <<backend, dirty, recent, needs_present, deferred_force_render,
                   force_after_recovery, device_lost, skip_draws, scene, frame, wl_callback,
                   renderer_presented, stale_drawn>>

\* min_interval has passed since the last frame.
TimePasses ==
    /\ recent
    /\ recent' = FALSE
    /\ UNCHANGED <<backend, dirty, next_frame_callbacks, needs_present,
                   deferred_force_render, force_after_recovery, device_lost, skip_draws, scene,
                   frame, wl_callback, renderer_presented, stale_drawn>>

\* The device-lost callback of wgpu.
DeviceIsLost ==
    /\ backend # "windows" /\ ~device_lost
    /\ device_lost' = TRUE
    /\ UNCHANGED <<backend, dirty, next_frame_callbacks, recent, needs_present,
                   deferred_force_render, force_after_recovery, skip_draws, scene, frame,
                   wl_callback, renderer_presented, stale_drawn>>

\* WM_GPUI_GPU_DEVICE_LOST, sent by the vsync thread: the new devices come
\* with an empty atlas.  Message pumps take it inside a draw too.
HandleDeviceLost ==
    /\ backend = "windows"
    /\ skip_draws' = TRUE
    /\ scene' = "stale"
    /\ force_after_recovery' = TRUE
    /\ UNCHANGED <<backend, dirty, next_frame_callbacks, recent, needs_present,
                   deferred_force_render, device_lost, frame, wl_callback, renderer_presented,
                   stale_drawn>>

-----------------------------------------------------------------------------
(* on_request_frame.                                                       *)

\* A draw that is not forced replays cached views, with the tiles they had.
DrawnScene(forced) == IF forced THEN {"fresh"} ELSE {"fresh", scene}

\* The throttle, of a window that is inactive or under thermal pressure,
\* unless the frame must be presented or has nothing that could wait.
MayThrottle(force, require) == ~require /\ (force \/ next_frame_callbacks) /\ recent

\* Mutant of Throttled: the forced render goes with it.
ThrottledForgets(forced) ==
    /\ deferred_force_render' = FALSE
    /\ frame' = "completing"
    /\ UNCHANGED <<dirty, next_frame_callbacks, recent, scene>>

\* A throttled frame keeps the forced render for later and is completed.
Throttled(forced) ==
    /\ deferred_force_render' = forced
    /\ frame' = "completing"
    /\ UNCHANGED <<dirty, next_frame_callbacks, recent, scene>>

\* The frame callbacks, which may notify, then the draw, or a present of the
\* last scene: input at a high rate keeps presenting.
NotThrottled(forced, require) ==
    /\ deferred_force_render' = FALSE
    /\ recent' = TRUE
    /\ next_frame_callbacks' = FALSE
    /\ \E notified \in (IF next_frame_callbacks THEN BOOLEAN ELSE {FALSE}), high_rate \in BOOLEAN :
          IF dirty \/ notified \/ forced
          THEN dirty' = FALSE /\ scene' \in DrawnScene(forced) /\ frame' = "drawing"
          ELSE /\ frame' = IF require \/ needs_present \/ high_rate THEN "presenting"
                                                                    ELSE "completing"
               /\ UNCHANGED <<dirty, scene>>

\* During a draw of GPUI's own, which only Windows' message pump interrupts,
\* the request is put off.
OnRequestFrame(force, require) ==
    IF frame = "own draw"
    THEN /\ deferred_force_render' = (deferred_force_render \/ force)
         /\ UNCHANGED <<dirty, next_frame_callbacks, recent, scene, frame>>
    ELSE LET forced == deferred_force_render \/ force
         IN  (MayThrottle(force, require) /\ Throttled(forced)) \/ NotThrottled(forced, require)

\* The end of Window::draw; focus listeners may want another one.
Draw ==
    /\ frame = "drawing"
    /\ dirty' \in BOOLEAN
    /\ needs_present' = TRUE
    /\ frame' = "presenting"
    /\ UNCHANGED <<backend, next_frame_callbacks, recent, deferred_force_render,
                   force_after_recovery, device_lost, skip_draws, scene, wl_callback,
                   renderer_presented, stale_drawn>>

\* WgpuRenderer::recover, which may fail and be tried again.
Recover ==
    \E succeeds \in BOOLEAN :
       /\ device_lost' = ~succeeds
       /\ scene' = IF succeeds THEN "stale" ELSE scene

\* Mutant of PlatformDraw: recovery does not ask for a forced render.
PlatformDrawUnforced ==
    IF backend # "windows" /\ device_lost
    THEN Recover /\ UNCHANGED <<force_after_recovery, renderer_presented, wl_callback, stale_drawn>>
    ELSE /\ stale_drawn' = (stale_drawn \/ (scene = "stale" /\ ~skip_draws))
         /\ renderer_presented' = TRUE /\ wl_callback' = "committed"
         /\ UNCHANGED <<force_after_recovery, scene, device_lost>>

\* WgpuRenderer::draw.  The surface may not be ready, and after repeated GPU
\* errors the atlas is cleared; otherwise the scene is drawn, and on Wayland
\* committed.
RendererDraw ==
    /\ \/ /\ renderer_presented' = FALSE
          /\ \/ scene' = "stale" /\ force_after_recovery' = TRUE
             \/ UNCHANGED <<scene, force_after_recovery>>
          /\ UNCHANGED <<wl_callback, stale_drawn>>
       \/ /\ renderer_presented' = TRUE
          /\ wl_callback' = "committed"
          /\ stale_drawn' = (stale_drawn \/ scene = "stale")
          /\ UNCHANGED <<force_after_recovery, scene>>
    /\ UNCHANGED device_lost

\* PlatformWindow::draw.
PlatformDraw ==
    IF backend = "windows"
    THEN /\ stale_drawn' = (stale_drawn \/ (scene = "stale" /\ ~skip_draws))
         /\ UNCHANGED <<force_after_recovery, renderer_presented, wl_callback, scene, device_lost>>
    ELSE IF device_lost
    THEN /\ Recover
         /\ force_after_recovery' = TRUE
         /\ UNCHANGED <<renderer_presented, wl_callback, stale_drawn>>
    ELSE RendererDraw

Present ==
    /\ frame = "presenting"
    /\ PlatformDraw
    /\ needs_present' = FALSE
    /\ frame' = "completing"
    /\ UNCHANGED <<backend, dirty, next_frame_callbacks, recent, deferred_force_render,
                   skip_draws>>

\* complete_frame: Wayland commits what the renderer has not.
CompleteFrame ==
    /\ frame = "completing"
    /\ frame' = "idle"
    /\ wl_callback' = IF renderer_presented THEN wl_callback ELSE "committed"
    /\ renderer_presented' = FALSE
    /\ UNCHANGED <<backend, dirty, next_frame_callbacks, recent, needs_present,
                   deferred_force_render, force_after_recovery, device_lost, skip_draws, scene,
                   stale_drawn>>

-----------------------------------------------------------------------------
(* The platforms.                                                          *)

\* wl_callback::Done: WaylandWindowStatePtr::frame.
WaylandFrame ==
    /\ backend = "wayland" /\ frame = "idle"
    /\ wl_callback = "committed"
    /\ wl_callback' = "wanted"
    /\ force_after_recovery' = FALSE
    /\ OnRequestFrame(force_after_recovery, FALSE)
    /\ UNCHANGED <<backend, needs_present, device_lost, skip_draws, renderer_presented,
                   stale_drawn>>

\* A tick of start_refresh_loop.
X11Refresh ==
    /\ backend = "x11" /\ frame = "idle"
    /\ force_after_recovery' = FALSE
    /\ OnRequestFrame(force_after_recovery, FALSE)
    /\ UNCHANGED <<backend, needs_present, device_lost, skip_draws, wl_callback,
                   renderer_presented, stale_drawn>>

\* process_x11_events, for an Expose.
X11Expose ==
    /\ backend = "x11" /\ frame = "idle"
    /\ OnRequestFrame(FALSE, TRUE)
    /\ UNCHANGED <<backend, needs_present, force_after_recovery, device_lost, skip_draws,
                   wl_callback, renderer_presented, stale_drawn>>

\* draw_window: the DrawCoordinator puts off what comes inside another; a
\* forced request leaves the pending one for the next.
DrawWindow(force) ==
    IF frame \in {"drawing", "presenting", "completing"}
    THEN /\ force_after_recovery' = (force_after_recovery \/ force)
         /\ UNCHANGED <<skip_draws, dirty, deferred_force_render, next_frame_callbacks, recent,
                        scene, frame>>
    ELSE LET forced == force \/ force_after_recovery
         IN  /\ force_after_recovery' = (force /\ force_after_recovery)
             /\ skip_draws' = (skip_draws /\ ~forced)
             /\ OnRequestFrame(forced, FALSE)

\* WM_PAINT on every vsync, and WM_GPUI_FORCE_UPDATE_WINDOW.
WindowsPaint(force) ==
    /\ backend = "windows"
    /\ DrawWindow(force)
    /\ UNCHANGED <<backend, needs_present, device_lost, wl_callback, renderer_presented,
                   stale_drawn>>

\* Window::draw outside a request, without a present.
BeginOwnDraw ==
    /\ frame = "idle" /\ dirty
    /\ dirty' = FALSE
    /\ scene' \in DrawnScene(FALSE)
    /\ frame' = "own draw"
    /\ UNCHANGED <<backend, next_frame_callbacks, recent, needs_present,
                   deferred_force_render, force_after_recovery, device_lost, skip_draws,
                   wl_callback, renderer_presented, stale_drawn>>

EndOwnDraw ==
    /\ frame = "own draw"
    /\ frame' = "idle"
    /\ needs_present' = TRUE
    /\ UNCHANGED <<backend, dirty, next_frame_callbacks, recent, deferred_force_render,
                   force_after_recovery, device_lost, skip_draws, scene, wl_callback,
                   renderer_presented, stale_drawn>>

FrameNext ==
    \/ Invalidate \/ OnNextFrame \/ TimePasses \/ DeviceIsLost \/ HandleDeviceLost
    \/ Draw \/ Present \/ CompleteFrame \/ BeginOwnDraw \/ EndOwnDraw
    \/ WaylandFrame \/ X11Refresh \/ X11Expose
    \/ \E force \in BOOLEAN : WindowsPaint(force)

Platform == WaylandFrame \/ X11Refresh \/ WindowsPaint(FALSE)

\* The main thread goes on, the compositor answers a commit, timers and
\* vsync tick, time passes.
FrameFairness ==
    /\ WF_frameVars(Draw \/ Present \/ CompleteFrame \/ EndOwnDraw)
    /\ SF_frameVars(frame = "idle" /\ Platform)
    /\ WF_frameVars(TimePasses)

FrameSpec == FrameInit /\ [][FrameNext]_frameVars /\ FrameFairness

-----------------------------------------------------------------------------
\* No tile of a cleared atlas reaches the renderer, whose look-up of the
\* texture would panic ("texture must exist"): recovery is followed by a
\* forced render before anything is presented.  Only X11 breaks it, see
\* ExposedTilesExist.
PresentedTilesExist == backend # "x11" => ~stale_drawn

\* The same of X11, where an Expose presents the last scene without asking
\* whether a recovery came in between.
ExposedTilesExist == backend = "x11" => ~stale_drawn

\* Between two frames of a Wayland window its next frame callback is on the
\* way: also a frame that was throttled, failed or not drawn was committed.
CallbackIsComing == backend = "wayland" /\ frame = "idle" => wl_callback = "committed"

\* A forced render that was asked for is made, though frames are throttled,
\* put off and interrupted by others.
ForcedIsRendered == (force_after_recovery \/ deferred_force_render) ~> scene = "fresh"

\* Callbacks for the next frame are run, and a dirty window is drawn.
NextFrameComes == next_frame_callbacks ~> ~next_frame_callbacks
DirtyIsDrawn == dirty ~> ~dirty

\* What waits for a frame gets one on every platform, however requests are
\* throttled, put off or nested, and whatever becomes of the device.
FramesCome == []CallbackIsComing /\ ForcedIsRendered /\ NextFrameComes /\ DirtyIsDrawn

=============================================================================
