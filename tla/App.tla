--------------------------------- MODULE App ---------------------------------
(***************************************************************************)
(* The update cycle of crates/gpui/src/app.rs.  Everything that changes    *)
(* the application runs inside App::update, calls nest, and the outermost  *)
(* one flushes the queue of effects before it returns: observers are told, *)
(* deferred callbacks run, entities without handles are released.  Windows *)
(* are moved out of App.windows while code has them mutably, and put back  *)
(* or closed when it is done.                                              *)
(*                                                                         *)
(* One thread does all this, but application code runs in the middle of    *)
(* it: inside an update, inside each callback of the flush, inside the     *)
(* callbacks of a window being closed.  `calls` is the stack of what is    *)
(* running, and application code may take any step whenever the call on    *)
(* top is one that runs it.  It also runs with an empty stack: the closure *)
(* given to Application::run, and AsyncApp::refresh, hold the App without  *)
(* an update.                                                              *)
(*                                                                         *)
(* Each entity has at most one observer here; SubscriberSet models a set   *)
(* of them, EntityMap the counting of handles.  Which views a window       *)
(* rendered last (tracked_entities) is not modelled.                       *)
(***************************************************************************)
EXTENDS Naturals, Sequences, FiniteSets

CONSTANTS
    Entities,    \* EntityIds the entity map will hand out
    Windows,     \* WindowIds App.windows will hand out
    Globals,     \* types of globals
    Plain,       \* the other kinds of effect: subset of emit, refresh, defer
    None,        \* no entity, no window
    MaxEffects,  \* bound: effects queued by a plain request
    MaxCalls     \* bound: nested calls

ASSUME NoneAssumption == None \notin Entities \cup Windows \cup Globals
ASSUME PlainAssumption == Plain \subseteq {"emit", "refresh", "defer"}
ASSUME MaxAssumption == MaxEffects \in Nat /\ MaxCalls \in Nat

VARIABLES
    calls,                 \* the calls in progress, innermost last
    pending_updates,       \* App.pending_updates
    flushing_effects,      \* App.flushing_effects
    pending_effects,       \* App.pending_effects
    pending_notifications, \* App.pending_notifications
    pending_globals,       \* App.pending_global_notifications
    globals,               \* keys of App.globals_by_type
    entity,                \* life of an entity
    held,                  \* entities application code has a strong handle to
    dropped,               \* dropped_entity_ids of the entity map
    observer,              \* life of the observer of an entity
    new_observed,          \* an observe_new callback is registered
    windows,               \* App.windows: absent, home, out (None), closed
    removed,               \* windows on the stack with Window.removed set
    window_update_stack,   \* App.window_update_stack
    dirty,                 \* windows to be drawn
    quit,                  \* cx.quit() was called
    panicked,              \* an `expect` failed
    owed                   \* history: entities with an active observer that a
                           \* notify must still reach

effectVars == <<pending_effects, pending_notifications, pending_globals>>
entityVars == <<entity, held, dropped, observer, owed>>
windowVars == <<windows, removed, window_update_stack, dirty, quit>>
updateVars == <<calls, pending_updates, flushing_effects>>
vars == <<updateVars, effectVars, entityVars, windowVars, globals,
          new_observed, panicked>>

Effects ==
    [kind : {"notify", "emit", "activate"}, on : Entities, window : {None}]
    \cup [kind : {"created"}, on : Entities, window : Windows \cup {None}]
    \cup [kind : {"global"}, on : Globals, window : {None}]
    \cup [kind : {"refresh", "defer"}, on : {None}, window : {None}]

Effect(kind, on, window) == [kind |-> kind, on |-> on, window |-> window]

\* update: the closure of App::update.  window: of update_window_id.  open:
\* build_root_view of open_window.  new, insert: build_entity.  flush: the loop
\* of flush_effects, between two callbacks.  release, effect: its callbacks.
\* closing: a window_closed callback.
CallKinds == {"update", "window", "open", "new", "insert", "flush", "release",
              "effect", "created", "closing"}
Calls == [call : CallKinds, on : Entities \cup Windows \cup Globals \cup {None}]
Call(call, on) == [call |-> call, on |-> on]

TypeOK ==
    /\ calls \in Seq(Calls)
    /\ pending_updates \in Nat
    /\ flushing_effects \in BOOLEAN
    /\ pending_effects \in Seq(Effects)
    /\ pending_notifications \subseteq Entities
    /\ pending_globals \subseteq Globals
    /\ globals \subseteq Globals
    /\ entity \in [Entities -> {"absent", "reserved", "live", "released"}]
    /\ held \subseteq Entities
    /\ dropped \in Seq(Entities)
    /\ observer \in [Entities -> {"none", "inactive", "active"}]
    /\ new_observed \in BOOLEAN
    /\ windows \in [Windows -> {"absent", "home", "out", "closed"}]
    /\ removed \subseteq Windows
    /\ window_update_stack \in Seq(Windows)
    /\ dirty \subseteq Windows
    /\ quit \in BOOLEAN
    /\ panicked \in BOOLEAN
    /\ owed \subseteq Entities

-----------------------------------------------------------------------------
Top == calls[Len(calls)]
TopIs(call) == calls # <<>> /\ Top.call = call
Front(s) == SubSeq(s, 1, Len(s) - 1)
Last(s) == s[Len(s)]
Running(call) == \E d \in 1..Len(calls) : calls[d].call = call

AppRuns == ~panicked /\ (calls # <<>> => Top.call # "flush")
CanCall == AppRuns /\ Len(calls) < MaxCalls
Push(call, on) == calls' = Append(calls, Call(call, on))

\* The window at the top of window_update_stack, for EntityCreated.
CurrentWindow ==
    IF window_update_stack = <<>> THEN None ELSE Last(window_update_stack)

\* Who keeps e alive besides application code: an EntityCreated effect, queued
\* or being applied, and the slot on the stack of a build.
EffectHolds(e, effects) ==
    \E k \in 1..Len(effects) : effects[k].kind = "created" /\ effects[k].on = e
CallHolds(e, stack) ==
    \E d \in 1..Len(stack) :
        stack[d].call \in {"new", "insert", "created"} /\ stack[d].on = e

-----------------------------------------------------------------------------
Init ==
    /\ calls = <<>>
    /\ pending_updates = 0
    /\ flushing_effects = FALSE
    /\ pending_effects = <<>>
    /\ pending_notifications = {}
    /\ pending_globals = {}
    /\ globals = {}
    /\ entity = [e \in Entities |-> "absent"]
    /\ held = {}
    /\ dropped = <<>>
    /\ observer = [e \in Entities |-> "none"]
    /\ new_observed \in BOOLEAN
    /\ windows = [w \in Windows |-> "absent"]
    /\ removed = {}
    /\ window_update_stack = <<>>
    /\ dirty = {}
    /\ quit = FALSE
    /\ panicked = FALSE
    /\ owed = {}

(***************************************************************************)
(* update, start_update and finish_update.                                 *)
(***************************************************************************)

\* App::update up to the closure; update_entity, and an update_window that
\* does not find its window, differ from it only in what the closure does.
StartUpdate ==
    /\ CanCall
    /\ Push("update", None)
    /\ pending_updates' = pending_updates + 1
    /\ UNCHANGED <<flushing_effects, effectVars, entityVars, windowVars,
                   globals, new_observed, panicked>>

\* finish_update: the outermost update goes on to flush, the others return.
FinishUpdate ==
    IF ~flushing_effects /\ pending_updates = 1
    THEN /\ flushing_effects' = TRUE
         /\ calls' = Append(Front(calls), Call("flush", None))
         /\ UNCHANGED pending_updates
    ELSE /\ calls' = Front(calls)
         /\ pending_updates' = pending_updates - 1
         /\ UNCHANGED flushing_effects

EndUpdate ==
    /\ ~panicked
    /\ TopIs("update")
    /\ FinishUpdate
    /\ UNCHANGED <<effectVars, entityVars, windowVars, globals, new_observed,
                   panicked>>

(***************************************************************************)
(* What application code asks for.  Every request ends in the queue.       *)
(***************************************************************************)
Room == Len(pending_effects) < MaxEffects

\* push_effect of a Notify: one per entity is enough.
PushNotify(e) ==
    IF e \in pending_notifications
    THEN UNCHANGED <<pending_notifications, pending_effects>>
    ELSE /\ pending_notifications' = pending_notifications \cup {e}
         /\ pending_effects' = Append(pending_effects, Effect("notify", e, None))

\* Context::notify, outside a draw.  With or without a window that renders the
\* entity (WindowInvalidator::invalidate_view), the effect is the same; the
\* dirty flag of such a window is not modelled.
Notify(e) ==
    /\ AppRuns /\ Room
    /\ entity[e] = "live"
    /\ PushNotify(e)
    /\ owed' = owed \cup {x \in {e} : observer[x] = "active"}
    /\ UNCHANGED <<updateVars, pending_globals, entity, held, dropped,
                   observer, windowVars, globals, new_observed, panicked>>

\* Effects that carry nothing but their callback: emit, defer, refresh_windows.
PushPlain(kind, e) ==
    /\ AppRuns /\ Room
    /\ kind \in Plain
    /\ (kind = "emit") = (e # None)
    /\ e # None => entity[e] = "live"
    /\ pending_effects' = Append(pending_effects, Effect(kind, e, None))
    /\ UNCHANGED <<updateVars, pending_notifications, pending_globals,
                   entityVars, windowVars, globals, new_observed, panicked>>

\* push_effect of a NotifyGlobalObservers.
PushGlobal(g) ==
    IF g \in pending_globals
    THEN UNCHANGED <<pending_globals, pending_effects>>
    ELSE /\ pending_globals' = pending_globals \cup {g}
         /\ pending_effects' = Append(pending_effects, Effect("global", g, None))

\* set_global, default_global and the end of update_global.
SetGlobal(g) ==
    /\ AppRuns /\ Room
    /\ PushGlobal(g)
    /\ globals' = globals \cup {g}
    /\ UNCHANGED <<updateVars, pending_notifications, entityVars, windowVars,
                   new_observed, panicked>>

\* remove_global of a global that is there (it panics on one that is not).
RemoveGlobal(g) ==
    /\ AppRuns /\ Room
    /\ g \in globals
    /\ PushGlobal(g)
    /\ globals' = globals \ {g}
    /\ UNCHANGED <<updateVars, pending_notifications, entityVars, windowVars,
                   new_observed, panicked>>

\* App::observe: new_observer inserts the observer inactive and defers its
\* activation.
Observe(e) ==
    /\ AppRuns /\ Room
    /\ e \in held /\ observer[e] = "none"
    /\ ~\E k \in 1..Len(pending_effects) :
            pending_effects[k] = Effect("activate", e, None)
    /\ observer' = [observer EXCEPT ![e] = "inactive"]
    /\ pending_effects' = Append(pending_effects, Effect("activate", e, None))
    /\ UNCHANGED <<updateVars, pending_notifications, pending_globals, entity,
                   held, dropped, owed, windowVars, globals, new_observed,
                   panicked>>

\* The Subscription returned by observe is dropped.
Unobserve(e) ==
    /\ AppRuns
    /\ observer[e] # "none"
    /\ observer' = [observer EXCEPT ![e] = "none"]
    /\ owed' = owed \ {e}
    /\ UNCHANGED <<updateVars, effectVars, entity, held, dropped, windowVars,
                   globals, new_observed, panicked>>

(***************************************************************************)
(* Entities.                                                               *)
(***************************************************************************)

\* AppContext::new up to build_entity: an update around a new slot.
StartNew(e) ==
    /\ CanCall
    /\ entity[e] = "absent"
    /\ entity' = [entity EXCEPT ![e] = "reserved"]
    /\ Push("new", e)
    /\ pending_updates' = pending_updates + 1
    /\ UNCHANGED <<flushing_effects, effectVars, held, dropped, observer, owed,
                   windowVars, globals, new_observed, panicked>>

\* ... and after it: EntityCreated is queued with a handle, the entity goes in
\* the map, the update ends.
EndNew ==
    /\ ~panicked
    /\ TopIs("new")
    /\ pending_effects' =
           Append(pending_effects, Effect("created", Top.on, CurrentWindow))
    /\ entity' = [entity EXCEPT ![Top.on] = "live"]
    /\ held' = held \cup {Top.on}
    /\ FinishUpdate
    /\ UNCHANGED <<pending_notifications, pending_globals, dropped, observer,
                   owed, windowVars, globals, new_observed, panicked>>

\* reserve_entity: no update around it.
Reserve(e) ==
    /\ AppRuns
    /\ entity[e] = "absent"
    /\ entity' = [entity EXCEPT ![e] = "reserved"]
    /\ held' = held \cup {e}
    /\ UNCHANGED <<updateVars, effectVars, dropped, observer, owed, windowVars,
                   globals, new_observed, panicked>>

\* insert_entity up to build_entity: the reservation moves to the stack.
StartInsert(e) ==
    /\ CanCall
    /\ e \in held /\ entity[e] = "reserved"
    /\ held' = held \ {e}
    /\ Push("insert", e)
    /\ pending_updates' = pending_updates + 1
    /\ UNCHANGED <<flushing_effects, effectVars, entity, dropped, observer,
                   owed, windowVars, globals, new_observed, panicked>>

\* ... and after it.
EndInsert ==
    /\ ~panicked
    /\ TopIs("insert")
    /\ entity' = [entity EXCEPT ![Top.on] = "live"]
    /\ held' = held \cup {Top.on}
    /\ FinishUpdate
    /\ UNCHANGED <<effectVars, dropped, observer, owed, windowVars, globals,
                   new_observed, panicked>>

\* The last handle application code has to e is dropped.
DropHandle(e) ==
    /\ AppRuns
    /\ e \in held
    /\ held' = held \ {e}
    /\ dropped' = IF EffectHolds(e, pending_effects) \/ CallHolds(e, calls)
                  THEN dropped ELSE Append(dropped, e)
    /\ UNCHANGED <<updateVars, effectVars, entity, observer, owed, windowVars,
                   globals, new_observed, panicked>>

(***************************************************************************)
(* Windows.                                                                *)
(***************************************************************************)

\* open_window up to build_root_view; when Window::new fails the update has
\* changed nothing.
OpenWindow(w) ==
    /\ CanCall
    /\ windows[w] = "absent"
    /\ windows' = [windows EXCEPT ![w] = "out"]
    /\ window_update_stack' = Append(window_update_stack, w)
    /\ Push("open", w)
    /\ pending_updates' = pending_updates + 1
    /\ UNCHANGED <<flushing_effects, effectVars, entityVars, removed, dirty,
                   quit, globals, new_observed, panicked>>

\* ... and after it: appearance_changed is deferred, the window is drawn once
\* and put in its place.
EndOpen ==
    /\ ~panicked
    /\ TopIs("open")
    /\ window_update_stack' = Front(window_update_stack)
    /\ pending_effects' = Append(pending_effects, Effect("defer", None, None))
    /\ windows' = [windows EXCEPT ![Top.on] = "home"]
    /\ FinishUpdate
    /\ UNCHANGED <<pending_notifications, pending_globals, entityVars, removed,
                   dirty, quit, globals, new_observed, panicked>>

\* Take the window for update_window_id, on top of the calls cs.
TakeWindow(w, cs) ==
    /\ windows' = [windows EXCEPT ![w] = "out"]
    /\ window_update_stack' = Append(window_update_stack, w)
    /\ calls' = Append(cs, Call("window", w))
    /\ pending_updates' = pending_updates + 1

\* update_window_id of a window that is there, up to the closure.
UpdateWindow(w) ==
    /\ CanCall
    /\ windows[w] = "home"
    /\ TakeWindow(w, calls)
    /\ UNCHANGED <<flushing_effects, effectVars, entityVars, removed, dirty,
                   quit, globals, new_observed, panicked>>

\* Window::remove_window, by code that has the window.
RemoveWindow ==
    /\ ~panicked
    /\ TopIs("window")
    /\ removed' = removed \cup {Top.on}
    /\ UNCHANGED <<updateVars, effectVars, entityVars, windows,
                   window_update_stack, dirty, quit, globals, new_observed,
                   panicked>>

\* Window::draw, by code that has the window.
Draw ==
    /\ ~panicked
    /\ TopIs("window")
    /\ dirty' = dirty \ {Top.on}
    /\ UNCHANGED <<updateVars, effectVars, entityVars, windows, removed,
                   window_update_stack, quit, globals, new_observed, panicked>>

\* Mutant of ReturnWindow: the window is put back without leaving the stack.
ReturnWindowOnStack ==
    /\ ~panicked
    /\ TopIs("window") /\ Top.on \notin removed
    /\ windows' = [windows EXCEPT ![Top.on] = "home"]
    /\ FinishUpdate
    /\ UNCHANGED <<effectVars, entityVars, removed, window_update_stack, dirty,
                   quit, globals, new_observed, panicked>>

\* trail, for a window that stays: it is put back.
ReturnWindow ==
    /\ ~panicked
    /\ TopIs("window") /\ Top.on \notin removed
    /\ window_update_stack' = Front(window_update_stack)
    /\ windows' = [windows EXCEPT ![Top.on] = "home"]
    /\ FinishUpdate
    /\ UNCHANGED <<effectVars, entityVars, removed, dirty, quit, globals,
                   new_observed, panicked>>

NoWindowLeft(ws) == \A w \in Windows : ws[w] \in {"absent", "closed"}

\* trail, for a window that was removed: it leaves App.windows and goes, then
\* retain calls the window_closed callback, unless such a call is running
\* already: then the set is taken, retain returns at once and the update ends
\* with the test for the last window.
CloseWindow ==
    /\ ~panicked
    /\ TopIs("window") /\ Top.on \in removed
    /\ window_update_stack' = Front(window_update_stack)
    /\ windows' = [windows EXCEPT ![Top.on] = "closed"]
    /\ removed' = removed \ {Top.on}
    /\ dirty' = dirty \ {Top.on}
    /\ IF Running("closing")
       THEN /\ quit' = (quit \/ NoWindowLeft(windows'))
            /\ FinishUpdate
       ELSE /\ calls' = Append(Front(calls), Call("closing", Top.on))
            /\ UNCHANGED <<pending_updates, flushing_effects, quit>>
    /\ UNCHANGED <<effectVars, entityVars, globals, new_observed, panicked>>

\* The window_closed callback returns: quit with the last window (QuitMode
\* LastWindowClosed, and Default on every platform but macOS).
EndClosing ==
    /\ ~panicked
    /\ TopIs("closing")
    /\ quit' = (quit \/ NoWindowLeft(windows))
    /\ FinishUpdate
    /\ UNCHANGED <<effectVars, entityVars, windows, removed,
                   window_update_stack, dirty, globals, new_observed,
                   panicked>>

(***************************************************************************)
(* flush_effects.                                                          *)
(***************************************************************************)

\* release_dropped_entities, the next entity: its observers go, its release
\* callbacks run.  A slot that was never filled has neither.
Release ==
    /\ TopIs("flush") /\ ~panicked
    /\ dropped # <<>>
    /\ LET e == Head(dropped)
       IN  /\ entity' = [entity EXCEPT ![e] = "released"]
           /\ observer' = [observer EXCEPT ![e] = "none"]
           /\ owed' = owed \ {e}
           /\ IF entity[e] = "live" THEN Push("release", e) ELSE UNCHANGED calls
    /\ dropped' = Tail(dropped)
    /\ UNCHANGED <<pending_updates, flushing_effects, effectVars, held,
                   windowVars, globals, new_observed, panicked>>

\* The next effect, once nothing is left to release.
Popped(kind) ==
    /\ TopIs("flush") /\ ~panicked
    /\ dropped = <<>>
    /\ pending_effects # <<>>
    /\ Head(pending_effects).kind = kind
    /\ pending_effects' = Tail(pending_effects)

\* Mutant of ApplyNotify: the entity leaves pending_notifications only when
\* its observer has returned, and what that observer notifies is taken for
\* queued.
ApplyNotifyKeepsPending ==
    LET e == Head(pending_effects).on
    IN
    /\ Popped("notify")
    /\ pending_notifications' = IF observer[e] = "active"
                                THEN pending_notifications
                                ELSE pending_notifications \ {e}
    /\ IF observer[e] = "active"
       THEN Push("effect", e) /\ owed' = owed \ {e}
       ELSE UNCHANGED <<calls, owed>>
    /\ UNCHANGED <<pending_updates, flushing_effects, pending_globals, entity,
                   held, dropped, observer, windowVars, globals, new_observed,
                   panicked>>

\* apply_notify_effect.
ApplyNotify ==
    LET e == Head(pending_effects).on
    IN
    /\ Popped("notify")
    /\ pending_notifications' = pending_notifications \ {e}
    /\ IF observer[e] = "active"
       THEN Push("effect", e) /\ owed' = owed \ {e}
       ELSE UNCHANGED <<calls, owed>>
    /\ UNCHANGED <<pending_updates, flushing_effects, pending_globals, entity,
                   held, dropped, observer, windowVars, globals, new_observed,
                   panicked>>

\* apply_notify_global_observers_effect.
ApplyGlobal ==
    /\ Popped("global")
    /\ pending_globals' = pending_globals \ {Head(pending_effects).on}
    /\ Push("effect", Head(pending_effects).on)
    /\ UNCHANGED <<pending_updates, flushing_effects, pending_notifications,
                   entityVars, windowVars, globals, new_observed, panicked>>

\* apply_emit_effect, of an entity that may have been released since.
ApplyEmit ==
    /\ Popped("emit")
    /\ IF entity[Head(pending_effects).on] = "live"
       THEN Push("effect", Head(pending_effects).on)
       ELSE UNCHANGED calls
    /\ UNCHANGED <<pending_updates, flushing_effects, pending_notifications,
                   pending_globals, entityVars, windowVars, globals,
                   new_observed, panicked>>

\* apply_defer_effect.
ApplyDefer ==
    /\ Popped("defer")
    /\ Push("effect", None)
    /\ UNCHANGED <<pending_updates, flushing_effects, pending_notifications,
                   pending_globals, entityVars, windowVars, globals,
                   new_observed, panicked>>

\* apply_defer_effect of the closure of new_observer.
ApplyActivate ==
    LET e == Head(pending_effects).on
    IN
    /\ Popped("activate")
    /\ observer' = [observer EXCEPT ![e] = IF @ = "none" THEN @ ELSE "active"]
    /\ UNCHANGED <<updateVars, pending_notifications, pending_globals, entity,
                   held, dropped, owed, windowVars, globals, new_observed,
                   panicked>>

\* apply_refresh_effect: the windows that are in App.windows.
ApplyRefresh ==
    /\ Popped("refresh")
    /\ dirty' = dirty \cup {w \in Windows : windows[w] = "home"}
    /\ UNCHANGED <<updateVars, pending_notifications, pending_globals,
                   entityVars, windows, removed, window_update_stack, quit,
                   globals, new_observed, panicked>>

\* The handle an EntityCreated effect held to e is dropped.
EffectDrops(e, effects, stack) ==
    dropped' = IF e \in held \/ EffectHolds(e, effects) \/ CallHolds(e, stack)
               THEN dropped ELSE Append(dropped, e)

\* apply_entity_created_effect: the observe_new callback runs, with the window
\* the entity was created in if there was one; update_window_id must find it.
ApplyCreated ==
    LET e == Head(pending_effects).on
        w == Head(pending_effects).window
    IN
    /\ Popped("created")
    /\ \/ /\ ~new_observed
          /\ EffectDrops(e, pending_effects', calls)
          /\ UNCHANGED <<updateVars, windowVars, panicked>>
       \/ /\ new_observed /\ w = None
          /\ Push("created", e)
          /\ UNCHANGED <<pending_updates, flushing_effects, windowVars,
                         dropped, panicked>>
       \/ /\ new_observed /\ w # None /\ windows[w] = "home"
          /\ TakeWindow(w, Append(calls, Call("created", e)))
          /\ UNCHANGED <<flushing_effects, removed, dirty, quit, dropped,
                         panicked>>
       \/ /\ new_observed /\ w # None /\ windows[w] # "home"
          /\ panicked' = TRUE
          /\ UNCHANGED <<updateVars, windowVars, dropped>>
    /\ UNCHANGED <<pending_notifications, pending_globals, entity, held,
                   observer, owed, globals, new_observed>>

\* A callback of the flush returns to the loop.
EndEffect ==
    /\ ~panicked
    /\ TopIs("effect") \/ TopIs("release")
    /\ calls' = Front(calls)
    /\ UNCHANGED <<pending_updates, flushing_effects, effectVars, entityVars,
                   windowVars, globals, new_observed, panicked>>

\* apply_entity_created_effect returns, and drops its handle.
EndCreated ==
    /\ ~panicked
    /\ TopIs("created")
    /\ calls' = Front(calls)
    /\ EffectDrops(Top.on, pending_effects, Front(calls))
    /\ UNCHANGED <<pending_updates, flushing_effects, effectVars, entity, held,
                   observer, owed, windowVars, globals, new_observed,
                   panicked>>

\* Mutant of EndFlush: the loop ends with the queue, before what the last
\* callback dropped is released.
EndFlushEarly ==
    /\ TopIs("flush") /\ ~panicked
    /\ pending_effects = <<>>
    /\ calls' = Front(calls)
    /\ flushing_effects' = FALSE
    /\ pending_updates' = pending_updates - 1
    /\ UNCHANGED <<effectVars, entityVars, windowVars, globals, new_observed,
                   panicked>>

\* flush_effects finds nothing to do; finish_update returns.
EndFlush ==
    /\ TopIs("flush") /\ ~panicked
    /\ dropped = <<>> /\ pending_effects = <<>>
    /\ calls' = Front(calls)
    /\ flushing_effects' = FALSE
    /\ pending_updates' = pending_updates - 1
    /\ UNCHANGED <<effectVars, entityVars, windowVars, globals, new_observed,
                   panicked>>

-----------------------------------------------------------------------------
Flush ==
    \/ Release
    \/ ApplyNotify \/ ApplyGlobal \/ ApplyEmit \/ ApplyDefer \/ ApplyActivate
    \/ ApplyRefresh \/ ApplyCreated
    \/ EndFlush

Next ==
    \/ StartUpdate \/ EndUpdate
    \/ \E e \in Entities :
          \/ Notify(e) \/ Observe(e) \/ Unobserve(e)
          \/ StartNew(e) \/ Reserve(e) \/ StartInsert(e) \/ DropHandle(e)
    \/ \E kind \in Plain, e \in Entities \cup {None} : PushPlain(kind, e)
    \/ \E g \in Globals : SetGlobal(g) \/ RemoveGlobal(g)
    \/ EndNew \/ EndInsert
    \/ \E w \in Windows : OpenWindow(w) \/ UpdateWindow(w)
    \/ EndOpen \/ RemoveWindow \/ Draw \/ ReturnWindow \/ CloseWindow
    \/ EndClosing
    \/ EndEffect \/ EndCreated
    \/ Flush

Spec == Init /\ [][Next]_vars

\* Application code returns from the innermost call.
End ==
    \/ EndUpdate \/ EndNew \/ EndInsert \/ EndOpen \/ ReturnWindow
    \/ CloseWindow \/ EndClosing \/ EndEffect \/ EndCreated

\* The flush loop runs, and application code returns from every call it makes
\* and every callback it is given, whatever else it does inside.  A call of the
\* flush itself nests deeper than MaxCalls by at most two.
Fairness ==
    /\ WF_vars(Flush)
    /\ \A d \in 1..(MaxCalls + 2) : SF_vars(End /\ Len(calls) = d)

FairSpec == Spec /\ Fairness

-----------------------------------------------------------------------------
QueuedAt(kind, on) ==
    {k \in 1..Len(pending_effects) :
        pending_effects[k].kind = kind /\ pending_effects[k].on = on}

\* The two sets push_effect tests mirror the queue: an entity or a global is
\* in its set exactly when one effect for it is queued, so a notification is
\* neither queued twice nor thought to be queued when it is not.
PendingMirrorsQueue ==
    /\ \A e \in Entities : Cardinality(QueuedAt("notify", e))
                              = IF e \in pending_notifications THEN 1 ELSE 0
    /\ \A g \in Globals : Cardinality(QueuedAt("global", g))
                              = IF g \in pending_globals THEN 1 ELSE 0

\* An active observer hears of every notify: as long as it has not been called
\* since, an effect that will call it is queued, though notifications are
\* merged and though observers notify while they run.
NotifyReachesActive ==
    \A e \in Entities : e \in owed => QueuedAt("notify", e) # {}

\* While the flush loop runs, every window is in its place: the unwrap in
\* release_dropped_focus_handles finds them all, and a refresh reaches them all.
WindowsHomeInFlush ==
    TopIs("flush") =>
        /\ \A w \in Windows : windows[w] # "out"
        /\ window_update_stack = <<>>
        /\ pending_updates = 1

\* The windows that are out are those on window_update_stack, each once: no
\* window is lost when closures nest, close other windows or open new ones.
StackIsWindowsOut ==
    /\ \A w \in Windows :
          windows[w] = "out" <=> \E k \in 1..Len(window_update_stack) :
                                     window_update_stack[k] = w
    /\ \A k, l \in 1..Len(window_update_stack) :
          window_update_stack[k] = window_update_stack[l] => k = l

\* When the outermost update returns, all it caused has been done: no effect
\* is queued and no entity waits for its release.
FlushedAtReturn ==
    [][calls # <<>> /\ calls' = <<>> =>
          /\ pending_effects' = <<>>
          /\ dropped' = <<>>
          /\ \A e \in Entities : entity'[e] = "live" => e \in held']_vars

\* An application without windows has been told to quit, even when its last
\* window was closed by a window_closed callback.
QuitWithLastWindow ==
    /\ calls = <<>>
    /\ \E w \in Windows : windows[w] = "closed"
    /\ NoWindowLeft(windows)
    => quit

\* What every update relies on, whatever callbacks nest in it.
AppInv ==
    /\ TypeOK
    /\ PendingMirrorsQueue
    /\ StackIsWindowsOut
    /\ WindowsHomeInFlush
    /\ QuitWithLastWindow

\* A notification queued inside an update is applied: effects that callbacks
\* add do not keep it waiting for ever.
NotifyIsApplied ==
    \A e \in Entities :
        (e \in pending_notifications /\ calls # <<>>)
            ~> (e \notin pending_notifications \/ panicked)

\* "All windows should be off the stack when flushing effects": what the expect
\* in apply_entity_created_effect takes for granted.
CreationWindowIsThere == ~panicked

=============================================================================
