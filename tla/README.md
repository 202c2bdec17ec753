# A TLA+ model of gpui

gpui is a GPU-accelerated UI framework. Its core keeps all application state in
*entities* owned by one `App`, runs everything that changes that state inside
`App::update`, queues what follows from a change as *effects*, and redraws only
the views that were notified. Around that core, per-platform *dispatchers* move
runnables between the main thread and background threads, windows turn platform
events into key bindings, focus changes and frames, and elements paint a *scene*
that a renderer draws.

This directory models the parts of it whose correctness depends on the order of
steps, on nesting, or on an algorithm that is easy to get subtly wrong: the
queue every dispatcher uses and the ways of waking a main thread or a pool, the
scheduler of the tests, the counting of entity handles across threads, the
callback sets that change while they are walked, the update cycle with code
running in the middle of it, what a draw may recycle and when a frame is drawn
at all, keys and focus, tab order, tooltips, paint order, lists, drags that
leave the application, and a clipboard served by a thread of its own.

Contents: [inventory](#inventory), [modules](#modules-and-the-code),
[runs](#runs), [findings](#findings),
[other disagreements](#other-disagreements-with-the-documentation), [bounds](#bounds),
[fairness](#fairness), [proofs](#proofs), [not modelled](#not-modelled),
[plan](#plan).

To repeat everything: `tlc -config X.cfg M` for each run listed in
`PROJECT.json`, and `tlapm M_proofs.tla` for each of the eight proof modules.

## Inventory

| Component | State | Operations | What is hard |
|---|---|---|---|
| priority queue (`gpui/src/queue.rs`) | three FIFOs under a mutex, sender and receiver counts, a condition variable | send, blocking and non-blocking pop, clone and drop of the ends | condition variable with several waiters; counts read outside the mutex; a die that must land |
| Linux dispatcher (`gpui_linux/.../dispatcher.rs`) | a queue and worker threads; a queue and an eventfd for the main thread | dispatch, drain on wake-up, drop | pings are merged; the order of drops |
| web dispatcher (`gpui_web/src/dispatcher.rs`) | a queue and one shared cell | post, re-arm, drain, `waitAsync` | a lock-free handshake whose source asks for verification |
| Windows dispatcher (`gpui_windows/src/dispatcher.rs`, `platform.rs`) | a queue, `wake_posted`, the message queue | dispatch, drain, repost; the timer of a size-move loop | a flag cleared before the last look; posting can fail; two drains |
| test scheduler (`scheduler/src/test_scheduler.rs`) | runnables, timers, a clock, blocked sessions | schedule, step, block, park, advance the clock | tasks that block and step the scheduler they run on |
| entity map (`gpui/src/app/entity_map.rs`) | entities, atomic reference counts, ids to release | reserve, insert, lease, clone, drop, upgrade, take_dropped | handles on any thread; upgrade against the last drop; release against a lease |
| subscriptions (`gpui/src/subscription.rs`) | per key, callbacks with `active` and `dropped` flags | insert, unsubscribe, retain, remove | the set changes while it is walked, calls nest |
| application core (`gpui/src/app.rs`) | effect queue, update depth, windows, observers, globals | update, notify, emit, observe, new, open and close windows, flush | re-entrancy: application code runs in the middle of nearly everything |
| views (`gpui/src/view.rs`, `window.rs`) | dirty views, tracked entities, state kept with cached views | notify, refresh, draw: render or recycle | what was read when; notifications during a draw |
| frames (`gpui/src/window.rs`, the three windowing back ends) | dirty flag, throttle, deferred and forced renders, a device that may be lost | request, draw, present, recover | frame callbacks must keep coming; a message pump re-enters; a cleared atlas |
| keymap and key dispatch (`gpui/src/keymap*`, `key_dispatch.rs`) | bindings with context, depth and source | add, resolve, show what a binding runs | precedence, `null` and `Unbind`, prefixes of chords |
| key input (`gpui/src/window.rs`) | pending keystrokes, a timer, modifiers | key down and up, modifiers, replay, flush | a keystroke that is replayed may move the focus; timers outlive what they were for |
| focus (`gpui/src/window.rs`, `app.rs`) | focus id, focus path of the last frame, handles | focus, blur, draw, activate, drop of a handle | listeners compare two frames; a focused element may vanish |
| tooltips (`gpui/src/elements/div.rs`) | per element, waiting, visible or waiting to hide | mouse, draw, timers | a timer and a draw decide about the same state |
| tab stops (`gpui/src/tab_stop.rs`) | a tree ordered by paths | insert, groups, next, prev | order at the boundaries of groups |
| scene, bounds tree (`gpui/src/scene.rs`, `bounds_tree.rs`) | an R-tree, primitives by kind | insert, layers, finish, batches | the order survives a search that prunes, and batching |
| list (`gpui/src/elements/list.rs`) | heights, some unknown, a logical position | splice, remeasure, scroll, layout | positions that rest on heights that turn out otherwise |
| drag handoff (`gpui/src/app.rs`, `window.rs`, `elements/div.rs`) | active drag, the drag lent to the platform | start, promote, restore, submit, end | windows close meanwhile; sessions of other applications |
| X11 clipboard (`gpui_linux/.../x11/clipboard.rs`) | data under a lock, a serving thread, a handover | write, read, serve, drop | events are late; the drop waits for another program |
| layout, text, renderers, the rest of the windowing back ends | geometry, glyphs, GPU and OS resources | | data and input/output rather than control: left out |

How they interact. A platform dispatcher carries runnables through the priority
queue. A runnable on the main thread enters `App::update`; closures given to it
read and write entities through leases of the entity map, and notify. `notify`
marks the windows that track the entity and queues an effect. The outermost
update flushes: it releases entities whose last handle was dropped (on any
thread), then applies effects one by one, walking subscriber sets whose
callbacks may do all of the above again. A dirty window is drawn when its
platform asks for a frame, or before a key is dispatched. The draw renders or
recycles views, which is when the window learns which entities to track, where
the focus is, what the tab key visits, and in which order to paint.

What makes each component correct is stated as the properties under
[Runs](#runs); the places where it could go wrong are the hazards in
`PROJECT.json`, each at its line.

## Modules and the code

`PROJECT.json` maps each definition to the lines it models. Definitions named
`…Uncounted`, `…Unforced`, `…Skipped` and the like are mutants: the definition after
them with a plausible bug, kept to show that the properties can fail.

**PriorityQueue.** `queues`, `sender_count` and `receiver_count` are the fields
of `PriorityQueueState`. A critical section is one step. `SendTest` and
`SendPush` are the two halves of `send`, on either side of the lock, since the
test of `receiver_count` is made outside. `Pop`, `Wake` and `TryPop` are `recv`
and `try_recv` followed by the die of `pop_inner`; `Flips` is the set of outcomes
`random_ratio` can have, so the probabilities are abstracted to possible and
certain. A pop that falls through to `Ok(None)` is the state `panicked`.
A spurious wake-up of the condition variable is not modelled: parking_lot has
none.

**WorkerPool** puts the queue into `LinuxDispatcher`: workers are spawned on
clones of a root receiver, which goes when the constructor returns.

**Delivery** is the abstract specification of a main-thread channel: an item is
posted once, waits, and is run once; nothing more is run when the loop is gone.
**CalloopChannel** (push, ping; wake, drain, ping again) and
**MainThreadMailbox** (push, store, notify; re-arm, drain, wait) implement it.
`ChannelImplementsDelivery` and `MailboxImplementsDelivery` say so, each through
an INSTANCE of Delivery with its refinement mapping.
calloop's `Ping` and JavaScript's `Atomics` are external and are modelled from
what the code relies on: an eventfd that merges pings and is drained before the
callback runs; a `waitAsync` that compares and registers in one step.

**EntityMap.** `refs` is the content of every place in memory that can hold a
strong handle. A step is what runs under one acquisition of the `RwLock`, split
where others get in: `DropSub` and `DropPush` (the lock is held upgradable, so
readers run in between), and the rounds of `atomic_incr_if_not_zero`
(`UpgradeLoad`, `UpgradeCas`, `UpgradeRetry`). The main thread leases entities
in a stack and releases (`FlushLock`, `TakeDropped`) at the end of the
outermost update only.

**SubscriberSet.** The entry of a key is absent, taken (`None`, while a `retain`
has the map on its stack) or a set of ids. `stack` holds the `retain` and
`remove` calls in progress, each with the ids it has still to visit, which it
takes in ascending order (`ComesTo`); application code runs when there are none
or when the innermost is in a callback. A subscription is inserted active, or activated
by a later effect, as `App::new_observer` does.

**App.** `calls` is the call stack: closures of updates and windows, builders of
entities and windows, the flush loop, and each callback it makes. Application
code may do anything whenever the innermost call is one that runs it. Each
`apply_*_effect` is an action that pops the effect and pushes the callback.
Windows are `home`, `out` (moved out of `App.windows` for the time of an update)
or `closed`. `owed` is a history variable: the observers that must still hear of
a notification.

**ViewCache.** One window whose root shows cached panels that show items. A
draw is `StartDraw` (mark the dirty views, render the root), then one `Render`
or `Recycle` per panel in the order they are shown in, `SwapFrames`, and `EndDraw` (track what was accessed).
Notifications may come between any two of these. `Render` keeps the difference
between what was accessed after and before, as `detect_accessed_entities` does.
`asked`, `kept` and `due` are history variables.

**WindowsWake** is the third channel. `Swap` and `PostMessage` are the two
halves of `dispatch_on_main_thread` after its push; `RunForegroundTask`,
`ExecuteTask`, `TasksEmpty`, `ClearWakePosted` and `LastLook` are the drain of
the message loop, which has a limit of time and reposts; `DrainInTimer` is the
drain of a size-move loop, which ignores the flag. Posts may fail. The code
handles the failure of a repost and only logs that of a dispatch. It implements
the safety part of Delivery all the same (`WindowsDelivers`); that a runnable is
announced and run is stated for behaviours in which no dispatch's post failed.

**TestScheduler.** `stack` is the call stack of the one thread: test code, tasks
polled by a step, `block` in progress, `run` and `advance_clock`. Tasks spawn,
wait for each other or for a timer, and block. The random choice of a runnable
is any allowed one; with `allow_parking` another thread completes something and
unparks. A step first drops the timers that have elapsed, one after the other,
each waking what waits for it (`ExpireTimers`, then `DropNext` while the frame
`expire` is innermost).

**FrameLoop.** `WaylandFrame`, the tick and `Expose` of X11, and `WindowsPaint`
start the callback of `on_request_frame` (`OnRequestFrame`); `Draw`, `Present`
and `CompleteFrame` are its stages, with the throttle of inactive windows and the
deferred forced render. On Windows a
draw may pump messages and re-enter. A scene is only "fresh" or "stale": whether
the tiles it refers to are in the atlas.

**KeyContext, Keymap, KeyInput.** Predicates are parsed trees and their
evaluation, depth and `is_superset` are recursive functions over them. `Keymap`
is the resolution of an input by `bindings_for_input`, and `KeyInput` what a
window does with the result: pending keystrokes, the prefix that is replayed,
the timer that flushes, handlers that move the focus in the middle. `out` is
what one event put out, keystroke by keystroke.

**WindowFocus.** A draw computes the focus path of the frame from the elements
that are rendered, then compares it with the last one and tells listeners;
focus handles may be dropped, listeners may move the focus. `inside` is a
history variable: what listeners were last told.

**Tooltip.** One element per number, in prepaint order, with the states of
`ActiveTooltip`; the pointer, what covers it and the tooltips it is on are the
environment's.

**TabStops, BoundsTree, Scene, ListState** are data structures with their
operations as actions, checked against what a reader of their documentation
expects of them. `TabStops` keeps the path of each handle instead of the sum
tree; `BoundsTree` keeps the nodes, the greatest order of each and the search
that prunes, over intervals; `Scene` adds layers, sorting and the batches of
`BatchIterator`; `ListState` keeps the items and `pending_scroll`, and a layout
is one step.

**DragHandoff.** `active_drag` and `platform_owned_drag` of `App` and the
platform's session, whose events come in the order the source relies on.

**X11Clipboard.** The X server keeps the owner and delivers events to the
serving thread late; `Serve` handles one event; `Drop…` are the stages of
`Drop for Clipboard`, its timeout included.

`MC_App` and `MC_ViewCache` only give values to constants. `MC_Platform`,
`MC_Scheduler`, `MC_Input` and `MC_Window` put modules that share no state side
by side: a variable `part`, chosen at the start, says which one moves, so that a
behaviour is one of one of them and no product of state spaces arises. The
variables of the other parts keep their initial values. A property about one
module is thus checked on exactly the behaviours of that module.

## Runs

Seven runs pass. Where a property is a conjunction, its parts are in brackets.

| Run | States | Shows |
|---|---|---|
| `platform` | 20 thousand | **Pool:** `DispatchedIsRun`, from the start of the pool to its end. **Linux:** `ItemIsAnnounced`, `ChannelImplementsDelivery`. **Web:** `NeverSleepsOnWork`, `MailboxImplementsDelivery`. **Windows:** `WakeIsComing`: a set `wake_posted` is followed by a look at the queue (`FlagIsHonest`), and so is a queued runnable (`RunnableIsAnnounced`); `RunnableIsRun`. **Clipboard:** `RequestIsAnswered`, also while data is cleared or handed over; `DropEnds`, whatever the manager does. **Drags:** `NoGhostDrag`: nothing is dragged that no button and no session keeps up; `DragStaysOurs`: a drag lent to the platform can come back (`HandedDragIsKept`), and to its source only (`OthersSeeFiles`). **Frames:** `PresentedTilesExist`: no scene of a cleared atlas is drawn; `FramesCome`: forced renders, next-frame callbacks and dirty windows get their frame (`ForcedIsRendered`, `NextFrameComes`, `DirtyIsDrawn`), and on Wayland the callback for the next one is on its way (`CallbackIsComing`) |
| `scheduler` | 4.3 million | **Queue:** `NoLostWakeup`: while a receiver waits, there are at most as many items as notified receivers; `PopFindsItem`: the die never falls through. **Test scheduler:** `SessionIsSerial`: tasks of a session run in the order they were scheduled, also when order is randomized (`SessionInOrder`), and none inside a block of another (`BlockedIsQuiet`); `TimersOnTime`: the clock never passes a timer; `PanicsOnlyWhenStuck` |
| `entity_map` | 21 thousand | `CountIsHandles`: the count is exact at every step of every thread. `DroppedAreDead`: an id queued for release has no handle and is queued once. `NoResurrection`: no entity without a handle gets one. `NoZombie`: nothing is released that is leased. `UnreferencedIsReleased`: an entity nobody holds is released, and once (`ReleasedOnce`) |
| `app_effects` | 48 thousand | `NotifyReachesActive`: an active observer that has not been called since a notify has an effect queued. `FlushedAtReturn`: the outermost update leaves nothing undone. `NotifyIsApplied`: a queued notification is applied though callbacks keep adding effects |
| `app_windows` | 1.7 million | `AppInv`: the sets used to merge notifications agree with the queue, those of entities and of globals (`PendingMirrorsQueue`); a window is out of `App.windows` exactly while a call on the stack has it (`StackIsWindowsOut`), and none is when the flush applies an effect (`WindowsHomeInFlush`); the application quits with its last window (`QuitWithLastWindow`) |
| `input` | 150 thousand | **Keymap:** `QueriesAgree`: what `bindings_for_input` finds is what depth, source and order of the bindings select, by a definition without its two passes (`ResolveByPrecedence`), and what menus and pending input show agrees with it (`NextIsDispatched`, `HiddenNeverRuns`). **Keys:** `KeysAreAccounted`: every keystroke is taken off the input once and in order (`KeysAreConserved`); an event takes one keystroke, or a bound chord of which it gives on the last, and only what nobody there handles (`NoBindingSkipped`); none completes a binding of another focus (`LeftoverIsDropped`), and a timer flushes only what it was armed for (`FlushesWhatStalled`); `TextIsNotHeldBack`. **Focus:** `FocusIsKnown` (`ListenersKnow`, `FocusIsSettled`, `FocusIsLive`). **Tooltips:** `TipFollowsPointer` (`StrayTipGoes`, which is liveness, and `RestedTipStays`). **Tab stops:** `TabOrder`: next and prev visit every stop once and are inverse (`TabGoesRound`), group by group (`GroupsStayTogether`) |
| `window` | 611 thousand | **Subscriptions:** `SubscribersInPlace`: a subscription nobody dropped is in its set or in the map of a call (`NeverLost`), and a key is taken only while a `retain` of it runs (`NoStuckKey`); `RetainCallsLive`. **Views:** `ViewsAreCurrent` (`ShownIsTracked`, `NotifyRedraws`); `NextDrawHonours`: a notification that reached the window is honoured by the next draw that starts after it. **Scene:** `PaintOrderIsKept`: the pruned search finds the greatest order it intersects (`OrderIsOneAbove`), and what overlaps is drawn in the order of painting, through layers and batches (`DrawnInPaintOrder`). **List:** `LayoutSettles`: after a layout measured items fill the view, or all are in it (`NoGap`), and a list that follows has measured everything below its position and shows its end within a pixel (`FollowsTheEnd`); `TopIsKept`: the item at the top stays as far into it as it was, or at its end if it shrank, whatever changed before it |

The other five runs, each expecting a violation, are the findings. Each property
of a passing run has in `PROJECT.json` a mutant of a definition it is about that
TLC refutes. Most of the safety properties are also proved for all sizes, see
[Proofs](#proofs). Proved, and not checked again by a run: `ClosedIsLast`,
`RejectedOnlyWithoutReceiver`, `ClosedMeansDrained`, that the Windows dispatcher
implements the safety part of Delivery, and the types and inductive invariants.

Deadlock is checked in `view_cache_reads` only. Elsewhere the system may stop:
every item was sent, every id handed out, the dispatcher or the window dropped,
or a part has used up its bound.

## Findings

Each is a run in which TLC refutes what a comment, an assertion, a test or the
documentation of the repository says.

| Run | Says | Does |
|---|---|---|
| `app_creation_window` | `expect("All windows should be off the stack when flushing effects")` (`app.rs:1800`) | fails when the window an entity was created in was closed before the flush |
| `calloop_close` | the test `calloop_works` asserts `got_closed` after the drop | the ping can be consumed before the inner sender is gone, and no other follows |
| `view_cache_reads` | a cached view is recycled "unless `Context::notify` was called" | recycled all the same if the root had read its entity before it was rendered, and does so no more |
| `x11_expose` | a forced render keeps one from replaying "stale atlas tile references after a GPU device recovery" (`window.rs:1674`) | on X11 an `Expose` between the recovery and the next tick of the refresh loop presents the old scene, because only the tick passes the forced render on |
| `tab_group_entry` | from the container of a tab group, `focus_next` focuses "the first tab stop inside it" (`div.rs:760`) | the container keeps the group's index inside the group, so children with a lower index are passed by |

## Other disagreements with the documentation

Met while the code was read and modelled. The models behave as the code does, so
no property of the passing runs contradicts them; no run is kept for them,
because each is a matter of wording or a single visible test.

* `PriorityQueueReceiver::pop` fails "If the sender was dropped". A pop that
  already waits on the condition variable is not woken by the drop
  (`queue.rs:157`), so a worker stays parked when its dispatcher goes.
* A dropped `Subscription`'s callback "will no longer be invoked".
  `SubscriberSet::remove` tests `active` only (`subscription.rs:99`), so a
  release callback dropped by another one of the same walk runs.
* `remove_global` "Does not notify global observers"; it queues the notification.
* `on_window_closed` is for "when a window is closed"; a window closed by such a
  callback is not reported, because the observers are out of their set.
* `observe_new` is called "whenever a view of the specified type is created";
  not for `insert_entity`.
* `observe` is for "when the given entity calls `notify`"; a notify merged into
  one queued before the observer's activation is not heard. `NotifyReachesActive`
  therefore speaks of active observers.
* A notify during a draw, before the view is tracked or after the dirty views
  were marked, does not make that draw render the view. `NextDrawHonours` speaks
  of the next draw that starts.
* `Keymap`: in `resolve_pending` a later `null` or `Unbind` drops keystrokes
  that a longer binding was waiting for, whatever their depths and sources
  (`keymap.rs:256`); complete matches are compared by both. `is_superset` takes
  a `!` below a `>` for what it is at the top.
* A replay that moves the focus stores the rest under the new focus
  (`window.rs:5428`), where it may have no binding to complete; it waits for its
  timer or the next keystroke.
* A chord that is bound but that nobody handles gives only its last keystroke on:
  the others were swallowed while they were pending (`window.rs:5309`), and
  neither the dispatch of the last one (`window.rs:5347`) nor a replay, which
  keeps one keystroke of a prefix (`key_dispatch.rs:547`, `window.rs:5456`), goes
  back to them. They are lost also when one of them alone is bound to something
  that is handled: in the first keymap of the run `input`, `a c` typed in the
  panel is not handled, and `a`, which is, does not run. The comment speaks of
  one event too ("Converts the longest prefix of input to a replay event",
  `key_dispatch.rs:537`), so `NoBindingSkipped` allows this loss and no other.
* A focus-lost listener's fallback is not drawn until something else asks
  (`window.rs:2926`); `FocusIsSettled` leaves these steps out.
* Tooltips listen to no `MouseExited` (`div.rs:3552`), and an element that comes
  to cover another does not hide its tooltip until the pointer moves.
  `StrayTipGoes` speaks of pointers that are seen elsewhere.
* Two sibling tab groups of one index have equal paths and their stops are
  merged; a stop with the index of a group comes before it, wherever it stands;
  a handle tracked by two elements breaks the round. `GroupsStayTogether`
  leaves equal paths out, and each handle has one element.
* A primitive that sticks out of its layer has an order that says nothing of
  what it overlaps outside (`scene.rs:87`); callers clip.
* List: `pending_scroll` of a remeasure is not adjusted by a later splice or
  `set_follow_mode` (`list.rs:511`); the wheel scrolls from the painted position,
  so a `scroll_to` since then is lost (`list.rs:1583`). Following is resumed at
  the end of the known heights (`list.rs:1195`). With an overdraw of a pixel or
  none that need not be the end of the list, since items below the view may not
  have been measured and count with nothing; hence `Overdraw > 1` in
  `ListAlwaysSettles` and in the instance.
* Windows: a `PostMessageW` that fails in a dispatch leaves `wake_posted` set
  (`dispatcher.rs:123`), and later dispatches rely on it.
* X11 clipboard: a late `SelectionClear` deletes data written after the loss it
  reports (`clipboard.rs:863`); during the handover any client's request counts
  as the manager's (`clipboard.rs:898`).

## Bounds

| Part | Instance | Why it is enough |
|---|---|---|
| pool, queue | 2 senders, 3 receivers (one the root), 3 items | two waiters and a thief; every subset of the three priorities is non-empty at some time; the theorems below lift the bound for the safety properties of the queue |
| Linux, web and Windows main threads | 3 items, 2 threads | one thread posts while another's item is drained and a third item waits; proved for all sizes, their liveness apart |
| test scheduler | 2 tasks of a session and 1 of the background, 2 timers (1 with parking), clock up to 2, stack up to 4 | a task that blocks on one that blocks, with the session's other task ready; two timers that elapse in one step; the two tasks of the session are symmetric, and the run checks no liveness; proved for all sizes |
| entity map | 2 ids, 3 handles, 3 threads, no symmetry (the run checks liveness) | a drop, an upgrade and a flush at once; proved for all sizes, liveness apart |
| subscriptions | 3 subscriptions, calls nested 2 deep, two keys, one of which is only ever removed | a callback that inserts and drops inside a retain of its own or of another key; proved for all sizes |
| `app_effects` | 2 entities, events; `MaxEffects` 2, `MaxCalls` 3 | an update, the flush, a callback and what it asks for while the other entity's effect waits; proved for all sizes, `NotifyIsApplied` apart |
| `app_windows` | 2 windows, 1 entity, 1 global, refresh; `MaxEffects` 2, `MaxCalls` 3 | a window closed inside the other's closure or callback; a refresh asked for while one is out; proved for all sizes |
| views | root, 2 panels, 2 items | two panels are needed for "read before the panel was rendered"; proved for all trees, `ViewsAreCurrent` where reads stay inside a panel |
| keymap | every keymap of up to 3 bindings out of 19, in 3 context stacks, 3 inputs | a binding, one that hides it and one that hides that; chords and their prefixes; a keystroke that matches two ways; proved for all keymaps, `HiddenNeverRuns` where no `!` is below a `>` |
| keys | 3 keymaps, 2 elements, 4 keystrokes | chords of 3 with a shorter binding inside or after the first keystroke, disabled in one place, with a modifier; a handler that moves the focus during a replay; proved for all sizes, `TextIsNotHeldBack` apart |
| focus | 3 ids, one inside another | entering, leaving and moving inside a focused ancestor; proved for all sizes |
| tooltips | 2 elements, one with a tooltip that can be hovered | one tooltip in front of the other; `RestedTipStays` is proved for all sizes |
| tab stops | indices 0 and 1, 5 operations | two groups, nested or side by side, with stops in and around them; proved for all sizes |
| scene | 3 rectangles, 3 primitives, 4 operations, nodes of 2 children | the tree splits and prunes; two kinds and two textures interleave; a layer in a layer; proved for all sizes |
| list | up to 2 items of height 1 or 4 in a view of 2, overdraw 2 | an item shorter and one longer than the view, one out of sight of the layout, whose height is not known when the position comes near the end; proved for all sizes, `FollowsTheEnd` where `Overdraw > 1` |
| drags | 2 windows | source and another; either closed; proved for all sizes |
| clipboard | 2 contents, a client and the manager, 3 events | a request, a clear and a request behind it |
| frames | 3 back ends, nothing else to bound | |

`MaxEffects` bounds only what application code asks for; effects that handlers
queue themselves are not refused. `MaxCalls` bounds only the calls application
code makes. `MaxIds` and `MaxDepth` of SubscriberSet bound subscriptions and
nesting, `MaxTimers`, `MaxClock` and `MaxDepth` of TestScheduler what test code
and tasks ask for, `MaxBindings`, `MaxTyped`, `MaxInsertions`, `MaxOps`,
`MaxItems`, `MaxScroll` and `MaxEvents` the length of the histories of their
modules. Nothing else is bounded.

## Fairness

* Threads and loops (`PoolFairness`, `ChannelFairness`, `MailboxFairness`,
  `WakeFairness`, `ClipboardFairness`): weak fairness of each thread's next step
  inside a call, and of the loops' next round. Threads are scheduled by the
  operating system, and no step waits for a lock another can hold for ever. No
  fairness is assumed of sending, dropping, writing or stopping. On Windows,
  receiving the message and running a given runnable are strongly fair: the size-move loop,
  which other steps enter and leave, disables them in between, and a user does
  not drag a window for ever; the queue's die takes each item in the end.
* `EntityMap`: fairness of the threads that are inside a drop or an upgrade, and
  of the main thread's way to its flush; strong where another thread's lock or
  lease may disable the step in between. Application code need not drop anything.
* `App`: weak fairness of the flush loop; strong fairness of the return from
  each depth of the stack, that is, application code returns from what it
  calls and from its callbacks, but may ask for more each time.
* `FrameFairness`: a callback that has started goes on, time passes, and the
  platform asks again for a frame it has reason to ask for, when the callback is
  not running. The last is strong: other requests may come first.
* `TimersResume` of KeyInput: the executor resumes the task of a timer that
  pending input still holds, a second later, whether anybody types or not.
* `TipFairness`: a dirty window is drawn (what `DirtyIsDrawn` shows) and a
  started timer fires.
* SubscriberSet, ViewCache, Scene, ListState, TabStops, WindowFocus,
  TestScheduler and DragHandoff state no liveness and assume no fairness.

In `MC_Platform` the loop of the mailbox and the requests for frames are enabled
also when another part moves; their fairness is restated there with `part = …`
in front, which leaves it as it is for the part it is about.

## Proofs

Eight proof modules, each for every value of the constants that satisfies the
assumptions of the module it is about. What they assume:

| Module | Assumption | |
|---|---|---|
| PriorityQueue | `RootAssumption`, `FiniteAssumption` | the root is a receiver; finitely many receivers and items |
| EntityMap | `NoIdAssumption`, `FiniteHandles` | "no entity" is none; finitely many places for handles |
| SubscriberSet | `QuietAssumption`, `BoundAssumption` | the keys that are only removed are keys; the bounds are numbers |
| App | `NoneAssumption`, `PlainAssumption`, `MaxAssumption` | "none" is nothing else; which effects have no set of their own; the bounds are numbers |
| ViewCache | `HomeAssumption`, `PanelsAssumption`, `TreeAssumption`, `ReadsAssumption` | the views form a tree of root, panels and items, each shown once; reads are between views |
| TestScheduler | `SessionAssumption`, `ModeAssumption`, `DurationAssumption` | a task has a session or none; two flags; durations are natural numbers |
| TabStops | `TabAssumption` | indices are integers; the bound is a number |
| DragHandoff | `DragAssumption` | "outside" and "nothing" are no windows and no drags |
| KeyContext | `PredicatesAssumption` | a predicate is one of the seven forms, and its parts are predicates of a smaller `Height` |
| Keymap | `KeymapAssumption` | bindings have keystrokes, a predicate or none, and a source that is a number; a context stack has a length |
| ListState | `ListAssumption` | heights, the overdraw and the bounds are natural numbers, and the view has a height. `ListAlwaysSettles` also has the hypothesis `Overdraw > 1` |
| Scene, BoundsTree | `SceneAssumption`, `MaxChildrenAssumption` | bounds have no negative size, kinds and tiles are numbered, the bound is a number; a node has room for two children |
| CalloopChannel, MainThreadMailbox, WindowsWake, WindowFocus, Tooltip, FrameLoop | none | |

The bounds of `App`, `SubscriberSet`, `TabStops`, `KeyInput`, `ListState`, `Scene`
and `TestScheduler` are parameters of the theorems too, any number for each.

Where an argument needs induction over numbers it goes through `Numbers_proofs`:
`SetInduction` (a set that has zero, and with a number the next one, has all of
them) and `LeastNumber`, both from the well-founded induction of the library in
its form without an operator as a parameter. That is enough for the recursive
functions of the models, which are loops over the positions of a sequence or
recursion over the `Height` of a predicate.

**Platform_proofs: the queue.** The invariant is the type, `receiver_count =
Cardinality(Handles)`, `sender_count` and what senders hold, `NoLostWakeup` and
`PopFindsItem`. `NoLostWakeup` is inductive with the type alone, because it
counts: a send adds one item and, if anybody waits, one notified receiver; a
notified receiver that comes back takes one item or finds none; a thief takes an
item and leaves the notified receiver in surplus. The die is a lemma about
`CanMiss`: with any non-empty set of queues some flip is certain.
`RejectedOnlyWithoutReceiver` needs the count of handles, `ClosedMeansDrained`
that the sender is not dropped with a send in progress.

**EntityMap_proofs.** `CountIsHandles` is not inductive as it stands. The
invariant adds: an id being pushed is dead and not yet in the queue
(`PushIsDead`), a thread in the compare-exchange loop looks at an occupied id
and holds no stale zero (`CasIsOccupied`), handles refer to ids handed out
(`CreatedFirst`). One lemma per action; lemmas about the cardinality of
`HandlesOf` when a handle is added or removed carry the arithmetic.
`NeverResurrected` is an action property from the same invariant. A second
invariant, `PlacesInv`, says where an entity is: in a slot that nothing has
filled yet (`SlotsAreNew`), in the map, on one lease (`LeasedOnce`), or released
(`ReleasedAreGone`); and that nothing is leased while `take_dropped` runs
(`FlushIsOutermost`). `NeverZombie` and `EachReleasedOnce` follow.

**Platform_proofs: the main threads.** The three protocols have one shape: push, announce;
look, drain, take back the announcement, look again. `ChannelInv`, `MailboxInv`
and `WakeInv` say who still has to do what about a queued item. `WakeIsComing`
is inductive with its type; `ItemIsAnnounced` needs what the drop of the sender
does to pings and to `closed`; `NeverSleepsOnWork` needs that, once the loop has
re-armed, an item it did not take has its store still to come or has set the
signal, and that a signal set under a parked loop has its notify to come
(`Rearmed`). `ChannelDelivers`,
`MailboxDelivers` and `WindowsDelivers` are the refinements of the safety part
of `Delivery`: initial states map to initial states, each action to `Post`,
`Run`, `Stop` or a stutter. The last holds also when posts fail.

**Platform_proofs: windows.** Focus, tooltips, frames, drags and tab stops.
`FocusIsKnown` is inductive with the type and the fact that a window whose
focus is disabled has none (`FocusAlwaysKnown`). For tooltips, `RestedTipStays`
needs that one that waits to be hidden was not found under the pointer by the last draw that looked
(`HidesUnrested`). For frames, `FrameInv` adds that a stale scene has a
forced render to come (`StaleIsForced`), that the renderer skips draws only
while one is pending (`SkipIsPending`), and where in a frame the Wayland callback is committed
(`CallbackInFrame`); `TilesAlwaysExist` and `CallbackAlwaysComing` follow.
`PresentedTilesExist` speaks of Wayland and Windows: on X11 it is false, which
is the finding `x11_expose`. For drags, `DragInv` says that a drag is lent only
in a session whose source is open (`LentInSession`), that it is active over its
source or else put away, and not both (`KeptInOnePlace`), that nothing is active
when neither a button nor a window under a session keeps it up
(`NothingActive`), and that files from outside carry no payload;
`NeverGhostDrag` and `DragAlwaysOurs` follow. For tab stops, the order of paths
is shown to be strict and total, a non-empty set of handles to have a least and a
greatest one, and from that `next` and `prev` to be inverse and to leave no stop
out (`TabGoesRound`). `TabInv` says that the open groups are the prefixes of
`current_path`, the innermost last, and that a handle's path is inside that of the
groups it was inserted in, one for each of its proper prefixes; since what lies
between two paths inside a third is inside it too, `TabKeepsOrder` follows.

**Contents_proofs: subscriptions.** The invariant says where an id may be: in the entry of
its own key or in the local map of one `retain` of that key, never in two places
(`PlacesApart`), and in none once the set gave it up (`LivePlaces`); a call is
in a callback of an id it holds (`FramesFit`); a key is taken only by a `retain`
(`TakenByRetain`). `NoneIsLost` is `SubscribersInPlace`, `CallbacksAreLive` the
action property `RetainCallsLive`.

**App_proofs.** `StackInv`: `pending_updates` counts the updates among the calls
in progress, `window_update_stack` lists the windows among them, and a flush is
below no other update. `QueueInv`: the sets that `push_effect` tests mirror the
queue, and an observer is owed a call only while its entity is in them.
`HeldInv`: a live entity is held by somebody or waits for its release. The
lemmas about the stack are stated for any sequence of calls, so that an action
that pops a call and pushes another uses one after the other. `UpdatesAreSound`
(`AppInv`), `NotifyAlwaysReaches` and the action property
`OutermostUpdateFlushes` (`FlushedAtReturn`) follow.

**Contents_proofs: views.** `DrawInv`: what is due keeps its panel dirty until it is
rendered, so no draw recycles it (`DueIsNeverRecycled`), whatever renders read.
`ScreenInv`: the state of a panel holds views of its own only, and all of those
it shows, before and after the panel's turn in a draw (`StatesFit`), so
recycling tracks what it shows. It needs `ReadsStayInside`: what a render reads
is of its own panel, or the root. `ScreenIsCurrent` states that
hypothesis; the instance of the run `window` satisfies it, and the run
`view_cache_reads`, where the root reads a panel's entity, shows that without it
the conclusion is false.

**Contents_proofs: lists.** The loops of `layout_items` are recursive functions
over the items, and the lemmas about them say of each where it stops and that
what it walked has the height it claims. `ListInv` is the type, `NoGap`,
`FollowsTheEnd` if the overdraw is more than a pixel, and `WantedIsTop`: while
the history says that the item at the top is to stay, it is the position, and
what is pending for that item can only move it to the item's end. All follow
from one lemma about a layout with known and with unknown heights
(`LayoutStep`). A layout either walks to the last item or measures a view and
the overdraw beyond its position; in the second case the known heights below it
are more than a pixel higher than the view, and the check that resumes following
fails: this is where the overdraw is needed. `ListAlwaysFilled` (`NoGap`) needs
no such hypothesis; `ListAlwaysSettles` and the action property `TopAlwaysKept`
are the other two.

**Input_proofs: the keymap.** `ResolveByPrecedence` and `NextIsDispatched` hold in
every state of any keymap, as `KeymapAlwaysResolves` says. The loop of
`resolve_bindings_for_input` keeps that what it has collected after n of the
sorted matches is what precedence selects among them (`Collected`), by
induction over n. That a binding `bindings_for_action` hides runs nowhere rests
on `is_superset`, whose documentation says that a superset "matches all possible
contexts matched by the other predicate" (`context.rs:326`). This is proved by
induction over the heights of the two predicates; the case of a `>` needs that a
predicate without negation which holds of a part of the stack also holds of a
longer part. Hence the hypothesis `NegationsAreOutermost` of
`SupersetAlwaysMatches` and `KeymapQueriesAgree`: right of a `>` stands no `!`.
Without it the statement is false. `!Workspace` counts as a superset of
`Pane > !Workspace` (`context.rs:338` compares with the child alone), and in
Workspace, Pane, Editor the second matches (as the comment at `context.rs:303`
asks) and the first does not, so that menus hide a binding which its keystrokes
run. The predicates of the run `input` have no such negation.

**Input_proofs: keys.** `KeyInv` is the type, `NoBindingSkipped`, and: a
generation is used once, and a timer speaks of the pending input of its own
(`GenerationsFit`); pending input that must not wait has its timer running
(`WaitIsTimed`, a theorem of its own, since `TextIsNotHeldBack` rests on it);
pending input is of the focused element, or of one that lost the focus
(`FocusFits`). What a step puts out together with what stays pending spells what
was pending and the new keystroke (`StepAccounted`): this is the lemma about the
replay of a prefix, by induction over its pieces, and gives `KeysAreConserved`.
That an event takes more than one keystroke only of a chord that is bound, and
gives on the last, is shown for each piece of a replay (`OutcomeFacts`).
`KeysAlwaysAccounted` is `KeysAreAccounted` from these: it does not say that each
keystroke reaches a binding or a listener, see the note on chords that nobody
handles.

**Scene_proofs.** `SceneInv` joins three parts. `TreeInv`: there is a map
`under` from each node to the nodes at and below it that makes the nodes a tree
below the root (`Forest`: one parent each, siblings with nothing in common), and
each node's bounds and `max_order` cover what is under it (`NodesCover`). The
lemmas about `insert_leaf` say what a new leaf, or a new pair in a leaf's place,
makes of `under` (`ForestWithLeaf`, `ForestWithPair`) and that the way back
along `insert_path` updates exactly the nodes the new leaf is under
(`InsertGrows`). The search keeps that every leaf it looks for is below its
stack or has no greater order than it found (`Searched`), whatever the order of
the children, and takes a node with each turn, so it is done within as many
turns as there are nodes (`FindsGreatest`; the loops of `BoundsTree` are
functions over the turns, because a theorem can be about those). `PaintInv`:
orders rise where bounds overlap (`OrdersRise`); for what is painted in layers
this needs that an open layer is above all that it overlaps but its own contents
(`LayersAbove`). `DrawInv`: what is left of each kind is sorted and complete,
and nothing was drawn before something of a lower order (`DrawnByOrder`), since
a batch ends before the least key of the other kinds. `PaintOrderAlwaysKept`
follows.

**TestScheduler_proofs.** What any step does to the stack and to
`blocked_sessions` is one of five moves (stay, enter a call, enter a block,
return from one or the other), and each keeps `StackInv`: `blocked_sessions`
lists the sessions of the blocks on the stack in their order, what is below the
innermost call has made a step, and no task of a blocked session is above the
block. What a step does to the queue is to leave it, to add a task or to remove
one (`QueueMoves`), which keeps `RunnablesInv` and `FramesInv`, that a task is queued once or runs in
one frame, and that the history speaks of queued tasks only. So
`SessionsStaySerial`. `TimersStayOnTime` needs that timers are sorted
(`TimersSorted`), insertion included. `NeverPanicsEarly` rests on `TurnInv`: in
a turn of a block in which no step was made, only the other thread can have made
its future ready or a task runnable, and then `unparked` says so. That the
random insertion keeps a session in order is a lemma about `InsertAt`.

**Only model-checked.** Liveness and all that rests on fairness, which is beyond
this prover: `DispatchedIsRun`, `RunnableIsRun`, `RequestIsAnswered`, `DropEnds`,
`FramesCome` without `CallbackIsComing`, `UnreferencedIsReleased` without
`ReleasedOnce`, `NotifyIsApplied`, `TextIsNotHeldBack`, `StrayTipGoes`, and the
fairness part of `ChannelImplementsDelivery` and `MailboxImplementsDelivery`.
`TextIsNotHeldBack` is moreover a property of the keymaps of the instance: where
a sequence that fails is replayed, and the replay moves the focus from an element
that takes no text to one that does, what remains pending was judged by the
first and may have no timer.

## Not modelled

* Memory orders: atomics are sequentially consistent here. The counts of the
  queue are updated with AcqRel and read with Relaxed; under the mutex that
  makes no difference to `recv`, and a stale `receiver_count` in `send` only
  delays an error.
* The probabilities of the die, and of the random order of the test scheduler.
* In App: shutdown, key bindings, platform callbacks, notifications during a
  draw, more than one observer per entity.
* In ViewCache: release of entities, several windows, a view shown twice,
  layout and painting.
* In KeyInput: parsing of keystrokes and predicates, input methods beyond
  whether a keystroke types a character. In Scene: two dimensions, paths. In
  ListState: padding; `ListMeasuringBehavior::Measure`; autoscroll, for which
  `List::prepaint` sets `logical_scroll_top`, without adjusting `pending_scroll`,
  and lays out a second time (`list.rs:1276`, `list.rs:1551`); the layout that
  asks for the size of a list with `ListSizingBehavior::Infer` (`list.rs:1447`);
  a focused item out of sight, which is laid out all the same; a list without
  height.
* `PlatformScheduler::block`, `use_asset`, the sum tree: planned.
* The larger part of the repository by lines is no control at all: units and
  geometry, styles, element builders, colours; layout around taffy; shaping and
  wrapping of text; shaders, buffers and atlas allocation; bindings to AppKit,
  Win32, Wayland, X11 and the browser; macros, support crates and examples. An
  honest model of these would be a copy of floating-point data or of an
  interface whose other side is not in the repository. The map therefore covers
  a small share of all lines; it covers most of the files it is about.

Each component left out is listed in `PROJECT.json` with its reason.

## Plan

Done: the queue and its pool; the main-thread channels of Linux, the web and
Windows; entities; subscriptions; the update cycle; the view cache; frames and
the recovery of the GPU; keymap, key input, focus, tooltips and tab stops; scene
and bounds tree; lists; drags; the X11 clipboard; the test scheduler; theorems
about the queue, the three channels, entities, subscriptions, the update cycle,
the view cache, the keymap, key input, focus, tooltips, tab stops, frames, the
scene, lists, drags and the test scheduler.

Next, in this order:

1. App: shutdown, which flushes without `flushing_effects`; notifications during
   a draw; the closure of `Application::run`.
2. `ViewCache`: released entities, two windows, a view in two places.
3. `PlatformScheduler::block` with its timeout; `use_asset` and its waiters.
4. The sum tree against the sequence it stands for.
