----------------------------- MODULE WindowsWake -----------------------------
(***************************************************************************)
(* The main thread of the Windows platform (gpui_windows/src/dispatcher.rs *)
(* and platform.rs): runnables for it go into a PriorityQueue, and a       *)
(* window message wakes its message loop.  wake_posted keeps dispatchers   *)
(* from posting a message each; the loop clears it before its last look    *)
(* at the queue.  While a window is moved or sized, a timer drains the     *)
(* queue behind the flag's back.                                           *)
(*                                                                         *)
(* Posting a message can fail, so Delivery's promise is only kept when it  *)
(* does not.                                                               *)
(***************************************************************************)
EXTENDS Naturals

CONSTANTS
    Runnables,    \* each is dispatched at most once
    Dispatchers   \* threads

VARIABLES
    main_queue,    \* the runnables in the PriorityQueue
    executed,
    wake_posted,
    messages,      \* WM_GPUI_TASK_DISPATCHED_ON_MAIN_THREAD in the message queue
    dispatching,   \* where each thread is in dispatch_on_main_thread
    main_loop,     \* where the main thread is
    repost_failed, \* history: a repost has failed
    wake_lost      \* history: the post of a dispatch has failed

wakeVars == <<main_queue, executed, wake_posted, messages, dispatching, main_loop,
              repost_failed, wake_lost>>

\* pushed: before the swap; posting: won it, before PostMessageW.
DispatchStates == {"idle", "pushed", "posting"}
\* tasks: in the inner loop; clear: at the store of false; last: at the pop
\* that follows; resume: it popped one, before the store of true; timer: in
\* the drain of the size-move timer.
LoopStates == {"messages", "tasks", "clear", "last", "resume", "timer"}

WakeInit ==
    /\ main_queue = {} /\ executed = {}
    /\ wake_posted = FALSE
    /\ messages = 0
    /\ dispatching = [t \in Dispatchers |-> "idle"]
    /\ main_loop = "messages"
    /\ repost_failed = FALSE /\ wake_lost = FALSE

-----------------------------------------------------------------------------
\* dispatch_on_main_thread: the send.
Send(t, r) ==
    /\ dispatching[t] = "idle"
    /\ r \notin main_queue \cup executed
    /\ main_queue' = main_queue \cup {r}
    /\ dispatching' = [dispatching EXCEPT ![t] = "pushed"]
    /\ UNCHANGED <<executed, wake_posted, messages, main_loop, repost_failed, wake_lost>>

\* ... wake_posted.swap(true).
Swap(t) ==
    /\ dispatching[t] = "pushed"
    /\ wake_posted' = TRUE
    /\ dispatching' = [dispatching EXCEPT ![t] = IF wake_posted THEN "idle" ELSE "posting"]
    /\ UNCHANGED <<main_queue, executed, messages, main_loop, repost_failed, wake_lost>>

\* ... PostMessageW, whose error is only logged.
PostMessage(t) ==
    /\ dispatching[t] = "posting"
    /\ dispatching' = [dispatching EXCEPT ![t] = "idle"]
    /\ \/ messages' = messages + 1 /\ UNCHANGED wake_lost
       \/ wake_lost' = TRUE /\ UNCHANGED messages
    /\ UNCHANGED <<main_queue, executed, wake_posted, main_loop, repost_failed>>

-----------------------------------------------------------------------------
\* The message loop dispatches a wake message: run_foreground_task.
RunForegroundTask ==
    /\ main_loop = "messages" /\ messages > 0
    /\ messages' = messages - 1
    /\ main_loop' = "tasks"
    /\ UNCHANGED <<main_queue, executed, wake_posted, dispatching, repost_failed, wake_lost>>

\* The inner loop pops and executes.
ExecuteTask(r) ==
    /\ main_loop = "tasks"
    /\ r \in main_queue
    /\ main_queue' = main_queue \ {r}
    /\ executed' = executed \cup {r}
    /\ UNCHANGED <<wake_posted, messages, dispatching, main_loop, repost_failed, wake_lost>>

TasksEmpty ==
    /\ main_loop = "tasks"
    /\ main_queue = {}
    /\ main_loop' = "clear"
    /\ UNCHANGED <<main_queue, executed, wake_posted, messages, dispatching, repost_failed,
                   wake_lost>>

\* Mutant of TaskTimeout: a repost that fails leaves the flag set.
TaskTimeoutKeepsFlag ==
    /\ main_loop = "tasks"
    /\ main_loop' = "messages"
    /\ \/ messages' = messages + 1 /\ UNCHANGED <<wake_posted, repost_failed>>
       \/ repost_failed' = TRUE /\ UNCHANGED <<wake_posted, messages>>
    /\ UNCHANGED <<main_queue, executed, dispatching, wake_lost>>

\* After 10 ms: paint and input first, and a message to come back.
TaskTimeout ==
    /\ main_loop = "tasks"
    /\ main_loop' = "messages"
    /\ \/ messages' = messages + 1 /\ UNCHANGED <<wake_posted, repost_failed>>
       \/ wake_posted' = FALSE /\ repost_failed' = TRUE /\ UNCHANGED messages
    /\ UNCHANGED <<main_queue, executed, dispatching, wake_lost>>

ClearWakePosted ==
    /\ main_loop = "clear"
    /\ wake_posted' = FALSE
    /\ main_loop' = "last"
    /\ UNCHANGED <<main_queue, executed, messages, dispatching, repost_failed, wake_lost>>

\* Mutant of LastLook: trusts the pops before the flag was cleared.
LastLookSkipped ==
    /\ main_loop = "last"
    /\ main_loop' = "messages"
    /\ UNCHANGED <<main_queue, executed, wake_posted, messages, dispatching, repost_failed,
                   wake_lost>>

\* "Someone could enqueue a Runnable here": one more pop after the store.
LastLook ==
    /\ main_loop = "last"
    /\ IF main_queue = {}
       THEN main_loop' = "messages" /\ UNCHANGED <<main_queue, executed>>
       ELSE \E r \in main_queue :
               /\ main_queue' = main_queue \ {r}
               /\ executed' = executed \cup {r}
               /\ main_loop' = "resume"
    /\ UNCHANGED <<wake_posted, messages, dispatching, repost_failed, wake_lost>>

\* The flag is set again for the next round of the inner loop.  (The store
\* comes before the runnable is run; no other thread sees the difference.)
Resume ==
    /\ main_loop = "resume"
    /\ wake_posted' = TRUE
    /\ main_loop' = "tasks"
    /\ UNCHANGED <<main_queue, executed, messages, dispatching, repost_failed, wake_lost>>

\* handle_timer_msg of the size-move loop: try_iter to its end.
SizeMoveTimer ==
    /\ main_loop = "messages"
    /\ main_loop' = "timer"
    /\ UNCHANGED <<main_queue, executed, wake_posted, messages, dispatching, repost_failed,
                   wake_lost>>

DrainInTimer ==
    /\ main_loop = "timer"
    /\ IF main_queue = {}
       THEN main_loop' = "messages" /\ UNCHANGED <<main_queue, executed>>
       ELSE \E r \in main_queue :
               /\ main_queue' = main_queue \ {r}
               /\ executed' = executed \cup {r}
               /\ UNCHANGED main_loop
    /\ UNCHANGED <<wake_posted, messages, dispatching, repost_failed, wake_lost>>

WakeNext ==
    \/ \E t \in Dispatchers : Swap(t) \/ PostMessage(t) \/ \E r \in Runnables : Send(t, r)
    \/ RunForegroundTask \/ TasksEmpty \/ TaskTimeout
    \/ \E r \in Runnables : ExecuteTask(r)
    \/ ClearWakePosted \/ LastLook \/ Resume
    \/ SizeMoveTimer \/ DrainInTimer

\* Threads go on with a dispatch; the main loop takes its messages, runs
\* tasks, and does not time out before it ran one.
WakeFairness ==
    /\ \A t \in Dispatchers : WF_wakeVars(Swap(t)) /\ WF_wakeVars(PostMessage(t))
    /\ SF_wakeVars(RunForegroundTask)
    /\ \A r \in Runnables : SF_wakeVars(ExecuteTask(r))
    /\ WF_wakeVars(TasksEmpty \/ ClearWakePosted \/ LastLook \/ Resume \/ DrainInTimer)

WakeSpec == WakeInit /\ [][WakeNext]_wakeVars /\ WakeFairness

-----------------------------------------------------------------------------
\* A set wake_posted is a promise: a message is queued or about to be posted,
\* or the loop will look at the queue after clearing it.  Otherwise no later
\* dispatch would wake the main thread.  A dispatch whose PostMessageW
\* failed breaks it: the flag stays set.
FlagIsHonest ==
    wake_posted /\ ~wake_lost =>
        \/ messages > 0
        \/ \E t \in Dispatchers : dispatching[t] = "posting"
        \/ main_loop \in {"tasks", "clear"}

\* A queued runnable is announced: the loop is at it, a message is queued or
\* on its way, or the thread that sent it has its swap to come.
RunnableIsAnnounced ==
    main_queue # {} /\ main_loop = "messages" =>
        \/ messages > 0
        \/ \E t \in Dispatchers : dispatching[t] # "idle"
        \/ repost_failed \/ wake_lost

\* No wake-up is lost, neither the one that is due now nor, by a flag that
\* promises what nobody keeps, all later ones.
WakeIsComing == FlagIsHonest /\ RunnableIsAnnounced

\* What is left of Delivery when posts fail: its safety part.
WakeAsDelivery == INSTANCE Delivery WITH Items <- Runnables, waiting <- main_queue,
                                         run <- executed, stopped <- FALSE

\* A dispatched runnable is run, if posting messages works.
RunnableIsRun ==
    \A r \in Runnables : r \in main_queue ~> (r \in executed \/ repost_failed \/ wake_lost)

=============================================================================
