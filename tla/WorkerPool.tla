----------------------------- MODULE WorkerPool -----------------------------
(***************************************************************************)
(* The background thread pool of LinuxDispatcher (dispatcher.rs of         *)
(* gpui_linux; WebDispatcher::new builds the same one): the constructor    *)
(* clones the root receiver once per worker, spawns the worker on the      *)
(* clone, and drops the root when it returns.  A worker is the loop        *)
(* `for runnable in receiver.iter()`, which ends at the first RecvError;   *)
(* dispatch is a send whose error is a panic.                              *)
(***************************************************************************)
EXTENDS PriorityQueue

VARIABLE phase  \* of the dispatcher: "spawning" | "running" | "dropped"

poolVars == <<vars, phase>>

Workers == Receivers \ {Root}

PoolInit == Init /\ phase = "spawning"

\* One round of the thread_count loop: clone the root, spawn the worker.
SpawnWorker(w) ==
    /\ phase = "spawning"
    /\ CloneReceiver(Root, w)
    /\ UNCHANGED phase

\* The constructor returns and its background_receiver goes out of scope.
FinishNew ==
    /\ phase = "spawning"
    /\ Workers \subseteq Handles
    /\ DropReceiver(Root)
    /\ phase' = "running"

\* dispatch, which runs only on a constructed dispatcher.
Dispatch(s, i, p) ==
    /\ phase = "running"
    /\ SendTest(s, i, p)
    /\ UNCHANGED phase

DispatchPush(s) == SendPush(s) /\ UNCHANGED phase

\* Iter::next on a worker thread, and its return from the condition variable.
WorkerPop(w) == Pop(w) /\ UNCHANGED phase
WorkerWake(w) == Wake(w) /\ UNCHANGED phase

\* The for loop ended: the thread returns and its receiver is dropped.
WorkerExit(w) ==
    /\ receiver[w] = "closed"
    /\ DropReceiver(w)
    /\ UNCHANGED phase

\* The dispatcher is dropped, its background_sender with it; the join
\* handles are dropped without a join.
DropDispatcher ==
    /\ phase = "running"
    /\ DropSender
    /\ phase' = "dropped"

PoolNext ==
    \/ FinishNew
    \/ DropDispatcher
    \/ \E w \in Workers : SpawnWorker(w) \/ WorkerPop(w) \/ WorkerWake(w)
                          \/ WorkerExit(w)
    \/ \E s \in Senders, i \in Items, p \in Priorities : Dispatch(s, i, p)
    \/ \E s \in Senders : DispatchPush(s)

\* The operating system runs every thread: a thread inside send comes to its
\* end, a notified worker gets the mutex back, a worker takes its next turn.
PoolFairness ==
    /\ \A s \in Senders : WF_poolVars(DispatchPush(s))
    /\ \A w \in Workers : WF_poolVars(WorkerPop(w)) /\ WF_poolVars(WorkerWake(w))

PoolSpec == PoolInit /\ [][PoolNext]_poolVars /\ PoolFairness

-----------------------------------------------------------------------------

\* Every runnable handed to dispatch is run, also one whose dispatch raced
\* the start of the pool or came just before the dispatcher was dropped: no
\* notification is spent on a worker that does not come back for the item,
\* and no priority starves once the sends stop.
DispatchedIsRun ==
    \A i \in Items : (InFlight(i) \/ InQueue(i)) ~> i \in popped

=============================================================================
