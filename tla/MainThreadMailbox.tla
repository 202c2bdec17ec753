-------------------------- MODULE MainThreadMailbox --------------------------
(***************************************************************************)
(* The main thread of the web platform (crates/gpui_web/src/dispatcher.rs).*)
(* A browser's main thread may not block, so worker threads post items to  *)
(* a PriorityQueue and wake an async loop with Atomics.store and           *)
(* Atomics.notify on one shared cell; the loop re-arms the cell, drains,   *)
(* and parks with Atomics.waitAsync, which compares the cell and registers *)
(* the waiter in one atomic step.  This is the lock-free protocol that     *)
(* MainThreadMailbox::post asks to be verified.                            *)
(*                                                                         *)
(* The queue is a set: PriorityQueue models the order.                     *)
(***************************************************************************)
EXTENDS Naturals, FiniteSets

CONSTANTS
    Jobs,    \* the posted items; each is posted at most once
    Posters   \* worker threads that post

VARIABLES
    mailbox,   \* the items in the PriorityQueue
    jobs_run,     \* items executed on the main thread
    signal,  \* MainThreadMailbox.signal
    post,    \* where each thread is in MainThreadMailbox::post
    waker    \* where the loop of run_waker_loop is

mailboxVars == <<mailbox, jobs_run, signal, post, waker>>

\* idle: not in post; pushed: past spin_send; stored: past Atomics.store.
PostStates == {"idle", "pushed", "stored"}
\* rearm: at the store of 0; drain: in the drain that follows; wait: at
\* waitAsync; parked: awaiting the promise; again: in the drain after it.
WakerStates == {"rearm", "drain", "wait", "parked", "again"}

MailboxTypeOK ==
    /\ mailbox \subseteq Jobs
    /\ jobs_run \subseteq Jobs
    /\ signal \in {0, 1}
    /\ post \in [Posters -> PostStates]
    /\ waker \in WakerStates

MailboxInit ==
    /\ mailbox = {}
    /\ jobs_run = {}
    /\ signal = 0
    /\ post = [t \in Posters |-> "idle"]
    /\ waker = "rearm"

-----------------------------------------------------------------------------
\* MainThreadMailbox::post: spin_send.  The mailbox owns its receiver, so the
\* send is never refused.
PostPush(t, i) ==
    /\ post[t] = "idle"
    /\ i \notin mailbox \cup jobs_run
    /\ mailbox' = mailbox \cup {i}
    /\ post' = [post EXCEPT ![t] = "pushed"]
    /\ UNCHANGED <<jobs_run, signal, waker>>

\* ... Atomics.store(view, 0, 1)
Store(t) ==
    /\ post[t] = "pushed"
    /\ signal' = 1
    /\ post' = [post EXCEPT ![t] = "stored"]
    /\ UNCHANGED <<mailbox, jobs_run, waker>>

\* ... Atomics.notify(view, 0): the promise of a parked loop is resolved.
Notify(t) ==
    /\ post[t] = "stored"
    /\ post' = [post EXCEPT ![t] = "idle"]
    /\ waker' = IF waker = "parked" THEN "again" ELSE waker
    /\ UNCHANGED <<mailbox, jobs_run, signal>>

-----------------------------------------------------------------------------
\* Mutant of Rearm: the drain after the store is left out.
RearmWithoutDrain ==
    /\ waker = "rearm"
    /\ signal' = 0
    /\ waker' = "wait"
    /\ UNCHANGED <<mailbox, jobs_run, post>>

\* run_waker_loop: Atomics.store(view, 0, 0)
Rearm ==
    /\ waker = "rearm"
    /\ signal' = 0
    /\ waker' = "drain"
    /\ UNCHANGED <<mailbox, jobs_run, post>>

\* drain: spin_try_pop returns an item, execute_on_main_thread runs it.
Execute(i) ==
    /\ waker \in {"drain", "again"}
    /\ i \in mailbox
    /\ mailbox' = mailbox \ {i}
    /\ jobs_run' = jobs_run \cup {i}
    /\ UNCHANGED <<signal, post, waker>>

\* drain: spin_try_pop finds nothing.
MailboxEmpty ==
    /\ waker \in {"drain", "again"}
    /\ mailbox = {}
    /\ waker' = IF waker = "drain" THEN "wait" ELSE "rearm"
    /\ UNCHANGED <<mailbox, jobs_run, signal, post>>

\* Mutant of WaitAsync: the wait does not compare.
WaitAlways ==
    /\ waker = "wait"
    /\ waker' = "parked"
    /\ UNCHANGED <<mailbox, jobs_run, signal, post>>

\* Atomics.waitAsync(view, 0, 0): park if the cell is still 0; "not-equal"
\* goes straight to the drain.
WaitAsync ==
    /\ waker = "wait"
    /\ waker' = IF signal = 0 THEN "parked" ELSE "again"
    /\ UNCHANGED <<mailbox, jobs_run, signal, post>>

MailboxNext ==
    \/ \E t \in Posters : Store(t) \/ Notify(t) \/ \E i \in Jobs : PostPush(t, i)
    \/ Rearm \/ MailboxEmpty \/ WaitAsync
    \/ \E i \in Jobs : Execute(i)

MailboxSpec == MailboxInit /\ [][MailboxNext]_mailboxVars

\* A thread that is in post goes on, and so does a loop that is not parked.
MailboxFairness ==
    /\ \A t \in Posters : WF_mailboxVars(Store(t)) /\ WF_mailboxVars(Notify(t))
    /\ WF_mailboxVars(Rearm) /\ WF_mailboxVars(MailboxEmpty) /\ WF_mailboxVars(WaitAsync)
    /\ \A i \in Jobs : WF_mailboxVars(Execute(i))

FairMailboxSpec == MailboxSpec /\ MailboxFairness

-----------------------------------------------------------------------------
\* The loop never sleeps on work: when it is parked and an item is queued, the
\* thread that posted the item has its notify still to come.
NeverSleepsOnWork ==
    waker = "parked" /\ mailbox # {} => \E t \in Posters : post[t] # "idle"

\* Why: once re-armed, an item that the drain has not taken has its store
\* still to come or has set the signal; and a signal set under a parked loop
\* is about to be followed by a notify.
Rearmed ==
    /\ waker \in {"wait", "parked"} /\ mailbox # {} =>
           signal = 1 \/ \E t \in Posters : post[t] = "pushed"
    /\ waker = "parked" /\ signal = 1 => \E t \in Posters : post[t] = "stored"

\* The inductive invariant: types, no item both queued and run, and the above.
MailboxInv == MailboxTypeOK /\ mailbox \cap jobs_run = {} /\ Rearmed

\* The mailbox delivers: it implements Delivery, with a main loop that never
\* stops.
MailboxAsDelivery == INSTANCE Delivery WITH Items <- Jobs, waiting <- mailbox, run <- jobs_run,
                                            stopped <- FALSE
MailboxImplementsDelivery == MailboxAsDelivery!Spec

=============================================================================
