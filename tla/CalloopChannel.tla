--------------------------- MODULE CalloopChannel ---------------------------
(***************************************************************************)
(* The main thread of the Linux platform                                   *)
(* (crates/gpui_linux/src/linux/dispatcher.rs): runnables for it go into a *)
(* PriorityQueue, and an eventfd (calloop's Ping) wakes its event loop.    *)
(* A send is two steps, push and ping; the loop's side is three: the       *)
(* PingSource drains the eventfd, the queue is popped until it is empty,   *)
(* and the source pings itself if it found anything.                       *)
(*                                                                         *)
(* The queue is a set here: which of several items a pop returns is up to  *)
(* the die of pop_inner, which PriorityQueue models.                       *)
(***************************************************************************)
EXTENDS Naturals, FiniteSets

CONSTANTS
    Msgs,    \* the runnables; each is sent at most once
    Threads   \* threads that share the PriorityQueueCalloopSender

VARIABLES
    queue,      \* the items in the PriorityQueue
    sent,       \* items a thread has pushed, or tried to
    pinging,    \* threads between the push and the ping of send
    pinged,     \* the eventfd is readable
    loop,       \* the event loop: in poll, draining the queue, gone
    is_empty,   \* process_events has popped nothing yet
    sender,     \* the sender: alive, dropping (its Drop has pinged), gone
    run,        \* items given to the callback as Event::Msg
    closed      \* Event::Closed was delivered and the source removed

channelVars == <<queue, sent, pinging, pinged, loop, is_empty, sender, run, closed>>

ChannelTypeOK ==
    /\ queue \subseteq Msgs
    /\ sent \subseteq Msgs
    /\ pinging \subseteq Threads
    /\ pinged \in BOOLEAN
    /\ loop \in {"poll", "drain", "gone"}
    /\ is_empty \in BOOLEAN
    /\ sender \in {"alive", "dropping", "gone"}
    /\ run \subseteq Msgs
    /\ closed \in BOOLEAN

ChannelInit ==
    /\ queue = {}
    /\ sent = {}
    /\ pinging = {}
    /\ pinged = FALSE
    /\ loop = "poll"
    /\ is_empty = TRUE
    /\ sender = "alive"
    /\ run = {}
    /\ closed = FALSE

-----------------------------------------------------------------------------
\* PriorityQueueCalloopSender::send up to the push; without a receiver the
\* item comes back, dispatch_on_main_thread forgets it and nothing is pinged.
Push(t, i) ==
    /\ sender = "alive"
    /\ t \notin pinging
    /\ i \notin sent
    /\ sent' = sent \cup {i}
    /\ IF loop = "gone"
       THEN UNCHANGED <<queue, pinging>>
       ELSE queue' = queue \cup {i} /\ pinging' = pinging \cup {t}
    /\ UNCHANGED <<pinged, loop, is_empty, sender, run, closed>>

\* ... and its ping.
Ping(t) ==
    /\ t \in pinging
    /\ pinging' = pinging \ {t}
    /\ pinged' = TRUE
    /\ UNCHANGED <<queue, sent, loop, is_empty, sender, run, closed>>

\* Drop for PriorityQueueCalloopSender, when no thread borrows it: a ping.
DropCalloopSender ==
    /\ sender = "alive"
    /\ pinging = {}
    /\ sender' = "dropping"
    /\ pinged' = TRUE
    /\ UNCHANGED <<queue, sent, pinging, loop, is_empty, run, closed>>

\* The field is dropped after the Drop of the struct: PriorityQueueSender's own
\* Drop takes sender_count to zero.
DropField ==
    /\ sender = "dropping"
    /\ sender' = "gone"
    /\ UNCHANGED <<queue, sent, pinging, pinged, loop, is_empty, run, closed>>

-----------------------------------------------------------------------------
\* poll returns and PingSource::process_events reads the eventfd, which drains
\* it, before it calls the closure of process_events.
PollWakes ==
    /\ loop = "poll"
    /\ pinged
    /\ ~closed
    /\ pinged' = FALSE
    /\ loop' = "drain"
    /\ is_empty' = TRUE
    /\ UNCHANGED <<queue, sent, pinging, sender, run, closed>>

\* try_iter yields an item, and the callback runs it.
Deliver(i) ==
    /\ loop = "drain"
    /\ i \in queue
    /\ queue' = queue \ {i}
    /\ run' = run \cup {i}
    /\ is_empty' = FALSE
    /\ UNCHANGED <<sent, pinging, pinged, loop, sender, closed>>

\* Mutant of EndDrain: one item per wake-up, as if there were a wake-up for
\* every ping; but the eventfd merges them.
EndDrainOne ==
    /\ loop = "drain"
    /\ queue = {} \/ ~is_empty
    /\ loop' = "poll"
    /\ closed' = (queue = {} /\ sender = "gone")
    /\ UNCHANGED <<queue, sent, pinging, pinged, is_empty, sender, run>>

\* try_iter ends.  With a sender left the source pings itself if it had found
\* anything; without one it delivers Event::Closed and is removed.
EndDrain ==
    /\ loop = "drain"
    /\ queue = {}
    /\ loop' = "poll"
    /\ IF sender = "gone"
       THEN closed' = TRUE /\ UNCHANGED pinged
       ELSE pinged' = (pinged \/ ~is_empty) /\ UNCHANGED closed
    /\ UNCHANGED <<queue, sent, pinging, is_empty, sender, run>>

\* The event loop is left and the source dropped with it.
StopLoop ==
    /\ loop = "poll"
    /\ loop' = "gone"
    /\ UNCHANGED <<queue, sent, pinging, pinged, is_empty, sender, run, closed>>

ChannelNext ==
    \/ \E t \in Threads : Ping(t) \/ \E i \in Msgs : Push(t, i)
    \/ DropCalloopSender \/ DropField
    \/ PollWakes \/ EndDrain \/ StopLoop
    \/ \E i \in Msgs : Deliver(i)

ChannelSpec == ChannelInit /\ [][ChannelNext]_channelVars

\* Threads finish the calls they are in; the loop polls and drains.
ChannelFairness ==
    /\ \A t \in Threads : WF_channelVars(Ping(t))
    /\ WF_channelVars(DropField)
    /\ WF_channelVars(PollWakes)
    /\ WF_channelVars(EndDrain)
    /\ \A i \in Msgs : WF_channelVars(Deliver(i))

FairChannelSpec == ChannelSpec /\ ChannelFairness

-----------------------------------------------------------------------------
\* An item in the queue is always announced: the loop is draining, the eventfd
\* is readable, or the thread that pushed it has yet to ping.
ItemIsAnnounced ==
    queue # {} /\ loop = "poll" /\ ~closed => pinged \/ pinging # {}

\* Event::Closed is the last event: the source is removed only when no item is
\* left and no thread can push one.
ClosedIsLast ==
    closed => queue = {} /\ sender = "gone" /\ pinging = {}

\* The inductive invariant behind both: items are sent before they are queued
\* and run, a thread that pings borrows the sender, and the two above.
ChannelInv ==
    /\ ChannelTypeOK
    /\ queue \cup run \subseteq sent
    /\ queue \cap run = {}
    /\ pinging # {} => sender = "alive"
    /\ closed => loop # "drain"
    /\ ItemIsAnnounced
    /\ ClosedIsLast

\* The channel delivers: it implements Delivery, so that no runnable is lost
\* or run twice and each is run while the loop lives.
ChannelAsDelivery == INSTANCE Delivery WITH Items <- Msgs, waiting <- queue,
                                            stopped <- (loop = "gone")
ChannelImplementsDelivery == ChannelAsDelivery!Spec

\* The test calloop_works drops the sender and asserts that the loop then gets
\* Event::Closed.
DropCloses == (sender = "gone") ~> (closed \/ loop = "gone")

=============================================================================
