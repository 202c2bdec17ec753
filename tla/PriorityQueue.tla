--------------------------- MODULE PriorityQueue ---------------------------
(***************************************************************************)
(* The three-level blocking queue every platform dispatcher hands its      *)
(* runnables through (crates/gpui/src/queue.rs): one sender object shared  *)
(* by reference between the sending threads, any number of receiver        *)
(* handles, one per worker thread, a mutex around three FIFO queues and a  *)
(* condition variable on which a blocking pop waits.                       *)
(*                                                                         *)
(* Every critical section of queue.rs runs from lock to unlock without     *)
(* releasing the mutex, except at the condition variable, so each is one   *)
(* step here.  What is NOT under the mutex is a step of its own: the test  *)
(* of receiver_count that precedes the lock in send, and the updates of    *)
(* the two counts by the Drop and Clone implementations.                   *)
(***************************************************************************)
EXTENDS Naturals, Sequences, FiniteSets

CONSTANTS
    Senders,    \* threads that share the PriorityQueueSender
    Receivers,  \* threads, each owning at most one PriorityQueueReceiver
    Items,      \* the runnables; each is sent at most once
    Root        \* the receiver handle made by PriorityQueueReceiver::new

ASSUME RootAssumption == Root \in Receivers
ASSUME FiniteAssumption == IsFiniteSet(Receivers) /\ IsFiniteSet(Items)

Priorities == {"High", "Medium", "Low"}

\* Priority::weight
Weight(p) == CASE p = "High" -> 60
               [] p = "Medium" -> 30
               [] p = "Low" -> 10

VARIABLES
    queues,          \* PriorityQueues: one FIFO per priority
    sender_count,    \* PriorityQueueState.sender_count
    receiver_count,  \* PriorityQueueState.receiver_count
    sending,         \* item a sender holds past its receiver_count test
    receiver,        \* what each receiver handle is doing
    rejected,        \* items given back by SendError
    popped           \* items returned by a pop

vars == <<queues, sender_count, receiver_count, sending, receiver,
          rejected, popped>>

\* A sender that is not inside send.
NoItem == [item |-> "none", priority |-> "none"]
\* "absent": no handle; "idle": the owner is not in a pop; "waiting": parked
\* on the condition variable; "woken": notified, not yet holding the mutex;
\* "closed": a pop returned RecvError, so Iter::next ended; "panicked": the
\* unwrap in pop met Ok(None).
ReceiverStates ==
    {"absent", "idle", "waiting", "woken", "closed", "panicked"}

TypeOK ==
    /\ queues \in [Priorities -> Seq(Items)]
    /\ sender_count \in Nat
    /\ receiver_count \in Nat
    /\ sending \in [Senders -> [item : Items, priority : Priorities]
                               \cup {NoItem}]
    /\ receiver \in [Receivers -> ReceiverStates]
    /\ rejected \subseteq Items
    /\ popped \subseteq Items

Waiting == {r \in Receivers : receiver[r] = "waiting"}
Woken == {r \in Receivers : receiver[r] = "woken"}
\* The receiver handles that exist, whatever their owner is doing.
Handles == {r \in Receivers : receiver[r] # "absent"}

\* The number of items in the three queues qs.
Total(qs) == Len(qs["High"]) + Len(qs["Medium"]) + Len(qs["Low"])

NonEmpty == {p \in Priorities : queues[p] # <<>>}
IsEmpty == NonEmpty = {}

InQueue(i) == \E p \in Priorities : \E k \in 1..Len(queues[p]) :
                 queues[p][k] = i
InFlight(i) == \E s \in Senders : sending[s] # NoItem /\ sending[s].item = i
Fresh(i) == ~InQueue(i) /\ ~InFlight(i) /\ i \notin rejected /\ i \notin popped

-----------------------------------------------------------------------------
(***************************************************************************)
(* The loaded die of pop_inner.  Each non-empty queue, highest first, is   *)
(* taken with probability weight/mass, and the mass of a queue passed over *)
(* is subtracted.  random_ratio(n, d) is certain when n = d and may go     *)
(* either way when 0 < n < d; Flips is the set of its possible outcomes.   *)
(***************************************************************************)
Flips(n, d) == IF n = d THEN {TRUE} ELSE {TRUE, FALSE}

MassOf(ps) == (IF "High" \in ps THEN Weight("High") ELSE 0)
            + (IF "Medium" \in ps THEN Weight("Medium") ELSE 0)
            + (IF "Low" \in ps THEN Weight("Low") ELSE 0)

\* The mass left when the die comes to priority p.
MassAt(p, ps) ==
    CASE p = "High" -> MassOf(ps)
      [] p = "Medium" -> MassOf(ps \ {"High"})
      [] p = "Low" -> MassOf(ps \ {"High", "Medium"})

Higher(p) == CASE p = "High" -> {}
               [] p = "Medium" -> {"High"}
               [] p = "Low" -> {"High", "Medium"}

\* The queue p can be chosen: its own flip may succeed and the flip of every
\* higher non-empty queue may fail.
CanChoose(p, ps) ==
    /\ p \in ps
    /\ TRUE \in Flips(Weight(p), MassAt(p, ps))
    /\ \A q \in Higher(p) \cap ps : FALSE \in Flips(Weight(q), MassAt(q, ps))

\* Every flip may fail, and pop_inner falls through to Ok(None).
CanMiss(ps) == \A q \in ps : FALSE \in Flips(Weight(q), MassAt(q, ps))

-----------------------------------------------------------------------------
Init ==
    /\ queues = [p \in Priorities |-> <<>>]
    /\ sender_count = 1
    /\ receiver_count = 1
    /\ sending = [s \in Senders |-> NoItem]
    /\ receiver = [r \in Receivers |-> IF r = Root THEN "idle" ELSE "absent"]
    /\ rejected = {}
    /\ popped = {}

\* send and spin_send up to the lock: the receiver_count test, made without
\* the mutex, that gives the item back when no receiver is left.
SendTest(s, i, p) ==
    /\ sender_count > 0
    /\ sending[s] = NoItem
    /\ Fresh(i)
    /\ IF receiver_count = 0
       THEN rejected' = rejected \cup {i} /\ UNCHANGED sending
       ELSE /\ sending' = [sending EXCEPT ![s] = [item |-> i, priority |-> p]]
            /\ UNCHANGED rejected
    /\ UNCHANGED <<queues, sender_count, receiver_count, receiver, popped>>

\* Mutant of NotifyOne: a send that notifies only when nobody was notified
\* before it, as if one wake-up in progress were enough for every item.
NotifyFirst ==
    IF Waiting = {} \/ Woken # {}
    THEN UNCHANGED receiver
    ELSE \E r \in Waiting : receiver' = [receiver EXCEPT ![r] = "woken"]

\* Mutant of NotifyOne: send pushes and notifies nobody.
NotifyNone == UNCHANGED receiver

\* notify_one wakes one receiver parked on the condition variable, if any.
NotifyOne ==
    IF Waiting = {}
    THEN UNCHANGED receiver
    ELSE \E r \in Waiting : receiver' = [receiver EXCEPT ![r] = "woken"]

\* send and spin_send from the lock on: push, then notify_one.
SendPush(s) ==
    /\ sending[s] # NoItem
    /\ queues' = [queues EXCEPT ![sending[s].priority] =
                                    Append(@, sending[s].item)]
    /\ sending' = [sending EXCEPT ![s] = NoItem]
    /\ NotifyOne
    /\ UNCHANGED <<sender_count, receiver_count, rejected, popped>>

\* Drop for PriorityQueueSender.  No thread is inside send: it would borrow
\* the sender.  Nothing is notified.
DropSender ==
    /\ sender_count > 0
    /\ \A s \in Senders : sending[s] = NoItem
    /\ sender_count' = sender_count - 1
    /\ UNCHANGED <<queues, receiver_count, sending, receiver, rejected, popped>>

\* pop_inner once recv or try_recv returned the guard of a non-empty queue.
Take(r) ==
    \/ \E p \in Priorities :
          /\ CanChoose(p, NonEmpty)
          /\ queues' = [queues EXCEPT ![p] = Tail(@)]
          /\ popped' = popped \cup {Head(queues[p])}
          /\ receiver' = [receiver EXCEPT ![r] = "idle"]
    \/ /\ CanMiss(NonEmpty)
       /\ receiver' = [receiver EXCEPT ![r] = "panicked"]
       /\ UNCHANGED <<queues, popped>>

\* recv's loop test: park while the queues are empty.
WaitOrTake(r) ==
    IF IsEmpty
    THEN /\ receiver' = [receiver EXCEPT ![r] = "waiting"]
         /\ UNCHANGED <<queues, popped>>
    ELSE Take(r)

\* pop: the blocking pop, entered by Iter::next on a worker thread.
Pop(r) ==
    /\ receiver[r] = "idle"
    /\ IF IsEmpty /\ sender_count = 0
       THEN /\ receiver' = [receiver EXCEPT ![r] = "closed"]
            /\ UNCHANGED <<queues, popped>>
       ELSE WaitOrTake(r)
    /\ UNCHANGED <<sender_count, receiver_count, sending, rejected>>

\* Mutant of Wake: an `if` in the place of recv's `while`, so that a receiver
\* whose item was stolen goes on with an empty queue and its die finds nothing.
WakeOnce(r) ==
    /\ receiver[r] = "woken"
    /\ Take(r)
    /\ UNCHANGED <<sender_count, receiver_count, sending, rejected>>

\* Condvar::wait returns with the mutex held and the loop tests again; the
\* sender count is not read a second time.
Wake(r) ==
    /\ receiver[r] = "woken"
    /\ WaitOrTake(r)
    /\ UNCHANGED <<sender_count, receiver_count, sending, rejected>>

\* try_pop and spin_try_pop: an empty queue is Ok(None) or RecvError.
TryPop(r) ==
    /\ receiver[r] = "idle"
    /\ IF IsEmpty
       THEN /\ receiver' = IF sender_count = 0
                           THEN [receiver EXCEPT ![r] = "closed"]
                           ELSE receiver
            /\ UNCHANGED <<queues, popped>>
       ELSE Take(r)
    /\ UNCHANGED <<sender_count, receiver_count, sending, rejected>>

\* Mutant of CloneReceiver: the derived Clone, which counts nothing.
CloneUncounted(r, new) ==
    /\ receiver[r] = "idle"
    /\ receiver[new] = "absent"
    /\ receiver' = [receiver EXCEPT ![new] = "idle"]
    /\ UNCHANGED <<queues, sender_count, receiver_count, sending, rejected,
                   popped>>

\* Clone for PriorityQueueReceiver, of a handle no pop has borrowed.
CloneReceiver(r, new) ==
    /\ receiver[r] = "idle"
    /\ receiver[new] = "absent"
    /\ receiver_count' = receiver_count + 1
    /\ receiver' = [receiver EXCEPT ![new] = "idle"]
    /\ UNCHANGED <<queues, sender_count, sending, rejected, popped>>

\* Drop for PriorityQueueReceiver: the handle goes out of scope.
DropReceiver(r) ==
    /\ receiver[r] \in {"idle", "closed", "panicked"}
    /\ receiver_count' = receiver_count - 1
    /\ receiver' = [receiver EXCEPT ![r] = "absent"]
    /\ UNCHANGED <<queues, sender_count, sending, rejected, popped>>

Next ==
    \/ \E s \in Senders, i \in Items, p \in Priorities : SendTest(s, i, p)
    \/ \E s \in Senders : SendPush(s)
    \/ DropSender
    \/ \E r \in Receivers : Pop(r) \/ Wake(r) \/ TryPop(r) \/ DropReceiver(r)
    \/ \E r, new \in Receivers : CloneReceiver(r, new)

Spec == Init /\ [][Next]_vars

-----------------------------------------------------------------------------
\* No wake-up is lost: while some worker is parked on the condition variable,
\* every queued runnable has a worker already notified and on its way to the
\* mutex, whatever other receivers stole in between (send's notify_one, the
\* while loop of recv).
NoLostWakeup ==
    Waiting # {} => Total(queues) <= Cardinality(Woken)

\* The die always lands on a non-empty queue: the unwrap in pop never meets
\* Ok(None), because the mass left at the last non-empty queue is its weight,
\* and because recv tests the queues again after every wake-up.
PopFindsItem == \A r \in Receivers : receiver[r] # "panicked"

\* send gives an item back (SendError) only when no receiver handle exists,
\* however the handles were cloned and dropped before: the dispatchers treat
\* that error as the end of the thread pool.
RejectedOnlyWithoutReceiver ==
    [][rejected' # rejected => Handles = {}]_vars

\* A pop reports RecvError only when the sender is gone and every item a send
\* accepted has been popped: closing loses nothing.
ClosedMeansDrained ==
    [][\A r \in Receivers :
          receiver[r] # "closed" /\ receiver'[r] = "closed" =>
              /\ sender_count = 0
              /\ \A i \in Items : ~InQueue(i) /\ ~InFlight(i)]_vars

=============================================================================
