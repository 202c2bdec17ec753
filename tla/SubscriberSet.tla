---------------------------- MODULE SubscriberSet ----------------------------
(***************************************************************************)
(* Observers keyed by what they observe (crates/gpui/src/subscription.rs). *)
(* Everything runs on the main thread, but callbacks re-enter the set: a   *)
(* callback that retain or remove is running may subscribe, drop any       *)
(* subscription and start another retain, of the same key too.  The stack  *)
(* of retain and remove calls in progress is therefore part of the state,  *)
(* and application code runs only when the stack is empty or when the call *)
(* on top is inside a callback.                                            *)
(*                                                                         *)
(* Callbacks here own no Subscription of the same set.                     *)
(***************************************************************************)
EXTENDS Naturals, Sequences, FiniteSets

CONSTANTS
    Keys,      \* emitter keys observed with retain (and removed when idle)
    MaxIds,    \* bound: subscriptions ever made
    MaxDepth,  \* bound: nested retain and remove calls
    Quiet      \* the keys whose callbacks run only through remove

ASSUME QuietAssumption == Quiet \subseteq Keys
ASSUME BoundAssumption == MaxIds \in Nat /\ MaxDepth \in Nat

SubscriberIds == 1..MaxIds

VARIABLES
    subscribers,  \* SubscriberSetState.subscribers
    next_id,      \* next_subscriber_id, counted from 1
    key,          \* the emitter_key captured by a subscription
    active,       \* Subscriber.active
    dropped,      \* Subscriber.dropped
    deferred,     \* ids whose activation is a deferred effect, not yet run
    detached,     \* ids whose Subscription was detached
    stack,        \* the retain and remove calls in progress
    refused       \* ids given up by the set: callback said no, or key removed

subscriberVars == <<subscribers, next_id, key, active, dropped, deferred, detached,
          stack, refused>>

\* An entry of the BTreeMap: absent, None while a retain has it, or Some(map).
Absent == [slot |-> "absent", ids |-> {}]
Taken == [slot |-> "taken", ids |-> {}]
Some(S) == [slot |-> "some", ids |-> S]

\* A map in the set is never empty: the key goes with its last subscriber.
Entries == {Absent, Taken} \cup {Some(S) : S \in (SUBSET SubscriberIds) \ {{}}}

\* A call in progress: the local map of a retain or the iterator of a remove,
\* the ids it has yet to visit in ascending order, the callback it is in (0:
\* none).
Frames == [call : {"retain", "remove"}, key : Keys, ids : SUBSET SubscriberIds,
           todo : SUBSET SubscriberIds, calling : SubscriberIds \cup {0}]

SubscriberTypeOK ==
    /\ subscribers \in [Keys -> Entries]
    /\ next_id \in 1..(MaxIds + 1)
    /\ key \in [SubscriberIds -> Keys]
    /\ active \subseteq SubscriberIds
    /\ dropped \subseteq SubscriberIds
    /\ deferred \subseteq SubscriberIds
    /\ detached \subseteq SubscriberIds
    /\ stack \in Seq(Frames)
    /\ refused \subseteq SubscriberIds

Born == {i \in SubscriberIds : i < next_id}
TopCall == stack[Len(stack)]
CallsBelow == SubSeq(stack, 1, Len(stack) - 1)
ReplaceTop(frame) == [stack EXCEPT ![Len(stack)] = frame]
InCall(k) == \E d \in 1..Len(stack) : stack[d].key = k

\* Application code runs: nothing is in progress, or a callback is.
AppRuns == stack # <<>> => TopCall.calling # 0

\* The call on top comes to subscriber i next: a BTreeMap is in ascending order.
ComesTo(i) ==
    /\ stack # <<>> /\ TopCall.calling = 0
    /\ i \in TopCall.todo
    /\ \A j \in TopCall.todo : i <= j

-----------------------------------------------------------------------------
SubscriberInit ==
    /\ subscribers = [k \in Keys |-> Absent]
    /\ next_id = 1
    /\ key \in [SubscriberIds -> Keys]
    /\ active = {}
    /\ dropped = {}
    /\ deferred = {}
    /\ detached = {}
    /\ stack = <<>>
    /\ refused = {}

\* SubscriberSet::insert, followed at once by activate() or by defer(activate).
\* The key of each id is fixed in advance, by SubscriberInit.
Insert(now) ==
    LET i == next_id
        k == key[i]
    IN
    /\ AppRuns
    /\ i \in SubscriberIds
    /\ subscribers' = [subscribers EXCEPT ![k] = Some(@.ids \cup {i})]
    /\ next_id' = next_id + 1
    /\ active' = IF now THEN active \cup {i} ELSE active
    /\ deferred' = IF now THEN deferred ELSE deferred \cup {i}
    /\ UNCHANGED <<key, dropped, detached, stack, refused>>

\* The deferred activation is an effect: the flush loop runs it from outside
\* every retain.
Activate(i) ==
    /\ stack = <<>>
    /\ i \in deferred
    /\ active' = active \cup {i}
    /\ deferred' = deferred \ {i}
    /\ UNCHANGED <<subscribers, next_id, key, dropped, detached, stack, refused>>

\* Drop for Subscription, one that was not detached: the unsubscribe closure.
Unsubscribe(i) ==
    LET k == key[i]
        left == subscribers[k].ids \ {i}
    IN
    /\ AppRuns
    /\ i \in Born \ (dropped \cup detached)
    /\ dropped' = dropped \cup {i}
    /\ subscribers' = [subscribers EXCEPT ![k] =
                          IF @.slot # "some" THEN @
                          ELSE IF left = {} THEN Absent ELSE Some(left)]
    /\ UNCHANGED <<next_id, key, active, deferred, detached, stack, refused>>

\* Subscription::detach: the handle is gone and unsubscribe is not called.
Detach(i) ==
    /\ AppRuns
    /\ i \in Born \ (dropped \cup detached)
    /\ detached' = detached \cup {i}
    /\ UNCHANGED <<subscribers, next_id, key, active, dropped, deferred, stack,
                   refused>>

-----------------------------------------------------------------------------
\* retain up to its loop: take the map of k and leave None.  An absent key, or
\* one a retain further down has taken, ends the call.
Retain(k) ==
    /\ AppRuns
    /\ k \notin Quiet
    /\ Len(stack) < MaxDepth
    /\ subscribers[k].slot = "some"
    /\ subscribers' = [subscribers EXCEPT ![k] = Taken]
    /\ stack' = Append(stack, [call |-> "retain", key |-> k,
                               ids |-> subscribers[k].ids,
                               todo |-> subscribers[k].ids, calling |-> 0])
    /\ UNCHANGED <<next_id, key, active, dropped, deferred, detached, refused>>

\* Mutant of Visit: the test of `dropped` before the callback is left out.
VisitDropped(i) ==
    /\ ComesTo(i) /\ TopCall.call = "retain"
    /\ stack' = ReplaceTop([TopCall EXCEPT
                    !.todo = @ \ {i},
                    !.calling = IF i \in active THEN i ELSE 0])
    /\ UNCHANGED <<subscribers, next_id, key, active, dropped, deferred,
                   detached, refused>>

\* One turn of retain's loop up to the callback: an inactive subscriber is
\* kept without a call, a dropped one removed without a call.
Visit(i) ==
    /\ ComesTo(i) /\ TopCall.call = "retain"
    /\ stack' = ReplaceTop([TopCall EXCEPT
                    !.todo = @ \ {i},
                    !.calling = IF i \in active \ dropped THEN i ELSE 0,
                    !.ids = IF i \in active \cap dropped THEN @ \ {i} ELSE @])
    /\ UNCHANGED <<subscribers, next_id, key, active, dropped, deferred,
                   detached, refused>>

\* The callback of a retain returns; keep is its answer.
Return(keep) ==
    LET i == TopCall.calling
    IN
    /\ stack # <<>> /\ TopCall.call = "retain" /\ TopCall.calling # 0
    /\ stack' = ReplaceTop([TopCall EXCEPT
                    !.calling = 0,
                    !.ids = IF keep /\ i \notin dropped THEN @ ELSE @ \ {i}])
    /\ refused' = IF keep THEN refused ELSE refused \cup {i}
    /\ UNCHANGED <<subscribers, next_id, key, active, dropped, deferred,
                   detached>>

\* Mutant of FinishRetain: the survivors are put back over what callbacks inserted.
FinishRetainOverwrites ==
    /\ stack # <<>> /\ TopCall.call = "retain" /\ TopCall.calling = 0 /\ TopCall.todo = {}
    /\ subscribers' = [subscribers EXCEPT ![TopCall.key] =
                          IF TopCall.ids = {} THEN Absent ELSE Some(TopCall.ids)]
    /\ stack' = CallsBelow
    /\ UNCHANGED <<next_id, key, active, dropped, deferred, detached, refused>>

\* retain after its loop: merge what callbacks inserted, put the rest back.
FinishRetain ==
    LET both == TopCall.ids \cup subscribers[TopCall.key].ids
    IN
    /\ stack # <<>> /\ TopCall.call = "retain" /\ TopCall.calling = 0 /\ TopCall.todo = {}
    /\ subscribers' = [subscribers EXCEPT ![TopCall.key] =
                          IF both = {} THEN Absent ELSE Some(both)]
    /\ stack' = CallsBelow
    /\ UNCHANGED <<next_id, key, active, dropped, deferred, detached, refused>>

-----------------------------------------------------------------------------
\* remove, as release_dropped_entities and shutdown call it: from outside every
\* retain of the key.  The map moves into the iterator.
RemoveKey(k) ==
    /\ AppRuns
    /\ ~InCall(k)
    /\ Len(stack) < MaxDepth
    /\ subscribers' = [subscribers EXCEPT ![k] = Absent]
    /\ refused' = refused \cup subscribers[k].ids
    /\ stack' = IF k \in Quiet
                THEN Append(stack, [call |-> "remove", key |-> k,
                                    ids |-> subscribers[k].ids,
                                    todo |-> subscribers[k].ids, calling |-> 0])
                ELSE stack
    /\ UNCHANGED <<next_id, key, active, dropped, deferred, detached>>

\* The next item of remove's iterator: the filter looks at `active` only.
NextRemoved(i) ==
    /\ ComesTo(i) /\ TopCall.call = "remove"
    /\ stack' = ReplaceTop([TopCall EXCEPT
                    !.todo = @ \ {i},
                    !.calling = IF i \in active THEN i ELSE 0])
    /\ UNCHANGED <<subscribers, next_id, key, active, dropped, deferred,
                   detached, refused>>

\* The FnOnce of a removed subscriber returns.
ReturnRemoved ==
    /\ stack # <<>> /\ TopCall.call = "remove" /\ TopCall.calling # 0
    /\ stack' = ReplaceTop([TopCall EXCEPT !.calling = 0])
    /\ UNCHANGED <<subscribers, next_id, key, active, dropped, deferred,
                   detached, refused>>

\* The iterator is exhausted.
FinishRemove ==
    /\ stack # <<>> /\ TopCall.call = "remove" /\ TopCall.calling = 0 /\ TopCall.todo = {}
    /\ stack' = CallsBelow
    /\ UNCHANGED <<subscribers, next_id, key, active, dropped, deferred,
                   detached, refused>>

SubscriberNext ==
    \/ \E now \in BOOLEAN : Insert(now)
    \/ \E i \in SubscriberIds : Activate(i) \/ Unsubscribe(i) \/ Detach(i)
    \/ \E k \in Keys : Retain(k) \/ RemoveKey(k)
    \/ \E i \in SubscriberIds : Visit(i) \/ NextRemoved(i)
    \/ \E keep \in BOOLEAN : Return(keep)
    \/ FinishRetain
    \/ ReturnRemoved
    \/ FinishRemove

SubscriberSpec == SubscriberInit /\ [][SubscriberNext]_subscriberVars

-----------------------------------------------------------------------------
\* Where a subscriber is: in the map, or in the local map of a call.
Homes(i) ==
    {d \in 1..Len(stack) : stack[d].call = "retain" /\ i \in stack[d].ids}
        \cup {d \in {0} : i \in subscribers[key[i]].ids}

\* No subscriber is lost and none is doubled: one that nobody cancelled is in
\* exactly one place, the map or the local map of one retain, whatever the
\* callbacks inserted, dropped or emitted in between (insert during a retain,
\* the merge at its end, nested retains).
NeverLost ==
    \A i \in Born :
        /\ i \notin dropped \cup refused => Cardinality(Homes(i)) = 1
        /\ Cardinality(Homes(i)) <= 1

\* A key is marked as taken only while a retain of it is running: one left
\* taken would be silent for ever, for retain returns early on it.
NoStuckKey ==
    \A k \in Keys : subscribers[k].slot = "taken" => InCall(k)

\* Every subscription is where the next retain or remove will find it.
SubscribersInPlace == SubscriberTypeOK /\ NeverLost /\ NoStuckKey

\* What the tests of subscription.rs say of retain: a callback starts only for
\* a live subscription, even if it was dropped by an earlier callback of the
\* same retain or of one nested in it, and never while that callback is
\* already running.
RetainCallsLive ==
    [][\A d \in 1..Len(stack') :
          LET i == stack'[d].calling
          IN  /\ stack'[d].call = "retain" /\ i # 0
              /\ d > Len(stack) \/ stack[d].calling # i
              => /\ i \in active \ (dropped \cup refused)
                 /\ \A e \in 1..(d - 1) : stack'[e].calling # i]_subscriberVars

=============================================================================
