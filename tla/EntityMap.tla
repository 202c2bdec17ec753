------------------------------ MODULE EntityMap ------------------------------
(***************************************************************************)
(* Ownership of entities (crates/gpui/src/app/entity_map.rs).  The entity  *)
(* map lives on the main thread; the reference counts are shared, behind   *)
(* one RwLock, with every Entity handle, and handles are cloned, dropped   *)
(* and upgraded from weak ones on any thread.                              *)
(*                                                                         *)
(* A step is what runs under one acquisition of the lock, split where      *)
(* another thread can get in between: Drop holds the lock upgradable, so   *)
(* readers run between its fetch_sub and its push; upgrade holds it shared *)
(* while atomic_incr_if_not_zero goes round its compare-exchange loop.     *)
(* Keys of the slot map are versioned and not reused, so an id here stands *)
(* for one (slot, version) pair.  accessed_entities, which only drawing    *)
(* uses, is in ViewCache.                                                  *)
(***************************************************************************)
EXTENDS Naturals, Sequences, FiniteSets

CONSTANTS
    Ids,      \* EntityIds the slot map will hand out
    Handles,  \* places in memory that can hold a strong handle
    Threads,  \* the main thread and background threads
    NoId      \* the content of an empty place

ASSUME NoIdAssumption == NoId \notin Ids
ASSUME FiniteHandles == IsFiniteSet(Handles)

VARIABLES
    refs,      \* which entity the handle in each place refers to
    counts,    \* EntityRefCounts.counts: the atomic count of an occupied id
    occupied,  \* the keys of EntityRefCounts.counts
    dropped,   \* EntityRefCounts.dropped_entity_ids
    pushing,   \* entity whose last handle a thread dropped, not pushed yet
    cas,       \* a thread's pass through the loop of atomic_incr_if_not_zero
    created,   \* ids handed out so far
    entities,  \* the keys of EntityMap.entities
    slots,     \* places that hold a Slot, not yet inserted
    leases,    \* ids whose entity is on the stack, innermost update last
    released,  \* entities take_dropped has returned
    flushing,  \* the main thread waits in take_dropped for the exclusive lock
    alive      \* the App, which owns the Arc of the counts, exists

vars == <<refs, counts, occupied, dropped, pushing, cas, created, entities,
          slots, leases, released, flushing, alive>>

NotInLoop == [id |-> NoId, loaded |-> 0]

TypeOK ==
    /\ refs \in [Handles -> Ids \cup {NoId}]
    /\ counts \in [Ids -> Nat]
    /\ occupied \subseteq Ids
    /\ dropped \in Seq(Ids)
    /\ pushing \in [Threads -> Ids \cup {NoId}]
    /\ cas \in [Threads -> [id : Ids \cup {NoId}, loaded : Nat]]
    /\ created \subseteq Ids
    /\ entities \subseteq Ids
    /\ slots \subseteq Handles
    /\ leases \in Seq(Ids)
    /\ released \subseteq Ids
    /\ flushing \in BOOLEAN
    /\ alive \in BOOLEAN

\* The main thread runs App code: it is not waiting for the lock.
MainRuns == alive /\ ~flushing
Idle(t) == pushing[t] = NoId /\ cas[t] = NotInLoop
\* The RwLock: who holds it upgradable, who holds it shared across a step.
NoUpgrader == \A t \in Threads : pushing[t] = NoId
NoReader == \A t \in Threads : cas[t] = NotInLoop

InSeq(id, s) == \E k \in 1..Len(s) : s[k] = id
HandlesOf(id) == {h \in Handles : refs[h] = id}

\* Bound: places are finite here, memory is not.  A handle is made only when
\* every upgrade under way will still find a place for its own.
Room == Cardinality({h \in Handles : refs[h] = NoId})
            > Cardinality({t \in Threads : cas[t] # NotInLoop})

-----------------------------------------------------------------------------
Init ==
    /\ refs = [h \in Handles |-> NoId]
    /\ counts = [id \in Ids |-> 0]
    /\ occupied = {}
    /\ dropped = <<>>
    /\ pushing = [t \in Threads |-> NoId]
    /\ cas = [t \in Threads |-> NotInLoop]
    /\ created = {}
    /\ entities = {}
    /\ slots = {}
    /\ leases = <<>>
    /\ released = {}
    /\ flushing = FALSE
    /\ alive = TRUE

\* EntityMap::reserve, on the main thread: a new key with count 1, held by
\* the Slot in place h.
Reserve(h, id) ==
    /\ MainRuns
    /\ refs[h] = NoId /\ Room
    /\ id \notin created
    /\ NoReader /\ NoUpgrader
    /\ counts' = [counts EXCEPT ![id] = 1]
    /\ occupied' = occupied \cup {id}
    /\ created' = created \cup {id}
    /\ slots' = slots \cup {h}
    /\ refs' = [refs EXCEPT ![h] = id]
    /\ UNCHANGED <<dropped, pushing, cas, entities, leases, released,
                   flushing, alive>>

\* EntityMap::insert: the slot, moved in, is still a counted handle.
Insert(h) ==
    /\ MainRuns
    /\ h \in slots
    /\ entities' = entities \cup {refs[h]}
    /\ slots' = slots \ {h}
    /\ UNCHANGED <<refs, counts, occupied, dropped, pushing, cas, created,
                   leases, released, flushing, alive>>

\* EntityMap::lease: take the entity out of the map.  The handle may be gone
\* before the lease ends: GpuiBorrow::new drops the clone it leased with.
Lease(h) ==
    /\ MainRuns
    /\ refs[h] \in entities
    /\ entities' = entities \ {refs[h]}
    /\ leases' = Append(leases, refs[h])
    /\ UNCHANGED <<refs, counts, occupied, dropped, pushing, cas, created,
                   slots, released, flushing, alive>>

\* EntityMap::end_lease of the innermost lease.
EndLease ==
    /\ MainRuns
    /\ leases # <<>>
    /\ leases' = SubSeq(leases, 1, Len(leases) - 1)
    /\ entities' = entities \cup {leases[Len(leases)]}
    /\ UNCHANGED <<refs, counts, occupied, dropped, pushing, cas, created,
                   slots, released, flushing, alive>>

-----------------------------------------------------------------------------
(***************************************************************************)
(* Handles, on any thread.                                                 *)
(***************************************************************************)

\* Mutant of Clone: the increment is left out when the count is one, as if
\* the clone took over its original's reference.
CloneUncounted(t, h, new) ==
    /\ Idle(t) /\ ~flushing
    /\ refs[h] # NoId /\ refs[new] = NoId /\ Room
    /\ IF alive
       THEN /\ refs[h] \in occupied
            /\ counts' = [counts EXCEPT
                             ![refs[h]] = IF @ = 1 THEN 1 ELSE @ + 1]
       ELSE UNCHANGED counts
    /\ refs' = [refs EXCEPT ![new] = refs[h]]
    /\ UNCHANGED <<occupied, dropped, pushing, cas, created, entities,
                   slots, leases, released, flushing, alive>>

\* Clone for AnyEntity: fetch_add under a shared lock; without an App there
\* is nothing to count.
Clone(t, h, new) ==
    /\ Idle(t) /\ ~flushing
    /\ refs[h] # NoId /\ refs[new] = NoId /\ Room
    /\ IF alive
       THEN /\ refs[h] \in occupied
            /\ counts' = [counts EXCEPT ![refs[h]] = @ + 1]
       ELSE UNCHANGED counts
    /\ refs' = [refs EXCEPT ![new] = refs[h]]
    /\ UNCHANGED <<occupied, dropped, pushing, cas, created, entities,
                   slots, leases, released, flushing, alive>>

\* Mutant of DropSub: fetch_sub's result is taken for the new count, and the
\* handle before the last is thought to be the last.
DropSubOffByOne(t, h) ==
    /\ Idle(t) /\ ~flushing
    /\ refs[h] # NoId
    /\ refs' = [refs EXCEPT ![h] = NoId]
    /\ slots' = slots \ {h}
    /\ IF alive
       THEN /\ NoUpgrader
            /\ refs[h] \in occupied
            /\ counts' = [counts EXCEPT ![refs[h]] = @ - 1]
            /\ pushing' = IF counts[refs[h]] <= 2
                          THEN [pushing EXCEPT ![t] = refs[h]]
                          ELSE pushing
       ELSE UNCHANGED <<counts, pushing>>
    /\ UNCHANGED <<occupied, dropped, cas, created, entities, leases,
                   released, flushing, alive>>

\* Drop for AnyEntity up to its fetch_sub, under the upgradable lock; the
\* dropper of the last handle goes on to the push with the lock held.
DropSub(t, h) ==
    /\ Idle(t) /\ ~flushing
    /\ refs[h] # NoId
    /\ refs' = [refs EXCEPT ![h] = NoId]
    /\ slots' = slots \ {h}
    /\ IF alive
       THEN /\ NoUpgrader
            /\ refs[h] \in occupied
            /\ counts' = [counts EXCEPT ![refs[h]] = @ - 1]
            /\ pushing' = IF counts[refs[h]] = 1
                          THEN [pushing EXCEPT ![t] = refs[h]]
                          ELSE pushing
       ELSE UNCHANGED <<counts, pushing>>
    /\ UNCHANGED <<occupied, dropped, cas, created, entities, leases,
                   released, flushing, alive>>

\* ... upgrade to exclusive, which waits for the readers, then the push.
DropPush(t) ==
    /\ pushing[t] # NoId
    /\ NoReader
    /\ dropped' = Append(dropped, pushing[t])
    /\ pushing' = [pushing EXCEPT ![t] = NoId]
    /\ UNCHANGED <<refs, counts, occupied, cas, created, entities, slots,
                   leases, released, flushing, alive>>

\* AnyWeakEntity::upgrade of a weak handle to id, up to the first load of
\* atomic_incr_if_not_zero; a missing key or a count of zero is None.
UpgradeLoad(t, id) ==
    /\ alive
    /\ Idle(t) /\ ~flushing
    /\ id \in occupied /\ counts[id] # 0 /\ Room
    /\ cas' = [cas EXCEPT ![t] = [id |-> id, loaded |-> counts[id]]]
    /\ UNCHANGED <<refs, counts, occupied, dropped, pushing, created, entities,
                   slots, leases, released, flushing, alive>>

\* Mutant of UpgradeCas: the loop stores loaded + 1 without comparing.
UpgradeStore(t, new) ==
    /\ cas[t] # NotInLoop
    /\ refs[new] = NoId
    /\ counts' = [counts EXCEPT ![cas[t].id] = cas[t].loaded + 1]
    /\ refs' = [refs EXCEPT ![new] = cas[t].id]
    /\ cas' = [cas EXCEPT ![t] = NotInLoop]
    /\ UNCHANGED <<occupied, dropped, pushing, created, entities, slots,
                   leases, released, flushing, alive>>

\* compare_exchange_weak succeeds: a new strong handle in place new.
UpgradeCas(t, new) ==
    /\ cas[t] # NotInLoop
    /\ counts[cas[t].id] = cas[t].loaded
    /\ refs[new] = NoId
    /\ counts' = [counts EXCEPT ![cas[t].id] = @ + 1]
    /\ refs' = [refs EXCEPT ![new] = cas[t].id]
    /\ cas' = [cas EXCEPT ![t] = NotInLoop]
    /\ UNCHANGED <<occupied, dropped, pushing, created, entities, slots,
                   leases, released, flushing, alive>>

\* It fails and reports the count it saw: go round again, or give up at zero.
UpgradeRetry(t) ==
    /\ cas[t] # NotInLoop
    /\ counts[cas[t].id] # cas[t].loaded
    /\ cas' = [cas EXCEPT ![t] = IF counts[cas[t].id] = 0
                                 THEN NotInLoop
                                 ELSE [id |-> cas[t].id,
                                       loaded |-> counts[cas[t].id]]]
    /\ UNCHANGED <<refs, counts, occupied, dropped, pushing, created, entities,
                   slots, leases, released, flushing, alive>>

-----------------------------------------------------------------------------
\* Mutant of FlushLock: every update flushes, not only the outermost.
FlushLockNested ==
    /\ MainRuns
    /\ dropped # <<>>
    /\ flushing' = TRUE
    /\ UNCHANGED <<refs, counts, occupied, dropped, pushing, cas, created,
                   entities, slots, leases, released, alive>>

\* App::finish_update of the outermost update, when every lease has ended,
\* comes to take_dropped and asks for the lock; parking_lot lets no new reader
\* in from here on.
FlushLock ==
    /\ MainRuns
    /\ leases = <<>>
    /\ dropped # <<>>
    /\ flushing' = TRUE
    /\ UNCHANGED <<refs, counts, occupied, dropped, pushing, cas, created,
                   entities, slots, leases, released, alive>>

\* Mutant of TakeDropped: an entity that was never inserted ends the drain,
\* as if the `?` of filter_map left take_dropped.
TakeDroppedStopsAtReserved ==
    /\ flushing
    /\ NoReader /\ NoUpgrader
    /\ IF \E k \in 1..Len(dropped) : dropped[k] \notin entities
       THEN UNCHANGED <<occupied, entities, released, dropped>>
       ELSE /\ occupied' = {id \in occupied : ~InSeq(id, dropped)}
            /\ entities' = {id \in entities : ~InSeq(id, dropped)}
            /\ released' = released \cup {id \in entities : InSeq(id, dropped)}
            /\ dropped' = <<>>
    /\ flushing' = FALSE
    /\ UNCHANGED <<refs, counts, pushing, cas, created, slots, leases, alive>>

\* EntityMap::take_dropped once the main thread has the lock exclusive: the
\* counts and the entities of the dropped ids go; an id that was reserved and
\* never inserted has no entity to hand out.
TakeDropped ==
    /\ flushing
    /\ NoReader /\ NoUpgrader
    /\ occupied' = {id \in occupied : ~InSeq(id, dropped)}
    /\ entities' = {id \in entities : ~InSeq(id, dropped)}
    /\ released' = released \cup {id \in entities : InSeq(id, dropped)}
    /\ dropped' = <<>>
    /\ flushing' = FALSE
    /\ UNCHANGED <<refs, counts, pushing, cas, created, slots, leases, alive>>

\* The App is dropped, and the map with it; handles may outlive it, and a
\* thread inside an operation finishes it on its own Arc of the counts.
DropApp ==
    /\ MainRuns
    /\ leases = <<>>
    /\ alive' = FALSE
    /\ UNCHANGED <<refs, counts, occupied, dropped, pushing, cas, created,
                   entities, slots, leases, released, flushing>>

MainStep ==
    \/ \E h \in Handles : Insert(h) \/ Lease(h)
    \/ \E h \in Handles, id \in Ids : Reserve(h, id)
    \/ EndLease
    \/ FlushLock
    \/ TakeDropped
    \/ DropApp

ThreadStep(t) ==
    \/ \E h, new \in Handles : Clone(t, h, new)
    \/ \E h \in Handles : DropSub(t, h) \/ UpgradeCas(t, h)
    \/ \E id \in Ids : UpgradeLoad(t, id)
    \/ DropPush(t)
    \/ UpgradeRetry(t)

Next == MainStep \/ \E t \in Threads : ThreadStep(t)

Spec == Init /\ [][Next]_vars

\* Every thread runs; parking_lot keeps new readers out once a writer waits,
\* so a push or a take_dropped that is possible again and again happens; the
\* outermost update ends, and the application goes on flushing.
Fairness ==
    /\ \A t \in Threads :
          /\ SF_vars(DropPush(t))
          /\ WF_vars(UpgradeRetry(t) \/ \E h \in Handles : UpgradeCas(t, h))
    /\ SF_vars(EndLease /\ Len(leases) = 1)
    /\ WF_vars(EndLease)
    /\ SF_vars(FlushLock)
    /\ WF_vars(TakeDropped)

FairSpec == Spec /\ Fairness

-----------------------------------------------------------------------------
\* The count of a key is the number of strong handles to it, so a handle is
\* never left with a key that is gone: neither `expect` nor `assert_ne` in
\* Clone and Drop ("detected over-release") can fire.
CountIsHandles ==
    alive => \A id \in Ids :
        /\ id \in occupied => counts[id] = Cardinality(HandlesOf(id))
        /\ HandlesOf(id) # {} => id \in occupied

\* What take_dropped relies on: an id is queued for release once, its key is
\* still there (the unwrap) and nobody refers to it (the debug_assert), however
\* drops and upgrades of the last handles interleaved.
DroppedAreDead ==
    alive => \A k \in 1..Len(dropped) :
        /\ dropped[k] \in occupied
        /\ counts[dropped[k]] = 0
        /\ \A l \in 1..Len(dropped) : dropped[k] = dropped[l] => k = l

\* No entity outlives its key: what is in the map or on the stack has a count,
\* and an entity is never in both places.
NoZombie ==
    alive => /\ entities \subseteq occupied
             /\ \A k \in 1..Len(leases) :
                    leases[k] \in occupied /\ leases[k] \notin entities

\* Once its last strong handle is gone an entity is never referred to again:
\* a weak handle that raced the drop does not bring it back.
NoResurrection ==
    [][\A id \in created :
          alive /\ HandlesOf(id) = {} => HandlesOf(id)' = {}]_vars

\* take_dropped hands out each entity at most once and only while nobody can
\* reach it.
ReleasedOnce ==
    [][\A id \in Ids :
          id \in entities \ entities' /\ ~InSeq(id, leases') =>
              /\ HandlesOf(id) = {}
              /\ id \notin released /\ id \in released']_vars

\* An entity nobody refers to any more is released in the end, and once: the
\* id always reaches dropped_entity_ids, whichever thread dropped the last
\* handle.
UnreferencedIsReleased ==
    /\ ReleasedOnce
    /\ \A id \in Ids :
        (id \in occupied /\ HandlesOf(id) = {}) ~> (id \notin occupied \/ ~alive)

=============================================================================
