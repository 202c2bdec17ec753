-------------------------- MODULE EntityMap_proofs --------------------------
(***************************************************************************)
(* Proofs about EntityMap, for any number of threads, handles and ids.     *)
(*                                                                         *)
(* DroppedAreDead is not inductive alone: between the fetch_sub to zero    *)
(* and the push the id is in no list, and a thread that read the count     *)
(* before the fetch_sub is still in its compare-exchange loop.  PushIsDead *)
(* covers the first, CasIsOccupied the second (the loop holds the lock     *)
(* shared, so the key cannot go while it runs), and the exact count says   *)
(* that a count of zero stays zero.                                        *)
(***************************************************************************)
EXTENDS EntityMap, FiniteSetTheorems, TLAPS

\* Only created ids are occupied or referred to, and a Slot is a handle.
CreatedFirst ==
    /\ occupied \subseteq created
    /\ \A h \in Handles : refs[h] # NoId => refs[h] \in created
    /\ \A h \in slots : refs[h] # NoId

\* The dropper of a last handle owns the one queueing of its id.
PushIsDead ==
    /\ alive => \A t \in Threads : pushing[t] # NoId =>
          /\ pushing[t] \in occupied
          /\ counts[pushing[t]] = 0
          /\ ~InSeq(pushing[t], dropped)
    /\ alive => \A t, u \in Threads :
          pushing[t] # NoId /\ pushing[u] # NoId => t = u

\* A thread in the loop of atomic_incr_if_not_zero works on a key that is
\* there and compares with a count that is not zero.
CasIsOccupied ==
    \A t \in Threads : cas[t] # NotInLoop =>
        /\ cas[t].id \in created
        /\ cas[t].loaded # 0
        /\ alive => cas[t].id \in occupied

Inv == /\ TypeOK
       /\ CreatedFirst
       /\ CountIsHandles
       /\ PushIsDead
       /\ DroppedAreDead
       /\ CasIsOccupied

-----------------------------------------------------------------------------
\* Handles of an id form a finite set.
LEMMA FiniteHandlesOf ==
    ASSUME NEW S \in SUBSET Handles
    PROVE  IsFiniteSet(S) /\ Cardinality(S) \in Nat
BY FiniteHandles, FS_Subset, FS_CardinalityType

\* Filling the empty place new with a handle to id adds one handle to id and
\* none to any other.
LEMMA FillPlace ==
    ASSUME TypeOK, NEW new \in Handles, NEW id \in Ids, refs[new] = NoId,
           refs' = [refs EXCEPT ![new] = id]
    PROVE  /\ HandlesOf(id)' # {}
           /\ Cardinality(HandlesOf(id)') = Cardinality(HandlesOf(id)) + 1
           /\ \A other \in Ids \ {id} : HandlesOf(other)' = HandlesOf(other)
<1>1. /\ HandlesOf(id)' = HandlesOf(id) \cup {new}
      /\ new \notin HandlesOf(id)
      /\ \A other \in Ids \ {id} : HandlesOf(other)' = HandlesOf(other)
  BY NoIdAssumption DEF HandlesOf, TypeOK
<1>2. HandlesOf(id) \in SUBSET Handles
  BY DEF HandlesOf
<1>3. IsFiniteSet(HandlesOf(id))
  BY <1>2, FiniteHandlesOf
<1>4. Cardinality(HandlesOf(id) \cup {new}) = Cardinality(HandlesOf(id)) + 1
  BY <1>1, <1>3, FS_AddElement
<1> QED BY <1>1, <1>4

\* Emptying the place h takes one handle from its id and none from another.
LEMMA EmptyPlace ==
    ASSUME TypeOK, NEW h \in Handles, NEW id \in Ids, refs[h] = id,
           refs' = [refs EXCEPT ![h] = NoId]
    PROVE  /\ Cardinality(HandlesOf(id)') = Cardinality(HandlesOf(id)) - 1
           /\ Cardinality(HandlesOf(id)') \in Nat
           /\ HandlesOf(id)' \subseteq HandlesOf(id)
           /\ \A other \in Ids \ {id} : HandlesOf(other)' = HandlesOf(other)
<1>1. /\ HandlesOf(id)' = HandlesOf(id) \ {h}
      /\ h \in HandlesOf(id)
      /\ \A other \in Ids \ {id} : HandlesOf(other)' = HandlesOf(other)
  BY NoIdAssumption DEF HandlesOf, TypeOK
<1>2. /\ HandlesOf(id) \in SUBSET Handles
      /\ HandlesOf(id) \ {h} \in SUBSET Handles
  BY DEF HandlesOf
<1>3. IsFiniteSet(HandlesOf(id)) /\ Cardinality(HandlesOf(id) \ {h}) \in Nat
  BY <1>2, FiniteHandlesOf
<1>4. Cardinality(HandlesOf(id) \ {h}) = Cardinality(HandlesOf(id)) - 1
  BY <1>1, <1>3, FS_RemoveElement
<1> QED BY <1>1, <1>3, <1>4

\* An id with a handle has a positive count, one without a count of zero.
LEMMA CountSign ==
    ASSUME TypeOK, CountIsHandles, alive, NEW id \in occupied
    PROVE  counts[id] = 0 <=> HandlesOf(id) = {}
<1>1. HandlesOf(id) \in SUBSET Handles /\ id \in Ids
  BY DEF HandlesOf, TypeOK
<1>2. IsFiniteSet(HandlesOf(id))
  BY <1>1, FiniteHandlesOf
<1> QED BY <1>1, <1>2, FS_EmptySet DEF CountIsHandles

-----------------------------------------------------------------------------
\* Steps that touch neither the counts nor the handles keep the invariant.
LEMMA CoreUnchanged ==
    ASSUME Inv, TypeOK', alive' => alive, slots' \subseteq slots,
           UNCHANGED <<refs, counts, occupied, dropped, pushing, cas, created>>
    PROVE  Inv'
<1>1. CreatedFirst'
  BY DEF Inv, CreatedFirst, TypeOK
<1>2. CountIsHandles'
  BY DEF Inv, CountIsHandles, HandlesOf
<1>3. PushIsDead'
  BY DEF Inv, PushIsDead, InSeq
<1>4. DroppedAreDead'
  BY DEF Inv, DroppedAreDead
<1>5. CasIsOccupied'
  BY DEF Inv, CasIsOccupied
<1> QED BY <1>1, <1>2, <1>3, <1>4, <1>5 DEF Inv

LEMMA ReserveKeepsInv ==
    ASSUME Inv, NEW h \in Handles, NEW id \in Ids, Reserve(h, id)
    PROVE  Inv'
<1> USE DEF Inv
<1>1. /\ alive /\ alive' = alive
      /\ refs[h] = NoId /\ id \notin created
      /\ refs' = [refs EXCEPT ![h] = id]
      /\ counts' = [counts EXCEPT ![id] = 1]
      /\ occupied' = occupied \cup {id}
      /\ created' = created \cup {id}
      /\ UNCHANGED <<dropped, pushing, cas>>
  BY DEF Reserve, MainRuns
<1>2. TypeOK'
  BY <1>1 DEF Reserve, TypeOK
<1>3. CreatedFirst'
  BY <1>1, NoIdAssumption DEF Reserve, CreatedFirst, TypeOK
<1>4. id \notin occupied /\ HandlesOf(id) = {}
  BY <1>1, NoIdAssumption DEF CreatedFirst, HandlesOf
<1>5. /\ HandlesOf(id)' # {}
      /\ Cardinality(HandlesOf(id)') = 1
      /\ \A other \in Ids \ {id} : HandlesOf(other)' = HandlesOf(other)
  <2>1. Cardinality(HandlesOf(id)) = 0
    BY <1>4, FS_EmptySet
  <2>2. /\ HandlesOf(id)' # {}
        /\ Cardinality(HandlesOf(id)') = Cardinality(HandlesOf(id)) + 1
        /\ \A other \in Ids \ {id} : HandlesOf(other)' = HandlesOf(other)
    BY <1>1, FillPlace
  <2> QED BY <2>1, <2>2
<1>6. CountIsHandles'
  BY <1>1, <1>4, <1>5 DEF CountIsHandles, TypeOK
<1>7. PushIsDead'
  BY <1>1, <1>4 DEF PushIsDead, TypeOK, InSeq
<1>8. DroppedAreDead'
  BY <1>1, <1>4 DEF DroppedAreDead, TypeOK
<1>9. CasIsOccupied'
  BY <1>1 DEF CasIsOccupied
<1> QED BY <1>2, <1>3, <1>6, <1>7, <1>8, <1>9

LEMMA CloneKeepsInv ==
    ASSUME Inv, NEW t \in Threads, NEW h \in Handles, NEW new \in Handles,
           Clone(t, h, new)
    PROVE  Inv'
<1> USE DEF Inv
<1>0. PICK id \in Ids : refs[h] = id
  BY DEF Clone, TypeOK
<1>1. /\ refs[h] # NoId /\ refs[new] = NoId /\ id \in Ids
      /\ refs' = [refs EXCEPT ![new] = id]
      /\ UNCHANGED <<occupied, dropped, pushing, cas, created, alive>>
  BY <1>0 DEF Clone, TypeOK
<1>2. TypeOK'
  <2>1. counts' \in [Ids -> Nat]
    <3>1. counts \in [Ids -> Nat]
      BY DEF TypeOK
    <3>2. counts' = counts \/ counts' = [counts EXCEPT ![id] = @ + 1]
      BY <1>0 DEF Clone
    <3> QED BY <3>1, <3>2
  <2>2. refs' \in [Handles -> Ids \cup {NoId}]
    BY <1>1 DEF TypeOK
  <2> QED BY <1>1, <2>1, <2>2 DEF Clone, TypeOK
<1>3. CreatedFirst'
  BY <1>0, <1>1, NoIdAssumption DEF Clone, CreatedFirst, TypeOK
<1>4. CASE ~alive
  <2>1. ~alive' /\ UNCHANGED <<cas, created>>
    BY <1>1, <1>4
  <2> QED
    BY <1>2, <1>3, <2>1 DEF CountIsHandles, PushIsDead, DroppedAreDead,
                            CasIsOccupied
<1>5. CASE alive
  <2>1. id \in occupied /\ counts' = [counts EXCEPT ![id] = @ + 1]
    BY <1>0, <1>5 DEF Clone
  <2>2. HandlesOf(id) # {}
    BY <1>0 DEF HandlesOf
  <2>3. counts[id] # 0
    BY <1>5, <2>1, <2>2, CountSign
  <2>4. /\ HandlesOf(id)' # {}
        /\ Cardinality(HandlesOf(id)') = Cardinality(HandlesOf(id)) + 1
        /\ \A other \in Ids \ {id} : HandlesOf(other)' = HandlesOf(other)
    BY <1>1, FillPlace
  <2>5. CountIsHandles'
    BY <1>1, <1>5, <2>1, <2>4 DEF CountIsHandles, TypeOK
  <2>6. PushIsDead'
    BY <1>1, <1>5, <2>1, <2>3 DEF PushIsDead, TypeOK, InSeq
  <2>7. DroppedAreDead'
    BY <1>1, <1>5, <2>1, <2>3 DEF DroppedAreDead, TypeOK
  <2>8. CasIsOccupied'
    BY <1>1 DEF CasIsOccupied
  <2> QED BY <1>2, <1>3, <2>5, <2>6, <2>7, <2>8
<1> QED BY <1>4, <1>5

LEMMA DropSubKeepsInv ==
    ASSUME Inv, NEW t \in Threads, NEW h \in Handles, DropSub(t, h)
    PROVE  Inv'
<1> USE DEF Inv
<1>0. PICK id \in Ids : refs[h] = id
  BY DEF DropSub, TypeOK
<1>1. /\ refs[h] # NoId /\ id \in Ids
      /\ refs' = [refs EXCEPT ![h] = NoId]
      /\ UNCHANGED <<occupied, dropped, cas, created, entities, leases,
                     released, flushing, alive>>
      /\ slots' \subseteq Handles
  BY <1>0 DEF DropSub, TypeOK
<1>2. CreatedFirst'
  BY <1>1 DEF DropSub, CreatedFirst, TypeOK
<1>3. CASE ~alive
  <2>1. ~alive' /\ UNCHANGED <<counts, pushing, cas, created>>
    BY <1>1, <1>3 DEF DropSub
  <2>2. TypeOK'
    BY <1>1, <2>1 DEF TypeOK
  <2> QED
    BY <1>2, <2>1, <2>2 DEF CountIsHandles, PushIsDead, DroppedAreDead,
                            CasIsOccupied
<1>4. CASE alive
  <2>1. /\ NoUpgrader /\ id \in occupied
        /\ counts' = [counts EXCEPT ![id] = @ - 1]
        /\ pushing' = IF counts[id] = 1
                      THEN [pushing EXCEPT ![t] = id]
                      ELSE pushing
    BY <1>0, <1>4 DEF DropSub
  <2>2. /\ Cardinality(HandlesOf(id)') = Cardinality(HandlesOf(id)) - 1
        /\ Cardinality(HandlesOf(id)') \in Nat
        /\ HandlesOf(id)' \subseteq HandlesOf(id)
        /\ \A other \in Ids \ {id} : HandlesOf(other)' = HandlesOf(other)
    BY <1>0, <1>1, EmptyPlace
  <2>3. counts[id] = Cardinality(HandlesOf(id)) /\ counts[id] \in Nat
    BY <1>4, <2>1 DEF CountIsHandles, TypeOK
  <2>4. counts'[id] \in Nat /\ counts'[id] = Cardinality(HandlesOf(id)')
    BY <2>1, <2>2, <2>3 DEF TypeOK
  <2>5. TypeOK'
    BY <1>1, <2>1, <2>4 DEF TypeOK
  <2>6. CountIsHandles'
    BY <1>1, <1>4, <2>1, <2>2, <2>4 DEF CountIsHandles, TypeOK
  <2>7. HandlesOf(id) # {}
    BY <1>0 DEF HandlesOf
  <2>8. counts[id] # 0
    BY <1>4, <2>1, <2>7, CountSign
  <2>9. ~InSeq(id, dropped)
    BY <1>4, <2>8 DEF DroppedAreDead, InSeq
  <2>10. PushIsDead'
    <3>1. CASE counts[id] = 1
      <4>1. pushing' = [pushing EXCEPT ![t] = id] /\ counts'[id] = 0
        BY <2>1, <3>1 DEF TypeOK
      <4>2. \A u \in Threads : pushing'[u] # NoId => u = t
        BY <2>1, <4>1 DEF NoUpgrader, TypeOK
      <4>3. pushing'[t] = id
        BY <4>1 DEF TypeOK
      <4> QED BY <1>1, <2>1, <2>9, <4>1, <4>2, <4>3 DEF PushIsDead, InSeq
    <3>2. CASE counts[id] # 1
      BY <1>1, <2>1, <3>2 DEF PushIsDead, NoUpgrader
    <3> QED BY <3>1, <3>2
  <2>11. DroppedAreDead'
    BY <1>1, <1>4, <2>1, <2>9 DEF DroppedAreDead, TypeOK, InSeq
  <2>12. CasIsOccupied'
    BY <1>1 DEF CasIsOccupied
  <2> QED BY <1>2, <2>5, <2>6, <2>10, <2>11, <2>12
<1> QED BY <1>3, <1>4

LEMMA DropPushKeepsInv ==
    ASSUME Inv, NEW t \in Threads, DropPush(t)
    PROVE  Inv'
<1> USE DEF Inv
<1>0. PICK id \in Ids : pushing[t] = id
  BY DEF DropPush, TypeOK
<1>1. /\ id \in Ids /\ id # NoId
      /\ dropped' = Append(dropped, id)
      /\ pushing' = [pushing EXCEPT ![t] = NoId]
      /\ UNCHANGED <<refs, counts, occupied, cas, created, entities, slots,
                     leases, released, flushing, alive>>
  BY <1>0, NoIdAssumption DEF DropPush, TypeOK
<1>2. dropped \in Seq(Ids)
  BY DEF TypeOK
<1>3. TypeOK'
  BY <1>1 DEF TypeOK
<1>4. /\ Len(dropped') = Len(dropped) + 1
      /\ \A k \in 1..Len(dropped) : dropped'[k] = dropped[k]
      /\ dropped'[Len(dropped) + 1] = id
  BY <1>1, <1>2
<1>5. CreatedFirst' /\ CountIsHandles' /\ CasIsOccupied'
  BY <1>1 DEF CreatedFirst, CountIsHandles, CasIsOccupied, HandlesOf
<1>6. CASE ~alive
  BY <1>1, <1>3, <1>5, <1>6 DEF PushIsDead, DroppedAreDead
<1>7. CASE alive
  <2>1. id \in occupied /\ counts[id] = 0 /\ ~InSeq(id, dropped)
    BY <1>0, <1>1, <1>7 DEF PushIsDead
  <2>2. DroppedAreDead'
    <3>1. SUFFICES ASSUME NEW k \in 1..Len(dropped')
                   PROVE  /\ dropped'[k] \in occupied
                          /\ counts[dropped'[k]] = 0
                          /\ \A l \in 1..Len(dropped') :
                                dropped'[k] = dropped'[l] => k = l
      BY <1>1 DEF DroppedAreDead
    <3>2. Len(dropped) \in Nat
      BY <1>2
    <3>3. \A l \in 1..Len(dropped') :
             l \in 1..Len(dropped) \/ l = Len(dropped) + 1
      BY <1>4, <3>2
    <3>4. \A l \in 1..Len(dropped) : dropped[l] # id
      BY <2>1 DEF InSeq
    <3>5. CASE k = Len(dropped) + 1
      BY <1>4, <2>1, <3>3, <3>4, <3>5
    <3>6. CASE k \in 1..Len(dropped)
      BY <1>4, <1>7, <3>3, <3>4, <3>6 DEF DroppedAreDead
    <3> QED BY <3>3, <3>5, <3>6
  <2>3. \A u \in Threads : pushing'[u] = NoId
    BY <1>0, <1>1, <1>7 DEF PushIsDead, TypeOK
  <2>4. PushIsDead'
    BY <2>3 DEF PushIsDead
  <2> QED BY <1>3, <1>5, <2>2, <2>4
<1> QED BY <1>6, <1>7

LEMMA UpgradeLoadKeepsInv ==
    ASSUME Inv, NEW t \in Threads, NEW id \in Ids, UpgradeLoad(t, id)
    PROVE  Inv'
<1> USE DEF Inv
<1>1. /\ alive /\ id \in occupied /\ counts[id] # 0 /\ counts[id] \in Nat
      /\ cas' = [cas EXCEPT ![t] = [id |-> id, loaded |-> counts[id]]]
      /\ UNCHANGED <<refs, counts, occupied, dropped, pushing, created, slots,
                     alive>>
  BY DEF UpgradeLoad, TypeOK
<1>2. TypeOK'
  BY <1>1 DEF UpgradeLoad, TypeOK
<1>3. CasIsOccupied'
  BY <1>1 DEF CasIsOccupied, TypeOK, CreatedFirst
<1>4. CreatedFirst' /\ CountIsHandles'
  <2>1. CreatedFirst'
    BY <1>1 DEF CreatedFirst
  <2>2. CountIsHandles'
    BY <1>1 DEF CountIsHandles, HandlesOf
  <2> QED BY <2>1, <2>2
<1>5. PushIsDead' /\ DroppedAreDead'
  BY <1>1 DEF PushIsDead, DroppedAreDead, InSeq
<1> QED BY <1>2, <1>3, <1>4, <1>5

LEMMA UpgradeRetryKeepsInv ==
    ASSUME Inv, NEW t \in Threads, UpgradeRetry(t)
    PROVE  Inv'
<1> USE DEF Inv
<1>1. PICK id \in Ids : cas[t].id = id /\ cas[t] # NotInLoop
  BY DEF UpgradeRetry, CasIsOccupied, TypeOK
<1>2. /\ counts[id] \in Nat
      /\ UNCHANGED <<refs, counts, occupied, dropped, pushing, created, slots,
                     alive>>
  BY DEF UpgradeRetry, TypeOK
<1>3. /\ cas[t] \in [id : Ids \cup {NoId}, loaded : Nat]
      /\ alive => id \in occupied
  BY <1>1 DEF TypeOK, CasIsOccupied
<1>4. cas' = [cas EXCEPT ![t] = IF counts[id] = 0
                                THEN NotInLoop
                                ELSE [id |-> id, loaded |-> counts[id]]]
  BY <1>1 DEF UpgradeRetry
<1>5. /\ cas'[t] \in [id : Ids \cup {NoId}, loaded : Nat]
      /\ cas'[t] # NotInLoop => cas'[t].id = id /\ cas'[t].loaded # 0
      /\ \A u \in Threads \ {t} : cas'[u] = cas[u]
  BY <1>1, <1>2, <1>3, <1>4 DEF TypeOK, NotInLoop
<1>6. cas' \in [Threads -> [id : Ids \cup {NoId}, loaded : Nat]]
  BY <1>4, <1>5 DEF TypeOK
<1>7. TypeOK'
  BY <1>6 DEF UpgradeRetry, TypeOK
<1>8. CasIsOccupied'
  BY <1>1, <1>2, <1>3, <1>5 DEF CasIsOccupied
<1>9. CreatedFirst' /\ CountIsHandles'
  <2>1. CreatedFirst'
    BY <1>2 DEF CreatedFirst
  <2>2. CountIsHandles'
    BY <1>2 DEF CountIsHandles, HandlesOf
  <2> QED BY <2>1, <2>2
<1>10. PushIsDead' /\ DroppedAreDead'
  BY <1>2 DEF PushIsDead, DroppedAreDead, InSeq
<1> QED BY <1>7, <1>8, <1>9, <1>10

LEMMA UpgradeCasKeepsInv ==
    ASSUME Inv, NEW t \in Threads, NEW new \in Handles, UpgradeCas(t, new)
    PROVE  Inv'
<1> USE DEF Inv
<1>1. PICK id \in Ids : cas[t].id = id /\ cas[t] # NotInLoop
  BY DEF UpgradeCas, CasIsOccupied, TypeOK
<1>2. /\ refs[new] = NoId
      /\ refs' = [refs EXCEPT ![new] = id]
      /\ counts' = [counts EXCEPT ![id] = @ + 1]
      /\ cas' = [cas EXCEPT ![t] = NotInLoop]
      /\ UNCHANGED <<occupied, dropped, pushing, created, alive>>
      /\ counts[id] # 0 /\ counts[id] \in Nat
  BY <1>1 DEF UpgradeCas, CasIsOccupied, TypeOK
<1>3. alive => id \in occupied
  BY <1>1 DEF CasIsOccupied
<1>4. TypeOK'
  <2>1. counts' \in [Ids -> Nat]
    BY <1>2 DEF TypeOK
  <2>2. refs' \in [Handles -> Ids \cup {NoId}]
    BY <1>2 DEF TypeOK
  <2>3. cas' \in [Threads -> [id : Ids \cup {NoId}, loaded : Nat]]
    BY <1>2 DEF TypeOK, NotInLoop
  <2> QED BY <2>1, <2>2, <2>3 DEF UpgradeCas, TypeOK
<1>5. CasIsOccupied'
  BY <1>2 DEF CasIsOccupied, TypeOK
<1>6. CreatedFirst'
  <2>1. id \in created
    BY <1>1 DEF CasIsOccupied
  <2> QED
    BY <1>2, <2>1, NoIdAssumption DEF UpgradeCas, CreatedFirst, TypeOK
<1>7. CASE ~alive
  <2> QED
    BY <1>2, <1>4, <1>5, <1>7, <1>6
       DEF CountIsHandles, PushIsDead, DroppedAreDead
<1>8. CASE alive
  <2>2. /\ HandlesOf(id)' # {}
        /\ Cardinality(HandlesOf(id)') = Cardinality(HandlesOf(id)) + 1
        /\ \A other \in Ids \ {id} : HandlesOf(other)' = HandlesOf(other)
    BY <1>2, FillPlace
  <2>3. CountIsHandles'
    BY <1>2, <1>3, <1>8, <2>2 DEF CountIsHandles, TypeOK
  <2>4. PushIsDead'
    BY <1>2, <1>8 DEF PushIsDead, TypeOK, InSeq
  <2>5. DroppedAreDead'
    BY <1>2, <1>8 DEF DroppedAreDead, TypeOK
  <2> QED BY <1>4, <1>5, <1>6, <2>3, <2>4, <2>5
<1> QED BY <1>7, <1>8

LEMMA TakeDroppedKeepsInv ==
    ASSUME Inv, TakeDropped
    PROVE  Inv'
<1> USE DEF Inv
<1>1. /\ NoReader /\ NoUpgrader
      /\ occupied' = {id \in occupied : ~InSeq(id, dropped)}
      /\ dropped' = <<>>
      /\ UNCHANGED <<refs, counts, pushing, cas, created, alive>>
  BY DEF TakeDropped
<1>2. TypeOK'
  <2>1. dropped' \in Seq(Ids)
    BY <1>1
  <2>2. /\ occupied' \subseteq Ids
        /\ entities' \subseteq Ids /\ released' \subseteq Ids
    BY DEF TakeDropped, TypeOK
  <2> QED BY <1>1, <2>1, <2>2 DEF TakeDropped, TypeOK
<1>3. CreatedFirst'
  BY <1>1 DEF TakeDropped, CreatedFirst
<1>4. CountIsHandles'
  <2>1. SUFFICES ASSUME alive, NEW id \in Ids, HandlesOf(id) # {}
                 PROVE  id \in occupied'
    BY <1>1 DEF CountIsHandles, HandlesOf
  <2>2. id \in occupied
    BY <2>1 DEF CountIsHandles
  <2>3. counts[id] # 0
    BY <2>1, <2>2, CountSign
  <2>4. ~InSeq(id, dropped)
    BY <2>1, <2>3 DEF DroppedAreDead, InSeq
  <2> QED BY <1>1, <2>2, <2>4
<1>5. PushIsDead'
  BY <1>1 DEF PushIsDead, NoUpgrader
<1>6. DroppedAreDead'
  BY <1>1 DEF DroppedAreDead
<1>7. CasIsOccupied'
  BY <1>1 DEF CasIsOccupied, NoReader
<1> QED BY <1>2, <1>3, <1>4, <1>5, <1>6, <1>7

-----------------------------------------------------------------------------
LEMMA InitInv == Init => Inv
<1> SUFFICES ASSUME Init PROVE Inv
  OBVIOUS
<1>1. TypeOK
  <2>1. cas \in [Threads -> [id : Ids \cup {NoId}, loaded : Nat]]
    BY DEF Init, NotInLoop
  <2>2. /\ refs \in [Handles -> Ids \cup {NoId}]
        /\ counts \in [Ids -> Nat]
        /\ pushing \in [Threads -> Ids \cup {NoId}]
    BY DEF Init
  <2>3. dropped \in Seq(Ids) /\ leases \in Seq(Ids)
    BY DEF Init
  <2> QED BY <2>1, <2>2, <2>3 DEF Init, TypeOK
<1>2. \A id \in Ids : HandlesOf(id) = {}
  BY NoIdAssumption DEF Init, HandlesOf
<1>3. CreatedFirst /\ CountIsHandles
  BY <1>2 DEF Init, CreatedFirst, CountIsHandles
<1>4. PushIsDead /\ DroppedAreDead /\ CasIsOccupied
  BY DEF Init, PushIsDead, DroppedAreDead, CasIsOccupied
<1> QED BY <1>1, <1>3, <1>4 DEF Inv

LEMMA NextInv == Inv /\ [Next]_vars => Inv'
<1> SUFFICES ASSUME Inv, [Next]_vars PROVE Inv'
  OBVIOUS
<1>0. TypeOK
  BY DEF Inv
<1>1. ASSUME NEW h \in Handles, Insert(h) PROVE Inv'
  <2>1. refs[h] \in Ids
    BY <1>0, <1>1 DEF Inv, CreatedFirst, Insert, TypeOK
  <2>2. TypeOK'
    BY <1>0, <1>1, <2>1 DEF Insert, TypeOK
  <2> QED BY <1>1, <2>2, CoreUnchanged DEF Insert
<1>2. ASSUME NEW h \in Handles, Lease(h) PROVE Inv'
  <2>1. TypeOK'
    BY <1>0, <1>2 DEF Lease, TypeOK
  <2> QED BY <1>2, <2>1, CoreUnchanged DEF Lease
<1>3. ASSUME NEW h \in Handles, NEW id \in Ids, Reserve(h, id) PROVE Inv'
  BY <1>3, ReserveKeepsInv
<1>4. CASE EndLease
  <2>1. leases[Len(leases)] \in Ids
    BY <1>0, <1>4 DEF EndLease, TypeOK
  <2>2. SubSeq(leases, 1, Len(leases) - 1) \in Seq(Ids)
    BY <1>0, <1>4 DEF EndLease, TypeOK
  <2>3. TypeOK'
    BY <1>0, <1>4, <2>1, <2>2 DEF EndLease, TypeOK
  <2> QED BY <1>4, <2>3, CoreUnchanged DEF EndLease
<1>5. CASE FlushLock
  <2>1. TypeOK'
    BY <1>0, <1>5 DEF FlushLock, TypeOK
  <2> QED BY <1>5, <2>1, CoreUnchanged DEF FlushLock
<1>6. CASE TakeDropped
  BY <1>6, TakeDroppedKeepsInv
<1>7. CASE DropApp
  <2>1. TypeOK'
    BY <1>0, <1>7 DEF DropApp, TypeOK
  <2> QED BY <1>7, <2>1, CoreUnchanged DEF DropApp
<1>8. ASSUME NEW t \in Threads, ThreadStep(t) PROVE Inv'
  BY <1>8, CloneKeepsInv, DropSubKeepsInv, DropPushKeepsInv,
     UpgradeLoadKeepsInv, UpgradeCasKeepsInv, UpgradeRetryKeepsInv
     DEF ThreadStep
<1>9. CASE UNCHANGED vars
  <2>1. TypeOK'
    BY <1>0, <1>9 DEF vars, TypeOK
  <2> QED BY <1>9, <2>1, CoreUnchanged DEF vars
<1> QED
  BY <1>1, <1>2, <1>3, <1>4, <1>5, <1>6, <1>7, <1>8, <1>9
     DEF Next, MainStep

\* Every reachable state satisfies the inductive invariant.
THEOREM InvHolds == Spec => []Inv
BY InitInv, NextInv, PTL DEF Spec

\* The variables keep their types; no count is ever taken below zero.
THEOREM TypeCorrect == Spec => []TypeOK
<1>1. Inv => TypeOK
  BY DEF Inv
<1> QED BY <1>1, InvHolds, PTL

\* The shared count is exact whatever the interleaving of clones, drops and
\* upgrades, so no handle is ever over-released.
THEOREM CountExact == Spec => []CountIsHandles
<1>1. Inv => CountIsHandles
  BY DEF Inv
<1> QED BY <1>1, InvHolds, PTL

\* take_dropped's unwrap and debug_assert never fail.
THEOREM DroppedStayDead == Spec => []DroppedAreDead
<1>1. Inv => DroppedAreDead
  BY DEF Inv
<1> QED BY <1>1, InvHolds, PTL

-----------------------------------------------------------------------------
\* The compare-exchange loop of upgrade succeeds only on a count that is not
\* zero, and a clone needs a handle: an entity without handles gets none.
THEOREM NeverResurrected == Spec => NoResurrection
<1>1. ASSUME Inv, [Next]_vars, alive, NEW id \in created, HandlesOf(id) = {}
      PROVE  HandlesOf(id)' = {}
  <2>0. TypeOK /\ id \in Ids
    BY <1>1 DEF Inv, TypeOK
  <2>1. CASE UNCHANGED refs
    BY <1>1, <2>1 DEF HandlesOf
  <2>2. ASSUME NEW h \in Handles, NEW x \in Ids, Reserve(h, x)
        PROVE  HandlesOf(id)' = {}
    <3>1. x # id /\ refs' = [refs EXCEPT ![h] = x]
      BY <1>1, <2>2 DEF Reserve
    <3> QED BY <1>1, <2>0, <3>1 DEF HandlesOf, TypeOK
  <2>3. ASSUME NEW t \in Threads, NEW h \in Handles, NEW new \in Handles,
               Clone(t, h, new)
        PROVE  HandlesOf(id)' = {}
    BY <1>1, <2>0, <2>3 DEF Clone, HandlesOf, TypeOK
  <2>4. ASSUME NEW t \in Threads, NEW h \in Handles, DropSub(t, h)
        PROVE  HandlesOf(id)' = {}
    <3>1. refs' = [refs EXCEPT ![h] = NoId]
      BY <2>4 DEF DropSub
    <3> QED BY <1>1, <2>0, <3>1, NoIdAssumption DEF HandlesOf, TypeOK
  <2>5. ASSUME NEW t \in Threads, NEW h \in Handles, UpgradeCas(t, h)
        PROVE  HandlesOf(id)' = {}
    <3>1. /\ cas[t].id \in occupied
          /\ counts[cas[t].id] # 0
          /\ refs' = [refs EXCEPT ![h] = cas[t].id]
      BY <1>1, <2>5 DEF Inv, UpgradeCas, CasIsOccupied
    <3>2. HandlesOf(cas[t].id) # {}
      BY <1>1, <3>1, CountSign DEF Inv
    <3>3. cas[t].id # id
      BY <1>1, <3>2
    <3> QED BY <1>1, <2>0, <3>1, <3>3 DEF HandlesOf, TypeOK
  <2>6. ASSUME MainStep PROVE HandlesOf(id)' = {}
    BY <2>1, <2>2, <2>6 DEF MainStep, Insert, Lease, EndLease, FlushLock,
                            TakeDropped, DropApp
  <2>7. ASSUME NEW t \in Threads, ThreadStep(t) PROVE HandlesOf(id)' = {}
    BY <2>1, <2>3, <2>4, <2>5, <2>7 DEF ThreadStep, UpgradeLoad, DropPush,
                                        UpgradeRetry
  <2>8. CASE UNCHANGED vars
    BY <2>1, <2>8 DEF vars
  <2> QED BY <1>1, <2>6, <2>7, <2>8 DEF Next
<1>2. Inv /\ [Next]_vars
        => [\A id \in created :
              alive /\ HandlesOf(id) = {} => HandlesOf(id)' = {}]_vars
  BY <1>1
<1> QED BY <1>2, InvHolds, PTL DEF Spec, NoResurrection

-----------------------------------------------------------------------------
(***************************************************************************)
(* Where an entity is: in a Slot, in the map, on the stack of leases or    *)
(* released, one after the other.  NoZombie alone is not inductive: the    *)
(* entity that a lease gives back must not be leased a second time, a Slot *)
(* must not be filled twice, and take_dropped must not come in the middle  *)
(* of a lease.                                                             *)
(***************************************************************************)
LeasedOnce ==
    \A k, l \in 1..Len(leases) : leases[k] = leases[l] => k = l

SlotsAreNew ==
    \A h \in slots :
        /\ refs[h] \notin entities
        /\ \A k \in 1..Len(leases) : leases[k] # refs[h]
        /\ \A g \in slots : refs[g] = refs[h] => g = h

FlushIsOutermost == flushing => alive /\ leases = <<>>

ReleasedAreGone == released \subseteq created /\ (alive => released \cap occupied = {})

PlacesInv ==
    /\ NoZombie
    /\ alive => LeasedOnce /\ SlotsAreNew
    /\ FlushIsOutermost
    /\ ReleasedAreGone

\* reserve keeps the places: the new id is nowhere yet.
LEMMA ReserveKeepsPlaces ==
    ASSUME Inv, PlacesInv, NEW h \in Handles, NEW id \in Ids, Reserve(h, id)
    PROVE  PlacesInv'
<1> USE DEF Inv, PlacesInv
<1>1. /\ alive /\ refs[h] = NoId /\ id \notin created
      /\ occupied' = occupied \cup {id} /\ created' = created \cup {id}
      /\ slots' = slots \cup {h} /\ refs' = [refs EXCEPT ![h] = id]
      /\ UNCHANGED <<entities, leases, released, flushing, alive>>
  BY DEF Reserve, MainRuns
<1>2. /\ id \notin entities
      /\ \A k \in 1..Len(leases) : leases[k] # id
      /\ h \notin slots
  BY <1>1 DEF CreatedFirst, NoZombie
<1>3. \A g \in slots : refs'[g] = refs[g] /\ refs[g] # id
  BY <1>1, <1>2 DEF CreatedFirst, TypeOK
<1>4. refs'[h] = id
  BY <1>1 DEF TypeOK
<1>5. SlotsAreNew'
  BY <1>1, <1>2, <1>3, <1>4 DEF SlotsAreNew
<1>6. NoZombie' /\ LeasedOnce'
  BY <1>1 DEF NoZombie, LeasedOnce
<1>7. FlushIsOutermost' /\ ReleasedAreGone'
  BY <1>1 DEF FlushIsOutermost, ReleasedAreGone
<1> QED BY <1>5, <1>6, <1>7

\* insert moves the entity from its Slot into the map.
LEMMA InsertKeepsPlaces ==
    ASSUME Inv, PlacesInv, NEW h \in Handles, Insert(h)
    PROVE  PlacesInv'
<1> USE DEF Inv, PlacesInv
<1>1. /\ alive /\ h \in slots
      /\ entities' = entities \cup {refs[h]} /\ slots' = slots \ {h}
      /\ UNCHANGED <<refs, occupied, created, leases, released, flushing, alive>>
  BY DEF Insert, MainRuns
<1>2. refs[h] \in Ids /\ h \in HandlesOf(refs[h])
  BY <1>1 DEF CreatedFirst, TypeOK, HandlesOf
<1>3. refs[h] \in occupied
  BY <1>1, <1>2 DEF CountIsHandles
<1>4. NoZombie' /\ SlotsAreNew'
  BY <1>1, <1>3 DEF NoZombie, SlotsAreNew
<1> QED BY <1>1, <1>4 DEF LeasedOnce, FlushIsOutermost, ReleasedAreGone

\* lease moves it from the map to the stack.
LEMMA LeaseKeepsPlaces ==
    ASSUME Inv, PlacesInv, NEW h \in Handles, Lease(h)
    PROVE  PlacesInv'
<1> USE DEF Inv, PlacesInv
<1>1. /\ alive /\ ~flushing /\ refs[h] \in entities
      /\ entities' = entities \ {refs[h]} /\ leases' = Append(leases, refs[h])
      /\ UNCHANGED <<refs, occupied, created, slots, released, flushing, alive>>
  BY DEF Lease, MainRuns
<1>2. /\ Len(leases') = Len(leases) + 1 /\ Len(leases) \in Nat
      /\ \A k \in 1..Len(leases) : leases'[k] = leases[k]
      /\ leases'[Len(leases) + 1] = refs[h]
  BY <1>1 DEF TypeOK
<1>3. \A k \in 1..Len(leases') : k \in 1..Len(leases) \/ k = Len(leases) + 1
  BY <1>2
<1>4. NoZombie' /\ SlotsAreNew'
  BY <1>1, <1>2, <1>3 DEF NoZombie, SlotsAreNew
<1>5. LeasedOnce'
  BY <1>1, <1>2, <1>3 DEF NoZombie, LeasedOnce
<1> QED BY <1>1, <1>4, <1>5 DEF FlushIsOutermost, ReleasedAreGone

\* end_lease moves the innermost back.
LEMMA EndLeaseKeepsPlaces ==
    ASSUME Inv, PlacesInv, EndLease
    PROVE  PlacesInv'
<1> USE DEF Inv, PlacesInv
<1> DEFINE n == Len(leases)
<1>1. /\ alive /\ ~flushing /\ leases # <<>>
      /\ leases' = SubSeq(leases, 1, n - 1)
      /\ entities' = entities \cup {leases[n]}
      /\ UNCHANGED <<refs, occupied, created, slots, released, flushing, alive>>
  BY DEF EndLease, MainRuns
<1>2. n \in Nat /\ n > 0 /\ n \in 1..n
  BY <1>1 DEF TypeOK
<1> HIDE DEF n
<1>a. leases \in Seq(Ids) /\ n - 1 \in Nat /\ n = Len(leases)
  BY <1>2 DEF TypeOK, n
<1>b. \A k \in 1..(n - 1) : k \in 1..n /\ k # n /\ 1 + k - 1 = k
  BY <1>2
<1>c. /\ Len(leases') = n - 1
      /\ \A k \in 1..(n - 1) : leases'[k] = leases[k]
  BY <1>1, <1>2, <1>a, <1>b
<1>3. /\ Len(leases') = n - 1
      /\ \A k \in 1..(n - 1) : leases'[k] = leases[k] /\ k \in 1..n /\ k # n
  BY <1>b, <1>c
<1>4. NoZombie'
  BY <1>1, <1>2, <1>3 DEF NoZombie, LeasedOnce, n
<1>5. SlotsAreNew'
  BY <1>1, <1>2, <1>3 DEF SlotsAreNew, n
<1>6. LeasedOnce'
  BY <1>1, <1>2, <1>3 DEF LeasedOnce, n
<1> QED BY <1>1, <1>4, <1>5, <1>6 DEF FlushIsOutermost, ReleasedAreGone

\* take_dropped runs outside every lease, and hands out what it removes.
LEMMA TakeDroppedKeepsPlaces ==
    ASSUME Inv, PlacesInv, TakeDropped
    PROVE  PlacesInv'
<1> USE DEF Inv, PlacesInv
<1>1. /\ alive /\ leases = <<>>
      /\ occupied' = {id \in occupied : ~InSeq(id, dropped)}
      /\ entities' = {id \in entities : ~InSeq(id, dropped)}
      /\ released' = released \cup {id \in entities : InSeq(id, dropped)}
      /\ flushing' = FALSE
      /\ UNCHANGED <<refs, created, slots, leases, alive>>
  BY DEF TakeDropped, FlushIsOutermost
<1>2. NoZombie' /\ LeasedOnce' /\ SlotsAreNew'
  BY <1>1 DEF NoZombie, LeasedOnce, SlotsAreNew
<1>3. ReleasedAreGone'
  BY <1>1 DEF ReleasedAreGone, NoZombie, CreatedFirst
<1> QED BY <1>1, <1>2, <1>3 DEF FlushIsOutermost

\* The operations on handles move no entity, and make no Slot.
LEMMA HandlesKeepPlaces ==
    ASSUME Inv, PlacesInv, UNCHANGED <<occupied, created, entities, leases, released, flushing,
                                       alive>>,
           slots' \subseteq slots, \A h \in slots' : refs'[h] = refs[h]
    PROVE  PlacesInv'
  BY DEF Inv, PlacesInv, NoZombie, LeasedOnce, SlotsAreNew, FlushIsOutermost, ReleasedAreGone

\* Every step keeps the places.
LEMMA NextPlaces == Inv /\ PlacesInv /\ [Next]_vars => PlacesInv'
<1> SUFFICES ASSUME Inv, PlacesInv, [Next]_vars PROVE PlacesInv'
  OBVIOUS
<1>1. ASSUME NEW h \in Handles, NEW id \in Ids, Reserve(h, id) PROVE PlacesInv'
  BY <1>1, ReserveKeepsPlaces
<1>2. ASSUME NEW h \in Handles, Insert(h) \/ Lease(h) PROVE PlacesInv'
  BY <1>2, InsertKeepsPlaces, LeaseKeepsPlaces
<1>3. CASE EndLease \/ TakeDropped
  BY <1>3, EndLeaseKeepsPlaces, TakeDroppedKeepsPlaces
<1>4. CASE FlushLock \/ DropApp
  BY <1>4 DEF FlushLock, DropApp, MainRuns, PlacesInv, NoZombie, LeasedOnce, SlotsAreNew,
              FlushIsOutermost, ReleasedAreGone
<1>5. ASSUME NEW t \in Threads, NEW h \in Handles, NEW new \in Handles, Clone(t, h, new)
      PROVE  PlacesInv'
  <2>1. \A g \in slots : g # new
    BY <1>5 DEF Clone, Inv, CreatedFirst
  <2> QED BY <1>5, <2>1, HandlesKeepPlaces DEF Clone, Inv, TypeOK
<1>6. ASSUME NEW t \in Threads, NEW h \in Handles, DropSub(t, h) PROVE PlacesInv'
  BY <1>6, HandlesKeepPlaces DEF DropSub, Inv, TypeOK
<1>7. ASSUME NEW t \in Threads, NEW new \in Handles, UpgradeCas(t, new) PROVE PlacesInv'
  <2>1. \A g \in slots : g # new
    BY <1>7 DEF UpgradeCas, Inv, CreatedFirst
  <2> QED BY <1>7, <2>1, HandlesKeepPlaces DEF UpgradeCas, Inv, TypeOK
<1>8. ASSUME NEW t \in Threads, NEW id \in Ids, UpgradeLoad(t, id) PROVE PlacesInv'
  BY <1>8, HandlesKeepPlaces DEF UpgradeLoad
<1>9. ASSUME NEW t \in Threads, DropPush(t) \/ UpgradeRetry(t) PROVE PlacesInv'
  BY <1>9, HandlesKeepPlaces DEF DropPush, UpgradeRetry
<1>10. CASE UNCHANGED vars
  BY <1>10, HandlesKeepPlaces DEF vars
<1>11. CASE MainStep
  BY <1>1, <1>2, <1>3, <1>4, <1>11 DEF MainStep
<1>12. ASSUME NEW t \in Threads, ThreadStep(t) PROVE PlacesInv'
  BY <1>5, <1>6, <1>7, <1>8, <1>9, <1>12 DEF ThreadStep
<1> QED BY <1>10, <1>11, <1>12 DEF Next

\* An entity is in one place at a time, in every reachable state.
THEOREM PlacesHold == Spec => []PlacesInv
<1>1. Init => PlacesInv
  BY DEF Init, PlacesInv, NoZombie, LeasedOnce, SlotsAreNew, FlushIsOutermost,
         ReleasedAreGone
<1> QED BY <1>1, InvHolds, NextPlaces, PTL DEF Spec

\* No entity outlives its key, and none is both in the map and leased, however
\* leases nest and whichever handles are dropped meanwhile.
THEOREM NeverZombie == Spec => []NoZombie
<1>1. PlacesInv => NoZombie
  BY DEF PlacesInv
<1> QED BY <1>1, PlacesHold, PTL

\* take_dropped hands out an entity at most once, and only when nobody has a
\* handle to it.
THEOREM EachReleasedOnce == Spec => ReleasedOnce
<1>1. ASSUME Inv, PlacesInv, [Next]_vars, NEW id \in Ids,
             id \in entities \ entities', ~InSeq(id, leases')
      PROVE  HandlesOf(id) = {} /\ id \notin released /\ id \in released'
  <2>1. ~\E h \in Handles : Lease(h)
    <3> SUFFICES ASSUME NEW h \in Handles, Lease(h) PROVE FALSE
      OBVIOUS
    <3>1. leases' = Append(leases, id) /\ leases \in Seq(Ids)
      BY <1>1 DEF Lease, Inv, TypeOK
    <3>2. Len(leases) + 1 \in 1..Len(leases') /\ leases'[Len(leases) + 1] = id
      BY <3>1
    <3> QED BY <1>1, <3>2 DEF InSeq
  <2>2. TakeDropped
    <3>1. ASSUME NEW t \in Threads, ThreadStep(t) PROVE entities' = entities
      BY <3>1 DEF ThreadStep, Clone, DropSub, UpgradeCas, UpgradeLoad, DropPush, UpgradeRetry
    <3>2. ASSUME MainStep, ~TakeDropped PROVE entities \subseteq entities'
      BY <2>1, <3>2 DEF MainStep, Insert, Reserve, EndLease, FlushLock, DropApp
    <3>3. CASE UNCHANGED vars
      BY <1>1, <3>3 DEF vars
    <3> QED BY <1>1, <3>1, <3>2, <3>3 DEF Next
  <2>3. /\ alive /\ InSeq(id, dropped) /\ id \in released'
    BY <1>1, <2>2 DEF TakeDropped, PlacesInv, FlushIsOutermost
  <2>4. id \in occupied /\ counts[id] = 0
    BY <1>1, <2>3 DEF Inv, DroppedAreDead, InSeq
  <2>5. HandlesOf(id) = {}
    BY <1>1, <2>3, <2>4, CountSign DEF Inv
  <2>6. id \notin released
    BY <1>1, <2>3, <2>4 DEF PlacesInv, ReleasedAreGone
  <2> QED BY <2>3, <2>5, <2>6
<1>2. Inv /\ PlacesInv /\ [Next]_vars
        => [\A id \in Ids :
              id \in entities \ entities' /\ ~InSeq(id, leases') =>
                  /\ HandlesOf(id) = {}
                  /\ id \notin released /\ id \in released']_vars
  BY <1>1
<1> QED BY <1>2, InvHolds, PlacesHold, PTL DEF Spec, ReleasedOnce

=============================================================================
