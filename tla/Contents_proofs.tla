--------------------------- MODULE Contents_proofs ---------------------------
(***************************************************************************)
(* What a window's contents rest on: subscriptions (SubscriberSet), the    *)
(* views that are drawn again or recycled (ViewCache) and lists            *)
(* (ListState).                                                            *)
(***************************************************************************)
EXTENDS SubscriberSet, ViewCache, ListState, Numbers_proofs, FiniteSetTheorems,
        SequenceTheorems, TLAPS

(***************************************************************************)
(* Subscriptions, for any keys, any number of subscriptions and any depth  *)
(* of nested calls.                                                        *)
(*                                                                         *)
(* The inductive invariant says where an id may be: in the map of its own  *)
(* key or in the local map of one retain of that key, never in two places, *)
(* and in none once the set has given it up (PlacesApart, LivePlaces); a   *)
(* call is in a callback of an id it holds (FramesFit); and a key is taken *)
(* only by a retain (TakenByRetain).                                       *)
(***************************************************************************)

\* The ids in an entry, or in a call, are ids of its key that were handed out.
IdsOfKey ==
    /\ \A k \in Keys : \A i \in subscribers[k].ids : key[i] = k /\ i \in Born
    /\ \A d \in 1..Len(stack) : \A i \in stack[d].ids :
          key[i] = stack[d].key /\ i \in Born

IsRetain(d) == stack[d].call = "retain"

\* No id is in two places.
PlacesApart ==
    \A d \in 1..Len(stack) : IsRetain(d) =>
        /\ \A i \in stack[d].ids : i \notin subscribers[stack[d].key].ids
        /\ \A e \in 1..Len(stack) : IsRetain(e) /\ e # d =>
              stack[d].ids \cap stack[e].ids = {}

\* Who is alive is somewhere, and who was given up is nowhere.
LivePlaces ==
    /\ \A i \in Born \ (dropped \cup refused) :
          \/ i \in subscribers[key[i]].ids
          \/ \E d \in 1..Len(stack) : IsRetain(d) /\ i \in stack[d].ids
    /\ \A k \in Keys : subscribers[k].ids \cap refused = {}
    /\ refused \subseteq Born

FramesFit ==
    \A d \in 1..Len(stack) :
        /\ stack[d].todo \subseteq stack[d].ids
        /\ stack[d].calling # 0 => stack[d].calling \in stack[d].ids \ stack[d].todo
        /\ IF IsRetain(d) THEN stack[d].ids \cap refused = {}
                          ELSE stack[d].ids \subseteq refused

TakenByRetain ==
    \A k \in Keys : subscribers[k].slot = "taken" =>
        \E d \in 1..Len(stack) : IsRetain(d) /\ stack[d].key = k

SubscriberInv ==
    /\ SubscriberTypeOK
    /\ IdsOfKey /\ PlacesApart /\ LivePlaces /\ FramesFit /\ TakenByRetain

-----------------------------------------------------------------------------
LEMMA EntryFacts ==
    ASSUME NEW e \in Entries
    PROVE  /\ e.slot \in {"absent", "taken", "some"}
           /\ e.ids \in SUBSET SubscriberIds
           /\ e.slot # "some" => e.ids = {}
  BY DEF Entries, Absent, Taken, Some

LEMMA SomeFacts ==
    ASSUME NEW S \in SUBSET SubscriberIds, S # {}
    PROVE  Some(S) \in Entries /\ Some(S).ids = S /\ Some(S).slot = "some"
  BY DEF Entries, Some

LEMMA EmptyFacts ==
    /\ Absent \in Entries /\ Absent.ids = {} /\ Absent.slot = "absent"
    /\ Taken \in Entries /\ Taken.ids = {} /\ Taken.slot = "taken"
  BY DEF Entries, Absent, Taken

\* What is left in the map, or no map if nothing is.
LEMMA RestFacts ==
    ASSUME NEW S \in SUBSET SubscriberIds
    PROVE  LET e == IF S = {} THEN Absent ELSE Some(S)
           IN  e \in Entries /\ e.ids = S /\ e.slot # "taken"
<1>1. CASE S = {}
  BY <1>1, EmptyFacts
<1>2. CASE S # {}
  BY <1>2, SomeFacts
<1> QED BY <1>1, <1>2

LEMMA FrameFacts ==
    ASSUME SubscriberTypeOK, NEW d \in 1..Len(stack)
    PROVE  /\ stack[d] \in Frames /\ stack[d].key \in Keys
           /\ stack[d].ids \subseteq SubscriberIds
<1>1. stack[d] \in Frames
  BY DEF SubscriberTypeOK
<1> QED BY <1>1 DEF Frames

LEMMA TopFacts ==
    ASSUME SubscriberTypeOK, stack # <<>>
    PROVE  /\ Len(stack) \in Nat /\ Len(stack) \in 1..Len(stack)
           /\ TopCall \in Frames /\ TopCall = stack[Len(stack)]
  BY DEF SubscriberTypeOK, TopCall

LEMMA ReplaceFacts ==
    ASSUME SubscriberTypeOK, stack # <<>>, NEW f \in Frames, stack' = ReplaceTop(f)
    PROVE  /\ stack' \in Seq(Frames) /\ Len(stack') = Len(stack)
           /\ stack'[Len(stack)] = f
           /\ \A d \in 1..Len(stack) : d # Len(stack) => stack'[d] = stack[d]
  BY TopFacts DEF SubscriberTypeOK, ReplaceTop

LEMMA PopFacts ==
    ASSUME SubscriberTypeOK, stack # <<>>, stack' = CallsBelow
    PROVE  /\ stack' \in Seq(Frames) /\ Len(stack') = Len(stack) - 1
           /\ \A d \in 1..Len(stack') :
                 d \in 1..Len(stack) /\ d # Len(stack) /\ stack'[d] = stack[d]
           /\ \A d \in 1..Len(stack) : d = Len(stack) \/ d \in 1..Len(stack')
<1> DEFINE n == Len(stack)
<1>1. stack \in Seq(Frames) /\ n \in Nat /\ n \in 1..n /\ n - 1 \in Nat
  BY TopFacts DEF SubscriberTypeOK
<1>2. stack' = SubSeq(stack, 1, n - 1)
  BY DEF CallsBelow
<1>3. \A k \in 1..(n - 1) : k \in 1..n /\ k # n /\ 1 + k - 1 = k
  BY <1>1
<1>4. \A k \in 1..n : k = n \/ k \in 1..(n - 1)
  BY <1>1
<1>5. \A k \in 1..(n - 1) : stack[k] \in Frames
  BY <1>1, <1>3, FrameFacts
<1> HIDE DEF n
<1>6. /\ SubSeq(stack, 1, n - 1) \in Seq(Frames)
      /\ Len(SubSeq(stack, 1, n - 1)) = IF 1 <= n - 1 THEN n - 1 - 1 + 1 ELSE 0
      /\ \A k \in 1..(n - 1 - 1 + 1) : SubSeq(stack, 1, n - 1)[k] = stack[1 + k - 1]
  BY <1>1, <1>5, SubSeqProperties
<1>7. /\ stack' \in Seq(Frames) /\ Len(stack') = n - 1
      /\ \A k \in 1..(n - 1) : stack'[k] = stack[k]
  BY <1>1, <1>2, <1>3, <1>6
<1>8. n = Len(stack)
  BY DEF n
<1> QED BY <1>3, <1>4, <1>7, <1>8

LEMMA PushFacts ==
    ASSUME SubscriberTypeOK, NEW f \in Frames, stack' = Append(stack, f)
    PROVE  /\ stack' \in Seq(Frames) /\ Len(stack') = Len(stack) + 1
           /\ Len(stack) \in Nat /\ Len(stack) + 1 \in 1..Len(stack')
           /\ stack'[Len(stack) + 1] = f
           /\ \A d \in 1..Len(stack) : d \in 1..Len(stack') /\ stack'[d] = stack[d]
                                       /\ d # Len(stack) + 1
           /\ \A d \in 1..Len(stack') : d = Len(stack) + 1 \/ d \in 1..Len(stack)
<1> DEFINE n == Len(stack)
<1>1. stack \in Seq(Frames) /\ n \in Nat
  BY DEF SubscriberTypeOK
<1>2. /\ stack' \in Seq(Frames) /\ Len(stack') = n + 1
      /\ stack'[n + 1] = f
      /\ \A d \in 1..n : stack'[d] = stack[d]
  BY <1>1
<1>3. /\ n + 1 \in 1..(n + 1)
      /\ \A d \in 1..n : d \in 1..(n + 1) /\ d # n + 1
      /\ \A d \in 1..(n + 1) : d = n + 1 \/ d \in 1..n
  BY <1>1
<1> QED BY <1>1, <1>2, <1>3

LEMMA InitSubscriber == SubscriberInit => SubscriberInv
<1> SUFFICES ASSUME SubscriberInit PROVE SubscriberInv
  OBVIOUS
<1>1. SubscriberTypeOK
  BY EmptyFacts, BoundAssumption DEF SubscriberInit, SubscriberTypeOK
<1>2. \A k \in Keys : subscribers[k].ids = {} /\ subscribers[k].slot # "taken"
  BY EmptyFacts DEF SubscriberInit
<1>3. Born = {} /\ stack = <<>> /\ refused = {} /\ Len(stack) = 0
  BY DEF SubscriberInit, Born, SubscriberIds
<1>4. IdsOfKey /\ PlacesApart /\ LivePlaces /\ FramesFit /\ TakenByRetain
  BY <1>2, <1>3 DEF IdsOfKey, PlacesApart, LivePlaces, FramesFit, TakenByRetain
<1> QED BY <1>1, <1>4 DEF SubscriberInv

-----------------------------------------------------------------------------
\* insert hands out an id that is nowhere yet.
LEMMA InsertKeepsInv ==
    ASSUME SubscriberInv, NEW now \in BOOLEAN, Insert(now)
    PROVE  SubscriberInv'
<1> USE DEF SubscriberInv
<1> DEFINE i == next_id
           k == key[i]
           S == subscribers[k].ids \cup {i}
<1>1. /\ i \in SubscriberIds
      /\ subscribers' = [subscribers EXCEPT ![k] = Some(subscribers[k].ids \cup {i})]
      /\ next_id' = i + 1
      /\ active' = IF now THEN active \cup {i} ELSE active
      /\ deferred' = IF now THEN deferred ELSE deferred \cup {i}
      /\ UNCHANGED <<key, dropped, detached, stack, refused>>
  BY DEF Insert
<1>2. k \in Keys /\ subscribers[k] \in Entries /\ i \in Nat /\ i \in 1..MaxIds
      /\ MaxIds \in Nat
  BY <1>1, BoundAssumption DEF SubscriberTypeOK, SubscriberIds
<1>3. S \in SUBSET SubscriberIds /\ S # {}
  BY <1>1, <1>2, EntryFacts
<1>4. /\ subscribers' \in [Keys -> Entries]
      /\ subscribers'[k].ids = S /\ subscribers'[k].slot = "some"
      /\ \A q \in Keys : q # k => subscribers'[q] = subscribers[q]
  BY <1>1, <1>2, <1>3, SomeFacts DEF SubscriberTypeOK
<1>5. Born' = Born \cup {i} /\ i \notin Born
  <2>1. \A j \in 1..MaxIds : j < i + 1 <=> j < i \/ j = i
    BY <1>2
  <2> QED BY <1>1, <1>2, <2>1 DEF Born, SubscriberIds
<1>6. \A q \in Keys : subscribers'[q].ids = subscribers[q].ids
                      \/ (q = k /\ subscribers'[q].ids = subscribers[q].ids \cup {i})
  BY <1>4
<1>a. UNCHANGED <<key, stack>>
  BY <1>1
<1> HIDE DEF i, k, S
<1>b. \A q \in Keys : \A j \in subscribers'[q].ids :
         j \in subscribers[q].ids \/ (q = k /\ j = i)
  BY <1>6
<1>7. SubscriberTypeOK'
  <2>1. next_id' \in 1..(MaxIds + 1)
    BY <1>1, <1>2
  <2>2. active' \subseteq SubscriberIds /\ deferred' \subseteq SubscriberIds
    BY <1>1 DEF SubscriberTypeOK
  <2> QED BY <1>1, <1>4, <2>1, <2>2 DEF SubscriberTypeOK
<1>8. IdsOfKey'
  <2>1. key[i] = k
    BY DEF i, k
  <2>2. \A q \in Keys : \A j \in subscribers'[q].ids : key'[j] = q /\ j \in Born'
    BY <1>a, <1>b, <1>5, <2>1 DEF IdsOfKey
  <2>3. \A d \in 1..Len(stack') : \A j \in stack'[d].ids :
           key'[j] = stack'[d].key /\ j \in Born'
    BY <1>a, <1>5 DEF IdsOfKey
  <2> QED BY <2>2, <2>3 DEF IdsOfKey
<1>9. PlacesApart'
  <2>1. \A d \in 1..Len(stack) : i \notin stack[d].ids /\ stack[d].key \in Keys
    BY <1>5, FrameFacts DEF IdsOfKey
  <2> QED BY <1>a, <1>b, <2>1 DEF PlacesApart, IsRetain
<1>10. LivePlaces'
  <2>1. i \in subscribers'[key[i]].ids
    BY <1>4 DEF i, k, S
  <2>2. \A j \in Born : key[j] \in Keys /\ subscribers[key[j]].ids \subseteq subscribers'[key[j]].ids
    BY <1>6 DEF Born, SubscriberTypeOK
  <2>3. \A q \in Keys : subscribers'[q].ids \cap refused = {}
    BY <1>5, <1>6 DEF LivePlaces
  <2> QED BY <1>1, <1>5, <2>1, <2>2, <2>3 DEF LivePlaces, IsRetain
<1>11. FramesFit' /\ TakenByRetain'
  BY <1>1, <1>4 DEF FramesFit, TakenByRetain, IsRetain
<1> QED BY <1>7, <1>8, <1>9, <1>10, <1>11

LEMMA QuietKeepsInv ==
    ASSUME SubscriberInv, NEW i \in SubscriberIds,
           Activate(i) \/ Detach(i) \/ UNCHANGED subscriberVars
    PROVE  SubscriberInv'
<1>1. UNCHANGED <<subscribers, next_id, key, dropped, stack, refused>>
  BY DEF Activate, Detach, subscriberVars
<1>2. active' \subseteq SubscriberIds /\ deferred' \subseteq SubscriberIds
      /\ detached' \subseteq SubscriberIds
  BY DEF Activate, Detach, subscriberVars, SubscriberInv, SubscriberTypeOK, Born
<1>3. SubscriberTypeOK'
  BY <1>1, <1>2 DEF SubscriberInv, SubscriberTypeOK
<1> QED BY <1>1, <1>3 DEF SubscriberInv, IdsOfKey, PlacesApart, LivePlaces, FramesFit,
                          TakenByRetain, IsRetain, Born

\* The unsubscribe closure takes out one id, which is dropped.
LEMMA UnsubscribeKeepsInv ==
    ASSUME SubscriberInv, NEW i \in SubscriberIds, Unsubscribe(i)
    PROVE  SubscriberInv'
<1> USE DEF SubscriberInv
<1> DEFINE k == key[i]
           left == subscribers[k].ids \ {i}
           e == IF subscribers[k].slot # "some" THEN subscribers[k]
                ELSE IF left = {} THEN Absent ELSE Some(left)
<1>1. /\ dropped' = dropped \cup {i} /\ i \in Born
      /\ subscribers' = [subscribers EXCEPT ![k] = e]
      /\ UNCHANGED <<next_id, key, active, deferred, detached, stack, refused>>
  BY DEF Unsubscribe
<1>2. k \in Keys /\ subscribers[k] \in Entries
  BY DEF SubscriberTypeOK
<1>3. e \in Entries /\ e.ids = left /\ (e.slot = "taken" => subscribers[k].slot = "taken")
  <2>1. CASE subscribers[k].slot # "some"
    BY <1>2, <2>1, EntryFacts
  <2>2. CASE subscribers[k].slot = "some"
    <3>1. left \in SUBSET SubscriberIds
      BY <1>2, EntryFacts
    <3>2. e = IF left = {} THEN Absent ELSE Some(left)
      BY <2>2
    <3> HIDE DEF e, left
    <3> QED BY <3>1, <3>2, RestFacts
  <2> QED BY <2>1, <2>2
<1> HIDE DEF e
<1>4. /\ subscribers' \in [Keys -> Entries]
      /\ subscribers'[k] = e
      /\ \A q \in Keys : q # k => subscribers'[q] = subscribers[q]
  BY <1>1, <1>2, <1>3 DEF SubscriberTypeOK
<1>5. \A q \in Keys : /\ subscribers'[q].ids \subseteq subscribers[q].ids
                      /\ subscribers[q].ids \subseteq subscribers'[q].ids \cup {i}
                      /\ subscribers'[q].slot = "taken" => subscribers[q].slot = "taken"
  BY <1>3, <1>4
<1> HIDE DEF k, left
<1>6. SubscriberTypeOK'
  BY <1>1, <1>4 DEF SubscriberTypeOK
<1>7. IdsOfKey' /\ FramesFit' /\ TakenByRetain'
  BY <1>1, <1>5 DEF IdsOfKey, FramesFit, TakenByRetain, IsRetain, Born
<1>8. PlacesApart'
  <2>1. \A d \in 1..Len(stack) : stack[d].key \in Keys
    BY FrameFacts
  <2> QED BY <1>1, <1>5, <2>1 DEF PlacesApart, IsRetain
<1>9. LivePlaces'
  <2>1. \A j \in Born : key[j] \in Keys
    BY DEF SubscriberTypeOK, Born
  <2> QED BY <1>1, <1>5, <2>1 DEF LivePlaces, IsRetain, Born
<1> QED BY <1>6, <1>7, <1>8, <1>9

\* retain moves the map of its key to the stack.
LEMMA RetainKeepsInv ==
    ASSUME SubscriberInv, NEW k \in Keys, Retain(k)
    PROVE  SubscriberInv'
<1> USE DEF SubscriberInv
<1> DEFINE S == subscribers[k].ids
           f == [call |-> "retain", key |-> k, ids |-> S, todo |-> S, calling |-> 0]
           n == Len(stack)
<1>1. /\ subscribers' = [subscribers EXCEPT ![k] = Taken]
      /\ stack' = Append(stack, f)
      /\ UNCHANGED <<next_id, key, active, dropped, deferred, detached, refused>>
  BY DEF Retain
<1>2. f \in Frames
  BY EntryFacts DEF SubscriberTypeOK, Frames
<1>3. /\ f.call = "retain" /\ f.key = k /\ f.ids = S /\ f.todo = S /\ f.calling = 0
  OBVIOUS
<1> HIDE DEF f
<1>4. /\ stack' \in Seq(Frames) /\ Len(stack') = n + 1
      /\ n + 1 \in 1..Len(stack') /\ stack'[n + 1] = f
      /\ \A d \in 1..n : d \in 1..Len(stack') /\ stack'[d] = stack[d] /\ d # n + 1
      /\ \A d \in 1..Len(stack') : d = n + 1 \/ d \in 1..n
  BY <1>1, <1>2, PushFacts
<1>5. /\ subscribers' \in [Keys -> Entries] /\ subscribers'[k] = Taken
      /\ \A q \in Keys : q # k => subscribers'[q] = subscribers[q]
  BY <1>1, EmptyFacts DEF SubscriberTypeOK
<1>6. /\ subscribers'[k].ids = {} 
      /\ \A q \in Keys : subscribers'[q].ids \subseteq subscribers[q].ids
  BY <1>5, EmptyFacts
<1> HIDE DEF n
<1>7. SubscriberTypeOK'
  BY <1>1, <1>4, <1>5 DEF SubscriberTypeOK
<1>8. IdsOfKey'
  BY <1>1, <1>3, <1>4, <1>6 DEF IdsOfKey, Born, n
<1>9. PlacesApart'
  <2>1. \A d \in 1..n : IsRetain(d) => S \cap stack[d].ids = {}
    BY DEF PlacesApart, IdsOfKey, n
  <2>2. \A d \in 1..n : stack[d].key \in Keys
    BY FrameFacts DEF n
  <2>3. \A d \in 1..Len(stack') : stack'[d].call = "retain" =>
           \A i \in stack'[d].ids : i \notin subscribers'[stack'[d].key].ids
    BY <1>3, <1>4, <1>6, <2>2 DEF PlacesApart, IsRetain, n
  <2>4. \A d, e \in 1..Len(stack') :
           stack'[d].call = "retain" /\ stack'[e].call = "retain" /\ e # d =>
              stack'[d].ids \cap stack'[e].ids = {}
    BY <1>3, <1>4, <2>1 DEF PlacesApart, IsRetain, n
  <2> QED BY <2>3, <2>4 DEF PlacesApart, IsRetain
<1>10. LivePlaces'
  <2>1. \A i \in Born : key[i] \in Keys
    BY DEF SubscriberTypeOK, Born
  <2>2. ASSUME NEW i \in Born \ (dropped \cup refused)
        PROVE  \/ i \in subscribers'[key[i]].ids
               \/ \E d \in 1..Len(stack') : stack'[d].call = "retain" /\ i \in stack'[d].ids
    <3>1. CASE i \in subscribers[key[i]].ids /\ key[i] = k
      BY <1>3, <1>4, <3>1
    <3>2. CASE i \in subscribers[key[i]].ids /\ key[i] # k
      BY <1>5, <2>1, <3>2
    <3>3. CASE \E d \in 1..Len(stack) : IsRetain(d) /\ i \in stack[d].ids
      BY <1>4, <3>3 DEF IsRetain, n
    <3> QED BY <3>1, <3>2, <3>3 DEF LivePlaces
  <2> QED BY <1>1, <1>6, <2>2 DEF LivePlaces, IsRetain, Born
<1>11. FramesFit'
  BY <1>1, <1>3, <1>4 DEF FramesFit, IsRetain, LivePlaces, n
<1>12. TakenByRetain'
  <2>1. ASSUME NEW q \in Keys, subscribers'[q].slot = "taken"
        PROVE  \E d \in 1..Len(stack') : stack'[d].call = "retain" /\ stack'[d].key = q
    <3>1. CASE q = k
      BY <1>3, <1>4, <3>1
    <3>2. CASE q # k
      BY <1>4, <1>5, <2>1, <3>2 DEF TakenByRetain, IsRetain, n
    <3> QED BY <3>1, <3>2
  <2> QED BY <2>1 DEF TakenByRetain, IsRetain
<1> QED BY <1>7, <1>8, <1>9, <1>10, <1>11, <1>12

\* The call on top goes on, and gives up ids only if they are dropped or refused.
LEMMA TurnKeepsInv ==
    ASSUME SubscriberInv, stack # <<>>, NEW f \in Frames, stack' = ReplaceTop(f),
           f.call = TopCall.call, f.key = TopCall.key, f.ids \subseteq TopCall.ids,
           f.todo \subseteq f.ids, f.calling # 0 => f.calling \in f.ids \ f.todo,
           NEW R \in SUBSET (TopCall.ids \ f.ids), refused' = refused \cup R,
           TopCall.ids \ f.ids \subseteq dropped \cup R,
           TopCall.call # "retain" => f.ids = TopCall.ids,
           UNCHANGED <<subscribers, next_id, key, active, dropped, deferred, detached>>
    PROVE  SubscriberInv'
<1> USE DEF SubscriberInv
<1> DEFINE n == Len(stack)
<1>1. n \in Nat /\ n \in 1..n /\ TopCall \in Frames /\ TopCall = stack[n]
  BY TopFacts
<1>2. /\ stack' \in Seq(Frames) /\ Len(stack') = n /\ stack'[n] = f
      /\ \A d \in 1..n : d # n => stack'[d] = stack[d]
  BY ReplaceFacts
<1> HIDE DEF n
<1>3. \A d \in 1..n : /\ stack'[d].call = stack[d].call /\ stack'[d].key = stack[d].key
                      /\ stack'[d].ids \subseteq stack[d].ids
  BY <1>1, <1>2
<1>4. Born' = Born /\ R \subseteq Born /\ R \subseteq TopCall.ids
  BY <1>1 DEF Born, IdsOfKey, n
<1>5. SubscriberTypeOK'
  BY <1>2, <1>4 DEF SubscriberTypeOK, Born
<1>6. IdsOfKey' /\ TakenByRetain'
  BY <1>2, <1>3, <1>4 DEF IdsOfKey, TakenByRetain, IsRetain, n
<1>7. PlacesApart'
  BY <1>2, <1>3 DEF PlacesApart, IsRetain, n
<1>8. R # {} => TopCall.call = "retain"
  OBVIOUS
<1>9. \A k \in Keys : R \cap subscribers[k].ids = {}
  BY <1>1, <1>8 DEF PlacesApart, IsRetain, IdsOfKey, n
<1>10. LivePlaces'
  <2>1. ASSUME NEW i \in Born \ (dropped \cup refused'),
               i \notin subscribers[key[i]].ids
        PROVE  \E d \in 1..n : stack'[d].call = "retain" /\ i \in stack'[d].ids
    <3>1. PICK d \in 1..n : IsRetain(d) /\ i \in stack[d].ids
      BY <2>1 DEF LivePlaces, n
    <3>2. CASE d # n
      BY <1>2, <3>1, <3>2 DEF IsRetain
    <3>3. CASE d = n
      BY <1>1, <1>2, <3>1, <3>3 DEF IsRetain
    <3> QED BY <3>2, <3>3
  <2> QED BY <1>2, <1>4, <1>9, <2>1 DEF LivePlaces, IsRetain
<1>11. FramesFit'
  <2> SUFFICES ASSUME NEW d \in 1..n
               PROVE  /\ stack'[d].todo \subseteq stack'[d].ids
                      /\ stack'[d].calling # 0 =>
                            stack'[d].calling \in stack'[d].ids \ stack'[d].todo
                      /\ IF stack'[d].call = "retain" THEN stack'[d].ids \cap refused' = {}
                                                      ELSE stack'[d].ids \subseteq refused'
    BY <1>2 DEF FramesFit, IsRetain
  <2>1. CASE d = n
    BY <1>1, <1>2, <2>1 DEF FramesFit, IsRetain, n
  <2>2. CASE d # n
    <3>1. stack[d].call = "retain" => stack[d].ids \cap R = {}
      BY <1>1, <1>8, <2>2 DEF PlacesApart, IsRetain, n
    <3> QED BY <1>2, <2>2, <3>1 DEF FramesFit, IsRetain, n
  <2> QED BY <2>1, <2>2
<1> QED BY <1>5, <1>6, <1>7, <1>10, <1>11

LEMMA VisitKeepsInv ==
    ASSUME SubscriberInv, NEW i \in SubscriberIds, Visit(i)
    PROVE  SubscriberInv'
<1> USE DEF SubscriberInv
<1> DEFINE f == [TopCall EXCEPT
                    !.todo = @ \ {i},
                    !.calling = IF i \in active \ dropped THEN i ELSE 0,
                    !.ids = IF i \in active \cap dropped THEN @ \ {i} ELSE @]
<1>1. /\ stack # <<>> /\ TopCall.call = "retain" /\ i \in TopCall.todo
      /\ stack' = ReplaceTop(f)
      /\ UNCHANGED <<subscribers, next_id, key, active, dropped, deferred, detached, refused>>
  BY DEF Visit, ComesTo
<1>2. TopCall \in Frames /\ TopCall.todo \subseteq TopCall.ids
  BY <1>1, TopFacts DEF FramesFit
<1>3. /\ f \in Frames /\ f.call = TopCall.call /\ f.key = TopCall.key
      /\ f.todo = TopCall.todo \ {i}
      /\ f.calling = IF i \in active \ dropped THEN i ELSE 0
      /\ f.ids = IF i \in active \cap dropped THEN TopCall.ids \ {i} ELSE TopCall.ids
  BY <1>2 DEF Frames
<1> HIDE DEF f
<1>4. /\ f.ids \subseteq TopCall.ids /\ f.todo \subseteq f.ids
      /\ f.calling # 0 => f.calling \in f.ids \ f.todo
      /\ TopCall.ids \ f.ids \subseteq dropped \cup {}
      /\ refused' = refused \cup {}
  BY <1>1, <1>2, <1>3
<1> QED BY <1>1, <1>3, <1>4, TurnKeepsInv

LEMMA ReturnKeepsInv ==
    ASSUME SubscriberInv, NEW keep \in BOOLEAN, Return(keep)
    PROVE  SubscriberInv'
<1> USE DEF SubscriberInv
<1> DEFINE i == TopCall.calling
           f == [TopCall EXCEPT !.calling = 0,
                    !.ids = IF keep /\ i \notin dropped THEN @ ELSE @ \ {i}]
           R == IF keep THEN {} ELSE {i}
<1>1. /\ stack # <<>> /\ TopCall.call = "retain" /\ i # 0
      /\ stack' = ReplaceTop(f)
      /\ refused' = refused \cup R
      /\ UNCHANGED <<subscribers, next_id, key, active, dropped, deferred, detached>>
  BY DEF Return
<1>2. TopCall \in Frames /\ TopCall.todo \subseteq TopCall.ids /\ i \in TopCall.ids \ TopCall.todo
  BY <1>1, TopFacts DEF FramesFit
<1>3. /\ f \in Frames /\ f.call = TopCall.call /\ f.key = TopCall.key
      /\ f.todo = TopCall.todo /\ f.calling = 0
      /\ f.ids = IF keep /\ i \notin dropped THEN TopCall.ids ELSE TopCall.ids \ {i}
  BY <1>2 DEF Frames
<1> HIDE DEF f
<1>4. /\ f.ids \subseteq TopCall.ids /\ f.todo \subseteq f.ids
      /\ R \in SUBSET (TopCall.ids \ f.ids)
      /\ TopCall.ids \ f.ids \subseteq dropped \cup R
  BY <1>2, <1>3
<1> HIDE DEF R, i
<1> QED BY <1>1, <1>3, <1>4, TurnKeepsInv

LEMMA RemovedKeepsInv ==
    ASSUME SubscriberInv, NEW i \in SubscriberIds, NextRemoved(i) \/ ReturnRemoved
    PROVE  SubscriberInv'
<1> USE DEF SubscriberInv
<1>1. CASE NextRemoved(i)
  <2> DEFINE f == [TopCall EXCEPT !.todo = @ \ {i},
                                  !.calling = IF i \in active THEN i ELSE 0]
  <2>1. /\ stack # <<>> /\ TopCall.call = "remove" /\ i \in TopCall.todo
        /\ stack' = ReplaceTop(f)
        /\ UNCHANGED <<subscribers, next_id, key, active, dropped, deferred, detached, refused>>
    BY <1>1 DEF NextRemoved, ComesTo
  <2>2. TopCall \in Frames /\ TopCall.todo \subseteq TopCall.ids
    BY <2>1, TopFacts DEF FramesFit
  <2>3. /\ f \in Frames /\ f.call = TopCall.call /\ f.key = TopCall.key
        /\ f.todo = TopCall.todo \ {i} /\ f.ids = TopCall.ids
        /\ f.calling = IF i \in active THEN i ELSE 0
    BY <2>2 DEF Frames
  <2> HIDE DEF f
  <2>4. /\ f.todo \subseteq f.ids /\ f.ids \subseteq TopCall.ids
        /\ f.calling # 0 => f.calling \in f.ids \ f.todo
        /\ {} \in SUBSET (TopCall.ids \ f.ids)
        /\ TopCall.ids \ f.ids \subseteq dropped \cup {}
        /\ refused' = refused \cup {}
    BY <2>1, <2>2, <2>3
  <2> QED BY <2>1, <2>3, <2>4, TurnKeepsInv
<1>2. CASE ReturnRemoved
  <2> DEFINE f == [TopCall EXCEPT !.calling = 0]
  <2>1. /\ stack # <<>> /\ TopCall.call = "remove"
        /\ stack' = ReplaceTop(f)
        /\ UNCHANGED <<subscribers, next_id, key, active, dropped, deferred, detached, refused>>
    BY <1>2 DEF ReturnRemoved
  <2>2. TopCall \in Frames /\ TopCall.todo \subseteq TopCall.ids
    BY <2>1, TopFacts DEF FramesFit
  <2>3. /\ f \in Frames /\ f.call = TopCall.call /\ f.key = TopCall.key
        /\ f.todo = TopCall.todo /\ f.ids = TopCall.ids /\ f.calling = 0
    BY <2>2 DEF Frames
  <2> HIDE DEF f
  <2>4. /\ f.todo \subseteq f.ids /\ f.ids \subseteq TopCall.ids
        /\ {} \in SUBSET (TopCall.ids \ f.ids)
        /\ TopCall.ids \ f.ids \subseteq dropped \cup {}
        /\ refused' = refused \cup {}
    BY <2>1, <2>2, <2>3
  <2> QED BY <2>1, <2>3, <2>4, TurnKeepsInv
<1> QED BY <1>1, <1>2

\* retain ends: its map and what was inserted meanwhile go back under the key.
LEMMA FinishRetainKeepsInv ==
    ASSUME SubscriberInv, FinishRetain
    PROVE  SubscriberInv'
<1> USE DEF SubscriberInv
<1> DEFINE n == Len(stack)
           k == TopCall.key
           both == TopCall.ids \cup subscribers[k].ids
           rest == IF both = {} THEN Absent ELSE Some(both)
<1>1. /\ stack # <<>> /\ TopCall.call = "retain" /\ stack' = CallsBelow
      /\ subscribers' = [subscribers EXCEPT ![k] = rest]
      /\ UNCHANGED <<next_id, key, active, dropped, deferred, detached, refused>>
  BY DEF FinishRetain
<1>2. /\ n \in 1..n /\ TopCall = stack[n] /\ k \in Keys
      /\ TopCall.ids \subseteq SubscriberIds
      /\ subscribers[k] \in Entries
  BY <1>1, TopFacts, FrameFacts DEF SubscriberTypeOK
<1>3. both \in SUBSET SubscriberIds
  BY <1>2, EntryFacts
<1>4. rest \in Entries /\ rest.ids = both /\ rest.slot # "taken"
  <2> HIDE DEF both
  <2> QED BY <1>3, RestFacts
<1> HIDE DEF rest
<1>5. /\ subscribers' \in [Keys -> Entries] /\ subscribers'[k].ids = both
      /\ subscribers'[k].slot # "taken"
      /\ \A q \in Keys : q # k => subscribers'[q] = subscribers[q]
  BY <1>1, <1>2, <1>4 DEF SubscriberTypeOK
<1>6. /\ stack' \in Seq(Frames) /\ Len(stack') = n - 1
      /\ \A d \in 1..Len(stack') : d \in 1..n /\ d # n /\ stack'[d] = stack[d]
      /\ \A d \in 1..n : d = n \/ d \in 1..Len(stack')
  BY <1>1, PopFacts
<1>a. UNCHANGED <<next_id, key, active, dropped, deferred, detached, refused>>
  BY <1>1
<1>b. TopCall.call = "retain" /\ stack[n].call = "retain"
  BY <1>1, <1>2
<1>c. \A q \in Keys : \A i \in subscribers'[q].ids :
         i \in subscribers[q].ids \/ (q = k /\ i \in TopCall.ids)
  BY <1>5
<1>d. \A q \in Keys : subscribers[q].ids \subseteq subscribers'[q].ids
  BY <1>5
<1>e. TopCall.ids \subseteq subscribers'[k].ids
  BY <1>5
<1> HIDE DEF n, both
<1>7. SubscriberTypeOK'
  BY <1>a, <1>5, <1>6 DEF SubscriberTypeOK
<1>8. IdsOfKey'
  <2>1. \A i \in TopCall.ids : key[i] = k /\ i \in Born
    BY <1>2 DEF IdsOfKey, n
  <2>2. \A q \in Keys : \A i \in subscribers'[q].ids : key'[i] = q /\ i \in Born'
    BY <1>a, <1>c, <2>1 DEF IdsOfKey, Born
  <2>3. \A d \in 1..Len(stack') : \A i \in stack'[d].ids :
           key'[i] = stack'[d].key /\ i \in Born'
    BY <1>a, <1>6 DEF IdsOfKey, Born, n
  <2> QED BY <2>2, <2>3 DEF IdsOfKey
<1>9. PlacesApart'
  <2>1. \A d \in 1..n : stack[d].key \in Keys
    BY FrameFacts DEF n
  <2>2. \A d \in 1..n : d # n /\ IsRetain(d) => stack[d].ids \cap TopCall.ids = {}
    BY <1>2, <1>b DEF PlacesApart, IsRetain, n
  <2>3. ASSUME NEW d \in 1..Len(stack'), stack'[d].call = "retain", NEW i \in stack'[d].ids
        PROVE  i \notin subscribers'[stack'[d].key].ids
    <3>1. d \in 1..n /\ d # n /\ stack'[d] = stack[d] /\ stack[d].key \in Keys
      BY <1>6, <2>1
    <3>2. i \notin subscribers[stack[d].key].ids /\ i \notin TopCall.ids
      BY <2>2, <2>3, <3>1 DEF PlacesApart, IsRetain, n
    <3> QED BY <1>c, <3>1, <3>2
  <2>4. \A d, e \in 1..Len(stack') :
           stack'[d].call = "retain" /\ stack'[e].call = "retain" /\ e # d =>
              stack'[d].ids \cap stack'[e].ids = {}
    BY <1>6 DEF PlacesApart, IsRetain, n
  <2> QED BY <2>3, <2>4 DEF PlacesApart, IsRetain
<1>10. LivePlaces'
  <2>1. ASSUME NEW i \in Born \ (dropped \cup refused), i \notin subscribers'[key[i]].ids
        PROVE  \E d \in 1..Len(stack') : stack'[d].call = "retain" /\ i \in stack'[d].ids
    <3>1. key[i] \in Keys
      BY DEF SubscriberTypeOK, Born
    <3>2. PICK d \in 1..n : IsRetain(d) /\ i \in stack[d].ids
      BY <1>d, <2>1, <3>1 DEF LivePlaces, n
    <3>3. d # n
      BY <1>2, <1>e, <2>1, <3>2 DEF IdsOfKey, n
    <3> QED BY <1>6, <3>2, <3>3 DEF IsRetain
  <2>2. \A q \in Keys : subscribers'[q].ids \cap refused = {}
    BY <1>2, <1>b, <1>c DEF LivePlaces, FramesFit, IsRetain, n
  <2> QED BY <1>a, <2>1, <2>2 DEF LivePlaces, IsRetain, Born
<1>11. FramesFit'
  BY <1>a, <1>6 DEF FramesFit, IsRetain, n
<1>12. TakenByRetain'
  <2> SUFFICES ASSUME NEW q \in Keys, subscribers'[q].slot = "taken"
               PROVE  \E d \in 1..Len(stack') : stack'[d].call = "retain" /\ stack'[d].key = q
    BY DEF TakenByRetain, IsRetain
  <2>1. q # k /\ subscribers[q].slot = "taken"
    BY <1>5
  <2>2. PICK d \in 1..n : IsRetain(d) /\ stack[d].key = q
    BY <2>1 DEF TakenByRetain, n
  <2> QED BY <1>2, <1>6, <2>1, <2>2 DEF IsRetain
<1> QED BY <1>7, <1>8, <1>9, <1>10, <1>11, <1>12

LEMMA FinishRemoveKeepsInv ==
    ASSUME SubscriberInv, FinishRemove
    PROVE  SubscriberInv'
<1> USE DEF SubscriberInv
<1> DEFINE n == Len(stack)
<1>1. /\ stack # <<>> /\ TopCall.call = "remove" /\ stack' = CallsBelow
      /\ UNCHANGED <<subscribers, next_id, key, active, dropped, deferred, detached,
                     refused>>
  BY DEF FinishRemove
<1>2. n \in 1..n /\ TopCall = stack[n]
  BY <1>1, TopFacts
<1>3. /\ stack' \in Seq(Frames)
      /\ \A d \in 1..Len(stack') : d \in 1..n /\ stack'[d] = stack[d]
      /\ \A d \in 1..n : d = n \/ d \in 1..Len(stack')
  BY <1>1, PopFacts
<1>4. \A d \in 1..n : IsRetain(d) => d \in 1..Len(stack')
  BY <1>1, <1>2, <1>3 DEF IsRetain
<1>a. UNCHANGED <<subscribers, next_id, key, active, dropped, deferred, detached, refused>>
  BY <1>1
<1> HIDE DEF n
<1>5. SubscriberTypeOK'
  BY <1>a, <1>3 DEF SubscriberTypeOK
<1>6. IdsOfKey' /\ PlacesApart' /\ FramesFit'
  BY <1>a, <1>3 DEF IdsOfKey, PlacesApart, FramesFit, IsRetain, Born, n
<1>7. LivePlaces' /\ TakenByRetain'
  BY <1>a, <1>3, <1>4 DEF LivePlaces, TakenByRetain, IsRetain, Born, n
<1> QED BY <1>5, <1>6, <1>7

\* remove gives up the ids of its key; a key without callbacks has no call.
LEMMA RemoveKeyKeepsInv ==
    ASSUME SubscriberInv, NEW k \in Keys, RemoveKey(k)
    PROVE  SubscriberInv'
<1> USE DEF SubscriberInv
<1> DEFINE S == subscribers[k].ids
           f == [call |-> "remove", key |-> k, ids |-> S, todo |-> S, calling |-> 0]
           n == Len(stack)
<1>1. /\ subscribers' = [subscribers EXCEPT ![k] = Absent]
      /\ refused' = refused \cup S /\ ~InCall(k)
      /\ stack' = IF k \in Quiet THEN Append(stack, f) ELSE stack
      /\ UNCHANGED <<next_id, key, active, dropped, deferred, detached>>
  BY DEF RemoveKey
<1>2. S \subseteq SubscriberIds /\ n \in Nat
  BY EntryFacts DEF SubscriberTypeOK
<1>3. f \in Frames
  BY <1>2 DEF Frames
<1>4. f.call = "remove" /\ f.key = k /\ f.ids = S /\ f.todo = S /\ f.calling = 0
  OBVIOUS
<1> HIDE DEF f
<1>5. /\ stack' \in Seq(Frames)
      /\ \A d \in 1..n : d \in 1..Len(stack') /\ stack'[d] = stack[d]
      /\ \A d \in 1..Len(stack') : d \in 1..n \/ stack'[d] = f
  <2>1. CASE k \in Quiet
    BY <1>1, <1>3, <2>1, PushFacts
  <2>2. CASE k \notin Quiet
    BY <1>1, <2>2 DEF SubscriberTypeOK
  <2> QED BY <2>1, <2>2
<1>6. /\ subscribers' \in [Keys -> Entries] /\ subscribers'[k] = Absent
      /\ \A q \in Keys : q # k => subscribers'[q] = subscribers[q]
  BY <1>1, EmptyFacts DEF SubscriberTypeOK
<1>7. /\ subscribers'[k].ids = {} /\ subscribers'[k].slot # "taken"
      /\ \A q \in Keys : subscribers'[q].ids \subseteq subscribers[q].ids
      /\ \A q \in Keys : subscribers[q].ids \subseteq subscribers'[q].ids \cup S
  BY <1>6, EmptyFacts
<1>a. UNCHANGED <<next_id, key, active, dropped, deferred, detached>>
      /\ refused' = refused \cup S
  BY <1>1
<1>b. \A d \in 1..n : stack[d].key \in Keys /\ stack[d].key # k /\ stack[d].ids \cap S = {}
  <2>1. \A d \in 1..n : stack[d].key \in Keys /\ stack[d].key # k
    BY <1>1, FrameFacts DEF InCall
  <2> QED BY <2>1 DEF IdsOfKey
<1>c. S \subseteq Born /\ \A i \in S : key[i] = k
  BY DEF IdsOfKey
<1>d. \A q \in Keys : subscribers'[q].ids \cap S = {}
  <2>1. \A q \in Keys : q # k => subscribers[q].ids \cap S = {}
    BY <1>c DEF IdsOfKey
  <2> QED BY <1>6, <1>7, <2>1
<1> HIDE DEF n, S
<1>8. SubscriberTypeOK'
  BY <1>a, <1>2, <1>5, <1>6 DEF SubscriberTypeOK
<1>9. IdsOfKey'
  BY <1>a, <1>4, <1>5, <1>7, <1>c DEF IdsOfKey, Born, n
<1>10. PlacesApart'
  BY <1>4, <1>5, <1>7, <1>b DEF PlacesApart, IsRetain, n
<1>11. LivePlaces'
  <2>1. \A i \in Born : key[i] \in Keys
    BY DEF SubscriberTypeOK, Born
  <2>2. \A i \in Born \ (dropped \cup refused') :
          \/ i \in subscribers'[key[i]].ids
          \/ \E d \in 1..Len(stack') : stack'[d].call = "retain" /\ i \in stack'[d].ids
    BY <1>a, <1>5, <1>7, <2>1 DEF LivePlaces, IsRetain, n
  <2>3. \A q \in Keys : subscribers'[q].ids \cap refused' = {}
    BY <1>a, <1>7, <1>d DEF LivePlaces
  <2> QED BY <1>a, <1>c, <2>2, <2>3 DEF LivePlaces, IsRetain, Born
<1>12. FramesFit'
  BY <1>a, <1>4, <1>5, <1>b DEF FramesFit, IsRetain, n
<1>13. TakenByRetain'
  <2> SUFFICES ASSUME NEW q \in Keys, subscribers'[q].slot = "taken"
               PROVE  \E d \in 1..Len(stack') : stack'[d].call = "retain" /\ stack'[d].key = q
    BY DEF TakenByRetain, IsRetain
  <2>1. subscribers[q].slot = "taken"
    BY <1>6, <1>7
  <2> QED BY <1>5, <2>1 DEF TakenByRetain, IsRetain, n
<1> QED BY <1>8, <1>9, <1>10, <1>11, <1>12, <1>13

LEMMA NextSubscriber ==
    ASSUME SubscriberInv, [SubscriberNext]_subscriberVars
    PROVE  SubscriberInv'
<1>1. CASE UNCHANGED subscriberVars
  <2>1. SubscriberTypeOK'
    BY <1>1 DEF subscriberVars, SubscriberInv, SubscriberTypeOK
  <2> QED BY <1>1, <2>1 DEF subscriberVars, SubscriberInv, IdsOfKey, PlacesApart, LivePlaces,
                            FramesFit, TakenByRetain, IsRetain, Born
<1>2. CASE \E now \in BOOLEAN : Insert(now)
  BY <1>2, InsertKeepsInv
<1>3. CASE \E i \in SubscriberIds : Activate(i) \/ Unsubscribe(i) \/ Detach(i)
  BY <1>3, QuietKeepsInv, UnsubscribeKeepsInv
<1>4. CASE \E k \in Keys : Retain(k) \/ RemoveKey(k)
  BY <1>4, RetainKeepsInv, RemoveKeyKeepsInv
<1>5. CASE \E i \in SubscriberIds : Visit(i) \/ NextRemoved(i)
  BY <1>5, VisitKeepsInv, RemovedKeepsInv
<1>6. CASE \E keep \in BOOLEAN : Return(keep)
  BY <1>6, ReturnKeepsInv
<1>7. CASE FinishRetain
  BY <1>7, FinishRetainKeepsInv
<1>8. CASE ReturnRemoved
  <2>1. PICK i : i \in TopCall.ids
    BY <1>8, TopFacts DEF ReturnRemoved, SubscriberInv, FramesFit
  <2>2. i \in SubscriberIds
    BY <1>8, <2>1, TopFacts, FrameFacts DEF ReturnRemoved, SubscriberInv
  <2> QED BY <1>8, <2>2, RemovedKeepsInv
<1>9. CASE FinishRemove
  BY <1>9, FinishRemoveKeepsInv
<1> QED BY <1>1, <1>2, <1>3, <1>4, <1>5, <1>6, <1>7, <1>8, <1>9 DEF SubscriberNext

-----------------------------------------------------------------------------
\* The inductive invariant.
THEOREM SubscriberInvHolds == SubscriberSpec => []SubscriberInv
<1>1. SubscriberInit => SubscriberInv
  BY InitSubscriber
<1>2. SubscriberInv /\ [SubscriberNext]_subscriberVars => SubscriberInv'
  BY NextSubscriber
<1> QED BY <1>1, <1>2, PTL DEF SubscriberSpec

\* No subscriber is lost, doubled or behind a key that nobody will give back
\* (SubscriberSet::insert, retain, remove), however callbacks re-enter the set.
THEOREM NoneIsLost == SubscriberSpec => []SubscribersInPlace
<1>1. SubscriberInv => SubscribersInPlace
  <2> SUFFICES ASSUME SubscriberInv PROVE NeverLost /\ NoStuckKey
    BY DEF SubscriberInv, SubscribersInPlace
  <2> USE DEF SubscriberInv
  <2>1. NoStuckKey
    BY DEF TakenByRetain, NoStuckKey, InCall
  <2>2. ASSUME NEW i \in Born
        PROVE  /\ i \notin dropped \cup refused => Cardinality(Homes(i)) = 1
               /\ Cardinality(Homes(i)) <= 1
    <3>1. \A d \in Homes(i) : d = 0 \/ d \in 1..Len(stack)
      BY DEF Homes
    <3>2. \A d, e \in Homes(i) : d = e
      BY DEF Homes, PlacesApart, IsRetain, IdsOfKey
    <3>3. i \notin dropped \cup refused => Homes(i) # {}
      BY DEF Homes, LivePlaces, IsRetain
    <3>4. CASE Homes(i) = {}
      BY <3>3, <3>4, FS_EmptySet
    <3>5. CASE Homes(i) # {}
      <4>1. PICK d : Homes(i) = {d}
        BY <3>2, <3>5
      <4>2. Cardinality({d}) = 1
        BY FS_Singleton
      <4> QED BY <4>1, <4>2
    <3> QED BY <3>4, <3>5
  <2> QED BY <2>1, <2>2 DEF NeverLost
<1> QED BY <1>1, SubscriberInvHolds, PTL

\* A callback that has not begun is not a step of RetainCallsLive.
Begins(d) ==
    /\ stack'[d].call = "retain" /\ stack'[d].calling # 0
    /\ d > Len(stack) \/ stack[d].calling # stack'[d].calling

\* Only Visit begins a callback of a retain, in the call on top.
LEMMA OnlyVisitBegins ==
    ASSUME SubscriberInv, [SubscriberNext]_subscriberVars,
           NEW d \in 1..Len(stack'), Begins(d)
    PROVE  \E i \in SubscriberIds : Visit(i) /\ d = Len(stack)
<1> DEFINE n == Len(stack)
<1> USE DEF SubscriberInv
<1>0. n \in Nat
  BY DEF SubscriberTypeOK
<1>1. ASSUME stack' = stack PROVE FALSE
  BY <1>0, <1>1 DEF Begins
<1>2. ASSUME stack # <<>>, stack' = CallsBelow PROVE FALSE
  <2>1. d \in 1..n /\ stack'[d] = stack[d]
    BY <1>2, PopFacts
  <2> QED BY <1>0, <2>1 DEF Begins
<1>3. ASSUME NEW f \in Frames, f.calling = 0, stack' = Append(stack, f) PROVE FALSE
  <2>1. (d \in 1..n /\ stack'[d] = stack[d]) \/ stack'[d] = f
    BY <1>3, PushFacts
  <2> QED BY <1>0, <1>3, <2>1 DEF Begins
<1>4. ASSUME stack # <<>>, NEW f \in Frames, stack' = ReplaceTop(f)
      PROVE  d = n /\ f.call = "retain" /\ f.calling # 0
  <2>1. /\ Len(stack') = n /\ stack'[n] = f
        /\ \A e \in 1..n : e # n => stack'[e] = stack[e]
    BY <1>4, ReplaceFacts
  <2> QED BY <1>0, <2>1 DEF Begins
<1>5. CASE UNCHANGED subscriberVars
  BY <1>1, <1>5 DEF subscriberVars
<1>6. CASE \E now \in BOOLEAN : Insert(now)
  BY <1>1, <1>6 DEF Insert
<1>7. CASE \E i \in SubscriberIds : Activate(i) \/ Unsubscribe(i) \/ Detach(i)
  BY <1>1, <1>7 DEF Activate, Unsubscribe, Detach
<1>8. ASSUME NEW k \in Keys, Retain(k) PROVE FALSE
  <2> DEFINE f == [call |-> "retain", key |-> k, ids |-> subscribers[k].ids,
                   todo |-> subscribers[k].ids, calling |-> 0]
  <2>1. f \in Frames /\ f.calling = 0
    BY EntryFacts DEF SubscriberTypeOK, Frames
  <2>2. stack' = Append(stack, f)
    BY <1>8 DEF Retain
  <2> QED BY <1>3, <2>1, <2>2
<1>9. ASSUME NEW k \in Keys, RemoveKey(k) PROVE FALSE
  <2> DEFINE f == [call |-> "remove", key |-> k, ids |-> subscribers[k].ids,
                   todo |-> subscribers[k].ids, calling |-> 0]
  <2>1. f \in Frames /\ f.calling = 0
    BY EntryFacts DEF SubscriberTypeOK, Frames
  <2>2. stack' = Append(stack, f) \/ stack' = stack
    BY <1>9 DEF RemoveKey
  <2> QED BY <1>1, <1>3, <2>1, <2>2
<1>10. ASSUME NEW i \in SubscriberIds, Visit(i) PROVE d = n
  <2> DEFINE f == [TopCall EXCEPT
                    !.todo = @ \ {i},
                    !.calling = IF i \in active \ dropped THEN i ELSE 0,
                    !.ids = IF i \in active \cap dropped THEN @ \ {i} ELSE @]
  <2>1. stack # <<>> /\ stack' = ReplaceTop(f)
    BY <1>10 DEF Visit, ComesTo
  <2>2. TopCall \in Frames
    BY <2>1, TopFacts
  <2>3. f \in Frames
    BY <2>2 DEF Frames
  <2> QED BY <1>4, <2>1, <2>3
<1>11. ASSUME NEW i \in SubscriberIds, NextRemoved(i) PROVE FALSE
  <2> DEFINE f == [TopCall EXCEPT !.todo = @ \ {i},
                                  !.calling = IF i \in active THEN i ELSE 0]
  <2>1. stack # <<>> /\ stack' = ReplaceTop(f) /\ TopCall.call = "remove"
    BY <1>11 DEF NextRemoved, ComesTo
  <2>2. TopCall \in Frames
    BY <2>1, TopFacts
  <2>3. f \in Frames /\ f.call = "remove"
    BY <2>1, <2>2 DEF Frames
  <2> QED BY <1>4, <2>1, <2>3
<1>12. ASSUME NEW keep \in BOOLEAN, Return(keep) PROVE FALSE
  <2> DEFINE f == [TopCall EXCEPT !.calling = 0,
                      !.ids = IF keep /\ TopCall.calling \notin dropped THEN @
                              ELSE @ \ {TopCall.calling}]
  <2>1. stack # <<>> /\ stack' = ReplaceTop(f)
    BY <1>12 DEF Return
  <2>2. TopCall \in Frames
    BY <2>1, TopFacts
  <2>3. f \in Frames /\ f.calling = 0
    BY <2>2 DEF Frames
  <2> QED BY <1>4, <2>1, <2>3
<1>13. ASSUME ReturnRemoved PROVE FALSE
  <2> DEFINE f == [TopCall EXCEPT !.calling = 0]
  <2>1. stack # <<>> /\ stack' = ReplaceTop(f)
    BY <1>13 DEF ReturnRemoved
  <2>2. TopCall \in Frames
    BY <2>1, TopFacts
  <2>3. f \in Frames /\ f.calling = 0
    BY <2>2 DEF Frames
  <2> QED BY <1>4, <2>1, <2>3
<1>14. ASSUME FinishRetain \/ FinishRemove PROVE FALSE
  BY <1>2, <1>14 DEF FinishRetain, FinishRemove
<1> QED BY <1>5, <1>6, <1>7, <1>8, <1>9, <1>10, <1>11, <1>12, <1>13, <1>14
        DEF SubscriberNext

\* A callback starts for a live subscription only, and never inside itself
\* (SubscriberSet::retain): the id that is visited is in the local map of the
\* call on top, so it is in no call below and was not given up.
THEOREM CallbacksAreLive == SubscriberSpec => RetainCallsLive
<1>1. ASSUME SubscriberInv, [SubscriberNext]_subscriberVars,
             NEW d \in 1..Len(stack'), Begins(d)
      PROVE  /\ stack'[d].calling \in active \ (dropped \cup refused)
             /\ \A e \in 1..(d - 1) : stack'[e].calling # stack'[d].calling
  <2> USE <1>1 DEF SubscriberInv
  <2>1. PICK i \in SubscriberIds : Visit(i) /\ d = Len(stack)
    BY OnlyVisitBegins
  <2> DEFINE n == Len(stack)
             f == [TopCall EXCEPT
                    !.todo = @ \ {i},
                    !.calling = IF i \in active \ dropped THEN i ELSE 0,
                    !.ids = IF i \in active \cap dropped THEN @ \ {i} ELSE @]
  <2>2. stack # <<>> /\ stack' = ReplaceTop(f) /\ i \in TopCall.todo
        /\ TopCall.call = "retain"
    BY <2>1 DEF Visit, ComesTo
  <2>3. n \in Nat /\ n \in 1..n /\ TopCall \in Frames /\ TopCall = stack[n]
    BY <2>2, TopFacts
  <2>4. f \in Frames /\ f.calling = IF i \in active \ dropped THEN i ELSE 0
    BY <2>3 DEF Frames
  <2> HIDE DEF f
  <2>5. /\ stack'[n] = f
        /\ \A e \in 1..n : e # n => stack'[e] = stack[e]
    BY <2>2, <2>4, ReplaceFacts
  <2>6. stack'[d].calling = i /\ i \in active \ dropped
    BY <2>1, <2>4, <2>5 DEF Begins
  <2>7. i \in stack[n].ids /\ i \notin refused /\ i # 0
    BY <2>2, <2>3 DEF FramesFit, IsRetain, SubscriberIds
  <2>8. ASSUME NEW e \in 1..(n - 1) PROVE stack[e].calling # i
    <3>1. e \in 1..n /\ e # n
      BY <2>3
    <3>2. CASE IsRetain(e)
      <4>1. stack[e].ids \cap stack[n].ids = {}
        BY <2>2, <2>3, <3>1, <3>2 DEF PlacesApart, IsRetain
      <4> QED BY <2>7, <3>1, <4>1 DEF FramesFit
    <3>3. CASE ~IsRetain(e)
      BY <2>7, <3>1, <3>3 DEF FramesFit
    <3> QED BY <3>2, <3>3
  <2>9. \A e \in 1..(n - 1) : e \in 1..n /\ e # n
    BY <2>3
  <2> QED BY <2>1, <2>5, <2>6, <2>7, <2>8, <2>9
<1>2. SubscriberInv /\ [SubscriberNext]_subscriberVars =>
        [\A d \in 1..Len(stack') :
          LET i == stack'[d].calling
          IN  /\ stack'[d].call = "retain" /\ i # 0
              /\ d > Len(stack) \/ stack[d].calling # i
              => /\ i \in active \ (dropped \cup refused)
                 /\ \A e \in 1..(d - 1) : stack'[e].calling # i]_subscriberVars
  BY <1>1 DEF Begins
<1> QED BY <1>2, SubscriberInvHolds, PTL DEF SubscriberSpec, RetainCallsLive

-----------------------------------------------------------------------------
(***************************************************************************)
(* Views, for every tree of panels and items.                              *)
(*                                                                         *)
(* Whatever renders read, a view that is due keeps its panel dirty until   *)
(* it is rendered again (DrawInv), so no draw recycles it.  And if what a  *)
(* panel shows is read only inside it, what is on screen is current or the *)
(* window knows that it is not: the state of a panel holds views of its    *)
(* own only, and all of those it shows, before and after the panel's turn  *)
(* in a draw (StatesFit), so recycling a panel tracks what it shows.       *)
(***************************************************************************)

\* A panel and the views that may be shown in it.
Within(p) == {p} \cup {i \in Items : Home[i] = p}

IsTree(frame) == \A i \in Items \cap frame : Home[i] \in frame

FramesAreTrees ==
    /\ IsTree(rendered_frame) /\ IsTree(next_frame)
    /\ rendered_frame # {} => Root \in rendered_frame
    /\ phase = "prepaint" => Root \in next_frame
    /\ phase # "prepaint" => next_frame = {}

TodoIsAhead == \A k \in todo : phase = "prepaint" /\ Panels[k] \notin next_frame

\* What was notified and not rendered since is known: to the next draw, or to
\* the draw under way, which will not recycle it.
KeptIsKnown ==
    /\ kept \subseteq rendered_frame
    /\ kept \subseteq notified \cup due
    /\ phase # "prepaint" => due = {}

DueIsDirty ==
    \A v \in due :
        /\ v # Root
        /\ v \in rendered_frame
        /\ v \notin next_frame
        /\ \A p \in PanelSet : v \in Within(p) => p \in dirty_views

DrawInv == ViewTypeOK /\ FramesAreTrees /\ TodoIsAhead /\ KeptIsKnown /\ DueIsDirty

\* The hypothesis of ScreenIsCurrent: the render of a view reads views of its
\* own panel, and perhaps the root, which every draw renders.  (The run
\* view_cache_reads shows what happens when the root reads a panel.)
ReadsStayInside ==
    \A v, w \in Views :
        <<v, w>> \in Reads =>
            w = Root \/ \E p \in PanelSet : v \in Within(p) /\ w \in Within(p)

\* The state of p is that of the render that put p into the frame.
Fits(p, frame) ==
    IF p \in frame
    THEN element_state[p] \subseteq Within(p) /\ Within(p) \cap frame \subseteq element_state[p]
    ELSE element_state[p] = NoState

StatesFit ==
    \A p \in PanelSet :
        IF p \in next_frame THEN Fits(p, next_frame) ELSE Fits(p, rendered_frame)

\* During a draw, what was accessed is the root, and views of panels that had
\* their turn; all that is shown was accessed.
AccessedIsShown ==
    /\ phase = "prepaint" =>
          /\ next_frame \subseteq accessed
          /\ \A v \in accessed :
                v = Root \/ \E p \in PanelSet \cap next_frame : v \in Within(p)
    /\ phase = "focus" => rendered_frame \subseteq accessed

\* What was notified between draws was tracked then.
AskedIsKept ==
    /\ asked \subseteq kept
    /\ phase = "prepaint" => asked \subseteq due
    /\ phase = "focus" => asked = {}

ScreenInv ==
    /\ DrawInv
    /\ StatesFit /\ AccessedIsShown /\ AskedIsKept
    /\ ShownIsTracked /\ NotifyRedraws

-----------------------------------------------------------------------------
\* A view is within one panel at most, and the root within none.
LEMMA WithinOne ==
    /\ \A p, q \in PanelSet : \A v : v \in Within(p) /\ v \in Within(q) => p = q
    /\ \A p \in PanelSet : p \in Within(p) /\ Root \notin Within(p)
                           /\ Within(p) \subseteq Views
    /\ \A v \in Views : v = Root \/ \E p \in PanelSet : v \in Within(p)
<1>1. /\ Home \in [Items -> PanelSet]
      /\ Root \notin PanelSet \cup Items /\ PanelSet \cap Items = {}
  BY HomeAssumption, TreeAssumption
<1>2. \A p, q \in PanelSet : \A v : v \in Within(p) /\ v \in Within(q) => p = q
  BY <1>1 DEF Within
<1>3. \A p \in PanelSet : p \in Within(p) /\ Root \notin Within(p)
                          /\ Within(p) \subseteq Views
  BY <1>1 DEF Within, Views
<1>4. \A v \in Views : v = Root \/ \E p \in PanelSet : v \in Within(p)
  BY <1>1 DEF Within, Views
<1> QED BY <1>2, <1>3, <1>4

LEMMA PanelInSet == \A k \in 1..Len(Panels) : Panels[k] \in PanelSet
  BY DEF PanelSet

-----------------------------------------------------------------------------
(* What is due is not recycled, whatever renders read.                     *)

LEMMA InitDraw == ViewInit => DrawInv
<1> SUFFICES ASSUME ViewInit PROVE DrawInv
  OBVIOUS
<1>1. NoState \subseteq Views
  BY DEF NoState, Views
<1>2. ViewTypeOK
  BY <1>1 DEF ViewInit, ViewTypeOK
<1>3. FramesAreTrees /\ TodoIsAhead /\ KeptIsKnown /\ DueIsDirty
  BY DEF ViewInit, FramesAreTrees, TodoIsAhead, IsTree, KeptIsKnown, DueIsDirty
<1> QED BY <1>2, <1>3 DEF DrawInv

\* A notify that is kept is in the invalidator.
LEMMA NotifyKeepsDraw ==
    ASSUME DrawInv, NEW v \in Views, Notify(v)
    PROVE  DrawInv'
<1> USE DEF DrawInv
<1>1. /\ UNCHANGED <<phase, todo, rendered_frame, next_frame, element_state,
                     dirty_views, refreshing, accessed, tracked, due>>
      /\ kept' = kept \cup ({v} \cap rendered_frame \cap tracked)
      /\ asked' = IF phase = "none" THEN asked \cup ({v} \cap rendered_frame) ELSE asked
  BY DEF Notify
<1>2. IF v \in tracked THEN notified' = notified \cup {v} ELSE notified' = notified
  BY Zenon DEF Notify, InvalidateView
<1>3. dirty' \in BOOLEAN
  BY Zenon DEF Notify, InvalidateView, ViewTypeOK
<1>4. notified' \subseteq Views /\ notified \subseteq notified'
  BY <1>2 DEF ViewTypeOK
<1>5. ViewTypeOK'
  BY <1>1, <1>3, <1>4 DEF ViewTypeOK
<1>6. FramesAreTrees' /\ TodoIsAhead' /\ DueIsDirty'
  BY <1>1 DEF FramesAreTrees, IsTree, TodoIsAhead, DueIsDirty
<1>7. KeptIsKnown'
  BY <1>1, <1>2, <1>4 DEF KeptIsKnown
<1> QED BY <1>5, <1>6, <1>7

LEMMA RefreshKeepsDraw ==
    ASSUME DrawInv, Refresh
    PROVE  DrawInv'
<1> USE DEF DrawInv
<1>1. UNCHANGED <<phase, todo, rendered_frame, next_frame, element_state,
                   notified, dirty_views, accessed, tracked, asked, kept, due>>
  BY DEF Refresh
<1>2. refreshing' \in BOOLEAN /\ dirty' \in BOOLEAN
  BY Zenon DEF Refresh
<1>3. ViewTypeOK'
  BY <1>1, <1>2 DEF ViewTypeOK
<1> QED BY <1>1, <1>3 DEF FramesAreTrees, IsTree, TodoIsAhead, KeptIsKnown, DueIsDirty

\* A draw takes the views that were notified with the views around them.
LEMMA StartDrawKeepsDraw ==
    ASSUME DrawInv, NEW shown, NEW reads \in SUBSET MayRead(Root),
           StartDraw(shown, reads)
    PROVE  DrawInv'
<1> USE DEF DrawInv
<1>1. /\ phase = "none" /\ phase' = "prepaint"
      /\ dirty_views' = MarkDirty /\ notified' = {}
      /\ accessed' = {Root} \cup reads /\ next_frame' = {Root}
      /\ todo' = {k \in 1..Len(Panels) : Panels[k] \in shown}
      /\ due' = kept \ {Root} /\ kept' = kept \ {Root} /\ asked' = asked \ {Root}
      /\ UNCHANGED <<rendered_frame, element_state, refreshing, tracked>>
  BY DEF StartDraw
<1>2. dirty' \in BOOLEAN
  BY Zenon DEF StartDraw
<1>3. Root \in Views /\ Root \notin PanelSet /\ reads \subseteq Views
  BY TreeAssumption DEF Views, MayRead
<1>4. dirty_views' \subseteq rendered_frame
  BY <1>1 DEF MarkDirty, PathOf, FramesAreTrees, IsTree
<1>5. ViewTypeOK'
  BY <1>1, <1>2, <1>3, <1>4 DEF ViewTypeOK
<1>6. FramesAreTrees' /\ TodoIsAhead'
  BY <1>1, <1>3, TreeAssumption, PanelInSet DEF FramesAreTrees, IsTree, TodoIsAhead
<1>7. KeptIsKnown'
  BY <1>1 DEF KeptIsKnown
<1>8. DueIsDirty'
  <2> SUFFICES ASSUME NEW v \in due'
               PROVE  /\ v # Root /\ v \in rendered_frame /\ v \notin next_frame'
                      /\ \A p \in PanelSet : v \in Within(p) => p \in dirty_views'
    BY <1>1 DEF DueIsDirty
  <2>1. v # Root /\ v \in rendered_frame /\ v \in notified
    BY <1>1 DEF KeptIsKnown
  <2>2. PathOf(v) \subseteq dirty_views'
    BY <1>1, <2>1 DEF MarkDirty
  <2>3. \A p \in PanelSet : v \in Within(p) => p \in PathOf(v)
    BY <2>1 DEF PathOf, Within
  <2> QED BY <1>1, <2>1, <2>2, <2>3
<1> QED BY <1>5, <1>6, <1>7, <1>8

\* The panel whose turn it is has no view in the new frame yet.
LEMMA NextIsAbsent ==
    ASSUME DrawInv, NEW k \in 1..Len(Panels), IsNext(k)
    PROVE  /\ phase = "prepaint" /\ Panels[k] \in PanelSet
           /\ Within(Panels[k]) \cap next_frame = {}
           /\ \A l \in todo \ {k} : Panels[l] \in PanelSet /\ Panels[l] # Panels[k]
<1>1. /\ phase = "prepaint" /\ Panels[k] \in PanelSet
      /\ Panels[k] \notin next_frame
  BY PanelInSet DEF IsNext, DrawInv, TodoIsAhead
<1>2. Within(Panels[k]) \cap next_frame = {}
  BY <1>1 DEF DrawInv, FramesAreTrees, IsTree, Within
<1>3. \A l \in todo \ {k} : Panels[l] \in PanelSet /\ Panels[l] # Panels[k]
  BY PanelsAssumption, PanelInSet DEF DrawInv, ViewTypeOK
<1> QED BY <1>1, <1>2, <1>3

\* A panel with a view that is due is not clean.
LEMMA RecycleKeepsDraw ==
    ASSUME DrawInv, NEW k \in 1..Len(Panels), Recycle(k)
    PROVE  DrawInv'
<1> USE DEF DrawInv
<1> DEFINE p == Panels[k]
<1>1. /\ IsNext(k) /\ Clean(p) /\ todo' = todo \ {k}
      /\ next_frame' = next_frame \cup SubtreeOf(p)
      /\ accessed' = accessed \cup element_state[p]
      /\ UNCHANGED <<phase, rendered_frame, element_state, dirty, notified,
                   dirty_views, refreshing, tracked, asked, kept, due>>
  BY DEF Recycle
<1>2. /\ phase = "prepaint" /\ p \in PanelSet
      /\ \A l \in todo \ {k} : Panels[l] \in PanelSet /\ Panels[l] # p
  BY <1>1, NextIsAbsent
<1> HIDE DEF p
<1>3. SubtreeOf(p) \subseteq Within(p) /\ p \in SubtreeOf(p) /\ Within(p) \subseteq Views
  BY <1>2, WithinOne DEF SubtreeOf, Within
<1>4. ViewTypeOK'
  BY <1>1, <1>2, <1>3 DEF ViewTypeOK
<1>5. FramesAreTrees'
  <2>1. \A i \in Items \cap SubtreeOf(p) : Home[i] = p
    BY <1>2, TreeAssumption DEF SubtreeOf
  <2>2. IsTree(next_frame)'
    BY <1>1, <1>3, <2>1 DEF FramesAreTrees, IsTree
  <2> QED BY <1>1, <1>2, <2>2 DEF FramesAreTrees, IsTree
<1>6. TodoIsAhead'
  <2>1. \A l \in todo \ {k} : Panels[l] \notin SubtreeOf(p)
    BY <1>2, <1>3, WithinOne
  <2> QED BY <1>1, <2>1 DEF TodoIsAhead
<1>7. KeptIsKnown'
  BY <1>1 DEF KeptIsKnown
<1>8. DueIsDirty'
  BY <1>1, <1>2, <1>3 DEF DueIsDirty, Clean
<1> QED BY <1>4, <1>5, <1>6, <1>7, <1>8

LEMMA RenderKeepsDraw ==
    ASSUME DrawInv, NEW k \in 1..Len(Panels), NEW shown \in SUBSET Items,
           NEW reads \in SUBSET Views, Render(k, shown, reads)
    PROVE  DrawInv'
<1> USE DEF DrawInv
<1> DEFINE p == Panels[k]
           got == {p} \cup shown \cup reads
<1>1. /\ IsNext(k) /\ todo' = todo \ {k}
      /\ \A i \in shown : Home[i] = p
      /\ next_frame' = next_frame \cup {p} \cup shown
      /\ accessed' = accessed \cup got
      /\ element_state' = [element_state EXCEPT ![p] = got \ accessed]
      /\ asked' = asked \ ({p} \cup shown)
      /\ kept' = kept \ ({p} \cup shown)
      /\ due' = due \ ({p} \cup shown)
      /\ UNCHANGED <<phase, rendered_frame, dirty, notified, dirty_views,
                   refreshing, tracked>>
  BY DEF Render
<1>2. /\ phase = "prepaint" /\ p \in PanelSet
      /\ \A l \in todo \ {k} : Panels[l] \in PanelSet /\ Panels[l] # p
  BY <1>1, NextIsAbsent
<1> HIDE DEF p
<1>3. p \in Views /\ shown \subseteq Views /\ got \subseteq Views
  BY <1>2 DEF Views
<1> HIDE DEF got
<1>4. ViewTypeOK'
  <2>1. element_state' \in [PanelSet -> SUBSET Views]
    BY <1>1, <1>2, <1>3 DEF ViewTypeOK
  <2> QED BY <1>1, <1>3, <2>1 DEF ViewTypeOK
<1>5. FramesAreTrees'
  <2>1. IsTree(next_frame)'
    BY <1>1, <1>2, TreeAssumption DEF FramesAreTrees, IsTree
  <2> QED BY <1>1, <1>2, <2>1 DEF FramesAreTrees, IsTree
<1>6. TodoIsAhead'
  <2>1. \A l \in todo \ {k} : Panels[l] \notin {p} \cup shown
    BY <1>2, TreeAssumption
  <2> QED BY <1>1, <2>1 DEF TodoIsAhead
<1>7. KeptIsKnown' /\ DueIsDirty'
  BY <1>1 DEF KeptIsKnown, DueIsDirty
<1> QED BY <1>4, <1>5, <1>6, <1>7

LEMMA SwapFramesKeepsDraw ==
    ASSUME DrawInv, SwapFrames
    PROVE  DrawInv'
<1> USE DEF DrawInv
<1>1. /\ phase = "prepaint" /\ todo = {} /\ phase' = "focus"
      /\ dirty_views' = {} /\ rendered_frame' = next_frame /\ next_frame' = {}
      /\ element_state' = [p \in PanelSet |-> IF p \in next_frame
                                            THEN element_state[p] ELSE NoState]
      /\ asked' = asked \cap next_frame
      /\ kept' = kept \cap next_frame
      /\ due' = {}
      /\ UNCHANGED <<todo, dirty, notified, refreshing, accessed, tracked>>
  BY DEF SwapFrames
<1>2. NoState \subseteq Views
  BY DEF NoState, Views
<1>3. ViewTypeOK'
  BY <1>1, <1>2 DEF ViewTypeOK
<1>4. FramesAreTrees' /\ TodoIsAhead' /\ DueIsDirty'
  BY <1>1 DEF FramesAreTrees, IsTree, TodoIsAhead, DueIsDirty
<1>5. KeptIsKnown'
  BY <1>1 DEF KeptIsKnown, DueIsDirty
<1> QED BY <1>3, <1>4, <1>5

LEMMA EndDrawKeepsDraw ==
    ASSUME DrawInv, NEW moved \in BOOLEAN, EndDraw(moved)
    PROVE  DrawInv'
<1> USE DEF DrawInv
<1>1. /\ phase = "focus" /\ phase' = "none" /\ tracked' = accessed
      /\ UNCHANGED <<todo, rendered_frame, next_frame, element_state, notified,
                   dirty_views, accessed, asked, kept, due>>
  BY DEF EndDraw
<1>2. refreshing' \in BOOLEAN /\ dirty' \in BOOLEAN
  BY Zenon DEF EndDraw
<1>3. ViewTypeOK'
  BY <1>1, <1>2 DEF ViewTypeOK
<1> QED BY <1>1, <1>3 DEF FramesAreTrees, IsTree, TodoIsAhead, KeptIsKnown, DueIsDirty

\* The inductive invariant of what is due.
THEOREM DrawInvHolds == ViewSpec => []DrawInv
<1>1. ViewInit => DrawInv
  BY InitDraw
<1>2. DrawInv /\ [ViewNext]_viewVars => DrawInv'
  <2> SUFFICES ASSUME DrawInv, [ViewNext]_viewVars PROVE DrawInv'
    OBVIOUS
  <2>1. CASE UNCHANGED viewVars
    BY <2>1 DEF viewVars, DrawInv, ViewTypeOK, FramesAreTrees, IsTree, TodoIsAhead,
                KeptIsKnown, DueIsDirty
  <2>2. CASE \E v \in Views : Notify(v)
    BY <2>2, NotifyKeepsDraw
  <2>3. CASE Refresh
    BY <2>3, RefreshKeepsDraw
  <2>4. CASE \E shown \in SUBSET PanelSet, reads \in SUBSET MayRead(Root) :
                StartDraw(shown, reads)
    BY <2>4, StartDrawKeepsDraw
  <2>5. CASE \E k \in 1..Len(Panels) : Recycle(k)
    BY <2>5, RecycleKeepsDraw
  <2>6. CASE \E k \in 1..Len(Panels), shown \in SUBSET Items,
                reads \in SUBSET {w \in Views : \E v \in Views : <<v, w>> \in Reads} :
                Render(k, shown, reads)
    BY <2>6, RenderKeepsDraw
  <2>7. CASE SwapFrames
    BY <2>7, SwapFramesKeepsDraw
  <2>8. CASE \E moved \in BOOLEAN : EndDraw(moved)
    BY <2>8, EndDrawKeepsDraw
  <2> QED BY <2>1, <2>2, <2>3, <2>4, <2>5, <2>6, <2>7, <2>8 DEF ViewNext
<1> QED BY <1>1, <1>2, PTL DEF ViewSpec

\* No draw recycles a view that was notified before it started, be it during
\* the draw before (WindowInvalidator::invalidate_view, Window::draw,
\* ViewElement::prepaint), whatever renders read.
THEOREM DueIsNeverRecycled == ViewSpec => []NextDrawHonours
<1>1. DrawInv => NextDrawHonours
  BY DEF DrawInv, DueIsDirty, NextDrawHonours
<1> QED BY <1>1, DrawInvHolds, PTL

-----------------------------------------------------------------------------
(* What is on screen is current, if reads stay inside panels.              *)

LEMMA InitScreen == ViewInit => ScreenInv
<1> SUFFICES ASSUME ViewInit PROVE ScreenInv
  OBVIOUS
<1>1. AccessedIsShown /\ AskedIsKept /\ ShownIsTracked /\ NotifyRedraws
  BY DEF ViewInit, AccessedIsShown, AskedIsKept, ShownIsTracked, NotifyRedraws
<1>2. StatesFit
  BY DEF ViewInit, StatesFit, Fits
<1> QED BY <1>1, <1>2, InitDraw DEF ScreenInv

\* What is on screen is tracked, so a notify between draws marks the window.
LEMMA NotifyKeepsScreen ==
    ASSUME ScreenInv, NEW v \in Views, Notify(v)
    PROVE  ScreenInv'
<1> USE DEF ScreenInv
<1>1. /\ UNCHANGED <<phase, rendered_frame, next_frame, element_state, accessed,
                     tracked, due>>
      /\ kept' = kept \cup ({v} \cap rendered_frame \cap tracked)
      /\ asked' = IF phase = "none" THEN asked \cup ({v} \cap rendered_frame) ELSE asked
  BY DEF Notify
<1>2. IF v \in tracked THEN dirty' = (dirty \/ phase = "none") ELSE dirty' = dirty
  BY Zenon DEF Notify, InvalidateView
<1>3. phase = "none" => rendered_frame \subseteq tracked
  BY DEF ShownIsTracked
<1>4. AccessedIsShown' /\ ShownIsTracked' /\ StatesFit'
  BY <1>1 DEF AccessedIsShown, ShownIsTracked, StatesFit, Fits
<1>5. AskedIsKept'
  BY <1>1, <1>3 DEF AskedIsKept
<1>6. NotifyRedraws'
  <2>1. CASE v \in tracked
    BY <1>1, <1>2, <2>1 DEF NotifyRedraws
  <2>2. CASE v \notin tracked
    <3>1. phase = "none" => asked' = asked
      BY <1>1, <1>3, <2>2
    <3>2. dirty' = dirty
      BY <1>2, <2>2
    <3> QED BY <1>1, <3>1, <3>2 DEF NotifyRedraws
  <2> QED BY <2>1, <2>2
<1> QED BY <1>4, <1>5, <1>6, NotifyKeepsDraw

LEMMA RefreshKeepsScreen ==
    ASSUME ScreenInv, Refresh
    PROVE  ScreenInv'
<1> USE DEF ScreenInv
<1>1. UNCHANGED <<phase, rendered_frame, next_frame, element_state, accessed, tracked,
                  asked, kept, due>>
  BY DEF Refresh
<1>2. AccessedIsShown' /\ ShownIsTracked' /\ AskedIsKept' /\ StatesFit'
  BY <1>1 DEF AccessedIsShown, ShownIsTracked, AskedIsKept, StatesFit, Fits
<1>3. NotifyRedraws'
  BY DEF Refresh, NotifyRedraws
<1> QED BY <1>2, <1>3, RefreshKeepsDraw

LEMMA StartDrawKeepsScreen ==
    ASSUME ScreenInv, ReadsStayInside, NEW shown, NEW reads \in SUBSET MayRead(Root),
           StartDraw(shown, reads)
    PROVE  ScreenInv'
<1> USE DEF ScreenInv
<1>1. /\ phase = "none" /\ phase' = "prepaint"
      /\ accessed' = {Root} \cup reads /\ next_frame' = {Root}
      /\ due' = kept \ {Root} /\ kept' = kept \ {Root} /\ asked' = asked \ {Root}
      /\ UNCHANGED <<rendered_frame, element_state>>
  BY DEF StartDraw
<1>2. Root \in Views /\ Root \notin PanelSet
  BY TreeAssumption DEF Views
<1>3. reads \subseteq {Root}
  BY <1>2, WithinOne DEF MayRead, ReadsStayInside
<1>4. \A p \in PanelSet : p \notin next_frame /\ p \notin next_frame'
  BY <1>1, <1>2 DEF DrawInv, FramesAreTrees
<1>5. StatesFit'
  BY <1>1, <1>4 DEF StatesFit, Fits
<1>6. AccessedIsShown' /\ AskedIsKept' /\ ShownIsTracked' /\ NotifyRedraws'
  BY <1>1, <1>3 DEF AccessedIsShown, AskedIsKept, ShownIsTracked, NotifyRedraws
<1> QED BY <1>5, <1>6, StartDrawKeepsDraw

\* Nothing of the panel whose turn it is was accessed yet.
LEMMA NextIsFresh ==
    ASSUME ScreenInv, NEW k \in 1..Len(Panels), IsNext(k)
    PROVE  Within(Panels[k]) \cap accessed = {} /\ Root \in accessed
<1>1. /\ phase = "prepaint" /\ Panels[k] \in PanelSet
      /\ Within(Panels[k]) \cap next_frame = {}
  BY NextIsAbsent DEF ScreenInv
<1>2. Panels[k] \notin next_frame
  BY <1>1, WithinOne
<1>3. Root \in accessed
  BY <1>1 DEF ScreenInv, DrawInv, FramesAreTrees, AccessedIsShown
<1> QED BY <1>1, <1>2, <1>3, WithinOne DEF ScreenInv, AccessedIsShown

\* The views of other panels do not move when p has its turn.
LEMMA OtherPanelsFit ==
    ASSUME ScreenInv, NEW p \in PanelSet, NEW new \in SUBSET Within(p), p \in new,
           next_frame' = next_frame \cup new, UNCHANGED rendered_frame,
           \A q \in PanelSet : q # p => element_state'[q] = element_state[q],
           Fits(p, next_frame)'
    PROVE  StatesFit'
<1> SUFFICES ASSUME NEW q \in PanelSet
             PROVE  (IF q \in next_frame THEN Fits(q, next_frame)
                                         ELSE Fits(q, rendered_frame))'
  BY DEF StatesFit
<1>1. CASE q = p
  BY <1>1
<1>2. CASE q # p
  <2>1. Within(q) \cap next_frame' = Within(q) \cap next_frame
    BY <1>2, WithinOne
  <2>2. q \in next_frame' <=> q \in next_frame
    BY <2>1, WithinOne
  <2> QED BY <1>2, <2>1, <2>2 DEF ScreenInv, StatesFit, Fits
<1> QED BY <1>1, <1>2

\* A recycled panel shows what its state holds.
LEMMA RecycleKeepsScreen ==
    ASSUME ScreenInv, NEW k \in 1..Len(Panels), Recycle(k)
    PROVE  ScreenInv'
<1> USE DEF ScreenInv
<1> DEFINE p == Panels[k]
<1>1. /\ IsNext(k) /\ Clean(p)
      /\ next_frame' = next_frame \cup SubtreeOf(p)
      /\ accessed' = accessed \cup element_state[p]
      /\ UNCHANGED <<phase, rendered_frame, element_state, dirty, tracked, asked, kept,
                     due>>
  BY DEF Recycle
<1>2. /\ phase = "prepaint" /\ p \in PanelSet
      /\ Within(p) \cap next_frame = {}
  BY <1>1, NextIsAbsent
<1> HIDE DEF p
<1>3. p \in Within(p) /\ p \notin next_frame
  BY <1>2, WithinOne
<1>4. p \in rendered_frame /\ Fits(p, rendered_frame)
  BY <1>1, <1>2, <1>3 DEF Clean, StatesFit, Fits
<1>5. /\ SubtreeOf(p) = Within(p) \cap rendered_frame
      /\ SubtreeOf(p) \subseteq element_state[p]
      /\ element_state[p] \subseteq Within(p)
  BY <1>4 DEF Fits, SubtreeOf, Within
<1>6. StatesFit'
  <2>1. Fits(p, next_frame)'
    BY <1>1, <1>2, <1>3, <1>4, <1>5 DEF Fits
  <2> QED BY <1>1, <1>2, <1>3, <1>4, <1>5, <2>1, OtherPanelsFit
<1>7. AccessedIsShown'
  BY <1>1, <1>2, <1>3, <1>4, <1>5 DEF AccessedIsShown
<1>8. AskedIsKept' /\ ShownIsTracked' /\ NotifyRedraws'
  BY <1>1, <1>2 DEF AskedIsKept, ShownIsTracked, NotifyRedraws
<1> QED BY <1>6, <1>7, <1>8, RecycleKeepsDraw

\* A panel that is rendered gets the state of what it shows now.
LEMMA RenderKeepsScreen ==
    ASSUME ScreenInv, ReadsStayInside, NEW k \in 1..Len(Panels),
           NEW shown \in SUBSET Items, NEW reads \in SUBSET Views,
           Render(k, shown, reads)
    PROVE  ScreenInv'
<1> USE DEF ScreenInv
<1> DEFINE p == Panels[k]
           got == {p} \cup shown \cup reads
<1>1. /\ IsNext(k)
      /\ \A i \in shown : Home[i] = p
      /\ reads \subseteq UNION {MayRead(v) : v \in {p} \cup shown}
      /\ next_frame' = next_frame \cup ({p} \cup shown)
      /\ accessed' = accessed \cup got
      /\ element_state' = [element_state EXCEPT ![p] = got \ accessed]
      /\ asked' = asked \ ({p} \cup shown)
      /\ kept' = kept \ ({p} \cup shown)
      /\ due' = due \ ({p} \cup shown)
      /\ UNCHANGED <<phase, rendered_frame, dirty, tracked>>
  BY DEF Render
<1>2. /\ phase = "prepaint" /\ p \in PanelSet
      /\ Within(p) \cap next_frame = {} /\ Within(p) \cap accessed = {}
      /\ Root \in accessed
  BY <1>1, NextIsAbsent, NextIsFresh
<1> HIDE DEF p, got
<1>3. {p} \cup shown \subseteq Within(p) /\ Within(p) \subseteq Views
  BY <1>1, <1>2, WithinOne DEF Within
<1>4. reads \subseteq Within(p) \cup {Root}
  <2> SUFFICES ASSUME NEW w \in reads PROVE w \in Within(p) \cup {Root}
    OBVIOUS
  <2>1. PICK v \in {p} \cup shown : w \in MayRead(v)
    BY <1>1
  <2>2. v \in Within(p) /\ v \in Views /\ w \in Views /\ <<v, w>> \in Reads
    BY <1>3, <2>1 DEF MayRead
  <2> QED BY <1>2, <2>2, WithinOne DEF ReadsStayInside
<1>5. /\ {p} \cup shown \subseteq got \ accessed
      /\ got \ accessed \subseteq Within(p)
      /\ got \subseteq Within(p) \cup {Root} /\ {p} \cup shown \subseteq got
  BY <1>2, <1>3, <1>4 DEF got
<1>6. /\ element_state'[p] = got \ accessed
      /\ \A q \in PanelSet : q # p => element_state'[q] = element_state[q]
  BY <1>1, <1>2 DEF DrawInv, ViewTypeOK
<1>7. StatesFit'
  <2>1. p \in next_frame' /\ Within(p) \cap next_frame' = {p} \cup shown
    BY <1>1, <1>2, <1>3
  <2>2. Fits(p, next_frame)'
    BY <1>5, <1>6, <2>1 DEF Fits
  <2> DEFINE new == {p} \cup shown
  <2>3. new \in SUBSET Within(p) /\ p \in new /\ next_frame' = next_frame \cup new
    BY <1>1, <1>3
  <2> HIDE DEF new
  <2> QED BY <1>1, <1>2, <1>6, <2>2, <2>3, OtherPanelsFit
<1>8. AccessedIsShown'
  BY <1>1, <1>2, <1>5 DEF AccessedIsShown
<1>9. AskedIsKept' /\ ShownIsTracked' /\ NotifyRedraws'
  BY <1>1, <1>2 DEF AskedIsKept, ShownIsTracked, NotifyRedraws
<1> QED BY <1>7, <1>8, <1>9, RenderKeepsDraw

\* What was asked for and is in the new frame was rendered for it.
LEMMA SwapFramesKeepsScreen ==
    ASSUME ScreenInv, SwapFrames
    PROVE  ScreenInv'
<1> USE DEF ScreenInv
<1>1. /\ phase = "prepaint" /\ phase' = "focus"
      /\ rendered_frame' = next_frame /\ next_frame' = {}
      /\ element_state' = [p \in PanelSet |-> IF p \in next_frame
                                            THEN element_state[p] ELSE NoState]
      /\ asked' = asked \cap next_frame
      /\ kept' = kept \cap next_frame
      /\ UNCHANGED accessed
  BY DEF SwapFrames
<1>2. AccessedIsShown' /\ ShownIsTracked' /\ NotifyRedraws'
  BY <1>1 DEF AccessedIsShown, ShownIsTracked, NotifyRedraws
<1>3. StatesFit'
  BY <1>1 DEF StatesFit, Fits
<1>4. AskedIsKept'
  BY <1>1 DEF AskedIsKept, DrawInv, DueIsDirty
<1> QED BY <1>2, <1>3, <1>4, SwapFramesKeepsDraw

LEMMA EndDrawKeepsScreen ==
    ASSUME ScreenInv, NEW moved \in BOOLEAN, EndDraw(moved)
    PROVE  ScreenInv'
<1> USE DEF ScreenInv
<1>1. /\ phase = "focus" /\ phase' = "none" /\ tracked' = accessed
      /\ UNCHANGED <<rendered_frame, next_frame, element_state, accessed, asked, kept,
                     due>>
  BY DEF EndDraw
<1>2. AccessedIsShown' /\ ShownIsTracked' /\ AskedIsKept' /\ NotifyRedraws' /\ StatesFit'
  BY <1>1 DEF AccessedIsShown, ShownIsTracked, AskedIsKept, NotifyRedraws, StatesFit, Fits
<1> QED BY <1>2, EndDrawKeepsDraw

\* The inductive invariant of what is on screen.
THEOREM ScreenInvHolds == ReadsStayInside => (ViewSpec => []ScreenInv)
<1> SUFFICES ASSUME ReadsStayInside PROVE ViewSpec => []ScreenInv
  OBVIOUS
<1>1. ViewInit => ScreenInv
  BY InitScreen
<1>2. ScreenInv /\ [ViewNext]_viewVars => ScreenInv'
  <2> SUFFICES ASSUME ScreenInv, [ViewNext]_viewVars PROVE ScreenInv'
    OBVIOUS
  <2>1. CASE UNCHANGED viewVars
    BY <2>1 DEF viewVars, ScreenInv, DrawInv, ViewTypeOK, FramesAreTrees, IsTree,
                TodoIsAhead, KeptIsKnown, DueIsDirty, StatesFit, Fits, AccessedIsShown,
                AskedIsKept, ShownIsTracked, NotifyRedraws
  <2>2. CASE \E v \in Views : Notify(v)
    BY <2>2, NotifyKeepsScreen
  <2>3. CASE Refresh
    BY <2>3, RefreshKeepsScreen
  <2>4. CASE \E shown \in SUBSET PanelSet, reads \in SUBSET MayRead(Root) :
                StartDraw(shown, reads)
    BY <2>4, StartDrawKeepsScreen
  <2>5. CASE \E k \in 1..Len(Panels) : Recycle(k)
    BY <2>5, RecycleKeepsScreen
  <2>6. CASE \E k \in 1..Len(Panels), shown \in SUBSET Items,
                reads \in SUBSET {w \in Views : \E v \in Views : <<v, w>> \in Reads} :
                Render(k, shown, reads)
    BY <2>6, RenderKeepsScreen
  <2>7. CASE SwapFrames
    BY <2>7, SwapFramesKeepsScreen
  <2>8. CASE \E moved \in BOOLEAN : EndDraw(moved)
    BY <2>8, EndDrawKeepsScreen
  <2> QED BY <2>1, <2>2, <2>3, <2>4, <2>5, <2>6, <2>7, <2>8 DEF ViewNext
<1> QED BY <1>1, <1>2, PTL DEF ViewSpec

\* What is on screen is tracked and current, or the window is dirty
\* (App::notify, Window::draw, ViewElement::prepaint): with any number of panels
\* and items, if reads stay inside panels.
THEOREM ScreenIsCurrent == ReadsStayInside => (ViewSpec => []ViewsAreCurrent)
<1> SUFFICES ASSUME ReadsStayInside PROVE ViewSpec => []ViewsAreCurrent
  OBVIOUS
<1>1. ScreenInv => ViewsAreCurrent
  BY DEF ScreenInv, DrawInv, ViewsAreCurrent
<1> QED BY <1>1, ScreenInvHolds, PTL

-----------------------------------------------------------------------------
(***************************************************************************)
(* Lists, for items of any heights.  A layout leaves no gap because what   *)
(* it measures is what it fills the list with: the heights that were only  *)
(* hints, below and above, count as little as nothing.  Where it resumes    *)
(* following it has measured everything below, since with an overdraw of   *)
(* more than a pixel it would have seen otherwise that more was to come.   *)
(*                                                                         *)
(* The inductive invariant adds that the position is in the list, and that *)
(* what the history says of the item at the top is the position and        *)
(* nothing pending is about to move it (WantedIsTop).                      *)
(***************************************************************************)

ListItems == [known : {"none", "hint", "measured"}, height : Nat]

\* Heights are numbers.
LEMMA ItemFacts ==
    ASSUME NEW s \in Seq(ListItems), NEW n \in 1..Len(s)
    PROVE  s[n] \in ListItems /\ s[n].height \in Nat
<1>1. s[n] \in ListItems
  OBVIOUS
<1> QED BY <1>1 DEF ListItems

\* The recursion of Sums goes up the items, so it defines a function.
LEMMA SumsFacts ==
    ASSUME NEW s \in Seq(ListItems)
    PROVE  /\ Sums(s)[0] = 0
           /\ \A n \in 1..Len(s) : Sums(s)[n] = Sums(s)[n - 1] + s[n].height
<1> DEFINE N == Len(s)
           E(n, f) == IF n = 0 THEN 0 ELSE f[n - 1] + s[n].height
           Is(f) == f = [n \in 0..N |-> E(n, f)]
           T == {k \in Nat : \E f : \A n \in 0..k : f[n] = E(n, f)}
<1>0. N \in Nat
  OBVIOUS
<1>1. Sums(s) = CHOOSE f : Is(f)
  BY Zenon DEF Sums
<1>2. 0 \in T
  <2> DEFINE g == [n \in {0} |-> 0]
  <2>1. \A n \in 0..0 : n = 0 /\ g[n] = 0
    OBVIOUS
  <2>2. \A n \in 0..0 : g[n] = E(n, g)
    BY <2>1
  <2> QED BY <2>2
<1>3. ASSUME NEW k \in Nat, k \in T PROVE k + 1 \in T
  <2>1. PICK f : \A n \in 0..k : f[n] = E(n, f)
    BY <1>3
  <2> DEFINE g == [n \in 0..(k + 1) |-> E(n, f)]
  <2>2. \A n \in 0..(k + 1) : g[n] = E(n, f)
    <3> HIDE DEF E
    <3> QED OBVIOUS
  <2> HIDE DEF g
  <2>3. \A n \in 0..k : g[n] = f[n]
    <3> HIDE DEF E
    <3> QED BY <2>1, <2>2
  <2>4. \A n \in 0..(k + 1) : n # 0 => n - 1 \in 0..k
    OBVIOUS
  <2>5. \A n \in 0..(k + 1) : E(n, g) = E(n, f)
    BY <2>3, <2>4
  <2>6. \A n \in 0..(k + 1) : g[n] = E(n, g)
    <3> HIDE DEF E
    <3> QED BY <2>2, <2>5
  <2> HIDE DEF E
  <2> QED BY <2>6
<1>4. \E f : Is(f)
  <2>1. N \in T
    <3> HIDE DEF T
    <3> QED BY <1>0, <1>2, <1>3, SetInduction
  <2>2. PICK f : \A n \in 0..N : f[n] = E(n, f)
    <3> HIDE DEF E
    <3> QED BY <2>1
  <2> DEFINE g == [n \in 0..N |-> E(n, f)]
  <2>3. \A n \in 0..N : g[n] = f[n]
    <3> HIDE DEF E
    <3> QED BY <2>2
  <2>4. \A n \in 0..N : n # 0 => n - 1 \in 0..N
    BY <1>0
  <2> HIDE DEF g
  <2>5. \A n \in 0..N : E(n, g) = E(n, f)
    BY <2>3, <2>4
  <2> USE DEF g
  <2>6. g = [n \in 0..N |-> E(n, g)]
    <3> HIDE DEF E
    <3> QED BY <2>5
  <2> QED BY <2>6
<1>5. \A n \in 0..N : Sums(s)[n] = E(n, Sums(s))
  <2>1. Is(Sums(s))
    BY <1>1, <1>4
  <2> HIDE DEF E
  <2> QED BY <2>1
<1>6. 0 \in 0..N /\ \A n \in 1..N : n \in 0..N /\ n # 0
  BY <1>0
<1> QED BY <1>5, <1>6

\* Sums of heights are numbers.
LEMMA SumsTypes ==
    ASSUME NEW s \in Seq(ListItems)
    PROVE  \A n \in 0..Len(s) : Sums(s)[n] \in Nat
<1> DEFINE T == {n \in Nat : n <= Len(s) => Sums(s)[n] \in Nat}
<1>1. 0 \in T
  BY SumsFacts
<1>2. ASSUME NEW n \in Nat, n \in T PROVE n + 1 \in T
  <2> SUFFICES ASSUME n + 1 <= Len(s) PROVE Sums(s)[n + 1] \in Nat
    OBVIOUS
  <2>1. n + 1 \in 1..Len(s) /\ (n + 1) - 1 = n /\ Sums(s)[n] \in Nat
    BY <1>2
  <2>2. s[n + 1].height \in Nat
    BY <2>1, ItemFacts
  <2>3. Sums(s)[n + 1] = Sums(s)[n] + s[n + 1].height
    BY <2>1, SumsFacts
  <2> QED BY <2>1, <2>2, <2>3
<1> HIDE DEF T
<1>3. \A n \in Nat : n \in T
  BY <1>1, <1>2, SetInduction
<1> QED BY <1>3 DEF T

\* One height more on both sides.
LEMMA Shifted ==
    ASSUME NEW a \in Nat, NEW b \in Nat, NEW c \in Nat, NEW d \in Nat, NEW h \in Nat, a - b = c - d
    PROVE  (a + h) - b = (c + h) - d
  OBVIOUS

\* What lies between two items depends on the items between them, and is not
\* negative.
LEMMA SumsAgree ==
    ASSUME NEW s \in Seq(ListItems), NEW t \in Seq(ListItems), Len(s) = Len(t),
           NEW p \in 0..Len(s), NEW q \in p..Len(s), \A i \in (p + 1)..q : s[i] = t[i]
    PROVE  Sums(s)[q] - Sums(s)[p] = Sums(t)[q] - Sums(t)[p]
<1> DEFINE T == {k \in Nat : p + k <= q => Sums(s)[p + k] - Sums(s)[p] = Sums(t)[p + k] - Sums(t)[p]}
<1>0. p \in Nat /\ q \in Nat /\ Len(s) \in Nat /\ p <= q /\ q <= Len(s)
  OBVIOUS
<1>1. \A n \in 0..Len(s) : Sums(s)[n] \in Nat /\ Sums(t)[n] \in Nat
  BY SumsTypes
<1>2. 0 \in T
  <2>1. p + 0 = p /\ Sums(s)[p] - Sums(s)[p] = 0 /\ Sums(t)[p] - Sums(t)[p] = 0
    BY <1>0, <1>1
  <2> QED BY <2>1
<1>3. ASSUME NEW k \in Nat, k \in T PROVE k + 1 \in T
  <2> DEFINE n == p + k
  <2> SUFFICES ASSUME n + 1 <= q
               PROVE  Sums(s)[n + 1] - Sums(s)[p] = Sums(t)[n + 1] - Sums(t)[p]
    <3>1. p + (k + 1) = n + 1
      BY <1>0
    <3> QED BY <3>1
  <2>1. n \in 0..Len(s) /\ n + 1 \in 1..Len(s) /\ n + 1 \in (p + 1)..q /\ (n + 1) - 1 = n /\ n <= q
    BY <1>0
  <2>2. Sums(s)[n] - Sums(s)[p] = Sums(t)[n] - Sums(t)[p]
    BY <1>3, <2>1
  <2> HIDE DEF n
  <2>3. /\ Sums(s)[n + 1] = Sums(s)[n] + s[n + 1].height
        /\ Sums(t)[n + 1] = Sums(t)[n] + s[n + 1].height
        /\ s[n + 1].height \in Nat
    <3>1. s[n + 1] = t[n + 1] /\ s[n + 1].height \in Nat
      BY <2>1, ItemFacts
    <3>2. Sums(s)[n + 1] = Sums(s)[n] + s[n + 1].height
      BY <2>1, SumsFacts
    <3>3. Sums(t)[n + 1] = Sums(t)[n] + t[n + 1].height
      BY <2>1, SumsFacts
    <3> QED BY <3>1, <3>2, <3>3
  <2>4. Sums(s)[n] \in Nat /\ Sums(t)[n] \in Nat /\ Sums(s)[p] \in Nat /\ Sums(t)[p] \in Nat
    BY <1>1, <2>1
  <2> DEFINE a == Sums(s)[n]
             b == Sums(s)[p]
             c == Sums(t)[n]
             d == Sums(t)[p]
             h == s[n + 1].height
  <2>5. a \in Nat /\ b \in Nat /\ c \in Nat /\ d \in Nat /\ h \in Nat /\ a - b = c - d
    BY <2>2, <2>3, <2>4
  <2>6. Sums(s)[n + 1] = a + h /\ Sums(t)[n + 1] = c + h
    BY <2>3
  <2> HIDE DEF a, b, c, d, h
  <2>7. (a + h) - b = (c + h) - d
    BY <2>5, Shifted
  <2> QED BY <2>6, <2>7 DEF b, d
<1>4. q - p \in T
  <2>1. q - p \in Nat
    BY <1>0
  <2> HIDE DEF T
  <2> QED BY <1>2, <1>3, <2>1, SetInduction
<1>5. p + (q - p) = q
  BY <1>0
<1> QED BY <1>0, <1>4, <1>5

\* No height is negative.
LEMMA SumsGrow ==
    ASSUME NEW s \in Seq(ListItems), NEW p \in 0..Len(s), NEW q \in p..Len(s)
    PROVE  Sums(s)[p] <= Sums(s)[q]
<1> DEFINE T == {k \in Nat : p + k <= Len(s) => Sums(s)[p] <= Sums(s)[p + k]}
<1>0. p \in Nat /\ q \in Nat /\ Len(s) \in Nat /\ p <= q /\ q <= Len(s)
  OBVIOUS
<1>1. \A n \in 0..Len(s) : Sums(s)[n] \in Nat
  BY SumsTypes
<1>2. 0 \in T
  BY <1>0, <1>1
<1>3. ASSUME NEW k \in Nat, k \in T PROVE k + 1 \in T
  <2> DEFINE n == p + k
  <2> SUFFICES ASSUME n + 1 <= Len(s)
               PROVE  Sums(s)[p] <= Sums(s)[n + 1]
    <3>1. p + (k + 1) = n + 1
      BY <1>0
    <3> QED BY <3>1
  <2>1. n \in 0..Len(s) /\ n + 1 \in 1..Len(s) /\ (n + 1) - 1 = n /\ n <= Len(s)
    BY <1>0
  <2>2. Sums(s)[p] <= Sums(s)[n]
    BY <1>3, <2>1
  <2> HIDE DEF n
  <2>3. Sums(s)[n + 1] = Sums(s)[n] + s[n + 1].height
    BY <2>1, SumsFacts
  <2>4. Sums(s)[n] \in Nat /\ Sums(s)[p] \in Nat /\ s[n + 1].height \in Nat
    BY <1>1, <2>1, ItemFacts
  <2> QED BY <2>2, <2>3, <2>4
<1>4. q - p \in T
  <2>1. q - p \in Nat
    BY <1>0
  <2> HIDE DEF T
  <2> QED BY <1>2, <1>3, <2>1, SetInduction
<1>5. p + (q - p) = q
  BY <1>0
<1> QED BY <1>0, <1>4, <1>5

\* Above and SumOf are these sums.
LEMMA AboveFacts ==
    ASSUME NEW s \in Seq(ListItems)
    PROVE  /\ \A ix \in 0..Len(s) : Above(s, ix) = Sums(s)[ix]
           /\ \A ix \in Nat : Above(s, ix) \in Nat
           /\ SumOf(s) = Sums(s)[Len(s)]
<1>1. ASSUME NEW ix \in Nat
      PROVE  Above(s, ix) \in Nat /\ (ix <= Len(s) => Above(s, ix) = Sums(s)[ix])
  <2>1. Min({ix, Len(s)}) = IF ix <= Len(s) THEN ix ELSE Len(s)
    BY MinOfTwo
  <2>2. Min({ix, Len(s)}) \in 0..Len(s)
    BY <2>1
  <2> QED BY <2>1, <2>2, SumsTypes DEF Above
<1>2. SumOf(s) = Sums(s)[Len(s)]
  BY <1>1 DEF SumOf
<1> QED BY <1>1, <1>2

\* What a layout measures, and from where it fills the list.
LEMMA LastFacts ==
    ASSUME NEW s \in Seq(ListItems), NEW ix \in 0..Len(s), NEW offset \in Int
    PROVE  LET last == LastMeasured(s, ix, offset)
           IN /\ last \in ix..Len(s)
              /\ last = Len(s) \/ Below(s, ix, last) - offset >= View + Overdraw
<1> DEFINE S == {m \in ix..Len(s) : m = Len(s) \/ Below(s, ix, m) - offset >= View + Overdraw}
<1>1. S \in SUBSET Nat
  OBVIOUS
<1>2. Len(s) \in S
  OBVIOUS
<1>3. LastMeasured(s, ix, offset) = Min(S)
  BY DEF LastMeasured
<1>4. Min(S) \in S
  <2> HIDE DEF S
  <2> QED BY <1>1, <1>2, LeastFacts
<1> QED BY <1>3, <1>4

\* Where the list is filled from has a view below it, or is its start.
LEMMA FilledFacts ==
    ASSUME NEW s, NEW ix \in Nat, NEW last
    PROVE  LET from == FilledFrom(s, ix, last)
           IN from \in 0..ix /\ (from = 0 \/ Below(s, from, last) >= View)
<1> DEFINE S == {p \in 0..ix : p = 0 \/ Below(s, p, last) >= View}
<1>1. 0 \in S /\ Bounded(S, ix)
  BY DEF Bounded
<1>2. FilledFrom(s, ix, last) = Max(S)
  BY DEF FilledFrom
<1>3. Max(S) \in S
  <2> HIDE DEF S
  <2> QED BY <1>1, GreatestFacts, Zenon
<1> QED BY <1>2, <1>3

\* What is measured above the position is there.
LEMMA FirstFacts ==
    ASSUME NEW s, NEW ix \in Nat, NEW offset
    PROVE  FirstMeasured(s, ix, offset) \in 0..ix
<1> DEFINE S == {p \in 0..ix : p = 0 \/ offset + Below(s, p, ix) >= Overdraw}
<1>1. 0 \in S /\ Bounded(S, ix)
  BY DEF Bounded
<1>2. FirstMeasured(s, ix, offset) = Max(S)
  BY DEF FirstMeasured
<1>3. Max(S) \in S
  <2> HIDE DEF S
  <2> QED BY <1>1, GreatestFacts, Zenon
<1> QED BY <1>2, <1>3

\* Items m that agree with s where it was measured: what there is below an
\* item that the layout took as the top.
LEMMA ShownFacts ==
    ASSUME NEW s \in Seq(ListItems), NEW m \in Seq(ListItems), Len(m) = Len(s),
           NEW ix \in 0..Len(s), NEW last \in ix..Len(s), \A i \in (ix + 1)..last : m[i] = s[i]
    PROVE  /\ Above(m, last) - Above(m, ix) = Below(s, ix, last)
           /\ SumOf(m) - Above(m, ix) >= Below(s, ix, last)
           /\ SumOf(m) = Above(m, Len(s))
           /\ SumOf(m) \in Nat /\ Above(m, ix) \in Nat /\ Above(m, last) \in Nat
           /\ Below(s, ix, last) \in Int
<1> DEFINE n == Len(s)
<1>0. n \in Nat /\ ix \in 0..n /\ last \in 0..n /\ last \in ix..n /\ n \in last..n /\ n \in 0..n
  OBVIOUS
<1>1. /\ SumOf(m) = Sums(m)[n] /\ Above(m, ix) = Sums(m)[ix] /\ Above(m, last) = Sums(m)[last]
      /\ Above(m, n) = Sums(m)[n]
  BY <1>0, AboveFacts
<1>2. Below(s, ix, last) = Sums(s)[last] - Sums(s)[ix]
  BY <1>0, AboveFacts DEF Below
<1>3. Sums(m)[last] - Sums(m)[ix] = Sums(s)[last] - Sums(s)[ix]
  BY <1>0, SumsAgree
<1>4. Sums(m)[last] <= Sums(m)[n]
  BY <1>0, SumsGrow
<1>5. /\ Sums(m)[n] \in Nat /\ Sums(m)[ix] \in Nat /\ Sums(m)[last] \in Nat
      /\ Sums(s)[ix] \in Nat /\ Sums(s)[last] \in Nat
  BY <1>0, SumsTypes
<1> DEFINE a == Sums(m)[n]
           b == Sums(m)[ix]
           c == Sums(m)[last]
           d == Below(s, ix, last)
<1>6. a \in Nat /\ b \in Nat /\ c \in Nat /\ d \in Int /\ c - b = d /\ c <= a
  BY <1>2, <1>3, <1>4, <1>5
<1> HIDE DEF a, b, c, d
<1>7. a - b >= d
  BY <1>6
<1> QED BY <1>1, <1>6, <1>7 DEF a, b, c, d

\* Positions, in a list of n items.
Tops(n) == {t \in Nat \X Nat : t[1] <= n}

\* A position is not NoTop, and is its two parts.
LEMMA PositionFacts ==
    /\ \A a, b : <<a, b>> # NoTop
    /\ \A a, b, c : <<a, b, c>> # NoTop
    /\ \A n, t : t \in Tops(n) =>
          t # NoTop /\ t[1] \in Nat /\ t[2] \in Nat /\ t[1] <= n /\ t = <<t[1], t[2]>>
    /\ \A n \in Nat, a \in Nat, b \in Nat : a <= n => <<a, b>> \in Tops(n)
<1>1. \A a, b : <<a, b>> # NoTop
  BY DEF NoTop
<1>2. \A a, b, c : <<a, b, c>> # NoTop
  BY DEF NoTop
<1>3. ASSUME NEW n, NEW t \in Tops(n)
      PROVE  t # NoTop /\ t[1] \in Nat /\ t[2] \in Nat /\ t[1] <= n /\ t = <<t[1], t[2]>>
  <2>1. t \in Nat \X Nat /\ t[1] <= n
    BY DEF Tops
  <2>2. t[1] \in Nat /\ t[2] \in Nat /\ t = <<t[1], t[2]>>
    BY <2>1
  <2> QED BY <1>1, <2>1, <2>2
<1>4. ASSUME NEW n \in Nat, NEW a \in Nat, NEW b \in Nat, a <= n
      PROVE  <<a, b>> \in Tops(n)
  BY <1>4 DEF Tops
<1> QED BY <1>1, <1>2, <1>3, <1>4

ListTypes ==
    /\ alignment \in Align
    /\ items \in Seq(ListItems)
    /\ logical_scroll_top = NoTop \/ logical_scroll_top \in Tops(Count)
    /\ pending_scroll = NoTop \/ pending_scroll \in Nat \X Nat \X Nat
    /\ follow_state \in {"normal", "following", "stopped"}
    /\ painted_top \in Nat \X Int

\* What the history says of the item at the top is the position, and what is
\* pending for that item is the same offset, which a layout bounds by the
\* item's height.
WantedIsTop ==
    wanted # NoTop =>
        /\ logical_scroll_top = wanted /\ wanted[1] < Count
        /\ pending_scroll # NoTop /\ pending_scroll[1] = wanted[1] =>
              pending_scroll[3] = 0 /\ pending_scroll[2] = wanted[2]

ListInv == ListTypes /\ WantedIsTop /\ NoGap /\ (Overdraw > 1 => FollowsTheEnd)

\* The step that TopIsKept is about.
KeepsTop ==
    laid_out' /\ wanted # NoTop /\ wanted' # NoTop /\ follow_state # "following"
       => \/ /\ wanted'[1] = wanted[1] /\ wanted'[2] <= wanted[2]
             /\ wanted'[2] \in {wanted[2], items'[wanted'[1] + 1].height}
          \/ SumOf(items') - Above(items', logical_scroll_top'[1]) - logical_scroll_top'[2] <= View

\* Where a layout starts.
Start == IF follow_state = "following" THEN <<Count, 0>> ELSE Top

\* A layout starts in the list: at its end if it follows, or at the position.
LEMMA StartFacts ==
    ASSUME ListTypes
    PROVE  /\ Count \in Nat /\ Start \in Tops(Count) /\ Top \in Tops(Count)
           /\ follow_state = "following" => Start[1] = Count /\ Start[2] = 0
           /\ follow_state # "following" /\ logical_scroll_top # NoTop => Start = logical_scroll_top
<1>1. Count \in Nat
  BY DEF ListTypes, Count
<1>2. <<Count, 0>> \in Tops(Count) /\ <<0, 0>> \in Tops(Count)
  BY <1>1, PositionFacts
<1>3. Top \in Tops(Count)
  BY <1>2 DEF Top, ListTypes
<1> QED BY <1>1, <1>2, <1>3, PositionFacts DEF Start, Top

\* A pending scroll moves the position within its item; where the history says
\* what is wanted, only to the end of an item that shrank.
LEMMA OffsetFacts ==
    ASSUME ListTypes, WantedIsTop, NEW s \in Seq(ListItems), Len(s) = Count
    PROVE  /\ Offset(s, Start) \in Nat
           /\ Start[1] = Count => Offset(s, Start) = Start[2]
           /\ wanted # NoTop /\ follow_state # "following" =>
                 /\ Offset(s, Start) <= Start[2]
                 /\ Offset(s, Start) = Start[2] \/ Offset(s, Start) = s[Start[1] + 1].height
<1> DEFINE top == Start
           h == s[top[1] + 1].height
<1>0. /\ Count \in Nat /\ top[1] \in Nat /\ top[2] \in Nat /\ top[1] <= Count
      /\ follow_state # "following" /\ logical_scroll_top # NoTop => top = logical_scroll_top
  BY StartFacts, PositionFacts
<1> HIDE DEF top
<1>1. CASE top[1] >= Count \/ pending_scroll = NoTop \/ pending_scroll[1] # top[1]
  <2>1. Offset(s, top) = top[2]
    BY <1>1 DEF Offset
  <2> QED BY <1>0, <2>1 DEF top
<1>2. CASE top[1] < Count /\ pending_scroll # NoTop /\ pending_scroll[1] = top[1]
  <2>1. top[1] + 1 \in 1..Len(s)
    BY <1>0, <1>2
  <2>2. h \in Nat
    BY <2>1, ItemFacts
  <2> HIDE DEF h
  <2>3. pending_scroll[2] \in Nat /\ pending_scroll[3] \in Nat
    BY <1>2 DEF ListTypes
  <2>4. ~(top[1] >= Count) /\ ~(top[1] >= Len(s)) /\ top[1] # Count
    BY <1>0, <1>2
  <2>5. Offset(s, top) = IF pending_scroll[3] = 0 THEN Min({pending_scroll[2], h})
                         ELSE (pending_scroll[2] * h) \div pending_scroll[3]
    BY <1>2, <2>4 DEF Offset, h
  <2>6. CASE pending_scroll[3] = 0
    <3>1. /\ Offset(s, top) \in Nat /\ Offset(s, top) <= pending_scroll[2]
          /\ Offset(s, top) = pending_scroll[2] \/ Offset(s, top) = h
      BY <2>2, <2>3, <2>5, <2>6, MinOfTwo
    <3>2. wanted # NoTop /\ follow_state # "following" => pending_scroll[2] = top[2]
      BY <1>0, <1>2 DEF WantedIsTop
    <3> QED BY <2>4, <3>1, <3>2 DEF top, h
  <2>7. CASE pending_scroll[3] # 0
    <3>1. pending_scroll[2] * h \in Nat
      BY <2>2, <2>3
    <3>2. \A a \in Nat, c \in Nat : c # 0 => a \div c \in Nat
      OBVIOUS
    <3>3. Offset(s, top) \in Nat
      BY <2>3, <2>5, <2>7, <3>1, <3>2
    <3>4. ~(wanted # NoTop /\ follow_state # "following")
      BY <1>0, <1>2, <2>7 DEF WantedIsTop
    <3> QED BY <2>4, <3>3, <3>4 DEF top
  <2> QED BY <2>6, <2>7
<1> QED BY <1>0, <1>1, <1>2

\* A layout leaves a filled list, at its end if it follows, and the item at
\* the top where it was or nothing below it.
LEMMA LayoutStep ==
    ASSUME ListTypes, WantedIsTop, NEW other_width \in BOOLEAN, NEW s \in TrueItems(other_width),
           LayoutItems(s, other_width)
    PROVE  ListInv' /\ KeepsTop
<1> DEFINE n == Count
           ix == Start[1]
           offset == Offset(s, Start)
           last == LastMeasured(s, ix, offset)
           height == Below(s, ix, last)
           short == Underfull(height, offset)
           from == FilledFrom(s, ix, last)
           over == Below(s, from, last) - View
           top == IF ~short THEN <<ix, offset>>
                  ELSE IF alignment = "top" THEN <<from, Max({over, 0})>> ELSE <<from, over>>
           first == FirstMeasured(s, top[1], top[2])
           measured == [i \in 1..n |->
                           IF first < i /\ i <= last THEN s[i]
                           ELSE IF other_width THEN [items[i] EXCEPT !.known = "none", !.height = 0]
                           ELSE items[i]]
           shown == Above(measured, last) - (Above(measured, top[1]) + top[2])
<1>1. /\ items' = measured
      /\ pending_scroll' = IF ix < n /\ pending_scroll # NoTop THEN NoTop ELSE pending_scroll
      /\ logical_scroll_top' =
             IF short THEN IF alignment = "top" THEN top ELSE NoTop
             ELSE IF follow_state = "following" \/ offset # Start[2] THEN top
             ELSE logical_scroll_top
      /\ follow_state' = IF follow_state = "stopped" /\ AtEnd(measured, top)
                         THEN "following" ELSE follow_state
      /\ painted_top' = top /\ laid_out'
      /\ wanted' = IF logical_scroll_top' # NoTop /\ top[1] < n /\ pending_scroll' = NoTop
                   THEN top ELSE NoTop
      /\ UNCHANGED alignment
  BY Zenon DEF LayoutItems, Start
<1>2. n \in Nat /\ items \in Seq(ListItems) /\ Len(items) = n
      /\ View \in Nat \ {0} /\ Overdraw \in Nat
  BY StartFacts, ListAssumption DEF ListTypes, Count
<1>3. /\ s \in Seq(ListItems) /\ Len(s) = n
      /\ \A i \in 1..n : s[i].known = "measured"
  <2>1. s \in [1..n -> [known : {"measured"}, height : Heights]]
    BY DEF TrueItems
  <2>2. [known : {"measured"}, height : Heights] \subseteq ListItems
    BY ListAssumption DEF ListItems
  <2>3. s \in [1..n -> ListItems]
    <3> HIDE DEF n
    <3> QED BY <2>1, <2>2
  <2>4. \A i \in 1..n : s[i].known = "measured"
    <3> HIDE DEF n
    <3> QED BY <2>1
  <2> HIDE DEF n
  <2> QED BY <1>2, <2>3, <2>4
<1>4. /\ ix \in 0..n /\ Start[2] \in Nat
      /\ follow_state = "following" => ix = n /\ Start[2] = 0
      /\ follow_state # "following" /\ logical_scroll_top # NoTop
            => logical_scroll_top = <<ix, Start[2]>>
  BY <1>2, StartFacts, PositionFacts
<1>5. /\ offset \in Nat
      /\ ix = n => offset = Start[2]
      /\ wanted # NoTop /\ follow_state # "following" =>
            offset <= Start[2] /\ (offset = Start[2] \/ offset = s[ix + 1].height)
  BY <1>3, OffsetFacts
<1> HIDE DEF offset, ix, n
<1>6. last \in ix..n /\ (last = n \/ height - offset >= View + Overdraw)
  <2>1. ix \in 0..Len(s) /\ offset \in Int
    BY <1>3, <1>4, <1>5
  <2>2. /\ last \in ix..Len(s)
        /\ last = Len(s) \/ Below(s, ix, last) - offset >= View + Overdraw
    BY <1>3, <2>1, LastFacts, Zenon
  <2> QED BY <1>3, <2>2
<1> HIDE DEF last
<1>7. from \in 0..ix /\ (from = 0 \/ Below(s, from, last) >= View)
  BY <1>4, FilledFacts
<1> HIDE DEF from
<1>8. /\ \A p \in 0..last : Below(s, p, last) \in Int
      /\ height \in Int /\ over \in Int /\ Below(s, from, last) \in Int
  <2>0. \A p \in Nat : Above(s, p) \in Nat
    BY <1>3, AboveFacts
  <2>1. \A p \in 0..n : Above(s, p) \in Nat
    BY <2>0
  <2>2. last \in 0..n /\ \A p \in 0..last : p \in 0..n
    BY <1>2, <1>4, <1>6
  <2>3. \A p \in 0..last : Below(s, p, last) \in Int
    BY <2>1, <2>2 DEF Below
  <2>4. ix \in 0..last /\ from \in 0..last
    BY <1>4, <1>6, <1>7
  <2> QED BY <1>2, <2>3, <2>4
<1>9. short => last = n
  BY <1>2, <1>5, <1>6, <1>8 DEF Underfull
<1>10. /\ top \in Nat \X Int /\ top[1] \in 0..ix /\ top[2] \in Int
       /\ ~short \/ alignment = "top" => top \in Tops(n)
       /\ ~short => top = <<ix, offset>> /\ top[1] = ix /\ top[2] = offset
       /\ short => top[1] = from
       /\ short /\ alignment = "top" => top[2] = Max({over, 0})
       /\ short /\ alignment # "top" => top[2] = over
  <2>1. Max({over, 0}) \in Nat
    BY <1>8, MaxOfTwo
  <2>2. ix \in Nat /\ from \in Nat /\ ix <= n /\ from <= n /\ from \in 0..ix /\ ix \in 0..ix
    BY <1>2, <1>4, <1>7
  <2> HIDE DEF short, over
  <2>3. CASE ~short
    <3>1. top = <<ix, offset>>
      BY <2>3
    <3>2. <<ix, offset>> \in Tops(n)
      BY <1>2, <1>5, <2>2, PositionFacts
    <3> QED BY <1>5, <2>2, <2>3, <3>1, <3>2
  <2>4. CASE short /\ alignment = "top"
    <3>1. top = <<from, Max({over, 0})>>
      BY <2>4
    <3>2. <<from, Max({over, 0})>> \in Tops(n)
      BY <1>2, <2>1, <2>2, PositionFacts
    <3> QED BY <2>1, <2>2, <2>4, <3>1, <3>2
  <2>5. CASE short /\ alignment # "top"
    <3>1. top = <<from, over>>
      BY <2>5
    <3> QED BY <1>8, <2>2, <2>5, <3>1
  <2> QED BY <2>3, <2>4, <2>5
<1> HIDE DEF top
<1>11. first \in 0..top[1]
  BY <1>10, FirstFacts
<1> HIDE DEF first
<1>12. /\ measured \in Seq(ListItems) /\ Len(measured) = n
       /\ \A i \in (top[1] + 1)..last : measured[i] = s[i]
  <2>1. ASSUME NEW i \in 1..n
        PROVE  measured[i] \in ListItems /\ (first < i /\ i <= last => measured[i] = s[i])
    <3>1. s[i] \in ListItems /\ items[i] \in ListItems
      BY <1>2, <1>3
    <3>2. [items[i] EXCEPT !.known = "none", !.height = 0] \in ListItems
      BY <3>1 DEF ListItems
    <3> QED BY <3>1, <3>2
  <2>2. DOMAIN measured = 1..n /\ measured = [i \in 1..n |-> measured[i]]
    OBVIOUS
  <2> HIDE DEF measured
  <2>3. measured \in [1..n -> ListItems]
    BY <2>1, <2>2
  <2>4. measured \in Seq(ListItems) /\ Len(measured) = n
    BY <1>2, <2>3
  <2>5. \A i \in (top[1] + 1)..last : i \in 1..n /\ first < i /\ i <= last
    BY <1>2, <1>4, <1>6, <1>10, <1>11
  <2> QED BY <2>1, <2>4, <2>5
<1> HIDE DEF measured
<1>13. /\ shown = Below(s, top[1], last) - top[2]
       /\ SumOf(measured) - (Above(measured, top[1]) + top[2]) >= shown
       /\ last = n => SumOf(measured) - (Above(measured, top[1]) + top[2]) = shown
       /\ shown \in Int /\ SumOf(measured) \in Nat /\ Above(measured, top[1]) \in Nat
       /\ top[1] \in 0..n /\ last \in top[1]..n
  <2>1. top[1] \in 0..n /\ last \in top[1]..n
    BY <1>2, <1>4, <1>6, <1>10
  <2>2. top[1] \in 0..Len(s) /\ last \in top[1]..Len(s) /\ Len(measured) = Len(s)
    BY <1>3, <1>12, <2>1
  <2> DEFINE a == SumOf(measured)
             b == Above(measured, top[1])
             c == Above(measured, last)
             d == Below(s, top[1], last)
             e == top[2]
  <2>3. /\ c - b = d /\ a - b >= d /\ (last = n => a = c)
        /\ a \in Nat /\ b \in Nat /\ c \in Nat /\ d \in Int
    <3>1. n = Len(s)
      BY <1>3
    <3> HIDE <1>1, <1>2, <1>4, <1>5, <1>6, <1>7, <1>8, <1>9, <1>10, <1>11
    <3> HIDE DEF short, over, height, shown
    <3> QED BY <1>3, <1>12, <2>2, <3>1, ShownFacts
  <2>4. e \in Int
    BY <1>10
  <2> HIDE DEF a, b, c, d, e
  <2>5. c - (b + e) = d - e /\ a - (b + e) >= c - (b + e) /\ (last = n => a - (b + e) = c - (b + e))
        /\ c - (b + e) \in Int
    BY <2>3, <2>4
  <2> QED BY <2>1, <2>3, <2>5 DEF a, b, c, d, e
<1> HIDE DEF shown
<1>14. ~short => shown >= View /\ top[2] >= 0
  <2> SUFFICES ASSUME ~short PROVE shown >= View /\ top[2] >= 0
    OBVIOUS
  <2>1. shown = height - offset
    BY <1>10, <1>13
  <2> HIDE DEF height
  <2> QED BY <1>2, <1>5, <1>8, <1>10, <2>1 DEF Underfull
<1>15. short =>
          /\ shown <= View
          /\ (shown = View /\ top[2] >= 0) \/ (top[1] = 0 /\ top[2] <= 0)
  <2> SUFFICES ASSUME short
               PROVE  /\ shown <= View
                      /\ (shown = View /\ top[2] >= 0) \/ (top[1] = 0 /\ top[2] <= 0)
    OBVIOUS
  <2>1. shown = over + View - top[2] /\ top[1] = from
    BY <1>2, <1>8, <1>10, <1>13
  <2>2. top[2] = over \/ (over < 0 /\ top[2] = 0)
    <3>1. CASE alignment = "top"
      <4>1. top[2] = Max({over, 0})
        BY <1>10, <3>1
      <4>2. Max({over, 0}) = IF over >= 0 THEN over ELSE 0
        BY <1>8, MaxOfTwo
      <4> HIDE DEF over, short
      <4> QED BY <1>8, <4>1, <4>2
    <3>2. CASE alignment # "top"
      BY <1>10, <3>2
    <3> QED BY <3>1, <3>2
  <2>3. from = 0 \/ over >= 0
    BY <1>2, <1>7, <1>8
  <2> HIDE DEF over, short
  <2> QED BY <1>2, <1>8, <2>1, <2>2, <2>3
<1> HIDE DEF short
<1>16. logical_scroll_top' \in {NoTop, top}
  <2>1. CASE ~short /\ follow_state # "following" /\ offset = Start[2]
    <3>1. logical_scroll_top' = logical_scroll_top
      BY <1>1, <2>1
    <3>2. top = <<ix, offset>>
      BY <1>10, <2>1
    <3> QED BY <1>4, <2>1, <3>1, <3>2
  <2>2. CASE short \/ follow_state = "following" \/ offset # Start[2]
    BY <1>1, <2>2
  <2> QED BY <2>1, <2>2
<1>17. ListTypes'
  <2>1. Count' = n /\ items' \in Seq(ListItems)
    BY <1>1, <1>12 DEF Count
  <2>2. logical_scroll_top' = NoTop \/ logical_scroll_top' \in Tops(n)
    BY <1>1, <1>10, <1>16
  <2>3. painted_top' \in Nat \X Int
    BY <1>1, <1>10
  <2> QED BY <1>1, <2>1, <2>2, <2>3 DEF ListTypes
<1>18. WantedIsTop'
  <2>1. Count' = n
    BY <1>1, <1>12 DEF Count
  <2> QED BY <1>1, <1>16, <2>1, PositionFacts DEF WantedIsTop
<1>19. PICK m \in Nat : m = last
  BY <1>2, <1>6, <1>13
<1>20. /\ Count' = n /\ painted_top'[1] = top[1] /\ painted_top'[2] = top[2]
       /\ MeasuredTo(m)' /\ Shown(m)' = shown
  <2>1. Count' = n
    BY <1>1, <1>12 DEF Count
  <2>2. ASSUME NEW i \in (top[1] + 1)..last
        PROVE  measured[i].known = "measured"
    <3>1. i \in 1..n
      BY <1>2, <1>6, <1>13
    <3> QED BY <1>3, <1>12, <3>1
  <2>3. Shown(m)' = shown
    BY <1>1, <1>19 DEF Shown, scroll_top, shown
  <2> QED BY <1>1, <1>19, <2>1, <2>2, <2>3 DEF MeasuredTo
<1>21. NoGap'
  <2> HIDE DEF short
  <2>1. CASE ~short
    <3>1. m \in top[1]..n /\ shown >= View /\ top[2] >= 0
      BY <1>13, <1>14, <1>19, <2>1
    <3> QED BY <1>20, <3>1 DEF NoGap
  <2>2. CASE short
    <3>1. m = n /\ m \in top[1]..n
      BY <1>9, <1>13, <1>19, <2>2
    <3>2. (shown = View /\ top[2] >= 0) \/ (top[1] = 0 /\ top[2] <= 0)
      BY <1>15, <2>2
    <3>3. CASE shown = View /\ top[2] >= 0
      <4>1. shown >= View
        BY <1>2, <3>3
      <4> QED BY <1>20, <3>1, <3>3, <4>1 DEF NoGap
    <3>4. CASE top[1] = 0 /\ top[2] <= 0
      <4>1. MeasuredTo(Count)'
        BY <1>20, <3>1 DEF MeasuredTo
      <4> QED BY <1>20, <3>4, <4>1 DEF NoGap
    <3> QED BY <3>2, <3>3, <3>4
  <2> QED BY <2>1, <2>2
<1>22. ASSUME Overdraw > 1 PROVE FollowsTheEnd'
  <2> SUFFICES ASSUME follow_state' = "following"
               PROVE  last = n /\ shown <= View + 1
    <3>1. ASSUME m = n, shown <= View + 1
          PROVE  MeasuredTo(Count)' /\ Shown(Count)' <= View + 1
      BY <1>20, <3>1 DEF MeasuredTo, Shown
    <3> QED BY <1>19, <3>1 DEF FollowsTheEnd
  <2>1. CASE short
    BY <1>2, <1>9, <1>13, <1>15, <2>1
  <2>2. CASE ~short /\ follow_state = "following"
    <3>1. ix = n /\ offset = 0 /\ last = n
      BY <1>2, <1>4, <1>5, <1>6, <2>2
    <3>2. shown = Below(s, n, n) - 0
      BY <1>10, <1>13, <2>2, <3>1
    <3>3. Below(s, n, n) = 0
      <4>1. Above(s, n) \in Nat
        BY <1>2, <1>3, AboveFacts
      <4> QED BY <4>1 DEF Below
    <3> QED BY <1>2, <3>1, <3>2, <3>3
  <2>3. CASE ~short /\ follow_state # "following"
    <3>1. AtEnd(measured, top)
      BY <1>1, <2>3
    <3> DEFINE a == SumOf(measured)
               b == Above(measured, top[1])
               c == top[2]
    <3>2. b + c + View >= a - 1
      BY <3>1 DEF AtEnd
    <3>3. a \in Nat /\ b \in Nat /\ c \in Int /\ shown \in Int /\ a - (b + c) >= shown
      BY <1>10, <1>13
    <3> HIDE DEF a, b, c
    <3>4. shown <= View + 1
      BY <1>2, <3>2, <3>3
    <3>5. shown = height - offset
      BY <1>10, <1>13, <2>3
    <3> HIDE DEF height
    <3>6. last = n
      BY <1>2, <1>5, <1>6, <1>8, <1>22, <3>4, <3>5
    <3> QED BY <3>4, <3>6
  <2> QED BY <2>1, <2>2, <2>3
<1>23. KeepsTop
  <2> SUFFICES ASSUME wanted # NoTop, wanted' # NoTop, follow_state # "following"
               PROVE  \/ /\ wanted'[1] = wanted[1] /\ wanted'[2] <= wanted[2]
                         /\ wanted'[2] \in {wanted[2], items'[wanted'[1] + 1].height}
                      \/ SumOf(items') - Above(items', logical_scroll_top'[1])
                            - logical_scroll_top'[2] <= View
    BY DEF KeepsTop
  <2>1. wanted' = top /\ logical_scroll_top' # NoTop /\ logical_scroll_top' = top /\ top[1] < n
    BY <1>1, <1>16
  <2>2. CASE short
    <3> DEFINE a == SumOf(measured)
               b == Above(measured, top[1])
               c == top[2]
    <3>1. a - (b + c) <= View /\ a \in Nat /\ b \in Nat /\ c \in Int
      BY <1>9, <1>10, <1>13, <1>15, <2>2
    <3>2. SumOf(items') - Above(items', logical_scroll_top'[1]) - logical_scroll_top'[2]
             = (a - b) - c
      BY <1>1, <2>1
    <3> HIDE DEF a, b, c
    <3>3. (a - b) - c <= View
      BY <1>2, <3>1
    <3> QED BY <3>2, <3>3
  <2>3. CASE ~short
    <3>1. /\ wanted = <<ix, Start[2]>> /\ offset <= Start[2]
          /\ offset = Start[2] \/ offset = s[ix + 1].height
      BY <1>4, <1>5 DEF WantedIsTop
    <3>2. top[1] = ix /\ top[2] = offset
      BY <1>10, <2>3
    <3>3. last # ix
      <4> SUFFICES ASSUME last = ix PROVE FALSE
        OBVIOUS
      <4>1. height = 0
        <5>1. Above(s, ix) \in Nat
          BY <1>3, <1>4, AboveFacts
        <5> QED BY <5>1 DEF Below
      <4> HIDE DEF height
      <4> QED BY <1>2, <1>4, <1>5, <1>6, <2>1, <3>2, <4>1
    <3>4. ix + 1 \in (top[1] + 1)..last
      BY <1>2, <1>4, <1>6, <3>2, <3>3
    <3>5. items'[ix + 1].height = s[ix + 1].height
      BY <1>1, <1>12, <3>4
    <3> QED BY <2>1, <3>1, <3>2, <3>5
  <2> QED BY <2>2, <2>3
<1> QED BY <1>17, <1>18, <1>22, <1>23, <1>21 DEF ListInv

\* The positions that the view, the user and the scrollbar set are in the list.
LEMMA SeekFacts ==
    ASSUME ListTypes, NEW y \in Nat
    PROVE  /\ SeekRight(y) \in 0..Count /\ SeekLeft(y) \in 0..Count
           /\ OffsetAt(y) \in Tops(Count)
           /\ Above(items, SeekLeft(y)) <= y
           /\ \A ix \in Nat : Above(items, ix) \in Nat
           /\ SumOf(items) \in Nat
<1> DEFINE R == {ix \in 0..Count : ix = 0 \/ Above(items, ix) <= y}
           L == {ix \in 0..Count : ix = 0 \/ Above(items, ix) < y}
<1>0. Count \in Nat /\ items \in Seq(ListItems)
  BY DEF ListTypes, Count
<1>1. Bounded(R, Count) /\ Bounded(L, Count)
  <2>1. 0 \in R /\ 0 \in L
    BY <1>0
  <2>2. R \subseteq 0..Count /\ L \subseteq 0..Count
    OBVIOUS
  <2> HIDE DEF R, L
  <2> QED BY <1>0, <2>1, <2>2 DEF Bounded
<1>2. SeekRight(y) = Max(R) /\ SeekLeft(y) = Max(L)
  BY DEF SeekRight, SeekLeft
<1>3. Max(R) \in R /\ Max(L) \in L
  <2> HIDE DEF R, L
  <2> QED BY <1>1, GreatestFacts, Zenon
<1>4. SeekRight(y) \in 0..Count /\ SeekLeft(y) \in 0..Count
  BY <1>2, <1>3
<1>5. /\ \A ix \in Nat : Above(items, ix) \in Nat
      /\ SumOf(items) \in Nat
  <2>1. \A ix \in Nat : Above(items, ix) \in Nat
    BY <1>0, AboveFacts
  <2> QED BY <1>0, <2>1 DEF SumOf, Count
<1>7. Above(items, SeekRight(y)) <= y /\ Above(items, SeekLeft(y)) <= y
  <2>1. Above(items, 0) = 0 /\ 0 <= y
    <3>1. 0 \in 0..Len(items)
      BY <1>0 DEF Count
    <3>2. Above(items, 0) = Sums(items)[0]
      BY <1>0, <3>1, AboveFacts
    <3>3. Sums(items)[0] = 0
      BY <1>0, SumsFacts
    <3> QED BY <3>2, <3>3
  <2>2. /\ SeekRight(y) = 0 \/ Above(items, SeekRight(y)) <= y
        /\ SeekLeft(y) = 0 \/ Above(items, SeekLeft(y)) < y
    BY <1>2, <1>3
  <2>3. Above(items, SeekRight(y)) \in Nat /\ Above(items, SeekLeft(y)) \in Nat
    BY <1>4, <1>5
  <2> QED BY <2>1, <2>2, <2>3
<1>6. OffsetAt(y) \in Tops(Count)
  <2> DEFINE ix == SeekRight(y)
  <2>1. ix \in Nat /\ ix <= Count /\ y - Above(items, ix) \in Nat
    <3>1. ix \in Nat /\ ix <= Count /\ Above(items, ix) <= y
      BY <1>0, <1>4, <1>7
    <3> HIDE DEF ix
    <3> QED BY <1>5, <3>1
  <2>2. OffsetAt(y) = <<ix, y - Above(items, ix)>>
    BY DEF OffsetAt
  <2> HIDE DEF ix
  <2> QED BY <1>0, <2>1, <2>2, PositionFacts
<1> QED BY <1>4, <1>5, <1>6, <1>7

\* Whether a list follows its end.
FollowStates == {"normal", "following", "stopped"}

\* A position that is set is one of the list; and what is pending for its item
\* stays where it is, or the history no longer says where it is.
LEMMA SetTopStep ==
    ASSUME ListTypes, NEW top \in Tops(Count), SetTop(top), follow_state' \in FollowStates
    PROVE  ListTypes' /\ WantedIsTop' /\ ~laid_out'
<1>0. /\ logical_scroll_top' = top /\ pending_scroll' = Rebased(top) /\ ~laid_out'
      /\ wanted' = IF pending_scroll' # NoTop /\ pending_scroll'[3] # 0 THEN NoTop ELSE ItemAt(top)
      /\ UNCHANGED <<alignment, items, painted_top>> /\ Count' = Count
  BY DEF SetTop, Count
<1>1. Count \in Nat /\ top[1] \in Nat /\ top[2] \in Nat /\ items \in Seq(ListItems) /\ Len(items) = Count
      /\ top # NoTop
  BY PositionFacts DEF ListTypes, Count
<1>2. \/ pending_scroll' = NoTop
      \/ pending_scroll' = <<top[1], top[2], 0>>
      \/ \E a, b, c : pending_scroll' = <<a, b, c>> /\ a \in Nat /\ b \in Nat /\ c \in Nat /\ c # 0
  <2>1. CASE pending_scroll = NoTop \/ top[1] >= Count
    BY <1>0, <1>1, <2>1 DEF Rebased
  <2>2. CASE pending_scroll # NoTop /\ top[1] < Count /\ pending_scroll[3] = 0
    <3>1. ~(top[1] >= Count)
      BY <1>1, <2>2
    <3> QED BY <1>0, <2>2, <3>1 DEF Rebased
  <2>3. CASE pending_scroll # NoTop /\ top[1] < Count /\ pending_scroll[3] # 0
    <3> DEFINE h == items[top[1] + 1].height
    <3>1. ~(top[1] >= Count) /\ top[1] + 1 \in 1..Len(items)
      BY <1>1, <2>3
    <3>2. h \in Nat
      BY <1>1, <3>1, ItemFacts
    <3>3. Rebased(top) = IF h > 0 THEN <<top[1], Min({top[2], h}), h>> ELSE NoTop
      BY <2>3, <3>1 DEF Rebased
    <3> HIDE DEF h
    <3>4. Min({top[2], h}) \in Nat
      BY <1>1, <3>2, MinOfTwo
    <3>5. CASE h > 0
      <4>1. pending_scroll' = <<top[1], Min({top[2], h}), h>> /\ h # 0
        BY <1>0, <3>2, <3>3, <3>5
      <4> QED BY <1>1, <3>2, <3>4, <4>1
    <3>6. CASE ~(h > 0)
      BY <1>0, <3>3, <3>6
    <3> QED BY <3>5, <3>6
  <2> QED BY <1>1, <2>1, <2>2, <2>3
<1>3. ListTypes'
  <2>1. pending_scroll' = NoTop \/ pending_scroll' \in Nat \X Nat \X Nat
    BY <1>1, <1>2
  <2> QED BY <1>0, <2>1 DEF ListTypes, FollowStates
<1>4. WantedIsTop'
  <2> SUFFICES ASSUME wanted' # NoTop
               PROVE  /\ logical_scroll_top' = wanted' /\ wanted'[1] < Count
                      /\ pending_scroll' # NoTop =>
                            pending_scroll'[3] = 0 /\ pending_scroll'[2] = wanted'[2]
    BY <1>0 DEF WantedIsTop
  <2>1. wanted' = top /\ top[1] < Count
    BY <1>0 DEF ItemAt
  <2>2. pending_scroll' = NoTop \/ pending_scroll'[3] = 0
    BY <1>0
  <2>3. pending_scroll' = NoTop \/ pending_scroll' = <<top[1], top[2], 0>>
    BY <1>2, <2>2
  <2> QED BY <1>0, <2>1, <2>3
<1> QED BY <1>0, <1>3, <1>4

\* The same for the end of the list.
LEMMA SetEndStep ==
    ASSUME ListTypes, NEW top, top = NoTop \/ top \in Tops(Count), SetEnd(top),
           follow_state' \in FollowStates
    PROVE  ListTypes' /\ WantedIsTop' /\ ~laid_out'
  BY DEF SetEnd, ListTypes, WantedIsTop, Count, FollowStates

\* New items.
LEMMA NewItemsFacts ==
    ASSUME NEW n \in Nat
    PROVE  NewItems(n) \in Seq(ListItems) /\ Len(NewItems(n)) = n
<1>1. [known |-> "none", height |-> 0] \in ListItems
  BY DEF ListItems
<1>2. NewItems(n) \in [1..n -> ListItems]
  BY <1>1 DEF NewItems
<1> QED BY <1>2

\* splice moves the position, and what the history says of it, alike.
LEMMA SpliceStep ==
    ASSUME ListTypes, WantedIsTop, NEW a \in Nat, NEW b \in Nat, NEW n \in Nat, splice(a, b, n)
    PROVE  ListTypes' /\ WantedIsTop' /\ ~laid_out'
<1>0. /\ a <= b /\ b <= Count
      /\ items' = SubSeq(items, 1, a) \o NewItems(n) \o SubSeq(items, b + 1, Count)
      /\ logical_scroll_top' = Spliced(logical_scroll_top, a, b, n)
      /\ wanted' = IF pending_scroll = NoTop THEN Kept(wanted, a, b, n) ELSE NoTop
      /\ ~laid_out'
      /\ UNCHANGED <<alignment, pending_scroll, follow_state, painted_top>>
  BY DEF splice
<1>1. items \in Seq(ListItems) /\ Len(items) = Count /\ Count \in Nat
  BY DEF ListTypes, Count
<1>2. items' \in Seq(ListItems) /\ Count' = Count - (b - a) + n
  <2> DEFINE x == SubSeq(items, 1, a)
             y == NewItems(n)
             z == SubSeq(items, b + 1, Count)
  <2>1. x \in Seq(ListItems) /\ Len(x) = a
    BY <1>0, <1>1, SubSeqProperties
  <2>2. z \in Seq(ListItems) /\ Len(z) = Count - b
    BY <1>0, <1>1, SubSeqProperties
  <2>3. y \in Seq(ListItems) /\ Len(y) = n
    BY NewItemsFacts
  <2> HIDE DEF x, y, z
  <2>4. x \o y \in Seq(ListItems) /\ Len(x \o y) = a + n
    BY <2>1, <2>3, ConcatProperties
  <2>5. (x \o y) \o z \in Seq(ListItems) /\ Len((x \o y) \o z) = (a + n) + (Count - b)
    BY <2>2, <2>4, ConcatProperties
  <2>6. items' = (x \o y) \o z
    BY <1>0 DEF x, y, z
  <2>7. (a + n) + (Count - b) = Count - (b - a) + n
    BY <1>1
  <2> QED BY <2>5, <2>6, <2>7 DEF Count
<1> DEFINE top == logical_scroll_top
           m == Count - (b - a) + n
<1>3. m \in Nat /\ a <= m
  BY <1>0, <1>1
<1>4. ASSUME top # NoTop
      PROVE  /\ top[1] \in Nat /\ top[2] \in Nat /\ top[1] <= Count /\ top = <<top[1], top[2]>>
             /\ top \in Tops(Count)
  BY <1>4, PositionFacts DEF ListTypes
<1>5. ASSUME top # NoTop
      PROVE  /\ Spliced(top, a, b, n) \in Tops(m)
             /\ Kept(top, a, b, n) \in {NoTop, Spliced(top, a, b, n)}
             /\ Kept(top, a, b, n) # NoTop /\ top[1] < Count => Kept(top, a, b, n)[1] < m
  <2>0. top[1] \in Nat /\ top[2] \in Nat /\ top[1] <= Count /\ top = <<top[1], top[2]>>
    BY <1>4, <1>5
  <2> HIDE DEF top
  <2>1. CASE a <= top[1] /\ top[1] < b
    <3>1. Spliced(top, a, b, n) = <<a, 0>>
      BY <1>5, <2>0, <2>1 DEF Spliced
    <3>2. Kept(top, a, b, n) = NoTop
      BY <1>5, <2>0, <2>1 DEF Kept
    <3> QED BY <1>3, <3>1, <3>2, PositionFacts
  <2>2. CASE b <= top[1]
    <3>1. ~(top[1] < a) /\ ~(top[1] < b) /\ top[1] \notin a..(b - 1)
      BY <1>0, <2>0, <2>2
    <3>2. Spliced(top, a, b, n) = <<top[1] - (b - a) + n, top[2]>>
      BY <1>5, <2>2, <3>1 DEF Spliced
    <3>3. Kept(top, a, b, n) = <<top[1] + n - (b - a), top[2]>>
      BY <1>5, <3>1 DEF Kept
    <3>4. /\ top[1] - (b - a) + n = top[1] + n - (b - a)
          /\ top[1] - (b - a) + n \in Nat /\ top[1] - (b - a) + n <= m
          /\ top[1] < Count => top[1] + n - (b - a) < m
      <4>1. a <= b /\ b <= top[1] /\ top[1] <= Count /\ top[1] \in Nat /\ Count \in Nat
        BY <1>0, <1>1, <2>0, <2>2
      <4>2. \A p, c \in Nat : b <= p /\ p <= c =>
               /\ p - (b - a) + n = p + n - (b - a)
               /\ p - (b - a) + n \in Nat /\ p - (b - a) + n <= c - (b - a) + n
               /\ p < c => p + n - (b - a) < c - (b - a) + n
        BY <4>1
      <4> QED BY <4>1, <4>2
    <3> HIDE DEF m
    <3> DEFINE z == top[1] - (b - a) + n
    <3>5. z \in Nat /\ z <= m /\ z = top[1] + n - (b - a)
      BY <3>4
    <3>6. Spliced(top, a, b, n) = <<z, top[2]>> /\ Kept(top, a, b, n) = <<z, top[2]>>
      BY <3>2, <3>3, <3>5
    <3>7. top[1] < Count => z < m
      BY <3>4, <3>5
    <3> HIDE DEF z
    <3> QED BY <1>3, <2>0, <3>5, <3>6, <3>7, PositionFacts
  <2>3. CASE top[1] < a
    <3>1. ~(a <= top[1]) /\ ~(b <= top[1]) /\ top[1] \notin a..(b - 1) /\ top[1] < m
      <4> HIDE DEF m
      <4>1. \A x \in Nat : x < a => ~(a <= x) /\ ~(b <= x) /\ x \notin a..(b - 1) /\ x < m
        BY <1>0, <1>1, <1>3
      <4> QED BY <2>0, <2>3, <4>1
    <3>2. Spliced(top, a, b, n) = top
      BY <1>5, <3>1 DEF Spliced
    <3>3. Kept(top, a, b, n) = top
      BY <1>5, <2>3, <3>1 DEF Kept
    <3> HIDE DEF m
    <3> QED BY <1>3, <2>0, <3>1, <3>2, <3>3, PositionFacts
  <2> QED BY <1>0, <1>1, <2>0, <2>1, <2>2, <2>3
<1>6. ListTypes'
  <2>1. top = NoTop => Spliced(top, a, b, n) = NoTop
    BY DEF Spliced
  <2> QED BY <1>0, <1>2, <1>5, <2>1 DEF ListTypes
<1>7. WantedIsTop'
  <2> SUFFICES ASSUME wanted' # NoTop
               PROVE  logical_scroll_top' = wanted' /\ wanted'[1] < m /\ pending_scroll' = NoTop
    BY <1>2 DEF WantedIsTop
  <2>1. pending_scroll' = NoTop /\ wanted' = Kept(wanted, a, b, n)
    BY <1>0
  <2>2. wanted # NoTop
    BY <2>1 DEF Kept
  <2>3. wanted = top /\ top # NoTop /\ top[1] < Count
    BY <2>2 DEF WantedIsTop
  <2> HIDE DEF top, m
  <2> QED BY <1>0, <1>5, <2>1, <2>3 DEF top
<1> QED BY <1>0, <1>6, <1>7

\* remeasure_items forgets heights, not the position.
LEMMA RemeasureStep ==
    ASSUME ListTypes, WantedIsTop, NEW a \in Nat, NEW b \in Nat, NEW proportional \in BOOLEAN,
           remeasure_items(a, b, proportional)
    PROVE  ListTypes' /\ WantedIsTop' /\ ~laid_out'
<1>0. /\ pending_scroll' = RemeasuredScroll(a, b, proportional)
      /\ items' = [i \in 1..Count |-> IF a < i /\ i <= b THEN Hinted(items[i]) ELSE items[i]]
      /\ wanted' = IF proportional THEN NoTop ELSE wanted
      /\ ~laid_out' /\ b <= Count
      /\ UNCHANGED <<alignment, logical_scroll_top, follow_state, painted_top>>
  BY DEF remeasure_items
<1>1. items \in Seq(ListItems) /\ Len(items) = Count /\ Count \in Nat
  BY DEF ListTypes, Count
<1>2. items' \in Seq(ListItems) /\ Count' = Count
  <2>1. ASSUME NEW i \in 1..Count
        PROVE  Hinted(items[i]) \in ListItems /\ items[i] \in ListItems
    <3>1. items[i] \in ListItems
      BY <1>1
    <3> QED BY <3>1 DEF Hinted, ListItems
  <2>2. items' \in [1..Count -> ListItems]
    <3> HIDE DEF Count
    <3> QED BY <1>0, <2>1
  <2>3. items' \in Seq(ListItems) /\ Len(items') = Count
    BY <1>1, <2>2
  <2> QED BY <2>3 DEF Count
<1> DEFINE top == logical_scroll_top
<1>3. \/ pending_scroll' = pending_scroll
      \/ top # NoTop /\ ~proportional /\ pending_scroll' = <<top[1], top[2], 0>>
      \/ top # NoTop /\ proportional
         /\ \E x, y, z : pending_scroll' = <<x, y, z>> /\ x \in Nat /\ y \in Nat /\ z \in Nat
  <2>1. CASE top = NoTop
    <3>1. RemeasuredScroll(a, b, proportional) = pending_scroll
      BY <2>1 DEF RemeasuredScroll
    <3> QED BY <1>0, <3>1
  <2>2. CASE top # NoTop /\ ~(a <= top[1] /\ top[1] < b)
    <3>1. RemeasuredScroll(a, b, proportional) = pending_scroll
      BY <2>2 DEF RemeasuredScroll
    <3> QED BY <1>0, <3>1
  <2>3. CASE top # NoTop /\ a <= top[1] /\ top[1] < b /\ ~proportional
    <3>1. RemeasuredScroll(a, b, proportional) = <<top[1], top[2], 0>>
      BY <2>3 DEF RemeasuredScroll
    <3> QED BY <1>0, <2>3, <3>1
  <2>4. CASE top # NoTop /\ a <= top[1] /\ top[1] < b /\ proportional
    <3> DEFINE h == items[top[1] + 1].height
               known == items[top[1] + 1].known
    <3>1. RemeasuredScroll(a, b, proportional) =
             IF known # "measured" THEN pending_scroll
             ELSE <<top[1], Min({top[2], h}), Max({h, 1})>>
      BY <2>4 DEF RemeasuredScroll
    <3>2. top[1] \in Nat /\ top[2] \in Nat /\ top[1] <= Count
      BY <2>4, PositionFacts DEF ListTypes
    <3> HIDE DEF known
    <3>3. CASE known # "measured"
      BY <1>0, <3>1, <3>3
    <3>4. CASE known = "measured" /\ top[1] + 1 \in 1..Len(items)
      <4>1. h \in Nat
        BY <1>1, <3>4, ItemFacts
      <4> HIDE DEF h
      <4>2. Min({top[2], h}) \in Nat /\ Max({h, 1}) \in Nat
        BY <3>2, <4>1, MinOfTwo, MaxOfTwo
      <4>3. pending_scroll' = <<top[1], Min({top[2], h}), Max({h, 1})>>
        BY <1>0, <3>1, <3>4
      <4> QED BY <2>4, <3>2, <4>2, <4>3
    <3>5. top[1] + 1 \in 1..Len(items)
      <4>1. \A x \in Nat : x < b => x + 1 \in 1..Len(items)
        <5>1. \A x \in Nat : x < b => x < Count
          BY <1>0, <1>1
        <5> QED BY <1>1, <5>1
      <4> QED BY <2>4, <3>2, <4>1
    <3> QED BY <3>3, <3>4, <3>5
  <2> QED BY <2>1, <2>2, <2>3, <2>4
<1>4. top # NoTop => top[1] \in Nat /\ top[2] \in Nat
  BY PositionFacts DEF ListTypes
<1>5. ListTypes'
  <2>1. pending_scroll' = NoTop \/ pending_scroll' \in Nat \X Nat \X Nat
    BY <1>3, <1>4 DEF ListTypes
  <2> QED BY <1>0, <1>2, <2>1 DEF ListTypes
<1>6. WantedIsTop'
  <2> SUFFICES ASSUME wanted # NoTop, wanted' = wanted, ~proportional
               PROVE  /\ top = wanted /\ wanted[1] < Count
                      /\ pending_scroll' # NoTop /\ pending_scroll'[1] = wanted[1] =>
                            pending_scroll'[3] = 0 /\ pending_scroll'[2] = wanted[2]
    BY <1>0, <1>2 DEF WantedIsTop
  <2> QED BY <1>3 DEF WantedIsTop
<1> QED BY <1>0, <1>5, <1>6

\* Numbers that the scroll operations compute.
LEMMA ScrollFacts ==
    ASSUME ListTypes
    PROVE  /\ \A height \in Int : ScrollMax(height) \in Nat
           /\ scroll_top(Top) \in Int /\ scroll_top(painted_top) \in Int
           /\ Count \in Nat /\ Top \in Tops(Count) /\ SumOf(items) \in Nat
<1>1. \A ix \in Nat : Above(items, ix) \in Nat
  BY SeekFacts, 0 \in Nat
<1>2. Count \in Nat /\ Top \in Tops(Count)
  BY StartFacts
<1>3. Top[1] \in Nat /\ Top[2] \in Int
  BY <1>2, PositionFacts
<1>4. painted_top[1] \in Nat /\ painted_top[2] \in Int
  BY DEF ListTypes
<1>5. scroll_top(Top) \in Int
  <2>1. Above(items, Top[1]) \in Nat
    BY <1>1, <1>3
  <2> QED BY <1>3, <2>1 DEF scroll_top
<1>6. scroll_top(painted_top) \in Int
  <2>1. Above(items, painted_top[1]) \in Nat
    BY <1>1, <1>4
  <2> QED BY <1>4, <2>1 DEF scroll_top
<1>7. ASSUME NEW height \in Int
      PROVE  ScrollMax(height) \in Nat
  BY ListAssumption, MaxOfTwo DEF ScrollMax
<1> QED BY <1>2, <1>5, <1>6, <1>7, SeekFacts, 0 \in Nat

\* Every operation between two layouts keeps what is known of positions.
Moved == ListTypes' /\ WantedIsTop' /\ ~laid_out'

\* The operations one by one: the wheel and scroll_by.
LEMMA ScrollStep ==
    ASSUME ListTypes, NEW delta \in Int, Wheel(delta) \/ scroll_by(delta)
    PROVE  Moved
<1>0. StopFollowing \in FollowStates /\ follow_state \in FollowStates
  BY DEF StopFollowing, FollowStates, ListTypes
<1>1. CASE Wheel(delta)
  <2> DEFINE max == ScrollMax(SumOf(items))
             z == Max({scroll_top(painted_top) - delta, 0})
             y == Min({z, max})
  <2>1. follow_state' \in FollowStates
    BY <1>0, <1>1 DEF Wheel
  <2>2. SetEnd(NoTop) \/ SetTop(OffsetAt(y))
    BY <1>1 DEF Wheel
  <2>3. max \in Nat /\ scroll_top(painted_top) \in Int
    BY ScrollFacts
  <2>4. z \in Nat
    BY <2>3, MaxOfTwo
  <2> HIDE DEF max, z
  <2>5. y \in Nat
    BY <2>3, <2>4, MinOfTwo
  <2> HIDE DEF y
  <2>6. OffsetAt(y) \in Tops(Count)
    BY <2>5, SeekFacts
  <2> QED BY <2>1, <2>2, <2>6, SetTopStep, SetEndStep DEF Moved
<1>2. CASE scroll_by(delta)
  <2> DEFINE y == Max({scroll_top(Top) + delta, 0})
  <2>1. follow_state' \in FollowStates
    BY <1>0, <1>2 DEF scroll_by
  <2>2. SetTop(OffsetAt(y))
    BY <1>2 DEF scroll_by
  <2>3. y \in Nat
    BY ScrollFacts, MaxOfTwo
  <2> HIDE DEF y
  <2>4. OffsetAt(y) \in Tops(Count)
    BY <2>3, SeekFacts
  <2> QED BY <2>1, <2>2, <2>4, SetTopStep DEF Moved
<1> QED BY <1>1, <1>2

\* scroll_to_reveal_item and scroll_to.
LEMMA RevealStep ==
    ASSUME ListTypes, NEW ix \in Nat, NEW offset \in Nat,
           scroll_to_reveal_item(ix) \/ scroll_to(ix, offset)
    PROVE  Moved
<1>0. Count \in Nat /\ Top \in Tops(Count) /\ Top[1] \in Nat /\ Top[1] <= Count
  BY ScrollFacts, PositionFacts
<1>1. StopFollowing \in FollowStates /\ follow_state \in FollowStates
  BY DEF StopFollowing, FollowStates, ListTypes
<1>2. CASE scroll_to_reveal_item(ix)
  <2> DEFINE goal == Max({0, Above(items, ix + 1) - View})
             start == SeekLeft(goal)
             top == CASE ix <= Top[1] -> <<ix, 0>>
                      [] ix > Top[1] /\ start >= Top[1] -> <<start, goal - Above(items, start)>>
                      [] OTHER -> Top
  <2>1. SetTop(top) /\ follow_state' \in FollowStates
    BY <1>1, <1>2 DEF scroll_to_reveal_item
  <2>2. goal \in Nat
    <3>1. Above(items, ix + 1) \in Nat
      BY SeekFacts, 0 \in Nat
    <3> QED BY <3>1, ListAssumption, MaxOfTwo
  <2> HIDE DEF goal
  <2>3. start \in Nat /\ start <= Count /\ Above(items, start) \in Nat /\ Above(items, start) <= goal
    BY <1>0, <2>2, SeekFacts
  <2> HIDE DEF start
  <2>4. top \in Tops(Count)
    <3>1. CASE ix <= Top[1]
      <4>1. ~(ix > Top[1])
        BY <1>0, <3>1
      <4>2. top = <<ix, 0>> /\ ix <= Count
        BY <1>0, <3>1, <4>1
      <4> QED BY <1>0, <4>2, PositionFacts
    <3>2. CASE ix > Top[1] /\ start >= Top[1]
      <4>1. ~(ix <= Top[1])
        BY <1>0, <3>2
      <4>2. top = <<start, goal - Above(items, start)>>
        BY <3>2, <4>1
      <4> HIDE DEF top
      <4> QED BY <1>0, <2>2, <2>3, <4>2, PositionFacts
    <3>3. CASE ~(ix <= Top[1]) /\ ~(ix > Top[1] /\ start >= Top[1])
      BY <1>0, <3>3
    <3> QED BY <3>1, <3>2, <3>3
  <2> HIDE DEF top
  <2> QED BY <2>1, <2>4, SetTopStep DEF Moved
<1>3. CASE scroll_to(ix, offset)
  <2> DEFINE top == IF ix >= Count THEN <<Count, 0>> ELSE <<ix, offset>>
  <2>1. SetTop(top) /\ follow_state' \in FollowStates
    BY <1>1, <1>3 DEF scroll_to
  <2>2. top \in Tops(Count)
    BY <1>0, PositionFacts
  <2> HIDE DEF top
  <2> QED BY <2>1, <2>2, SetTopStep DEF Moved
<1> QED BY <1>2, <1>3

\* scroll_to_end and set_follow_mode.
LEMMA EndStep ==
    ASSUME ListTypes, WantedIsTop, scroll_to_end \/ \E tail \in BOOLEAN : set_follow_mode(tail)
    PROVE  Moved
<1>0. <<Count, 0>> \in Tops(Count)
  BY ScrollFacts, PositionFacts
<1>1. CASE scroll_to_end
  <2>1. SetEnd(<<Count, 0>>) /\ follow_state' \in FollowStates
    BY <1>1 DEF scroll_to_end, FollowStates, ListTypes
  <2> QED BY <1>0, <2>1, SetEndStep DEF Moved
<1>2. ASSUME NEW tail \in BOOLEAN, set_follow_mode(tail)
      PROVE  Moved
  <2>1. Count' = Count /\ ~laid_out' /\ UNCHANGED <<alignment, items, pending_scroll, painted_top>>
        /\ follow_state' \in FollowStates
    BY <1>2 DEF set_follow_mode, Count, FollowStates
  <2>2. CASE tail
    <3>1. logical_scroll_top' = <<Count, 0>> /\ wanted' = NoTop
      BY <1>2, <2>2 DEF set_follow_mode
    <3> QED BY <1>0, <2>1, <3>1 DEF Moved, ListTypes, WantedIsTop, FollowStates
  <2>3. CASE ~tail
    <3>1. UNCHANGED <<logical_scroll_top, wanted>>
      BY <1>2, <2>3 DEF set_follow_mode
    <3> QED BY <2>1, <3>1 DEF Moved, ListTypes, WantedIsTop, FollowStates
  <2> QED BY <2>2, <2>3
<1> QED BY <1>1, <1>2

\* set_offset_from_scrollbar.
LEMMA ScrollbarStep ==
    ASSUME ListTypes, NEW point \in Nat, NEW content \in Int,
           set_offset_from_scrollbar(point, content)
    PROVE  Moved
<1> DEFINE max == ScrollMax(content)
           y == Min({point, max})
<1>0. <<Count, 0>> \in Tops(Count)
  BY ScrollFacts, PositionFacts
<1>1. SetEnd(<<Count, 0>>) \/ SetEnd(NoTop) \/ SetTop(OffsetAt(y))
  BY DEF set_offset_from_scrollbar
<1>2. follow_state' \in FollowStates
  BY DEF set_offset_from_scrollbar, StopFollowing, FollowStates, ListTypes
<1>3. max \in Nat
  BY ScrollFacts
<1> HIDE DEF max
<1>4. y \in Nat
  BY <1>3, MinOfTwo
<1> HIDE DEF y
<1>5. OffsetAt(y) \in Tops(Count)
  BY <1>4, SeekFacts
<1> QED BY <1>0, <1>1, <1>2, <1>5, SetTopStep, SetEndStep DEF Moved

\* reset.
LEMMA ResetStep ==
    ASSUME ListTypes, NEW n \in Nat, reset(n)
    PROVE  Moved
<1>1. items' \in Seq(ListItems) /\ ~laid_out'
      /\ logical_scroll_top' = NoTop /\ pending_scroll' = NoTop /\ wanted' = NoTop
      /\ UNCHANGED <<alignment, follow_state, painted_top>>
  BY NewItemsFacts DEF reset
<1> QED BY <1>1 DEF Moved, ListTypes, WantedIsTop

\* A step moves the list, or is a layout, which settles it and keeps its top.
LEMMA ListStep ==
    ASSUME ListInv, [ListNext]_listVars
    PROVE  ListInv' /\ [KeepsTop]_listVars
<1>0. ListTypes /\ WantedIsTop /\ MaxItems \in Nat /\ MaxScroll \in Nat /\ View \in Nat
  BY ListAssumption DEF ListInv
<1>1. ASSUME Moved
      PROVE  ListInv' /\ [KeepsTop]_listVars
  BY <1>1 DEF Moved, ListInv, NoGap, FollowsTheEnd, KeepsTop
<1>2. ASSUME NEW delta \in {-2, 1, 2}, Wheel(delta) \/ scroll_by(delta)
      PROVE  Moved
  BY <1>0, <1>2, ScrollStep
<1>3. ASSUME NEW ix \in 0..MaxItems,
             scroll_to_reveal_item(ix) \/ \E o \in 0..1 : scroll_to(ix, o)
      PROVE  Moved
  <2>1. PICK o \in 0..1 : scroll_to_reveal_item(ix) \/ scroll_to(ix, o)
    <3>1. 0 \in 0..1
      OBVIOUS
    <3> QED BY <1>3, <3>1
  <2>2. ix \in Nat /\ o \in Nat
    BY <1>0
  <2> QED BY <1>0, <2>1, <2>2, RevealStep
<1>4. ASSUME NEW y \in 0..MaxScroll, NEW content \in {SumOf(items), View + 1},
             set_offset_from_scrollbar(y, content)
      PROVE  Moved
  <2>1. y \in Nat /\ content \in Int
    BY <1>0, ScrollFacts
  <2> QED BY <1>0, <1>4, <2>1, ScrollbarStep
<1>5. ASSUME NEW a \in 0..MaxItems, NEW b \in 0..MaxItems, NEW n \in 0..MaxItems, splice(a, b, n)
      PROVE  Moved
  <2>1. a \in Nat /\ b \in Nat /\ n \in Nat
    BY <1>0
  <2> QED BY <1>0, <1>5, <2>1, SpliceStep DEF Moved
<1>6. ASSUME NEW n \in 0..MaxItems, reset(n)
      PROVE  Moved
  BY <1>0, <1>6, ResetStep
<1>7. ASSUME NEW a \in 0..MaxItems, NEW b \in 0..MaxItems, remeasure_items(a, b, FALSE)
      PROVE  Moved
  <2>1. a \in Nat /\ b \in Nat /\ FALSE \in BOOLEAN
    BY <1>0
  <2> QED BY <1>0, <1>7, <2>1, RemeasureStep DEF Moved
<1>8. ASSUME remeasure_items(0, Count, TRUE)
      PROVE  Moved
  <2>1. 0 \in Nat /\ Count \in Nat /\ TRUE \in BOOLEAN
    BY <1>0, ScrollFacts
  <2> QED BY <1>0, <1>8, <2>1, RemeasureStep DEF Moved
<1>9. ASSUME NEW other_width \in BOOLEAN, NEW s \in TrueItems(other_width),
             LayoutItems(s, other_width)
      PROVE  ListInv' /\ [KeepsTop]_listVars
  BY <1>0, <1>9, LayoutStep
<1>10. ASSUME UNCHANGED listVars
       PROVE  ListInv' /\ [KeepsTop]_listVars
  BY <1>10 DEF listVars, ListInv, ListTypes, WantedIsTop, NoGap, FollowsTheEnd,
               Count, MeasuredTo, Shown, scroll_top
<1>11. CASE ListNext
  <2>1. scroll_to_end \/ (\E tail \in BOOLEAN : set_follow_mode(tail)) => Moved
    BY <1>0, EndStep
  <2> HIDE DEF Moved
  <2> QED BY <1>1, <1>2, <1>3, <1>4, <1>5, <1>6, <1>7, <1>8, <1>9, <1>11, <2>1 DEF ListNext
<1> QED BY <1>10, <1>11

\* A list starts empty.
LEMMA ListStarts == ListInit => ListInv
  BY DEF ListInit, ListInv, ListTypes, WantedIsTop, NoGap, FollowsTheEnd, Align, Count

\* After a layout the list shows no gap, whatever its overdraw: measured items
\* fill the view, however far the heights that it knew were off
\* (StateInner::layout_items).
THEOREM ListAlwaysFilled == ListSpec => []NoGap
<1>1. ListInv /\ [ListNext]_listVars => ListInv'
  BY ListStep
<1>2. ListInv => NoGap
  BY DEF ListInv
<1> QED BY <1>1, <1>2, ListStarts, PTL DEF ListSpec

\* If it also follows its tail, and measures more than a pixel beyond the view,
\* it has measured everything below the position and shows the end.  With an
\* overdraw of a pixel or none it may resume following above items that it has
\* not measured (the last check of StateInner::layout_items).
THEOREM ListAlwaysSettles == Overdraw > 1 => (ListSpec => []LayoutSettles)
<1> SUFFICES ASSUME Overdraw > 1 PROVE ListSpec => []LayoutSettles
  OBVIOUS
<1>1. ListInv /\ [ListNext]_listVars => ListInv'
  BY ListStep
<1>2. ListInv => LayoutSettles
  BY DEF ListInv, LayoutSettles
<1> QED BY <1>1, <1>2, ListStarts, PTL DEF ListSpec

\* A layout keeps the item at the top where the user or the view put it, or at
\* its end if it shrank, unless the list had to be filled from above; through
\* splices and remeasurements.
THEOREM TopAlwaysKept == ListSpec => TopIsKept
<1>1. ListInv /\ [ListNext]_listVars => ListInv' /\ [KeepsTop]_listVars
  BY ListStep
<1>2. [KeepsTop]_listVars => [laid_out' /\ wanted # NoTop /\ wanted' # NoTop /\ follow_state # "following"
          => \/ /\ wanted'[1] = wanted[1] /\ wanted'[2] <= wanted[2]
                /\ wanted'[2] \in {wanted[2], items'[wanted'[1] + 1].height}
             \/ SumOf(items') - Above(items', logical_scroll_top'[1]) - logical_scroll_top'[2]
                   <= View]_listVars
  BY DEF KeepsTop
<1> QED BY <1>1, <1>2, ListStarts, PTL DEF ListSpec, TopIsKept

==============================================================================
