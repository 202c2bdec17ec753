--------------------------- MODULE Platform_proofs ---------------------------
(***************************************************************************)
(* What a platform does for its threads and windows, for any number of     *)
(* them: runnables reach the thread that runs them through the queue of    *)
(* the background threads (PriorityQueue) and to the main threads of       *)
(* Linux, the web and Windows (CalloopChannel, MainThreadMailbox,          *)
(* WindowsWake); then the focus, the tooltips, the frames, the drags from  *)
(* outside and the tab stops of windows.                                   *)
(***************************************************************************)
EXTENDS PriorityQueue, CalloopChannel, MainThreadMailbox, WindowsWake, WindowFocus, Tooltip,
        FrameLoop, DragHandoff, TabStops, Numbers_proofs, FiniteSetTheorems, SequenceTheorems,
        TLAPS

(***************************************************************************)
(* The queue.  The inductive invariant joins the types, the meaning of     *)
(* receiver_count (without it the decrement of DropReceiver could leave    *)
(* the naturals) and the two safety properties: a receiver that left the   *)
(* "woken" state without taking an item (the panic of pop) would break     *)
(* NoLostWakeup, so the loaded die is part of the argument.                *)
(***************************************************************************)

\* receiver_count is the number of receiver handles.
CountsHandles == receiver_count = Cardinality(Handles)

Inv == TypeOK /\ CountsHandles /\ NoLostWakeup /\ PopFindsItem

-----------------------------------------------------------------------------
\* The loaded die of pop_inner cannot fail on every non-empty queue: at the
\* last of them the mass left is that queue's own weight.
LEMMA DieLands ==
    ASSUME NEW ps \in SUBSET Priorities, ps # {}
    PROVE  ~CanMiss(ps)
<1>1. CASE "Low" \in ps
  <2>1. MassAt("Low", ps) = Weight("Low")
    BY <1>1 DEF MassAt, MassOf, Weight
  <2>2. FALSE \notin Flips(Weight("Low"), MassAt("Low", ps))
    BY <2>1 DEF Flips
  <2> QED BY <1>1, <2>2 DEF CanMiss
<1>2. CASE "Low" \notin ps /\ "Medium" \in ps
  <2>1. MassAt("Medium", ps) = Weight("Medium")
    BY <1>2 DEF MassAt, MassOf, Weight
  <2>2. FALSE \notin Flips(Weight("Medium"), MassAt("Medium", ps))
    BY <2>1 DEF Flips
  <2> QED BY <1>2, <2>2 DEF CanMiss
<1>3. CASE "Low" \notin ps /\ "Medium" \notin ps
  <2>1. "High" \in ps
    BY <1>3 DEF Priorities
  <2>2. MassAt("High", ps) = Weight("High")
    BY <1>3, <2>1 DEF MassAt, MassOf, Weight
  <2>3. FALSE \notin Flips(Weight("High"), MassAt("High", ps))
    BY <2>2 DEF Flips
  <2> QED BY <2>1, <2>3 DEF CanMiss
<1> QED BY <1>1, <1>2, <1>3

\* The sets of receivers that the counts range over are finite.
LEMMA FiniteSubsets ==
    ASSUME NEW S \in SUBSET Receivers
    PROVE  IsFiniteSet(S) /\ Cardinality(S) \in Nat
BY FiniteAssumption, FS_Subset, FS_CardinalityType

\* The total is a natural number, and zero only for three empty queues.
LEMMA TotalType ==
    ASSUME NEW qs \in [Priorities -> Seq(Items)]
    PROVE  /\ Total(qs) \in Nat
           /\ (\A p \in Priorities : qs[p] = <<>>) => Total(qs) = 0
BY DEF Total, Priorities

\* When only queue p changes, the total changes by as much as its length.
LEMMA TotalChange ==
    ASSUME NEW f \in [Priorities -> Seq(Items)],
           NEW g \in [Priorities -> Seq(Items)],
           NEW p \in Priorities,
           \A q \in Priorities \ {p} : g[q] = f[q]
    PROVE  Total(g) + Len(f[p]) = Total(f) + Len(g[p])
<1>1. CASE p = "High"
  <2>1. g["Medium"] = f["Medium"] /\ g["Low"] = f["Low"]
    BY <1>1 DEF Priorities
  <2> QED BY <1>1, <2>1 DEF Total, Priorities
<1>2. CASE p = "Medium"
  <2>1. g["High"] = f["High"] /\ g["Low"] = f["Low"]
    BY <1>2 DEF Priorities
  <2> QED BY <1>2, <2>1 DEF Total, Priorities
<1>3. CASE p = "Low"
  <2>1. g["High"] = f["High"] /\ g["Medium"] = f["Medium"]
    BY <1>3 DEF Priorities
  <2> QED BY <1>3, <2>1 DEF Total, Priorities
<1> QED BY <1>1, <1>2, <1>3 DEF Priorities

\* Taking the head of a non-empty queue lowers the total by one.
LEMMA TotalTail ==
    ASSUME NEW f \in [Priorities -> Seq(Items)],
           NEW p \in Priorities, f[p] # <<>>
    PROVE  /\ [f EXCEPT ![p] = Tail(@)] \in [Priorities -> Seq(Items)]
           /\ Head(f[p]) \in Items
           /\ Total([f EXCEPT ![p] = Tail(@)]) = Total(f) + (-1)
<1> DEFINE g == [f EXCEPT ![p] = Tail(@)]
<1>1. /\ Tail(f[p]) \in Seq(Items)
      /\ Len(Tail(f[p])) = Len(f[p]) + (-1)
      /\ Head(f[p]) \in Items
  OBVIOUS
<1>2. g \in [Priorities -> Seq(Items)]
  BY <1>1
<1>3. Len(g[p]) = Len(f[p]) + (-1) /\ \A q \in Priorities \ {p} : g[q] = f[q]
  BY <1>1
<1> HIDE DEF g
<1>4. Total(g) + Len(f[p]) = Total(f) + Len(g[p])
  BY <1>2, <1>3, TotalChange
<1>5. Total(g) \in Nat /\ Total(f) \in Nat /\ Len(f[p]) \in Nat
  BY <1>2, TotalType
<1>6. Total(g) = Total(f) + (-1)
  BY <1>3, <1>4, <1>5
<1> QED BY <1>1, <1>2, <1>6 DEF g

\* Appending to a queue raises the total by one.
LEMMA TotalAppend ==
    ASSUME NEW f \in [Priorities -> Seq(Items)],
           NEW p \in Priorities, NEW i \in Items
    PROVE  /\ [f EXCEPT ![p] = Append(@, i)] \in [Priorities -> Seq(Items)]
           /\ Total([f EXCEPT ![p] = Append(@, i)]) = Total(f) + 1
<1> DEFINE g == [f EXCEPT ![p] = Append(@, i)]
<1>1. Append(f[p], i) \in Seq(Items) /\ Len(Append(f[p], i)) = Len(f[p]) + 1
  OBVIOUS
<1>2. g \in [Priorities -> Seq(Items)]
  BY <1>1
<1>3. Len(g[p]) = Len(f[p]) + 1 /\ \A q \in Priorities \ {p} : g[q] = f[q]
  BY <1>1
<1> HIDE DEF g
<1>4. Total(g) + Len(f[p]) = Total(f) + Len(g[p])
  BY <1>2, <1>3, TotalChange
<1>5. Total(g) \in Nat /\ Total(f) \in Nat /\ Len(f[p]) \in Nat
  BY <1>2, TotalType
<1>6. Total(g) = Total(f) + 1
  BY <1>3, <1>4, <1>5
<1> QED BY <1>2, <1>6 DEF g

-----------------------------------------------------------------------------
\* A step of receiver r from a state that is not "absent" to another such
\* state keeps the count of handles right.
LEMMA KeepsHandles ==
    ASSUME TypeOK, CountsHandles, NEW r \in Receivers, receiver[r] # "absent",
           NEW st \in ReceiverStates \ {"absent"},
           receiver' = [receiver EXCEPT ![r] = st],
           UNCHANGED receiver_count
    PROVE  CountsHandles'
<1>1. Handles' = Handles
  BY DEF Handles, TypeOK
<1> QED BY <1>1 DEF CountsHandles

\* What pop and the woken pop do to the invariant once the emptiness test is
\* behind them.
LEMMA WaitOrTakeKeepsInv ==
    ASSUME Inv, NEW r \in Receivers, receiver[r] \in {"idle", "woken"},
           WaitOrTake(r),
           UNCHANGED <<sender_count, receiver_count, sending, rejected>>
    PROVE  Inv'
<1> USE DEF Inv
<1>0. \A S \in SUBSET Receivers : IsFiniteSet(S) /\ Cardinality(S) \in Nat
  BY FiniteSubsets
<1>1. CASE IsEmpty
  <2>1. /\ receiver' = [receiver EXCEPT ![r] = "waiting"]
        /\ UNCHANGED <<queues, popped>>
    BY <1>1 DEF WaitOrTake
  <2>2. TypeOK'
    BY <2>1 DEF TypeOK, ReceiverStates
  <2>3. CountsHandles'
    BY <2>1, KeepsHandles DEF ReceiverStates
  <2>4. Total(queues)' = 0
    <3>1. \A q \in Priorities : queues[q] = <<>>
      BY <1>1 DEF IsEmpty, NonEmpty
    <3>2. Total(queues) = 0
      BY <3>1, TotalType DEF TypeOK
    <3> QED BY <2>1, <3>2
  <2>5. Woken' \in SUBSET Receivers
    BY DEF Woken
  <2>6. Cardinality(Woken') \in Nat
    BY <1>0, <2>5
  <2>7. NoLostWakeup'
    BY <2>4, <2>6 DEF NoLostWakeup
  <2>8. PopFindsItem'
    BY <2>1 DEF PopFindsItem, TypeOK
  <2> QED BY <2>2, <2>3, <2>7, <2>8
<1>2. CASE ~IsEmpty
  <2>0. ~CanMiss(NonEmpty)
    BY <1>2, DieLands DEF IsEmpty, NonEmpty
  <2>1. PICK p \in Priorities :
           /\ CanChoose(p, NonEmpty)
           /\ queues' = [queues EXCEPT ![p] = Tail(@)]
           /\ popped' = popped \cup {Head(queues[p])}
           /\ receiver' = [receiver EXCEPT ![r] = "idle"]
    BY <1>2, <2>0 DEF WaitOrTake, Take
  <2>2. queues[p] # <<>>
    BY <2>1 DEF CanChoose, NonEmpty
  <2>3. /\ queues' \in [Priorities -> Seq(Items)]
        /\ Head(queues[p]) \in Items
        /\ Total(queues)' = Total(queues) + (-1)
    BY <2>1, <2>2, TotalTail DEF TypeOK
  <2>4. TypeOK'
    BY <2>1, <2>3 DEF TypeOK, ReceiverStates
  <2>5. CountsHandles'
    BY <2>1, KeepsHandles DEF ReceiverStates
  <2>6. Woken' = Woken \ {r} /\ Waiting' = Waiting
    BY <2>1 DEF Woken, Waiting, TypeOK
  <2>7. Cardinality(Woken') \in Nat /\ Cardinality(Woken) \in Nat
        /\ Cardinality(Woken') >= Cardinality(Woken) - 1
    <3>1. Woken \in SUBSET Receivers
      BY DEF Woken
    <3>2. IsFiniteSet(Woken)
      BY <1>0, <3>1
    <3>3. Cardinality(Woken \ {r}) =
             IF r \in Woken THEN Cardinality(Woken) - 1 ELSE Cardinality(Woken)
      BY <3>2, FS_RemoveElement
    <3>4. Woken \ {r} \in SUBSET Receivers
      BY <3>1
    <3> QED BY <1>0, <2>6, <3>1, <3>3, <3>4
  <2>8. Total(queues) \in Nat
    BY TotalType DEF TypeOK
  <2>9. NoLostWakeup'
    BY <2>3, <2>6, <2>7, <2>8 DEF NoLostWakeup
  <2>10. PopFindsItem'
    BY <2>1 DEF PopFindsItem, TypeOK
  <2> QED BY <2>4, <2>5, <2>9, <2>10
<1> QED BY <1>1, <1>2

-----------------------------------------------------------------------------
\* The push and the notification of send.
LEMMA SendPushKeepsInv ==
    ASSUME Inv, NEW s \in Senders, SendPush(s)
    PROVE  Inv'
<1> USE DEF Inv
<1>1. /\ sending[s].item \in Items
      /\ sending[s].priority \in Priorities
  BY DEF SendPush, TypeOK
<1>2. /\ queues' \in [Priorities -> Seq(Items)]
      /\ Total(queues)' = Total(queues) + 1
  BY <1>1, TotalAppend DEF SendPush, TypeOK
<1>3. sending' \in [Senders -> [item : Items, priority : Priorities]
                               \cup {NoItem}]
  BY DEF SendPush, TypeOK
<1>4. CASE Waiting = {}
  <2>1. UNCHANGED receiver
    BY <1>4 DEF SendPush, NotifyOne
  <2>2. UNCHANGED <<Handles, Waiting>>
    BY <2>1 DEF Handles, Waiting
  <2> QED
    BY <1>2, <1>3, <1>4, <2>1, <2>2
       DEF SendPush, TypeOK, CountsHandles, NoLostWakeup, PopFindsItem
<1>5. CASE Waiting # {}
  <2>1. PICK r \in Waiting : receiver' = [receiver EXCEPT ![r] = "woken"]
    BY <1>5 DEF SendPush, NotifyOne
  <2>2. r \in Receivers /\ receiver[r] = "waiting"
    BY DEF Waiting
  <2>3. TypeOK'
    BY <1>2, <1>3, <2>1, <2>2 DEF SendPush, TypeOK, ReceiverStates
  <2>4. CountsHandles'
    BY <2>1, <2>2, KeepsHandles DEF SendPush, ReceiverStates
  <2>5. Woken' = Woken \cup {r} /\ r \notin Woken
    BY <2>1, <2>2 DEF Woken, TypeOK
  <2>6. Woken \in SUBSET Receivers
    BY DEF Woken
  <2>7. IsFiniteSet(Woken) /\ Cardinality(Woken) \in Nat
    BY <2>6, FiniteSubsets
  <2>8. Cardinality(Woken') = Cardinality(Woken) + 1
    BY <2>5, <2>7, FS_AddElement
  <2>9. Total(queues) \in Nat /\ Total(queues) <= Cardinality(Woken)
    BY <1>5, TotalType DEF TypeOK, NoLostWakeup
  <2>10. NoLostWakeup'
    BY <1>2, <2>7, <2>8, <2>9 DEF NoLostWakeup
  <2>11. PopFindsItem'
    BY <2>1, <2>2 DEF PopFindsItem, TypeOK
  <2> QED BY <2>3, <2>4, <2>10, <2>11
<1> QED BY <1>4, <1>5

\* The blocking pop, from its entry.
LEMMA PopKeepsInv ==
    ASSUME Inv, NEW r \in Receivers, Pop(r)
    PROVE  Inv'
<1>1. CASE IsEmpty /\ sender_count = 0
  <2>1. receiver' = [receiver EXCEPT ![r] = "closed"]
    BY <1>1 DEF Pop
  <2>2. CountsHandles'
    BY <2>1, KeepsHandles DEF Inv, Pop, ReceiverStates
  <2>3. UNCHANGED <<queues, Woken, Waiting>>
    BY <1>1, <2>1 DEF Inv, Pop, Woken, Waiting, TypeOK
  <2> QED
    BY <1>1, <2>1, <2>2, <2>3
       DEF Inv, Pop, TypeOK, ReceiverStates, NoLostWakeup, PopFindsItem
<1>2. CASE ~(IsEmpty /\ sender_count = 0)
  BY <1>2, WaitOrTakeKeepsInv DEF Pop
<1> QED BY <1>1, <1>2

\* The pops that do not block.
LEMMA TryPopKeepsInv ==
    ASSUME Inv, NEW r \in Receivers, TryPop(r)
    PROVE  Inv'
<1>1. CASE IsEmpty /\ sender_count = 0
  <2>1. receiver' = [receiver EXCEPT ![r] = "closed"]
    BY <1>1 DEF TryPop
  <2>2. CountsHandles'
    BY <2>1, KeepsHandles DEF Inv, TryPop, ReceiverStates
  <2>3. UNCHANGED <<queues, Woken, Waiting>>
    BY <1>1, <2>1 DEF Inv, TryPop, Woken, Waiting, TypeOK
  <2> QED
    BY <1>1, <2>1, <2>2, <2>3
       DEF Inv, TryPop, TypeOK, ReceiverStates, NoLostWakeup, PopFindsItem
<1>2. CASE IsEmpty /\ sender_count # 0
  <2>1. UNCHANGED vars
    BY <1>2 DEF TryPop, vars
  <2> QED
    BY <2>1 DEF Inv, vars, TypeOK, CountsHandles, NoLostWakeup, PopFindsItem,
                Handles, Waiting, Woken, Total
<1>3. CASE ~IsEmpty
  BY <1>3, WaitOrTakeKeepsInv DEF TryPop, WaitOrTake
<1> QED BY <1>1, <1>2, <1>3

\* A cloned handle is counted.
LEMMA CloneKeepsInv ==
    ASSUME Inv, NEW r \in Receivers, NEW new \in Receivers,
           CloneReceiver(r, new)
    PROVE  Inv'
<1> USE DEF Inv
<1>1. /\ receiver[new] = "absent"
      /\ receiver' = [receiver EXCEPT ![new] = "idle"]
      /\ receiver_count' = receiver_count + 1
      /\ UNCHANGED <<queues, sender_count, sending, rejected, popped>>
  BY DEF CloneReceiver
<1>2. TypeOK'
  BY <1>1 DEF TypeOK, ReceiverStates
<1>3. Handles' = Handles \cup {new} /\ new \notin Handles
  BY <1>1 DEF Handles, TypeOK
<1>4. Handles \in SUBSET Receivers
  BY DEF Handles
<1>5. CountsHandles'
  BY <1>1, <1>3, <1>4, FiniteSubsets, FS_AddElement DEF CountsHandles
<1>6. UNCHANGED <<queues, Woken, Waiting>>
  BY <1>1 DEF Woken, Waiting, TypeOK
<1>7. NoLostWakeup' /\ PopFindsItem'
  BY <1>1, <1>6 DEF NoLostWakeup, PopFindsItem, TypeOK
<1> QED BY <1>2, <1>5, <1>7

\* A dropped handle is uncounted; there was one to drop.
LEMMA DropKeepsInv ==
    ASSUME Inv, NEW r \in Receivers, DropReceiver(r)
    PROVE  Inv'
<1> USE DEF Inv
<1>1. /\ receiver[r] \in {"idle", "closed", "panicked"}
      /\ receiver' = [receiver EXCEPT ![r] = "absent"]
      /\ receiver_count' = receiver_count - 1
      /\ UNCHANGED <<queues, sender_count, sending, rejected, popped>>
  BY DEF DropReceiver
<1>2. Handles' = Handles \ {r} /\ r \in Handles
  BY <1>1 DEF Handles, TypeOK
<1>3. Handles \in SUBSET Receivers /\ Handles' \in SUBSET Receivers
  BY <1>2 DEF Handles
<1>4. Cardinality(Handles') = Cardinality(Handles) - 1
  BY <1>2, <1>3, FiniteSubsets, FS_RemoveElement
<1>5. Cardinality(Handles') \in Nat
  BY <1>3, FiniteSubsets
<1>6. CountsHandles'
  BY <1>1, <1>4 DEF CountsHandles
<1>7. TypeOK'
  BY <1>1, <1>4, <1>5 DEF TypeOK, ReceiverStates, CountsHandles
<1>8. UNCHANGED <<queues, Woken, Waiting>>
  BY <1>1 DEF Woken, Waiting, TypeOK
<1>9. NoLostWakeup' /\ PopFindsItem'
  BY <1>1, <1>8 DEF NoLostWakeup, PopFindsItem, TypeOK
<1> QED BY <1>6, <1>7, <1>9

-----------------------------------------------------------------------------
\* The invariant holds initially and every step keeps it.
LEMMA InitInv == Init => Inv
<1> SUFFICES ASSUME Init PROVE Inv
  OBVIOUS
<1>1. TypeOK
  BY DEF Init, TypeOK, ReceiverStates
<1>2. Handles = {Root}
  BY RootAssumption DEF Init, Handles
<1>3. CountsHandles
  BY <1>2, FS_Singleton DEF Init, CountsHandles
<1>4. Waiting = {} /\ PopFindsItem
  BY DEF Init, Waiting, PopFindsItem
<1> QED BY <1>1, <1>3, <1>4 DEF Inv, NoLostWakeup

LEMMA NextInv == Inv /\ [Next]_vars => Inv'
<1> SUFFICES ASSUME Inv, [Next]_vars PROVE Inv'
  OBVIOUS
<1>1. ASSUME NEW s \in Senders, NEW i \in Items, NEW p \in Priorities,
             SendTest(s, i, p)
      PROVE  Inv'
  <2>1. TypeOK'
    BY <1>1 DEF Inv, SendTest, TypeOK
  <2> QED
    BY <1>1, <2>1 DEF Inv, SendTest, CountsHandles, NoLostWakeup,
                      PopFindsItem, Handles, Waiting, Woken, Total
<1>2. ASSUME NEW s \in Senders, SendPush(s) PROVE Inv'
  BY <1>2, SendPushKeepsInv
<1>3. CASE DropSender
  <2>1. TypeOK'
    BY <1>3 DEF Inv, DropSender, TypeOK
  <2> QED
    BY <1>3, <2>1 DEF Inv, DropSender, CountsHandles, NoLostWakeup,
                      PopFindsItem, Handles, Waiting, Woken, Total
<1>4. ASSUME NEW r \in Receivers, Pop(r) PROVE Inv'
  BY <1>4, PopKeepsInv
<1>5. ASSUME NEW r \in Receivers, Wake(r) PROVE Inv'
  BY <1>5, WaitOrTakeKeepsInv DEF Wake
<1>6. ASSUME NEW r \in Receivers, TryPop(r) PROVE Inv'
  BY <1>6, TryPopKeepsInv
<1>7. ASSUME NEW r \in Receivers, DropReceiver(r) PROVE Inv'
  BY <1>7, DropKeepsInv
<1>8. ASSUME NEW r \in Receivers, NEW new \in Receivers,
             CloneReceiver(r, new)
      PROVE  Inv'
  BY <1>8, CloneKeepsInv
<1>9. CASE UNCHANGED vars
  BY <1>9 DEF Inv, vars, TypeOK, CountsHandles, NoLostWakeup, PopFindsItem,
              Handles, Waiting, Woken, Total
<1> QED
  BY <1>1, <1>2, <1>3, <1>4, <1>5, <1>6, <1>7, <1>8, <1>9 DEF Next

\* Every reachable state of queue.rs satisfies the inductive invariant.
THEOREM InvHolds == Spec => []Inv
BY InitInv, NextInv, PTL DEF Spec

\* The queue's variables keep their types; in particular no Drop ever takes
\* a count below zero.
THEOREM TypeCorrect == Spec => []TypeOK
<1>1. Inv => TypeOK
  BY DEF Inv
<1> QED BY <1>1, InvHolds, PTL

\* For any number of sending threads, workers and items, a worker parked in
\* recv never coexists with a queued item that no notified worker is coming
\* for.
THEOREM WakeupNeverLost == Spec => []NoLostWakeup
<1>1. Inv => NoLostWakeup
  BY DEF Inv
<1> QED BY <1>1, InvHolds, PTL

\* pop's unwrap never meets Ok(None), whatever the random numbers.
THEOREM PopAlwaysFindsItem == Spec => []PopFindsItem
<1>1. Inv => PopFindsItem
  BY DEF Inv
<1> QED BY <1>1, InvHolds, PTL

\* SendError is returned only when no receiver handle exists.
THEOREM RejectionMeansNoReceiver == Spec => RejectedOnlyWithoutReceiver
<1>1. ASSUME Inv, [Next]_vars, rejected' # rejected PROVE Handles = {}
  <2>1. PICK s \in Senders, i \in Items, p \in Priorities : SendTest(s, i, p)
    BY <1>1 DEF Next, vars, SendPush, DropSender, Pop, Wake, TryPop,
                DropReceiver, CloneReceiver
  <2>2. receiver_count = 0
    BY <1>1, <2>1 DEF SendTest
  <2>3. Handles \in SUBSET Receivers
    BY DEF Handles
  <2> QED
    BY <1>1, <2>2, <2>3, FiniteSubsets, FS_EmptySet DEF Inv, CountsHandles
<1>2. Inv /\ [Next]_vars => [rejected' # rejected => Handles = {}]_vars
  BY <1>1 DEF vars
<1> QED BY <1>2, InvHolds, PTL DEF Spec, RejectedOnlyWithoutReceiver

\* No thread is inside send once the sender is dropped: it would borrow it.
SendersGone == sender_count = 0 => \A s \in Senders : sending[s] = NoItem

LEMMA SendersGoneHolds == Spec => []SendersGone
<1>1. Init => SendersGone
  BY DEF Init, SendersGone
<1>2. ASSUME TypeOK, SendersGone, [Next]_vars PROVE SendersGone'
  <2>1. ASSUME NEW s \in Senders, NEW i \in Items, NEW p \in Priorities,
               SendTest(s, i, p)
        PROVE  SendersGone'
    BY <1>2, <2>1 DEF SendTest, SendersGone, TypeOK
  <2>2. ASSUME NEW s \in Senders, SendPush(s) PROVE SendersGone'
    BY <1>2, <2>2 DEF SendPush, SendersGone, TypeOK
  <2>3. CASE DropSender
    BY <1>2, <2>3 DEF DropSender, SendersGone
  <2>4. CASE UNCHANGED <<sender_count, sending>>
    BY <1>2, <2>4 DEF SendersGone
  <2> QED
    BY <1>2, <2>1, <2>2, <2>3, <2>4 DEF Next, vars, Pop, Wake, TryPop,
                                        DropReceiver, CloneReceiver
<1> QED BY <1>1, <1>2, TypeCorrect, PTL DEF Spec

\* RecvError is returned only when the sender is gone and every item a send
\* accepted has been popped.
THEOREM ClosingLosesNothing == Spec => ClosedMeansDrained
<1> DEFINE Drained == /\ sender_count = 0
                      /\ \A i \in Items : ~InQueue(i) /\ ~InFlight(i)
<1>1. ASSUME TypeOK, SendersGone, [Next]_vars, NEW r \in Receivers,
             receiver[r] # "closed", receiver'[r] = "closed"
      PROVE  Drained
  <2>1. PICK q \in Receivers : Pop(q) \/ Wake(q) \/ TryPop(q)
    BY <1>1 DEF Next, vars, SendTest, SendPush, NotifyOne, Waiting, DropSender,
                DropReceiver, CloneReceiver, TypeOK
  <2>2. IsEmpty /\ sender_count = 0
    BY <1>1, <2>1 DEF Pop, Wake, TryPop, WaitOrTake, Take, TypeOK
  <2>3. \A i \in Items : ~InQueue(i)
    <3>1. \A p \in Priorities : queues[p] = <<>>
      BY <2>2 DEF IsEmpty, NonEmpty
    <3>2. \A p \in Priorities : Len(queues[p]) = 0
      BY <3>1
    <3> QED BY <3>2 DEF InQueue
  <2>4. \A i \in Items : ~InFlight(i)
    BY <1>1, <2>2 DEF SendersGone, InFlight
  <2> QED BY <2>2, <2>3, <2>4
<1>2. TypeOK /\ SendersGone /\ [Next]_vars
        => [\A r \in Receivers :
              receiver[r] # "closed" /\ receiver'[r] = "closed" => Drained]_vars
  BY <1>1
<1> QED
  BY <1>2, TypeCorrect, SendersGoneHolds, PTL DEF Spec, ClosedMeansDrained

-----------------------------------------------------------------------------
(***************************************************************************)
(* The main threads.  The three protocols have the same shape: push,       *)
(* announce; look, drain, take back the announcement, look again.  Each    *)
(* invariant says who still has to do what about an item that is queued,   *)
(* and each protocol implements the safety part of Delivery.               *)
(***************************************************************************)

(***************************************************************************)
(* Linux: CalloopChannel.                                                  *)
(***************************************************************************)

\* ChannelInv holds of a new channel.
LEMMA ChannelInvInit == ChannelInit => ChannelInv
  BY DEF ChannelInit, ChannelInv, ChannelTypeOK, ItemIsAnnounced, ClosedIsLast

\* Every step of send, of the sender's drop and of process_events preserves
\* ChannelInv.
LEMMA ChannelInvStep == ChannelInv /\ [ChannelNext]_channelVars => ChannelInv'
<1> SUFFICES ASSUME ChannelInv, [ChannelNext]_channelVars
             PROVE  ChannelInv'
  OBVIOUS
<1> USE DEF ChannelInv, ChannelTypeOK, ItemIsAnnounced, ClosedIsLast
<1>1. ASSUME NEW t \in Threads, NEW i \in Msgs, Push(t, i)
      PROVE  ChannelInv'
  <2>1. CASE loop = "gone"
    BY <1>1, <2>1 DEF Push
  <2>2. CASE loop # "gone"
    BY <1>1, <2>2 DEF Push
  <2> QED  BY <2>1, <2>2
<1>2. ASSUME NEW t \in Threads, Ping(t)
      PROVE  ChannelInv'
  BY <1>2 DEF Ping
<1>3. CASE DropCalloopSender
  BY <1>3 DEF DropCalloopSender
<1>4. CASE DropField
  BY <1>4 DEF DropField
<1>5. CASE PollWakes
  BY <1>5 DEF PollWakes
<1>6. ASSUME NEW i \in Msgs, Deliver(i)
      PROVE  ChannelInv'
  BY <1>6 DEF Deliver
<1>7. CASE EndDrain
  <2>1. CASE sender = "gone"
    BY <1>7, <2>1 DEF EndDrain
  <2>2. CASE sender # "gone"
    BY <1>7, <2>2 DEF EndDrain
  <2> QED  BY <2>1, <2>2
<1>8. CASE StopLoop
  BY <1>8 DEF StopLoop
<1>9. CASE UNCHANGED channelVars
  BY <1>9 DEF channelVars
<1> QED
  BY <1>1, <1>2, <1>3, <1>4, <1>5, <1>6, <1>7, <1>8, <1>9 DEF ChannelNext

\* ChannelInv holds throughout: the eventfd is drained before the queue is, and a
\* thread pings after it has pushed.
THEOREM ChannelInvHolds == ChannelSpec => []ChannelInv
<1>1. ChannelInit => ChannelInv  BY ChannelInvInit
<1>2. ChannelInv /\ [ChannelNext]_channelVars => ChannelInv'  BY ChannelInvStep
<1> QED  BY <1>1, <1>2, PTL DEF ChannelSpec

\* No runnable waits in the queue behind a loop that nobody will wake.
THEOREM ItemsAreAnnounced == ChannelSpec => []ItemIsAnnounced
<1>1. ChannelInv => ItemIsAnnounced  BY DEF ChannelInv
<1> QED  BY <1>1, ChannelInvHolds, PTL

\* Event::Closed comes after every message and ends the channel.
THEOREM ClosedComesLast == ChannelSpec => []ClosedIsLast
<1>1. ChannelInv => ClosedIsLast  BY DEF ChannelInv
<1> QED  BY <1>1, ChannelInvHolds, PTL

\* The channel implements the safety part of Delivery: a runnable is run only
\* after it was sent, and only once, also when the loop stops in between.
THEOREM ChannelDelivers == ChannelSpec => ChannelAsDelivery!SafeSpec
<1>1. ChannelInit => ChannelAsDelivery!Init
  BY DEF ChannelInit, ChannelAsDelivery!Init
<1>2. ChannelInv /\ [ChannelNext]_channelVars => [ChannelAsDelivery!Next]_(ChannelAsDelivery!vars)
  <2> SUFFICES ASSUME ChannelInv, [ChannelNext]_channelVars
               PROVE  [ChannelAsDelivery!Next]_(ChannelAsDelivery!vars)
    OBVIOUS
  <2> USE DEF ChannelAsDelivery!vars
  <2>1. ASSUME NEW t \in Threads, NEW i \in Msgs, Push(t, i)
        PROVE  ChannelAsDelivery!Post(i) \/ UNCHANGED ChannelAsDelivery!vars
    BY <2>1 DEF ChannelInv, Push, ChannelAsDelivery!Post
  <2>2. ASSUME NEW i \in Msgs, Deliver(i)
        PROVE  ChannelAsDelivery!Run(i)
    BY <2>2 DEF Deliver, ChannelAsDelivery!Run
  <2>3. ASSUME NEW t \in Threads, Ping(t)
        PROVE  UNCHANGED ChannelAsDelivery!vars
    BY <2>3 DEF Ping
  <2>4. CASE DropCalloopSender \/ DropField \/ PollWakes \/ EndDrain
    BY <2>4 DEF DropCalloopSender, DropField, PollWakes, EndDrain
  <2>5. CASE StopLoop
    BY <2>5 DEF StopLoop, ChannelAsDelivery!Stop, ChannelAsDelivery!Next
  <2>6. CASE UNCHANGED channelVars
    BY <2>6 DEF channelVars
  <2> QED  BY <2>1, <2>2, <2>3, <2>4, <2>5, <2>6 DEF ChannelNext, ChannelAsDelivery!Next
<1> QED  BY <1>1, <1>2, ChannelInvHolds, PTL DEF ChannelSpec, ChannelAsDelivery!SafeSpec

-----------------------------------------------------------------------------
(***************************************************************************)
(* The web: MainThreadMailbox.                                             *)
(***************************************************************************)

\* The invariant MailboxInv holds when the mailbox is created: nothing is queued.
LEMMA MailboxInvInit == MailboxInit => MailboxInv
  BY DEF MailboxInit, MailboxInv, MailboxTypeOK, Rearmed, PostStates, WakerStates

\* Every step of post and of the waker loop preserves MailboxInv.
LEMMA MailboxInvStep == MailboxInv /\ [MailboxNext]_mailboxVars => MailboxInv'
<1> SUFFICES ASSUME MailboxInv, [MailboxNext]_mailboxVars
             PROVE  MailboxInv'
  OBVIOUS
<1> USE DEF MailboxInv, MailboxTypeOK, Rearmed, PostStates, WakerStates
<1>1. ASSUME NEW t \in Posters, NEW i \in Jobs, PostPush(t, i)
      PROVE  MailboxInv'
  <2>1. MailboxTypeOK' /\ (mailbox \cap jobs_run = {})'
    BY <1>1 DEF PostPush
  <2>2. post'[t] = "pushed"
    BY <1>1 DEF PostPush
  <2>3. ASSUME waker' = "parked", signal' = 1
        PROVE  \E u \in Posters : post'[u] = "stored"
    <3>1. PICK u \in Posters : post[u] = "stored"
      BY <1>1, <2>3 DEF PostPush
    <3>2. post'[u] = "stored"
      BY <1>1, <3>1 DEF PostPush
    <3> QED  BY <3>2
  <2> QED  BY <2>1, <2>2, <2>3
<1>2. ASSUME NEW t \in Posters, Store(t)
      PROVE  MailboxInv'
  <2>1. MailboxTypeOK' /\ (mailbox \cap jobs_run = {})'
    BY <1>2 DEF Store
  <2>2. signal' = 1 /\ post'[t] = "stored"
    BY <1>2 DEF Store
  <2> QED  BY <2>1, <2>2
<1>3. ASSUME NEW t \in Posters, Notify(t)
      PROVE  MailboxInv'
  <2>1. MailboxTypeOK' /\ (mailbox \cap jobs_run = {})'
    BY <1>3 DEF Notify
  <2>2. waker' # "parked"
    BY <1>3 DEF Notify
  <2>3. ASSUME waker' = "wait", mailbox' # {}, signal' # 1
        PROVE  \E u \in Posters : post'[u] = "pushed"
    <3>1. PICK u \in Posters : post[u] = "pushed"
      BY <1>3, <2>3 DEF Notify
    <3>2. post'[u] = "pushed"
      BY <1>3, <3>1 DEF Notify
    <3> QED  BY <3>2
  <2> QED  BY <2>1, <2>2, <2>3
<1>4. CASE Rearm
  BY <1>4 DEF Rearm
<1>5. CASE MailboxEmpty
  BY <1>5 DEF MailboxEmpty
<1>6. CASE WaitAsync
  BY <1>6 DEF WaitAsync
<1>7. ASSUME NEW i \in Jobs, Execute(i)
      PROVE  MailboxInv'
  BY <1>7 DEF Execute
<1>8. CASE UNCHANGED mailboxVars
  BY <1>8 DEF mailboxVars
<1> QED  BY <1>1, <1>2, <1>3, <1>4, <1>5, <1>6, <1>7, <1>8 DEF MailboxNext

\* MailboxInv holds throughout: re-arming before the second drain, and comparing when
\* the loop parks, are what keeps the signal in step with the queue.
THEOREM MailboxInvHolds == MailboxSpec => []MailboxInv
<1>1. MailboxInit => MailboxInv  BY MailboxInvInit
<1>2. MailboxInv /\ [MailboxNext]_mailboxVars => MailboxInv'  BY MailboxInvStep
<1> QED  BY <1>1, <1>2, PTL DEF MailboxSpec

\* The waker loop never sleeps on work, for any number of posting threads: a
\* parked loop with a queued item has a notify on its way.
THEOREM MailboxNeverSleepsOnWork == MailboxSpec => []NeverSleepsOnWork
<1>1. MailboxInv => NeverSleepsOnWork
  BY DEF MailboxInv, Rearmed, NeverSleepsOnWork
<1> QED  BY <1>1, MailboxInvHolds, PTL

\* The mailbox implements the safety part of Delivery: an item is executed
\* only after it was posted and only once.
THEOREM MailboxDelivers == MailboxSpec => MailboxAsDelivery!SafeSpec
<1>1. MailboxInit => MailboxAsDelivery!Init
  BY DEF MailboxInit, MailboxAsDelivery!Init
<1>2. MailboxInv /\ [MailboxNext]_mailboxVars => [MailboxAsDelivery!Next]_(MailboxAsDelivery!vars)
  <2> SUFFICES ASSUME MailboxInv, [MailboxNext]_mailboxVars
               PROVE  [MailboxAsDelivery!Next]_(MailboxAsDelivery!vars)
    OBVIOUS
  <2> USE DEF MailboxAsDelivery!vars
  <2>1. ASSUME NEW t \in Posters, NEW i \in Jobs, PostPush(t, i)
        PROVE  MailboxAsDelivery!Post(i)
    BY <2>1 DEF PostPush, MailboxAsDelivery!Post
  <2>2. ASSUME NEW i \in Jobs, Execute(i)
        PROVE  MailboxAsDelivery!Run(i)
    BY <2>2 DEF Execute, MailboxAsDelivery!Run
  <2>3. ASSUME NEW t \in Posters, Store(t) \/ Notify(t)
        PROVE  UNCHANGED MailboxAsDelivery!vars
    BY <2>3 DEF Store, Notify
  <2>4. CASE Rearm \/ MailboxEmpty \/ WaitAsync
    BY <2>4 DEF Rearm, MailboxEmpty, WaitAsync
  <2>5. CASE UNCHANGED mailboxVars
    BY <2>5 DEF mailboxVars
  <2> QED  BY <2>1, <2>2, <2>3, <2>4, <2>5 DEF MailboxNext, MailboxAsDelivery!Next
<1> QED  BY <1>1, <1>2, MailboxInvHolds, PTL DEF MailboxSpec, MailboxAsDelivery!SafeSpec

-----------------------------------------------------------------------------
(***************************************************************************)
(* Windows: WindowsWake.  FlagIsHonest is inductive with the types alone;  *)
(* RunnableIsAnnounced needs it in one place, when a thread finds the flag *)
(* set and posts no message of its own.                                    *)
(***************************************************************************)

WakeTypeOK ==
    /\ main_queue \subseteq Runnables
    /\ executed \subseteq Runnables
    /\ main_queue \cap executed = {}
    /\ wake_posted \in BOOLEAN
    /\ messages \in Nat
    /\ dispatching \in [Dispatchers -> DispatchStates]
    /\ main_loop \in LoopStates
    /\ repost_failed \in BOOLEAN
    /\ wake_lost \in BOOLEAN

WakeInv == WakeTypeOK /\ WakeIsComing

\* WakeInv holds before the first dispatch.
LEMMA WakeInvInit == WakeInit => WakeInv
<1> SUFFICES ASSUME WakeInit PROVE WakeInv
  OBVIOUS
<1> USE DEF WakeInit
<1>1. wake_posted \in BOOLEAN /\ repost_failed \in BOOLEAN /\ wake_lost \in BOOLEAN
  BY Zenon
<1>2. WakeTypeOK
  BY <1>1 DEF WakeTypeOK, DispatchStates, LoopStates
<1>3. FlagIsHonest /\ RunnableIsAnnounced
  BY Zenon DEF FlagIsHonest, RunnableIsAnnounced
<1> QED  BY <1>2, <1>3 DEF WakeInv, WakeIsComing

\* The types are kept by every step, and no runnable is queued again after it
\* was run.
LEMMA WakeTypeStep == WakeTypeOK /\ [WakeNext]_wakeVars => WakeTypeOK'
<1> SUFFICES ASSUME WakeTypeOK, [WakeNext]_wakeVars
             PROVE  WakeTypeOK'
  OBVIOUS
<1> USE DEF WakeTypeOK, DispatchStates, LoopStates
<1>1. ASSUME NEW t \in Dispatchers, NEW r \in Runnables, Send(t, r)
      PROVE  WakeTypeOK'
  BY <1>1 DEF Send
<1>2. ASSUME NEW t \in Dispatchers, Swap(t)
      PROVE  WakeTypeOK'
  BY <1>2 DEF Swap
<1>3. ASSUME NEW t \in Dispatchers, PostMessage(t)
      PROVE  WakeTypeOK'
  <2>1. wake_lost' \in BOOLEAN
    BY <1>3, Zenon DEF PostMessage
  <2> QED  BY <1>3, <2>1 DEF PostMessage
<1>4. CASE RunForegroundTask
  BY <1>4 DEF RunForegroundTask
<1>5. ASSUME NEW r \in Runnables, ExecuteTask(r)
      PROVE  WakeTypeOK'
  BY <1>5 DEF ExecuteTask
<1>6. CASE TasksEmpty \/ TaskTimeout
  <2>1. wake_posted' \in BOOLEAN /\ repost_failed' \in BOOLEAN
    BY <1>6, Zenon DEF TasksEmpty, TaskTimeout
  <2> QED  BY <1>6, <2>1 DEF TasksEmpty, TaskTimeout
<1>7. CASE ClearWakePosted \/ Resume \/ SizeMoveTimer
  BY <1>7 DEF ClearWakePosted, Resume, SizeMoveTimer
<1>8. CASE LastLook
  BY <1>8 DEF LastLook
<1>9. CASE DrainInTimer
  BY <1>9 DEF DrainInTimer
<1>10. CASE UNCHANGED wakeVars
  BY <1>10 DEF wakeVars
<1> QED
  BY <1>1, <1>2, <1>3, <1>4, <1>5, <1>6, <1>7, <1>8, <1>9, <1>10 DEF WakeNext

\* A thread that is posting goes on posting while another steps.
LEMMA PostingStays ==
    ASSUME WakeTypeOK, NEW t \in Dispatchers, NEW u \in Dispatchers, u # t,
           NEW s, dispatching' = [dispatching EXCEPT ![t] = s]
    PROVE  dispatching'[u] = dispatching[u] /\ dispatching'[t] = s
  BY DEF WakeTypeOK

\* Every step keeps the promise of the flag, and that of the queue.
LEMMA WakeInvStep == WakeInv /\ [WakeNext]_wakeVars => WakeInv'
<1> SUFFICES ASSUME WakeInv, [WakeNext]_wakeVars
             PROVE  WakeIsComing'
  BY WakeTypeStep DEF WakeInv
<1> USE DEF WakeInv, WakeIsComing, WakeTypeOK, FlagIsHonest, RunnableIsAnnounced
<1>1. ASSUME NEW t \in Dispatchers, NEW r \in Runnables, Send(t, r)
      PROVE  WakeIsComing'
  <2>1. dispatching'[t] = "pushed"
    BY <1>1 DEF Send
  <2>2. ASSUME NEW u \in Dispatchers, dispatching[u] = "posting"
        PROVE  dispatching'[u] = "posting"
    BY <1>1, <2>2, PostingStays DEF Send
  <2> QED  BY <1>1, <2>1, <2>2 DEF Send
<1>2. ASSUME NEW t \in Dispatchers, Swap(t)
      PROVE  WakeIsComing'
  <2>1. CASE wake_posted
    <3>1. ASSUME NEW u \in Dispatchers, dispatching[u] = "posting"
          PROVE  dispatching'[u] = "posting"
      BY <1>2, <3>1, PostingStays DEF Swap
    <3>2. FlagIsHonest'
      BY <1>2, <2>1, <3>1 DEF Swap
    <3>3. main_loop' = "messages" => main_loop \notin {"tasks", "clear"}
      BY <1>2 DEF Swap
    <3> QED  BY <1>2, <2>1, <3>1, <3>2, <3>3 DEF Swap
  <2>2. CASE ~wake_posted
    BY <1>2, <2>2 DEF Swap
  <2> QED  BY <2>1, <2>2
<1>3. ASSUME NEW t \in Dispatchers, PostMessage(t)
      PROVE  WakeIsComing'
  BY <1>3 DEF PostMessage
<1>4. CASE RunForegroundTask
  BY <1>4 DEF RunForegroundTask
<1>5. ASSUME NEW r \in Runnables, ExecuteTask(r)
      PROVE  WakeIsComing'
  BY <1>5 DEF ExecuteTask
<1>6. CASE TasksEmpty \/ TaskTimeout
  BY <1>6 DEF TasksEmpty, TaskTimeout
<1>7. CASE ClearWakePosted \/ Resume \/ SizeMoveTimer
  BY <1>7 DEF ClearWakePosted, Resume, SizeMoveTimer
<1>8. CASE LastLook
  BY <1>8 DEF LastLook
<1>9. CASE DrainInTimer
  BY <1>9 DEF DrainInTimer
<1>10. CASE UNCHANGED wakeVars
  BY <1>10 DEF wakeVars
<1> QED
  BY <1>1, <1>2, <1>3, <1>4, <1>5, <1>6, <1>7, <1>8, <1>9, <1>10 DEF WakeNext

\* No wake-up of the Windows main thread is lost while posting works: a set
\* wake_posted is followed by a look at the queue, and a queued runnable by a
\* message, though several threads race the loop's last look and a size-move
\* timer drains behind the flag.
THEOREM WakeNeverLost == WakeSpec => []WakeIsComing
<1>1. WakeInit => WakeInv  BY WakeInvInit
<1>2. WakeInv /\ [WakeNext]_wakeVars => WakeInv'  BY WakeInvStep
<1>3. WakeInv => WakeIsComing  BY DEF WakeInv
<1> QED  BY <1>1, <1>2, <1>3, PTL DEF WakeSpec

\* Even when posts fail, the Windows dispatcher keeps the safety part of
\* Delivery: a runnable is run only after it was dispatched and only once, by
\* the loop's drain, its last look or the timer's.
THEOREM WindowsDelivers == WakeSpec => WakeAsDelivery!SafeSpec
<1>1. WakeInit => WakeAsDelivery!Init
  BY DEF WakeInit, WakeAsDelivery!Init
<1>2. WakeTypeOK /\ [WakeNext]_wakeVars => [WakeAsDelivery!Next]_(WakeAsDelivery!vars)
  <2> SUFFICES ASSUME WakeTypeOK, [WakeNext]_wakeVars
               PROVE  [WakeAsDelivery!Next]_(WakeAsDelivery!vars)
    OBVIOUS
  <2> USE DEF WakeAsDelivery!vars
  <2>1. ASSUME NEW t \in Dispatchers, NEW r \in Runnables, Send(t, r)
        PROVE  WakeAsDelivery!Post(r)
    BY <2>1 DEF Send, WakeAsDelivery!Post
  <2>2. ASSUME NEW r \in Runnables, ExecuteTask(r)
        PROVE  WakeAsDelivery!Run(r)
    BY <2>2 DEF ExecuteTask, WakeAsDelivery!Run
  <2>3. CASE LastLook \/ DrainInTimer
    <3>1. CASE main_queue = {}
      BY <2>3, <3>1 DEF LastLook, DrainInTimer
    <3>2. CASE main_queue # {}
      <4>1. PICK r \in main_queue : main_queue' = main_queue \ {r} /\ executed' = executed \cup {r}
        BY <2>3, <3>2 DEF LastLook, DrainInTimer
      <4>2. r \in Runnables /\ WakeAsDelivery!Run(r)
        BY <4>1 DEF WakeTypeOK, WakeAsDelivery!Run
      <4> QED  BY <4>2 DEF WakeAsDelivery!Next
    <3> QED  BY <3>1, <3>2
  <2>4. ASSUME NEW t \in Dispatchers, Swap(t) \/ PostMessage(t)
        PROVE  UNCHANGED WakeAsDelivery!vars
    BY <2>4 DEF Swap, PostMessage
  <2>5. CASE RunForegroundTask \/ TasksEmpty \/ TaskTimeout
    BY <2>5 DEF RunForegroundTask, TasksEmpty, TaskTimeout
  <2>6. CASE ClearWakePosted \/ Resume \/ SizeMoveTimer
    BY <2>6 DEF ClearWakePosted, Resume, SizeMoveTimer
  <2>7. CASE UNCHANGED wakeVars
    BY <2>7 DEF wakeVars
  <2> QED
    BY <2>1, <2>2, <2>3, <2>4, <2>5, <2>6, <2>7 DEF WakeNext, WakeAsDelivery!Next
<1>3. WakeInit => WakeTypeOK
  BY WakeInvInit DEF WakeInv
<1> QED  BY <1>1, <1>2, <1>3, WakeTypeStep, PTL DEF WakeSpec, WakeAsDelivery!SafeSpec

(***************************************************************************)
(* The focus.  ListenersKnow is inductive: what a draw tells listeners is  *)
(* the difference of two paths.  FocusIsLive needs to know that a window   *)
(* whose focus was disabled has none.                                      *)
(***************************************************************************)

FocusTypeOK ==
    /\ window_dirty \in BOOLEAN
    /\ window_active \in BOOLEAN
    /\ unseen \in BOOLEAN
    /\ rendered = [path |-> rendered.path, active |-> rendered.active]
    /\ rendered.active \in BOOLEAN

DisabledHasNone == ~focus_enabled => focus_id = NoFocusId

FocusInv == FocusTypeOK /\ DisabledHasNone /\ FocusIsKnown

\* Whoever heard the last frame's focus hears the difference to the next: then
\* inside is the next frame's path.
LEMMA HeardIsCurrent ==
    ASSUME ListenersKnow, NEW new_frame
    PROVE  Heard(new_frame) = IF new_frame.active THEN new_frame.path ELSE {}
  BY DEF ListenersKnow, Heard

\* A draw keeps FocusInv, wherever elements and listeners move the focus.
LEMMA DrawKeepsFocus ==
    ASSUME FocusInv, DrawFocus
    PROVE  FocusInv'
<1> DEFINE new_frame == [path |-> FocusPath(focus_id), active |-> window_active]
<1> USE DEF FocusInv, FocusTypeOK
<1>1. /\ rendered' = new_frame
      /\ inside' = IF FocusChanged(new_frame) THEN Heard(new_frame) ELSE inside
      /\ UNCHANGED <<focus_enabled, window_active, tree, live>>
  BY DEF DrawFocus
<1>2. PICK drawn, before, after :
         /\ drawn \in MovedFrom(focus_id)
         /\ before = drawn \/ before \in MovedFrom(drawn)
         /\ after = before \/ after \in MovedFrom(before)
         /\ focus_id' = after
         /\ window_dirty' = (after # before)
         /\ unseen' = (before # focus_id)
  <2> DEFINE changed == FocusChanged(new_frame)
             lost == changed /\ rendered.path # {} /\ new_frame.path = {}
  <2>1. PICK drawn \in MovedFrom(focus_id) :
           \E before \in IF lost THEN MovedFrom(drawn) ELSE {drawn} :
           \E after \in IF changed THEN MovedFrom(before) ELSE {before} :
              /\ focus_id' = after
              /\ window_dirty' = (after # before)
              /\ unseen' = (before # focus_id)
    BY Zenon DEF DrawFocus, RedrawFor
  <2>2. PICK before \in IF lost THEN MovedFrom(drawn) ELSE {drawn} :
           \E after \in IF changed THEN MovedFrom(before) ELSE {before} :
              /\ focus_id' = after
              /\ window_dirty' = (after # before)
              /\ unseen' = (before # focus_id)
    BY <2>1
  <2>3. PICK after \in IF changed THEN MovedFrom(before) ELSE {before} :
              /\ focus_id' = after
              /\ window_dirty' = (after # before)
              /\ unseen' = (before # focus_id)
    BY <2>2
  <2>4. /\ before = drawn \/ before \in MovedFrom(drawn)
        /\ after = before \/ after \in MovedFrom(before)
    <3> HIDE DEF changed, lost
    <3> QED  OBVIOUS
  <2> QED  BY <2>3, <2>4, Zenon
<1>3. inside' = IF window_active THEN FocusPath(focus_id) ELSE {}
  <2>1. CASE FocusChanged(new_frame)
    BY <1>1, <2>1, HeardIsCurrent DEF FocusIsKnown
  <2>2. CASE ~FocusChanged(new_frame)
    BY <1>1, <2>2 DEF FocusChanged, FocusIsKnown, ListenersKnow
  <2> QED  BY <2>1, <2>2
<1>4. ListenersKnow'
  BY <1>1, <1>3 DEF ListenersKnow
<1>5. FocusIsSettled'
  <2> SUFFICES ASSUME ~window_dirty', ~unseen'
               PROVE  inside' = IF window_active' THEN FocusPath(focus_id)' ELSE {}
    BY Zenon DEF FocusIsSettled
  <2>1. focus_id' = focus_id
    BY <1>2
  <2>2. FocusPath(focus_id)' = FocusPath(focus_id)
    BY <1>1, <2>1 DEF FocusPath
  <2> QED  BY <1>1, <1>3, <2>2
<1>6. FocusIsLive'
  BY <1>1, <1>2 DEF FocusIsKnown, FocusIsLive, MovedFrom
<1>7. DisabledHasNone'
  BY <1>1, <1>2 DEF DisabledHasNone, MovedFrom
<1>8. FocusTypeOK'
  <2>1. window_dirty' \in BOOLEAN /\ unseen' \in BOOLEAN
    BY <1>2, Zenon
  <2> QED  BY <1>1, <2>1
<1> QED  BY <1>4, <1>5, <1>6, <1>7, <1>8 DEF FocusIsKnown

\* Every step keeps FocusInv.
LEMMA FocusInvStep == FocusInv /\ [FocusNext]_focusVars => FocusInv'
<1> SUFFICES ASSUME FocusInv, [FocusNext]_focusVars
             PROVE  FocusInv'
  OBVIOUS
<1> USE DEF FocusInv, FocusTypeOK, DisabledHasNone, FocusIsKnown, ListenersKnow,
            FocusIsSettled, FocusIsLive
<1>1. ASSUME NEW f \in FocusIds, Focus(f)
      PROVE  FocusInv'
  BY <1>1 DEF Focus
<1>2. ASSUME NEW f \in FocusIds, DropFocusHandle(f)
      PROVE  FocusInv'
  <2>1. CASE focus_id = f /\ focus_enabled
    BY <1>2, <2>1 DEF DropFocusHandle, ReleaseFocus
  <2>2. CASE ~(focus_id = f /\ focus_enabled)
    <3>1. UNCHANGED <<focus_id, window_dirty, focus_enabled, window_active, tree, rendered,
                      inside, unseen>> /\ live' = live \ {f}
      BY <1>2, <2>2 DEF DropFocusHandle, ReleaseFocus
    <3>2. FocusPath(focus_id)' = FocusPath(focus_id)
      BY <3>1 DEF FocusPath
    <3> QED  BY <2>2, <3>1, <3>2
  <2> QED  BY <2>1, <2>2
<1>3. CASE BlurFocus
  BY <1>3 DEF BlurFocus
<1>4. CASE DisableFocus
  BY <1>4 DEF DisableFocus
<1>5. CASE ActiveStatusChanges
  <2>1. window_active' \in BOOLEAN
    BY <1>5, Zenon DEF ActiveStatusChanges
  <2> QED  BY <1>5, <2>1 DEF ActiveStatusChanges
<1>6. ASSUME NEW t \in SUBSET live, RenderOthers(t)
      PROVE  FocusInv'
  BY <1>6 DEF RenderOthers
<1>7. CASE DrawFocus
  BY <1>7, DrawKeepsFocus
<1>8. CASE UNCHANGED focusVars
  <2>1. FocusPath(focus_id)' = FocusPath(focus_id)
    BY <1>8 DEF focusVars, FocusPath
  <2> QED  BY <1>8, <2>1 DEF focusVars
<1> QED  BY <1>1, <1>2, <1>3, <1>4, <1>5, <1>6, <1>7, <1>8 DEF FocusNext

\* For any elements and handles: focus listeners are told of every change once
\* and in turns, a window with nothing more to draw has told them where the
\* focus is, and it never focuses an id whose handles are gone.
THEOREM FocusAlwaysKnown == FocusSpec => []FocusIsKnown
<1>1. FocusInit => FocusInv
  <2> SUFFICES ASSUME FocusInit PROVE FocusInv
    OBVIOUS
  <2> USE DEF FocusInit
  <2>1. FocusTypeOK
    BY DEF FocusTypeOK
  <2>2. ListenersKnow /\ FocusIsLive /\ DisabledHasNone
    BY DEF ListenersKnow, FocusIsLive, DisabledHasNone
  <2>3. FocusIsSettled
    BY Zenon DEF FocusIsSettled
  <2> QED  BY <2>1, <2>2, <2>3 DEF FocusInv, FocusIsKnown
<1>2. FocusInv /\ [FocusNext]_focusVars => FocusInv'  BY FocusInvStep
<1>3. FocusInv => FocusIsKnown  BY DEF FocusInv
<1> QED  BY <1>1, <1>2, <1>3, PTL DEF FocusSpec

-----------------------------------------------------------------------------
(***************************************************************************)
(* Tooltips.  A tooltip waits to be hidden only where the draw that looked *)
(* at it last did not find the pointer on it.                              *)
(***************************************************************************)

TipStates == {"none", "show", "visible", "hide"}

HidesUnrested ==
    /\ active_tooltip \in [TipElements -> TipStates]
    /\ \A e \in TipElements : active_tooltip[e] = "hide" => e \notin rested

\* A draw keeps HidesUnrested, whatever it renders and paints.
LEMMA DrawKeepsTips ==
    ASSUME HidesUnrested, NEW elements \in SUBSET TipElements, NEW shown, NEW blocked,
           DrawTips(elements, shown, blocked)
    PROVE  HidesUnrested'
<1> DEFINE requests == {e \in elements : active_tooltip[e] \in {"visible", "hide"}}
           top == IF blocked THEN Tips + 1
                  ELSE Max({e \in requests : CheckVisible(e) # "none"} \cup {0})
           checked == {e \in requests : e >= top}
<1>1. /\ active_tooltip' = [e \in TipElements |->
                               CASE e \notin elements -> "none"
                                 [] e \in checked -> CheckVisible(e)
                                 [] OTHER -> active_tooltip[e]]
      /\ rested' = (rested \ checked) \cup {e \in checked : SeenHovered(e)}
  BY Zenon DEF DrawTips
<1>2. checked \subseteq elements
  OBVIOUS
<1> HIDE DEF checked
<1>3. ASSUME NEW e \in TipElements
      PROVE  /\ active_tooltip[e] \in TipStates /\ CheckVisible(e) \in TipStates
             /\ CheckVisible(e) = "hide" => ~SeenHovered(e)
  BY DEF HidesUnrested, CheckVisible, TipStates
<1>4. ASSUME NEW e \in TipElements
      PROVE  /\ active_tooltip'[e] \in TipStates
             /\ active_tooltip'[e] = "hide" => e \notin rested'
  <2>1. CASE e \notin elements
    <3>1. e \notin checked
      BY <1>2, <2>1
    <3>2. active_tooltip'[e] = "none"
      BY <1>1, <2>1, <3>1
    <3> QED BY <3>2 DEF TipStates
  <2>2. CASE e \in checked
    <3>1. active_tooltip'[e] = CheckVisible(e)
      BY <1>1, <1>2, <2>2
    <3> QED BY <1>1, <1>3, <2>2, <3>1
  <2>3. CASE e \in elements /\ e \notin checked
    <3>1. active_tooltip'[e] = active_tooltip[e]
      BY <1>1, <2>3
    <3> QED BY <1>1, <1>3, <2>3, <3>1 DEF HidesUnrested
  <2> QED BY <2>1, <2>2, <2>3
<1>5. active_tooltip' = [e \in TipElements |-> active_tooltip'[e]]
  BY <1>1
<1> QED BY <1>4, <1>5 DEF HidesUnrested

\* Every step of the tooltip keeps it.
LEMMA HidesUnrestedStep == HidesUnrested /\ [TipNext]_tipVars => HidesUnrested'
<1> SUFFICES ASSUME HidesUnrested, [TipNext]_tipVars PROVE HidesUnrested'
  OBVIOUS
<1> USE DEF TipStates
<1>1. ASSUME NEW o \in 0..Tips, NEW c \in BOOLEAN, NEW t \in SUBSET TipElements, MouseMoves(o, c, t)
      PROVE  HidesUnrested'
  <2>1. /\ active_tooltip' \in [TipElements -> TipStates]
        /\ rested' = rested
        /\ \A e \in TipElements :
              active_tooltip'[e] \in IF e \in painted THEN AfterMove(e) ELSE {active_tooltip[e]}
    BY <1>1 DEF MouseMoves
  <2>2. \A e \in TipElements : "hide" \in AfterMove(e) => active_tooltip[e] = "hide"
    BY DEF AfterMove, HidesUnrested
  <2> QED BY <2>1, <2>2 DEF HidesUnrested
<1>2. CASE MousePressed \/ WheelScrolled
  BY <1>2 DEF MousePressed, WheelScrolled, ClearNotHoverable, HidesUnrested
<1>3. CASE MouseReleased \/ KeyPressed \/ MouseExits
  BY <1>3 DEF MouseReleased, KeyPressed, MouseExits, HidesUnrested
<1>4. ASSUME NEW e \in TipElements, ShowTimer(e) \/ HideTimer(e) PROVE HidesUnrested'
  BY <1>4 DEF ShowTimer, HideTimer, HidesUnrested
<1>5. CASE DrawsTips
  BY <1>5, DrawKeepsTips DEF DrawsTips
<1>6. CASE UNCHANGED tipVars
  BY <1>6 DEF tipVars, HidesUnrested
<1> QED BY <1>1, <1>2, <1>3, <1>4, <1>5, <1>6 DEF TipNext

\* The timer of handle_tooltip_check_visible_and_update never hides a tooltip
\* on which the last draw that looked found the pointer, for any number of
\* elements: the safety half of TipFollowsPointer.
THEOREM RestedTipAlwaysStays == TipSpec => RestedTipStays
<1>1. TipInit => HidesUnrested
  BY DEF TipInit, HidesUnrested, TipStates
<1>2. HidesUnrested /\ [TipNext]_tipVars
         => [\A e \in TipElements : HideTimer(e) => e \notin rested]_tipVars
  BY DEF HidesUnrested, HideTimer
<1> QED BY <1>1, <1>2, HidesUnrestedStep, PTL DEF TipSpec, RestedTipStays

-----------------------------------------------------------------------------
(***************************************************************************)
(* Frames.  A stale scene is safe as long as somebody remembers to force   *)
(* the next render: the platform or, when a request was throttled or put   *)
(* off, the closure of on_request_frame.  On Windows the device can be     *)
(* lost in the middle of a frame; then skip_draws keeps the renderer off   *)
(* the scene, and the platform has the forced render pending for as long.  *)
(***************************************************************************)

FrameTypeOK ==
    /\ deferred_force_render \in BOOLEAN
    /\ force_after_recovery \in BOOLEAN
    /\ device_lost \in BOOLEAN
    /\ skip_draws \in BOOLEAN
    /\ scene \in {"fresh", "stale"}
    /\ frame \in FrameSteps
    /\ wl_callback \in {"wanted", "committed"}
    /\ renderer_presented \in BOOLEAN
    /\ stale_drawn \in BOOLEAN

\* Nobody draws while the atlas is new and a forced render is pending.
SkipIsPending == skip_draws => backend = "windows" /\ force_after_recovery

\* A stale scene that could be drawn is not on its way to the renderer, and
\* the next frame is forced.
StaleIsForced ==
    backend # "x11" /\ scene = "stale" /\ ~skip_draws =>
        /\ frame \in {"idle", "own draw", "completing"}
        /\ deferred_force_render \/ (backend # "windows" /\ force_after_recovery)

\* The frame callback of Wayland is wanted only inside a frame, and what the
\* renderer presented it has committed.
CallbackInFrame ==
    backend = "wayland" =>
        /\ wl_callback = "wanted" => frame \in {"drawing", "presenting", "completing"}
        /\ renderer_presented => frame = "completing" /\ wl_callback = "committed"

FrameInv ==
    FrameTypeOK /\ SkipIsPending /\ StaleIsForced /\ CallbackInFrame /\ PresentedTilesExist

\* What a request does to the frame, for a caller whose request is forced
\* whenever the scene is stale.
LEMMA RequestEffect ==
    ASSUME FrameTypeOK, NEW force \in BOOLEAN, NEW require \in BOOLEAN,
           OnRequestFrame(force, require)
    PROVE  /\ deferred_force_render' \in BOOLEAN
           /\ scene' \in {"fresh", "stale"}
           /\ frame = "own draw" =>
                 /\ frame' = frame /\ scene' = scene
                 /\ deferred_force_render' = (deferred_force_render \/ force)
           /\ frame # "own draw" => frame' \in {"drawing", "presenting", "completing"}
           /\ frame # "own draw" /\ (deferred_force_render \/ force) =>
                 \/ scene' = "fresh"
                 \/ scene' = scene /\ deferred_force_render' /\ frame' = "completing"
           /\ scene = "fresh" => scene' = "fresh"
<1> USE DEF FrameTypeOK, FrameSteps
<1> DEFINE forced == deferred_force_render \/ force
<1>0. forced \in BOOLEAN
  BY Zenon
<1>1. CASE frame = "own draw"
  BY <1>0, <1>1 DEF OnRequestFrame
<1>2. CASE frame # "own draw" /\ Throttled(forced)
  BY <1>0, <1>2 DEF Throttled
<1>3. CASE frame # "own draw" /\ NotThrottled(forced, require)
  <2>1. deferred_force_render' = FALSE
    BY <1>3 DEF NotThrottled
  <2>2. PICK notified, high_rate :
           IF dirty \/ notified \/ forced
           THEN dirty' = FALSE /\ scene' \in DrawnScene(forced) /\ frame' = "drawing"
           ELSE /\ frame' = IF require \/ needs_present \/ high_rate THEN "presenting"
                                                                     ELSE "completing"
                /\ UNCHANGED <<dirty, scene>>
    BY <1>3, Zenon DEF NotThrottled
  <2>3. CASE dirty \/ notified \/ forced
    BY <1>3, <2>1, <2>2, <2>3 DEF DrawnScene
  <2>4. CASE ~(dirty \/ notified \/ forced)
    BY <1>3, <2>1, <2>2, <2>4
  <2> QED  BY <2>3, <2>4
<1> QED  BY <1>1, <1>2, <1>3 DEF OnRequestFrame

\* PlatformWindow::draw of a scene that is not on the way stale.
LEMMA PresentKeepsFrames ==
    ASSUME FrameInv, Present
    PROVE  FrameInv'
<1> USE DEF FrameInv, FrameTypeOK, FrameSteps, SkipIsPending, StaleIsForced, CallbackInFrame,
            PresentedTilesExist
<1>1. /\ frame = "presenting" /\ frame' = "completing"
      /\ UNCHANGED <<backend, deferred_force_render, skip_draws>>
      /\ PlatformDraw
  BY DEF Present
<1>2. CASE backend = "windows"
  <2>1. /\ stale_drawn' = (stale_drawn \/ (scene = "stale" /\ ~skip_draws))
        /\ UNCHANGED <<force_after_recovery, renderer_presented, wl_callback, scene, device_lost>>
    BY <1>1, <1>2 DEF PlatformDraw
  <2>2. stale_drawn' = FALSE
    BY <1>1, <1>2, <2>1
  <2> QED  BY <1>1, <1>2, <2>1, <2>2
<1>3. CASE backend # "windows" /\ device_lost
  <2>1. /\ force_after_recovery' = TRUE
        /\ device_lost' \in BOOLEAN
        /\ scene' \in {scene, "stale"}
        /\ UNCHANGED <<renderer_presented, wl_callback, stale_drawn>>
    BY <1>1, <1>3 DEF PlatformDraw, Recover
  <2> QED  BY <1>1, <1>3, <2>1
<1>4. CASE backend # "windows" /\ ~device_lost
  <2>1. RendererDraw
    BY <1>1, <1>4 DEF PlatformDraw
  <2>2. CASE renderer_presented' = FALSE /\ scene' = "stale" /\ force_after_recovery' = TRUE
             /\ UNCHANGED <<wl_callback, stale_drawn, device_lost>>
    BY <1>1, <1>4, <2>2
  <2>3. CASE renderer_presented' = FALSE
             /\ UNCHANGED <<scene, force_after_recovery, wl_callback, stale_drawn, device_lost>>
    BY <1>1, <1>4, <2>3
  <2>4. CASE /\ renderer_presented' = TRUE
             /\ wl_callback' = "committed"
             /\ stale_drawn' = (stale_drawn \/ scene = "stale")
             /\ UNCHANGED <<force_after_recovery, scene, device_lost>>
    <3>1. stale_drawn' \in BOOLEAN
      BY <2>4, Zenon
    <3>2. backend # "x11" => scene = "fresh"
      BY <1>1, <1>4
    <3>3. backend # "x11" => ~stale_drawn'
      BY <2>4, <3>2
    <3> QED  BY <1>1, <1>4, <2>4, <3>1, <3>2, <3>3
  <2> QED  BY <2>1, <2>2, <2>3, <2>4 DEF RendererDraw
<1> QED  BY <1>2, <1>3, <1>4

\* draw_window of Windows, whatever it interrupts.
LEMMA PaintKeepsFrames ==
    ASSUME FrameInv, NEW force \in BOOLEAN, WindowsPaint(force)
    PROVE  FrameInv'
<1> USE DEF FrameInv, FrameTypeOK, FrameSteps, SkipIsPending, StaleIsForced, CallbackInFrame,
            PresentedTilesExist
<1>1. /\ backend = "windows" /\ DrawWindow(force)
      /\ UNCHANGED <<backend, device_lost, wl_callback, renderer_presented, stale_drawn>>
  BY DEF WindowsPaint
<1>2. CASE frame \in {"drawing", "presenting", "completing"}
  <2>1. /\ force_after_recovery' = (force_after_recovery \/ force)
        /\ UNCHANGED <<skip_draws, deferred_force_render, scene, frame>>
    BY <1>1, <1>2 DEF DrawWindow
  <2>2. force_after_recovery' \in BOOLEAN
    BY <2>1, Zenon
  <2> QED  BY <1>1, <2>1, <2>2
<1>3. CASE frame \notin {"drawing", "presenting", "completing"}
  <2> DEFINE forced == force \/ force_after_recovery
  <2>1. /\ force_after_recovery' = (force /\ force_after_recovery)
        /\ skip_draws' = (skip_draws /\ ~forced)
        /\ OnRequestFrame(forced, FALSE)
    BY <1>1, <1>3 DEF DrawWindow
  <2>2. forced \in BOOLEAN /\ force_after_recovery' \in BOOLEAN /\ skip_draws' = FALSE
    BY <2>1
  <2>3. scene = "stale" => deferred_force_render \/ forced
    BY <1>1, <1>3
  <2> HIDE DEF forced
  <2>4. /\ deferred_force_render' \in BOOLEAN
        /\ scene' \in {"fresh", "stale"}
        /\ frame = "own draw" =>
              /\ frame' = frame /\ scene' = scene
              /\ deferred_force_render' = (deferred_force_render \/ forced)
        /\ frame # "own draw" => frame' \in {"drawing", "presenting", "completing"}
        /\ frame # "own draw" /\ (deferred_force_render \/ forced) =>
              \/ scene' = "fresh"
              \/ scene' = scene /\ deferred_force_render' /\ frame' = "completing"
        /\ scene = "fresh" => scene' = "fresh"
    BY <2>1, <2>2, RequestEffect
  <2>5. StaleIsForced'
    <3> SUFFICES ASSUME scene' = "stale"
                 PROVE  /\ frame' \in {"idle", "own draw", "completing"}
                        /\ deferred_force_render'
      OBVIOUS
    <3>1. scene = "stale"
      BY <2>4
    <3>2. deferred_force_render \/ forced
      BY <2>3, <3>1
    <3> QED  BY <2>4, <3>1, <3>2
  <2> QED  BY <1>1, <1>3, <2>2, <2>4, <2>5
<1> QED  BY <1>2, <1>3

\* A request of Wayland or X11, which comes between two frames.
LEMMA RequestKeepsFrames ==
    ASSUME FrameInv, WaylandFrame \/ X11Refresh \/ X11Expose
    PROVE  FrameInv'
<1> USE DEF FrameInv, FrameTypeOK, FrameSteps, SkipIsPending, StaleIsForced, CallbackInFrame,
            PresentedTilesExist
<1>1. CASE WaylandFrame
  <2>1. OnRequestFrame(force_after_recovery, FALSE)
    BY <1>1 DEF WaylandFrame
  <2>2. scene = "stale" => deferred_force_render \/ force_after_recovery
    BY <1>1 DEF WaylandFrame
  <2>3. /\ deferred_force_render' \in BOOLEAN
        /\ scene' \in {"fresh", "stale"}
        /\ frame' \in {"drawing", "presenting", "completing"}
        /\ scene' = "stale" => deferred_force_render' /\ frame' = "completing"
    BY <1>1, <2>1, <2>2, RequestEffect DEF WaylandFrame
  <2> QED  BY <1>1, <2>3 DEF WaylandFrame
<1>2. CASE X11Refresh \/ X11Expose
  <2>1. \E f, r \in BOOLEAN : OnRequestFrame(f, r)
    BY <1>2 DEF X11Refresh, X11Expose
  <2>2. /\ deferred_force_render' \in BOOLEAN
        /\ scene' \in {"fresh", "stale"}
        /\ frame' \in {"drawing", "presenting", "completing"}
    BY <1>2, <2>1, RequestEffect DEF X11Refresh, X11Expose
  <2>3. /\ backend = "x11" /\ force_after_recovery' \in BOOLEAN
        /\ UNCHANGED <<backend, device_lost, skip_draws, wl_callback, renderer_presented,
                       stale_drawn>>
    BY <1>2 DEF X11Refresh, X11Expose
  <2> QED  BY <2>2, <2>3
<1> QED  BY <1>1, <1>2

\* Every step keeps FrameInv.
LEMMA FrameInvStep == FrameInv /\ [FrameNext]_frameVars => FrameInv'
<1> SUFFICES ASSUME FrameInv, [FrameNext]_frameVars
             PROVE  FrameInv'
  OBVIOUS
<1> USE DEF FrameInv, FrameTypeOK, FrameSteps, SkipIsPending, StaleIsForced, CallbackInFrame,
            PresentedTilesExist
<1>1. CASE Invalidate \/ OnNextFrame \/ TimePasses
  <2>1. UNCHANGED <<backend, deferred_force_render, force_after_recovery, device_lost,
                    skip_draws, scene, frame, wl_callback, renderer_presented, stale_drawn>>
    BY <1>1 DEF Invalidate, OnNextFrame, TimePasses
  <2> QED  BY <2>1
<1>2. CASE DeviceIsLost
  BY <1>2 DEF DeviceIsLost
<1>3. CASE HandleDeviceLost
  BY <1>3 DEF HandleDeviceLost
<1>4. CASE Draw
  BY <1>4 DEF Draw
<1>5. CASE Present
  BY <1>5, PresentKeepsFrames
<1>6. CASE CompleteFrame
  <2>1. CASE renderer_presented
    BY <1>6, <2>1 DEF CompleteFrame
  <2>2. CASE ~renderer_presented
    BY <1>6, <2>2 DEF CompleteFrame
  <2> QED  BY <2>1, <2>2
<1>7. CASE BeginOwnDraw
  BY <1>7 DEF BeginOwnDraw, DrawnScene
<1>8. CASE EndOwnDraw
  BY <1>8 DEF EndOwnDraw
<1>9. CASE WaylandFrame \/ X11Refresh \/ X11Expose
  BY <1>9, RequestKeepsFrames
<1>10. ASSUME NEW force \in BOOLEAN, WindowsPaint(force)
       PROVE  FrameInv'
  BY <1>10, PaintKeepsFrames
<1>11. CASE UNCHANGED frameVars
  BY <1>11 DEF frameVars
<1> QED
  BY <1>1, <1>2, <1>3, <1>4, <1>5, <1>6, <1>7, <1>8, <1>9, <1>10, <1>11 DEF FrameNext

\* FrameInv holds throughout, on every platform.
THEOREM FrameInvHolds == FrameSpec => []FrameInv
<1>1. FrameInit => FrameInv
  BY DEF FrameInit, FrameInv, FrameTypeOK, FrameSteps, SkipIsPending, StaleIsForced,
         CallbackInFrame, PresentedTilesExist
<1>2. FrameInv /\ [FrameNext]_frameVars => FrameInv'  BY FrameInvStep
<1> QED  BY <1>1, <1>2, PTL DEF FrameSpec

\* On Wayland and Windows no tile of a cleared atlas reaches the renderer: a
\* device lost at any point of a frame, a render that was throttled or put off
\* and cached views that are replayed do not bring a stale scene to the GPU.
THEOREM TilesAlwaysExist == FrameSpec => []PresentedTilesExist
<1>1. FrameInv => PresentedTilesExist  BY DEF FrameInv
<1> QED  BY <1>1, FrameInvHolds, PTL

\* Between two frames of a Wayland window its next frame callback was
\* committed, whatever became of the last frame.
THEOREM CallbackAlwaysComing == FrameSpec => []CallbackIsComing
<1>1. FrameInv => CallbackIsComing
  BY DEF FrameInv, FrameTypeOK, CallbackInFrame, CallbackIsComing
<1> QED  BY <1>1, FrameInvHolds, PTL

-----------------------------------------------------------------------------
(***************************************************************************)
(* Drags.  What the properties leave implicit: the button is up during a   *)
(* session of the platform, the drag that was put away belongs to the      *)
(* session and its source is open, nothing is active while the pointer is  *)
(* over no window of ours, files carry no payload to promote, and a drag   *)
(* that was not given up is either put away or active, never both.         *)
(***************************************************************************)

DragTypeOK ==
    /\ active_drag \in Drags \cup {Nothing}
    /\ platform_owned_drag \in LentDrags \cup {Nothing}
    /\ open_windows \subseteq DragWindows
    /\ pressed \in BOOLEAN
    /\ session \in DragSessions \cup {Nothing}
    /\ given_up \in BOOLEAN
    /\ orphaned \in BOOLEAN

LentInSession ==
    platform_owned_drag # Nothing =>
        /\ session # Nothing
        /\ platform_owned_drag.source_window = session.source
        /\ session.source \in open_windows

NothingActive ==
    /\ pressed => session = Nothing
    /\ session = Nothing /\ ~pressed => orphaned \/ active_drag = Nothing
    /\ session # Nothing /\ session.over = Nothing => orphaned \/ active_drag = Nothing

FilesHaveNoPayload ==
    /\ active_drag # Nothing /\ active_drag.payload => active_drag.from # Outside
    /\ platform_owned_drag # Nothing /\ platform_owned_drag.suspended # Nothing
          /\ platform_owned_drag.suspended.payload
       => platform_owned_drag.suspended.from # Outside

KeptInOnePlace ==
    session # Nothing /\ session.source \in open_windows /\ ~given_up =>
        /\ platform_owned_drag # Nothing
        /\ IF session.over = session.source
           THEN /\ platform_owned_drag.suspended = Nothing
                /\ active_drag # Nothing /\ active_drag.from # Outside
           ELSE /\ platform_owned_drag.suspended # Nothing
                /\ platform_owned_drag.suspended.from # Outside

DragInv ==
    /\ DragTypeOK /\ LentInSession /\ NothingActive /\ FilesHaveNoPayload /\ KeptInOnePlace
    /\ OthersSeeFiles

\* Every step keeps DragInv.
LEMMA DragInvStep == DragInv /\ [DragNext]_dragVars => DragInv'
<1> SUFFICES ASSUME DragInv, [DragNext]_dragVars
             PROVE  DragInv'
  OBVIOUS
<1> USE DragAssumption DEF DragInv, DragTypeOK, LentInSession, NothingActive,
        FilesHaveNoPayload, KeptInOnePlace, OthersSeeFiles, InSession, Drags, LentDrags,
        DragSessions
<1>1. ASSUME NEW w \in DragWindows, StartDrag(w)
      PROVE  DragInv'
  BY <1>1 DEF StartDrag
<1>2. ASSUME NEW w \in DragWindows, Promote(w)
      PROVE  DragInv'
  <2> DEFINE lent == [active_drag EXCEPT !.payload = FALSE]
  <2>1. /\ active_drag \in Drags /\ active_drag.from # Outside
        /\ w \in open_windows /\ session = Nothing /\ platform_owned_drag = Nothing
        /\ pressed
        /\ UNCHANGED <<open_windows, orphaned>>
    BY <1>2 DEF Promote
  <2>2. /\ lent \in Drags /\ lent # Nothing
        /\ lent.from # Outside /\ lent.payload = FALSE
    BY <2>1
  <2>3. \/ active_drag' = lent /\ UNCHANGED <<platform_owned_drag, pressed, session, given_up>>
        \/ /\ active_drag' = Nothing
           /\ platform_owned_drag' = [source_window |-> w, suspended |-> lent]
           /\ pressed' = FALSE
           /\ session' = [source |-> w, over |-> Nothing, done |-> FALSE]
           /\ given_up' = FALSE
    BY <1>2 DEF Promote
  <2> HIDE DEF lent
  <2>4. CASE active_drag' = lent /\ UNCHANGED <<platform_owned_drag, pressed, session, given_up>>
    BY <2>1, <2>2, <2>4
  <2>5. CASE /\ active_drag' = Nothing
             /\ platform_owned_drag' = [source_window |-> w, suspended |-> lent]
             /\ pressed' = FALSE
             /\ session' = [source |-> w, over |-> Nothing, done |-> FALSE]
             /\ given_up' = FALSE
    <3>1. DragTypeOK'
      BY <2>1, <2>2, <2>5
    <3>2. session' \in DragSessions /\ platform_owned_drag' \in LentDrags
      BY <2>1, <2>2, <2>5
    <3>3. session' # Nothing /\ platform_owned_drag' # Nothing
      BY <3>2
    <3>4. LentInSession'
      BY <2>1, <2>5, <3>3
    <3>5. NothingActive' /\ OthersSeeFiles'
      BY <2>5, <3>3
    <3>6. FilesHaveNoPayload' /\ KeptInOnePlace'
      BY <2>1, <2>2, <2>5, <3>1
    <3> QED  BY <3>1, <3>4, <3>5, <3>6
  <2> QED  BY <2>3, <2>4, <2>5
<1>3. ASSUME NEW w \in DragWindows, StopActiveDrag(w)
      PROVE  DragInv'
  BY <1>3 DEF StopActiveDrag, Restored, SourceIs
<1>4. ASSUME NEW w \in DragWindows, Entered(w)
      PROVE  DragInv'
  <2>1. /\ session \in DragSessions /\ session.over = Nothing /\ w \in open_windows
        /\ session' = [session EXCEPT !.over = w]
        /\ UNCHANGED <<open_windows, pressed, given_up, orphaned>>
    BY <1>4 DEF Entered
  <2>2. /\ session' \in DragSessions
        /\ session'.over = w /\ session'.source = session.source
    BY <2>1
  <2>3. CASE RestorePlatformDrag(w)
    <3>1. /\ platform_owned_drag \in LentDrags
          /\ platform_owned_drag.source_window = w
          /\ platform_owned_drag.suspended \in Drags
          /\ active_drag' = platform_owned_drag.suspended
          /\ platform_owned_drag' = [platform_owned_drag EXCEPT !.suspended = Nothing]
      BY <1>4, <2>3 DEF Entered, RestorePlatformDrag, Restored, SourceIs
    <3> QED  BY <2>1, <2>2, <3>1
  <2>4. CASE ~RestorePlatformDrag(w)
    <3>1. /\ active_drag' = IF active_drag = Nothing
                            THEN [from |-> Outside, payload |-> FALSE] ELSE active_drag
          /\ platform_owned_drag' = platform_owned_drag
          /\ ~RestorePlatformDrag(w)
      BY <1>4, <2>4 DEF Entered
    <3> QED  BY <2>1, <2>2, <3>1 DEF RestorePlatformDrag, Restored, SourceIs
  <2> QED  BY <2>3, <2>4
<1>5. ASSUME NEW w \in DragWindows, Exited(w)
      PROVE  DragInv'
  BY <1>5 DEF Exited, HandRestored, Restored, SourceIs
<1>6. ASSUME NEW w \in DragWindows, Submit(w)
      PROVE  DragInv'
  BY <1>6 DEF Submit
<1>7. ASSUME NEW w \in DragWindows, CloseWindow(w)
      PROVE  DragInv'
  BY <1>7 DEF CloseWindow, EndPlatformDrag, SourceIs
<1>8. CASE MouseUp
  BY <1>8 DEF MouseUp
<1>9. CASE SessionFromOutside
  BY <1>9 DEF SessionFromOutside
<1>10. CASE Ended
  BY <1>10 DEF Ended, EndPlatformDrag, SourceIs
<1>11. CASE UNCHANGED dragVars
  BY <1>11 DEF dragVars
<1> QED
  BY <1>1, <1>2, <1>3, <1>4, <1>5, <1>6, <1>7, <1>8, <1>9, <1>10, <1>11 DEF DragNext

\* DragInv holds throughout.
THEOREM DragInvHolds == DragSpec => []DragInv
<1>1. DragInit => DragInv
  BY DragAssumption DEF DragInit, DragInv, DragTypeOK, LentInSession, NothingActive,
     FilesHaveNoPayload, KeptInOnePlace, OthersSeeFiles, InSession
<1>2. DragInv /\ [DragNext]_dragVars => DragInv'  BY DragInvStep
<1> QED  BY <1>1, <1>2, PTL DEF DragSpec

\* With no button down and no session nothing is dragged and nothing is kept
\* for the platform, for any number of windows, closed at any time.
THEOREM NeverGhostDrag == DragSpec => []NoGhostDrag
<1>1. DragInv => NoGhostDrag
  BY DEF DragInv, LentInSession, NothingActive, NoGhostDrag, InSession
<1> QED  BY <1>1, DragInvHolds, PTL

\* A drag handed to the platform stays with its source until it is dropped,
\* stopped or its window closed, and no other window ever gets hold of it.
THEOREM DragAlwaysOurs == DragSpec => []DragStaysOurs
<1>1. DragInv => DragStaysOurs
  BY DEF DragInv, KeptInOnePlace, HandedDragIsKept, DragStaysOurs, InSession
<1> QED  BY <1>1, DragInvHolds, PTL

-----------------------------------------------------------------------------
(***************************************************************************)
(* Tab stops.  Paths are ordered like words, and handles by path and       *)
(* insertion: a strict total order of a finite set, so next and prev are   *)
(* inverse and go round (NodesInv is all that needs).  A handle inserted   *)
(* while a group is open has a path inside the group's, and only groups    *)
(* lend their path to what they hold; what lies between two paths inside p *)
(* is inside p, so a group that has its path for itself stays together.    *)
(***************************************************************************)

\* R is a strict total order of S.
Orders(R, S) ==
    /\ \A x \in S : <<x, x>> \notin R
    /\ \A x, y, z \in S : <<x, y>> \in R /\ <<y, z>> \in R => <<x, z>> \in R
    /\ \A x, y \in S : x # y => <<x, y>> \in R \/ <<y, x>> \in R

IsLeast(R, S, x) == x \in S /\ \A y \in S \ {x} : <<x, y>> \in R

\* A non-empty set of handles has a least one: the handles up to m have, if
\* those up to m - 1 do.
LEMMA LeastExists ==
    ASSUME NEW n \in Nat, NEW S, \A x \in S : x \in Nat /\ 1 <= x /\ x <= n,
           NEW R, Orders(R, S), S # {}
    PROVE  \E x \in S : IsLeast(R, S, x)
<1> DEFINE Upto(m) == {x \in S : x <= m}
           Bad == {m \in Nat : Upto(m) # {} /\ ~\E x \in Upto(m) : IsLeast(R, Upto(m), x)}
<1>a. \A k : \A x : x \in Upto(k) <=> x \in S /\ x <= k
  OBVIOUS
<1>b. \A k \in Nat : k \in Bad <=> Upto(k) # {} /\ ~\E x \in Upto(k) : IsLeast(R, Upto(k), x)
  OBVIOUS
<1>c. Bad \in SUBSET Nat
  OBVIOUS
<1> HIDE DEF Upto, Bad
<1>1. SUFFICES Bad = {}
  <2>1. Upto(n) = S
    BY <1>a
  <2> QED BY <1>1, <1>b, <2>1
<1>2. SUFFICES ASSUME Bad # {} PROVE FALSE
  OBVIOUS
<1>3. PICK m \in Bad : \A k \in Bad : m <= k
  BY <1>2, <1>c, LeastNumber
<1>4. m \in Nat /\ m # 0
  <2>1. Upto(0) = {}
    BY <1>a
  <2> QED BY <1>b, <1>c, <2>1
<1>5. m - 1 \in Nat /\ m - 1 \notin Bad
  BY <1>3, <1>4
<1>e. \A x \in S : x \in Upto(m) <=> x = m \/ x \in Upto(m - 1)
  <2>1. \A x \in Nat : x <= m <=> x = m \/ x <= m - 1
    BY <1>4
  <2> QED BY <1>a, <2>1
<1>f. Upto(m) \subseteq S /\ Upto(m - 1) \subseteq S /\ m \notin Upto(m - 1)
  <2>1. ~(m <= m - 1)
    BY <1>4
  <2> QED BY <1>a, <2>1
<1>6. CASE m \notin S
  <2>1. Upto(m) = Upto(m - 1)
    BY <1>6, <1>e, <1>f
  <2> QED BY <1>3, <1>4, <1>5, <1>b, <2>1
<1>7. CASE m \in S /\ Upto(m - 1) = {}
  <2>1. Upto(m) = {m}
    BY <1>7, <1>e, <1>f
  <2>2. IsLeast(R, {m}, m)
    BY DEF IsLeast
  <2> QED BY <1>3, <1>4, <1>b, <2>1, <2>2
<1>8. CASE m \in S /\ Upto(m - 1) # {}
  <2>1. PICK x \in Upto(m - 1) : IsLeast(R, Upto(m - 1), x)
    BY <1>5, <1>8, <1>b
  <2>2. /\ x \in S /\ x \in Upto(m) /\ m \in Upto(m) /\ x # m
        /\ \A y \in Upto(m) : y \in S
        /\ \A y \in Upto(m) : y = m \/ y \in Upto(m - 1)
    BY <1>8, <1>e, <1>f, <2>1
  <2>3. CASE <<x, m>> \in R
    <3>1. IsLeast(R, Upto(m), x)
      BY <2>1, <2>2, <2>3 DEF IsLeast
    <3> QED BY <1>3, <1>4, <1>b, <2>2, <3>1
  <2>4. CASE <<m, x>> \in R
    <3>1. IsLeast(R, Upto(m), m)
      <4>1. SUFFICES ASSUME NEW y \in Upto(m), y # m PROVE <<m, y>> \in R
        BY <2>2 DEF IsLeast
      <4>2. y = x \/ <<x, y>> \in R
        BY <2>1, <2>2, <4>1 DEF IsLeast
      <4> QED BY <1>8, <2>2, <2>4, <4>1, <4>2 DEF Orders
    <3> QED BY <1>3, <1>4, <1>b, <2>2, <3>1
  <2> QED BY <1>8, <2>2, <2>3, <2>4 DEF Orders
<1> QED BY <1>6, <1>7, <1>8

\* The order of paths is strict ...
LEMMA PathIrreflexive ==
    ASSUME NEW p \in Seq(Int)
    PROVE  ~PathBelow(p, p)
  BY DEF PathBelow

\* ... transitive ...
LEMMA PathTransitive ==
    ASSUME NEW p \in Seq(Int), NEW q \in Seq(Int), NEW r \in Seq(Int),
           PathBelow(p, q), PathBelow(q, r)
    PROVE  PathBelow(p, r)
<1>1. PICK n \in 0..Len(p) : /\ n < Len(q)
                             /\ \A i \in 1..n : p[i] = q[i]
                             /\ n < Len(p) => p[n + 1] < q[n + 1]
  BY DEF PathBelow
<1>2. PICK m \in 0..Len(q) : /\ m < Len(r)
                             /\ \A i \in 1..m : q[i] = r[i]
                             /\ m < Len(q) => q[m + 1] < r[m + 1]
  BY DEF PathBelow
<1>3. /\ Len(p) \in Nat /\ Len(q) \in Nat /\ Len(r) \in Nat
      /\ \A i \in 1..Len(p) : p[i] \in Int
      /\ \A i \in 1..Len(q) : q[i] \in Int
      /\ \A i \in 1..Len(r) : r[i] \in Int
  OBVIOUS
<1>6. /\ Len(p) \in Nat /\ Len(q) \in Nat /\ Len(r) \in Nat
      /\ n \in Nat /\ n <= Len(p) /\ n < Len(q) /\ m \in Nat /\ m <= Len(q) /\ m < Len(r)
  BY <1>1, <1>2, <1>3
<1>4. CASE n <= m
  <2>1. n < Len(r) /\ \A i \in 1..n : i \in 1..m
    BY <1>4, <1>6
  <2>2. \A i \in 1..n : p[i] = r[i]
    BY <1>1, <1>2, <2>1
  <2>3. ASSUME n < Len(p) PROVE p[n + 1] < r[n + 1]
    <3>1. n + 1 \in 1..Len(p) /\ n + 1 \in 1..Len(q) /\ n + 1 \in 1..Len(r)
      BY <1>4, <1>6, <2>1, <2>3
    <3>2. p[n + 1] \in Int /\ q[n + 1] \in Int /\ r[n + 1] \in Int
      BY <1>3, <3>1
    <3>3. p[n + 1] < q[n + 1]
      BY <1>1, <2>3
    <3>4. CASE n = m
      BY <1>2, <1>6, <3>2, <3>3, <3>4
    <3>5. CASE n # m
      <4>1. n + 1 \in 1..m
        BY <1>4, <1>6, <3>5
      <4> QED BY <1>2, <3>3, <4>1
    <3> QED BY <3>4, <3>5
  <2> QED BY <2>1, <2>2, <2>3 DEF PathBelow
<1>5. CASE m < n
  <2>1. /\ m \in 0..Len(p) /\ m < Len(q) /\ m + 1 \in 1..n
        /\ \A i \in 1..m : i \in 1..n
    BY <1>5, <1>6
  <2>2. \A i \in 1..m : p[i] = r[i]
    BY <1>1, <1>2, <2>1
  <2>3. p[m + 1] < r[m + 1]
    BY <1>1, <1>2, <2>1
  <2> QED BY <1>2, <2>1, <2>2, <2>3 DEF PathBelow
<1> QED BY <1>4, <1>5, <1>6

\* ... and total: what counts is the first index two paths differ in.
LEMMA PathTotal ==
    ASSUME NEW p \in Seq(Int), NEW q \in Seq(Int), p # q
    PROVE  PathBelow(p, q) \/ PathBelow(q, p)
<1> DEFINE Differ == {i \in 1..Len(p) : i \in 1..Len(q) /\ p[i] # q[i]}
<1>1. /\ Len(p) \in Nat /\ Len(q) \in Nat
      /\ \A i \in 1..Len(p) : p[i] \in Int
      /\ \A i \in 1..Len(q) : q[i] \in Int
  OBVIOUS
<1>d. \A i : i \in Differ <=> i \in 1..Len(p) /\ i \in 1..Len(q) /\ p[i] # q[i]
  OBVIOUS
<1> HIDE DEF Differ
<1>2. CASE Differ = {}
  <2>1. Len(p) # Len(q)
    BY <1>1, <1>2, <1>d, SeqEqual
  <2>2. CASE Len(p) < Len(q)
    <3>1. Len(p) \in 0..Len(p) /\ ~(Len(p) < Len(p))
      BY <1>1
    <3>2. \A i \in 1..Len(p) : i \in 1..Len(q)
      BY <1>1, <2>2
    <3>3. \A i \in 1..Len(p) : p[i] = q[i]
      BY <1>2, <1>d, <3>2
    <3> QED BY <2>2, <3>1, <3>3 DEF PathBelow
  <2>3. CASE Len(q) < Len(p)
    <3>1. Len(q) \in 0..Len(q) /\ ~(Len(q) < Len(q))
      BY <1>1
    <3>2. \A i \in 1..Len(q) : i \in 1..Len(p)
      BY <1>1, <2>3
    <3>3. \A i \in 1..Len(q) : q[i] = p[i]
      BY <1>2, <1>d, <3>2
    <3> QED BY <2>3, <3>1, <3>3 DEF PathBelow
  <2> QED BY <1>1, <2>1, <2>2, <2>3
<1>3. CASE Differ # {}
  <2>1. Differ \in SUBSET Nat
    BY <1>1, <1>d
  <2>2. PICK d \in Differ : \A e \in Differ : d <= e
    BY <1>3, <2>1, LeastNumber
  <2>3. /\ d - 1 \in 0..Len(p) /\ d - 1 \in 0..Len(q)
        /\ d - 1 < Len(p) /\ d - 1 < Len(q) /\ d - 1 + 1 = d
    BY <1>1, <1>d
  <2>4. \A i \in 1..(d - 1) : p[i] = q[i]
    <3>1. \A i \in 1..(d - 1) : i \in 1..Len(p) /\ i \in 1..Len(q) /\ ~(d <= i)
      BY <1>1, <2>3
    <3> QED BY <1>d, <2>2, <3>1
  <2>5. p[d] < q[d] \/ q[d] < p[d]
    BY <1>1, <1>d
  <2> QED BY <2>3, <2>4, <2>5 DEF PathBelow
<1> QED BY <1>2, <1>3


TabNodes == [path : Seq(Int), at : Nat, stop : BOOLEAN]

NodesInv ==
    /\ by_id \in Seq(TabNodes)
    /\ \A h, k \in 1..Len(by_id) : h < k => by_id[h].at < by_id[k].at

\* Nodes are ordered: no two have the same path and the same insertion index.
LEMMA NodesOrdered ==
    ASSUME NodesInv
    PROVE  /\ \A h \in TabHandles : ~NodeBelow(h, h)
           /\ \A h, k, l \in TabHandles :
                 NodeBelow(h, k) /\ NodeBelow(k, l) => NodeBelow(h, l)
           /\ \A h, k \in TabHandles : h # k => NodeBelow(h, k) \/ NodeBelow(k, h)
<1>1. \A h \in TabHandles : by_id[h].path \in Seq(Int) /\ by_id[h].at \in Nat
  <2>1. \A h \in TabHandles : by_id[h] \in TabNodes
    BY ElementOfSeq DEF NodesInv, TabHandles
  <2> QED BY <2>1 DEF TabNodes
<1>2. \A h, k \in TabHandles : h # k => by_id[h].at # by_id[k].at
  <2>1. Len(by_id) \in Nat
    BY DEF NodesInv
  <2>2. SUFFICES ASSUME NEW h \in TabHandles, NEW k \in TabHandles, h # k
                 PROVE  by_id[h].at # by_id[k].at
    OBVIOUS
  <2>3. h < k \/ k < h
    BY <2>1, <2>2 DEF TabHandles
  <2>4. by_id[h].at < by_id[k].at \/ by_id[k].at < by_id[h].at
    BY <2>3 DEF NodesInv, TabHandles
  <2> QED BY <1>1, <2>4
<1>3. \A h \in TabHandles : ~NodeBelow(h, h)
  BY <1>1, PathIrreflexive DEF NodeBelow
<1>4. ASSUME NEW h \in TabHandles, NEW k \in TabHandles, NEW l \in TabHandles,
             NodeBelow(h, k), NodeBelow(k, l)
      PROVE  NodeBelow(h, l)
  <2>1. PathBelow(by_id[h].path, by_id[k].path) /\ PathBelow(by_id[k].path, by_id[l].path)
           => PathBelow(by_id[h].path, by_id[l].path)
    BY <1>1, PathTransitive
  <2>2. by_id[h].at < by_id[k].at /\ by_id[k].at < by_id[l].at => by_id[h].at < by_id[l].at
    BY <1>1
  <2> QED BY <1>4, <2>1, <2>2 DEF NodeBelow
<1>5. ASSUME NEW h \in TabHandles, NEW k \in TabHandles, h # k
      PROVE  NodeBelow(h, k) \/ NodeBelow(k, h)
  <2>1. CASE by_id[h].path = by_id[k].path
    <3>1. by_id[h].at < by_id[k].at \/ by_id[k].at < by_id[h].at
      BY <1>1, <1>2, <1>5
    <3> QED BY <2>1, <3>1 DEF NodeBelow
  <2>2. CASE by_id[h].path # by_id[k].path
    BY <1>1, <2>2, PathTotal DEF NodeBelow
  <2> QED BY <2>1, <2>2
<1> QED BY <1>3, <1>4, <1>5

\* What LeastNode chooses.
LEMMA LeastNodeFacts ==
    ASSUME NodesInv, NEW S, S \subseteq TabHandles, S # {}
    PROVE  /\ LeastNode(S) \in S
           /\ \A k \in S \ {LeastNode(S)} : NodeBelow(LeastNode(S), k)
           /\ \A h \in S : (\A k \in S \ {h} : NodeBelow(h, k)) => h = LeastNode(S)
<1> DEFINE R == {hk \in S \X S : NodeBelow(hk[1], hk[2])}
<1>1. \A h, k \in S : <<h, k>> \in R <=> NodeBelow(h, k)
  OBVIOUS
<1> HIDE DEF R
<1>2. Orders(R, S)
  BY <1>1, NodesOrdered DEF Orders
<1>3. Len(by_id) \in Nat /\ \A h \in S : h \in Nat /\ 1 <= h /\ h <= Len(by_id)
  <2>1. Len(by_id) \in Nat
    BY DEF NodesInv
  <2>2. \A h \in TabHandles : h \in Nat /\ 1 <= h /\ h <= Len(by_id)
    BY <2>1 DEF TabHandles
  <2> QED BY <2>1, <2>2
<1>4. PICK x \in S : IsLeast(R, S, x)
  BY <1>2, <1>3, LeastExists
<1>5. \A k \in S \ {x} : NodeBelow(x, k)
  BY <1>1, <1>4 DEF IsLeast
<1>6. /\ LeastNode(S) \in S
      /\ \A k \in S \ {LeastNode(S)} : NodeBelow(LeastNode(S), k)
  BY <1>5 DEF LeastNode
<1>7. ASSUME NEW h \in S, \A k \in S \ {h} : NodeBelow(h, k)
      PROVE  h = LeastNode(S)
  BY <1>6, <1>7, NodesOrdered
<1> QED BY <1>6, <1>7

\* What GreatestNode chooses.
LEMMA GreatestNodeFacts ==
    ASSUME NodesInv, NEW S, S \subseteq TabHandles, S # {}
    PROVE  /\ GreatestNode(S) \in S
           /\ \A k \in S \ {GreatestNode(S)} : NodeBelow(k, GreatestNode(S))
           /\ \A h \in S : (\A k \in S \ {h} : NodeBelow(k, h)) => h = GreatestNode(S)
<1> DEFINE R == {hk \in S \X S : NodeBelow(hk[2], hk[1])}
<1>1. \A h, k \in S : <<h, k>> \in R <=> NodeBelow(k, h)
  OBVIOUS
<1> HIDE DEF R
<1>2. Orders(R, S)
  BY <1>1, NodesOrdered DEF Orders
<1>3. Len(by_id) \in Nat /\ \A h \in S : h \in Nat /\ 1 <= h /\ h <= Len(by_id)
  <2>1. Len(by_id) \in Nat
    BY DEF NodesInv
  <2>2. \A h \in TabHandles : h \in Nat /\ 1 <= h /\ h <= Len(by_id)
    BY <2>1 DEF TabHandles
  <2> QED BY <2>1, <2>2
<1>4. PICK x \in S : IsLeast(R, S, x)
  BY <1>2, <1>3, LeastExists
<1>5. \A k \in S \ {x} : NodeBelow(k, x)
  BY <1>1, <1>4 DEF IsLeast
<1>6. /\ GreatestNode(S) \in S
      /\ \A k \in S \ {GreatestNode(S)} : NodeBelow(k, GreatestNode(S))
  BY <1>5 DEF GreatestNode
<1>7. ASSUME NEW h \in S, \A k \in S \ {h} : NodeBelow(k, h)
      PROVE  h = GreatestNode(S)
  BY <1>6, <1>7, NodesOrdered
<1> QED BY <1>6, <1>7

\* The stops after and before a handle.
StopsAfter(h) == {k \in Stops : NodeBelow(h, k)}
StopsBefore(h) == {k \in Stops : NodeBelow(k, h)}

\* next goes to the first stop after a handle, or to the first of all.
LEMMA NextFacts ==
    ASSUME NodesInv, Stops # {}, NEW h \in TabHandles
    PROVE  next(h) = IF StopsAfter(h) # {} THEN LeastNode(StopsAfter(h)) ELSE LeastNode(Stops)
<1>1. Stops \subseteq TabHandles /\ TabHandles # {}
  BY DEF Stops
<1>2. 0 \notin TabHandles
  <2>1. Len(by_id) \in Nat
    BY DEF NodesInv
  <2> QED BY <2>1 DEF TabHandles
<1>3. \A k \in TabHandles : /\ StopsAfter(k) \subseteq TabHandles
                            /\ next_inner(k) = IF StopsAfter(k) = {} THEN 0
                                               ELSE LeastNode(StopsAfter(k))
                            /\ StopsAfter(k) # {} => next_inner(k) # 0
  <2>1. SUFFICES ASSUME NEW k \in TabHandles
                 PROVE  /\ StopsAfter(k) \subseteq TabHandles
                        /\ next_inner(k) = IF StopsAfter(k) = {} THEN 0
                                           ELSE LeastNode(StopsAfter(k))
                        /\ StopsAfter(k) # {} => next_inner(k) # 0
    OBVIOUS
  <2>2. StopsAfter(k) \subseteq TabHandles
    BY <1>1 DEF StopsAfter
  <2>3. next_inner(k) = IF StopsAfter(k) = {} THEN 0 ELSE LeastNode(StopsAfter(k))
    BY DEF next_inner, StopsAfter
  <2> QED BY <1>2, <2>2, <2>3, LeastNodeFacts
<1>4. next_of_none = LeastNode(Stops)
  <2> DEFINE first == LeastNode(TabHandles)
  <2>1. first \in TabHandles /\ \A k \in TabHandles \ {first} : NodeBelow(first, k)
    BY <1>1, LeastNodeFacts
  <2>2. next_of_none = IF by_id[first].stop THEN first ELSE next_inner(first)
    BY <1>1 DEF next_of_none
  <2> HIDE DEF first
  <2>3. CASE by_id[first].stop
    <3>1. first \in Stops /\ \A k \in Stops \ {first} : NodeBelow(first, k)
      BY <1>1, <2>1, <2>3 DEF Stops
    <3> QED BY <1>1, <2>2, <2>3, <3>1, LeastNodeFacts
  <2>4. CASE ~by_id[first].stop
    <3>1. StopsAfter(first) = Stops
      BY <1>1, <2>1, <2>4 DEF StopsAfter, Stops
    <3> QED BY <1>3, <2>1, <2>2, <2>4, <3>1
  <2> QED BY <2>3, <2>4
<1> QED BY <1>3, <1>4 DEF next

\* prev goes to the last stop before a handle, or to the last of all.
LEMMA PrevFacts ==
    ASSUME NodesInv, Stops # {}, NEW h \in TabHandles
    PROVE  prev(h) = IF StopsBefore(h) # {} THEN GreatestNode(StopsBefore(h))
                     ELSE GreatestNode(Stops)
<1>1. Stops \subseteq TabHandles /\ TabHandles # {}
  BY DEF Stops
<1>2. 0 \notin TabHandles
  <2>1. Len(by_id) \in Nat
    BY DEF NodesInv
  <2> QED BY <2>1 DEF TabHandles
<1>3. \A k \in TabHandles : /\ StopsBefore(k) \subseteq TabHandles
                            /\ prev_inner(k) = IF StopsBefore(k) = {} THEN 0
                                               ELSE GreatestNode(StopsBefore(k))
                            /\ StopsBefore(k) # {} => prev_inner(k) # 0
  <2>1. SUFFICES ASSUME NEW k \in TabHandles
                 PROVE  /\ StopsBefore(k) \subseteq TabHandles
                        /\ prev_inner(k) = IF StopsBefore(k) = {} THEN 0
                                           ELSE GreatestNode(StopsBefore(k))
                        /\ StopsBefore(k) # {} => prev_inner(k) # 0
    OBVIOUS
  <2>2. StopsBefore(k) \subseteq TabHandles
    BY <1>1 DEF StopsBefore
  <2>3. prev_inner(k) = IF StopsBefore(k) = {} THEN 0 ELSE GreatestNode(StopsBefore(k))
    BY DEF prev_inner, StopsBefore
  <2> QED BY <1>2, <2>2, <2>3, GreatestNodeFacts
<1>4. prev_of_none = GreatestNode(Stops)
  <2> DEFINE last == GreatestNode(TabHandles)
  <2>1. last \in TabHandles /\ \A k \in TabHandles \ {last} : NodeBelow(k, last)
    BY <1>1, GreatestNodeFacts
  <2>2. prev_of_none = IF by_id[last].stop THEN last ELSE prev_inner(last)
    BY <1>1 DEF prev_of_none
  <2> HIDE DEF last
  <2>3. CASE by_id[last].stop
    <3>1. last \in Stops /\ \A k \in Stops \ {last} : NodeBelow(k, last)
      BY <1>1, <2>1, <2>3 DEF Stops
    <3> QED BY <1>1, <2>2, <2>3, <3>1, GreatestNodeFacts
  <2>4. CASE ~by_id[last].stop
    <3>1. StopsBefore(last) = Stops
      BY <1>1, <2>1, <2>4 DEF StopsBefore, Stops
    <3> QED BY <1>3, <2>1, <2>2, <2>4, <3>1
  <2> QED BY <2>3, <2>4
<1> QED BY <1>3, <1>4 DEF prev


\* Both reach a stop, and one goes back where the other came from.
LEMMA ThereAndBack ==
    ASSUME NodesInv, Stops # {}
    PROVE  /\ \A h \in TabHandles : next(h) \in Stops /\ prev(h) \in Stops
           /\ \A h \in Stops : prev(next(h)) = h /\ next(prev(h)) = h
<1>1. /\ Stops \subseteq TabHandles
      /\ \A h : StopsAfter(h) \subseteq Stops /\ StopsBefore(h) \subseteq Stops
      /\ \A h : StopsAfter(h) \subseteq TabHandles /\ StopsBefore(h) \subseteq TabHandles
  BY DEF Stops, StopsAfter, StopsBefore
<1>2. ASSUME NEW h \in TabHandles PROVE next(h) \in Stops /\ prev(h) \in Stops
  <2>1. next(h) \in Stops
    BY <1>1, <1>2, NextFacts, LeastNodeFacts
  <2>2. prev(h) \in Stops
    BY <1>1, <1>2, PrevFacts, GreatestNodeFacts
  <2> QED BY <2>1, <2>2
<1>3. ASSUME NEW h \in Stops PROVE prev(next(h)) = h
  <2> DEFINE k == next(h)
  <2>1. k \in Stops /\ k \in TabHandles /\ h \in TabHandles
    BY <1>1, <1>2
  <2>2. CASE StopsAfter(h) # {}
    <3>1. k = LeastNode(StopsAfter(h))
      BY <2>1, <2>2, NextFacts
    <3>2. k \in StopsAfter(h) /\ \A l \in StopsAfter(h) \ {k} : NodeBelow(k, l)
      BY <1>1, <2>2, <3>1, LeastNodeFacts
    <3> HIDE DEF k
    <3>3. h \in StopsBefore(k)
      BY <3>2 DEF StopsAfter, StopsBefore
    <3>4. ASSUME NEW l \in StopsBefore(k) \ {h} PROVE NodeBelow(l, h)
      <4>1. l \in Stops /\ l \in TabHandles /\ NodeBelow(l, k) /\ l # h /\ l # k
        BY <1>1, <2>1, <3>4, NodesOrdered DEF StopsBefore
      <4>2. SUFFICES ASSUME NodeBelow(h, l) PROVE FALSE
        BY <2>1, <4>1, NodesOrdered
      <4>3. NodeBelow(k, l)
        BY <3>2, <4>1, <4>2 DEF StopsAfter
      <4> QED BY <2>1, <4>1, <4>3, NodesOrdered
    <3>5. h = GreatestNode(StopsBefore(k))
      BY <1>1, <3>3, <3>4, GreatestNodeFacts
    <3>6. prev(k) = h
      BY <2>1, <3>3, <3>5, PrevFacts
    <3> QED BY <3>6 DEF k
  <2>3. CASE StopsAfter(h) = {}
    <3>1. k = LeastNode(Stops)
      BY <2>1, <2>3, NextFacts
    <3>2. \A l \in Stops \ {k} : NodeBelow(k, l)
      BY <1>1, <3>1, LeastNodeFacts
    <3> HIDE DEF k
    <3>3. StopsBefore(k) = {}
      BY <1>1, <2>1, <3>2, NodesOrdered DEF StopsBefore
    <3>4. \A l \in Stops \ {h} : NodeBelow(l, h)
      BY <1>1, <2>1, <2>3, NodesOrdered DEF StopsAfter
    <3>5. h = GreatestNode(Stops)
      BY <1>1, <3>4, GreatestNodeFacts
    <3>6. prev(k) = h
      BY <2>1, <3>3, <3>5, PrevFacts
    <3> QED BY <3>6 DEF k
  <2> QED BY <2>2, <2>3
<1>4. ASSUME NEW h \in Stops PROVE next(prev(h)) = h
  <2> DEFINE k == prev(h)
  <2>1. k \in Stops /\ k \in TabHandles /\ h \in TabHandles
    BY <1>1, <1>2
  <2>2. CASE StopsBefore(h) # {}
    <3>1. k = GreatestNode(StopsBefore(h))
      BY <2>1, <2>2, PrevFacts
    <3>2. k \in StopsBefore(h) /\ \A l \in StopsBefore(h) \ {k} : NodeBelow(l, k)
      BY <1>1, <2>2, <3>1, GreatestNodeFacts
    <3> HIDE DEF k
    <3>3. h \in StopsAfter(k)
      BY <3>2 DEF StopsAfter, StopsBefore
    <3>4. ASSUME NEW l \in StopsAfter(k) \ {h} PROVE NodeBelow(h, l)
      <4>1. l \in Stops /\ l \in TabHandles /\ NodeBelow(k, l) /\ l # h /\ l # k
        BY <1>1, <2>1, <3>4, NodesOrdered DEF StopsAfter
      <4>2. SUFFICES ASSUME NodeBelow(l, h) PROVE FALSE
        BY <2>1, <4>1, NodesOrdered
      <4>3. NodeBelow(l, k)
        BY <3>2, <4>1, <4>2 DEF StopsBefore
      <4> QED BY <2>1, <4>1, <4>3, NodesOrdered
    <3>5. h = LeastNode(StopsAfter(k))
      BY <1>1, <3>3, <3>4, LeastNodeFacts
    <3>6. next(k) = h
      BY <2>1, <3>3, <3>5, NextFacts
    <3> QED BY <3>6 DEF k
  <2>3. CASE StopsBefore(h) = {}
    <3>1. k = GreatestNode(Stops)
      BY <2>1, <2>3, PrevFacts
    <3>2. \A l \in Stops \ {k} : NodeBelow(l, k)
      BY <1>1, <3>1, GreatestNodeFacts
    <3> HIDE DEF k
    <3>3. StopsAfter(k) = {}
      BY <1>1, <2>1, <3>2, NodesOrdered DEF StopsAfter
    <3>4. \A l \in Stops \ {h} : NodeBelow(h, l)
      BY <1>1, <2>1, <2>3, NodesOrdered DEF StopsBefore
    <3>5. h = LeastNode(Stops)
      BY <1>1, <3>4, LeastNodeFacts
    <3>6. next(k) = h
      BY <2>1, <3>3, <3>5, NextFacts
    <3> QED BY <3>6 DEF k
  <2> QED BY <2>2, <2>3
<1> QED BY <1>2, <1>3, <1>4

\* Stops that the tab key does not leave are all stops: the last of them leads
\* to the first of all, and the first that is not among them is reached from
\* the one before it.
LEMMA NoneLeftOut ==
    ASSUME NodesInv, Stops # {}, NEW S, S \subseteq Stops, S # {},
           \A h \in S : next(h) \in S
    PROVE  S = Stops
<1>1. S \subseteq TabHandles /\ Stops \subseteq TabHandles
      /\ \A h : StopsAfter(h) \subseteq TabHandles /\ StopsBefore(h) \subseteq TabHandles
  BY DEF Stops, StopsAfter, StopsBefore
<1> DEFINE first == LeastNode(Stops)
           last == GreatestNode(S)
           missing == LeastNode(Stops \ S)
<1>2. last \in S /\ \A h \in S \ {last} : NodeBelow(h, last)
  BY <1>1, GreatestNodeFacts
<1>3. first \in S
  <2>1. StopsAfter(last) = {}
    <3>1. SUFFICES ASSUME StopsAfter(last) # {} PROVE FALSE
      OBVIOUS
    <3>2. next(last) = LeastNode(StopsAfter(last))
      BY <1>1, <1>2, <3>1, NextFacts
    <3>3. next(last) \in StopsAfter(last)
      BY <1>1, <3>1, <3>2, LeastNodeFacts
    <3>4. next(last) \in S /\ NodeBelow(last, next(last))
      BY <1>2, <3>3 DEF StopsAfter
    <3> HIDE DEF last
    <3>5. next(last) \in TabHandles /\ last \in TabHandles
      BY <1>1, <1>2, <3>4
    <3>6. next(last) # last
      BY <3>4, <3>5, NodesOrdered
    <3>7. NodeBelow(next(last), last)
      BY <1>2, <3>4, <3>6
    <3> QED BY <3>4, <3>5, <3>7, NodesOrdered
  <2>2. next(last) = first
    BY <1>1, <1>2, <2>1, NextFacts
  <2> QED BY <1>2, <2>2
<1>4. SUFFICES ASSUME Stops \ S # {} PROVE FALSE
  OBVIOUS
<1>5. missing \in Stops \ S /\ \A h \in (Stops \ S) \ {missing} : NodeBelow(missing, h)
  BY <1>1, <1>4, LeastNodeFacts
<1>6. \A h \in Stops \ {first} : NodeBelow(first, h)
  BY <1>1, LeastNodeFacts
<1> HIDE DEF first, last, missing
<1>7. first \in StopsBefore(missing)
  BY <1>3, <1>5, <1>6 DEF StopsBefore
<1>8. prev(missing) = GreatestNode(StopsBefore(missing))
  BY <1>1, <1>5, <1>7, PrevFacts
<1>9. prev(missing) \in StopsBefore(missing)
  BY <1>1, <1>7, <1>8, GreatestNodeFacts
<1>10. prev(missing) \in Stops /\ NodeBelow(prev(missing), missing)
  BY <1>9 DEF StopsBefore
<1>11. prev(missing) \in S
  <2>1. SUFFICES ASSUME prev(missing) \notin S PROVE FALSE
    OBVIOUS
  <2>2. prev(missing) \in TabHandles /\ missing \in TabHandles
    BY <1>1, <1>5, <1>10
  <2>3. prev(missing) # missing
    BY <1>10, <2>2, NodesOrdered
  <2>4. NodeBelow(missing, prev(missing))
    BY <1>5, <1>10, <2>1, <2>3
  <2> QED BY <1>10, <2>2, <2>4, NodesOrdered
<1>12. next(prev(missing)) = missing
  BY <1>5, ThereAndBack
<1> QED BY <1>5, <1>11, <1>12

\* The tab key goes round.
LEMMA RoundFollows ==
    ASSUME NodesInv
    PROVE  TabGoesRound
<1>1. SUFFICES ASSUME Stops # {}
               PROVE  /\ \A h \in TabHandles : next(h) \in Stops /\ prev(h) \in Stops
                      /\ \A h \in Stops : prev(next(h)) = h /\ next(prev(h)) = h
                      /\ \A S \in (SUBSET Stops) \ {{}} :
                            (\A h \in S : next(h) \in S) => S = Stops
  BY DEF TabGoesRound
<1>2. ASSUME NEW S \in (SUBSET Stops) \ {{}}, \A h \in S : next(h) \in S
      PROVE  S = Stops
  <2>1. S \subseteq Stops /\ S # {}
    BY <1>2
  <2> QED BY <1>1, <1>2, <2>1, NoneLeftOut
<1> QED BY <1>1, <1>2, ThereAndBack


Prefix(p, q) == Len(p) <= Len(q) /\ \A i \in 1..Len(p) : p[i] = q[i]
Inside(q, p) == Prefix(p, q) /\ Len(p) < Len(q)

\* What lies between two paths inside p is inside p.
LEMMA InsideIsConvex ==
    ASSUME NEW p \in Seq(Int), NEW a \in Seq(Int), NEW b \in Seq(Int), NEW r \in Seq(Int),
           Inside(a, p), Inside(b, p), a = r \/ PathBelow(a, r), b = r \/ PathBelow(r, b)
    PROVE  Inside(r, p)
<1>1. /\ Len(p) \in Nat /\ Len(a) \in Nat /\ Len(b) \in Nat /\ Len(r) \in Nat
      /\ \A i \in 1..Len(p) : p[i] \in Int
      /\ \A i \in 1..Len(r) : r[i] \in Int
  OBVIOUS
<1>2. SUFFICES ASSUME PathBelow(a, r), PathBelow(r, b) PROVE Inside(r, p)
  OBVIOUS
<1>3. PICK n \in 0..Len(a) : /\ n < Len(r)
                             /\ \A i \in 1..n : a[i] = r[i]
                             /\ n < Len(a) => a[n + 1] < r[n + 1]
  BY <1>2 DEF PathBelow
<1>4. PICK m \in 0..Len(r) : /\ m < Len(b)
                             /\ \A i \in 1..m : r[i] = b[i]
                             /\ m < Len(r) => r[m + 1] < b[m + 1]
  BY <1>2 DEF PathBelow
<1>5. /\ Len(p) < Len(a) /\ Len(p) < Len(b)
      /\ \A i \in 1..Len(p) : p[i] = a[i] /\ p[i] = b[i]
  BY DEF Inside, Prefix
<1>8. /\ Len(p) \in Nat /\ Len(a) \in Nat /\ Len(r) \in Nat /\ n \in Nat /\ m \in Nat
      /\ Len(p) < Len(a) /\ n < Len(r) /\ m <= Len(r)
  BY <1>1, <1>3, <1>4, <1>5
<1>6. CASE Len(p) <= n
  BY <1>1, <1>3, <1>5, <1>6 DEF Inside, Prefix
<1>7. CASE n < Len(p)
  <2>1. n + 1 \in 1..Len(p) /\ n + 1 \in 1..Len(r) /\ p[n + 1] < r[n + 1]
    <3>1. n + 1 \in 1..Len(p) /\ n + 1 \in 1..Len(r) /\ n < Len(a)
      BY <1>7, <1>8
    <3> QED BY <1>3, <1>5, <3>1
  <2>2. CASE n < m
    <3>1. r[n + 1] = b[n + 1]
      BY <1>1, <1>4, <2>1, <2>2
    <3>2. b[n + 1] = p[n + 1] /\ r[n + 1] \in Int /\ p[n + 1] \in Int
      BY <1>1, <1>5, <2>1
    <3> QED BY <2>1, <3>1, <3>2
  <2>3. CASE m = n
    <3>1. r[n + 1] < b[n + 1]
      BY <1>3, <1>4, <2>3
    <3>2. b[n + 1] = p[n + 1] /\ r[n + 1] \in Int /\ p[n + 1] \in Int
      BY <1>1, <1>5, <2>1
    <3> QED BY <2>1, <3>1, <3>2
  <2>4. CASE m < n
    <3>1. m + 1 \in 1..n /\ m + 1 \in 1..Len(p) /\ m + 1 \in 1..Len(r) /\ m < Len(r)
      BY <1>7, <1>8, <2>4
    <3>2. r[m + 1] < b[m + 1] /\ r[m + 1] = p[m + 1] /\ b[m + 1] = p[m + 1]
      <4>1. r[m + 1] < b[m + 1]
        BY <1>4, <3>1
      <4>2. a[m + 1] = r[m + 1]
        BY <1>3, <3>1
      <4>3. p[m + 1] = a[m + 1] /\ p[m + 1] = b[m + 1]
        BY <1>5, <3>1
      <4> QED BY <4>1, <4>2, <4>3
    <3>3. r[m + 1] \in Int
      BY <1>1, <3>1
    <3> QED BY <3>2, <3>3
  <2> QED BY <1>1, <2>2, <2>3, <2>4
<1> QED BY <1>1, <1>6, <1>7

TabGroups == [from : Nat, to : Nat, path : Seq(Int), container : Nat]

Open(gs, g) == gs[g].to = MaxInsertions
In(nodes, gs, h, g) == nodes[h].at > gs[g].from /\ nodes[h].at <= gs[g].to

TabTypes(path, len, nodes, gs) ==
    /\ path \in Seq(Int)
    /\ len \in Nat /\ len <= MaxInsertions
    /\ nodes \in Seq(TabNodes)
    /\ gs \in Seq(TabGroups)

\* Insertion indices grow, and groups begin and end before now.
Times(len, nodes, gs) ==
    /\ \A h \in 1..Len(nodes) : nodes[h].at < len
    /\ \A h, k \in 1..Len(nodes) : h < k => nodes[h].at < nodes[k].at
    /\ \A g \in 1..Len(gs) : gs[g].from < len /\ (Open(gs, g) \/ gs[g].to < len)

\* The open groups are the prefixes of current_path, the innermost last.
OpenGroups(path, gs) ==
    /\ \A g \in 1..Len(gs) : 1 <= Len(gs[g].path)
    /\ \A g \in 1..Len(gs) : Open(gs, g) => Prefix(gs[g].path, path)
    /\ \A n \in 1..Len(path) : \E g \in 1..Len(gs) : Open(gs, g) /\ Len(gs[g].path) = n
    /\ \A f, g \in 1..Len(gs) :
          Open(gs, f) /\ Open(gs, g) /\ f < g => Len(gs[f].path) < Len(gs[g].path)

\* What was inserted in a group has a path inside the group's, and each part of
\* a path is that of such a group.
MembersInside(nodes, gs) ==
    /\ \A h \in 1..Len(nodes), g \in 1..Len(gs) :
          In(nodes, gs, h, g) => Inside(nodes[h].path, gs[g].path)
    /\ \A h \in 1..Len(nodes) : \A n \in 1..(Len(nodes[h].path) - 1) :
          \E g \in 1..Len(gs) : In(nodes, gs, h, g) /\ Len(gs[g].path) = n

TabState(path, len, nodes, gs) ==
    /\ TabTypes(path, len, nodes, gs)
    /\ Times(len, nodes, gs)
    /\ OpenGroups(path, gs)
    /\ MembersInside(nodes, gs)

TabInv == TabState(current_path, Len(insertion_history), by_id, groups)

\* The fields of the nodes ...
LEMMA NodeTypes ==
    ASSUME NEW nodes \in Seq(TabNodes)
    PROVE  /\ Len(nodes) \in Nat
           /\ \A h \in 1..Len(nodes) : /\ nodes[h].path \in Seq(Int) /\ nodes[h].at \in Nat
                                       /\ Len(nodes[h].path) \in Nat
<1>1. \A h \in 1..Len(nodes) : nodes[h] \in TabNodes
  BY ElementOfSeq
<1>2. \A h \in 1..Len(nodes) : nodes[h].path \in Seq(Int) /\ nodes[h].at \in Nat
  BY <1>1 DEF TabNodes
<1> QED BY <1>2

\* ... and of the groups.
LEMMA GroupTypes ==
    ASSUME NEW gs \in Seq(TabGroups)
    PROVE  /\ Len(gs) \in Nat
           /\ \A g \in 1..Len(gs) : /\ gs[g].from \in Nat /\ gs[g].to \in Nat
                                    /\ gs[g].path \in Seq(Int) /\ Len(gs[g].path) \in Nat
<1>1. \A g \in 1..Len(gs) : gs[g] \in TabGroups
  BY ElementOfSeq
<1>2. \A g \in 1..Len(gs) : gs[g].from \in Nat /\ gs[g].to \in Nat /\ gs[g].path \in Seq(Int)
  BY <1>1 DEF TabGroups
<1> QED BY <1>2

\* The order of the tab key follows.
LEMMA OrderFollows ==
    ASSUME TabInv
    PROVE  TabOrder
<1>1. NodesInv
  BY DEF TabInv, TabState, TabTypes, Times, NodesInv
<1>2. ASSUME NEW g \in DOMAIN groups, Alone(g), NEW h \in Members(g), NEW k \in Members(g),
             NEW l \in TabHandles \ Members(g), NodeBelow(h, l), NodeBelow(l, k)
      PROVE  FALSE
  <2>1. /\ groups \in Seq(TabGroups) /\ by_id \in Seq(TabNodes)
        /\ MembersInside(by_id, groups) /\ OpenGroups(current_path, groups)
    BY DEF TabInv, TabState, TabTypes
  <2>2. /\ DOMAIN groups = 1..Len(groups)
        /\ \A f \in 1..Len(groups) : groups[f].path \in Seq(Int)
        /\ \A x \in TabHandles : by_id[x].path \in Seq(Int)
    BY <2>1, GroupTypes, NodeTypes DEF TabHandles
  <2>3. \A x \in TabHandles : \A f \in DOMAIN groups :
           x \in Members(f) <=> In(by_id, groups, x, f)
    BY DEF Members, In
  <2>4. h \in TabHandles /\ k \in TabHandles /\ l \in TabHandles
    BY DEF Members
  <2>m. \A x \in TabHandles : \A f \in 1..Len(groups) :
           In(by_id, groups, x, f) => Inside(by_id[x].path, groups[f].path)
    BY <2>1 DEF MembersInside, TabHandles
  <2>5. Inside(by_id[h].path, groups[g].path) /\ Inside(by_id[k].path, groups[g].path)
    BY <1>2, <2>2, <2>3, <2>4, <2>m
  <2>6. Inside(by_id[l].path, groups[g].path)
    <3>1. /\ by_id[h].path = by_id[l].path \/ PathBelow(by_id[h].path, by_id[l].path)
          /\ by_id[k].path = by_id[l].path \/ PathBelow(by_id[l].path, by_id[k].path)
      BY <1>2 DEF NodeBelow
    <3>2. groups[g].path \in Seq(Int)
      BY <2>2
    <3>3. by_id[h].path \in Seq(Int) /\ by_id[k].path \in Seq(Int) /\ by_id[l].path \in Seq(Int)
      BY <2>2, <2>4
    <3> QED BY <2>5, <3>1, <3>2, <3>3, InsideIsConvex
  <2>7. Len(groups[g].path) \in 1..(Len(by_id[l].path) - 1)
    <3>1. Len(groups[g].path) \in Nat /\ Len(by_id[l].path) \in Nat
      BY <2>2, <2>4
    <3>2. 1 <= Len(groups[g].path)
      BY <1>2, <2>1, <2>2 DEF OpenGroups
    <3>3. Len(groups[g].path) < Len(by_id[l].path)
      BY <2>6 DEF Inside
    <3> QED BY <3>1, <3>2, <3>3
  <2>8. PICK f \in 1..Len(groups) :
           In(by_id, groups, l, f) /\ Len(groups[f].path) = Len(groups[g].path)
    BY <2>1, <2>4, <2>7 DEF MembersInside, TabHandles
  <2>9. Inside(by_id[l].path, groups[f].path)
    BY <2>4, <2>8, <2>m
  <2>10. groups[f].path = groups[g].path
    <3>1. \A i \in 1..Len(groups[f].path) : groups[f].path[i] = groups[g].path[i]
      BY <2>6, <2>8, <2>9 DEF Inside, Prefix
    <3>2. groups[f].path \in Seq(Int) /\ groups[g].path \in Seq(Int)
      BY <2>2
    <3> QED BY <2>8, <3>1, <3>2, SeqEqual
  <2>11. l \in Members(f)
    BY <2>2, <2>3, <2>4, <2>8
  <2>12. f # g
    BY <1>2, <2>11
  <2> QED BY <1>2, <2>2, <2>10, <2>12 DEF Alone
<1>3. GroupsStayTogether
  BY <1>2 DEF GroupsStayTogether
<1> QED BY <1>1, <1>3, RoundFollows DEF TabOrder


\* What is appended is at the end, and the rest is where it was.
LEMMA AppendedFacts ==
    ASSUME NEW S, NEW s \in Seq(S), NEW x \in S
    PROVE  /\ Append(s, x) \in Seq(S)
           /\ Len(s) \in Nat /\ Len(Append(s, x)) = Len(s) + 1
           /\ \A n \in 1..Len(s) : Append(s, x)[n] = s[n]
           /\ Append(s, x)[Len(s) + 1] = x
           /\ \A n \in 1..(Len(s) + 1) : n = Len(s) + 1 \/ n \in 1..Len(s)
           /\ \A n \in 1..Len(s) : n < Len(s) + 1 /\ n # Len(s) + 1 /\ n \in 1..(Len(s) + 1)
           /\ Len(s) + 1 \in 1..(Len(s) + 1)
<1>1. Len(s) \in Nat
  OBVIOUS
<1>2. /\ Append(s, x) \in Seq(S) /\ Len(Append(s, x)) = Len(s) + 1
      /\ \A n \in 1..Len(s) : Append(s, x)[n] = s[n]
      /\ Append(s, x)[Len(s) + 1] = x
  BY AppendProperties
<1>3. /\ \A n \in 1..(Len(s) + 1) : n = Len(s) + 1 \/ n \in 1..Len(s)
      /\ \A n \in 1..Len(s) : n < Len(s) + 1 /\ n # Len(s) + 1 /\ n \in 1..(Len(s) + 1)
      /\ Len(s) + 1 \in 1..(Len(s) + 1)
  BY <1>1
<1> QED BY <1>1, <1>2, <1>3

\* A path that a step extends.
LEMMA AppendedPath ==
    ASSUME NEW path \in Seq(Int), NEW i \in Int
    PROVE  /\ Append(path, i) \in Seq(Int)
           /\ Len(path) \in Nat /\ Len(Append(path, i)) = Len(path) + 1
           /\ Prefix(path, Append(path, i))
           /\ \A p \in Seq(Int) : Prefix(p, path) => Inside(Append(path, i), p)
<1>1. /\ Append(path, i) \in Seq(Int)
      /\ Len(path) \in Nat /\ Len(Append(path, i)) = Len(path) + 1
      /\ \A n \in 1..Len(path) : Append(path, i)[n] = path[n]
  BY AppendedFacts
<1>2. Prefix(path, Append(path, i))
  BY <1>1 DEF Prefix
<1>3. ASSUME NEW p \in Seq(Int), Prefix(p, path) PROVE Inside(Append(path, i), p)
  <2>1. Len(p) \in Nat /\ Len(p) <= Len(path) /\ \A n \in 1..Len(p) : p[n] = path[n]
    BY <1>3 DEF Prefix
  <2>2. Len(p) < Len(path) + 1 /\ Len(p) <= Len(path) + 1 /\ \A n \in 1..Len(p) : n \in 1..Len(path)
    BY <1>1, <2>1
  <2> QED BY <1>1, <2>1, <2>2 DEF Inside, Prefix
<1> QED BY <1>1, <1>2, <1>3

\* insert keeps the state: the new handle is in the open groups and in no other.
LEMMA AddKeeps ==
    ASSUME NEW path, NEW len, NEW nodes, NEW gs, TabState(path, len, nodes, gs),
           len < MaxInsertions, NEW i \in Int, NEW stop \in BOOLEAN
    PROVE  TabState(path, len + 1,
                    Append(nodes, [path |-> Append(path, i), at |-> len, stop |-> stop]), gs)
<1> DEFINE node == [path |-> Append(path, i), at |-> len, stop |-> stop]
           more == Append(nodes, node)
           last == Len(nodes) + 1
<1>1. /\ path \in Seq(Int) /\ len \in Nat /\ MaxInsertions \in Nat
      /\ nodes \in Seq(TabNodes) /\ gs \in Seq(TabGroups)
  BY TabAssumption DEF TabState, TabTypes
<1>2. /\ Append(path, i) \in Seq(Int) /\ Len(Append(path, i)) = Len(path) + 1 /\ Len(path) \in Nat
      /\ \A p \in Seq(Int) : Prefix(p, path) => Inside(Append(path, i), p)
  BY <1>1, AppendedPath
<1>3. node \in TabNodes /\ node.path = Append(path, i) /\ node.at = len
  BY <1>1, <1>2 DEF TabNodes
<1> HIDE DEF node
<1>4. /\ more \in Seq(TabNodes) /\ Len(more) = last /\ more[last] = node /\ Len(nodes) \in Nat
      /\ \A h \in 1..Len(nodes) : more[h] = nodes[h] /\ h < last /\ h # last
      /\ \A h \in 1..last : h = last \/ h \in 1..Len(nodes)
  BY <1>1, <1>3, AppendedFacts
<1> HIDE DEF more
<1>5. /\ \A h \in 1..Len(nodes) : nodes[h].at \in Nat
      /\ \A g \in 1..Len(gs) : /\ gs[g].from \in Nat /\ gs[g].to \in Nat
                               /\ gs[g].path \in Seq(Int) /\ Len(gs[g].path) \in Nat
  BY <1>1, NodeTypes, GroupTypes
<1>6. TabTypes(path, len + 1, more, gs)
  BY <1>1, <1>4 DEF TabTypes
<1>7. Times(len + 1, more, gs)
  <2>1. /\ \A h \in 1..Len(nodes) : nodes[h].at < len
        /\ \A h, k \in 1..Len(nodes) : h < k => nodes[h].at < nodes[k].at
        /\ \A g \in 1..Len(gs) : gs[g].from < len /\ (Open(gs, g) \/ gs[g].to < len)
    BY DEF TabState, Times
  <2>2. \A h \in 1..last : more[h].at < len + 1
    <3>1. \A n \in Nat : n < len => n < len + 1
      BY <1>1
    <3>2. len < len + 1
      BY <1>1
    <3> QED BY <1>3, <1>4, <1>5, <2>1, <3>1, <3>2
  <2>3. ASSUME NEW h \in 1..last, NEW k \in 1..last, h < k PROVE more[h].at < more[k].at
    <3>1. h # last
      BY <1>4, <2>3
    <3>2. h \in 1..Len(nodes)
      BY <1>4, <3>1
    <3>3. CASE k = last
      BY <1>3, <1>4, <2>1, <3>2, <3>3
    <3>4. CASE k # last
      BY <1>4, <2>1, <2>3, <3>2, <3>4
    <3> QED BY <3>3, <3>4
  <2>4. \A g \in 1..Len(gs) : gs[g].from < len + 1 /\ (Open(gs, g) \/ gs[g].to < len + 1)
    BY <1>1, <1>5, <2>1
  <2> QED BY <1>4, <2>2, <2>3, <2>4 DEF Times
<1>8. OpenGroups(path, gs)
  BY DEF TabState
<1>9. \A g \in 1..Len(gs) : In(more, gs, last, g) <=> Open(gs, g)
  <2>1. SUFFICES ASSUME NEW g \in 1..Len(gs) PROVE In(more, gs, last, g) <=> Open(gs, g)
    OBVIOUS
  <2>2. gs[g].from < len /\ (Open(gs, g) \/ gs[g].to < len)
    BY DEF TabState, Times
  <2>3. In(more, gs, last, g) <=> len > gs[g].from /\ len <= gs[g].to
    BY <1>3, <1>4 DEF In
  <2> QED BY <1>1, <1>5, <2>2, <2>3 DEF Open
<1>10. MembersInside(more, gs)
  <2>1. \A h \in 1..Len(nodes), g \in 1..Len(gs) : In(more, gs, h, g) <=> In(nodes, gs, h, g)
    BY <1>4 DEF In
  <2>2. /\ \A h \in 1..Len(nodes), g \in 1..Len(gs) :
              In(nodes, gs, h, g) => Inside(nodes[h].path, gs[g].path)
        /\ \A h \in 1..Len(nodes) : \A n \in 1..(Len(nodes[h].path) - 1) :
              \E g \in 1..Len(gs) : In(nodes, gs, h, g) /\ Len(gs[g].path) = n
    BY DEF TabState, MembersInside
  <2>3. ASSUME NEW h \in 1..last, NEW g \in 1..Len(gs), In(more, gs, h, g)
        PROVE  Inside(more[h].path, gs[g].path)
    <3>1. CASE h = last
      <4>1. Open(gs, g)
        BY <1>9, <2>3, <3>1
      <4>2. Prefix(gs[g].path, path)
        BY <1>8, <4>1 DEF OpenGroups
      <4> QED BY <1>2, <1>3, <1>4, <1>5, <3>1, <4>2
    <3>2. CASE h # last
      BY <1>4, <2>1, <2>2, <2>3, <3>2
    <3> QED BY <3>1, <3>2
  <2>4. ASSUME NEW h \in 1..last, NEW n \in 1..(Len(more[h].path) - 1)
        PROVE  \E g \in 1..Len(gs) : In(more, gs, h, g) /\ Len(gs[g].path) = n
    <3>1. CASE h = last
      <4>1. Len(more[h].path) - 1 = Len(path)
        BY <1>2, <1>3, <1>4, <3>1
      <4>2. n \in 1..Len(path)
        BY <4>1
      <4>3. PICK g \in 1..Len(gs) : Open(gs, g) /\ Len(gs[g].path) = n
        BY <1>8, <4>2 DEF OpenGroups
      <4> QED BY <1>9, <3>1, <4>3
    <3>2. CASE h # last
      <4>1. h \in 1..Len(nodes) /\ more[h] = nodes[h]
        BY <1>4, <3>2
      <4>2. n \in 1..(Len(nodes[h].path) - 1)
        BY <4>1
      <4> QED BY <2>1, <2>2, <4>1, <4>2
    <3> QED BY <3>1, <3>2
  <2> QED BY <1>4, <2>3, <2>4 DEF MembersInside
<1>11. TabState(path, len + 1, more, gs)
  BY <1>6, <1>7, <1>8, <1>10 DEF TabState
<1> QED BY <1>11 DEF more, node


\* begin_group keeps it: no handle is in the new group yet.
LEMMA OpenKeeps ==
    ASSUME NEW path, NEW len, NEW nodes, NEW gs, TabState(path, len, nodes, gs),
           len < MaxInsertions, NEW i \in Int, NEW c \in Nat
    PROVE  TabState(Append(path, i), len + 1, nodes,
                    Append(gs, [from |-> len, to |-> MaxInsertions, path |-> Append(path, i),
                                container |-> c]))
<1> DEFINE deeper == Append(path, i)
           group == [from |-> len, to |-> MaxInsertions, path |-> deeper, container |-> c]
           more == Append(gs, group)
           last == Len(gs) + 1
<1>1. /\ path \in Seq(Int) /\ len \in Nat /\ MaxInsertions \in Nat
      /\ nodes \in Seq(TabNodes) /\ gs \in Seq(TabGroups)
  BY TabAssumption DEF TabState, TabTypes
<1>2. /\ deeper \in Seq(Int) /\ Len(deeper) = Len(path) + 1 /\ Len(path) \in Nat
      /\ \A p \in Seq(Int) : Prefix(p, path) => Inside(deeper, p)
  BY <1>1, AppendedPath
<1> HIDE DEF deeper
<1>3. /\ group \in TabGroups /\ group.path = deeper /\ group.from = len
      /\ group.to = MaxInsertions
  BY <1>1, <1>2 DEF TabGroups
<1> HIDE DEF group
<1>4. /\ more \in Seq(TabGroups) /\ Len(more) = last /\ more[last] = group /\ Len(gs) \in Nat
      /\ \A g \in 1..Len(gs) : more[g] = gs[g] /\ g < last /\ g # last /\ g \in 1..last
      /\ \A g \in 1..last : g = last \/ g \in 1..Len(gs)
      /\ last \in 1..last
  BY <1>1, <1>3, AppendedFacts
<1> HIDE DEF more
<1>5. /\ \A h \in 1..Len(nodes) : nodes[h].at \in Nat
      /\ \A g \in 1..Len(gs) : /\ gs[g].from \in Nat /\ gs[g].to \in Nat
                               /\ gs[g].path \in Seq(Int) /\ Len(gs[g].path) \in Nat
  BY <1>1, NodeTypes, GroupTypes
<1>6. TabTypes(deeper, len + 1, nodes, more)
  BY <1>1, <1>2, <1>4 DEF TabTypes
<1>7. \A g \in 1..Len(gs) : Open(more, g) <=> Open(gs, g)
  BY <1>4 DEF Open
<1>8. Open(more, last)
  BY <1>3, <1>4 DEF Open
<1>9. Times(len + 1, nodes, more)
  <2>1. /\ \A h \in 1..Len(nodes) : nodes[h].at < len
        /\ \A h, k \in 1..Len(nodes) : h < k => nodes[h].at < nodes[k].at
        /\ \A g \in 1..Len(gs) : gs[g].from < len /\ (Open(gs, g) \/ gs[g].to < len)
    BY DEF TabState, Times
  <2>2. (\A n \in Nat : n < len => n < len + 1) /\ len < len + 1
    BY <1>1
  <2>3. \A h \in 1..Len(nodes) : nodes[h].at < len + 1
    BY <1>5, <2>1, <2>2
  <2>4. \A g \in 1..last : more[g].from < len + 1 /\ (Open(more, g) \/ more[g].to < len + 1)
    <3>1. \A g \in 1..Len(gs) : gs[g].from < len + 1 /\ (Open(gs, g) \/ gs[g].to < len + 1)
      BY <1>5, <2>1, <2>2
    <3> QED BY <1>3, <1>4, <1>7, <1>8, <2>2, <3>1
  <2> QED BY <1>4, <2>1, <2>3, <2>4 DEF Times
<1>10. OpenGroups(deeper, more)
  <2>1. /\ \A g \in 1..Len(gs) : 1 <= Len(gs[g].path)
        /\ \A g \in 1..Len(gs) : Open(gs, g) => Prefix(gs[g].path, path)
        /\ \A n \in 1..Len(path) : \E g \in 1..Len(gs) : Open(gs, g) /\ Len(gs[g].path) = n
        /\ \A f, g \in 1..Len(gs) :
              Open(gs, f) /\ Open(gs, g) /\ f < g => Len(gs[f].path) < Len(gs[g].path)
    BY DEF TabState, OpenGroups
  <2>2. 1 <= Len(deeper) /\ Prefix(deeper, deeper)
    BY <1>2 DEF Prefix
  <2>3. \A g \in 1..last : 1 <= Len(more[g].path)
    BY <1>3, <1>4, <2>1, <2>2
  <2>4. \A g \in 1..last : Open(more, g) => Prefix(more[g].path, deeper)
    BY <1>2, <1>3, <1>4, <1>5, <1>7, <2>1, <2>2 DEF Inside
  <2>5. ASSUME NEW n \in 1..Len(deeper)
        PROVE  \E g \in 1..last : Open(more, g) /\ Len(more[g].path) = n
    <3>1. n = Len(deeper) \/ n \in 1..Len(path)
      BY <1>2
    <3>2. CASE n = Len(deeper)
      BY <1>3, <1>4, <1>8, <3>2
    <3>3. CASE n \in 1..Len(path)
      <4>1. PICK g \in 1..Len(gs) : Open(gs, g) /\ Len(gs[g].path) = n
        BY <2>1, <3>3
      <4> QED BY <1>4, <1>7, <4>1
    <3> QED BY <3>1, <3>2, <3>3
  <2>6. ASSUME NEW f \in 1..last, NEW g \in 1..last, Open(more, f), Open(more, g), f < g
        PROVE  Len(more[f].path) < Len(more[g].path)
    <3>1. f # last
      BY <1>4, <2>6
    <3>2. f \in 1..Len(gs)
      BY <1>4, <3>1
    <3>3. CASE g = last
      <4>1. Inside(deeper, gs[f].path)
        BY <1>2, <1>5, <1>7, <2>1, <2>6, <3>2
      <4> QED BY <1>3, <1>4, <3>2, <3>3, <4>1 DEF Inside
    <3>4. CASE g # last
      BY <1>4, <1>7, <2>1, <2>6, <3>2, <3>4
    <3> QED BY <3>3, <3>4
  <2> QED BY <1>4, <2>3, <2>4, <2>5, <2>6 DEF OpenGroups
<1>11. MembersInside(nodes, more)
  <2>1. /\ \A h \in 1..Len(nodes), g \in 1..Len(gs) :
              In(nodes, gs, h, g) => Inside(nodes[h].path, gs[g].path)
        /\ \A h \in 1..Len(nodes) : \A n \in 1..(Len(nodes[h].path) - 1) :
              \E g \in 1..Len(gs) : In(nodes, gs, h, g) /\ Len(gs[g].path) = n
    BY DEF TabState, MembersInside
  <2>2. \A h \in 1..Len(nodes), g \in 1..Len(gs) : In(nodes, more, h, g) <=> In(nodes, gs, h, g)
    BY <1>4 DEF In
  <2>3. \A h \in 1..Len(nodes) : ~In(nodes, more, h, last)
    <3>1. \A h \in 1..Len(nodes) : ~(nodes[h].at > len)
      BY <1>1, <1>5 DEF TabState, Times
    <3> QED BY <1>3, <1>4, <3>1 DEF In
  <2>4. ASSUME NEW h \in 1..Len(nodes), NEW g \in 1..last, In(nodes, more, h, g)
        PROVE  Inside(nodes[h].path, more[g].path)
    <3>1. g \in 1..Len(gs)
      BY <1>4, <2>3, <2>4
    <3> QED BY <1>4, <2>1, <2>2, <2>4, <3>1
  <2>5. ASSUME NEW h \in 1..Len(nodes), NEW n \in 1..(Len(nodes[h].path) - 1)
        PROVE  \E g \in 1..last : In(nodes, more, h, g) /\ Len(more[g].path) = n
    <3>1. PICK g \in 1..Len(gs) : In(nodes, gs, h, g) /\ Len(gs[g].path) = n
      BY <2>1
    <3> QED BY <1>4, <2>2, <3>1
  <2> QED BY <1>4, <2>4, <2>5 DEF MembersInside
<1>12. TabState(deeper, len + 1, nodes, more)
  BY <1>6, <1>9, <1>10, <1>11 DEF TabState
<1> QED BY <1>12 DEF more, group, deeper

\* end_group keeps it: the open group that began last is the one current_path
\* names, and it keeps its members.
LEMMA CloseKeeps ==
    ASSUME NEW path, NEW len, NEW nodes, NEW gs, TabState(path, len, nodes, gs),
           len < MaxInsertions, path # <<>>
    PROVE  LET open == Max({g \in DOMAIN gs : gs[g].to = MaxInsertions})
           IN TabState(SubSeq(path, 1, Len(path) - 1), len + 1, nodes,
                       [gs EXCEPT ![open].to = len])
<1> DEFINE opened == {g \in DOMAIN gs : gs[g].to = MaxInsertions}
           shorter == SubSeq(path, 1, Len(path) - 1)
<1>1. /\ path \in Seq(Int) /\ len \in Nat /\ MaxInsertions \in Nat
      /\ nodes \in Seq(TabNodes) /\ gs \in Seq(TabGroups)
  BY TabAssumption DEF TabState, TabTypes
<1>2. /\ \A h \in 1..Len(nodes) : nodes[h].at \in Nat
      /\ \A g \in 1..Len(gs) : /\ gs[g].from \in Nat /\ gs[g].to \in Nat
                               /\ gs[g].path \in Seq(Int) /\ Len(gs[g].path) \in Nat
      /\ Len(gs) \in Nat /\ DOMAIN gs = 1..Len(gs)
  BY <1>1, NodeTypes, GroupTypes
<1>3. Len(path) \in Nat /\ Len(path) >= 1
  BY <1>1, EmptySeq
<1>4. /\ \A g \in 1..Len(gs) : 1 <= Len(gs[g].path)
      /\ \A g \in 1..Len(gs) : Open(gs, g) => Prefix(gs[g].path, path)
      /\ \A n \in 1..Len(path) : \E g \in 1..Len(gs) : Open(gs, g) /\ Len(gs[g].path) = n
      /\ \A f, g \in 1..Len(gs) :
            Open(gs, f) /\ Open(gs, g) /\ f < g => Len(gs[f].path) < Len(gs[g].path)
  BY DEF TabState, OpenGroups
<1>5. PICK o \in 1..Len(gs) : Open(gs, o) /\ Len(gs[o].path) = Len(path)
  <2>1. Len(path) \in 1..Len(path)
    BY <1>3
  <2> QED BY <1>4, <2>1
<1>6. \A g \in 1..Len(gs) : Open(gs, g) /\ g # o => g < o /\ Len(gs[g].path) < Len(path)
  <2>1. SUFFICES ASSUME NEW g \in 1..Len(gs), Open(gs, g), g # o
                 PROVE  g < o /\ Len(gs[g].path) < Len(path)
    OBVIOUS
  <2>2. g < o \/ o < g
    BY <1>2, <2>1
  <2>3. ~(o < g)
    <3>1. Len(gs[g].path) <= Len(path)
      BY <1>4, <2>1 DEF Prefix
    <3>2. o < g => Len(path) < Len(gs[g].path)
      BY <1>4, <1>5, <2>1
    <3> QED BY <1>2, <1>3, <3>1, <3>2
  <2> QED BY <1>4, <1>5, <2>1, <2>2, <2>3
<1>7. Max(opened) = o
  <2>1. \A g : g \in opened <=> g \in 1..Len(gs) /\ Open(gs, g)
    BY <1>2 DEF Open
  <2>2. o \in opened
    BY <1>5, <2>1
  <2>3. \A g \in opened : g \in Nat /\ o >= g
    BY <1>2, <1>6, <2>1
  <2> HIDE DEF opened
  <2>4. ASSUME NEW x \in opened, \A g \in opened : x >= g PROVE x = o
    BY <2>2, <2>3, <2>4
  <2> QED BY <2>2, <2>3, <2>4 DEF Max
<1> DEFINE shut == [gs EXCEPT ![o].to = len]
<1>8. /\ shut \in Seq(TabGroups) /\ Len(shut) = Len(gs)
      /\ \A g \in 1..Len(gs) : g # o => shut[g] = gs[g]
      /\ shut[o].to = len /\ shut[o].path = gs[o].path /\ shut[o].from = gs[o].from
  <2>1. gs[o] \in TabGroups
    BY <1>1, ElementOfSeq
  <2>2. [gs[o] EXCEPT !.to = len] \in TabGroups
    BY <1>1, <2>1 DEF TabGroups
  <2>3. /\ shut \in Seq(TabGroups) /\ Len(shut) = Len(gs)
        /\ \A g \in 1..Len(gs) : g # o => shut[g] = gs[g]
        /\ shut[o] = [gs[o] EXCEPT !.to = len]
    BY <1>1, <1>2, <2>2, ExceptSeq
  <2> HIDE DEF shut
  <2> QED BY <2>1, <2>3 DEF TabGroups
<1> HIDE DEF shut
<1>9. /\ shorter \in Seq(Int) /\ Len(shorter) = Len(path) - 1
      /\ \A n \in 1..(Len(path) - 1) : shorter[n] = path[n]
  <2> DEFINE end == Len(path) - 1
  <2>1. 1 \in Int /\ end \in Int /\ end \in Nat /\ \A n \in 1..end : n \in 1..Len(path)
    BY <1>3
  <2>2. \A n \in 1..end : path[n] \in Int
    BY <1>1, <2>1
  <2> HIDE DEF end
  <2>3. /\ SubSeq(path, 1, end) \in Seq(Int)
        /\ Len(SubSeq(path, 1, end)) = IF 1 <= end THEN end - 1 + 1 ELSE 0
        /\ \A n \in 1..(end - 1 + 1) : SubSeq(path, 1, end)[n] = path[1 + n - 1]
    BY <2>1, <2>2, SubSeqProperties
  <2>4. /\ Len(SubSeq(path, 1, end)) = end
        /\ \A n \in 1..end : SubSeq(path, 1, end)[n] = path[n]
    <3>1. end - 1 + 1 = end /\ (IF 1 <= end THEN end ELSE 0) = end
      BY <2>1
    <3>2. \A n \in 1..end : 1 + n - 1 = n
      BY <2>1
    <3> QED BY <2>3, <3>1, <3>2
  <2> QED BY <2>3, <2>4 DEF end
<1> HIDE DEF shorter
<1>10. /\ \A g \in 1..Len(gs) : shut[g].path = gs[g].path /\ shut[g].from = gs[g].from
       /\ \A g \in 1..Len(gs) : Open(shut, g) <=> Open(gs, g) /\ g # o
  BY <1>1, <1>8 DEF Open
<1>11. TabTypes(shorter, len + 1, nodes, shut)
  BY <1>1, <1>8, <1>9 DEF TabTypes
<1>12. /\ \A h \in 1..Len(nodes) : nodes[h].at < len
       /\ \A h, k \in 1..Len(nodes) : h < k => nodes[h].at < nodes[k].at
       /\ \A g \in 1..Len(gs) : gs[g].from < len /\ (Open(gs, g) \/ gs[g].to < len)
  BY DEF TabState, Times
<1>13. Times(len + 1, nodes, shut)
  <2>1. (\A n \in Nat : n < len => n < len + 1) /\ len < len + 1
    BY <1>1
  <2>2. \A h \in 1..Len(nodes) : nodes[h].at < len + 1
    BY <1>2, <1>12, <2>1
  <2>3. \A g \in 1..Len(gs) : shut[g].from < len + 1
    BY <1>2, <1>10, <1>12, <2>1
  <2>4. \A g \in 1..Len(gs) : Open(shut, g) \/ shut[g].to < len + 1
    BY <1>2, <1>8, <1>10, <1>12, <2>1
  <2> QED BY <1>8, <1>12, <2>2, <2>3, <2>4 DEF Times
<1>14. OpenGroups(shorter, shut)
  <2>1. \A g \in 1..Len(gs) : 1 <= Len(shut[g].path)
    BY <1>4, <1>10
  <2>2. ASSUME NEW g \in 1..Len(gs), Open(shut, g) PROVE Prefix(shut[g].path, shorter)
    <3>1. Open(gs, g) /\ g # o /\ shut[g].path = gs[g].path
      BY <1>10, <2>2
    <3>2. Len(gs[g].path) < Len(path) /\ \A n \in 1..Len(gs[g].path) : gs[g].path[n] = path[n]
      BY <1>4, <1>6, <3>1 DEF Prefix
    <3>3. Len(gs[g].path) \in Nat
      BY <1>2
    <3>4. Len(gs[g].path) <= Len(path) - 1
      BY <1>3, <3>2, <3>3
    <3>5. \A n \in 1..Len(gs[g].path) : n \in 1..(Len(path) - 1)
      BY <1>3, <3>3, <3>4
    <3> QED BY <1>9, <3>1, <3>2, <3>4, <3>5 DEF Prefix
  <2>3. ASSUME NEW n \in 1..Len(shorter)
        PROVE  \E g \in 1..Len(gs) : Open(shut, g) /\ Len(shut[g].path) = n
    <3>1. n \in 1..Len(path) /\ n # Len(path)
      BY <1>3, <1>9
    <3>2. PICK g \in 1..Len(gs) : Open(gs, g) /\ Len(gs[g].path) = n
      BY <1>4, <3>1
    <3> QED BY <1>5, <1>10, <3>1, <3>2
  <2>4. \A f, g \in 1..Len(gs) :
           Open(shut, f) /\ Open(shut, g) /\ f < g
              => Len(shut[f].path) < Len(shut[g].path)
    BY <1>4, <1>10
  <2> QED BY <1>8, <2>1, <2>2, <2>3, <2>4 DEF OpenGroups
<1>15. MembersInside(nodes, shut)
  <2>1. \A h \in 1..Len(nodes), g \in 1..Len(gs) :
           In(nodes, shut, h, g) <=> In(nodes, gs, h, g)
    <3>1. SUFFICES ASSUME NEW h \in 1..Len(nodes), NEW g \in 1..Len(gs)
                   PROVE  In(nodes, shut, h, g) <=> In(nodes, gs, h, g)
      OBVIOUS
    <3>2. CASE g = o
      <4>1. nodes[h].at <= len /\ nodes[h].at <= MaxInsertions
        BY <1>1, <1>2, <1>12
      <4> QED BY <1>5, <1>8, <3>2, <4>1 DEF In, Open
    <3>3. CASE g # o
      BY <1>8, <3>3 DEF In
    <3> QED BY <3>2, <3>3
  <2>2. /\ \A h \in 1..Len(nodes), g \in 1..Len(gs) :
              In(nodes, gs, h, g) => Inside(nodes[h].path, gs[g].path)
        /\ \A h \in 1..Len(nodes) : \A n \in 1..(Len(nodes[h].path) - 1) :
              \E g \in 1..Len(gs) : In(nodes, gs, h, g) /\ Len(gs[g].path) = n
    BY DEF TabState, MembersInside
  <2>3. \A h \in 1..Len(nodes), g \in 1..Len(gs) :
           In(nodes, shut, h, g) => Inside(nodes[h].path, shut[g].path)
    BY <1>10, <2>1, <2>2
  <2>4. ASSUME NEW h \in 1..Len(nodes), NEW n \in 1..(Len(nodes[h].path) - 1)
        PROVE  \E g \in 1..Len(gs) : In(nodes, shut, h, g) /\ Len(shut[g].path) = n
    <3>1. PICK g \in 1..Len(gs) : In(nodes, gs, h, g) /\ Len(gs[g].path) = n
      BY <2>2
    <3> QED BY <1>10, <2>1, <3>1
  <2> QED BY <1>8, <2>3, <2>4 DEF MembersInside
<1>16. TabState(shorter, len + 1, nodes, shut)
  BY <1>11, <1>13, <1>14, <1>15 DEF TabState
<1> QED BY <1>7, <1>16 DEF shorter, shut

Operations == {"insert", "group", "end"}

\* Every operation keeps TabInv.
LEMMA TabInvStep ==
    ASSUME TabInv, insertion_history \in Seq(Operations), [TabNext]_tabVars
    PROVE  TabInv' /\ insertion_history' \in Seq(Operations)
<1>1. \A i \in TabIndices : i \in Int
  BY TabAssumption
<1>2. Len(insertion_history) \in Nat /\ MaxInsertions \in Nat
  BY TabAssumption
<1>3. ASSUME NEW w \in Operations, insertion_history' = Append(insertion_history, w)
      PROVE  insertion_history' \in Seq(Operations)
             /\ Len(insertion_history') = Len(insertion_history) + 1
  BY <1>3, AppendProperties
<1>w. "insert" \in Operations /\ "group" \in Operations /\ "end" \in Operations
  BY DEF Operations
<1>4. ASSUME NEW i \in TabIndices, NEW stop \in BOOLEAN, InsertTab(i, stop)
      PROVE  TabInv' /\ insertion_history' \in Seq(Operations)
  <2>1. /\ Len(insertion_history) < MaxInsertions
        /\ insertion_history' = Append(insertion_history, "insert")
        /\ by_id' = Append(by_id, [path |-> Append(current_path, i),
                                   at |-> Len(insertion_history), stop |-> stop])
        /\ current_path' = current_path /\ groups' = groups
    BY <1>4 DEF InsertTab, NodePath
  <2>2. i \in Int
    BY <1>1
  <2>3. TabState(current_path, Len(insertion_history) + 1, by_id', groups)
    BY <2>1, <2>2, AddKeeps DEF TabInv
  <2> QED BY <1>3, <1>w, <2>1, <2>3 DEF TabInv
<1>5. ASSUME NEW i \in TabIndices, BeginGroup(i)
      PROVE  TabInv' /\ insertion_history' \in Seq(Operations)
  <2>1. /\ Len(insertion_history) < MaxInsertions
        /\ insertion_history' = Append(insertion_history, "group")
        /\ current_path' = Append(current_path, i)
        /\ groups' = Append(groups, [from |-> Len(insertion_history), to |-> MaxInsertions,
                                     path |-> Append(current_path, i), container |-> 0])
        /\ by_id' = by_id
    BY <1>5 DEF BeginGroup
  <2>2. i \in Int /\ 0 \in Nat
    BY <1>1
  <2>3. TabState(current_path', Len(insertion_history) + 1, by_id, groups')
    BY <2>1, <2>2, OpenKeeps DEF TabInv
  <2> QED BY <1>3, <1>w, <2>1, <2>3 DEF TabInv
<1>6. ASSUME NEW i \in TabIndices, NEW stop \in BOOLEAN, BeginContainer(i, stop)
      PROVE  TabInv' /\ insertion_history' \in Seq(Operations)
  <2> DEFINE len == Len(insertion_history)
             path == Append(current_path, i)
             container == Len(by_id) + 1
  <2>1. /\ len + 1 < MaxInsertions
        /\ insertion_history' = insertion_history \o <<"group", "insert">>
        /\ current_path' = path
        /\ by_id' = Append(by_id, [path |-> Append(path, i), at |-> len + 1, stop |-> stop])
        /\ groups' = Append(groups, [from |-> len, to |-> MaxInsertions,
                                     path |-> path, container |-> container])
    BY <1>6 DEF BeginContainer
  <2>2. i \in Int /\ len < MaxInsertions
    BY <1>1, <1>2, <2>1
  <2>3. container \in Nat
    <3>1. by_id \in Seq(TabNodes)
      BY DEF TabInv, TabState, TabTypes
    <3> QED BY <3>1, NodeTypes
  <2>4. insertion_history' \in Seq(Operations) /\ Len(insertion_history') = len + 1 + 1
    <3>1. <<"group", "insert">> \in Seq(Operations) /\ Len(<<"group", "insert">>) = 2
      BY <1>w
    <3>2. insertion_history' \in Seq(Operations) /\ Len(insertion_history') = len + 2
      BY <2>1, <3>1, ConcatProperties
    <3> QED BY <1>2, <3>2
  <2> HIDE DEF container
  <2>5. TabState(path, len + 1, by_id, groups')
    BY <2>1, <2>2, <2>3, OpenKeeps DEF TabInv
  <2> HIDE DEF path, len
  <2>6. TabState(path, len + 1 + 1, by_id', groups')
    BY <2>1, <2>2, <2>5, AddKeeps
  <2> QED BY <2>1, <2>4, <2>6 DEF TabInv
<1>7. ASSUME EndGroup PROVE TabInv' /\ insertion_history' \in Seq(Operations)
  <2> DEFINE open == Max({g \in DOMAIN groups : groups[g].to = MaxInsertions})
  <2>1. /\ current_path # <<>> /\ Len(insertion_history) < MaxInsertions
        /\ insertion_history' = Append(insertion_history, "end")
        /\ current_path' = SubSeq(current_path, 1, Len(current_path) - 1)
        /\ groups' = [groups EXCEPT ![open].to = Len(insertion_history)]
        /\ by_id' = by_id
    BY <1>7 DEF EndGroup
  <2>2. TabState(current_path', Len(insertion_history) + 1, by_id, groups')
    BY <2>1, CloseKeeps DEF TabInv
  <2> QED BY <1>3, <1>w, <2>1, <2>2 DEF TabInv
<1>8. CASE UNCHANGED tabVars
  BY <1>8 DEF tabVars, TabInv
<1> QED BY <1>4, <1>5, <1>6, <1>7, <1>8 DEF TabNext

TabIndInv == TabInv /\ insertion_history \in Seq(Operations)

\* TabInv holds throughout a frame.
THEOREM TabInvHolds == TabSpec => []TabIndInv
<1>1. TabInit => TabIndInv
  <2> SUFFICES ASSUME TabInit PROVE TabIndInv
    OBVIOUS
  <2>1. /\ current_path = <<>> /\ by_id = <<>> /\ groups = <<>>
        /\ insertion_history = <<>> /\ Len(<<>>) = 0 /\ 1..0 = {}
    BY DEF TabInit
  <2>2. TabTypes(<<>>, 0, <<>>, <<>>)
    BY TabAssumption DEF TabTypes
  <2>3. Times(0, <<>>, <<>>) /\ OpenGroups(<<>>, <<>>) /\ MembersInside(<<>>, <<>>)
    BY <2>1 DEF Times, OpenGroups, MembersInside
  <2> QED BY <2>1, <2>2, <2>3 DEF TabIndInv, TabInv, TabState
<1>2. TabIndInv /\ [TabNext]_tabVars => TabIndInv'
  BY TabInvStep DEF TabIndInv
<1> QED BY <1>1, <1>2, PTL DEF TabSpec

\* For any elements, indices and nesting of groups, the tab key visits every
\* stop once, shift-tab goes back, and a group that shares its path with no
\* other is visited in one piece.
THEOREM TabKeepsOrder == TabSpec => []TabOrder
<1>1. TabIndInv => TabOrder
  BY OrderFollows DEF TabIndInv
<1> QED BY <1>1, TabInvHolds, PTL

=============================================================================
