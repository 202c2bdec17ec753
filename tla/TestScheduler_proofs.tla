------------------------ MODULE TestScheduler_proofs ------------------------
(***************************************************************************)
(* The test scheduler keeps sessions serial, expires timers on time and    *)
(* panics only when it is stuck, for any tasks, sessions and nesting.      *)
(*                                                                         *)
(* A step does one of five things to the call stack (Moves) and one of     *)
(* three to the queue (QueueMoves).  The first keep StackInv, which ties   *)
(* blocked_sessions to the blocks on the stack; the second RunnablesInv    *)
(* and FramesInv, which say where a task is.  Timers stay sorted, so the   *)
(* first one says when the clock must stop (TimersInv).  And in a turn of  *)
(* a block that made no step only the other thread can have made anything  *)
(* ready, in which case unparked says so (TurnInv): a block that finds     *)
(* nothing to run and is not unparked is stuck.                            *)
(***************************************************************************)
EXTENDS TestScheduler, SequenceTheorems, TLAPS

IsTask(f) == f.kind = "task"
IsBlock(f) == f.kind = "block"
HasSession(f) == f.kind = "block" /\ f.session # None

-----------------------------------------------------------------------------
(* Sequences.                                                              *)

\* r is s with e inserted at ix.
Inserted(r, S, s, ix, e) ==
    /\ r \in Seq(S)
    /\ Len(r) = Len(s) + 1
    /\ \A n \in 1..(Len(s) + 1) : r[n] = IF n < ix THEN s[n] ELSE IF n = ix THEN e ELSE s[n - 1]

\* What inserting an element does to a sequence.
LEMMA InsertFacts ==
    ASSUME NEW S, NEW s \in Seq(S), NEW ix \in 1..(Len(s) + 1), NEW e \in S
    PROVE  Inserted(InsertAt(s, ix, e), S, s, ix, e)
<1>1. Len(s) \in Nat /\ ix \in Nat
  OBVIOUS
<1>2. /\ SubSeq(s, 1, ix - 1) \in Seq(S) /\ Len(SubSeq(s, 1, ix - 1)) = ix - 1
      /\ \A n \in 1..(ix - 1) : SubSeq(s, 1, ix - 1)[n] = s[n]
  BY <1>1, SubSeqProperties
<1>3. /\ SubSeq(s, ix, Len(s)) \in Seq(S) /\ Len(SubSeq(s, ix, Len(s))) = Len(s) - ix + 1
      /\ \A n \in 1..(Len(s) - ix + 1) : SubSeq(s, ix, Len(s))[n] = s[ix + n - 1]
  BY <1>1, SubSeqProperties
<1> DEFINE A == SubSeq(s, 1, ix - 1)
           B == SubSeq(s, ix, Len(s))
           one == <<e>>
<1>4. one \in Seq(S) /\ Len(one) = 1 /\ one[1] = e
  OBVIOUS
<1>5. InsertAt(s, ix, e) = (A \o one) \o B
  BY DEF InsertAt
<1> HIDE DEF A, B, one
<1>6. /\ A \o one \in Seq(S) /\ Len(A \o one) = ix
      /\ \A n \in 1..ix : (A \o one)[n] = IF n < ix THEN s[n] ELSE e
  <2>1. A \in Seq(S) /\ Len(A) = ix - 1 /\ \A n \in 1..(ix - 1) : A[n] = s[n]
    BY <1>2 DEF A
  <2>2. /\ A \o one \in Seq(S) /\ Len(A \o one) = Len(A) + Len(one)
        /\ \A n \in 1..(Len(A) + Len(one)) :
              (A \o one)[n] = IF n <= Len(A) THEN A[n] ELSE one[n - Len(A)]
    BY <1>4, <2>1, ConcatProperties
  <2>3. Len(A) + Len(one) = ix
    BY <1>1, <1>4, <2>1
  <2>4. ix - (ix - 1) = 1
    BY <1>1
  <2>5. \A n \in 1..ix : (A \o one)[n] = IF n < ix THEN s[n] ELSE e
    BY <1>1, <1>4, <2>1, <2>2, <2>3, <2>4
  <2> QED BY <2>2, <2>3, <2>5
<1>7. /\ (A \o one) \o B \in Seq(S) /\ Len((A \o one) \o B) = Len(s) + 1
      /\ \A n \in 1..(Len(s) + 1) :
            ((A \o one) \o B)[n] = IF n <= ix THEN (A \o one)[n] ELSE B[n - ix]
  <2> DEFINE C == A \o one
  <2> HIDE DEF C
  <2>1. B \in Seq(S) /\ Len(B) = Len(s) - ix + 1
    BY <1>3 DEF B
  <2>2. C \in Seq(S) /\ Len(C) = ix
    BY <1>6 DEF C
  <2>3. /\ C \o B \in Seq(S) /\ Len(C \o B) = Len(C) + Len(B)
        /\ \A n \in 1..(Len(C) + Len(B)) :
              (C \o B)[n] = IF n <= Len(C) THEN C[n] ELSE B[n - Len(C)]
    BY <2>1, <2>2, ConcatProperties
  <2>4. Len(C) + Len(B) = Len(s) + 1
    BY <1>1, <2>1, <2>2
  <2> QED BY <2>2, <2>3, <2>4 DEF C
<1>8. \A n \in 1..(Len(s) + 1) : n > ix => B[n - ix] = s[n - 1]
  BY <1>1, <1>3 DEF B
<1> QED BY <1>1, <1>5, <1>6, <1>7, <1>8 DEF Inserted

\* What removing one does.
LEMMA RemoveFacts ==
    ASSUME NEW S, NEW s \in Seq(S), NEW ix \in 1..Len(s)
    PROVE  /\ RemoveAt(s, ix) \in Seq(S)
           /\ Len(RemoveAt(s, ix)) = Len(s) - 1
           /\ \A n \in 1..(Len(s) - 1) :
                 RemoveAt(s, ix)[n] = IF n < ix THEN s[n] ELSE s[n + 1]
<1>1. Len(s) \in Nat /\ ix \in Nat
  OBVIOUS
<1>2. /\ SubSeq(s, 1, ix - 1) \in Seq(S) /\ Len(SubSeq(s, 1, ix - 1)) = ix - 1
      /\ \A n \in 1..(ix - 1) : SubSeq(s, 1, ix - 1)[n] = s[n]
  BY <1>1, SubSeqProperties
<1>3. /\ SubSeq(s, ix + 1, Len(s)) \in Seq(S) /\ Len(SubSeq(s, ix + 1, Len(s))) = Len(s) - ix
      /\ \A n \in 1..(Len(s) - ix) : SubSeq(s, ix + 1, Len(s))[n] = s[ix + n]
  BY <1>1, SubSeqProperties
<1> DEFINE A == SubSeq(s, 1, ix - 1)
           B == SubSeq(s, ix + 1, Len(s))
<1>4. RemoveAt(s, ix) = A \o B
  BY DEF RemoveAt
<1> HIDE DEF A, B
<1>5. /\ A \o B \in Seq(S) /\ Len(A \o B) = Len(A) + Len(B)
      /\ \A n \in 1..(Len(A) + Len(B)) :
            (A \o B)[n] = IF n <= Len(A) THEN A[n] ELSE B[n - Len(A)]
  BY <1>2, <1>3, ConcatProperties DEF A, B
<1>6. Len(A) = ix - 1 /\ Len(B) = Len(s) - ix
  BY <1>2, <1>3 DEF A, B
<1>7. /\ \A n \in 1..(Len(s) - 1) : n < ix => A[n] = s[n]
      /\ \A n \in 1..(Len(s) - 1) : n >= ix => B[n - (ix - 1)] = s[n + 1]
  BY <1>1, <1>2, <1>3 DEF A, B
<1> QED BY <1>1, <1>4, <1>5, <1>6, <1>7

\* What taking the last one off does.
LEMMA FrontFacts ==
    ASSUME NEW S, NEW s \in Seq(S), s # <<>>
    PROVE  /\ Front(s) \in Seq(S) /\ Len(s) \in Nat \ {0}
           /\ Len(Front(s)) = Len(s) - 1
           /\ \A n \in 1..(Len(s) - 1) : Front(s)[n] = s[n]
<1>1. Len(s) \in Nat \ {0}
  BY EmptySeq
<1>2. Len(s) - 1 \in Int /\ \A i \in 1..(Len(s) - 1) : s[i] \in S
  BY <1>1
<1>3. /\ Front(s) \in Seq(S)
      /\ Len(Front(s)) = IF 1 <= Len(s) - 1 THEN Len(s) - 1 - 1 + 1 ELSE 0
      /\ \A i \in 1..(Len(s) - 1 - 1 + 1) : Front(s)[i] = s[1 + i - 1]
  BY <1>2, SubSeqProperties DEF Front
<1>4. Len(Front(s)) = Len(s) - 1
  <2>1. \A k \in Nat \ {0} : k - 1 = IF 1 <= k - 1 THEN k - 1 - 1 + 1 ELSE 0
    OBVIOUS
  <2> QED BY <1>1, <1>3, <2>1
<1>5. \A n \in 1..(Len(s) - 1) : Front(s)[n] = s[n]
  <2> TAKE n \in 1..(Len(s) - 1)
  <2>1. n \in 1..(Len(s) - 1 - 1 + 1) /\ 1 + n - 1 = n
    BY <1>1
  <2> QED BY <1>3, <2>1
<1> QED BY <1>1, <1>3, <1>4, <1>5

\* What adding one does.
LEMMA AppendFacts ==
    ASSUME NEW S, NEW s \in Seq(S), NEW e \in S
    PROVE  /\ Append(s, e) \in Seq(S) /\ Len(s) \in Nat
           /\ Len(Append(s, e)) = Len(s) + 1
           /\ Append(s, e)[Len(s) + 1] = e
           /\ \A n \in 1..Len(s) : Append(s, e)[n] = s[n]
OBVIOUS

-----------------------------------------------------------------------------
(* Frames.                                                                 *)

\* g is f, but for how far a block has got.
Alike(f, g) ==
    /\ g.kind = f.kind
    /\ IsTask(f) => g = f
    /\ IsBlock(f) => g.session = f.session /\ g.target = f.target /\ g.timed = f.timed

Similar(frames, others) ==
    /\ others \in Seq(Frames)
    /\ Len(others) = Len(frames)
    /\ \A n \in 1..Len(frames) : Alike(frames[n], others[n])

\* What the frames of each kind hold.
LEMMA FrameFacts ==
    ASSUME NEW f \in Frames
    PROVE  /\ IsTask(f) => f.task \in Tasks /\ f.was \in BOOLEAN
           /\ IsBlock(f) => f \in BlockFrames
           /\ f.kind = "advance" => f.next_now \in Nat
<1>1. CASE f \in TaskFrames
  BY <1>1 DEF TaskFrames, IsTask, IsBlock
<1>2. CASE f \in BlockFrames
  BY <1>2 DEF BlockFrames, IsTask, IsBlock
<1>3. CASE f \in CallFrames
  BY <1>3 DEF CallFrames, IsTask, IsBlock
<1> QED BY <1>1, <1>2, <1>3 DEF Frames

\* A waker is called: only awoken changes.
LEMMA AwokenFacts ==
    ASSUME NEW frames \in Seq(Frames), NEW target
    PROVE  /\ Similar(frames, Awoken(frames, target))
           /\ \A n \in 1..Len(frames) : IsBlock(frames[n]) =>
                 /\ Awoken(frames, target)[n].pc = frames[n].pc
                 /\ Awoken(frames, target)[n].stepped = frames[n].stepped
<1> DEFINE a == Awoken(frames, target)
<1>1. Len(frames) \in Nat /\ DOMAIN frames = 1..Len(frames)
  OBVIOUS
<1>2. ASSUME NEW n \in 1..Len(frames)
      PROVE  /\ a[n] \in Frames /\ Alike(frames[n], a[n])
             /\ IsBlock(frames[n]) => a[n].pc = frames[n].pc /\ a[n].stepped = frames[n].stepped
  <2>1. frames[n] \in Frames
    OBVIOUS
  <2>2. CASE IsBlockOn(frames[n], target)
    <3>1. a[n] = [frames[n] EXCEPT !.awoken = TRUE] /\ IsBlock(frames[n])
      BY <1>1, <2>2 DEF Awoken, IsBlockOn, IsBlock
    <3>2. frames[n] \in BlockFrames
      BY <2>1, <3>1, FrameFacts
    <3>3. /\ a[n] \in BlockFrames /\ IsBlock(a[n]) /\ a[n].session = frames[n].session
          /\ a[n].target = frames[n].target /\ a[n].timed = frames[n].timed
          /\ a[n].pc = frames[n].pc /\ a[n].stepped = frames[n].stepped
      BY <3>1, <3>2 DEF BlockFrames, IsBlock
    <3> QED BY <3>1, <3>3 DEF Frames, Alike, IsBlock, IsTask
  <2>3. CASE ~IsBlockOn(frames[n], target)
    <3>1. a[n] = frames[n]
      BY <1>1, <2>3 DEF Awoken
    <3> QED BY <2>1, <3>1 DEF Alike
  <2> QED BY <2>2, <2>3
<1>3. a = [n \in 1..Len(frames) |-> a[n]] /\ DOMAIN a = 1..Len(frames)
  BY <1>1 DEF Awoken
<1> HIDE DEF a
<1>4. a \in Seq(Frames) /\ Len(a) = Len(frames)
  BY <1>1, <1>2, <1>3
<1> QED BY <1>2, <1>4 DEF Similar, a

\* A step was made: only stepped of the innermost call changes.
LEMMA SteppedFacts ==
    ASSUME NEW frames \in Seq(Frames)
    PROVE  /\ Similar(frames, Stepped(frames))
           /\ \A n \in 1..Len(frames) : IsBlock(frames[n]) =>
                 /\ Stepped(frames)[n].pc = frames[n].pc
                 /\ Stepped(frames)[n].stepped =
                       IF n = Len(frames) THEN "yes" ELSE frames[n].stepped
<1> DEFINE a == Stepped(frames)
<1>1. Len(frames) \in Nat /\ DOMAIN frames = 1..Len(frames)
  OBVIOUS
<1>2. ASSUME NEW n \in 1..Len(frames)
      PROVE  /\ a[n] \in Frames /\ Alike(frames[n], a[n])
             /\ IsBlock(frames[n]) =>
                   /\ a[n].pc = frames[n].pc
                   /\ a[n].stepped = IF n = Len(frames) THEN "yes" ELSE frames[n].stepped
  <2>1. frames[n] \in Frames
    OBVIOUS
  <2>2. CASE n = Len(frames) /\ IsBlock(frames[n])
    <3>1. a[n] = [frames[n] EXCEPT !.stepped = "yes"]
      BY <1>1, <2>2 DEF Stepped, IsBlock
    <3>2. frames[n] \in BlockFrames
      BY <2>1, <2>2, FrameFacts
    <3>3. /\ a[n] \in BlockFrames /\ IsBlock(a[n]) /\ a[n].session = frames[n].session
          /\ a[n].target = frames[n].target /\ a[n].timed = frames[n].timed
          /\ a[n].pc = frames[n].pc /\ a[n].stepped = "yes"
      BY <3>1, <3>2 DEF BlockFrames, IsBlock
    <3> QED BY <2>2, <3>1, <3>3 DEF Frames, Alike, IsBlock, IsTask
  <2>3. CASE ~(n = Len(frames) /\ IsBlock(frames[n]))
    <3>1. a[n] = frames[n]
      BY <1>1, <2>3 DEF Stepped, IsBlock
    <3> QED BY <2>1, <2>3, <3>1 DEF Alike
  <2> QED BY <2>2, <2>3
<1>3. a = [n \in 1..Len(frames) |-> a[n]] /\ DOMAIN a = 1..Len(frames)
  BY <1>1 DEF Stepped
<1> HIDE DEF a
<1>4. a \in Seq(Frames) /\ Len(a) = Len(frames)
  BY <1>1, <1>2, <1>3
<1> QED BY <1>2, <1>4 DEF Similar, a

-----------------------------------------------------------------------------
(* The inductive invariant.                                                *)

\* A queued task is in the queue once, and the history speaks of queued
\* tasks.
RunnablesInv ==
    /\ \A n \in 1..Len(runnables) : task[runnables[n]] = "queued"
    /\ \A m, n \in 1..Len(runnables) : runnables[m] = runnables[n] => m = n
    /\ earlier \subseteq Queued \X Queued
    /\ SessionInOrder

\* A task on the stack runs, and only there.
FramesInv ==
    /\ \A n \in 1..Len(stack) : IsTask(stack[n]) => task[stack[n].task] = "running"
    /\ \A m, n \in 1..Len(stack) :
          IsTask(stack[m]) /\ IsTask(stack[n]) /\ stack[m].task = stack[n].task => m = n

\* Timers are sorted; real time passes only where that is allowed.
TimersSorted ==
    \A m, n \in 1..Len(timers) : m <= n => timers[m].expiration <= timers[n].expiration

EventIsAllowed == event # "before" => allow_parking

Fresh(f) == IsBlock(f) => f.pc = "poll" /\ f.stepped = "not tried"
MayPark(f) == IsBlock(f) /\ f.pc = "parked" => allow_parking /\ f.stepped = "no"

\* at gives the frame of each blocked session.
Blocks(at, frames, sessions) ==
    /\ at \in [1..Len(sessions) -> 1..Len(frames)]
    /\ \A i, j \in 1..Len(sessions) : i < j => at[i] < at[j]
    /\ \A i \in 1..Len(sessions) :
          HasSession(frames[at[i]]) /\ frames[at[i]].session = sessions[i]
    /\ \A n \in 1..Len(frames) :
          HasSession(frames[n]) => \E i \in 1..Len(sessions) : at[i] = n

BlockedMatches == \E at \in [1..Len(blocked_sessions) -> 1..Len(stack)] :
                     Blocks(at, stack, blocked_sessions)

\* What is below the innermost call has made a step that goes on.
CallersStep ==
    \A n \in 1..Len(stack) :
        n < Len(stack) /\ IsBlock(stack[n]) => stack[n].pc = "step" /\ stack[n].stepped = "yes"

\* The part that is about the stack alone.
StackInv ==
    /\ stack \in Seq(Frames) /\ blocked_sessions \in Seq(Sessions)
    /\ \A n \in 1..Len(stack) : MayPark(stack[n])
    /\ BlockedMatches /\ BlockedIsQuiet /\ CallersStep

\* A turn of a block begins without a step that failed.
BeginInv ==
    stack # <<>> /\ IsBlock(Top) /\ Top.pc \in {"poll", "step"} => Top.stepped # "no"

\* The turn of a block in which no step was made yet, or none could be.
IdleTurn(f) ==
    \/ f.pc = "step" /\ f.stepped = "not tried"
    \/ f.pc \in {"check", "parked"} /\ f.stepped = "no"

\* In such a turn only the other thread can have made anything ready or
\* runnable, and then unparked says so.
TurnInv ==
    ~panicked /\ stack # <<>> /\ IsBlock(Top) /\ IdleTurn(Top) =>
       /\ IsReady(Top.target) =>
             allow_parking /\ Top.target = External /\ (event = "completed" \/ unparked)
       /\ Top.pc # "step" => Candidates(FALSE) = {} \/ (allow_parking /\ unparked)

PanicInv == panicked => stack # <<>> /\ IsBlock(Top)

IndInv ==
    /\ SchedulerTypeOK /\ StackInv
    /\ RunnablesInv /\ FramesInv
    /\ TimersSorted /\ TimersOnTime /\ EventIsAllowed
    /\ BeginInv /\ TurnInv /\ PanicInv /\ PanicsOnlyWhenStuck

-----------------------------------------------------------------------------
(* What a step does to the call stack and the blocked sessions is one of   *)
(* five moves.                                                             *)

\* Up to depth d, blocks are where they were.
SameTurns(frames, others, d) ==
    \A n \in 1..d : IsBlock(frames[n]) =>
       others[n].pc = frames[n].pc /\ others[n].stepped = frames[n].stepped

Stays ==
    /\ Similar(stack, stack') /\ SameTurns(stack, stack', Len(stack) - 1)
    /\ stack # <<>> => MayPark(stack'[Len(stack)])
    /\ UNCHANGED blocked_sessions

Enters ==
    \E f \in Frames :
        /\ Similar(Append(stack, f), stack') /\ SameTurns(stack, stack', Len(stack) - 1)
        /\ stack # <<>> /\ IsBlock(Top) =>
              stack'[Len(stack)].pc = "step" /\ stack'[Len(stack)].stepped = "yes"
        /\ Fresh(stack'[Len(stack) + 1])
        /\ ~HasSession(f)
        /\ IsTask(f) => \/ SessionOf[f.task] = None
                        \/ \A i \in 1..Len(blocked_sessions) :
                              blocked_sessions[i] # SessionOf[f.task]
        /\ UNCHANGED blocked_sessions

EntersBlock ==
    \E f \in Frames :
        /\ stack' = Append(stack, f)
        /\ stack # <<>> => ~IsBlock(Top)
        /\ HasSession(f) /\ Fresh(f)
        /\ blocked_sessions' = Append(blocked_sessions, f.session)

Returns ==
    /\ stack # <<>> /\ ~HasSession(Top)
    /\ Similar(Front(stack), stack') /\ SameTurns(stack, stack', Len(stack) - 1)
    /\ UNCHANGED blocked_sessions

ReturnsFromBlock ==
    /\ stack # <<>> /\ HasSession(Top)
    /\ stack' = Front(stack)
    /\ blocked_sessions' = Front(blocked_sessions)

Moves == Stays \/ Enters \/ EntersBlock \/ Returns \/ ReturnsFromBlock

\* The blocks of similar stacks are at the same places.
LEMMA SimilarBlocks ==
    ASSUME NEW frames \in Seq(Frames), NEW others, Similar(frames, others),
           NEW at, NEW sessions, Blocks(at, frames, sessions)
    PROVE  Blocks(at, others, sessions)
<1>1. Len(others) = Len(frames)
  BY DEF Similar
<1>2. \A n \in 1..Len(frames) :
         /\ HasSession(others[n]) <=> HasSession(frames[n])
         /\ HasSession(frames[n]) => others[n].session = frames[n].session
  BY DEF Similar, Alike, HasSession, IsBlock
<1> QED BY <1>1, <1>2 DEF Blocks

\* The five moves keep the part about the stack: staying,
LEMMA StaysKeepsStack ==
    ASSUME StackInv, Stays, UNCHANGED allow_parking
    PROVE  StackInv'
<1>1. /\ stack' \in Seq(Frames) /\ Len(stack') = Len(stack) /\ Len(stack) \in Nat
      /\ \A n \in 1..Len(stack) : Alike(stack[n], stack'[n])
  BY DEF StackInv, Stays, Similar
<1>2. BlockedMatches'
  <2>1. PICK at \in [1..Len(blocked_sessions) -> 1..Len(stack)] :
           Blocks(at, stack, blocked_sessions)
    BY DEF StackInv, BlockedMatches
  <2>2. Blocks(at, stack', blocked_sessions)
    BY <2>1, SimilarBlocks DEF StackInv, Stays
  <2> QED BY <1>1, <2>1, <2>2 DEF BlockedMatches, Stays
<1>3. BlockedIsQuiet'
  <2>1. \A n \in 1..Len(stack) :
           /\ stack'[n].kind = stack[n].kind
           /\ stack[n].kind = "task" => stack'[n] = stack[n]
           /\ stack[n].kind = "block" => stack'[n].session = stack[n].session
    BY <1>1 DEF Alike, IsBlock, IsTask
  <2>2. BlockedIsQuiet /\ Len(stack') = Len(stack)
    BY <1>1 DEF StackInv
  <2> QED BY <2>1, <2>2 DEF BlockedIsQuiet
<1>4. /\ \A n \in 1..Len(stack) : n # Len(stack) => n \in 1..(Len(stack) - 1)
      /\ \A n \in 1..Len(stack) : stack # <<>>
  BY <1>1 DEF StackInv
<1>5. CallersStep'
  <2>1. ASSUME NEW n \in 1..Len(stack'), n < Len(stack'), IsBlock(stack'[n])
        PROVE  stack'[n].pc = "step" /\ stack'[n].stepped = "yes"
    <3>1. n \in 1..Len(stack) /\ n < Len(stack) /\ n \in 1..(Len(stack) - 1)
      BY <1>1, <2>1
    <3>2. IsBlock(stack[n])
      BY <1>1, <2>1, <3>1 DEF Alike, IsBlock
    <3>3. stack'[n].pc = stack[n].pc /\ stack'[n].stepped = stack[n].stepped
      BY <3>1, <3>2 DEF Stays, SameTurns
    <3> QED BY <3>1, <3>2, <3>3 DEF StackInv, CallersStep
  <2> QED BY <2>1 DEF CallersStep
<1>6. \A n \in 1..Len(stack') : MayPark(stack'[n])
  <2> TAKE n \in 1..Len(stack')
  <2>1. n \in 1..Len(stack) /\ Alike(stack[n], stack'[n]) /\ MayPark(stack[n])
    BY <1>1 DEF StackInv
  <2>2. CASE n = Len(stack)
    BY <1>4, <2>1, <2>2 DEF Stays
  <2>3. CASE n # Len(stack)
    <3>1. IsBlock(stack[n]) => stack'[n].pc = stack[n].pc /\ stack'[n].stepped = stack[n].stepped
      BY <1>4, <2>1, <2>3 DEF Stays, SameTurns
    <3> QED BY <2>1, <3>1 DEF MayPark, Alike, IsBlock
  <2> QED BY <2>2, <2>3
<1> QED BY <1>1, <1>2, <1>3, <1>5, <1>6 DEF StackInv, Stays, MayPark

\* entering a call or a task,
LEMMA EntersKeepsStack ==
    ASSUME StackInv, Enters, UNCHANGED allow_parking
    PROVE  StackInv'
<1>1. PICK f \in Frames :
         /\ Similar(Append(stack, f), stack') /\ SameTurns(stack, stack', Len(stack) - 1)
         /\ stack # <<>> /\ IsBlock(Top) =>
               stack'[Len(stack)].pc = "step" /\ stack'[Len(stack)].stepped = "yes"
         /\ Fresh(stack'[Len(stack) + 1])
         /\ ~HasSession(f)
         /\ IsTask(f) => \/ SessionOf[f.task] = None
                         \/ \A i \in 1..Len(blocked_sessions) :
                               blocked_sessions[i] # SessionOf[f.task]
  BY DEF Enters
<1> DEFINE up == Append(stack, f)
<1>2. /\ up \in Seq(Frames) /\ Len(stack) \in Nat /\ Len(up) = Len(stack) + 1
      /\ up[Len(stack) + 1] = f /\ \A n \in 1..Len(stack) : up[n] = stack[n]
  BY AppendFacts DEF StackInv
<1> HIDE DEF up
<1>3. /\ stack' \in Seq(Frames) /\ Len(stack') = Len(stack) + 1
      /\ \A n \in 1..Len(stack) : n \in 1..Len(up) /\ Alike(stack[n], stack'[n])
      /\ Len(stack) + 1 \in 1..Len(up) /\ Alike(f, stack'[Len(stack) + 1])
  BY <1>1, <1>2 DEF Similar, up
<1>4. /\ \A n \in 1..Len(stack') : n # Len(stack) + 1 => n \in 1..Len(stack)
      /\ \A n \in 1..Len(stack) : n # Len(stack) => n \in 1..(Len(stack) - 1)
      /\ \A n \in 1..Len(stack) : stack # <<>> /\ Top = stack[Len(stack)]
  BY <1>2, <1>3 DEF StackInv, Top
<1>5. PICK at \in [1..Len(blocked_sessions) -> 1..Len(stack)] :
         Blocks(at, stack, blocked_sessions)
  BY DEF StackInv, BlockedMatches
<1>6. BlockedMatches'
  <2>1. at \in [1..Len(blocked_sessions) -> 1..Len(up)]
    BY <1>2
  <2>2. \A n \in 1..Len(up) : HasSession(up[n]) => n \in 1..Len(stack) /\ HasSession(stack[n])
    BY <1>1, <1>2
  <2>3. \A i \in 1..Len(blocked_sessions) :
           HasSession(up[at[i]]) /\ up[at[i]].session = blocked_sessions[i]
    BY <1>2, <1>5 DEF Blocks
  <2>4. Blocks(at, up, blocked_sessions)
    BY <1>5, <2>1, <2>2, <2>3 DEF Blocks
  <2>5. Blocks(at, stack', blocked_sessions)
    BY <1>1, <1>2, <2>4, SimilarBlocks DEF up
  <2> QED BY <1>1, <1>2, <1>3, <2>1, <2>5 DEF BlockedMatches, Enters
<1>7. BlockedIsQuiet'
  <2>1. ASSUME NEW m \in 1..Len(stack'), NEW n \in 1..Len(stack'), m < n,
               IsBlock(stack'[m]), stack'[m].session # None, IsTask(stack'[n])
        PROVE  SessionOf[stack'[n].task] # stack'[m].session
    <3>1. /\ m \in 1..Len(stack) /\ IsBlock(stack[m]) /\ stack'[m].session = stack[m].session
      BY <1>2, <1>3, <2>1 DEF Alike, IsBlock
    <3>2. CASE n \in 1..Len(stack)
      <4>1. IsTask(stack[n]) /\ stack'[n] = stack[n]
        BY <1>3, <2>1, <3>2 DEF Alike, IsTask
      <4> QED BY <2>1, <3>1, <3>2, <4>1 DEF StackInv, BlockedIsQuiet, IsBlock, IsTask
    <3>3. CASE n = Len(stack) + 1
      <4>1. IsTask(f) /\ stack'[n] = f
        BY <1>3, <2>1, <3>3 DEF Alike, IsTask
      <4>2. HasSession(stack[m])
        BY <2>1, <3>1 DEF HasSession, IsBlock
      <4>3. PICK i \in 1..Len(blocked_sessions) : blocked_sessions[i] = stack[m].session
        BY <1>5, <3>1, <4>2 DEF Blocks
      <4> QED BY <1>1, <2>1, <3>1, <4>1, <4>3
    <3> QED BY <1>4, <3>2, <3>3
  <2>2. DOMAIN stack' = 1..Len(stack')
    BY <1>3
  <2> QED BY <2>1, <2>2 DEF BlockedIsQuiet, IsBlock, IsTask
<1>8. CallersStep'
  <2>1. ASSUME NEW n \in 1..Len(stack'), n < Len(stack'), IsBlock(stack'[n])
        PROVE  stack'[n].pc = "step" /\ stack'[n].stepped = "yes"
    <3>1. n \in 1..Len(stack) /\ IsBlock(stack[n])
      BY <1>2, <1>3, <2>1 DEF Alike, IsBlock
    <3>2. CASE n = Len(stack)
      BY <1>1, <1>4, <3>1, <3>2
    <3>3. CASE n # Len(stack)
      <4>1. n \in 1..(Len(stack) - 1) /\ n < Len(stack)
        BY <1>2, <3>1, <3>3
      <4>2. stack'[n].pc = stack[n].pc /\ stack'[n].stepped = stack[n].stepped
        BY <1>1, <3>1, <4>1 DEF SameTurns
      <4> QED BY <3>1, <4>1, <4>2 DEF StackInv, CallersStep
    <3> QED BY <3>2, <3>3
  <2> QED BY <2>1 DEF CallersStep
<1>9. \A n \in 1..Len(stack') : MayPark(stack'[n])
  <2> TAKE n \in 1..Len(stack')
  <2>1. CASE n = Len(stack) + 1
    BY <1>1, <2>1 DEF MayPark, Fresh
  <2>2. CASE n = Len(stack) /\ n \in 1..Len(stack)
    <3>1. IsBlock(stack'[n]) => IsBlock(Top)
      BY <1>3, <1>4, <2>2 DEF Alike, IsBlock
    <3> QED BY <1>1, <1>4, <2>2, <3>1 DEF MayPark
  <2>3. CASE n \in 1..Len(stack) /\ n # Len(stack)
    <3>1. IsBlock(stack[n]) => stack'[n].pc = stack[n].pc /\ stack'[n].stepped = stack[n].stepped
      BY <1>1, <1>4, <2>3 DEF SameTurns
    <3>2. MayPark(stack[n]) /\ Alike(stack[n], stack'[n])
      BY <1>3, <2>3 DEF StackInv
    <3> QED BY <3>1, <3>2 DEF MayPark, Alike, IsBlock
  <2> QED BY <1>4, <2>1, <2>2, <2>3
<1>10. UNCHANGED blocked_sessions
  BY DEF Enters
<1> QED BY <1>3, <1>6, <1>7, <1>8, <1>9, <1>10 DEF StackInv, MayPark

\* entering a block of a session,
LEMMA EntersBlockKeepsStack ==
    ASSUME StackInv, EntersBlock, UNCHANGED allow_parking
    PROVE  StackInv'
<1>1. PICK f \in Frames :
         /\ stack' = Append(stack, f)
         /\ stack # <<>> => ~IsBlock(Top)
         /\ HasSession(f) /\ Fresh(f)
         /\ blocked_sessions' = Append(blocked_sessions, f.session)
  BY DEF EntersBlock
<1>2. /\ stack' \in Seq(Frames) /\ Len(stack) \in Nat /\ Len(stack') = Len(stack) + 1
      /\ stack'[Len(stack) + 1] = f /\ \A n \in 1..Len(stack) : stack'[n] = stack[n]
  BY <1>1, AppendFacts DEF StackInv
<1>3. f.session \in Sessions
  <2>1. f \in BlockFrames
    BY <1>1, FrameFacts DEF HasSession, IsBlock
  <2> QED BY <1>1, <2>1 DEF HasSession, BlockFrames
<1> DEFINE k == Len(blocked_sessions)
<1>4. /\ blocked_sessions' \in Seq(Sessions) /\ k \in Nat /\ Len(blocked_sessions') = k + 1
      /\ blocked_sessions'[k + 1] = f.session
      /\ \A i \in 1..k : blocked_sessions'[i] = blocked_sessions[i]
  BY <1>1, <1>3, AppendFacts DEF StackInv
<1>5. PICK at \in [1..k -> 1..Len(stack)] : Blocks(at, stack, blocked_sessions)
  BY DEF StackInv, BlockedMatches
<1>6. /\ \A n \in 1..Len(stack') : n # Len(stack) + 1 => n \in 1..Len(stack)
      /\ \A n \in 1..Len(stack) : stack # <<>> /\ Top = stack[Len(stack)]
  BY <1>2 DEF StackInv, Top
<1>a. /\ \A i, j \in 1..k : i < j => at[i] < at[j]
      /\ \A i \in 1..k :
            HasSession(stack[at[i]]) /\ stack[at[i]].session = blocked_sessions[i]
      /\ \A n \in 1..Len(stack) : HasSession(stack[n]) => \E i \in 1..k : at[i] = n
  BY <1>5 DEF Blocks
<1> HIDE DEF k
<1>7. BlockedMatches'
  <2> DEFINE up == [i \in 1..(k + 1) |-> IF i = k + 1 THEN Len(stack) + 1 ELSE at[i]]
  <2>1. up \in [1..(k + 1) -> 1..(Len(stack) + 1)]
    BY <1>2, <1>4, <1>5
  <2>2. up[k + 1] = Len(stack) + 1 /\ \A i \in 1..k : up[i] = at[i] /\ at[i] \in 1..Len(stack)
    BY <1>4, <1>5
  <2> HIDE DEF up
  <2>3. \A i, j \in 1..(k + 1) : i < j => up[i] < up[j]
    <3> TAKE i, j \in 1..(k + 1)
    <3>1. CASE i \in 1..k /\ j \in 1..k
      BY <1>a, <2>2, <3>1
    <3>2. CASE i \in 1..k /\ j = k + 1
      BY <1>2, <2>2, <3>2
    <3>3. CASE i = k + 1
      BY <1>4, <3>3
    <3> QED BY <1>4, <3>1, <3>2, <3>3
  <2>4. \A i \in 1..(k + 1) :
           HasSession(stack'[up[i]]) /\ stack'[up[i]].session = blocked_sessions'[i]
    BY <1>1, <1>2, <1>4, <1>a, <2>2
  <2>5. \A n \in 1..(Len(stack) + 1) :
           HasSession(stack'[n]) => \E i \in 1..(k + 1) : up[i] = n
    <3> TAKE n \in 1..(Len(stack) + 1)
    <3>1. CASE n = Len(stack) + 1
      BY <1>4, <2>2, <3>1
    <3>2. CASE n \in 1..Len(stack)
      <4>1. SUFFICES ASSUME HasSession(stack[n])
                     PROVE  \E i \in 1..(k + 1) : up[i] = n
        BY <1>2, <3>2
      <4>2. PICK i \in 1..k : at[i] = n
        BY <1>a, <3>2, <4>1
      <4>3. k \in Nat /\ i \in 1..(k + 1)
        BY <1>4
      <4>4. up[i] = n
        BY <2>2, <4>2
      <4> QED BY <4>3, <4>4
    <3> QED BY <1>2, <1>6, <3>1, <3>2
  <2>6. Blocks(up, stack', blocked_sessions')
    BY <1>2, <1>4, <2>1, <2>3, <2>4, <2>5 DEF Blocks
  <2> QED BY <1>2, <1>4, <2>1, <2>6 DEF BlockedMatches
<1>8. BlockedIsQuiet'
  <2>1. ASSUME NEW m \in 1..Len(stack'), NEW n \in 1..Len(stack'), m < n,
               IsBlock(stack'[m]), stack'[m].session # None, IsTask(stack'[n])
        PROVE  SessionOf[stack'[n].task] # stack'[m].session
    <3>1. n \in 1..Len(stack)
      BY <1>1, <1>2, <1>6, <2>1 DEF IsTask, HasSession
    <3>2. m \in 1..Len(stack) /\ stack'[m] = stack[m] /\ stack'[n] = stack[n]
      BY <1>2, <2>1, <3>1
    <3> QED BY <2>1, <3>1, <3>2 DEF StackInv, BlockedIsQuiet, IsBlock, IsTask
  <2>2. DOMAIN stack' = 1..Len(stack')
    BY <1>2
  <2> QED BY <2>1, <2>2 DEF BlockedIsQuiet, IsBlock, IsTask
<1>9. CallersStep'
  BY <1>1, <1>2, <1>6 DEF StackInv, CallersStep
<1>10. \A n \in 1..Len(stack') : MayPark(stack'[n])
  BY <1>1, <1>2, <1>6 DEF StackInv, MayPark, Fresh
<1> QED BY <1>2, <1>4, <1>7, <1>8, <1>9, <1>10 DEF StackInv, MayPark

\* What the stack keeps when a frame goes.
LEMMA FrontKeeps ==
    ASSUME StackInv, stack # <<>>
    PROVE  /\ Len(stack) \in Nat \ {0} /\ Front(stack) \in Seq(Frames)
           /\ Len(Front(stack)) = Len(stack) - 1 /\ Top = stack[Len(stack)]
           /\ \A n \in 1..(Len(stack) - 1) : n \in 1..Len(stack) /\ Front(stack)[n] = stack[n]
           /\ \A n \in 1..Len(stack) : n # Len(stack) => n \in 1..(Len(stack) - 1)
<1>1. /\ Front(stack) \in Seq(Frames) /\ Len(stack) \in Nat \ {0}
      /\ Len(Front(stack)) = Len(stack) - 1
      /\ \A n \in 1..(Len(stack) - 1) : Front(stack)[n] = stack[n]
  BY FrontFacts DEF StackInv
<1> QED BY <1>1 DEF Top

\* The part about frames of a return.
LEMMA LessStack ==
    ASSUME StackInv, stack # <<>>, UNCHANGED allow_parking,
           Similar(Front(stack), stack'), SameTurns(stack, stack', Len(stack) - 1)
    PROVE  /\ stack' \in Seq(Frames)
           /\ BlockedIsQuiet' /\ CallersStep'
           /\ \A n \in 1..Len(stack') : MayPark(stack'[n])
<1>1. /\ stack' \in Seq(Frames) /\ Len(stack') = Len(stack) - 1 /\ Len(stack) \in Nat
      /\ \A n \in 1..Len(stack') : n \in 1..Len(stack) /\ n < Len(stack) /\ Alike(stack[n], stack'[n])
      /\ \A n \in 1..Len(stack') : n \in 1..(Len(stack) - 1)
  <2>1. /\ Len(stack) \in Nat \ {0} /\ Len(Front(stack)) = Len(stack) - 1
        /\ \A n \in 1..(Len(stack) - 1) : n \in 1..Len(stack) /\ Front(stack)[n] = stack[n]
    BY FrontKeeps
  <2>2. /\ stack' \in Seq(Frames) /\ Len(stack') = Len(stack) - 1
        /\ \A n \in 1..Len(stack') : Alike(Front(stack)[n], stack'[n])
    BY <2>1 DEF Similar
  <2> QED BY <2>1, <2>2
<1>2. BlockedIsQuiet'
  <2>1. ASSUME NEW m \in 1..Len(stack'), NEW n \in 1..Len(stack'), m < n,
               IsBlock(stack'[m]), stack'[m].session # None, IsTask(stack'[n])
        PROVE  SessionOf[stack'[n].task] # stack'[m].session
    <3>1. /\ m \in 1..Len(stack) /\ n \in 1..Len(stack) /\ stack'[n] = stack[n] /\ IsTask(stack[n])
          /\ IsBlock(stack[m]) /\ stack'[m].session = stack[m].session
      BY <1>1, <2>1 DEF Alike, IsBlock, IsTask
    <3> QED BY <2>1, <3>1 DEF StackInv, BlockedIsQuiet, IsBlock, IsTask
  <2>2. DOMAIN stack' = 1..Len(stack')
    BY <1>1
  <2> QED BY <2>1, <2>2 DEF BlockedIsQuiet, IsBlock, IsTask
<1>3. ASSUME NEW n \in 1..Len(stack')
      PROVE  /\ IsBlock(stack'[n]) => stack'[n].pc = "step" /\ stack'[n].stepped = "yes"
             /\ MayPark(stack'[n])
  <2>1. IsBlock(stack'[n]) => IsBlock(stack[n])
    BY <1>1 DEF Alike, IsBlock
  <2>2. IsBlock(stack[n]) => stack'[n].pc = stack[n].pc /\ stack'[n].stepped = stack[n].stepped
    BY <1>1 DEF SameTurns
  <2>3. IsBlock(stack[n]) => stack[n].pc = "step" /\ stack[n].stepped = "yes"
    BY <1>1 DEF StackInv, CallersStep
  <2> QED BY <2>1, <2>2, <2>3 DEF MayPark
<1> QED BY <1>1, <1>2, <1>3 DEF CallersStep

\* returning from a call or a task,
LEMMA ReturnsKeepsStack ==
    ASSUME StackInv, Returns, UNCHANGED allow_parking
    PROVE  StackInv'
<1>1. /\ stack' \in Seq(Frames) /\ BlockedIsQuiet' /\ CallersStep'
      /\ \A n \in 1..Len(stack') : MayPark(stack'[n])
  BY LessStack DEF Returns
<1>2. PICK at \in [1..Len(blocked_sessions) -> 1..Len(stack)] :
         Blocks(at, stack, blocked_sessions)
  BY DEF StackInv, BlockedMatches
<1>3. /\ Front(stack) \in Seq(Frames) /\ Len(Front(stack)) = Len(stack) - 1
      /\ Len(stack) \in Nat \ {0} /\ ~HasSession(stack[Len(stack)])
      /\ \A n \in 1..(Len(stack) - 1) : n \in 1..Len(stack) /\ Front(stack)[n] = stack[n]
      /\ \A n \in 1..Len(stack) : n # Len(stack) => n \in 1..(Len(stack) - 1)
  BY FrontKeeps DEF Returns
<1>4. \A i \in 1..Len(blocked_sessions) : at[i] \in 1..(Len(stack) - 1)
  BY <1>2, <1>3 DEF Blocks
<1>5. at \in [1..Len(blocked_sessions) -> 1..(Len(stack) - 1)]
  BY <1>2, <1>4
<1>6. Blocks(at, Front(stack), blocked_sessions)
  <2> DEFINE fr == Front(stack)
  <2> HIDE DEF fr
  <2>1. \A i \in 1..Len(blocked_sessions) :
           HasSession(fr[at[i]]) /\ fr[at[i]].session = blocked_sessions[i]
    BY <1>2, <1>3, <1>4 DEF Blocks, fr
  <2>2. \A n \in 1..(Len(stack) - 1) :
           HasSession(fr[n]) => \E i \in 1..Len(blocked_sessions) : at[i] = n
    BY <1>2, <1>3 DEF Blocks, fr
  <2>3. Len(fr) = Len(stack) - 1
    BY <1>3 DEF fr
  <2> QED BY <1>2, <1>5, <2>1, <2>2, <2>3 DEF Blocks, fr
<1>7. Blocks(at, stack', blocked_sessions) /\ Len(stack') = Len(stack) - 1
  BY <1>3, <1>6, SimilarBlocks DEF Returns, Similar
<1>8. BlockedMatches' /\ UNCHANGED blocked_sessions
  BY <1>5, <1>7 DEF BlockedMatches, Returns
<1> QED BY <1>1, <1>8 DEF StackInv, MayPark

\* and from a block of a session.
LEMMA ReturnsFromBlockKeepsStack ==
    ASSUME StackInv, ReturnsFromBlock, UNCHANGED allow_parking
    PROVE  StackInv'
<1>1. /\ Front(stack) \in Seq(Frames) /\ Len(Front(stack)) = Len(stack) - 1
      /\ Len(stack) \in Nat \ {0} /\ HasSession(stack[Len(stack)])
      /\ \A n \in 1..(Len(stack) - 1) : n \in 1..Len(stack) /\ Front(stack)[n] = stack[n]
      /\ \A n \in 1..Len(stack) : n # Len(stack) => n \in 1..(Len(stack) - 1)
      /\ stack' = Front(stack)
  BY FrontKeeps DEF ReturnsFromBlock
<1>2. Similar(Front(stack), stack') /\ SameTurns(stack, stack', Len(stack) - 1)
  BY <1>1 DEF Similar, SameTurns, Alike
<1>3. /\ stack' \in Seq(Frames) /\ BlockedIsQuiet' /\ CallersStep'
      /\ \A n \in 1..Len(stack') : MayPark(stack'[n])
  BY <1>2, LessStack DEF ReturnsFromBlock
<1> DEFINE k == Len(blocked_sessions)
<1>4. PICK at \in [1..k -> 1..Len(stack)] : Blocks(at, stack, blocked_sessions)
  BY DEF StackInv, BlockedMatches
<1>5. /\ \A i, j \in 1..k : i < j => at[i] < at[j]
      /\ \A i \in 1..k :
            HasSession(stack[at[i]]) /\ stack[at[i]].session = blocked_sessions[i]
      /\ \A n \in 1..Len(stack) : HasSession(stack[n]) => \E i \in 1..k : at[i] = n
  BY <1>4 DEF Blocks
<1>6. PICK last \in 1..k : at[last] = Len(stack)
  BY <1>1, <1>5
<1>7. k \in Nat \ {0} /\ blocked_sessions # <<>>
  BY <1>6 DEF StackInv
<1>8. last = k /\ \A i \in 1..(k - 1) : i \in 1..k /\ at[i] \in 1..(Len(stack) - 1)
  <2>1. \A i \in 1..k : at[i] \in 1..Len(stack)
    BY <1>4
  <2>2. last = k
    BY <1>5, <1>6, <1>7, <1>1, <2>1
  <2> QED BY <1>1, <1>5, <1>6, <1>7, <2>1, <2>2
<1>9. /\ blocked_sessions' \in Seq(Sessions) /\ Len(blocked_sessions') = k - 1
      /\ \A i \in 1..(k - 1) : blocked_sessions'[i] = blocked_sessions[i]
  BY <1>7, FrontFacts DEF StackInv, ReturnsFromBlock
<1> HIDE DEF k
<1>10. BlockedMatches'
  <2> DEFINE down == [i \in 1..(k - 1) |-> at[i]]
  <2>1. /\ down \in [1..(k - 1) -> 1..(Len(stack) - 1)]
        /\ \A i \in 1..(k - 1) : down[i] = at[i]
    BY <1>8
  <2> HIDE DEF down
  <2>2. \A i, j \in 1..(k - 1) : i < j => down[i] < down[j]
    BY <1>5, <1>8, <2>1
  <2>3. \A i \in 1..(k - 1) :
           HasSession(stack'[down[i]]) /\ stack'[down[i]].session = blocked_sessions'[i]
    <3> TAKE i \in 1..(k - 1)
    <3>1. i \in 1..k /\ at[i] \in 1..(Len(stack) - 1) /\ down[i] = at[i]
      BY <1>8, <2>1
    <3>2. stack'[at[i]] = stack[at[i]]
      BY <1>1, <3>1
    <3> QED BY <1>5, <1>9, <3>1, <3>2
  <2>4. \A n \in 1..(Len(stack) - 1) :
           HasSession(stack'[n]) => \E i \in 1..(k - 1) : down[i] = n
    <3> TAKE n \in 1..(Len(stack) - 1)
    <3>1. SUFFICES ASSUME HasSession(stack[n])
                   PROVE  \E i \in 1..(k - 1) : down[i] = n
      BY <1>1
    <3>2. PICK i \in 1..k : at[i] = n
      BY <1>1, <1>5, <3>1
    <3>3. i # k /\ i \in 1..(k - 1)
      BY <1>1, <1>6, <1>7, <1>8, <3>2
    <3> QED BY <2>1, <3>2, <3>3
  <2>5. Len(stack') = Len(stack) - 1
    BY <1>1
  <2>6. Blocks(down, stack', blocked_sessions')
    BY <1>9, <2>1, <2>2, <2>3, <2>4, <2>5 DEF Blocks
  <2> QED BY <1>9, <2>1, <2>5, <2>6 DEF BlockedMatches
<1> QED BY <1>3, <1>9, <1>10 DEF StackInv, MayPark

\* Every move keeps what is said of the stack.
LEMMA MovesKeepStack ==
    ASSUME StackInv, Moves, UNCHANGED allow_parking
    PROVE  StackInv'
BY StaysKeepsStack, EntersKeepsStack, EntersBlockKeepsStack, ReturnsKeepsStack,
   ReturnsFromBlockKeepsStack DEF Moves

\* The forms in which actions write these moves.
LEMMA SameStackStays ==
    ASSUME StackInv, UNCHANGED <<stack, blocked_sessions>>
    PROVE  Stays
<1>1. Similar(stack, stack) /\ SameTurns(stack, stack, Len(stack) - 1)
  BY DEF StackInv, Similar, SameTurns, Alike
<1>2. stack # <<>> => MayPark(stack[Len(stack)])
  BY FrontKeeps DEF StackInv
<1> QED BY <1>1, <1>2 DEF Stays

LEMMA SetTopStays ==
    ASSUME StackInv, stack # <<>>, NEW f \in Frames, Alike(Top, f), MayPark(f),
           SetTop(f), UNCHANGED blocked_sessions
    PROVE  Stays
<1>1. Len(stack) \in 1..Len(stack) /\ Len(stack) \in Nat
  BY FrontKeeps
<1>2. stack' = [stack EXCEPT ![Len(stack)] = f]
  BY DEF SetTop
<1>3. stack' \in Seq(Frames) /\ Len(stack') = Len(stack)
  BY <1>1, <1>2 DEF StackInv
<1>4. stack'[Len(stack)] = f /\ \A n \in 1..Len(stack) : n # Len(stack) => stack'[n] = stack[n]
  BY <1>1, <1>2 DEF StackInv
<1>5. \A n \in 1..Len(stack) : Alike(stack[n], stack'[n])
  BY <1>4 DEF Alike, Top
<1>6. SameTurns(stack, stack', Len(stack) - 1)
  BY <1>1, <1>4 DEF SameTurns
<1> QED BY <1>3, <1>4, <1>5, <1>6 DEF Stays, Similar

LEMMA PushEnters ==
    ASSUME StackInv, NEW f \in Frames, ~HasSession(f), ~IsTask(f), Fresh(f),
           stack # <<>> => ~IsBlock(Top),
           stack' = Append(stack, f), UNCHANGED blocked_sessions
    PROVE  Enters
<1>1. /\ stack' \in Seq(Frames) /\ Len(stack) \in Nat /\ Len(stack') = Len(stack) + 1
      /\ stack'[Len(stack) + 1] = f /\ \A n \in 1..Len(stack) : stack'[n] = stack[n]
  BY AppendFacts DEF StackInv
<1>2. Similar(Append(stack, f), stack')
  BY <1>1 DEF Similar, Alike
<1>3. SameTurns(stack, stack', Len(stack) - 1)
  BY <1>1 DEF SameTurns
<1> QED BY <1>1, <1>2, <1>3 DEF Enters

LEMMA PopReturns ==
    ASSUME StackInv, stack # <<>>, ~HasSession(Top), Return, UNCHANGED blocked_sessions
    PROVE  Returns
<1>1. stack' = Front(stack)
  BY DEF Return
<1>2. Similar(Front(stack), stack') /\ SameTurns(stack, stack', Len(stack) - 1)
  BY <1>1, FrontKeeps DEF Similar, SameTurns, Alike
<1> QED BY <1>2 DEF Returns

\* The end of a block is a return.
LEMMA EndBlockMoves ==
    ASSUME StackInv, stack # <<>>, IsBlock(Top), EndBlock
    PROVE  Moves
<1>1. Return /\ blocked_sessions' = IF Top.session = None THEN blocked_sessions
                                    ELSE Front(blocked_sessions)
  BY DEF EndBlock
<1>2. CASE Top.session = None
  BY <1>1, <1>2, PopReturns DEF HasSession, Moves
<1>3. CASE Top.session # None
  BY <1>1, <1>3 DEF HasSession, IsBlock, Moves, ReturnsFromBlock, Return
<1> QED BY <1>2, <1>3

\* Two similar stacks, one after the other.
LEMMA SimilarTransitive ==
    ASSUME NEW s \in Seq(Frames), NEW t, NEW u, Similar(s, t), Similar(t, u)
    PROVE  Similar(s, u)
BY DEF Similar, Alike, IsBlock, IsTask

-----------------------------------------------------------------------------
(* Every action makes one of the moves.                                    *)

Expiring == [kind |-> "expire"]

\* The frames of calls.
LEMMA CallFrameFacts ==
    /\ \A k \in {"run", "run_timers", "expire"} :
          /\ [kind |-> k] \in Frames /\ ~HasSession([kind |-> k]) /\ ~IsTask([kind |-> k])
          /\ ~IsBlock([kind |-> k]) /\ Fresh([kind |-> k])
    /\ \A now \in Nat :
          LET f == [kind |-> "advance", next_now |-> now]
          IN f \in Frames /\ ~HasSession(f) /\ ~IsTask(f) /\ ~IsBlock(f) /\ Fresh(f)
BY DEF Frames, CallFrames, HasSession, IsTask, IsBlock, Fresh

\* A step that enters a task or drops timers, from a caller that steps.
LEMMA SteppedAppendEnters ==
    ASSUME StackInv, NEW f \in Frames, ~IsBlock(f),
           stack # <<>> /\ IsBlock(Top) => Top.pc = "step",
           Similar(Append(Stepped(stack), f), stack'),
           SameTurns(Append(Stepped(stack), f), stack', Len(stack) + 1),
           IsTask(f) => \/ SessionOf[f.task] = None
                        \/ \A i \in 1..Len(blocked_sessions) :
                              blocked_sessions[i] # SessionOf[f.task],
           UNCHANGED blocked_sessions
    PROVE  Enters
<1> DEFINE st == Stepped(stack)
<1>1. /\ Similar(stack, st)
      /\ \A n \in 1..Len(stack) : IsBlock(stack[n]) =>
            /\ st[n].pc = stack[n].pc
            /\ st[n].stepped = IF n = Len(stack) THEN "yes" ELSE stack[n].stepped
  BY SteppedFacts DEF StackInv
<1> HIDE DEF st
<1>2. /\ st \in Seq(Frames) /\ Len(st) = Len(stack) /\ Len(stack) \in Nat
      /\ \A n \in 1..Len(stack) : Alike(stack[n], st[n])
  BY <1>1 DEF Similar, StackInv
<1> DEFINE up == Append(st, f)
           base == Append(stack, f)
<1>3. /\ up \in Seq(Frames) /\ Len(up) = Len(stack) + 1 /\ up[Len(stack) + 1] = f
      /\ \A n \in 1..Len(stack) : up[n] = st[n]
  BY <1>2, AppendFacts
<1>4. /\ base \in Seq(Frames) /\ Len(base) = Len(stack) + 1 /\ base[Len(stack) + 1] = f
      /\ \A n \in 1..Len(stack) : base[n] = stack[n]
  BY AppendFacts DEF StackInv
<1> HIDE DEF up, base
<1>5. Similar(base, up)
  <2> SUFFICES ASSUME NEW n \in 1..(Len(stack) + 1)
               PROVE  Alike(base[n], up[n])
    BY <1>3, <1>4 DEF Similar
  <2>1. CASE n \in 1..Len(stack)
    BY <1>2, <1>3, <1>4, <2>1
  <2>2. CASE n = Len(stack) + 1
    BY <1>3, <1>4, <2>2 DEF Alike
  <2> QED BY <1>2, <2>1, <2>2
<1>6. Similar(base, stack')
  BY <1>4, <1>5, SimilarTransitive DEF up, st
<1>7. ASSUME NEW n \in 1..Len(stack), IsBlock(stack[n])
      PROVE  /\ stack'[n].pc = stack[n].pc
             /\ stack'[n].stepped = IF n = Len(stack) THEN "yes" ELSE stack[n].stepped
  <2>1. IsBlock(st[n])
    BY <1>2, <1>7 DEF Alike, IsBlock
  <2>2. n \in 1..(Len(stack) + 1) /\ IsBlock(up[n])
    BY <1>2, <1>3, <2>1
  <2>3. stack'[n].pc = up[n].pc /\ stack'[n].stepped = up[n].stepped
    BY <2>2 DEF SameTurns, up, st
  <2> QED BY <1>1, <1>3, <1>7, <2>3
<1>8. SameTurns(stack, stack', Len(stack) - 1)
  BY <1>2, <1>7 DEF SameTurns
<1>9. stack # <<>> /\ IsBlock(Top) =>
         stack'[Len(stack)].pc = "step" /\ stack'[Len(stack)].stepped = "yes"
  <2> HAVE stack # <<>> /\ IsBlock(Top)
  <2>1. Len(stack) \in 1..Len(stack) /\ IsBlock(stack[Len(stack)]) /\ Top = stack[Len(stack)]
    BY FrontKeeps
  <2> QED BY <1>7, <2>1
<1>10. Fresh(stack'[Len(stack) + 1]) /\ ~HasSession(f)
  <2>1. Alike(f, stack'[Len(stack) + 1])
    BY <1>2, <1>4, <1>6 DEF Similar
  <2> QED BY <2>1 DEF Fresh, Alike, IsBlock, HasSession
<1>11. Similar(Append(stack, f), stack')
  BY <1>6 DEF base
<1> QED BY <1>8, <1>9, <1>10, <1>11 DEF Enters

LEMMA AwokenSame ==
    ASSUME NEW frames \in Seq(Frames), NEW target, NEW d \in Int, d <= Len(frames)
    PROVE  SameTurns(frames, Awoken(frames, target), d)
BY AwokenFacts DEF SameTurns

\* The first timer is dropped by a call that steps.
LEMMA ExpireMoves ==
    ASSUME StackInv, ExpireTimers, stack # <<>> /\ IsBlock(Top) => Top.pc = "step"
    PROVE  /\ Moves
           /\ stack # <<>> /\ IsBlock(Top) => stack'[Len(stack)].stepped = "yes"
<1> DEFINE st == Stepped(stack)
           id == Head(timers).id
<1>1. /\ stack' = Awoken(IF OthersElapsed THEN Append(st, Expiring) ELSE st, id)
      /\ UNCHANGED blocked_sessions
  BY DEF ExpireTimers, DropTimer, CallWakers, Expiring
<1>2. /\ Similar(stack, st)
      /\ \A n \in 1..Len(stack) : IsBlock(stack[n]) =>
            /\ st[n].pc = stack[n].pc
            /\ st[n].stepped = IF n = Len(stack) THEN "yes" ELSE stack[n].stepped
  BY SteppedFacts DEF StackInv
<1>3. /\ st \in Seq(Frames) /\ Len(st) = Len(stack) /\ Len(stack) \in Nat
      /\ \A n \in 1..Len(stack) : Alike(stack[n], st[n])
  BY <1>2 DEF Similar, StackInv
<1>4. Expiring \in Frames /\ ~IsTask(Expiring) /\ ~IsBlock(Expiring)
  BY CallFrameFacts DEF Expiring
<1>5. CASE OthersElapsed
  <2> DEFINE up == Append(st, Expiring)
  <2>1. up \in Seq(Frames) /\ Len(up) = Len(stack) + 1 /\ Len(stack) + 1 \in Int
    BY <1>3, <1>4, AppendFacts
  <2>2. Similar(up, Awoken(up, id)) /\ SameTurns(up, Awoken(up, id), Len(stack) + 1)
    <3> HIDE DEF up, id
    <3> QED BY <2>1, AwokenFacts, AwokenSame
  <2>3. stack' = Awoken(up, id)
    BY <1>1, <1>5
  <2>4. Enters
    BY <1>1, <1>4, <2>2, <2>3, SteppedAppendEnters
  <2>5. stack # <<>> /\ IsBlock(Top) => stack'[Len(stack)].stepped = "yes"
    BY <2>4 DEF Enters
  <2> QED BY <2>4, <2>5 DEF Moves
<1>6. CASE ~OthersElapsed
  <2>1. stack' = Awoken(st, id)
    BY <1>1, <1>6
  <2> HIDE DEF st, id
  <2>2. /\ Similar(st, stack')
        /\ \A n \in 1..Len(stack) : IsBlock(st[n]) =>
              stack'[n].pc = st[n].pc /\ stack'[n].stepped = st[n].stepped
    BY <1>3, <2>1, AwokenFacts
  <2>3. Similar(stack, stack')
    BY <1>2, <2>2, SimilarTransitive DEF StackInv
  <2>4. ASSUME NEW n \in 1..Len(stack), IsBlock(stack[n])
        PROVE  /\ stack'[n].pc = stack[n].pc
               /\ stack'[n].stepped = IF n = Len(stack) THEN "yes" ELSE stack[n].stepped
    <3>1. IsBlock(st[n])
      BY <1>3, <2>4 DEF Alike, IsBlock
    <3> QED BY <1>2, <2>2, <2>4, <3>1
  <2>5. SameTurns(stack, stack', Len(stack) - 1)
    BY <1>3, <2>4 DEF SameTurns
  <2>6. stack # <<>> => MayPark(stack'[Len(stack)])
    <3> HAVE stack # <<>>
    <3>1. Len(stack) \in 1..Len(stack) /\ Top = stack[Len(stack)]
      BY FrontKeeps
    <3>2. IsBlock(stack'[Len(stack)]) => IsBlock(Top)
      BY <2>3, <3>1 DEF Similar, Alike, IsBlock
    <3>3. IsBlock(Top) => stack'[Len(stack)].pc = Top.pc
      BY <2>4, <3>1
    <3> QED BY <3>2, <3>3 DEF MayPark
  <2>7. stack # <<>> /\ IsBlock(Top) => stack'[Len(stack)].stepped = "yes"
    BY <2>4, FrontKeeps
  <2> QED BY <1>1, <2>3, <2>5, <2>6, <2>7 DEF Moves, Stays
<1> QED BY <1>5, <1>6

\* A further one is dropped.
LEMMA DropNextMoves ==
    ASSUME StackInv, DropNext
    PROVE  Moves
<1> DEFINE fr == Front(stack)
           id == Head(timers).id
<1>1. /\ stack # <<>> /\ Top.kind = "expire"
      /\ stack' = Awoken(IF OthersElapsed THEN Append(fr, Expiring) ELSE fr, id)
      /\ UNCHANGED blocked_sessions
  BY DEF DropNext, In, DropTimer, CallWakers, Expiring
<1>2. /\ Len(stack) \in Nat \ {0} /\ fr \in Seq(Frames)
      /\ Len(fr) = Len(stack) - 1 /\ Top = stack[Len(stack)]
      /\ \A n \in 1..(Len(stack) - 1) : n \in 1..Len(stack) /\ fr[n] = stack[n]
      /\ \A n \in 1..Len(stack) : n # Len(stack) => n \in 1..(Len(stack) - 1)
  BY <1>1, FrontKeeps
<1>3. Expiring \in Frames /\ Expiring.kind = "expire"
  BY CallFrameFacts DEF Expiring
<1> HIDE DEF fr, id
<1>4. CASE OthersElapsed
  <2> DEFINE up == Append(fr, Expiring)
  <2>1. /\ up \in Seq(Frames) /\ Len(up) = Len(stack) /\ up[Len(stack)] = Expiring
        /\ \A n \in 1..(Len(stack) - 1) : up[n] = stack[n]
    BY <1>2, <1>3, AppendFacts
  <2>2. stack' = Awoken(up, id)
    BY <1>1, <1>4
  <2> HIDE DEF up
  <2>3. Similar(up, stack') /\ SameTurns(up, stack', Len(stack) - 1)
    BY <1>2, <2>1, <2>2, AwokenFacts, AwokenSame
  <2>4. \A n \in 1..Len(stack) : Alike(stack[n], up[n])
    BY <1>1, <1>2, <1>3, <2>1 DEF Alike, IsTask, IsBlock
  <2>5. Similar(stack, stack')
    <3>1. Similar(stack, up)
      BY <2>1, <2>4 DEF Similar
    <3> QED BY <2>3, <3>1, SimilarTransitive DEF StackInv
  <2>6. SameTurns(stack, stack', Len(stack) - 1)
    BY <2>1, <2>3 DEF SameTurns
  <2>7. MayPark(stack'[Len(stack)])
    BY <1>1, <1>2, <2>5 DEF Similar, Alike, MayPark, IsBlock
  <2> QED BY <1>1, <2>5, <2>6, <2>7 DEF Moves, Stays
<1>5. CASE ~OthersElapsed
  <2>1. stack' = Awoken(fr, id)
    BY <1>1, <1>5
  <2>2. Similar(fr, stack') /\ SameTurns(fr, stack', Len(stack) - 1)
    BY <1>2, <2>1, AwokenFacts, AwokenSame
  <2>3. SameTurns(stack, stack', Len(stack) - 1)
    BY <1>2, <2>2 DEF SameTurns
  <2>4. ~HasSession(Top)
    BY <1>1 DEF HasSession
  <2> QED BY <1>1, <2>2, <2>3, <2>4 DEF Moves, Returns, fr
<1> QED BY <1>4, <1>5

\* A task that ends returns, and wakes who waits for it.
LEMMA FinishMoves ==
    ASSUME StackInv, Finish
    PROVE  Moves
<1> DEFINE fr == Front(stack)
           id == Top.task
<1>1. stack # <<>> /\ Top.kind = "task" /\ stack' = Awoken(fr, id) /\ UNCHANGED blocked_sessions
  BY DEF Finish, InTask, CallWakers
<1>2. /\ Len(stack) \in Nat \ {0} /\ fr \in Seq(Frames) /\ Len(fr) = Len(stack) - 1
      /\ \A n \in 1..(Len(stack) - 1) : n \in 1..Len(stack) /\ fr[n] = stack[n]
  BY <1>1, FrontKeeps
<1> HIDE DEF fr, id
<1>3. Similar(fr, stack') /\ SameTurns(fr, stack', Len(stack) - 1)
  BY <1>1, <1>2, AwokenFacts, AwokenSame
<1>4. SameTurns(stack, stack', Len(stack) - 1)
  BY <1>2, <1>3 DEF SameTurns
<1>5. ~HasSession(Top)
  BY <1>1 DEF HasSession
<1> QED BY <1>1, <1>3, <1>4, <1>5 DEF Moves, Returns, fr

\* A task that a step runs is of no blocked session.
LEMMA RunCandidateMoves ==
    ASSUME SchedulerTypeOK, StackInv, NEW background_only, RunCandidate(background_only),
           stack # <<>> /\ IsBlock(Top) => Top.pc = "step"
    PROVE  Moves
<1>1. PICK n \in Candidates(background_only) :
         /\ stack' = Append(Stepped(stack), [kind |-> "task", task |-> runnables[n],
                                             was |-> is_main_thread])
         /\ UNCHANGED blocked_sessions
  BY DEF RunCandidate
<1> DEFINE f == [kind |-> "task", task |-> runnables[n], was |-> is_main_thread]
<1>2. n \in 1..Len(runnables) /\ runnables[n] \in Tasks /\ is_main_thread \in BOOLEAN
  BY DEF Candidates, SchedulerTypeOK
<1>3. f \in Frames /\ ~IsBlock(f) /\ f.task = runnables[n]
  BY <1>2 DEF Frames, TaskFrames, IsBlock
<1>4. \/ SessionOf[runnables[n]] = None
      \/ SessionOf[runnables[n]] \notin ToSet(blocked_sessions)
  BY DEF Candidates
<1>5. \A i \in 1..Len(blocked_sessions) : blocked_sessions[i] \in ToSet(blocked_sessions)
  BY DEF ToSet, StackInv
<1>6. Stepped(stack) \in Seq(Frames) /\ Len(Stepped(stack)) = Len(stack) /\ Len(stack) \in Nat
  BY SteppedFacts DEF StackInv, Similar
<1>7. stack' = Append(Stepped(stack), f)
  BY <1>1
<1> HIDE DEF f
<1>8. stack' \in Seq(Frames)
  BY <1>3, <1>6, <1>7, AppendFacts
<1>9. /\ Similar(Append(Stepped(stack), f), stack')
      /\ SameTurns(Append(Stepped(stack), f), stack', Len(stack) + 1)
  BY <1>7, <1>8 DEF Similar, Alike, SameTurns
<1>10. Enters
  BY <1>1, <1>3, <1>4, <1>5, <1>9, SteppedAppendEnters
<1> QED BY <1>10 DEF Moves

\* A block enters, with or without a session.
LEMMA BlockMoves ==
    ASSUME SchedulerTypeOK, StackInv, NEW session \in Sessions \cup {None},
           NEW target \in Targets, NEW timed \in BOOLEAN, Block(session, target, timed)
    PROVE  Moves
<1> DEFINE f == [kind |-> "block", session |-> session, target |-> target, timed |-> timed,
                 pc |-> "poll", stepped |-> "not tried", awoken |-> FALSE]
<1>1. /\ stack' = Append(stack, f)
      /\ blocked_sessions' = IF session = None THEN blocked_sessions
                             ELSE Append(blocked_sessions, session)
      /\ stack # <<>> => Top.kind = "task"
  BY DEF Block, Push, InCode
<1>2. target \in Tasks \cup Nat \cup {External}
  BY DEF Targets, SchedulerTypeOK
<1>3. f \in BlockFrames
  BY <1>2 DEF BlockFrames
<1>4. f \in Frames /\ IsBlock(f) /\ ~IsTask(f) /\ f.session = session /\ Fresh(f)
  BY <1>3 DEF Frames, IsBlock, IsTask, Fresh
<1>5. stack # <<>> => ~IsBlock(Top)
  BY <1>1 DEF IsBlock
<1> HIDE DEF f
<1>6. CASE session = None
  <2>1. ~HasSession(f) /\ Fresh(f)
    BY <1>4, <1>6 DEF HasSession, Fresh
  <2> QED BY <1>1, <1>4, <1>5, <1>6, <2>1, PushEnters DEF Moves
<1>7. CASE session # None
  <2>1. HasSession(f)
    BY <1>4, <1>7 DEF HasSession, IsBlock
  <2> QED BY <1>1, <1>4, <1>5, <1>7, <2>1 DEF Moves, EntersBlock
<1> QED BY <1>6, <1>7

\* A turn: the innermost block goes on to pc.
TurnsTo(pc, stepped) ==
    \E g \in BlockFrames : SetTop(g) /\ Alike(Top, g) /\ g.pc = pc /\ g.stepped = stepped

\* What a turn leaves of the innermost block.
LEMMA TurnStays ==
    ASSUME StackInv, stack # <<>>, UNCHANGED blocked_sessions,
           NEW pc, NEW stepped, pc = "parked" => allow_parking /\ stepped = "no",
           TurnsTo(pc, stepped)
    PROVE  /\ Stays
           /\ Len(stack') = Len(stack) /\ stack' # <<>> /\ Top' \in BlockFrames
           /\ Top'.pc = pc /\ Top'.stepped = stepped /\ Alike(Top, Top')
<1>1. PICK g \in BlockFrames : SetTop(g) /\ Alike(Top, g) /\ g.pc = pc /\ g.stepped = stepped
  BY DEF TurnsTo
<1>2. g \in Frames /\ MayPark(g)
  BY <1>1 DEF Frames, MayPark
<1>3. Stays
  BY <1>1, <1>2, SetTopStays
<1>4. Len(stack) \in Nat \ {0} /\ Len(stack) \in 1..Len(stack)
  BY FrontKeeps
<1>5. Len(stack') = Len(stack) /\ stack'[Len(stack)] = g
  BY <1>1, <1>4 DEF SetTop, StackInv
<1>6. stack' \in Seq(Frames)
  BY <1>3 DEF Stays, Similar
<1>7. stack' # <<>> /\ Top' = g
  BY <1>4, <1>5, <1>6 DEF Top
<1> QED BY <1>1, <1>3, <1>5, <1>7

\* The turns the actions of a block take.
LEMMA TurnForms ==
    ASSUME StackInv, stack # <<>>, IsBlock(Top)
    PROVE  /\ SetTop([Top EXCEPT !.pc = "step"]) => TurnsTo("step", Top.stepped)
           /\ SetTop([Top EXCEPT !.pc = "check"]) => TurnsTo("check", Top.stepped)
           /\ SetTop([Top EXCEPT !.pc = "check",
                                 !.stepped = IF @ = "not tried" THEN "no" ELSE @]) =>
                 TurnsTo("check", IF Top.stepped = "not tried" THEN "no" ELSE Top.stepped)
           /\ SetTop(Again) => TurnsTo("poll", "not tried")
           /\ SetTop([Top EXCEPT !.pc = "parked", !.awoken = FALSE]) =>
                 TurnsTo("parked", Top.stepped)
           /\ SetTop([Again EXCEPT !.awoken = Top.awoken]) => TurnsTo("poll", "not tried")
           /\ Top \in BlockFrames
<1>1. Top \in BlockFrames
  BY FrontKeeps, FrameFacts DEF StackInv
<1>2. ASSUME NEW f \in BlockFrames, NEW g \in BlockFrames, g.session = f.session,
             g.target = f.target, g.timed = f.timed
      PROVE  Alike(f, g)
  BY <1>2 DEF BlockFrames, Alike, IsTask, IsBlock
<1>3. ASSUME NEW f \in BlockFrames, NEW pc \in {"step", "check"}
      PROVE  \A g : g = [f EXCEPT !.pc = pc] =>
                    /\ g \in BlockFrames /\ Alike(f, g) /\ g.pc = pc
                    /\ g.stepped = f.stepped
  <2>1. ASSUME NEW g, g = [f EXCEPT !.pc = pc]
        PROVE  /\ g \in BlockFrames /\ g.pc = pc
               /\ g.stepped = f.stepped
               /\ g.session = f.session /\ g.target = f.target /\ g.timed = f.timed
    BY <2>1 DEF BlockFrames
  <2> QED BY <1>2, <2>1
<1>4. ASSUME NEW f \in BlockFrames
      PROVE  \A g : g = [f EXCEPT !.pc = "check", !.stepped = IF @ = "not tried" THEN "no" ELSE @] =>
                    /\ g \in BlockFrames /\ Alike(f, g) /\ g.pc = "check"
                    /\ g.stepped = IF f.stepped = "not tried" THEN "no" ELSE f.stepped
  <2>1. ASSUME NEW g, g = [f EXCEPT !.pc = "check", !.stepped = IF @ = "not tried" THEN "no" ELSE @]
        PROVE  /\ g \in BlockFrames /\ g.pc = "check"
               /\ g.stepped = IF f.stepped = "not tried" THEN "no" ELSE f.stepped
               /\ g.session = f.session /\ g.target = f.target /\ g.timed = f.timed
    BY <2>1 DEF BlockFrames
  <2> QED BY <1>2, <2>1
<1>5. ASSUME NEW f \in BlockFrames
      PROVE  \A g : g = [f EXCEPT !.pc = "parked", !.awoken = FALSE] =>
                    /\ g \in BlockFrames /\ Alike(f, g) /\ g.pc = "parked"
                    /\ g.stepped = f.stepped
  <2>1. ASSUME NEW g, g = [f EXCEPT !.pc = "parked", !.awoken = FALSE]
        PROVE  /\ g \in BlockFrames /\ g.pc = "parked"
               /\ g.stepped = f.stepped
               /\ g.session = f.session /\ g.target = f.target /\ g.timed = f.timed
    BY <2>1 DEF BlockFrames
  <2> QED BY <1>2, <2>1
<1>6. ASSUME NEW f \in BlockFrames
      PROVE  \A g : g = [f EXCEPT !.pc = "poll", !.stepped = "not tried", !.awoken = FALSE] =>
                    /\ g \in BlockFrames /\ Alike(f, g) /\ g.pc = "poll"
                    /\ g.stepped = "not tried"
  <2>1. ASSUME NEW g, g = [f EXCEPT !.pc = "poll", !.stepped = "not tried", !.awoken = FALSE]
        PROVE  /\ g \in BlockFrames /\ g.pc = "poll"
               /\ g.stepped = "not tried"
               /\ g.session = f.session /\ g.target = f.target /\ g.timed = f.timed
    BY <2>1 DEF BlockFrames
  <2> QED BY <1>2, <2>1
<1>7. ASSUME NEW f \in BlockFrames
      PROVE  \A g : g = [[f EXCEPT !.pc = "poll", !.stepped = "not tried", !.awoken = FALSE]
                            EXCEPT !.awoken = f.awoken] =>
                    /\ g \in BlockFrames /\ Alike(f, g) /\ g.pc = "poll"
                    /\ g.stepped = "not tried"
  <2>1. ASSUME NEW g, g = [[f EXCEPT !.pc = "poll", !.stepped = "not tried", !.awoken = FALSE]
                            EXCEPT !.awoken = f.awoken]
        PROVE  /\ g \in BlockFrames /\ g.pc = "poll"
               /\ g.stepped = "not tried"
               /\ g.session = f.session /\ g.target = f.target /\ g.timed = f.timed
    BY <2>1 DEF BlockFrames
  <2> QED BY <1>2, <2>1
<1>8. SetTop([Top EXCEPT !.pc = "step"]) => TurnsTo("step", Top.stepped)
  BY <1>1, <1>3, Zenon DEF TurnsTo
<1>9. SetTop([Top EXCEPT !.pc = "check"]) => TurnsTo("check", Top.stepped)
  BY <1>1, <1>3, Zenon DEF TurnsTo
<1>10. SetTop([Top EXCEPT !.pc = "check", !.stepped = IF @ = "not tried" THEN "no" ELSE @]) =>
         TurnsTo("check", IF Top.stepped = "not tried" THEN "no" ELSE Top.stepped)
  BY <1>1, <1>4, Zenon DEF TurnsTo
<1>11. SetTop(Again) => TurnsTo("poll", "not tried")
  BY <1>1, <1>6, Zenon DEF TurnsTo, Again
<1>12. SetTop([Top EXCEPT !.pc = "parked", !.awoken = FALSE]) => TurnsTo("parked", Top.stepped)
  BY <1>1, <1>5, Zenon DEF TurnsTo
<1>13. SetTop([Again EXCEPT !.awoken = Top.awoken]) => TurnsTo("poll", "not tried")
  BY <1>1, <1>7, Zenon DEF TurnsTo, Again
<1> QED BY <1>1, <1>8, <1>9, <1>10, <1>11, <1>12, <1>13

\* Whatever the scheduler does, the stack makes one of the five moves.
LEMMA NextMoves ==
    ASSUME SchedulerTypeOK, StackInv, SchedulerNext
    PROVE  Moves /\ UNCHANGED allow_parking
<1>1. UNCHANGED <<stack, blocked_sessions>> => Moves
  BY SameStackStays DEF Moves
<1>2. stack # <<>> /\ ~HasSession(Top) /\ Return /\ UNCHANGED blocked_sessions => Moves
  BY PopReturns DEF Moves
<1>3. stack # <<>> /\ IsBlock(Top) /\ EndBlock => Moves
  BY EndBlockMoves
<1>4. ASSUME stack # <<>>, UNCHANGED blocked_sessions, NEW pc, NEW stepped, TurnsTo(pc, stepped),
             pc = "parked" => allow_parking /\ stepped = "no"
      PROVE  Moves
  BY <1>4, TurnStays DEF Moves
<1>5. ASSUME NEW t \in Tasks, Spawn(t) PROVE Moves /\ UNCHANGED allow_parking
  BY <1>1, <1>5 DEF Spawn, Unmoved
<1>6. ASSUME NEW d \in Durations, MakeTimer(d) PROVE Moves /\ UNCHANGED allow_parking
  BY <1>1, <1>6 DEF MakeTimer, Unmoved
<1>7. ASSUME NEW target \in Targets, Await(target) PROVE Moves /\ UNCHANGED allow_parking
  BY <1>2, <1>7 DEF Await, InTask, Unmoved, HasSession
<1>8. ASSUME YieldNow PROVE Moves /\ UNCHANGED allow_parking
  BY <1>2, <1>8 DEF YieldNow, InTask, Unmoved, HasSession
<1>9. ASSUME Finish PROVE Moves /\ UNCHANGED allow_parking
  BY <1>9, FinishMoves DEF Finish, Unmoved
<1>10. ASSUME NEW s \in Sessions \cup {None}, NEW target \in Targets, NEW timed \in BOOLEAN,
              Block(s, target, timed)
       PROVE  Moves /\ UNCHANGED allow_parking
  BY <1>10, BlockMoves DEF Block, Unmoved
<1>11. ASSUME NEW f \in Frames, ~HasSession(f), ~IsTask(f), Fresh(f), Call(f)
       PROVE  Moves /\ UNCHANGED allow_parking
  BY <1>11, PushEnters DEF Call, Push, Unmoved, Moves
<1>12. ASSUME NEW k \in {"run", "run_timers"}, Call([kind |-> k])
       PROVE  Moves /\ UNCHANGED allow_parking
  BY <1>11, <1>12, CallFrameFacts
<1>13. ASSUME NEW d \in Durations, Call([kind |-> "advance", next_now |-> clock + d])
       PROVE  Moves /\ UNCHANGED allow_parking
  <2>1. clock + d \in Nat
    BY DurationAssumption DEF SchedulerTypeOK
  <2> QED BY <1>11, <1>13, <2>1, CallFrameFacts
<1>14. ASSUME NEW background_only \in BOOLEAN, Tick(background_only)
       PROVE  Moves /\ UNCHANGED allow_parking
  <2>1. UNCHANGED allow_parking
    BY <1>14 DEF Tick, ExpireTimers, DropTimer, RunCandidate, Unmoved
  <2> QED BY <1>14, <2>1, ExpireMoves, RunCandidateMoves DEF Tick
<1>15. ASSUME AdvanceToNextTimer PROVE Moves /\ UNCHANGED allow_parking
  BY <1>1, <1>15 DEF AdvanceToNextTimer, Unmoved
<1>16. Stepping => (stack # <<>> /\ IsBlock(Top) => Top.pc = "step")
  BY DEF Stepping, In, IsBlock
<1>17. ASSUME StepExpires PROVE Moves /\ UNCHANGED allow_parking
  BY <1>16, <1>17, ExpireMoves DEF StepExpires, ExpireTimers, DropTimer, Unmoved
<1>18. ASSUME DropNext PROVE Moves /\ UNCHANGED allow_parking
  BY <1>18, DropNextMoves DEF DropNext, DropTimer, Unmoved
<1>19. ASSUME StepRuns PROVE Moves /\ UNCHANGED allow_parking
  BY <1>16, <1>19, RunCandidateMoves DEF StepRuns, RunCandidate, Unmoved
<1>20. ASSUME RunEnds PROVE Moves /\ UNCHANGED allow_parking
  <2>1. stack # <<>> /\ ~HasSession(Top) /\ UNCHANGED blocked_sessions /\ UNCHANGED allow_parking
    BY <1>20 DEF RunEnds, In, HasSession, Unmoved
  <2>2. UNCHANGED stack \/ Return
    BY <1>20 DEF RunEnds
  <2> QED BY <1>1, <1>2, <2>1, <2>2
<1>21. ASSUME AdvanceClock PROVE Moves /\ UNCHANGED allow_parking
  <2>1. stack # <<>> /\ ~HasSession(Top) /\ UNCHANGED blocked_sessions /\ UNCHANGED allow_parking
    BY <1>21 DEF AdvanceClock, In, HasSession, Unmoved
  <2>2. UNCHANGED stack \/ Return
    BY <1>21 DEF AdvanceClock
  <2> QED BY <1>1, <1>2, <2>1, <2>2
<1>22. In("block") => stack # <<>> /\ IsBlock(Top)
  BY DEF In, IsBlock
<1>23. ASSUME BlockPoll PROVE Moves /\ UNCHANGED allow_parking
  <2>1. stack # <<>> /\ IsBlock(Top) /\ UNCHANGED allow_parking
    BY <1>22, <1>23 DEF BlockPoll, Unmoved
  <2>2. \/ EndBlock
        \/ SetTop([Top EXCEPT !.pc = "step"]) /\ UNCHANGED blocked_sessions
    BY <1>23 DEF BlockPoll
  <2>3. \/ EndBlock
        \/ TurnsTo("step", Top.stepped) /\ UNCHANGED blocked_sessions
    BY <2>1, <2>2, TurnForms
  <2> QED BY <1>3, <1>4, <2>1, <2>3
<1>24. ASSUME BlockOutOfTicks PROVE Moves /\ UNCHANGED allow_parking
  BY <1>3, <1>22, <1>24 DEF BlockOutOfTicks, Unmoved
<1>25. ASSUME BlockStopsStepping PROVE Moves /\ UNCHANGED allow_parking
  <2>1. stack # <<>> /\ IsBlock(Top) /\ UNCHANGED <<allow_parking, blocked_sessions>>
    BY <1>22, <1>25 DEF BlockStopsStepping, Unmoved
  <2>2. \/ TurnsTo("check", Top.stepped)
        \/ TurnsTo("check", IF Top.stepped = "not tried" THEN "no" ELSE Top.stepped)
    BY <1>25, <2>1, TurnForms DEF BlockStopsStepping
  <2> QED BY <1>4, <2>1, <2>2
<1>26. ASSUME BlockCheck PROVE Moves /\ UNCHANGED allow_parking
  <2>1. stack # <<>> /\ IsBlock(Top) /\ UNCHANGED allow_parking
    BY <1>22, <1>26 DEF BlockCheck
  <2>2. CASE SetTop(Again) /\ UNCHANGED blocked_sessions
    <3>1. TurnsTo("poll", "not tried")
      BY <2>1, <2>2, TurnForms
    <3> QED BY <1>4, <2>1, <2>2, <3>1
  <2>3. CASE /\ SetTop([Top EXCEPT !.pc = "parked", !.awoken = FALSE])
             /\ UNCHANGED blocked_sessions /\ allow_parking /\ ~MakesProgress
    <3>1. TurnsTo("parked", Top.stepped) /\ Top.stepped = "no"
      BY <2>1, <2>3, TurnForms DEF MakesProgress
    <3> QED BY <1>4, <2>1, <2>3, <3>1
  <2>4. CASE EndBlock
    BY <1>3, <2>1, <2>4
  <2>5. CASE UNCHANGED <<stack, blocked_sessions>>
    BY <1>1, <2>1, <2>5
  <2> QED BY <1>26, <2>2, <2>3, <2>4, <2>5 DEF BlockCheck
<1>27. ASSUME ParkReturns PROVE Moves /\ UNCHANGED allow_parking
  <2>1. stack # <<>> /\ IsBlock(Top) /\ UNCHANGED <<allow_parking, blocked_sessions>>
    BY <1>22, <1>27 DEF ParkReturns, Unmoved
  <2>2. TurnsTo("poll", "not tried")
    BY <1>27, <2>1, TurnForms DEF ParkReturns
  <2> QED BY <1>4, <2>1, <2>2
<1>28. ASSUME ParkTimePasses PROVE Moves /\ UNCHANGED allow_parking
  BY <1>1, <1>28 DEF ParkTimePasses, Unmoved
<1>29. ASSUME ParkDeadline PROVE Moves /\ UNCHANGED allow_parking
  <2>1. stack # <<>> /\ IsBlock(Top) /\ UNCHANGED allow_parking
    BY <1>22, <1>29 DEF ParkDeadline
  <2> QED BY <1>1, <1>3, <1>29, <2>1 DEF ParkDeadline
<1>30. ASSUME NEW target, stack' = Awoken(stack, target), UNCHANGED blocked_sessions
       PROVE  Moves
  <2>1. /\ Similar(stack, stack') /\ Len(stack) \in Nat
        /\ \A n \in 1..Len(stack) : IsBlock(stack[n]) =>
              stack'[n].pc = stack[n].pc /\ stack'[n].stepped = stack[n].stepped
    BY <1>30, AwokenFacts DEF StackInv
  <2>2. SameTurns(stack, stack', Len(stack) - 1)
    BY <2>1 DEF SameTurns
  <2>3. stack # <<>> => MayPark(stack'[Len(stack)])
    <3> HAVE stack # <<>>
    <3>1. Len(stack) \in 1..Len(stack)
      BY FrontKeeps
    <3>2. MayPark(stack[Len(stack)]) /\ Alike(stack[Len(stack)], stack'[Len(stack)])
      BY <2>1, <3>1 DEF StackInv, Similar
    <3> QED BY <2>1, <3>1, <3>2 DEF MayPark, Alike, IsBlock
  <2> QED BY <1>30, <2>1, <2>2, <2>3 DEF Moves, Stays
<1>31. ASSUME ExternalCompletes PROVE Moves /\ UNCHANGED allow_parking
  BY <1>1, <1>31 DEF ExternalCompletes, Elsewhere
<1>32. ASSUME ExternalWakes PROVE Moves /\ UNCHANGED allow_parking
  <2>1. UNCHANGED <<allow_parking, blocked_sessions>>
    BY <1>32 DEF ExternalWakes, Elsewhere
  <2>2. UNCHANGED stack \/ stack' = Awoken(stack, External)
    BY <1>32 DEF ExternalWakes, CallWakers
  <2> QED BY <1>1, <1>30, <2>1, <2>2
<1>33. ASSUME ExternalSetsAwoken PROVE Moves /\ UNCHANGED allow_parking
  BY <1>30, <1>33 DEF ExternalSetsAwoken, Elsewhere
<1> QED BY <1>5, <1>6, <1>7, <1>8, <1>9, <1>10, <1>12, <1>13, <1>14, <1>15, <1>17, <1>18,
           <1>19, <1>20, <1>21, <1>23, <1>24, <1>25, <1>26, <1>27, <1>28, <1>29, <1>31, <1>32,
           <1>33 DEF SchedulerNext

-----------------------------------------------------------------------------
(* What a step does to the queue is one of three things.                   *)

SameQueue ==
    /\ UNCHANGED <<runnables, earlier>>
    /\ \A x \in Tasks : task'[x] = "queued" <=> task[x] = "queued"
Adds(t) ==
    /\ Schedule(t)
    /\ task[t] # "queued"
    /\ \A x \in Tasks : task'[x] = "queued" <=> task[x] = "queued" \/ x = t
Removes(n) ==
    /\ runnables' = RemoveAt(runnables, n)
    /\ earlier' = {p \in earlier : runnables[n] \notin {p[1], p[2]}}
    /\ \A x \in Tasks : task'[x] = "queued" <=> task[x] = "queued" /\ x # runnables[n]

\* A step that leaves the queue alone.
LEMMA SameQueueKeeps ==
    ASSUME runnables \in Seq(Tasks), RunnablesInv, SameQueue
    PROVE  RunnablesInv' /\ runnables' \in Seq(Tasks)
<1>1. Queued' = Queued
  BY DEF Queued, SameQueue
<1>2. runnables' = runnables /\ earlier' = earlier
  BY DEF SameQueue
<1>3. \A n \in 1..Len(runnables) : runnables[n] \in Tasks
  OBVIOUS
<1>4. \A n \in 1..Len(runnables) : task'[runnables[n]] = "queued"
  BY <1>3 DEF RunnablesInv, SameQueue
<1> QED BY <1>1, <1>2, <1>4 DEF RunnablesInv, SessionInOrder

\* A task that is scheduled goes behind those of its session.
LEMMA AddsKeeps ==
    ASSUME runnables \in Seq(Tasks), RunnablesInv, NEW t \in Tasks, Adds(t)
    PROVE  RunnablesInv' /\ runnables' \in Seq(Tasks)
<1>1. PICK ix \in 1..(Len(runnables) + 1) :
         MayInsert(t, ix) /\ runnables' = InsertAt(runnables, ix, t)
  BY DEF Adds, Schedule
<1>2. /\ runnables' \in Seq(Tasks)
      /\ Len(runnables') = Len(runnables) + 1 /\ Len(runnables) \in Nat
      /\ \A n \in 1..(Len(runnables) + 1) :
            runnables'[n] = IF n < ix THEN runnables[n]
                            ELSE IF n = ix THEN t ELSE runnables[n - 1]
  <2>1. Inserted(InsertAt(runnables, ix, t), Tasks, runnables, ix, t)
    BY InsertFacts, Zenon
  <2>2. Len(runnables) \in Nat
    OBVIOUS
  <2> QED BY <1>1, <2>1, <2>2 DEF Inserted
\* Where an element was.
<1> DEFINE old(n) == IF n < ix THEN n ELSE n - 1
<1>3. ASSUME NEW n \in 1..Len(runnables')
      PROVE  \/ n = ix /\ runnables'[n] = t
             \/ n # ix /\ old(n) \in 1..Len(runnables) /\ runnables'[n] = runnables[old(n)]
  BY <1>1, <1>2
<1>4. \A m, n \in 1..Len(runnables') : m # ix /\ n # ix =>
         (old(m) < old(n) <=> m < n) /\ (old(m) = old(n) <=> m = n)
  BY <1>1, <1>2
<1> HIDE DEF old
<1>5. \A n \in 1..Len(runnables) : runnables[n] # t /\ runnables[n] \in Tasks
  BY DEF RunnablesInv, Adds
<1>6. \A n \in 1..Len(runnables') : task'[runnables'[n]] = "queued"
  <2> TAKE n \in 1..Len(runnables')
  <2>1. CASE runnables'[n] = t
    BY <2>1 DEF Adds
  <2>2. CASE old(n) \in 1..Len(runnables) /\ runnables'[n] = runnables[old(n)]
    <3>1. task[runnables[old(n)]] = "queued"
      BY <2>2 DEF RunnablesInv
    <3> QED BY <1>5, <2>2, <3>1 DEF Adds
  <2> QED BY <1>3, <2>1, <2>2
<1>7. \A m, n \in 1..Len(runnables') : runnables'[m] = runnables'[n] => m = n
  <2> TAKE m, n \in 1..Len(runnables')
  <2> HAVE runnables'[m] = runnables'[n]
  <2>1. CASE m = ix \/ n = ix
    BY <1>3, <1>5, <2>1
  <2>2. CASE m # ix /\ n # ix
    <3>1. /\ old(m) \in 1..Len(runnables) /\ runnables'[m] = runnables[old(m)]
          /\ old(n) \in 1..Len(runnables) /\ runnables'[n] = runnables[old(n)]
      BY <1>3, <2>2
    <3>2. old(m) = old(n)
      BY <3>1 DEF RunnablesInv
    <3> QED BY <1>4, <2>2, <3>2
  <2> QED BY <2>1, <2>2
<1>8. earlier' = earlier \cup (Queued \X {t}) /\ Queued' = Queued \cup {t} /\ t \notin Queued
  BY DEF Adds, Schedule, Queued
<1>9. earlier' \subseteq Queued' \X Queued'
  BY <1>8 DEF RunnablesInv
<1>10. SessionInOrder'
  <2> SUFFICES ASSUME NEW m \in 1..Len(runnables'), NEW n \in 1..Len(runnables'),
                      <<runnables'[m], runnables'[n]>> \in earlier',
                      SessionOf[runnables'[m]] # None,
                      SessionOf[runnables'[m]] = SessionOf[runnables'[n]]
               PROVE  m < n
    BY <1>2 DEF SessionInOrder
  <2>1. runnables'[m] # t
    BY <1>8 DEF RunnablesInv
  <2>2. m # ix /\ old(m) \in 1..Len(runnables) /\ runnables'[m] = runnables[old(m)]
    BY <1>3, <2>1
  <2>3. CASE n = ix
    <3>1. SessionOf[runnables[old(m)]] = SessionOf[t] /\ SessionOf[t] # None
      BY <1>3, <2>2, <2>3
    <3>2. old(m) < ix
      BY <1>1, <1>2, <2>2, <3>1 DEF MayInsert
    <3> QED BY <1>1, <1>2, <2>2, <2>3, <3>2 DEF old
  <2>4. CASE n # ix
    <3>1. old(n) \in 1..Len(runnables) /\ runnables'[n] = runnables[old(n)]
      BY <1>3, <2>4
    <3>2. <<runnables[old(m)], runnables[old(n)]>> \in earlier
      BY <1>5, <1>8, <2>2, <3>1
    <3>3. DOMAIN runnables = 1..Len(runnables)
      OBVIOUS
    <3>4. old(m) < old(n)
      BY <2>2, <3>1, <3>2, <3>3 DEF RunnablesInv, SessionInOrder
    <3> QED BY <1>4, <2>2, <2>4, <3>4
  <2> QED BY <2>3, <2>4
<1> QED BY <1>2, <1>6, <1>7, <1>9, <1>10 DEF RunnablesInv

\* Taking a task out leaves the others in order.
LEMMA RemovesKeeps ==
    ASSUME runnables \in Seq(Tasks), RunnablesInv, NEW k \in 1..Len(runnables), Removes(k)
    PROVE  RunnablesInv' /\ runnables' \in Seq(Tasks)
<1>1. /\ runnables' \in Seq(Tasks)
      /\ Len(runnables') = Len(runnables) - 1 /\ Len(runnables) \in Nat
      /\ \A n \in 1..(Len(runnables) - 1) :
            runnables'[n] = IF n < k THEN runnables[n] ELSE runnables[n + 1]
  <2>1. runnables' = RemoveAt(runnables, k)
    BY DEF Removes
  <2>2. /\ RemoveAt(runnables, k) \in Seq(Tasks)
        /\ Len(RemoveAt(runnables, k)) = Len(runnables) - 1
        /\ \A n \in 1..(Len(runnables) - 1) :
              RemoveAt(runnables, k)[n] = IF n < k THEN runnables[n] ELSE runnables[n + 1]
    BY RemoveFacts
  <2>3. Len(runnables) \in Nat
    OBVIOUS
  <2> QED BY <2>1, <2>2, <2>3, Zenon
<1> DEFINE old(n) == IF n < k THEN n ELSE n + 1
<1>2. ASSUME NEW n \in 1..Len(runnables')
      PROVE  /\ old(n) \in 1..Len(runnables) /\ old(n) # k
             /\ runnables'[n] = runnables[old(n)]
  BY <1>1
<1>3. \A m, n \in 1..Len(runnables') :
         (old(m) < old(n) => m < n) /\ (old(m) = old(n) => m = n)
  <2> TAKE m, n \in 1..Len(runnables')
  <2> QED BY <1>1
<1> HIDE DEF old
<1>4. \A n \in 1..Len(runnables) : runnables[n] \in Tasks
  OBVIOUS
<1>5. \A n \in 1..Len(runnables') : task'[runnables'[n]] = "queued"
  <2> TAKE n \in 1..Len(runnables')
  <2>1. runnables[old(n)] # runnables[k]
    BY <1>2 DEF RunnablesInv
  <2> QED BY <1>2, <1>4, <2>1 DEF RunnablesInv, Removes
<1>6. \A m, n \in 1..Len(runnables') : runnables'[m] = runnables'[n] => m = n
  BY <1>2, <1>3 DEF RunnablesInv
<1>7. /\ earlier' = {p \in earlier : runnables[k] \notin {p[1], p[2]}}
      /\ Queued' = Queued \ {runnables[k]}
  BY DEF Removes, Queued
<1>8. earlier' \subseteq Queued' \X Queued'
  BY <1>7 DEF RunnablesInv
<1>9. SessionInOrder'
  <2> SUFFICES ASSUME NEW m \in 1..Len(runnables'), NEW n \in 1..Len(runnables'),
                      <<runnables'[m], runnables'[n]>> \in earlier',
                      SessionOf[runnables'[m]] # None,
                      SessionOf[runnables'[m]] = SessionOf[runnables'[n]]
               PROVE  m < n
    <3>1. DOMAIN runnables' = 1..Len(runnables')
      BY <1>1
    <3> QED BY <3>1, Zenon DEF SessionInOrder
  <2>1. <<runnables[old(m)], runnables[old(n)]>> \in earlier
    BY <1>2, <1>7
  <2>2. DOMAIN runnables = 1..Len(runnables)
    OBVIOUS
  <2>3. old(m) < old(n)
    BY <1>2, <2>1, <2>2 DEF RunnablesInv, SessionInOrder
  <2> QED BY <1>3, <2>3
<1> QED BY <1>1, <1>5, <1>6, <1>8, <1>9 DEF RunnablesInv

-----------------------------------------------------------------------------
(* What it does to the tasks on the stack.                                 *)

TasksGoOn ==
    /\ \A x \in Tasks : task[x] = "running" /\ task'[x] # "running" =>
          Len(stack') < Len(stack) /\ IsTask(Top) /\ x = Top.task
    /\ \A n \in 1..Len(stack') : n > Len(stack) /\ IsTask(stack'[n]) =>
          task[stack'[n].task] # "running" /\ task'[stack'[n].task] = "running"

\* Frames that stay are alike.
LEMMA MovesFrames ==
    ASSUME StackInv, Moves
    PROVE  /\ Len(stack) \in Nat /\ Len(stack') \in Nat /\ Len(stack') <= Len(stack) + 1
           /\ stack' \in Seq(Frames)
           /\ \A n \in 1..Len(stack') : n <= Len(stack) => Alike(stack[n], stack'[n])
<1>1. stack \in Seq(Frames) /\ Len(stack) \in Nat
  BY DEF StackInv
<1>2. CASE Stays
  BY <1>1, <1>2 DEF Stays, Similar
<1>3. CASE Enters
  <2>1. PICK f \in Frames : Similar(Append(stack, f), stack')
    BY <1>3 DEF Enters
  <2> DEFINE up == Append(stack, f)
  <2>2. Len(up) = Len(stack) + 1 /\ \A n \in 1..Len(stack) : up[n] = stack[n]
    BY <1>1, AppendFacts
  <2> HIDE DEF up
  <2>3. Similar(up, stack')
    BY <2>1 DEF up
  <2> QED BY <1>1, <2>2, <2>3 DEF Similar
<1>4. CASE EntersBlock
  <2>1. PICK f \in Frames : stack' = Append(stack, f)
    BY <1>4 DEF EntersBlock
  <2> QED BY <1>1, <2>1, AppendFacts DEF Alike
<1>5. CASE Returns
  BY <1>1, <1>5, FrontKeeps DEF Returns, Similar
<1>6. CASE ReturnsFromBlock
  BY <1>1, <1>6, FrontKeeps DEF ReturnsFromBlock, Alike
<1> QED BY <1>2, <1>3, <1>4, <1>5, <1>6 DEF Moves

\* Tasks on the stack keep running.
LEMMA FramesKeep ==
    ASSUME StackInv, FramesInv, Moves, TasksGoOn
    PROVE  FramesInv'
<1>1. /\ Len(stack) \in Nat /\ Len(stack') \in Nat /\ Len(stack') <= Len(stack) + 1
      /\ stack \in Seq(Frames)
      /\ \A n \in 1..Len(stack') : n <= Len(stack) => Alike(stack[n], stack'[n])
  BY MovesFrames DEF StackInv
<1>2. ASSUME NEW n \in 1..Len(stack'), IsTask(stack'[n]), n <= Len(stack)
      PROVE  /\ n \in 1..Len(stack) /\ IsTask(stack[n]) /\ stack'[n] = stack[n]
             /\ task[stack'[n].task] = "running" /\ stack'[n].task \in Tasks
  <2>1. n \in 1..Len(stack) /\ stack[n] \in Frames
    BY <1>1, <1>2
  <2>2. IsTask(stack[n]) /\ stack'[n] = stack[n]
    BY <1>1, <1>2 DEF Alike, IsTask
  <2> QED BY <2>1, <2>2, FrameFacts DEF FramesInv
<1>3. ASSUME NEW n \in 1..Len(stack'), IsTask(stack'[n])
      PROVE  task'[stack'[n].task] = "running"
  <2>1. CASE n > Len(stack)
    BY <1>3, <2>1 DEF TasksGoOn
  <2>2. CASE n <= Len(stack)
    <3>1. /\ n \in 1..Len(stack) /\ IsTask(stack[n]) /\ stack'[n] = stack[n]
          /\ task[stack'[n].task] = "running" /\ stack'[n].task \in Tasks
      BY <1>2, <1>3, <2>2
    <3> SUFFICES ASSUME task'[stack'[n].task] # "running"
                 PROVE  FALSE
      OBVIOUS
    <3>2. Len(stack') < Len(stack) /\ IsTask(Top) /\ stack[n].task = Top.task
      BY <3>1 DEF TasksGoOn
    <3>3. Len(stack) \in 1..Len(stack) /\ Top = stack[Len(stack)]
      BY <1>1, <3>1 DEF Top
    <3>4. n = Len(stack)
      BY <3>1, <3>2, <3>3 DEF FramesInv
    <3> QED BY <1>1, <3>2, <3>4
  <2> QED BY <1>1, <2>1, <2>2
<1>4. ASSUME NEW m \in 1..Len(stack'), NEW n \in 1..Len(stack'), m < n,
             IsTask(stack'[m]), IsTask(stack'[n])
      PROVE  stack'[m].task # stack'[n].task
  <2>1. m <= Len(stack)
    BY <1>1, <1>4
  <2>2. /\ m \in 1..Len(stack) /\ IsTask(stack[m]) /\ stack'[m] = stack[m]
        /\ task[stack'[m].task] = "running"
    BY <1>2, <1>4, <2>1
  <2>3. CASE n > Len(stack)
    BY <1>4, <2>2, <2>3 DEF TasksGoOn
  <2>4. CASE n <= Len(stack)
    <3>1. n \in 1..Len(stack) /\ IsTask(stack[n]) /\ stack'[n] = stack[n]
      BY <1>2, <1>4, <2>4
    <3> QED BY <1>4, <2>2, <3>1 DEF FramesInv
  <2> QED BY <1>1, <2>3, <2>4
<1>5. \A m, n \in 1..Len(stack') :
         IsTask(stack'[m]) /\ IsTask(stack'[n]) /\ stack'[m].task = stack'[n].task => m = n
  <2> TAKE m, n \in 1..Len(stack')
  <2>1. m < n \/ n < m \/ m = n
    BY <1>1
  <2> QED BY <1>4, <2>1
<1> QED BY <1>3, <1>5 DEF FramesInv

TaskStates == {"new", "queued", "running", "idle", "done"}

NoNewTask == \A n \in 1..Len(stack') : n > Len(stack) => ~IsTask(stack'[n])

\* Moves that do not begin the poll of a task.
LEMMA NoNewTasks ==
    ASSUME StackInv
    PROVE  /\ UNCHANGED stack => NoNewTask
           /\ stack # <<>> /\ Return => NoNewTask /\ Len(stack') < Len(stack)
           /\ \A g : stack # <<>> /\ SetTop(g) => NoNewTask
           /\ \A f \in Frames : ~IsTask(f) /\ stack' = Append(stack, f) => NoNewTask
<1>1. stack \in Seq(Frames) /\ Len(stack) \in Nat
  BY DEF StackInv
<1>2. UNCHANGED stack => NoNewTask
  BY <1>1 DEF NoNewTask
<1>3. stack # <<>> /\ Return => NoNewTask /\ Len(stack') < Len(stack)
  BY FrontKeeps DEF Return, NoNewTask
<1>4. ASSUME NEW g, stack # <<>>, SetTop(g)
      PROVE  NoNewTask
  <2>1. Len(stack') = Len(stack)
    BY <1>1, <1>4 DEF SetTop
  <2> QED BY <1>1, <2>1 DEF NoNewTask
<1>5. ASSUME NEW f \in Frames, ~IsTask(f), stack' = Append(stack, f)
      PROVE  NoNewTask
  <2>1. Len(stack') = Len(stack) + 1 /\ stack'[Len(stack) + 1] = f
    BY <1>1, <1>5, AppendFacts
  <2> QED BY <1>1, <1>5, <2>1 DEF NoNewTask
<1> QED BY <1>2, <1>3, <1>4, <1>5

\* The frames a waker finds, none of which is a new task.
LEMMA AwokenNoNew ==
    ASSUME StackInv, NEW frames \in Seq(Frames), NEW target, stack' = Awoken(frames, target),
           \A n \in 1..Len(frames) : n > Len(stack) => ~IsTask(frames[n])
    PROVE  NoNewTask /\ Len(stack') = Len(frames)
<1>1. Len(stack') = Len(frames) /\ \A n \in 1..Len(frames) : Alike(frames[n], stack'[n])
  BY AwokenFacts DEF Similar
<1> QED BY <1>1 DEF NoNewTask, Alike, IsTask

\* What calling wakers does to the queue and the tasks.
LEMMA WakersQueue ==
    ASSUME NEW states \in [Tasks -> TaskStates], NEW target, NEW frames,
           CallWakers(target, states, frames),
           \A x \in Tasks : states[x] = "queued" <=> task[x] = "queued"
    PROVE  /\ SameQueue \/ \E t \in Tasks : Adds(t)
           /\ task' \in [Tasks -> TaskStates]
           /\ \A x \in Tasks : task'[x] # states[x] => task[x] = "idle"
<1>1. CASE UNCHANGED <<runnables, waits, earlier>> /\ task' = states
  BY <1>1 DEF SameQueue
<1>2. ASSUME NEW t \in WaitingFor(target), Schedule(t), task' = [states EXCEPT ![t] = "queued"]
      PROVE  /\ Adds(t) /\ t \in Tasks
             /\ task' \in [Tasks -> TaskStates]
             /\ \A x \in Tasks : task'[x] # states[x] => task[x] = "idle"
  <2>1. t \in Tasks /\ task[t] = "idle"
    BY DEF WaitingFor
  <2>2. \A x \in Tasks : task'[x] = IF x = t THEN "queued" ELSE states[x]
    BY <1>2
  <2>3. task' \in [Tasks -> TaskStates]
    BY <1>2 DEF TaskStates
  <2>4. Adds(t)
    BY <1>2, <2>1, <2>2 DEF Adds
  <2> QED BY <2>1, <2>2, <2>3, <2>4
<1> QED BY <1>1, <1>2 DEF CallWakers

QueueMoves ==
    \/ SameQueue
    \/ \E t \in Tasks : Adds(t)
    \/ \E n \in 1..Len(runnables) : Removes(n)

\* A timer that is dropped schedules at most the task that waits for it.
LEMMA DropTimerQueue ==
    ASSUME StackInv, task \in [Tasks -> TaskStates], NEW frames \in Seq(Frames),
           Len(frames) <= Len(stack), DropTimer(frames)
    PROVE  QueueMoves /\ TasksGoOn /\ task' \in [Tasks -> TaskStates]
<1> DEFINE up == IF OthersElapsed THEN Append(frames, Expiring) ELSE frames
           id == Head(timers).id
<1>1. CallWakers(id, task, up)
  BY DEF DropTimer, Expiring
<1>2. Len(stack) \in Nat /\ Len(frames) \in Nat /\ Expiring \in Frames /\ ~IsTask(Expiring)
  BY CallFrameFacts DEF StackInv, Expiring
<1>3. up \in Seq(Frames) /\ \A n \in 1..Len(up) : n > Len(stack) => ~IsTask(up[n])
  <2>1. CASE OthersElapsed
    <3>1. /\ Append(frames, Expiring) \in Seq(Frames)
          /\ Len(Append(frames, Expiring)) = Len(frames) + 1
          /\ Append(frames, Expiring)[Len(frames) + 1] = Expiring
      BY <1>2, AppendFacts
    <3> QED BY <1>2, <2>1, <3>1
  <2>2. CASE ~OthersElapsed
    BY <1>2, <2>2
  <2> QED BY <2>1, <2>2
<1> HIDE DEF up, id
<1>4. stack' = Awoken(up, id)
  BY <1>1 DEF CallWakers
<1>5. NoNewTask
  BY <1>3, <1>4, AwokenNoNew
<1>6. /\ SameQueue \/ \E t \in Tasks : Adds(t)
      /\ task' \in [Tasks -> TaskStates]
      /\ \A x \in Tasks : task'[x] # task[x] => task[x] = "idle"
  BY <1>1, WakersQueue
<1> QED BY <1>5, <1>6 DEF QueueMoves, TasksGoOn, NoNewTask

\* A task that begins to run leaves the queue and enters the stack.
LEMMA RunCandidateQueue ==
    ASSUME SchedulerTypeOK, StackInv, RunnablesInv, NEW background_only,
           RunCandidate(background_only)
    PROVE  QueueMoves /\ TasksGoOn /\ task' \in [Tasks -> TaskStates]
<1>1. PICK n \in Candidates(background_only) :
         /\ runnables' = RemoveAt(runnables, n)
         /\ earlier' = {p \in earlier : runnables[n] \notin {p[1], p[2]}}
         /\ task' = [task EXCEPT ![runnables[n]] = "running"]
         /\ stack' = Append(Stepped(stack), [kind |-> "task", task |-> runnables[n],
                                             was |-> is_main_thread])
  BY DEF RunCandidate
<1>2. n \in 1..Len(runnables) /\ runnables[n] \in Tasks /\ is_main_thread \in BOOLEAN
  BY DEF Candidates, SchedulerTypeOK
<1>3. task[runnables[n]] = "queued"
  BY <1>2 DEF RunnablesInv
<1>4. task \in [Tasks -> TaskStates]
  BY DEF SchedulerTypeOK, TaskStates
<1>5. task' \in [Tasks -> TaskStates]
  BY <1>1, <1>4 DEF TaskStates
<1>6. \A x \in Tasks : task'[x] = IF x = runnables[n] THEN "running" ELSE task[x]
  BY <1>1, <1>4
<1>7. Removes(n)
  BY <1>1, <1>3, <1>6 DEF Removes
<1> DEFINE f == [kind |-> "task", task |-> runnables[n], was |-> is_main_thread]
<1>8. f \in Frames /\ f.task = runnables[n]
  BY <1>2 DEF Frames, TaskFrames
<1>9. stack' = Append(Stepped(stack), f)
  BY <1>1
<1> HIDE DEF f
<1>10. Stepped(stack) \in Seq(Frames) /\ Len(Stepped(stack)) = Len(stack) /\ Len(stack) \in Nat
  BY SteppedFacts DEF StackInv, Similar
<1>11. Len(stack') = Len(stack) + 1 /\ stack'[Len(stack) + 1] = f
  BY <1>8, <1>9, <1>10, AppendFacts
<1>12. \A k \in 1..Len(stack') : k > Len(stack) => stack'[k].task = runnables[n]
  BY <1>8, <1>10, <1>11
<1>13. task'[runnables[n]] = "running"
  BY <1>2, <1>6
<1>14. \A x \in Tasks : task[x] = "running" => task'[x] = "running"
  BY <1>6
<1> QED BY <1>2, <1>3, <1>5, <1>7, <1>12, <1>13, <1>14 DEF QueueMoves, TasksGoOn

\* The innermost task ends its poll in another state.
LEMMA EndPollQueue ==
    ASSUME SchedulerTypeOK, StackInv, FramesInv, InTask
    PROVE  /\ stack # <<>> /\ IsTask(Top) /\ Top.task \in Tasks /\ Top.was \in BOOLEAN
           /\ task[Top.task] = "running"
           /\ \A s : task' = [task EXCEPT ![Top.task] = s] =>
                 \A x \in Tasks : task'[x] = IF x = Top.task THEN s ELSE task[x]
<1>1. stack # <<>> /\ IsTask(Top)
  BY DEF InTask, IsTask
<1>2. Len(stack) \in 1..Len(stack) /\ Top = stack[Len(stack)] /\ Top \in Frames
  BY <1>1, FrontKeeps DEF StackInv
<1> QED BY <1>1, <1>2, FrameFacts DEF FramesInv, SchedulerTypeOK

\* Whatever the scheduler does, one task enters the queue, one leaves it, or none.
LEMMA NextQueues ==
    ASSUME SchedulerTypeOK, StackInv, RunnablesInv, FramesInv, SchedulerNext
    PROVE  QueueMoves /\ TasksGoOn /\ task' \in [Tasks -> TaskStates]
<1> DEFINE Goal == QueueMoves /\ TasksGoOn /\ task' \in [Tasks -> TaskStates]
<1>1. task \in [Tasks -> TaskStates] /\ Len(stack) \in Nat /\ stack \in Seq(Frames)
  BY DEF SchedulerTypeOK, TaskStates, StackInv
<1>2. UNCHANGED <<runnables, earlier, task>> /\ NoNewTask => Goal
  BY <1>1 DEF QueueMoves, SameQueue, TasksGoOn, NoNewTask
<1>3. ASSUME UNCHANGED <<runnables, earlier, task>>,
             \/ UNCHANGED stack
             \/ stack # <<>> /\ Return
             \/ \E g : stack # <<>> /\ SetTop(g)
             \/ \E f \in Frames : ~IsTask(f) /\ stack' = Append(stack, f)
      PROVE  Goal
  BY <1>2, <1>3, NoNewTasks
<1>4. ASSUME Quiescent,
             \/ UNCHANGED stack
             \/ stack # <<>> /\ Return
             \/ \E g : stack # <<>> /\ SetTop(g)
      PROVE  Goal
  BY <1>3, <1>4 DEF Quiescent
<1> HIDE DEF Goal
<1>5. ASSUME NEW t \in Tasks, Spawn(t) PROVE Goal
  <2>1. Schedule(t) /\ task[t] = "new" /\ task' = [task EXCEPT ![t] = "queued"] /\ UNCHANGED stack
    BY <1>5 DEF Spawn
  <2>2. \A x \in Tasks : task'[x] = IF x = t THEN "queued" ELSE task[x]
    BY <1>1, <2>1
  <2>3. Adds(t)
    BY <2>1, <2>2 DEF Adds
  <2>4. task' \in [Tasks -> TaskStates]
    BY <1>1, <2>1 DEF TaskStates
  <2>5. NoNewTask
    BY <2>1, NoNewTasks
  <2> QED BY <2>1, <2>2, <2>3, <2>4, <2>5 DEF QueueMoves, TasksGoOn, NoNewTask, Goal
<1>6. ASSUME NEW d \in Durations, MakeTimer(d) PROVE Goal
  BY <1>3, <1>6 DEF MakeTimer
<1>7. ASSUME NEW target \in Targets, Await(target) PROVE Goal
  <2>1. InTask /\ task' = [task EXCEPT ![Top.task] = "idle"] /\ Return
        /\ UNCHANGED <<runnables, earlier>>
    BY <1>7 DEF Await
  <2>2. /\ stack # <<>> /\ IsTask(Top) /\ Top.task \in Tasks /\ task[Top.task] = "running"
        /\ \A x \in Tasks : task'[x] = IF x = Top.task THEN "idle" ELSE task[x]
    BY <2>1, EndPollQueue
  <2>3. task' \in [Tasks -> TaskStates]
    BY <1>1, <2>1 DEF TaskStates
  <2>4. NoNewTask /\ Len(stack') < Len(stack)
    BY <2>1, <2>2, NoNewTasks
  <2>5. SameQueue
    BY <2>1, <2>2 DEF SameQueue
  <2> QED BY <2>2, <2>3, <2>4, <2>5 DEF QueueMoves, TasksGoOn, NoNewTask, Goal
<1>8. ASSUME YieldNow PROVE Goal
  <2>1. InTask /\ task' = [task EXCEPT ![Top.task] = "queued"] /\ Return /\ Schedule(Top.task)
    BY <1>8 DEF YieldNow
  <2>2. /\ stack # <<>> /\ IsTask(Top) /\ Top.task \in Tasks /\ task[Top.task] = "running"
        /\ \A x \in Tasks : task'[x] = IF x = Top.task THEN "queued" ELSE task[x]
    BY <2>1, EndPollQueue
  <2>3. task' \in [Tasks -> TaskStates]
    BY <1>1, <2>1 DEF TaskStates
  <2>4. NoNewTask /\ Len(stack') < Len(stack)
    BY <2>1, <2>2, NoNewTasks
  <2>5. Adds(Top.task)
    BY <2>1, <2>2 DEF Adds
  <2> QED BY <2>2, <2>3, <2>4, <2>5 DEF QueueMoves, TasksGoOn, NoNewTask, Goal
<1>9. ASSUME Finish PROVE Goal
  <2> DEFINE states == [task EXCEPT ![Top.task] = "done"]
             done == Top.task
  <2>1. InTask /\ CallWakers(done, states, Front(stack))
    BY <1>9 DEF Finish
  <2>2. stack # <<>> /\ IsTask(Top) /\ done \in Tasks /\ task[done] = "running"
    BY <2>1, EndPollQueue
  <2>3. states \in [Tasks -> TaskStates]
    BY <1>1 DEF TaskStates
  <2>4. \A x \in Tasks : states[x] = IF x = done THEN "done" ELSE task[x]
    BY <1>1
  <2>5. /\ Front(stack) \in Seq(Frames) /\ Len(Front(stack)) = Len(stack) - 1
        /\ stack' = Awoken(Front(stack), done)
    BY <2>1, <2>2, FrontKeeps DEF CallWakers
  <2> HIDE DEF states
  <2>6. /\ SameQueue \/ \E t \in Tasks : Adds(t)
        /\ task' \in [Tasks -> TaskStates]
        /\ \A x \in Tasks : task'[x] # states[x] => task[x] = "idle"
    <3>1. \A x \in Tasks : states[x] = "queued" <=> task[x] = "queued"
      BY <2>2, <2>4
    <3> HIDE DEF done
    <3> QED BY <2>1, <2>3, <3>1, WakersQueue
  <2>7. \A n \in 1..Len(Front(stack)) : n > Len(stack) => ~IsTask(Front(stack)[n])
    BY <1>1, <2>5
  <2>8. NoNewTask /\ Len(stack') = Len(stack) - 1
    BY <2>5, <2>7, AwokenNoNew
  <2>9. \A x \in Tasks : task[x] = "running" /\ task'[x] # "running" => x = done
    BY <2>4, <2>6
  <2>10. Len(stack') < Len(stack)
    BY <1>1, <2>8
  <2> QED BY <2>2, <2>6, <2>8, <2>9, <2>10 DEF QueueMoves, TasksGoOn, NoNewTask, Goal
<1>10. ASSUME NEW s \in Sessions \cup {None}, NEW target \in Targets, NEW timed \in BOOLEAN,
              Block(s, target, timed)
       PROVE  Goal
  <2> DEFINE f == [kind |-> "block", session |-> s, target |-> target, timed |-> timed,
                   pc |-> "poll", stepped |-> "not tried", awoken |-> FALSE]
  <2>1. target \in Tasks \cup Nat \cup {External}
    BY DEF Targets, SchedulerTypeOK
  <2>2. f \in BlockFrames
    BY <2>1 DEF BlockFrames
  <2>3. f \in Frames /\ ~IsTask(f)
    BY <2>2 DEF Frames, IsTask
  <2>4. stack' = Append(stack, f) /\ UNCHANGED <<runnables, earlier, task>>
    BY <1>10 DEF Block, Push
  <2> HIDE DEF f
  <2> QED BY <1>3, <2>3, <2>4
<1>11. ASSUME NEW f \in Frames, ~IsTask(f), Call(f) PROVE Goal
  BY <1>3, <1>11 DEF Call, Push
<1>12. ASSUME NEW k \in {"run", "run_timers"}, Call([kind |-> k]) PROVE Goal
  BY <1>11, <1>12, CallFrameFacts
<1>13. ASSUME NEW d \in Durations, Call([kind |-> "advance", next_now |-> clock + d])
       PROVE  Goal
  <2>1. clock + d \in Nat
    BY DurationAssumption DEF SchedulerTypeOK
  <2> QED BY <1>11, <1>13, <2>1, CallFrameFacts
<1>14. ASSUME ExpireTimers PROVE Goal
  <2>1. Stepped(stack) \in Seq(Frames) /\ Len(Stepped(stack)) = Len(stack)
    BY SteppedFacts DEF StackInv, Similar
  <2>2. Len(Stepped(stack)) <= Len(stack)
    BY <1>1, <2>1
  <2> QED BY <1>1, <1>14, <2>1, <2>2, DropTimerQueue DEF ExpireTimers, Goal
<1>15. ASSUME NEW background_only \in BOOLEAN, RunCandidate(background_only) PROVE Goal
  BY <1>15, RunCandidateQueue DEF Goal
<1>16. ASSUME DropNext PROVE Goal
  <2>1. Front(stack) \in Seq(Frames) /\ Len(Front(stack)) <= Len(stack)
    BY <1>1, <1>16, FrontKeeps DEF DropNext, In
  <2> QED BY <1>1, <1>16, <2>1, DropTimerQueue DEF DropNext, Goal
<1>17. ASSUME AdvanceToNextTimer PROVE Goal
  BY <1>4, <1>17 DEF AdvanceToNextTimer
<1>18. ASSUME RunEnds PROVE Goal
  BY <1>4, <1>18 DEF RunEnds, In
<1>19. ASSUME AdvanceClock PROVE Goal
  BY <1>4, <1>19 DEF AdvanceClock, In
<1>20. ASSUME BlockPoll \/ BlockOutOfTicks PROVE Goal
  <2>1. stack # <<>> /\ Quiescent
    BY <1>20 DEF BlockPoll, BlockOutOfTicks, In
  <2>2. Return \/ \E g : SetTop(g)
    BY <1>20 DEF BlockPoll, BlockOutOfTicks, EndBlock
  <2> QED BY <1>4, <2>1, <2>2
<1>21. ASSUME BlockStopsStepping PROVE Goal
  <2>1. stack # <<>> /\ Quiescent
    BY <1>21 DEF BlockStopsStepping, In
  <2>2. \E g : SetTop(g)
    BY <1>21 DEF BlockStopsStepping
  <2> QED BY <1>4, <2>1, <2>2
<1>22. ASSUME BlockCheck \/ ParkDeadline PROVE Goal
  <2>1. stack # <<>> /\ Quiescent
    BY <1>22 DEF BlockCheck, ParkDeadline, In
  <2>2. Return \/ UNCHANGED stack \/ \E g : SetTop(g)
    BY <1>22 DEF BlockCheck, ParkDeadline, EndBlock
  <2> QED BY <1>4, <2>1, <2>2
<1>23. ASSUME ParkReturns PROVE Goal
  <2>1. stack # <<>> /\ Quiescent
    BY <1>23 DEF ParkReturns, In
  <2>2. \E g : SetTop(g)
    BY <1>23 DEF ParkReturns
  <2> QED BY <1>4, <2>1, <2>2
<1>24. ASSUME ParkTimePasses PROVE Goal
  BY <1>4, <1>24 DEF ParkTimePasses
<1>25. ASSUME ExternalCompletes PROVE Goal
  BY <1>3, <1>25 DEF ExternalCompletes
<1>26. ASSUME NEW target, stack' = Awoken(stack, target) PROVE NoNewTask
  BY <1>1, <1>26, AwokenNoNew
<1>27. ASSUME ExternalWakes PROVE Goal
  <2>1. CASE CallWakers(External, task, stack)
    <3>1. /\ SameQueue \/ \E t \in Tasks : Adds(t)
          /\ task' \in [Tasks -> TaskStates]
          /\ \A x \in Tasks : task'[x] # task[x] => task[x] = "idle"
      BY <1>1, <2>1, WakersQueue
    <3>2. NoNewTask
      BY <1>26, <2>1 DEF CallWakers
    <3> QED BY <3>1, <3>2 DEF QueueMoves, TasksGoOn, NoNewTask, Goal
  <2>2. CASE UNCHANGED <<runnables, stack, task, waits, earlier>>
    BY <1>3, <2>2
  <2> QED BY <1>27, <2>1, <2>2 DEF ExternalWakes
<1>28. ASSUME ExternalSetsAwoken PROVE Goal
  <2>1. NoNewTask /\ UNCHANGED <<runnables, earlier, task>>
    BY <1>26, <1>28 DEF ExternalSetsAwoken
  <2> QED BY <1>2, <2>1 DEF Goal
<1>29. Goal
  BY <1>5, <1>6, <1>7, <1>8, <1>9, <1>10, <1>12, <1>13, <1>14, <1>15, <1>16, <1>17, <1>18,
     <1>19, <1>20, <1>21, <1>22, <1>23, <1>24, <1>25, <1>27, <1>28
     DEF SchedulerNext, Tick, StepExpires, StepRuns
<1> QED BY <1>29 DEF Goal

-----------------------------------------------------------------------------
(* Timers and the clock.                                                   *)

Timers == [expiration : Nat, id : Nat]
TimersInv ==
    /\ timers \in Seq(Timers) /\ clock \in Nat /\ made \in Nat
    /\ TimersSorted /\ TimersOnTime

\* The first timer is the first to expire.
LEMMA FirstTimer ==
    ASSUME TimersInv, timers # <<>>
    PROVE  /\ Head(timers) = timers[1] /\ Head(timers).expiration \in Nat
           /\ \A n \in 1..Len(timers) :
                 timers[n].expiration \in Nat /\ Head(timers).expiration <= timers[n].expiration
<1>1. Len(timers) \in Nat \ {0} /\ Head(timers) = timers[1] /\ 1 \in 1..Len(timers)
  BY EmptySeq DEF TimersInv
<1>2. \A n \in 1..Len(timers) : timers[n] \in Timers
  BY DEF TimersInv
<1>3. \A n \in 1..Len(timers) : timers[n].expiration \in Nat
  BY <1>2 DEF Timers
<1>4. \A n \in 1..Len(timers) : timers[1].expiration <= timers[n].expiration
  BY <1>1 DEF TimersInv, TimersSorted
<1> QED BY <1>1, <1>3, <1>4

\* A timer is put behind those that do not expire later.
LEMMA NewTimerKeeps ==
    ASSUME TimersInv, NEW d \in Nat, NewTimer(d), UNCHANGED <<clock, allow_parking>>
    PROVE  TimersInv'
<1> DEFINE e == [expiration |-> clock + d, id |-> made + 1]
<1>1. PICK ix \in 1..(Len(timers) + 1) :
         /\ \A n \in DOMAIN timers : n < ix <=> timers[n].expiration <= clock + d
         /\ timers' = InsertAt(timers, ix, e)
  BY DEF NewTimer
<1>2. e \in Timers /\ clock + d \in Nat /\ e.expiration = clock + d /\ clock + d >= clock
  BY DEF TimersInv, Timers
<1> HIDE DEF e
<1>3. /\ timers' \in Seq(Timers) /\ Len(timers') = Len(timers) + 1
      /\ \A n \in 1..(Len(timers) + 1) :
            timers'[n] = IF n < ix THEN timers[n] ELSE IF n = ix THEN e ELSE timers[n - 1]
  <2>1. timers \in Seq(Timers)
    BY DEF TimersInv
  <2>2. Inserted(InsertAt(timers, ix, e), Timers, timers, ix, e)
    BY <1>2, <2>1, InsertFacts, Zenon
  <2> QED BY <1>1, <2>2 DEF Inserted
<1>4. Len(timers) \in Nat /\ DOMAIN timers = 1..Len(timers) /\ DOMAIN timers' = 1..Len(timers')
  BY <1>3 DEF TimersInv
<1> DEFINE old(n) == IF n < ix THEN n ELSE n - 1
<1>5. ASSUME NEW n \in 1..Len(timers'), n # ix
      PROVE  old(n) \in 1..Len(timers) /\ timers'[n] = timers[old(n)] /\ (n < ix <=> old(n) < ix)
  BY <1>1, <1>3, <1>4, <1>5
<1>6. ASSUME NEW m \in 1..Len(timers'), NEW n \in 1..Len(timers'), m # ix, n # ix, m <= n
      PROVE  old(m) <= old(n)
  BY <1>1, <1>3, <1>4, <1>6
<1> HIDE DEF old
<1>7. \A n \in 1..Len(timers) : timers[n].expiration \in Nat
  <2>1. \A n \in 1..Len(timers) : timers[n] \in Timers
    BY DEF TimersInv
  <2> QED BY <2>1 DEF Timers
<1>8. ASSUME NEW m \in 1..Len(timers'), NEW n \in 1..Len(timers'), m <= n
      PROVE  timers'[m].expiration <= timers'[n].expiration
  <2>1. CASE m = ix /\ n = ix
    BY <1>2, <1>3, <2>1
  <2>2. CASE m = ix /\ n # ix
    <3>1. ~(old(n) < ix) /\ old(n) \in 1..Len(timers) /\ timers'[n] = timers[old(n)]
      BY <1>1, <1>4, <1>5, <1>8, <2>2
    <3>2. ~(timers[old(n)].expiration <= clock + d)
      BY <1>1, <1>4, <3>1
    <3> QED BY <1>2, <1>3, <1>4, <1>7, <2>2, <3>1, <3>2
  <2>3. CASE m # ix /\ n = ix
    <3>1. old(m) < ix /\ old(m) \in 1..Len(timers) /\ timers'[m] = timers[old(m)]
      BY <1>1, <1>4, <1>5, <1>8, <2>3
    <3>2. timers[old(m)].expiration <= clock + d
      BY <1>1, <1>4, <3>1
    <3> QED BY <1>2, <1>3, <2>3, <3>1, <3>2
  <2>4. CASE m # ix /\ n # ix
    BY <1>5, <1>6, <1>8, <2>4 DEF TimersInv, TimersSorted
  <2> QED BY <2>1, <2>2, <2>3, <2>4
<1>9. ASSUME ~allow_parking, NEW n \in 1..Len(timers')
      PROVE  timers'[n].expiration >= clock
  <2>1. CASE n = ix
    BY <1>2, <1>3, <2>1
  <2>2. CASE n # ix
    BY <1>4, <1>5, <1>9, <2>2 DEF TimersInv, TimersOnTime
  <2> QED BY <2>1, <2>2
<1>10. made' \in Nat
  BY DEF NewTimer, TimersInv
<1>11. TimersSorted'
  BY <1>8 DEF TimersSorted
<1>12. TimersOnTime'
  BY <1>4, <1>9 DEF TimersOnTime
<1> QED BY <1>3, <1>10, <1>11, <1>12 DEF TimersInv

\* Dropping the first timer.
LEMMA DropTimerKeeps ==
    ASSUME TimersInv, timers # <<>>, timers' = Tail(timers), UNCHANGED <<clock, allow_parking, made>>
    PROVE  TimersInv'
<1>1. /\ timers' \in Seq(Timers) /\ Len(timers') = Len(timers) - 1 /\ Len(timers) \in Nat
      /\ \A n \in 1..Len(timers') : n + 1 \in 1..Len(timers) /\ timers'[n] = timers[n + 1]
  BY EmptySeq DEF TimersInv
<1>2. TimersSorted'
  <2> SUFFICES ASSUME NEW m \in 1..Len(timers'), NEW n \in 1..Len(timers'), m <= n
               PROVE  timers'[m].expiration <= timers'[n].expiration
    BY DEF TimersSorted
  <2>1. m + 1 <= n + 1
    OBVIOUS
  <2> QED BY <1>1, <2>1 DEF TimersInv, TimersSorted
<1>3. TimersOnTime'
  <2>1. DOMAIN timers' = 1..Len(timers') /\ DOMAIN timers = 1..Len(timers)
    BY <1>1 DEF TimersInv
  <2> QED BY <1>1, <2>1 DEF TimersInv, TimersOnTime
<1> QED BY <1>1, <1>2, <1>3 DEF TimersInv

\* The clock may go on to a time no timer is before.
LEMMA ClockKeeps ==
    ASSUME TimersInv, UNCHANGED <<timers, made, allow_parking>>, clock' \in Nat,
           ~allow_parking => \A n \in 1..Len(timers) : timers[n].expiration >= clock'
    PROVE  TimersInv'
<1>1. DOMAIN timers = 1..Len(timers)
  BY DEF TimersInv
<1> QED BY <1>1 DEF TimersInv, TimersSorted, TimersOnTime

\* The clock goes on to the first timer.
LEMMA ToTimerKeeps ==
    ASSUME TimersInv, timers # <<>>, UNCHANGED <<timers, made, allow_parking>>, clock' = ToTimer
    PROVE  TimersInv'
<1>1. clock \in Nat /\ DOMAIN timers = 1..Len(timers)
  BY DEF TimersInv
<1>2. clock' \in Nat
  BY <1>1, FirstTimer DEF ToTimer
<1>3. ASSUME ~allow_parking, NEW n \in 1..Len(timers)
      PROVE  timers[n].expiration >= clock'
  <2>1. timers[n].expiration >= clock
    BY <1>1, <1>3 DEF TimersInv, TimersOnTime
  <2> QED BY <1>1, <2>1, FirstTimer DEF ToTimer
<1> QED BY <1>2, <1>3, ClockKeeps

\* The later of two times is one of them.
LEMMA MaxOfTwo ==
    ASSUME NEW a \in Nat, NEW b \in Nat
    PROVE  Max({a, b}) \in {a, b}
<1>1. \E x \in {a, b} : \A y \in {a, b} : x >= y
  <2>1. a >= a /\ b >= b /\ (a >= b \/ b >= a)
    OBVIOUS
  <2> QED BY <2>1
<1>2. Max({a, b}) = CHOOSE x \in {a, b} : \A y \in {a, b} : x >= y
  BY DEF Max
<1> QED BY <1>1, <1>2, Zenon

\* No action makes a timer late or breaks their order.
LEMMA NextTimers ==
    ASSUME SchedulerTypeOK, StackInv, TimersInv, SchedulerNext
    PROVE  TimersInv'
<1>1. UNCHANGED allow_parking
  BY NextMoves
<1>2. UNCHANGED <<timers, made, clock>> => TimersInv'
  BY <1>1, ClockKeeps DEF TimersInv, TimersOnTime
<1>3. ASSUME NEW frames, DropTimer(frames), timers # <<>> PROVE TimersInv'
  BY <1>1, <1>3, DropTimerKeeps DEF DropTimer
<1>4. ASSUME NEW t \in Tasks, Spawn(t) PROVE TimersInv'
  BY <1>2, <1>4 DEF Spawn
<1>5. ASSUME NEW d \in Durations, MakeTimer(d) PROVE TimersInv'
  <2>1. d \in Nat
    BY DurationAssumption
  <2> QED BY <1>1, <1>5, <2>1, NewTimerKeeps DEF MakeTimer
<1>6. ASSUME NEW target \in Targets, Await(target) PROVE TimersInv'
  BY <1>2, <1>6 DEF Await
<1>7. ASSUME YieldNow \/ Finish PROVE TimersInv'
  BY <1>2, <1>7 DEF YieldNow, Finish
<1>8. ASSUME NEW s \in Sessions \cup {None}, NEW target \in Targets, NEW timed \in BOOLEAN,
             Block(s, target, timed)
      PROVE  TimersInv'
  BY <1>2, <1>8 DEF Block
<1>9. ASSUME NEW f, Call(f) PROVE TimersInv'
  BY <1>2, <1>9 DEF Call
<1>10. ASSUME ExpireTimers PROVE TimersInv'
  BY <1>3, <1>10 DEF ExpireTimers, Elapsed
<1>11. ASSUME NEW background_only, RunCandidate(background_only) PROVE TimersInv'
  BY <1>2, <1>11 DEF RunCandidate
<1>12. ASSUME AdvanceToNextTimer PROVE TimersInv'
  BY <1>1, <1>12, ToTimerKeeps DEF AdvanceToNextTimer, Quiescent
<1>13. ASSUME DropNext PROVE TimersInv'
  BY <1>3, <1>13 DEF DropNext, Elapsed
<1>14. ASSUME RunEnds PROVE TimersInv'
  <2>1. UNCHANGED <<timers, made>>
    BY <1>14 DEF RunEnds, Quiescent
  <2>2. (timers # <<>> /\ clock' = ToTimer) \/ UNCHANGED clock
    BY <1>14 DEF RunEnds
  <2> QED BY <1>1, <1>2, <2>1, <2>2, ToTimerKeeps
<1>15. ASSUME AdvanceClock PROVE TimersInv'
  <2>1. UNCHANGED <<timers, made>> /\ In("advance")
    BY <1>15 DEF AdvanceClock, Quiescent
  <2>2. Top.next_now \in Nat /\ clock \in Nat
    BY <2>1, FrontKeeps, FrameFacts DEF In, StackInv, TimersInv
  <2>3. CASE timers # <<>> /\ Head(timers).expiration <= Top.next_now
    BY <1>1, <1>15, <2>1, <2>3, ToTimerKeeps DEF AdvanceClock
  <2>4. CASE ~(timers # <<>> /\ Head(timers).expiration <= Top.next_now)
    <3>1. clock' = Max({clock, Top.next_now})
      BY <1>15, <2>4 DEF AdvanceClock
    <3>2. clock' = clock \/ clock' = Top.next_now
      BY <2>2, <3>1, MaxOfTwo
    <3>3. CASE clock' = Top.next_now
      <4>1. \A n \in 1..Len(timers) : timers[n].expiration >= Top.next_now
        <5> TAKE n \in 1..Len(timers)
        <5>1. timers # <<>>
          BY DEF TimersInv
        <5> QED BY <2>2, <2>4, <5>1, FirstTimer
      <4> QED BY <1>1, <2>1, <2>2, <3>3, <4>1, ClockKeeps
    <3> QED BY <1>2, <2>1, <3>2, <3>3
  <2> QED BY <2>3, <2>4
<1>16. ASSUME BlockPoll \/ BlockOutOfTicks \/ BlockStopsStepping \/ ParkReturns \/ ParkDeadline
       PROVE  TimersInv'
  <2>1. UNCHANGED <<timers, made, clock>>
    BY <1>16 DEF BlockPoll, BlockOutOfTicks, BlockStopsStepping, ParkReturns, ParkDeadline,
                 Quiescent, EndBlock
  <2> QED BY <1>2, <2>1
<1>17. ASSUME BlockCheck PROVE TimersInv'
  <2>1. UNCHANGED <<timers, made>>
    BY <1>17 DEF BlockCheck, Quiescent
  <2>2. (timers # <<>> /\ clock' = ToTimer) \/ UNCHANGED clock
    BY <1>17 DEF BlockCheck, EndBlock
  <2> QED BY <1>1, <1>2, <2>1, <2>2, ToTimerKeeps
<1>18. ASSUME ParkTimePasses PROVE TimersInv'
  <2>1. stack # <<>> /\ Top.kind = "block" /\ Top.pc = "parked" /\ clock' = clock + 1
        /\ UNCHANGED <<timers, made>>
    BY <1>18 DEF ParkTimePasses, In, Quiescent
  <2>2. allow_parking
    BY <2>1, FrontKeeps DEF StackInv, MayPark, IsBlock
  <2> QED BY <1>1, <2>1, <2>2, ClockKeeps DEF TimersInv
<1>19. ASSUME ExternalCompletes \/ ExternalWakes \/ ExternalSetsAwoken PROVE TimersInv'
  BY <1>2, <1>19 DEF ExternalCompletes, ExternalWakes, ExternalSetsAwoken, Elsewhere
<1> QED BY <1>4, <1>5, <1>6, <1>7, <1>8, <1>9, <1>10, <1>11, <1>12, <1>13, <1>14, <1>15,
           <1>16, <1>17, <1>18, <1>19 DEF SchedulerNext, Tick, StepExpires, StepRuns

-----------------------------------------------------------------------------
(* The turns of a block.                                                   *)

\* Where a block is when the stack grew or shrank to it.
Settled(f) ==
    \/ f.pc = "poll" /\ f.stepped = "not tried"
    \/ f.stepped = "yes"

\* A block that is innermost again has made a step, a new one has none behind it.
LEMMA MovesTop ==
    ASSUME StackInv, Moves, ~Stays
    PROVE  stack' # <<>> /\ IsBlock(Top') => Settled(Top')
<1>1. stack \in Seq(Frames) /\ Len(stack) \in Nat /\ stack' \in Seq(Frames) /\ Len(stack') \in Nat
  BY MovesFrames DEF StackInv
<1> HAVE stack' # <<>> /\ IsBlock(Top')
<1>2. Len(stack') \in Nat \ {0} /\ Top' = stack'[Len(stack')]
  BY <1>1, EmptySeq DEF Top
<1>3. CASE Enters
  <2>1. PICK f \in Frames :
           Similar(Append(stack, f), stack') /\ Fresh(stack'[Len(stack) + 1])
    BY <1>3 DEF Enters
  <2>2. Len(Append(stack, f)) = Len(stack) + 1
    BY <1>1, AppendFacts
  <2>3. Len(stack') = Len(stack) + 1
    BY <2>1, <2>2 DEF Similar
  <2> QED BY <1>2, <2>1, <2>3 DEF Fresh, Settled
<1>4. CASE EntersBlock
  <2>1. PICK f \in Frames : stack' = Append(stack, f) /\ Fresh(f)
    BY <1>4 DEF EntersBlock
  <2>2. Len(stack') = Len(stack) + 1 /\ stack'[Len(stack) + 1] = f
    BY <1>1, <2>1, AppendFacts
  <2> QED BY <1>2, <2>1, <2>2 DEF Fresh, Settled
<1>5. CASE Returns \/ ReturnsFromBlock
  <2>1. stack # <<>> /\ Len(stack') = Len(stack) - 1
    BY <1>5, FrontKeeps DEF Returns, ReturnsFromBlock, Similar
  <2>2. /\ Len(stack') \in 1..(Len(stack) - 1) /\ Len(stack') \in 1..Len(stack)
        /\ Len(stack') < Len(stack)
    BY <1>1, <1>2, <2>1
  <2>3. Alike(stack[Len(stack')], stack'[Len(stack')])
    BY <1>1, <1>2, <2>2, MovesFrames
  <2>4. IsBlock(stack[Len(stack')])
    BY <1>2, <2>3 DEF Alike, IsBlock
  <2>5. stack[Len(stack')].stepped = "yes"
    BY <2>2, <2>4 DEF StackInv, CallersStep
  <2>6. stack'[Len(stack')].stepped = stack[Len(stack')].stepped
    <3>1. CASE Returns
      BY <2>2, <2>4, <3>1 DEF Returns, SameTurns
    <3>2. CASE ReturnsFromBlock
      BY <2>2, <3>2, FrontKeeps DEF ReturnsFromBlock
    <3> QED BY <1>5, <3>1, <3>2
  <2> QED BY <1>2, <2>5, <2>6 DEF Settled
<1> QED BY <1>3, <1>4, <1>5 DEF Moves

\* The innermost call when the stack stays.
LEMMA StaysTop ==
    ASSUME StackInv, Stays
    PROVE  /\ Len(stack') = Len(stack) /\ (stack' # <<>> <=> stack # <<>>)
           /\ stack # <<>> => Alike(Top, Top') /\ Top' = stack'[Len(stack)]
<1>1. /\ stack \in Seq(Frames) /\ Len(stack) \in Nat /\ stack' \in Seq(Frames)
      /\ Len(stack') = Len(stack) /\ \A n \in 1..Len(stack) : Alike(stack[n], stack'[n])
  BY DEF StackInv, Stays, Similar
<1>2. stack' # <<>> <=> stack # <<>>
  BY <1>1, EmptySeq
<1>3. stack # <<>> => Len(stack) \in 1..Len(stack)
  BY FrontKeeps
<1> QED BY <1>1, <1>2, <1>3 DEF Top

\* What a target waits for is as ready as before.
LEMMA SameReady ==
    ASSUME IsBlock(Top), Alike(Top, Top'), UNCHANGED timers,
           \A x \in Tasks : task'[x] = "done" <=> task[x] = "done",
           event' # "before" <=> event # "before"
    PROVE  IsReady(Top.target)' <=> IsReady(Top.target)
<1>1. Top'.target = Top.target
  BY DEF Alike
<1> QED BY <1>1 DEF IsReady

TurnsInv == BeginInv /\ TurnInv

\* Nothing is claimed of a block that has just polled nothing, or has made a step.
LEMMA SettledTurns ==
    ASSUME stack' # <<>> /\ IsBlock(Top') => Settled(Top')
    PROVE  TurnsInv'
BY DEF Settled, TurnsInv, BeginInv, TurnInv, IdleTurn

\* A block that stays in an idle turn while the scheduler does nothing.
LEMMA QuietTurn ==
    ASSUME stack # <<>>, IsBlock(Top), Alike(Top, Top'), Quiescent,
           UNCHANGED <<blocked_sessions, allow_parking, unparked>>,
           IsReady(Top.target) => /\ allow_parking /\ Top.target = External
                                  /\ event = "completed" \/ unparked,
           Top'.pc \in {"poll", "step"} => Top'.stepped # "no",
           Top'.pc \in {"check", "parked"} /\ Top'.stepped = "no" =>
              Candidates(FALSE) = {} \/ (allow_parking /\ unparked)
    PROVE  TurnsInv'
<1>1. /\ UNCHANGED <<timers, event, runnables>>
      /\ \A x \in Tasks : task'[x] = "done" <=> task[x] = "done"
  BY DEF Quiescent
<1>2. IsReady(Top.target)' <=> IsReady(Top.target)
  BY <1>1, SameReady
<1>3. Candidates(FALSE)' = Candidates(FALSE)
  BY <1>1 DEF Candidates
<1>4. Top'.target = Top.target
  BY DEF Alike
<1>5. BeginInv'
  BY DEF BeginInv
<1>6. IsReady(Top.target)' => /\ allow_parking' /\ Top'.target = External
                              /\ event' = "completed" \/ unparked'
  BY <1>1, <1>2, <1>4
<1>7. IdleTurn(Top)' /\ Top'.pc # "step" =>
         Candidates(FALSE)' = {} \/ (allow_parking' /\ unparked')
  BY <1>3 DEF IdleTurn
<1> QED BY <1>5, <1>6, <1>7 DEF TurnsInv, TurnInv

\* The other thread, in an idle turn.
LEMMA ExternalTurns ==
    ASSUME SchedulerTypeOK, StackInv, EventIsAllowed, TurnsInv, stack # <<>>, IsBlock(Top),
           Stays, UNCHANGED allow_parking,
           ExternalCompletes \/ ExternalWakes \/ ExternalSetsAwoken,
           Top'.pc = Top.pc, Top'.stepped = Top.stepped
    PROVE  TurnsInv'
<1>1. Alike(Top, Top') /\ Top'.target = Top.target
  BY StaysTop DEF Alike
<1>2. UNCHANGED <<timers, blocked_sessions, panicked>> /\ ~panicked
  BY DEF ExternalCompletes, ExternalWakes, ExternalSetsAwoken, Elsewhere
<1>3. allow_parking
  BY DEF ExternalCompletes, ExternalWakes, ExternalSetsAwoken, EventIsAllowed
<1>4. task \in [Tasks -> TaskStates]
  BY DEF SchedulerTypeOK, TaskStates
<1>5. \A x \in Tasks : task'[x] = "done" <=> task[x] = "done"
  <2>1. CASE UNCHANGED task
    BY <2>1
  <2>2. CASE CallWakers(External, task, stack)
    <3>1. /\ task' \in [Tasks -> TaskStates]
          /\ \A x \in Tasks : task'[x] # task[x] => task[x] = "idle"
      BY <1>4, <2>2, WakersQueue
    <3>2. \A x \in Tasks : task[x] = "idle" => task'[x] # "done"
      BY <1>4, <2>2 DEF CallWakers, WaitingFor
    <3> QED BY <3>1, <3>2
  <2> QED BY <2>1, <2>2 DEF ExternalCompletes, ExternalWakes, ExternalSetsAwoken
<1>6. BeginInv'
  BY DEF TurnsInv, BeginInv
<1>7. SUFFICES ASSUME IdleTurn(Top)
               PROVE  /\ IsReady(Top.target)' =>
                            Top.target = External /\ (event' = "completed" \/ unparked')
                      /\ Top.pc # "step" => Candidates(FALSE)' = {} \/ unparked'
  BY <1>1, <1>3, <1>6 DEF TurnsInv, TurnInv, IdleTurn
<1>8. /\ IsReady(Top.target) => Top.target = External /\ (event = "completed" \/ unparked)
      /\ Top.pc # "step" => Candidates(FALSE) = {} \/ unparked
  BY <1>2, <1>7 DEF TurnsInv, TurnInv
<1>9. UNCHANGED runnables => Candidates(FALSE)' = Candidates(FALSE)
  BY <1>2 DEF Candidates
<1>10. CASE ExternalCompletes
  <2>1. event' = "completed" /\ UNCHANGED <<task, unparked, runnables>>
    BY <1>10 DEF ExternalCompletes
  <2>2. IsReady(Top.target)' => IsReady(Top.target) \/ Top.target = External
    BY <1>1, <1>2, <2>1 DEF IsReady
  <2> QED BY <1>8, <1>9, <2>1, <2>2
<1>11. CASE ExternalWakes
  <2>1. event = "completed" /\ event' # "before"
    BY <1>11 DEF ExternalWakes
  <2>2. IsReady(Top.target)' <=> IsReady(Top.target)
    BY <1>1, <1>2, <1>5, <2>1, SameReady
  <2>3. CASE CallWakers(External, task, stack) /\ WaitingFor(External) # {}
    BY <1>8, <2>2, <2>3 DEF CallWakers
  <2>4. CASE unparked' = (unparked \/ IsAwaited(External)) /\ UNCHANGED runnables
    <3>1. Len(stack) \in DOMAIN stack /\ Top = stack[Len(stack)]
      BY FrontKeeps DEF StackInv
    <3>2. Top.target = External => IsAwaited(External)
      BY <3>1 DEF IsAwaited, IsBlockOn, IsBlock
    <3> QED BY <1>8, <1>9, <2>2, <2>4, <3>2
  <2> QED BY <1>11, <2>3, <2>4 DEF ExternalWakes
<1>12. CASE ExternalSetsAwoken
  <2>1. event = "flagged" /\ event' = "woke" /\ UNCHANGED <<unparked, runnables>>
    BY <1>12 DEF ExternalSetsAwoken
  <2>2. IsReady(Top.target)' <=> IsReady(Top.target)
    BY <1>1, <1>2, <1>5, <2>1, SameReady
  <2> QED BY <1>8, <1>9, <2>1, <2>2
<1> QED BY <1>10, <1>11, <1>12

\* What a block has seen in an idle turn stays true until the turn ends.
LEMMA NextTurns ==
    ASSUME SchedulerTypeOK, StackInv, EventIsAllowed, TurnsInv, ~panicked, SchedulerNext
    PROVE  TurnsInv'
<1>1. Moves /\ UNCHANGED allow_parking
  BY NextMoves
<1>2. CASE ~Stays
  BY <1>1, <1>2, MovesTop, SettledTurns
<1>3. CASE Stays /\ ~(stack # <<>> /\ IsBlock(Top))
  BY <1>3, StaysTop, SettledTurns DEF Alike, IsBlock
<1>4. CASE Stays /\ stack # <<>> /\ IsBlock(Top)
  <2>1. /\ Len(stack') = Len(stack) /\ stack' # <<>> /\ Alike(Top, Top')
        /\ Top' = stack'[Len(stack)] /\ Top = stack[Len(stack)]
        /\ Len(stack) \in Nat \ {0} /\ Len(stack) \in 1..Len(stack)
    BY <1>4, StaysTop, FrontKeeps
  <2>2. ~Return
    BY <1>4, <2>1, FrontKeeps DEF Return
  <2>3. \A x : stack' # Append(Stepped(stack), x)
    <3>1. Stepped(stack) \in Seq(Frames) /\ Len(Stepped(stack)) = Len(stack)
      BY SteppedFacts DEF StackInv, Similar
    <3> QED BY <2>1, <3>1
  <2>4. ~InCode /\ ~InTask /\ stack # <<>>
    BY <1>4 DEF InCode, InTask, IsBlock
  <2>5. \A kind \in {"run", "run_timers", "advance", "expire"} : ~In(kind)
    BY <1>4 DEF In, IsBlock
  <2>6. \A background_only : ~RunCandidate(background_only)
    BY <2>3 DEF RunCandidate
  <2> DEFINE notTried == "not tried"
             poll == "poll"
  <2>again. ASSUME TurnsTo("poll", "not tried"), UNCHANGED blocked_sessions
         PROVE  TurnsInv'
    <3>1. poll # "parked" /\ TurnsTo(poll, notTried)
      BY <2>again
    <3> HIDE DEF poll, notTried
    <3>2. Top'.pc = poll /\ Top'.stepped = notTried
      BY <1>4, <2>again, <3>1, TurnStays
    <3> QED BY <3>2, SettledTurns DEF Settled, poll, notTried
  <2>7. ASSUME StepExpires PROVE TurnsInv'
    <3>1. Top'.stepped = "yes"
      BY <1>4, <2>1, <2>7, ExpireMoves DEF StepExpires, Stepping, In, IsBlock
    <3> QED BY <3>1, SettledTurns DEF Settled
  <2>8. ASSUME BlockPoll PROVE TurnsInv'
    <3>1. ~IsReady(Top.target) /\ SetTop([Top EXCEPT !.pc = "step"]) /\ Quiescent
          /\ UNCHANGED <<blocked_sessions, unparked>> /\ Top.pc = "poll"
      BY <2>2, <2>8 DEF BlockPoll, EndBlock
    <3>2. TurnsTo("step", Top.stepped)
      BY <1>4, <3>1, TurnForms
    <3>3. Top'.pc = "step" /\ Top'.stepped = Top.stepped
      BY <1>4, <3>1, <3>2, TurnStays
    <3>4. Top.stepped # "no"
      BY <1>4, <3>1 DEF TurnsInv, BeginInv
    <3> QED BY <1>1, <1>4, <2>1, <3>1, <3>3, <3>4, QuietTurn
  <2>9. ~BlockOutOfTicks
    BY <2>2 DEF BlockOutOfTicks, EndBlock
  <2>10. ASSUME BlockStopsStepping PROVE TurnsInv'
    <3>1. Top.pc = "step" /\ Quiescent /\ UNCHANGED <<blocked_sessions, unparked>>
      BY <2>10 DEF BlockStopsStepping
    <3>2. Top.stepped # "no"
      BY <1>4, <3>1 DEF TurnsInv, BeginInv
    <3>3. CASE SetTop([Top EXCEPT !.pc = "check"])
      <4>1. TurnsTo("check", Top.stepped)
        BY <1>4, <3>3, TurnForms
      <4>2. Top'.pc = "check" /\ Top'.stepped = Top.stepped
        BY <1>4, <3>1, <4>1, TurnStays
      <4>3. ~IdleTurn(Top)' /\ BeginInv'
        BY <3>2, <4>2 DEF IdleTurn, BeginInv
      <4> QED BY <4>3 DEF TurnsInv, TurnInv
    <3>4. CASE /\ NothingToStep
               /\ SetTop([Top EXCEPT !.pc = "check",
                                     !.stepped = IF @ = "not tried" THEN "no" ELSE @])
      <4> DEFINE st == IF Top.stepped = "not tried" THEN "no" ELSE Top.stepped
      <4>1. TurnsTo("check", st)
        BY <1>4, <3>4, TurnForms
      <4> HIDE DEF st
      <4>2. Top'.pc = "check" /\ Top'.stepped = st
        BY <1>4, <3>1, <4>1, TurnStays
      <4>3. CASE Top.stepped = "not tried"
        <5>1. IsReady(Top.target) => /\ allow_parking /\ Top.target = External
                                     /\ event = "completed" \/ unparked
          BY <1>4, <3>1, <4>3 DEF TurnsInv, TurnInv, IdleTurn
        <5>2. Candidates(FALSE) = {}
          BY <3>4 DEF NothingToStep
        <5> QED BY <1>1, <1>4, <2>1, <3>1, <4>2, <5>1, <5>2, QuietTurn
      <4>4. CASE Top.stepped # "not tried"
        <5>1. ~IdleTurn(Top)' /\ BeginInv'
          BY <3>2, <4>2, <4>4 DEF IdleTurn, BeginInv, st
        <5> QED BY <5>1 DEF TurnsInv, TurnInv
      <4> QED BY <4>3, <4>4
    <3> QED BY <2>10, <3>3, <3>4 DEF BlockStopsStepping
  <2>11. ASSUME BlockCheck PROVE TurnsInv'
    <3>1. Top.pc = "check" /\ Quiescent /\ UNCHANGED unparked
      BY <2>11 DEF BlockCheck
    <3>2. CASE SetTop(Again) /\ UNCHANGED blocked_sessions
      <4>1. TurnsTo("poll", "not tried")
        BY <1>4, <3>2, TurnForms
      <4> QED BY <2>again, <3>2, <4>1
    <3>3. CASE /\ SetTop([Top EXCEPT !.pc = "parked", !.awoken = FALSE])
               /\ UNCHANGED blocked_sessions /\ ~MakesProgress /\ allow_parking
      <4>1. TurnsTo("parked", Top.stepped) /\ Top.stepped = "no"
        BY <1>4, <3>3, TurnForms DEF MakesProgress
      <4>2. Top'.pc = "parked" /\ Top'.stepped = "no"
        BY <1>4, <3>3, <4>1, TurnStays
      <4>3. /\ IsReady(Top.target) => /\ allow_parking /\ Top.target = External
                                      /\ event = "completed" \/ unparked
            /\ Candidates(FALSE) = {} \/ (allow_parking /\ unparked)
        BY <1>4, <3>1, <4>1 DEF TurnsInv, TurnInv, IdleTurn
      <4> QED BY <1>1, <1>4, <2>1, <3>1, <3>3, <4>2, <4>3, QuietTurn
    <3>4. CASE panicked' = TRUE /\ UNCHANGED stack
      <4>1. UNCHANGED Top
        BY <3>4 DEF Top
      <4> QED BY <1>4, <3>1, <3>4, <4>1 DEF TurnsInv, TurnInv, BeginInv
    <3> QED BY <2>2, <2>11, <3>2, <3>3, <3>4 DEF BlockCheck, EndBlock
  <2>12. ASSUME ParkReturns PROVE TurnsInv'
    <3>1. SetTop([Again EXCEPT !.awoken = Top.awoken]) /\ UNCHANGED blocked_sessions
      BY <2>12 DEF ParkReturns
    <3>2. TurnsTo("poll", "not tried")
      BY <1>4, <3>1, TurnForms
    <3> QED BY <2>again, <3>1, <3>2
  <2>13. ASSUME ParkTimePasses PROVE TurnsInv'
    <3>1. UNCHANGED <<stack, Top, blocked_sessions, unparked>> /\ Quiescent /\ Top.pc = "parked"
      BY <2>13 DEF ParkTimePasses, Top
    <3>2. Top.stepped = "no"
      BY <1>4, <2>1, <3>1 DEF StackInv, MayPark
    <3>3. /\ IsReady(Top.target) => /\ allow_parking /\ Top.target = External
                                    /\ event = "completed" \/ unparked
          /\ Candidates(FALSE) = {} \/ (allow_parking /\ unparked)
      BY <1>4, <3>1, <3>2 DEF TurnsInv, TurnInv, IdleTurn
    <3> QED BY <1>1, <1>4, <2>1, <3>1, <3>3, QuietTurn
  <2>14. ASSUME ParkDeadline PROVE TurnsInv'
    <3>1. panicked' = TRUE /\ UNCHANGED <<stack, Top>> /\ Top.pc = "parked"
      BY <2>2, <2>14 DEF ParkDeadline, EndBlock, Top
    <3> QED BY <3>1 DEF TurnsInv, TurnInv, BeginInv
  <2>15. ASSUME ExternalCompletes \/ ExternalWakes \/ ExternalSetsAwoken PROVE TurnsInv'
    <3>1. UNCHANGED stack \/ stack' = Awoken(stack, External)
      BY <2>15 DEF ExternalCompletes, ExternalWakes, ExternalSetsAwoken, CallWakers
    <3>2. CASE UNCHANGED stack
      BY <1>1, <1>4, <2>1, <2>15, <3>2, ExternalTurns
    <3>3. CASE stack' = Awoken(stack, External)
      <4>1. Top'.pc = Top.pc /\ Top'.stepped = Top.stepped
        BY <1>4, <2>1, <3>3, AwokenFacts DEF StackInv
      <4> QED BY <1>1, <1>4, <2>15, <4>1, ExternalTurns
    <3> QED BY <3>1, <3>2, <3>3
  <2>16. /\ \A t \in Tasks : ~Spawn(t)
         /\ \A d \in Durations : ~MakeTimer(d)
         /\ \A target \in Targets : ~Await(target)
         /\ ~YieldNow /\ ~Finish
         /\ \A s \in Sessions \cup {None}, target \in Targets, timed \in BOOLEAN :
               ~Block(s, target, timed)
         /\ \A f : ~Call(f)
         /\ \A background_only : ~Tick(background_only)
         /\ ~AdvanceToNextTimer
    BY <2>4 DEF Spawn, MakeTimer, Await, YieldNow, Finish, Block, Call, Tick, AdvanceToNextTimer
  <2>17. ~DropNext /\ ~StepRuns /\ ~RunEnds /\ ~AdvanceClock
    BY <2>5, <2>6 DEF DropNext, StepRuns, RunEnds, AdvanceClock
  <2> QED BY <2>7, <2>8, <2>9, <2>10, <2>11, <2>12, <2>13, <2>14, <2>15, <2>16, <2>17
          DEF SchedulerNext
<1> QED BY <1>2, <1>3, <1>4

-----------------------------------------------------------------------------
(* Panics and the rest.                                                    *)

\* After a panic nothing goes on.
LEMMA NextIsAlive ==
    ASSUME SchedulerNext
    PROVE  ~panicked
<1>1. \A kind : In(kind) => ~panicked
  BY DEF In
<1>2. InCode \/ InTask \/ Stepping \/ Elsewhere => ~panicked
  BY <1>1 DEF InCode, InTask, Stepping, Elsewhere
<1>3. (\E t \in Tasks : Spawn(t)) \/ (\E d \in Durations : MakeTimer(d))
      \/ (\E target \in Targets : Await(target)) \/ YieldNow \/ Finish
      \/ (\E s \in Sessions \cup {None}, target \in Targets, timed \in BOOLEAN :
             Block(s, target, timed))
      \/ (\E f : Call(f)) => ~panicked
  BY <1>2 DEF Spawn, MakeTimer, Await, YieldNow, Finish, Block, Call
<1>4. (\E background_only \in BOOLEAN : Tick(background_only)) \/ AdvanceToNextTimer
      \/ StepExpires \/ DropNext \/ StepRuns \/ RunEnds \/ AdvanceClock => ~panicked
  BY <1>1, <1>2 DEF Tick, AdvanceToNextTimer, StepExpires, DropNext, StepRuns, RunEnds,
                    AdvanceClock
<1>5. BlockPoll \/ BlockOutOfTicks \/ BlockStopsStepping \/ BlockCheck \/ ParkReturns
      \/ ParkTimePasses \/ ParkDeadline => ~panicked
  BY <1>1 DEF BlockPoll, BlockOutOfTicks, BlockStopsStepping, BlockCheck, ParkReturns,
              ParkTimePasses, ParkDeadline
<1>6. ExternalCompletes \/ ExternalWakes \/ ExternalSetsAwoken => ~panicked
  BY <1>2 DEF ExternalCompletes, ExternalWakes, ExternalSetsAwoken
<1> QED BY <1>3, <1>4, <1>5, <1>6 DEF SchedulerNext

\* Only a block that checks or parks panics.
LEMMA WhoPanics ==
    ASSUME SchedulerNext, ~BlockCheck, ~ParkDeadline
    PROVE  UNCHANGED panicked
<1>1. Unmoved \/ Elsewhere => UNCHANGED panicked
  BY DEF Unmoved, Elsewhere
<1>2. (\E t \in Tasks : Spawn(t)) \/ (\E d \in Durations : MakeTimer(d))
      \/ (\E target \in Targets : Await(target)) \/ YieldNow \/ Finish
      \/ (\E s \in Sessions \cup {None}, target \in Targets, timed \in BOOLEAN :
             Block(s, target, timed))
      \/ (\E f : Call(f)) => Unmoved
  BY DEF Spawn, MakeTimer, Await, YieldNow, Finish, Block, Call
<1>3. (\E background_only \in BOOLEAN : Tick(background_only)) \/ AdvanceToNextTimer
      \/ StepExpires \/ DropNext \/ StepRuns \/ RunEnds \/ AdvanceClock => Unmoved
  BY DEF Tick, AdvanceToNextTimer, StepExpires, ExpireTimers, DropTimer, DropNext, StepRuns,
         RunCandidate, RunEnds, AdvanceClock
<1>4. BlockPoll \/ BlockOutOfTicks \/ BlockStopsStepping \/ ParkReturns \/ ParkTimePasses
      => Unmoved
  BY DEF BlockPoll, BlockOutOfTicks, BlockStopsStepping, ParkReturns, ParkTimePasses
<1>5. ExternalCompletes \/ ExternalWakes \/ ExternalSetsAwoken => Elsewhere
  BY DEF ExternalCompletes, ExternalWakes, ExternalSetsAwoken
<1> QED BY <1>1, <1>2, <1>3, <1>4, <1>5 DEF SchedulerNext

\* A block that panics is in an idle turn, so TurnInv says it is stuck.
LEMMA NextPanics ==
    ASSUME SchedulerTypeOK, StackInv, TurnsInv, EventIsAllowed, SchedulerNext
    PROVE  panicked' \in BOOLEAN /\ PanicInv' /\ PanicsOnlyWhenStuck'
<1>1. ~panicked /\ panicked \in BOOLEAN /\ UNCHANGED allow_parking
  BY NextIsAlive, NextMoves DEF SchedulerTypeOK
<1>2. CASE UNCHANGED panicked
  BY <1>1, <1>2 DEF PanicInv, PanicsOnlyWhenStuck
<1>3. ASSUME panicked' = TRUE, UNCHANGED <<stack, blocked_sessions>>, Quiescent,
             stack # <<>>, IsBlock(Top), ~IsReady(Top.target), Candidates(FALSE) = {},
             allow_parking \/ timers = <<>>
      PROVE  panicked' \in BOOLEAN /\ PanicInv' /\ PanicsOnlyWhenStuck'
  <2>1. UNCHANGED <<Top, timers, event, runnables, task>>
    BY <1>3 DEF Quiescent, Top
  <2>2. ~IsReady(Top.target)'
    BY <1>3, <2>1 DEF IsReady
  <2>3. Candidates(FALSE)' = {}
    BY <1>3, <2>1 DEF Candidates
  <2> QED BY <1>1, <1>3, <2>1, <2>2, <2>3 DEF PanicInv, PanicsOnlyWhenStuck
<1>4. CASE BlockCheck /\ ~UNCHANGED panicked
  <2>1. /\ stack # <<>> /\ IsBlock(Top) /\ Top.pc = "check" /\ Top.stepped = "no"
        /\ ~allow_parking /\ timers = <<>> /\ Quiescent
        /\ panicked' = TRUE /\ UNCHANGED <<stack, blocked_sessions>>
    BY <1>4 DEF BlockCheck, MakesProgress, In, IsBlock
  <2>2. ~IsReady(Top.target) /\ Candidates(FALSE) = {}
    BY <1>1, <2>1 DEF TurnsInv, TurnInv, IdleTurn
  <2> QED BY <1>3, <2>1, <2>2
<1>5. CASE ParkDeadline /\ ~UNCHANGED panicked
  <2>1. /\ stack # <<>> /\ IsBlock(Top) /\ Top.pc = "parked"
        /\ ~unparked /\ event \notin {"completed", "flagged"} /\ Quiescent
        /\ panicked' = TRUE /\ UNCHANGED <<stack, blocked_sessions>>
    BY <1>5 DEF ParkDeadline, In, IsBlock
  <2>2. Top.stepped = "no" /\ allow_parking
    BY <2>1, FrontKeeps DEF StackInv, MayPark
  <2>3. ~IsReady(Top.target) /\ Candidates(FALSE) = {}
    BY <1>1, <2>1, <2>2 DEF TurnsInv, TurnInv, IdleTurn
  <2> QED BY <1>3, <2>1, <2>2, <2>3
<1> QED BY <1>2, <1>4, <1>5, WhoPanics

\* The flags and the progress of the other thread.
LEMMA NextFlags ==
    ASSUME SchedulerTypeOK, StackInv, FramesInv, EventIsAllowed, SchedulerNext
    PROVE  /\ is_main_thread' \in BOOLEAN /\ unparked' \in BOOLEAN
           /\ UNCHANGED randomize_order
           /\ event' \in {"before", "completed", "flagged", "woke"} /\ EventIsAllowed'
<1>1. /\ is_main_thread \in BOOLEAN /\ unparked \in BOOLEAN
      /\ event \in {"before", "completed", "flagged", "woke"} /\ UNCHANGED allow_parking
  BY NextMoves DEF SchedulerTypeOK
<1>2. ASSUME NEW target, NEW states, NEW frames, CallWakers(target, states, frames)
      PROVE  unparked' \in BOOLEAN
  BY <1>1, <1>2, Zenon DEF CallWakers
<1>3. UNCHANGED event => EventIsAllowed' /\ event' \in {"before", "completed", "flagged", "woke"}
  BY <1>1 DEF EventIsAllowed
<1> DEFINE Goal == /\ is_main_thread' \in BOOLEAN /\ unparked' \in BOOLEAN
                   /\ UNCHANGED randomize_order
                   /\ event' \in {"before", "completed", "flagged", "woke"} /\ EventIsAllowed'
<1>4. ASSUME UNCHANGED <<is_main_thread, randomize_order, event>>, unparked' \in BOOLEAN
      PROVE  Goal
  BY <1>1, <1>3, <1>4
<1>5. ASSUME is_main_thread' \in BOOLEAN, UNCHANGED <<randomize_order, event>>,
             unparked' \in BOOLEAN
      PROVE  Goal
  BY <1>3, <1>5
<1> HIDE DEF Goal
<1>6. ASSUME NEW t \in Tasks, Spawn(t) PROVE Goal
  BY <1>4, <1>6 DEF Spawn, Unmoved
<1>7. ASSUME NEW d \in Durations, MakeTimer(d) PROVE Goal
  BY <1>1, <1>4, <1>7 DEF MakeTimer, Unmoved
<1>8. InTask /\ EndPoll => is_main_thread' \in BOOLEAN
  BY EndPollQueue DEF EndPoll
<1>9. ASSUME NEW target \in Targets, Await(target) PROVE Goal
  BY <1>1, <1>5, <1>8, <1>9 DEF Await, Unmoved
<1>10. ASSUME YieldNow PROVE Goal
  BY <1>5, <1>8, <1>10 DEF YieldNow, Unmoved
<1>11. ASSUME Finish PROVE Goal
  BY <1>2, <1>5, <1>8, <1>11 DEF Finish, Unmoved
<1>12. ASSUME NEW s \in Sessions \cup {None}, NEW target \in Targets, NEW timed \in BOOLEAN,
              Block(s, target, timed)
       PROVE  Goal
  BY <1>1, <1>4, <1>12 DEF Block, Unmoved
<1>13. ASSUME NEW f, Call(f) PROVE Goal
  BY <1>1, <1>4, <1>13 DEF Call, Unmoved
<1>14. ASSUME NEW frames, DropTimer(frames) PROVE Goal
  BY <1>2, <1>4, <1>14 DEF DropTimer, Unmoved
<1>15. ASSUME NEW background_only, RunCandidate(background_only) PROVE Goal
  <2>1. is_main_thread' \in BOOLEAN
    BY <1>15 DEF RunCandidate
  <2>2. UNCHANGED <<randomize_order, event, unparked>>
    BY <1>15 DEF RunCandidate, Unmoved
  <2> QED BY <1>1, <1>5, <2>1, <2>2
<1>16. ASSUME Quiescent, UNCHANGED randomize_order, unparked' \in BOOLEAN PROVE Goal
  BY <1>4, <1>16 DEF Quiescent
<1>17. ASSUME AdvanceToNextTimer \/ RunEnds \/ AdvanceClock \/ BlockPoll \/ BlockOutOfTicks
              \/ BlockStopsStepping \/ BlockCheck \/ ParkTimePasses \/ ParkDeadline
       PROVE  Goal
  <2>1. Quiescent /\ UNCHANGED <<randomize_order, unparked>>
    BY <1>17 DEF AdvanceToNextTimer, RunEnds, AdvanceClock, BlockPoll, BlockOutOfTicks,
                 BlockStopsStepping, BlockCheck, ParkTimePasses, ParkDeadline, Unmoved
  <2> QED BY <1>1, <1>16, <2>1
<1>18. ASSUME ParkReturns PROVE Goal
  <2>1. Quiescent /\ UNCHANGED randomize_order
    BY <1>18 DEF ParkReturns, Unmoved
  <2>2. unparked' \in BOOLEAN
    BY <1>18, Zenon DEF ParkReturns
  <2> QED BY <1>16, <2>1, <2>2
<1>19. ASSUME ExternalCompletes \/ ExternalWakes \/ ExternalSetsAwoken PROVE Goal
  <2>1. UNCHANGED <<is_main_thread, randomize_order>>
    BY <1>19 DEF ExternalCompletes, ExternalWakes, ExternalSetsAwoken, Elsewhere
  <2>2. event' \in {"before", "completed", "flagged", "woke"}
    BY <1>19 DEF ExternalCompletes, ExternalWakes, ExternalSetsAwoken
  <2>3. allow_parking
    BY <1>19 DEF ExternalCompletes, ExternalWakes, ExternalSetsAwoken, EventIsAllowed
  <2>4. unparked' \in BOOLEAN
    <3>1. CASE UNCHANGED unparked
      BY <1>1, <3>1
    <3>2. CASE CallWakers(External, task, stack)
      BY <1>2, <3>2
    <3>3. CASE unparked' = (unparked \/ IsAwaited(External))
      BY <3>3, Zenon
    <3> QED BY <1>19, <3>1, <3>2, <3>3 DEF ExternalCompletes, ExternalWakes, ExternalSetsAwoken
  <2> QED BY <1>1, <2>1, <2>2, <2>3, <2>4 DEF Goal, EventIsAllowed
<1>20. Goal
  BY <1>6, <1>7, <1>9, <1>10, <1>11, <1>12, <1>13, <1>14, <1>15, <1>17, <1>18, <1>19
     DEF SchedulerNext, Tick, StepExpires, ExpireTimers, DropNext, StepRuns
<1> QED BY <1>20 DEF Goal

-----------------------------------------------------------------------------
(* The theorems.                                                           *)

\* The scheduler starts in the invariant.
LEMMA InitHolds ==
    ASSUME SchedulerInit
    PROVE  IndInv
<1>1. /\ runnables = <<>> /\ timers = <<>> /\ blocked_sessions = <<>> /\ stack = <<>>
      /\ is_main_thread = TRUE /\ unparked = FALSE /\ clock = 0 /\ made = 0
      /\ task = [t \in Tasks |-> "new"] /\ event = "before" /\ earlier = {} /\ panicked = FALSE
  BY DEF SchedulerInit
<1>2. randomize_order \in BOOLEAN /\ allow_parking \in BOOLEAN
  <2>1. PICK mode \in Modes : randomize_order = mode[1] /\ allow_parking = mode[2]
    BY DEF SchedulerInit
  <2>2. mode \in BOOLEAN \X BOOLEAN
    BY ModeAssumption
  <2> QED BY <2>1, <2>2
<1>3. SchedulerTypeOK
  <2>1. /\ runnables \in Seq(Tasks) /\ timers \in Seq([expiration : Nat, id : Nat])
        /\ blocked_sessions \in Seq(Sessions) /\ stack \in Seq(Frames)
    BY <1>1
  <2>2. is_main_thread \in BOOLEAN /\ unparked \in BOOLEAN /\ panicked \in BOOLEAN
    BY <1>1, Zenon
  <2>3. /\ clock \in Nat /\ made \in Nat /\ event \in {"before", "completed", "flagged", "woke"}
        /\ task \in [Tasks -> {"new", "queued", "running", "idle", "done"}]
        /\ earlier \subseteq Tasks \X Tasks
    BY <1>1
  <2> QED BY <1>2, <2>1, <2>2, <2>3, Zenon DEF SchedulerTypeOK
<1>4. StackInv
  <2> DEFINE at == [i \in 1..0 |-> i]
  <2>1. at \in [1..Len(blocked_sessions) -> 1..Len(stack)]
    BY <1>1
  <2>2. Blocks(at, stack, blocked_sessions)
    BY <1>1, <2>1 DEF Blocks
  <2>3. BlockedMatches
    BY <2>1, <2>2 DEF BlockedMatches
  <2> QED BY <1>1, <2>3 DEF StackInv, BlockedIsQuiet, CallersStep
<1>5. RunnablesInv /\ FramesInv
  BY <1>1 DEF RunnablesInv, FramesInv, SessionInOrder
<1>6. TimersSorted /\ TimersOnTime
  BY <1>1 DEF TimersSorted, TimersOnTime
<1>7. EventIsAllowed /\ BeginInv /\ TurnInv /\ PanicInv /\ PanicsOnlyWhenStuck
  BY <1>1 DEF EventIsAllowed, BeginInv, TurnInv, PanicInv, PanicsOnlyWhenStuck
<1> QED BY <1>3, <1>4, <1>5, <1>6, <1>7 DEF IndInv

\* Every action keeps it.
LEMMA NextHolds ==
    ASSUME IndInv, SchedulerNext
    PROVE  IndInv'
<1> USE DEF IndInv
<1>1. StackInv' /\ UNCHANGED allow_parking
  BY NextMoves, MovesKeepStack
<1>2. RunnablesInv' /\ runnables' \in Seq(Tasks)
  <2>1. runnables \in Seq(Tasks) /\ QueueMoves
    BY NextQueues DEF SchedulerTypeOK
  <2> QED BY <2>1, SameQueueKeeps, AddsKeeps, RemovesKeeps DEF QueueMoves
<1>3. FramesInv'
  BY NextMoves, NextQueues, FramesKeep
<1>4. TimersInv'
  BY NextTimers DEF TimersInv, SchedulerTypeOK, Timers
<1>5. BeginInv' /\ TurnInv'
  BY NextIsAlive, NextTurns DEF TurnsInv
<1>6. panicked' \in BOOLEAN /\ PanicInv' /\ PanicsOnlyWhenStuck'
  BY NextPanics DEF TurnsInv
<1>7. /\ is_main_thread' \in BOOLEAN /\ unparked' \in BOOLEAN /\ UNCHANGED randomize_order
      /\ event' \in {"before", "completed", "flagged", "woke"} /\ EventIsAllowed'
  BY NextFlags
<1>8. task' \in [Tasks -> {"new", "queued", "running", "idle", "done"}]
  BY NextQueues DEF TaskStates
<1>9. earlier' \subseteq Tasks \X Tasks
  BY <1>2 DEF RunnablesInv, Queued
<1>10. SchedulerTypeOK'
  BY <1>1, <1>2, <1>4, <1>6, <1>7, <1>8, <1>9 DEF SchedulerTypeOK, StackInv, TimersInv, Timers
<1> QED BY <1>1, <1>2, <1>3, <1>4, <1>5, <1>6, <1>7, <1>10 DEF TimersInv

\* IndInv is an invariant of every test that the scheduler runs.
THEOREM IndInvHolds == SchedulerSpec => []IndInv
<1>1. SchedulerInit => IndInv
  BY InitHolds
<1>2. IndInv /\ [SchedulerNext]_schedulerVars => IndInv'
  <2> SUFFICES ASSUME IndInv, [SchedulerNext]_schedulerVars
               PROVE  IndInv'
    OBVIOUS
  <2>1. CASE SchedulerNext
    BY <2>1, NextHolds
  <2>2. CASE UNCHANGED schedulerVars
    <3> USE <2>2 DEF schedulerVars, IndInv
    <3>1. SchedulerTypeOK'
      BY DEF SchedulerTypeOK
    <3>2. StackInv'
      BY DEF StackInv, MayPark, BlockedMatches, BlockedIsQuiet, CallersStep
    <3>3. RunnablesInv' /\ FramesInv'
      BY DEF RunnablesInv, Queued, SessionInOrder, FramesInv
    <3>4. TimersSorted' /\ TimersOnTime' /\ EventIsAllowed'
      BY DEF TimersSorted, TimersOnTime, EventIsAllowed
    <3>5. BeginInv' /\ TurnInv' /\ PanicInv' /\ PanicsOnlyWhenStuck'
      BY DEF BeginInv, TurnInv, PanicInv, PanicsOnlyWhenStuck, Top, IsReady, Candidates
    <3> QED BY <3>1, <3>2, <3>3, <3>4, <3>5
  <2> QED BY <2>1, <2>2
<1> QED BY <1>1, <1>2, PTL DEF SchedulerSpec

\* A session is serial: its runnables stay in the order they were scheduled
\* in, and none runs inside a block of another, however deep they nest.
THEOREM SessionsStaySerial == SchedulerSpec => []SessionIsSerial
<1>1. IndInv => SessionIsSerial
  BY DEF IndInv, RunnablesInv, StackInv, SessionIsSerial
<1> QED BY <1>1, IndInvHolds, PTL

\* Without parking no timer is late, whoever moves the clock.
THEOREM TimersStayOnTime == SchedulerSpec => []TimersOnTime
<1>1. IndInv => TimersOnTime
  BY DEF IndInv
<1> QED BY <1>1, IndInvHolds, PTL

\* A block panics only when its future is not ready and nothing it may run
\* could change that, in both modes and with the other thread at any point.
THEOREM NeverPanicsEarly == SchedulerSpec => []PanicsOnlyWhenStuck
<1>1. IndInv => PanicsOnlyWhenStuck
  BY DEF IndInv
<1> QED BY <1>1, IndInvHolds, PTL

=============================================================================
