------------------------------ MODULE App_proofs ------------------------------
(***************************************************************************)
(* Proofs about App, for any entities, windows and globals, any depth of   *)
(* nested calls and any length of the queue.                               *)
(*                                                                         *)
(* The inductive invariant has three parts.  QueueInv: the sets push_effect *)
(* tests mirror the queue, and an observer is owed a call only while its   *)
(* entity is in them.  StackInv: pending_updates counts the updates among  *)
(* the calls in progress, window_update_stack lists the windows among      *)
(* them, and a flush is below no other update.  HeldInv: a live entity is  *)
(* held by somebody, or waits for its release.  The lemmas about the stack *)
(* are stated for any sequence of calls, so that a step which pops a call  *)
(* and pushes another uses one after the other.                            *)
(***************************************************************************)
EXTENDS App, FiniteSetTheorems, SequenceTheorems, TLAPS

-----------------------------------------------------------------------------
(* Sequences.                                                              *)

LEMMA AppendFacts ==
    ASSUME NEW S, NEW s \in Seq(S), NEW x \in S
    PROVE  /\ Append(s, x) \in Seq(S) /\ Len(s) \in Nat
           /\ Len(Append(s, x)) = Len(s) + 1
           /\ Append(s, x)[Len(s) + 1] = x
           /\ \A k \in 1..Len(s) : k # Len(s) + 1 /\ k \in 1..(Len(s) + 1)
                                   /\ Append(s, x)[k] = s[k]
           /\ \A k \in 1..(Len(s) + 1) : k = Len(s) + 1 \/ k \in 1..Len(s)
           /\ Len(s) + 1 \in 1..(Len(s) + 1)
           /\ Append(s, x) # <<>>
<1>1. /\ Append(s, x) \in Seq(S) /\ Len(s) \in Nat
      /\ Len(Append(s, x)) = Len(s) + 1
      /\ Append(s, x)[Len(s) + 1] = x
      /\ \A k \in 1..Len(s) : Append(s, x)[k] = s[k]
  OBVIOUS
<1>2. /\ \A k \in 1..Len(s) : k # Len(s) + 1 /\ k \in 1..(Len(s) + 1)
      /\ \A k \in 1..(Len(s) + 1) : k = Len(s) + 1 \/ k \in 1..Len(s)
      /\ Len(s) + 1 \in 1..(Len(s) + 1)
  BY <1>1
<1>3. Append(s, x) # <<>>
  BY <1>1
<1> QED BY <1>1, <1>2, <1>3

LEMMA FrontFacts ==
    ASSUME NEW S, NEW s \in Seq(S), s # <<>>
    PROVE  /\ Front(s) \in Seq(S) /\ Len(s) \in Nat /\ Len(s) \in 1..Len(s)
           /\ Len(s) - 1 \in Nat /\ Len(s) = Len(s) - 1 + 1
           /\ Len(Front(s)) = Len(s) - 1
           /\ s[Len(s)] \in S
           /\ \A k \in 1..(Len(s) - 1) : k \in 1..Len(s) /\ k # Len(s)
                                         /\ Front(s)[k] = s[k]
           /\ \A k \in 1..Len(s) : k = Len(s) \/ k \in 1..(Len(s) - 1)
<1> DEFINE n == Len(s)
<1>1. n \in Nat /\ n \in 1..n /\ n - 1 \in Nat /\ s[n] \in S /\ n = n - 1 + 1
  OBVIOUS
<1>a. \A k \in 1..n : s[k] \in S
  BY ElementOfSeq
<1> HIDE DEF n
<1>2. \A k \in 1..(n - 1) : k \in 1..n /\ k # n /\ 1 + k - 1 = k /\ s[k] \in S
  BY <1>1, <1>a
<1>3. \A k \in 1..n : k = n \/ k \in 1..(n - 1)
  BY <1>1
<1>4. /\ SubSeq(s, 1, n - 1) \in Seq(S)
      /\ Len(SubSeq(s, 1, n - 1)) = IF 1 <= n - 1 THEN n - 1 - 1 + 1 ELSE 0
      /\ \A k \in 1..(n - 1 - 1 + 1) : SubSeq(s, 1, n - 1)[k] = s[1 + k - 1]
  BY <1>1, <1>2, SubSeqProperties
<1>5. /\ Len(SubSeq(s, 1, n - 1)) = n - 1
      /\ \A k \in 1..(n - 1) : SubSeq(s, 1, n - 1)[k] = s[k]
  BY <1>1, <1>2, <1>4
<1>6. Front(s) = SubSeq(s, 1, n - 1) /\ n = Len(s)
  BY DEF Front, n
<1> QED BY <1>1, <1>2, <1>3, <1>4, <1>5, <1>6

LEMMA TailFacts ==
    ASSUME NEW S, NEW s \in Seq(S), s # <<>>
    PROVE  /\ Head(s) \in S /\ Head(s) = s[1] /\ Tail(s) \in Seq(S)
           /\ 1 \in 1..Len(s) /\ Len(s) \in Nat
           /\ \A k \in 1..Len(Tail(s)) : k + 1 \in 1..Len(s) /\ Tail(s)[k] = s[k + 1]
                                         /\ k + 1 # 1
           /\ \A k \in 1..Len(s) : k = 1 \/ (k - 1 \in 1..Len(Tail(s)) /\ Tail(s)[k - 1] = s[k])
<1>1. /\ Head(s) \in S /\ Head(s) = s[1] /\ Tail(s) \in Seq(S)
      /\ Len(s) \in Nat /\ Len(s) # 0 /\ Len(Tail(s)) = Len(s) - 1
      /\ \A k \in 1..Len(Tail(s)) : Tail(s)[k] = s[k + 1]
  OBVIOUS
<1>2. /\ 1 \in 1..Len(s)
      /\ \A k \in 1..Len(Tail(s)) : k + 1 \in 1..Len(s) /\ k + 1 # 1
      /\ \A k \in 1..Len(s) : k = 1 \/ (k - 1 \in 1..Len(Tail(s)) /\ k - 1 + 1 = k)
  BY <1>1
<1> QED BY <1>1, <1>2

-----------------------------------------------------------------------------
(* The calls in progress.                                                  *)

\* A call of one of these is an update that has not ended.
UpdateKinds == {"update", "window", "open", "new", "insert", "flush", "closing"}
\* A call of one of these has a window.
WindowKinds == {"window", "open"}
\* The callbacks of the flush.
Callbacks == {"effect", "release", "created"}

\* How many of the first d calls are of one of the kinds.
UpTo(cs, kinds, d) == Cardinality({c \in 1..d : cs[c].call \in kinds})

LEMMA UpToIsNat ==
    ASSUME NEW cs, NEW kinds, NEW d \in Nat
    PROVE  /\ UpTo(cs, kinds, d) \in Nat
           /\ IsFiniteSet({c \in 1..d : cs[c].call \in kinds})
<1>1. IsFiniteSet(1..d)
  BY FS_Interval
<1>2. IsFiniteSet({c \in 1..d : cs[c].call \in kinds})
  BY <1>1, FS_Subset
<1> QED BY <1>2, FS_CardinalityType DEF UpTo

LEMMA UpToZero ==
    ASSUME NEW cs, NEW kinds
    PROVE  UpTo(cs, kinds, 0) = 0
<1>1. {c \in 1..0 : cs[c].call \in kinds} = {}
  OBVIOUS
<1> QED BY <1>1, FS_EmptySet DEF UpTo

LEMMA UpToStep ==
    ASSUME NEW cs, NEW kinds, NEW d \in Nat
    PROVE  UpTo(cs, kinds, d + 1) = UpTo(cs, kinds, d)
                                    + IF cs[d + 1].call \in kinds THEN 1 ELSE 0
<1> DEFINE A == {c \in 1..d : cs[c].call \in kinds}
           B == {c \in 1..(d + 1) : cs[c].call \in kinds}
<1>1. /\ \A c \in 1..d : c \in 1..(d + 1) /\ c # d + 1
      /\ \A c \in 1..(d + 1) : c \in 1..d \/ c = d + 1
      /\ d + 1 \in 1..(d + 1)
  OBVIOUS
<1>2. IsFiniteSet(A) /\ Cardinality(A) \in Nat
  BY UpToIsNat DEF UpTo
<1>3. CASE cs[d + 1].call \in kinds
  <2>1. B = A \cup {d + 1} /\ d + 1 \notin A
    BY <1>1, <1>3
  <2>2. Cardinality(B) = Cardinality(A) + 1
    BY <1>2, <2>1, FS_AddElement
  <2> QED BY <1>3, <2>2 DEF UpTo
<1>4. CASE cs[d + 1].call \notin kinds
  <2>1. B = A
    BY <1>1, <1>4
  <2>2. UpTo(cs, kinds, d + 1) = Cardinality(A) /\ UpTo(cs, kinds, d) = Cardinality(A)
    BY <2>1 DEF UpTo
  <2> QED BY <1>2, <1>4, <2>2
<1> QED BY <1>3, <1>4

LEMMA UpToSame ==
    ASSUME NEW cs, NEW ds, NEW kinds, NEW d, \A c \in 1..d : cs[c] = ds[c]
    PROVE  UpTo(cs, kinds, d) = UpTo(ds, kinds, d)
<1>1. {c \in 1..d : cs[c].call \in kinds} = {c \in 1..d : ds[c].call \in kinds}
  OBVIOUS
<1> QED BY <1>1 DEF UpTo

LEMMA UpToGrows ==
    ASSUME NEW cs, NEW kinds, NEW d \in Nat, NEW c \in 1..d
    PROVE  /\ UpTo(cs, kinds, c) <= UpTo(cs, kinds, d)
           /\ cs[c].call \in kinds => UpTo(cs, kinds, c) >= 1
<1>1. \A b \in 1..c : b \in 1..d
  OBVIOUS
<1> DEFINE A == {b \in 1..c : cs[b].call \in kinds}
           B == {b \in 1..d : cs[b].call \in kinds}
<1>2. A \in SUBSET B /\ IsFiniteSet(B)
  BY <1>1, UpToIsNat
<1>3. UpTo(cs, kinds, c) <= UpTo(cs, kinds, d)
  <2>1. UpTo(cs, kinds, c) = Cardinality(A) /\ UpTo(cs, kinds, d) = Cardinality(B)
    BY DEF UpTo
  <2> HIDE DEF A, B
  <2> QED BY <1>2, <2>1, FS_Subset
<1>4. c - 1 \in Nat /\ c - 1 + 1 = c
  OBVIOUS
<1>5. UpTo(cs, kinds, c) = UpTo(cs, kinds, c - 1) + IF cs[c].call \in kinds THEN 1 ELSE 0
  BY <1>4, UpToStep
<1>6. UpTo(cs, kinds, c - 1) \in Nat
  BY <1>4, UpToIsNat
<1> QED BY <1>3, <1>5, <1>6

LEMMA UpToFewer ==
    ASSUME NEW cs, NEW kinds, NEW fewer \in SUBSET kinds, NEW d \in Nat
    PROVE  UpTo(cs, fewer, d) <= UpTo(cs, kinds, d)
<1> DEFINE A == {b \in 1..d : cs[b].call \in fewer}
           B == {b \in 1..d : cs[b].call \in kinds}
<1>1. A \in SUBSET B /\ IsFiniteSet(B)
  BY UpToIsNat
<1>2. UpTo(cs, fewer, d) = Cardinality(A) /\ UpTo(cs, kinds, d) = Cardinality(B)
  BY DEF UpTo
<1> HIDE DEF A, B
<1> QED BY <1>1, <1>2, FS_Subset

LEMMA UpToAppend ==
    ASSUME NEW cs \in Seq(Calls), NEW c \in Calls, NEW kinds
    PROVE  /\ UpTo(Append(cs, c), kinds, Len(cs) + 1)
                = UpTo(cs, kinds, Len(cs)) + IF c.call \in kinds THEN 1 ELSE 0
           /\ \A d \in 1..Len(cs) : UpTo(Append(cs, c), kinds, d) = UpTo(cs, kinds, d)
<1> DEFINE ds == Append(cs, c)
           n == Len(cs)
<1>1. n \in Nat /\ ds[n + 1] = c /\ \A k \in 1..n : ds[k] = cs[k]
  BY AppendFacts
<1> HIDE DEF ds, n
<1>2. UpTo(ds, kinds, n) = UpTo(cs, kinds, n)
  BY <1>1, UpToSame
<1>3. UpTo(ds, kinds, n + 1) = UpTo(ds, kinds, n) + IF ds[n + 1].call \in kinds THEN 1 ELSE 0
  BY <1>1, UpToStep
<1>4. ASSUME NEW d \in 1..n PROVE UpTo(ds, kinds, d) = UpTo(cs, kinds, d)
  <2>1. \A k \in 1..d : k \in 1..n
    BY <1>1
  <2> QED BY <1>1, <2>1, UpToSame
<1>5. ds = Append(cs, c) /\ n = Len(cs)
  BY DEF ds, n
<1> QED BY <1>1, <1>2, <1>3, <1>4, <1>5

LEMMA UpToFront ==
    ASSUME NEW cs \in Seq(Calls), cs # <<>>, NEW kinds
    PROVE  /\ UpTo(cs, kinds, Len(cs)) = UpTo(Front(cs), kinds, Len(cs) - 1)
                                         + IF cs[Len(cs)].call \in kinds THEN 1 ELSE 0
           /\ UpTo(Front(cs), kinds, Len(cs) - 1) \in Nat
           /\ \A d \in 1..(Len(cs) - 1) :
                 /\ UpTo(Front(cs), kinds, d) = UpTo(cs, kinds, d)
                 /\ UpTo(cs, kinds, d) <= UpTo(Front(cs), kinds, Len(cs) - 1)
                 /\ UpTo(cs, kinds, d) \in Nat
                 /\ cs[d].call \in kinds => UpTo(cs, kinds, d) >= 1
<1> DEFINE ds == Front(cs)
           n == Len(cs) - 1
<1>1. n \in Nat /\ Len(cs) = n + 1 /\ \A k \in 1..n : ds[k] = cs[k]
  BY FrontFacts
<1> HIDE DEF ds, n
<1>2. UpTo(ds, kinds, n) = UpTo(cs, kinds, n)
  BY <1>1, UpToSame
<1>3. UpTo(cs, kinds, n + 1) = UpTo(cs, kinds, n) + IF cs[n + 1].call \in kinds THEN 1 ELSE 0
  BY <1>1, UpToStep
<1>4. UpTo(ds, kinds, n) \in Nat
  BY <1>1, UpToIsNat
<1>5. ASSUME NEW d \in 1..n
      PROVE  /\ UpTo(ds, kinds, d) = UpTo(cs, kinds, d)
             /\ UpTo(cs, kinds, d) <= UpTo(cs, kinds, n)
             /\ UpTo(cs, kinds, d) \in Nat
             /\ cs[d].call \in kinds => UpTo(cs, kinds, d) >= 1
  <2>1. d \in Nat /\ \A k \in 1..d : k \in 1..n
    BY <1>1
  <2>2. UpTo(ds, kinds, d) = UpTo(cs, kinds, d)
    BY <1>1, <2>1, UpToSame
  <2> QED BY <1>1, <2>1, <2>2, UpToGrows, UpToIsNat
<1>6. ds = Front(cs) /\ n = Len(cs) - 1
  BY DEF ds, n
<1> QED BY <1>1, <1>2, <1>3, <1>4, <1>5, <1>6

\* n counts the updates among the calls cs, st lists their windows.  A flush
\* is the first update and has no window below it; a callback of the flush is
\* above something; and a call has what it needs to end.
CallFits(cs, st, d) ==
    /\ cs[d].call \in WindowKinds =>
          cs[d].on \in Windows /\ st[UpTo(cs, WindowKinds, d)] = cs[d].on
    /\ cs[d].call = "flush" =>
          UpTo(cs, UpdateKinds, d) = 1 /\ UpTo(cs, WindowKinds, d) = 0
    /\ cs[d].call \in Callbacks => d # 1
    /\ cs[d].call \in {"new", "insert", "created"} => cs[d].on \in Entities

StackOK(cs, n, st) ==
    /\ cs \in Seq(Calls) /\ st \in Seq(Windows)
    /\ n = UpTo(cs, UpdateKinds, Len(cs))
    /\ Len(st) = UpTo(cs, WindowKinds, Len(cs))
    /\ \A d \in 1..Len(cs) : CallFits(cs, st, d)

\* Pushing a call that takes no window.
LEMMA PushCall ==
    ASSUME NEW cs, NEW n, NEW st, StackOK(cs, n, st), NEW c \in Calls,
           c.call \notin WindowKinds,
           c.call = "flush" => n = 0,
           c.call \in Callbacks => cs # <<>>,
           c.call \in {"new", "insert", "created"} => c.on \in Entities
    PROVE  StackOK(Append(cs, c), IF c.call \in UpdateKinds THEN n + 1 ELSE n, st)
<1> DEFINE ds == Append(cs, c)
           m == Len(cs)
<1>1. cs \in Seq(Calls) /\ st \in Seq(Windows) /\ n = UpTo(cs, UpdateKinds, m)
      /\ Len(st) = UpTo(cs, WindowKinds, m) /\ \A d \in 1..m : CallFits(cs, st, d)
  BY DEF StackOK
<1>2. /\ ds \in Seq(Calls) /\ m \in Nat /\ Len(ds) = m + 1 /\ ds[m + 1] = c
      /\ \A d \in 1..m : ds[d] = cs[d]
      /\ \A d \in 1..(m + 1) : d = m + 1 \/ d \in 1..m
  BY <1>1, AppendFacts
<1>3. /\ UpTo(ds, UpdateKinds, m + 1) = UpTo(cs, UpdateKinds, m)
                                        + IF c.call \in UpdateKinds THEN 1 ELSE 0
      /\ UpTo(ds, WindowKinds, m + 1) = UpTo(cs, WindowKinds, m)
                                        + IF c.call \in WindowKinds THEN 1 ELSE 0
      /\ \A d \in 1..m : UpTo(ds, UpdateKinds, d) = UpTo(cs, UpdateKinds, d)
                         /\ UpTo(ds, WindowKinds, d) = UpTo(cs, WindowKinds, d)
  BY <1>1, UpToAppend
<1>4. /\ n \in Nat /\ UpTo(cs, WindowKinds, m) \in Nat
      /\ UpTo(cs, WindowKinds, m) <= n
  BY <1>1, <1>2, UpToIsNat, UpToFewer DEF UpdateKinds, WindowKinds
<1> HIDE DEF ds
<1>5. \A d \in 1..m : CallFits(ds, st, d)
  BY <1>1, <1>2, <1>3 DEF CallFits
<1>6. CallFits(ds, st, m + 1)
  <2>1. c.call \in Callbacks => m + 1 # 1
    BY <1>1, <1>2
  <2>2. c.call = "flush" => /\ UpTo(ds, UpdateKinds, m + 1) = 1
                            /\ UpTo(ds, WindowKinds, m + 1) = 0
    BY <1>1, <1>3, <1>4 DEF UpdateKinds
  <2> QED BY <1>2, <2>1, <2>2 DEF CallFits
<1>7. UpTo(ds, UpdateKinds, m + 1) = IF c.call \in UpdateKinds THEN n + 1 ELSE n
  BY <1>1, <1>3, <1>4
<1>8. UpTo(ds, WindowKinds, m + 1) = Len(st)
  BY <1>1, <1>3, <1>4
<1>9. StackOK(ds, IF c.call \in UpdateKinds THEN n + 1 ELSE n, st)
  BY <1>1, <1>2, <1>5, <1>6, <1>7, <1>8 DEF StackOK
<1> QED BY <1>9 DEF ds

\* Pushing the call that has window w, with the window.
LEMMA PushWindow ==
    ASSUME NEW cs, NEW n, NEW st, StackOK(cs, n, st), NEW c \in Calls,
           c.call \in WindowKinds, c.on \in Windows
    PROVE  StackOK(Append(cs, c), n + 1, Append(st, c.on))
<1> DEFINE ds == Append(cs, c)
           m == Len(cs)
           rt == Append(st, c.on)
<1>1. cs \in Seq(Calls) /\ st \in Seq(Windows) /\ n = UpTo(cs, UpdateKinds, m)
      /\ Len(st) = UpTo(cs, WindowKinds, m) /\ \A d \in 1..m : CallFits(cs, st, d)
  BY DEF StackOK
<1>2. /\ ds \in Seq(Calls) /\ m \in Nat /\ Len(ds) = m + 1 /\ ds[m + 1] = c
      /\ \A d \in 1..m : ds[d] = cs[d]
      /\ \A d \in 1..(m + 1) : d = m + 1 \/ d \in 1..m
  BY <1>1, AppendFacts
<1>3. /\ UpTo(ds, UpdateKinds, m + 1) = n + 1
      /\ UpTo(ds, WindowKinds, m + 1) = Len(st) + 1
      /\ \A d \in 1..m : UpTo(ds, UpdateKinds, d) = UpTo(cs, UpdateKinds, d)
                         /\ UpTo(ds, WindowKinds, d) = UpTo(cs, WindowKinds, d)
  BY <1>1, UpToAppend DEF UpdateKinds, WindowKinds
<1>4. /\ rt \in Seq(Windows) /\ Len(rt) = Len(st) + 1 /\ rt[Len(st) + 1] = c.on
      /\ \A k \in 1..Len(st) : rt[k] = st[k]
  BY <1>1, AppendFacts
<1>5. ASSUME NEW d \in 1..m, cs[d].call \in WindowKinds
      PROVE  UpTo(cs, WindowKinds, d) \in 1..Len(st)
  <2>1. /\ UpTo(cs, WindowKinds, d) <= Len(st)
        /\ UpTo(cs, WindowKinds, d) >= 1
    BY <1>1, <1>2, <1>5, UpToGrows
  <2>2. d \in Nat
    BY <1>2
  <2>3. UpTo(cs, WindowKinds, d) \in Nat
    BY <2>2, UpToIsNat
  <2>4. Len(st) \in Nat
    BY <1>1
  <2> QED BY <2>1, <2>3, <2>4
<1> HIDE DEF ds, rt
<1>6. \A d \in 1..m : CallFits(ds, rt, d)
  BY <1>1, <1>2, <1>3, <1>4, <1>5 DEF CallFits
<1>7. CallFits(ds, rt, m + 1)
  BY <1>2, <1>3, <1>4 DEF CallFits, WindowKinds, Callbacks
<1>8. StackOK(ds, n + 1, rt)
  BY <1>2, <1>3, <1>4, <1>6, <1>7 DEF StackOK
<1> QED BY <1>8 DEF ds, rt

\* Popping a call that has no window.
LEMMA PopCall ==
    ASSUME NEW cs, NEW n, NEW st, StackOK(cs, n, st), cs # <<>>,
           cs[Len(cs)].call \notin WindowKinds
    PROVE  /\ StackOK(Front(cs), IF cs[Len(cs)].call \in UpdateKinds THEN n - 1 ELSE n, st)
           /\ n \in Nat
           /\ cs[Len(cs)].call \in UpdateKinds => n >= 1
<1> DEFINE ds == Front(cs)
           m == Len(cs) - 1
           top == cs[Len(cs)]
<1>1. cs \in Seq(Calls) /\ st \in Seq(Windows) /\ n = UpTo(cs, UpdateKinds, Len(cs))
      /\ Len(st) = UpTo(cs, WindowKinds, Len(cs)) /\ \A d \in 1..Len(cs) : CallFits(cs, st, d)
  BY DEF StackOK
<1>2. /\ ds \in Seq(Calls) /\ Len(ds) = m
      /\ \A d \in 1..m : ds[d] = cs[d] /\ d \in 1..Len(cs)
  BY <1>1, FrontFacts
<1>3. /\ n = UpTo(ds, UpdateKinds, m) + IF top.call \in UpdateKinds THEN 1 ELSE 0
      /\ Len(st) = UpTo(ds, WindowKinds, m) + 0
      /\ UpTo(ds, UpdateKinds, m) \in Nat /\ UpTo(ds, WindowKinds, m) \in Nat
      /\ \A d \in 1..m : UpTo(ds, UpdateKinds, d) = UpTo(cs, UpdateKinds, d)
                         /\ UpTo(ds, WindowKinds, d) = UpTo(cs, WindowKinds, d)
  BY <1>1, UpToFront
<1> HIDE DEF ds, m, top
<1>4. \A d \in 1..m : CallFits(ds, st, d)
  BY <1>1, <1>2, <1>3 DEF CallFits
<1>5. /\ UpTo(ds, UpdateKinds, m) = IF top.call \in UpdateKinds THEN n - 1 ELSE n
      /\ n \in Nat
      /\ top.call \in UpdateKinds => n >= 1
  BY <1>3
<1>6. Len(st) = UpTo(ds, WindowKinds, m)
  BY <1>3
<1>7. StackOK(ds, IF top.call \in UpdateKinds THEN n - 1 ELSE n, st)
  BY <1>1, <1>2, <1>4, <1>5, <1>6 DEF StackOK
<1> QED BY <1>5, <1>7 DEF ds, top

\* Popping a call that has a window, with the window: it is the last one.
LEMMA PopWindow ==
    ASSUME NEW cs, NEW n, NEW st, StackOK(cs, n, st), cs # <<>>,
           cs[Len(cs)].call \in WindowKinds
    PROVE  /\ StackOK(Front(cs), n - 1, Front(st))
           /\ n \in Nat /\ n >= 1
           /\ st # <<>> /\ st[Len(st)] = cs[Len(cs)].on
<1> DEFINE ds == Front(cs)
           m == Len(cs) - 1
           top == cs[Len(cs)]
           rt == Front(st)
<1>1. cs \in Seq(Calls) /\ st \in Seq(Windows) /\ n = UpTo(cs, UpdateKinds, Len(cs))
      /\ Len(st) = UpTo(cs, WindowKinds, Len(cs)) /\ \A d \in 1..Len(cs) : CallFits(cs, st, d)
  BY DEF StackOK
<1>2. /\ ds \in Seq(Calls) /\ Len(ds) = m /\ Len(cs) \in 1..Len(cs)
      /\ \A d \in 1..m : ds[d] = cs[d] /\ d \in 1..Len(cs)
  BY <1>1, FrontFacts
<1>3. /\ n = UpTo(ds, UpdateKinds, m) + 1
      /\ Len(st) = UpTo(ds, WindowKinds, m) + 1
      /\ UpTo(ds, UpdateKinds, m) \in Nat /\ UpTo(ds, WindowKinds, m) \in Nat
      /\ \A d \in 1..m : UpTo(ds, UpdateKinds, d) = UpTo(cs, UpdateKinds, d)
                         /\ UpTo(ds, WindowKinds, d) = UpTo(cs, WindowKinds, d)
  BY <1>1, UpToFront DEF UpdateKinds, WindowKinds
<1>4. \A d \in 1..m : cs[d].call \in WindowKinds =>
                         UpTo(cs, WindowKinds, d) \in 1..UpTo(ds, WindowKinds, m)
  BY <1>1, UpToFront
<1>5. st # <<>> /\ st[Len(st)] = top.on
  <2>1. st # <<>>
    BY <1>1, <1>3
  <2>2. CallFits(cs, st, Len(cs))
    BY <1>1, <1>2
  <2> QED BY <1>1, <2>1, <2>2 DEF CallFits
<1>6. /\ rt \in Seq(Windows) /\ Len(rt) = UpTo(ds, WindowKinds, m)
      /\ \A k \in 1..UpTo(ds, WindowKinds, m) : rt[k] = st[k]
  <2>1. /\ rt \in Seq(Windows) /\ Len(rt) = Len(st) - 1
        /\ \A k \in 1..(Len(st) - 1) : rt[k] = st[k]
    BY <1>1, <1>5, FrontFacts
  <2>2. Len(st) - 1 = UpTo(ds, WindowKinds, m)
    BY <1>3
  <2> QED BY <2>1, <2>2
<1> HIDE DEF ds, m, top, rt
<1>7. ASSUME NEW d \in 1..m PROVE CallFits(ds, rt, d)
  <2>1. CallFits(cs, st, d) /\ ds[d] = cs[d]
    BY <1>1, <1>2
  <2>2. /\ UpTo(ds, UpdateKinds, d) = UpTo(cs, UpdateKinds, d)
        /\ UpTo(ds, WindowKinds, d) = UpTo(cs, WindowKinds, d)
    BY <1>3
  <2>3. cs[d].call \in WindowKinds =>
           rt[UpTo(cs, WindowKinds, d)] = st[UpTo(cs, WindowKinds, d)]
    BY <1>4, <1>6
  <2> QED BY <2>1, <2>2, <2>3 DEF CallFits
<1>8. n - 1 = UpTo(ds, UpdateKinds, m) /\ n \in Nat /\ n >= 1
  BY <1>3
<1>9. StackOK(ds, n - 1, rt)
  BY <1>2, <1>6, <1>7, <1>8 DEF StackOK
<1> QED BY <1>5, <1>8, <1>9 DEF ds, rt, top

-----------------------------------------------------------------------------
(* The inductive invariant.                                                *)

HasCall(cs, call) == \E d \in 1..Len(cs) : cs[d].call = call

\* The windows that are out are those on the stack, each once.
OutOnStack(ws, st) ==
    /\ \A w \in Windows : ws[w] = "out" <=> \E k \in 1..Len(st) : st[k] = w
    /\ \A k, l \in 1..Len(st) : st[k] = st[l] => k = l

\* Once the last window is closed, either the application has quit or the
\* window_closed callback after which it does is running.
QuitComing(ws, q, cs) ==
    (\E w \in Windows : ws[w] = "closed") /\ NoWindowLeft(ws)
        => q \/ HasCall(cs, "closing")

StackInv ==
    /\ StackOK(calls, pending_updates, window_update_stack)
    /\ flushing_effects => HasCall(calls, "flush")
    /\ OutOnStack(windows, window_update_stack)
    /\ QuitComing(windows, quit, calls)

\* x is in P exactly when an effect of the kind on x is queued, and it is once.
Mirrors(q, kind, S, P) ==
    /\ \A x \in S : x \in P <=> \E k \in 1..Len(q) : q[k].kind = kind /\ q[k].on = x
    /\ \A k, l \in 1..Len(q) :
          q[k].kind = kind /\ q[l].kind = kind /\ q[k].on = q[l].on => k = l

QueueInv ==
    /\ Mirrors(pending_effects, "notify", Entities, pending_notifications)
    /\ Mirrors(pending_effects, "global", Globals, pending_globals)
    /\ \A e \in owed : e \in pending_notifications /\ observer[e] = "active"

Waits(e, ds) == \E k \in 1..Len(ds) : ds[k] = e

\* Until a panic, a live entity has a holder or waits for its release.
HeldInv ==
    ~panicked => \A e \in Entities :
        entity[e] = "live" =>
            \/ e \in held
            \/ EffectHolds(e, pending_effects)
            \/ CallHolds(e, calls)
            \/ Waits(e, dropped)

-----------------------------------------------------------------------------
(* What a push and a pop do to the calls that are looked for.              *)

LEMMA HasPush ==
    ASSUME NEW cs \in Seq(Calls), NEW c \in Calls
    PROVE  /\ \A call : HasCall(cs, call) => HasCall(Append(cs, c), call)
           /\ HasCall(Append(cs, c), c.call)
           /\ \A e : CallHolds(e, cs) => CallHolds(e, Append(cs, c))
           /\ \A e : c.call \in {"new", "insert", "created"} /\ c.on = e
                        => CallHolds(e, Append(cs, c))
<1> DEFINE ds == Append(cs, c)
           n == Len(cs)
<1>1. /\ Len(ds) = n + 1 /\ n + 1 \in 1..(n + 1) /\ ds[n + 1] = c
      /\ \A k \in 1..n : k \in 1..(n + 1) /\ ds[k] = cs[k]
  BY AppendFacts
<1>2. ds = Append(cs, c) /\ n = Len(cs)
  OBVIOUS
<1> HIDE DEF ds, n
<1>3. /\ \A call : HasCall(cs, call) => HasCall(ds, call)
      /\ HasCall(ds, c.call)
  BY <1>1, <1>2 DEF HasCall
<1>4. /\ \A e : CallHolds(e, cs) => CallHolds(e, ds)
      /\ \A e : c.call \in {"new", "insert", "created"} /\ c.on = e => CallHolds(e, ds)
  BY <1>1, <1>2 DEF CallHolds
<1> QED BY <1>2, <1>3, <1>4

LEMMA HasPop ==
    ASSUME NEW cs \in Seq(Calls), cs # <<>>
    PROVE  /\ \A call : HasCall(cs, call) /\ cs[Len(cs)].call # call
                            => HasCall(Front(cs), call)
           /\ \A e : CallHolds(e, cs)
                     /\ ~(cs[Len(cs)].call \in {"new", "insert", "created"}
                          /\ cs[Len(cs)].on = e)
                            => CallHolds(e, Front(cs))
<1> DEFINE ds == Front(cs)
           n == Len(cs)
<1>1. /\ Len(ds) = n - 1
      /\ \A k \in 1..n : k = n \/ (k \in 1..(n - 1) /\ ds[k] = cs[k])
  BY FrontFacts
<1>2. ds = Front(cs) /\ n = Len(cs)
  OBVIOUS
<1> HIDE DEF ds, n
<1>3. \A call : HasCall(cs, call) /\ cs[n].call # call => HasCall(ds, call)
  BY <1>1, <1>2 DEF HasCall
<1>4. \A e : CallHolds(e, cs) /\ ~(cs[n].call \in {"new", "insert", "created"} /\ cs[n].on = e)
                => CallHolds(e, ds)
  BY <1>1, <1>2 DEF CallHolds
<1> QED BY <1>2, <1>3, <1>4

-----------------------------------------------------------------------------
(* Taking a window out and putting the last one back.                      *)

WindowStates == {"absent", "home", "out", "closed"}

LEMMA TakeOut ==
    ASSUME NEW ws \in [Windows -> WindowStates], NEW st \in Seq(Windows),
           OutOnStack(ws, st), NEW w \in Windows, ws[w] # "out"
    PROVE  /\ OutOnStack([ws EXCEPT ![w] = "out"], Append(st, w))
           /\ ~NoWindowLeft([ws EXCEPT ![w] = "out"])
<1> DEFINE rt == Append(st, w)
           vs == [ws EXCEPT ![w] = "out"]
           n == Len(st)
<1>1. /\ Len(rt) = n + 1 /\ n + 1 \in 1..(n + 1) /\ rt[n + 1] = w
      /\ \A k \in 1..n : k \in 1..(n + 1) /\ rt[k] = st[k]
      /\ \A k \in 1..(n + 1) : k = n + 1 \/ k \in 1..n
  BY AppendFacts
<1>2. vs[w] = "out" /\ \A v \in Windows : v # w => vs[v] = ws[v]
  OBVIOUS
<1>3. \A k \in 1..n : st[k] # w
  BY DEF OutOnStack
<1>4. n = Len(st)
  OBVIOUS
<1> HIDE DEF rt, vs, n
<1>5. \A v \in Windows : vs[v] = "out" <=> \E k \in 1..Len(rt) : rt[k] = v
  BY <1>1, <1>2, <1>4 DEF OutOnStack
<1>6. \A k, l \in 1..Len(rt) : rt[k] = rt[l] => k = l
  BY <1>1, <1>3, <1>4 DEF OutOnStack
<1>7. OutOnStack(vs, rt)
  BY <1>5, <1>6 DEF OutOnStack
<1>8. ~NoWindowLeft(vs)
  BY <1>2 DEF NoWindowLeft
<1> QED BY <1>7, <1>8 DEF vs, rt

LEMMA PutBack ==
    ASSUME NEW ws \in [Windows -> WindowStates], NEW st \in Seq(Windows),
           OutOnStack(ws, st), st # <<>>, NEW s \in {"home", "closed"}
    PROVE  OutOnStack([ws EXCEPT ![st[Len(st)]] = s], Front(st))
<1> DEFINE w == st[Len(st)]
           rt == Front(st)
           vs == [ws EXCEPT ![w] = s]
           n == Len(st)
<1>1. /\ Len(rt) = n - 1 /\ w \in Windows /\ n \in 1..n
      /\ \A k \in 1..(n - 1) : k \in 1..n /\ k # n /\ rt[k] = st[k]
      /\ \A k \in 1..n : k = n \/ k \in 1..(n - 1)
  BY FrontFacts
<1>2. vs[w] # "out" /\ \A v \in Windows : v # w => vs[v] = ws[v]
  BY <1>1
<1>3. n = Len(st) /\ w = st[n]
  OBVIOUS
<1> HIDE DEF w, rt, vs, n
<1>4. \A k \in 1..(n - 1) : st[k] # w
  BY <1>1, <1>3 DEF OutOnStack
<1>5. \A v \in Windows : vs[v] = "out" <=> \E k \in 1..Len(rt) : rt[k] = v
  <2> TAKE v \in Windows
  <2>1. CASE v = w
    BY <1>1, <1>2, <1>4, <2>1
  <2>2. CASE v # w
    <3>1. vs[v] = ws[v]
      BY <1>2, <2>2
    <3>2. ws[v] = "out" <=> \E k \in 1..n : st[k] = v
      BY <1>3 DEF OutOnStack
    <3>3. (\E k \in 1..n : st[k] = v) <=> \E k \in 1..(n - 1) : rt[k] = v
      BY <1>1, <1>3, <2>2
    <3> QED BY <1>1, <3>1, <3>2, <3>3
  <2> QED BY <2>1, <2>2
<1>6. \A k, l \in 1..Len(rt) : rt[k] = rt[l] => k = l
  BY <1>1, <1>3 DEF OutOnStack
<1>7. OutOnStack(vs, rt)
  BY <1>5, <1>6 DEF OutOnStack
<1> QED BY <1>7 DEF vs, rt, w

-----------------------------------------------------------------------------
(* StackInv, for each way a step changes the calls in progress.            *)

LEMMA CallFacts ==
    ASSUME NEW call \in CallKinds, NEW on \in Entities \cup Windows \cup Globals \cup {None}
    PROVE  Call(call, on) \in Calls /\ Call(call, on).call = call /\ Call(call, on).on = on
BY DEF Call, Calls

LEMMA TopFacts ==
    ASSUME StackInv
    PROVE  /\ calls \in Seq(Calls) /\ window_update_stack \in Seq(Windows)
           /\ pending_updates \in Nat
           /\ calls # <<>> =>
                 /\ Top \in Calls
                 /\ Top.call \in WindowKinds => Top.on \in Windows
                 /\ Top.call \in {"new", "insert", "created"} => Top.on \in Entities
                 /\ Top.call \in Callbacks => Len(calls) # 1
                 /\ Top.call = "flush" =>
                       pending_updates = 1 /\ window_update_stack = <<>>
<1>1. /\ calls \in Seq(Calls) /\ window_update_stack \in Seq(Windows)
      /\ pending_updates = UpTo(calls, UpdateKinds, Len(calls))
      /\ Len(window_update_stack) = UpTo(calls, WindowKinds, Len(calls))
      /\ \A d \in 1..Len(calls) : CallFits(calls, window_update_stack, d)
  BY DEF StackInv, StackOK
<1>2. pending_updates \in Nat
  <2>1. Len(calls) \in Nat
    BY <1>1
  <2> QED BY <1>1, <2>1, UpToIsNat
<1>3. ASSUME calls # <<>>
      PROVE  Top \in Calls /\ CallFits(calls, window_update_stack, Len(calls))
  BY <1>1, <1>3, FrontFacts DEF Top
<1>4. UpTo(calls, WindowKinds, Len(calls)) = 0 => window_update_stack = <<>>
  BY <1>1
<1> QED BY <1>1, <1>2, <1>3, <1>4 DEF CallFits, Top

\* A step that leaves the calls and the windows alone.
LEMMA IdleStep ==
    ASSUME StackInv, UNCHANGED <<updateVars, windows, window_update_stack, quit>>
    PROVE  StackInv'
<1>1. /\ calls' = calls /\ pending_updates' = pending_updates
      /\ flushing_effects' = flushing_effects /\ windows' = windows
      /\ window_update_stack' = window_update_stack /\ quit' = quit
  BY DEF updateVars
<1> QED BY <1>1 DEF StackInv

\* A call without a window is pushed.
LEMMA PushStep ==
    ASSUME StackInv, NEW c \in Calls, calls' = Append(calls, c),
           pending_updates' = (IF c.call \in UpdateKinds THEN pending_updates + 1
                                                         ELSE pending_updates),
           UNCHANGED <<flushing_effects, windows, window_update_stack, quit>>,
           c.call \notin WindowKinds, c.call # "flush",
           c.call \in Callbacks => calls # <<>>,
           c.call \in {"new", "insert", "created"} => c.on \in Entities
    PROVE  StackInv'
<1>1. StackOK(calls', pending_updates', window_update_stack')
  BY PushCall DEF StackInv
<1>2. \A call : HasCall(calls, call) => HasCall(calls', call)
  BY TopFacts, HasPush
<1>3. OutOnStack(windows', window_update_stack') /\ QuitComing(windows', quit', calls')
  BY <1>2 DEF StackInv, QuitComing
<1>4. flushing_effects' => HasCall(calls', "flush")
  BY <1>2 DEF StackInv
<1> QED BY <1>1, <1>3, <1>4 DEF StackInv

\* A window is taken, over the calls cs.
LEMMA TakeStep ==
    ASSUME windows \in [Windows -> WindowStates],
           NEW cs \in Seq(Calls), NEW c \in Calls,
           StackOK(cs, pending_updates, window_update_stack),
           flushing_effects => HasCall(cs, "flush"),
           OutOnStack(windows, window_update_stack),
           c.call \in WindowKinds, c.on \in Windows, windows[c.on] # "out",
           calls' = Append(cs, c), pending_updates' = pending_updates + 1,
           windows' = [windows EXCEPT ![c.on] = "out"],
           window_update_stack' = Append(window_update_stack, c.on),
           UNCHANGED flushing_effects
    PROVE  StackInv'
<1>1. StackOK(calls', pending_updates', window_update_stack')
  BY PushWindow
<1>2. flushing_effects' => HasCall(calls', "flush")
  BY HasPush
<1>3. window_update_stack \in Seq(Windows)
  BY DEF StackOK
<1>4. OutOnStack(windows', window_update_stack') /\ ~NoWindowLeft(windows')
  BY <1>3, TakeOut
<1> QED BY <1>1, <1>2, <1>4 DEF StackInv, QuitComing

\* finish_update, over the calls below the one that ends.
LEMMA FinishStep ==
    ASSUME calls \in Seq(Calls), calls # <<>>, Top.call # "flush", FinishUpdate,
           pending_updates \in Nat,
           flushing_effects => HasCall(calls, "flush"),
           NEW st, StackOK(Front(calls), pending_updates - 1, st)
    PROVE  /\ StackOK(calls', pending_updates', st)
           /\ flushing_effects' => HasCall(calls', "flush")
           /\ \A call : HasCall(Front(calls), call) => HasCall(calls', call)
<1>1. Front(calls) \in Seq(Calls)
  BY FrontFacts
<1>2. CASE ~flushing_effects /\ pending_updates = 1
  <2> DEFINE c == Call("flush", None)
             cs == Front(calls)
  <2>1. c \in Calls /\ c.call = "flush"
    BY CallFacts DEF CallKinds
  <2>2. /\ calls' = Append(cs, c) /\ pending_updates' = pending_updates
        /\ pending_updates' = 0 + 1 /\ StackOK(cs, 0, st)
    BY <1>2 DEF FinishUpdate
  <2>3. cs \in Seq(Calls)
    BY <1>1
  <2> HIDE DEF c, cs
  <2>4. StackOK(Append(cs, c), IF c.call \in UpdateKinds THEN 0 + 1 ELSE 0, st)
    BY <2>1, <2>2, PushCall DEF WindowKinds, Callbacks
  <2>5. StackOK(calls', pending_updates', st)
    BY <2>1, <2>2, <2>4 DEF UpdateKinds
  <2>6. /\ HasCall(calls', "flush")
        /\ \A call : HasCall(cs, call) => HasCall(calls', call)
    BY <2>1, <2>2, <2>3, HasPush
  <2> QED BY <2>5, <2>6 DEF cs
<1>3. CASE ~(~flushing_effects /\ pending_updates = 1)
  <2>1. calls' = Front(calls) /\ pending_updates' = pending_updates - 1
        /\ flushing_effects' = flushing_effects
    BY <1>3 DEF FinishUpdate
  <2>2. flushing_effects => HasCall(Front(calls), "flush")
    BY HasPop DEF Top
  <2> QED BY <2>1, <2>2
<1> QED BY <1>2, <1>3

\* An update that has no window ends.
LEMMA EndCallStep ==
    ASSUME StackInv, calls # <<>>, Top.call \in UpdateKinds \ WindowKinds,
           Top.call # "flush", FinishUpdate,
           UNCHANGED <<windows, window_update_stack>>,
           \/ Top.call # "closing" /\ quit' = quit
           \/ quit' = (quit \/ NoWindowLeft(windows))
    PROVE  StackInv'
<1>1. calls \in Seq(Calls) /\ pending_updates \in Nat
  BY TopFacts
<1>2. StackOK(Front(calls), pending_updates - 1, window_update_stack)
  <2>1. StackOK(calls, pending_updates, window_update_stack)
        /\ calls[Len(calls)].call \notin WindowKinds
        /\ calls[Len(calls)].call \in UpdateKinds
    BY DEF StackInv, Top
  <2>2. StackOK(Front(calls),
                IF calls[Len(calls)].call \in UpdateKinds THEN pending_updates - 1
                                                          ELSE pending_updates,
                window_update_stack)
    BY <2>1, PopCall
  <2> QED BY <2>1, <2>2
<1>3. /\ StackOK(calls', pending_updates', window_update_stack')
      /\ flushing_effects' => HasCall(calls', "flush")
      /\ \A call : HasCall(Front(calls), call) => HasCall(calls', call)
  BY <1>1, <1>2, FinishStep DEF StackInv
<1>4. Top.call # "closing" => (HasCall(calls, "closing") => HasCall(calls', "closing"))
  BY <1>1, <1>3, HasPop DEF Top
<1>5. QuitComing(windows', quit', calls')
  BY <1>4 DEF StackInv, QuitComing
<1> QED BY <1>3, <1>5 DEF StackInv

\* A window is put back, or closed while a window_closed callback runs.
LEMMA EndWindowStep ==
    ASSUME StackInv, windows \in [Windows -> WindowStates],
           calls # <<>>, Top.call \in WindowKinds, FinishUpdate,
           window_update_stack' = Front(window_update_stack),
           NEW s \in {"home", "closed"},
           windows' = [windows EXCEPT ![Top.on] = s],
           NoWindowLeft(windows') => quit'
    PROVE  StackInv'
<1>1. calls \in Seq(Calls) /\ pending_updates \in Nat /\ window_update_stack \in Seq(Windows)
  BY TopFacts
<1>2. /\ StackOK(Front(calls), pending_updates - 1, Front(window_update_stack))
      /\ window_update_stack # <<>>
      /\ window_update_stack[Len(window_update_stack)] = Top.on
  BY PopWindow DEF StackInv, Top
<1>3. /\ StackOK(calls', pending_updates', window_update_stack')
      /\ flushing_effects' => HasCall(calls', "flush")
  BY <1>1, <1>2, FinishStep DEF StackInv, WindowKinds
<1>4. OutOnStack(windows', window_update_stack')
  BY <1>1, <1>2, PutBack DEF StackInv
<1> QED BY <1>3, <1>4 DEF StackInv, QuitComing

\* A window is closed and its window_closed callback called.
LEMMA ClosingStep ==
    ASSUME StackInv, windows \in [Windows -> WindowStates],
           calls # <<>>, Top.call \in WindowKinds,
           calls' = Append(Front(calls), Call("closing", Top.on)),
           window_update_stack' = Front(window_update_stack),
           windows' = [windows EXCEPT ![Top.on] = "closed"],
           UNCHANGED <<pending_updates, flushing_effects>>
    PROVE  StackInv'
<1> DEFINE cs == Front(calls)
           c == Call("closing", Top.on)
<1>1. /\ calls \in Seq(Calls) /\ pending_updates \in Nat
      /\ window_update_stack \in Seq(Windows) /\ Top.on \in Windows
  BY TopFacts
<1>2. /\ StackOK(cs, pending_updates - 1, Front(window_update_stack))
      /\ window_update_stack # <<>>
      /\ window_update_stack[Len(window_update_stack)] = Top.on
  BY PopWindow DEF StackInv, Top
<1>3. OutOnStack(windows', window_update_stack')
  BY <1>1, <1>2, PutBack DEF StackInv
<1>4. c \in Calls /\ c.call = "closing"
  BY <1>1, CallFacts DEF CallKinds
<1>5. cs \in Seq(Calls) /\ calls' = Append(cs, c)
  BY <1>1, FrontFacts
<1>6. flushing_effects => HasCall(cs, "flush")
  BY <1>1, HasPop DEF StackInv, Top, WindowKinds
<1> HIDE DEF cs, c
<1>7. StackOK(Append(cs, c), IF c.call \in UpdateKinds THEN pending_updates - 1 + 1
                                                       ELSE pending_updates - 1,
              window_update_stack')
  BY <1>2, <1>4, PushCall DEF WindowKinds, Callbacks
<1>8. StackOK(calls', pending_updates', window_update_stack')
  <2>1. pending_updates' = pending_updates - 1 + 1 /\ c.call \in UpdateKinds
    BY <1>1, <1>4 DEF UpdateKinds
  <2> QED BY <1>5, <1>7, <2>1
<1>9. HasCall(calls', "closing") /\ (flushing_effects' => HasCall(calls', "flush"))
  BY <1>4, <1>5, <1>6, HasPush
<1> QED BY <1>3, <1>8, <1>9 DEF StackInv, QuitComing

\* A callback returns to the flush.
LEMMA EndCallbackStep ==
    ASSUME StackInv, calls # <<>>, Top.call \in Callbacks, calls' = Front(calls),
           UNCHANGED <<pending_updates, flushing_effects, windows,
                       window_update_stack, quit>>
    PROVE  StackInv'
<1>1. calls \in Seq(Calls)
  BY TopFacts
<1>2. StackOK(Front(calls), pending_updates, window_update_stack)
  <2>1. /\ StackOK(calls, pending_updates, window_update_stack)
        /\ calls[Len(calls)].call \notin WindowKinds
        /\ calls[Len(calls)].call \notin UpdateKinds
    BY DEF StackInv, Top, Callbacks, WindowKinds, UpdateKinds
  <2>2. StackOK(Front(calls),
                IF calls[Len(calls)].call \in UpdateKinds THEN pending_updates - 1
                                                          ELSE pending_updates,
                window_update_stack)
    BY <2>1, PopCall
  <2> QED BY <2>1, <2>2
<1>3. \A call \in {"flush", "closing"} : HasCall(calls, call) => HasCall(calls', call)
  BY <1>1, HasPop DEF Top, Callbacks
<1>4. QuitComing(windows', quit', calls')
  BY <1>3 DEF StackInv, QuitComing
<1>5. flushing_effects' => HasCall(calls', "flush")
  BY <1>3 DEF StackInv
<1> QED BY <1>2, <1>4, <1>5 DEF StackInv

\* The flush ends.
LEMMA EndFlushStep ==
    ASSUME StackInv, calls # <<>>, Top.call = "flush", calls' = Front(calls),
           pending_updates' = pending_updates - 1, flushing_effects' = FALSE,
           UNCHANGED <<windows, window_update_stack, quit>>
    PROVE  StackInv'
<1>1. calls \in Seq(Calls)
  BY TopFacts
<1>2. StackOK(Front(calls), pending_updates - 1, window_update_stack)
  <2>1. /\ StackOK(calls, pending_updates, window_update_stack)
        /\ calls[Len(calls)].call \notin WindowKinds
        /\ calls[Len(calls)].call \in UpdateKinds
    BY DEF StackInv, Top, WindowKinds, UpdateKinds
  <2>2. StackOK(Front(calls),
                IF calls[Len(calls)].call \in UpdateKinds THEN pending_updates - 1
                                                          ELSE pending_updates,
                window_update_stack)
    BY <2>1, PopCall
  <2> QED BY <2>1, <2>2
<1>3. HasCall(calls, "closing") => HasCall(calls', "closing")
  BY <1>1, HasPop DEF Top
<1>4. QuitComing(windows', quit', calls')
  BY <1>3 DEF StackInv, QuitComing
<1> QED BY <1>2, <1>4 DEF StackInv

-----------------------------------------------------------------------------
(* The queue of effects.                                                   *)

LEMMA EffectTypes ==
    /\ \A kind \in {"notify", "emit", "activate"}, e \in Entities :
          Effect(kind, e, None) \in Effects
    /\ \A e \in Entities, w \in Windows \cup {None} : Effect("created", e, w) \in Effects
    /\ \A g \in Globals : Effect("global", g, None) \in Effects
    /\ \A kind \in {"refresh", "defer"} : Effect(kind, None, None) \in Effects
    /\ \A kind, on, window : /\ Effect(kind, on, window).kind = kind
                             /\ Effect(kind, on, window).on = on
BY DEF Effect, Effects

LEMMA EffectParts ==
    ASSUME NEW f \in Effects
    PROVE  /\ f.kind \in {"notify", "emit", "activate", "created"} => f.on \in Entities
           /\ f.kind = "global" => f.on \in Globals
           /\ f.kind = "created" => f.window \in Windows \cup {None}
BY DEF Effects

\* What Popped leaves.
LEMMA PoppedFacts ==
    ASSUME pending_effects \in Seq(Effects), NEW kind, Popped(kind)
    PROVE  /\ calls # <<>> /\ Top.call = "flush" /\ ~panicked
           /\ Head(pending_effects) \in Effects
           /\ Head(pending_effects).kind = kind
           /\ pending_effects' = Tail(pending_effects)
           /\ pending_effects' \in Seq(Effects)
           /\ pending_effects # <<>>
BY TailFacts DEF Popped, TopIs

-----------------------------------------------------------------------------
(* StackInv is preserved.                                                  *)

LEMMA StackInvStep ==
    ASSUME TypeOK, StackInv, [Next]_vars
    PROVE  StackInv'
<1> DEFINE Idle == UNCHANGED <<updateVars, windows, window_update_stack, quit>>
<1>0. /\ windows \in [Windows -> WindowStates] /\ pending_effects \in Seq(Effects)
      /\ \A e \in Entities : e \in Entities \cup Windows \cup Globals \cup {None}
      /\ \A e \in Windows : e \in Entities \cup Windows \cup Globals \cup {None}
      /\ \A e \in Globals : e \in Entities \cup Windows \cup Globals \cup {None}
      /\ None \in Entities \cup Windows \cup Globals \cup {None}
  BY DEF TypeOK, WindowStates
<1>1. ASSUME Idle PROVE StackInv'
  BY <1>1, IdleStep
<1> HIDE DEF Idle
<1>2. CASE UNCHANGED vars
  BY <1>1, <1>2 DEF vars, windowVars, Idle
<1>3. ASSUME NEW call \in {"update", "new", "insert"},
             NEW on \in Entities \cup Windows \cup Globals \cup {None},
             call # "update" => on \in Entities, Push(call, on),
             pending_updates' = pending_updates + 1,
             UNCHANGED <<flushing_effects, windows, window_update_stack, quit>>
      PROVE  StackInv'
  <2> DEFINE c == Call(call, on)
  <2>1. /\ c \in Calls /\ c.call = call /\ c.on = on
    BY CallFacts DEF CallKinds
  <2>2. calls' = Append(calls, c)
    BY <1>3 DEF Push
  <2> HIDE DEF c
  <2>3. c.call \in UpdateKinds /\ c.call \notin WindowKinds /\ c.call \notin Callbacks
    BY <2>1 DEF UpdateKinds, WindowKinds, Callbacks
  <2> QED BY <1>3, <2>1, <2>2, <2>3, PushStep
<1>4. ASSUME calls # <<>>, NEW call \in Callbacks,
             NEW on \in Entities \cup Windows \cup Globals \cup {None},
             call = "created" => on \in Entities, Push(call, on),
             UNCHANGED <<pending_updates, flushing_effects, windows,
                         window_update_stack, quit>>
      PROVE  StackInv'
  <2> DEFINE c == Call(call, on)
  <2>1. /\ c \in Calls /\ c.call = call /\ c.on = on
    BY CallFacts DEF CallKinds, Callbacks
  <2>2. calls' = Append(calls, c)
    BY <1>4 DEF Push
  <2> HIDE DEF c
  <2>3. c.call \notin UpdateKinds /\ c.call \notin WindowKinds
    BY <2>1 DEF UpdateKinds, WindowKinds, Callbacks
  <2>4. c.call # "flush" /\ c.call \notin {"new", "insert"}
    BY <2>1 DEF Callbacks
  <2> QED BY <1>4, <2>1, <2>2, <2>3, <2>4, PushStep
<1>5. CASE StartUpdate
  BY <1>0, <1>3, <1>5 DEF StartUpdate, windowVars
<1>6. CASE EndUpdate
  BY <1>6, EndCallStep DEF EndUpdate, TopIs, UpdateKinds, WindowKinds, windowVars
<1>7. ASSUME NEW e \in Entities, Notify(e) \/ Observe(e) \/ Unobserve(e)
                                 \/ Reserve(e) \/ DropHandle(e)
      PROVE  StackInv'
  <2>1. Idle
    BY <1>7 DEF Notify, Observe, Unobserve, Reserve, DropHandle, windowVars, Idle
  <2> QED BY <1>1, <2>1
<1>8. ASSUME NEW e \in Entities, StartNew(e) PROVE StackInv'
  BY <1>0, <1>3, <1>8 DEF StartNew, windowVars
<1>9. ASSUME NEW e \in Entities, StartInsert(e) PROVE StackInv'
  BY <1>0, <1>3, <1>9 DEF StartInsert, windowVars
<1>10. ASSUME NEW kind \in Plain, NEW e, PushPlain(kind, e) PROVE StackInv'
  BY <1>1, <1>10 DEF PushPlain, windowVars, Idle
<1>11. ASSUME NEW g, SetGlobal(g) \/ RemoveGlobal(g) PROVE StackInv'
  BY <1>1, <1>11 DEF SetGlobal, RemoveGlobal, windowVars, Idle
<1>12. CASE EndNew
  BY <1>12, EndCallStep DEF EndNew, TopIs, UpdateKinds, WindowKinds, windowVars
<1>13. CASE EndInsert
  BY <1>13, EndCallStep DEF EndInsert, TopIs, UpdateKinds, WindowKinds, windowVars
<1>14. ASSUME NEW w \in Windows, windows[w] # "out",
              NEW call \in WindowKinds,
              calls' = Append(calls, Call(call, w)), pending_updates' = pending_updates + 1,
              windows' = [windows EXCEPT ![w] = "out"],
              window_update_stack' = Append(window_update_stack, w),
              UNCHANGED flushing_effects
       PROVE  StackInv'
  <2> DEFINE c == Call(call, w)
  <2>1. c \in Calls /\ c.call = call /\ c.on = w
    BY <1>0, CallFacts DEF CallKinds, WindowKinds
  <2>2. calls' = Append(calls, c)
    BY <1>14
  <2> HIDE DEF c
  <2>3. /\ windows[c.on] # "out" /\ windows' = [windows EXCEPT ![c.on] = "out"]
        /\ window_update_stack' = Append(window_update_stack, c.on)
    BY <1>14, <2>1
  <2> QED BY <1>0, <1>14, <2>1, <2>2, <2>3, TakeStep, TopFacts DEF StackInv
<1>15. ASSUME NEW w \in Windows, OpenWindow(w) PROVE StackInv'
  BY <1>14, <1>15 DEF OpenWindow, Push, WindowKinds
<1>16. ASSUME NEW w \in Windows, UpdateWindow(w) PROVE StackInv'
  BY <1>14, <1>16 DEF UpdateWindow, TakeWindow, WindowKinds
<1>17. ASSUME calls # <<>>, Top.call \in WindowKinds, FinishUpdate,
              window_update_stack' = Front(window_update_stack),
              windows' = [windows EXCEPT ![Top.on] = "home"]
       PROVE  StackInv'
  <2>1. Top.on \in Windows
    BY <1>17, TopFacts
  <2>2. ~NoWindowLeft(windows')
    BY <1>0, <1>17, <2>1 DEF NoWindowLeft
  <2> QED BY <1>0, <1>17, <2>2, EndWindowStep
<1>18. CASE EndOpen
  BY <1>17, <1>18 DEF EndOpen, TopIs, WindowKinds
<1>19. CASE ReturnWindow
  BY <1>17, <1>19 DEF ReturnWindow, TopIs, WindowKinds
<1>20. CASE RemoveWindow
  BY <1>1, <1>20 DEF RemoveWindow, Idle
<1>21. CASE Draw
  BY <1>1, <1>21 DEF Draw, Idle
<1>22. CASE CloseWindow
  <2>1. /\ calls # <<>> /\ Top.call \in WindowKinds
        /\ window_update_stack' = Front(window_update_stack)
        /\ windows' = [windows EXCEPT ![Top.on] = "closed"]
    BY <1>22 DEF CloseWindow, TopIs, WindowKinds
  <2>2. CASE Running("closing")
    <3>1. FinishUpdate /\ (NoWindowLeft(windows') => quit')
      BY <1>22, <2>2 DEF CloseWindow
    <3> QED BY <1>0, <2>1, <3>1, EndWindowStep
  <2>3. CASE ~Running("closing")
    <3>1. /\ calls' = Append(Front(calls), Call("closing", Top.on))
          /\ UNCHANGED <<pending_updates, flushing_effects>>
      BY <1>22, <2>3 DEF CloseWindow
    <3> QED BY <1>0, <2>1, <3>1, ClosingStep
  <2> QED BY <2>2, <2>3
<1>23. CASE EndClosing
  BY <1>23, EndCallStep DEF EndClosing, TopIs, UpdateKinds, WindowKinds
<1>24. CASE EndEffect
  BY <1>24, EndCallbackStep DEF EndEffect, TopIs, Callbacks, windowVars
<1>25. CASE EndCreated
  BY <1>25, EndCallbackStep DEF EndCreated, TopIs, Callbacks, windowVars
<1>26. CASE Release
  <2> DEFINE e == Head(dropped)
  <2>1. e \in Entities /\ calls # <<>>
    BY <1>26, TailFacts DEF Release, TopIs, TypeOK
  <2>2. UNCHANGED <<pending_updates, flushing_effects, windows, window_update_stack, quit>>
    BY <1>26 DEF Release, windowVars
  <2>3. Push("release", e) \/ UNCHANGED calls
    BY <1>26 DEF Release
  <2> HIDE DEF e
  <2>4. CASE Push("release", e)
    BY <1>0, <1>4, <2>1, <2>2, <2>4 DEF Callbacks
  <2>5. CASE UNCHANGED calls
    BY <1>1, <2>2, <2>5 DEF Idle, updateVars
  <2> QED BY <2>3, <2>4, <2>5
<1>27. ASSUME NEW on \in Entities \cup Windows \cup Globals \cup {None}, calls # <<>>,
              Push("effect", on) \/ UNCHANGED calls,
              UNCHANGED <<pending_updates, flushing_effects, windowVars>>
       PROVE  StackInv'
  <2>1. UNCHANGED <<pending_updates, flushing_effects, windows, window_update_stack, quit>>
    BY <1>27 DEF windowVars
  <2>2. CASE Push("effect", on)
    BY <1>0, <1>4, <1>27, <2>1, <2>2 DEF Callbacks
  <2>3. CASE UNCHANGED calls
    BY <1>1, <2>1, <2>3 DEF Idle, updateVars
  <2> QED BY <1>27, <2>2, <2>3
<1>28. CASE ApplyNotify
  <2>1. Head(pending_effects).on \in Entities /\ calls # <<>>
    BY <1>0, <1>28, PoppedFacts, EffectParts DEF ApplyNotify
  <2> QED BY <1>0, <1>27, <1>28, <2>1 DEF ApplyNotify
<1>29. CASE ApplyGlobal
  <2>1. Head(pending_effects).on \in Globals /\ calls # <<>>
    BY <1>0, <1>29, PoppedFacts, EffectParts DEF ApplyGlobal
  <2> QED BY <1>0, <1>27, <1>29, <2>1 DEF ApplyGlobal
<1>30. CASE ApplyEmit
  <2>1. Head(pending_effects).on \in Entities /\ calls # <<>>
    BY <1>0, <1>30, PoppedFacts, EffectParts DEF ApplyEmit
  <2> QED BY <1>0, <1>27, <1>30, <2>1 DEF ApplyEmit
<1>31. CASE ApplyDefer
  <2>1. calls # <<>>
    BY <1>0, <1>31, PoppedFacts DEF ApplyDefer
  <2> QED BY <1>0, <1>27, <1>31, <2>1 DEF ApplyDefer
<1>32. CASE ApplyActivate
  BY <1>1, <1>32 DEF ApplyActivate, Idle, windowVars
<1>33. CASE ApplyRefresh
  BY <1>1, <1>33 DEF ApplyRefresh, Idle
<1>34. CASE ApplyCreated
  <2> DEFINE e == Head(pending_effects).on
             w == Head(pending_effects).window
  <2>1. /\ e \in Entities /\ w \in Windows \cup {None} /\ calls # <<>>
        /\ Top.call = "flush"
    BY <1>0, <1>34, PoppedFacts, EffectParts DEF ApplyCreated
  <2>2. \/ Idle
        \/ /\ Push("created", e)
           /\ UNCHANGED <<pending_updates, flushing_effects, windowVars>>
        \/ /\ w # None /\ windows[w] = "home"
           /\ TakeWindow(w, Append(calls, Call("created", e)))
           /\ UNCHANGED <<flushing_effects, quit>>
    BY <1>34 DEF ApplyCreated, Idle, windowVars
  <2> HIDE DEF e, w
  <2>3. CASE Idle
    BY <1>1, <2>3
  <2>4. CASE /\ Push("created", e)
             /\ UNCHANGED <<pending_updates, flushing_effects, windowVars>>
    BY <1>0, <1>4, <2>1, <2>4 DEF Callbacks, windowVars
  <2>5. CASE /\ w # None /\ windows[w] = "home"
             /\ TakeWindow(w, Append(calls, Call("created", e)))
             /\ UNCHANGED <<flushing_effects, quit>>
    <3> DEFINE b == Call("created", e)
               cs == Append(calls, b)
               c == Call("window", w)
    <3>1. /\ b \in Calls /\ b.call = "created" /\ b.on = e
          /\ c \in Calls /\ c.call = "window" /\ c.on = w /\ w \in Windows
      BY <1>0, <2>1, <2>5, CallFacts DEF CallKinds
    <3>2. /\ calls' = Append(cs, c) /\ pending_updates' = pending_updates + 1
          /\ windows' = [windows EXCEPT ![w] = "out"]
          /\ window_update_stack' = Append(window_update_stack, w)
      BY <2>5 DEF TakeWindow
    <3>3. calls \in Seq(Calls)
      BY TopFacts
    <3> HIDE DEF b, c
    <3>4. StackOK(cs, IF b.call \in UpdateKinds THEN pending_updates + 1
                                                ELSE pending_updates,
                  window_update_stack)
      BY <2>1, <3>1, PushCall DEF StackInv, WindowKinds
    <3>5. StackOK(cs, pending_updates, window_update_stack)
      BY <3>1, <3>4 DEF UpdateKinds
    <3>6. cs \in Seq(Calls) /\ (flushing_effects => HasCall(cs, "flush"))
      BY <3>1, <3>3, AppendFacts, HasPush DEF StackInv
    <3> HIDE DEF cs
    <3>7. /\ c.call \in WindowKinds /\ c.on \in Windows /\ windows[c.on] # "out"
          /\ windows' = [windows EXCEPT ![c.on] = "out"]
          /\ window_update_stack' = Append(window_update_stack, c.on)
      BY <2>5, <3>1, <3>2 DEF WindowKinds
    <3>8. OutOnStack(windows, window_update_stack) /\ UNCHANGED flushing_effects
      BY <2>5 DEF StackInv
    <3> QED BY <1>0, <3>1, <3>2, <3>5, <3>6, <3>7, <3>8, TakeStep
  <2> QED BY <2>2, <2>3, <2>4, <2>5
<1>35. CASE EndFlush
  BY <1>35, EndFlushStep DEF EndFlush, TopIs, windowVars
<1> QED BY <1>2, <1>5, <1>6, <1>7, <1>8, <1>9, <1>10, <1>11, <1>12, <1>13, <1>15,
           <1>16, <1>18, <1>19, <1>20, <1>21, <1>22, <1>23, <1>24, <1>25, <1>26,
           <1>28, <1>29, <1>30, <1>31, <1>32, <1>33, <1>34, <1>35 DEF Next, Flush

-----------------------------------------------------------------------------
(* The type invariant is preserved.                                        *)

LEMMA StackTypes ==
    ASSUME NEW cs, NEW n, NEW st, StackOK(cs, n, st)
    PROVE  cs \in Seq(Calls) /\ n \in Nat /\ st \in Seq(Windows)
<1>1. cs \in Seq(Calls) /\ st \in Seq(Windows) /\ n = UpTo(cs, UpdateKinds, Len(cs))
  BY DEF StackOK
<1>2. Len(cs) \in Nat
  BY <1>1
<1> QED BY <1>1, <1>2, UpToIsNat

EffectsType ==
    /\ pending_effects \in Seq(Effects)
    /\ pending_notifications \subseteq Entities
    /\ pending_globals \subseteq Globals

EntityType ==
    /\ entity \in [Entities -> {"absent", "reserved", "live", "released"}]
    /\ held \subseteq Entities
    /\ dropped \in Seq(Entities)
    /\ observer \in [Entities -> {"none", "inactive", "active"}]
    /\ owed \subseteq Entities

WindowType ==
    /\ windows \in [Windows -> WindowStates]
    /\ removed \subseteq Windows
    /\ dirty \subseteq Windows

FlagType ==
    /\ flushing_effects \in BOOLEAN
    /\ globals \subseteq Globals
    /\ new_observed \in BOOLEAN
    /\ quit \in BOOLEAN
    /\ panicked \in BOOLEAN

LEMMA EffectsTypeStep ==
    ASSUME TypeOK, StackInv, [Next]_vars
    PROVE  EffectsType'
<1>0. /\ EffectsType /\ window_update_stack \in Seq(Windows)
      /\ entity \in [Entities -> {"absent", "reserved", "live", "released"}]
  BY DEF TypeOK, EffectsType
<1>1. ASSUME UNCHANGED effectVars PROVE EffectsType'
  BY <1>0, <1>1 DEF EffectsType, effectVars
<1>2. ASSUME NEW f \in Effects, pending_effects' = Append(pending_effects, f),
             pending_notifications' \subseteq Entities, pending_globals' \subseteq Globals
      PROVE  EffectsType'
  BY <1>0, <1>2, AppendFacts DEF EffectsType
<1>3. ASSUME NEW kind, Popped(kind),
             pending_notifications' \subseteq Entities, pending_globals' \subseteq Globals
      PROVE  EffectsType'
  BY <1>0, <1>3, PoppedFacts DEF EffectsType
<1>4. ASSUME NEW e \in Entities, Notify(e) PROVE EffectsType'
  <2>1. CASE e \in pending_notifications
    BY <1>1, <1>4, <2>1 DEF Notify, PushNotify, effectVars
  <2>2. CASE e \notin pending_notifications
    <3>1. Effect("notify", e, None) \in Effects
      BY EffectTypes
    <3> QED BY <1>0, <1>2, <1>4, <2>2, <3>1 DEF Notify, PushNotify, EffectsType
  <2> QED BY <2>1, <2>2
<1>5. ASSUME NEW g \in Globals, SetGlobal(g) \/ RemoveGlobal(g) PROVE EffectsType'
  <2>1. PushGlobal(g) /\ UNCHANGED pending_notifications
    BY <1>5 DEF SetGlobal, RemoveGlobal
  <2>2. CASE g \in pending_globals
    BY <1>1, <2>1, <2>2 DEF PushGlobal, effectVars
  <2>3. CASE g \notin pending_globals
    <3>1. Effect("global", g, None) \in Effects
      BY EffectTypes
    <3> QED BY <1>0, <1>2, <2>1, <2>3, <3>1 DEF PushGlobal, EffectsType
  <2> QED BY <2>2, <2>3
<1>6. ASSUME NEW kind \in Plain, NEW e \in Entities \cup {None}, PushPlain(kind, e)
      PROVE  EffectsType'
  <2>1. Effect(kind, e, None) \in Effects
    <3>1. kind \in {"emit", "refresh", "defer"} /\ ((kind = "emit") = (e # None))
      BY <1>6, PlainAssumption DEF PushPlain
    <3>2. CASE kind = "emit"
      BY <3>1, <3>2, EffectTypes
    <3>3. CASE kind # "emit"
      BY <3>1, <3>3, EffectTypes
    <3> QED BY <3>2, <3>3
  <2> QED BY <1>0, <1>2, <1>6, <2>1 DEF PushPlain, EffectsType
<1>7. ASSUME NEW e \in Entities, Observe(e) PROVE EffectsType'
  <2>1. Effect("activate", e, None) \in Effects
    BY EffectTypes
  <2> QED BY <1>0, <1>2, <1>7, <2>1 DEF Observe, EffectsType
<1>8. CASE EndNew
  <2>1. Top.on \in Entities
    BY <1>8, TopFacts DEF EndNew, TopIs
  <2>2. CurrentWindow \in Windows \cup {None}
    BY <1>0, FrontFacts DEF CurrentWindow, Last
  <2>3. Effect("created", Top.on, CurrentWindow) \in Effects
    BY <2>1, <2>2, EffectTypes
  <2> QED BY <1>0, <1>2, <1>8, <2>3 DEF EndNew, EffectsType
<1>9. CASE EndOpen
  <2>1. Effect("defer", None, None) \in Effects
    BY EffectTypes
  <2> QED BY <1>0, <1>2, <1>9, <2>1 DEF EndOpen, EffectsType
<1>10. CASE ApplyNotify
  BY <1>0, <1>3, <1>10 DEF ApplyNotify, EffectsType
<1>11. CASE ApplyGlobal
  BY <1>0, <1>3, <1>11 DEF ApplyGlobal, EffectsType
<1>12. CASE ApplyEmit
  BY <1>0, <1>3, <1>12 DEF ApplyEmit, EffectsType
<1>13. CASE ApplyDefer
  BY <1>0, <1>3, <1>13 DEF ApplyDefer, EffectsType
<1>14. CASE ApplyActivate
  BY <1>0, <1>3, <1>14 DEF ApplyActivate, EffectsType
<1>15. CASE ApplyRefresh
  BY <1>0, <1>3, <1>15 DEF ApplyRefresh, EffectsType
<1>16. CASE ApplyCreated
  <2>1. Popped("created") /\ UNCHANGED <<pending_notifications, pending_globals>>
    BY <1>16 DEF ApplyCreated
  <2> QED BY <1>0, <1>3, <2>1 DEF EffectsType
<1>17. CASE StartUpdate \/ EndUpdate \/ EndInsert \/ EndEffect \/ EndCreated \/ EndFlush
            \/ Release \/ EndClosing \/ RemoveWindow \/ Draw \/ ReturnWindow \/ CloseWindow
  BY <1>1, <1>17 DEF StartUpdate, EndUpdate, EndInsert, EndEffect, EndCreated, EndFlush,
     Release, EndClosing, RemoveWindow, Draw, ReturnWindow, CloseWindow
<1>18. ASSUME NEW e \in Entities, Unobserve(e) \/ StartNew(e) \/ Reserve(e)
                                  \/ StartInsert(e) \/ DropHandle(e)
       PROVE  EffectsType'
  BY <1>1, <1>18 DEF Unobserve, StartNew, Reserve, StartInsert, DropHandle
<1>19. ASSUME NEW w \in Windows, OpenWindow(w) \/ UpdateWindow(w) PROVE EffectsType'
  BY <1>1, <1>19 DEF OpenWindow, UpdateWindow
<1>20. CASE UNCHANGED vars
  BY <1>1, <1>20 DEF vars
<1> QED BY <1>4, <1>5, <1>6, <1>7, <1>8, <1>9, <1>10, <1>11, <1>12, <1>13, <1>14, <1>15,
           <1>16, <1>17, <1>18, <1>19, <1>20 DEF Next, Flush

LEMMA EntityTypeStep ==
    ASSUME TypeOK, StackInv, [Next]_vars
    PROVE  EntityType'
<1>0. EntityType /\ pending_effects \in Seq(Effects)
  BY DEF TypeOK, EntityType
<1>1. ASSUME UNCHANGED entityVars PROVE EntityType'
  BY <1>0, <1>1 DEF EntityType, entityVars
<1>2. ASSUME NEW e \in Entities, Notify(e) PROVE EntityType'
  BY <1>0, <1>2 DEF Notify, EntityType
<1>3. ASSUME NEW e \in Entities, Observe(e) PROVE EntityType'
  BY <1>0, <1>3 DEF Observe, EntityType
<1>4. ASSUME NEW e \in Entities, Unobserve(e) PROVE EntityType'
  BY <1>0, <1>4 DEF Unobserve, EntityType
<1>5. ASSUME NEW e \in Entities, StartNew(e) PROVE EntityType'
  BY <1>0, <1>5 DEF StartNew, EntityType
<1>6. ASSUME NEW e \in Entities, Reserve(e) PROVE EntityType'
  BY <1>0, <1>6 DEF Reserve, EntityType
<1>7. ASSUME NEW e \in Entities, StartInsert(e) PROVE EntityType'
  BY <1>0, <1>7 DEF StartInsert, EntityType
<1>8. ASSUME NEW e \in Entities, DropHandle(e) PROVE EntityType'
  <2>1. Append(dropped, e) \in Seq(Entities)
    BY <1>0, AppendFacts DEF EntityType
  <2>2. dropped' \in Seq(Entities)
    BY <1>0, <1>8, <2>1 DEF DropHandle, EntityType
  <2> QED BY <1>0, <1>8, <2>2 DEF DropHandle, EntityType
<1>9. CASE EndNew
  <2>1. Top.on \in Entities
    BY <1>9, TopFacts DEF EndNew, TopIs
  <2> QED BY <1>0, <1>9, <2>1 DEF EndNew, EntityType
<1>10. CASE EndInsert
  <2>1. Top.on \in Entities
    BY <1>10, TopFacts DEF EndInsert, TopIs
  <2> QED BY <1>0, <1>10, <2>1 DEF EndInsert, EntityType
<1>11. CASE Release
  <2>1. /\ Head(dropped) \in Entities /\ Tail(dropped) \in Seq(Entities)
    BY <1>0, <1>11, TailFacts DEF Release, EntityType
  <2>2. entity' \in [Entities -> {"absent", "reserved", "live", "released"}]
    BY <1>0, <1>11 DEF Release, EntityType
  <2>3. observer' \in [Entities -> {"none", "inactive", "active"}]
    BY <1>0, <1>11 DEF Release, EntityType
  <2>4. dropped' \in Seq(Entities) /\ held' = held /\ owed' \subseteq Entities
    BY <1>0, <1>11, <2>1 DEF Release, EntityType
  <2> QED BY <1>0, <2>2, <2>3, <2>4 DEF EntityType
<1>12. CASE ApplyNotify
  <2>1. /\ UNCHANGED <<entity, held, dropped, observer>> /\ owed' \subseteq owed
    BY <1>12 DEF ApplyNotify
  <2> QED BY <1>0, <2>1 DEF EntityType
<1>13. CASE ApplyActivate
  <2>1. UNCHANGED <<entity, held, dropped, owed>>
    BY <1>13 DEF ApplyActivate
  <2>2. observer' \in [Entities -> {"none", "inactive", "active"}]
    BY <1>0, <1>13 DEF ApplyActivate, EntityType
  <2> QED BY <1>0, <2>1, <2>2 DEF EntityType
<1>14. ASSUME NEW e \in Entities, NEW effects, NEW stack, EffectDrops(e, effects, stack)
       PROVE  dropped' \in Seq(Entities)
  <2>1. Append(dropped, e) \in Seq(Entities)
    BY <1>0, AppendFacts DEF EntityType
  <2> QED BY <1>0, <1>14, <2>1 DEF EffectDrops, EntityType
<1>15. CASE ApplyCreated
  <2>1. Head(pending_effects).on \in Entities
    BY <1>0, <1>15, PoppedFacts, EffectParts DEF ApplyCreated
  <2>2. UNCHANGED <<entity, held, observer, owed>>
    BY <1>15 DEF ApplyCreated
  <2>3. EffectDrops(Head(pending_effects).on, pending_effects', calls) \/ dropped' = dropped
    BY <1>15 DEF ApplyCreated
  <2>4. dropped' \in Seq(Entities)
    BY <1>0, <1>14, <2>1, <2>3 DEF EntityType
  <2> QED BY <1>0, <2>2, <2>4 DEF EntityType
<1>16. CASE EndCreated
  <2>1. Top.on \in Entities
    BY <1>16, TopFacts DEF EndCreated, TopIs
  <2>2. UNCHANGED <<entity, held, observer, owed>> /\ dropped' \in Seq(Entities)
    BY <1>14, <1>16, <2>1 DEF EndCreated
  <2> QED BY <1>0, <2>2 DEF EntityType
<1>17. CASE StartUpdate \/ EndUpdate \/ EndOpen \/ EndEffect \/ EndFlush \/ EndClosing
            \/ RemoveWindow \/ Draw \/ ReturnWindow \/ CloseWindow \/ ApplyGlobal
            \/ ApplyEmit \/ ApplyDefer \/ ApplyRefresh
  BY <1>1, <1>17 DEF StartUpdate, EndUpdate, EndOpen, EndEffect, EndFlush, EndClosing,
     RemoveWindow, Draw, ReturnWindow, CloseWindow, ApplyGlobal, ApplyEmit, ApplyDefer,
     ApplyRefresh
<1>18. ASSUME NEW g \in Globals, SetGlobal(g) \/ RemoveGlobal(g) PROVE EntityType'
  BY <1>1, <1>18 DEF SetGlobal, RemoveGlobal
<1>19. ASSUME NEW kind \in Plain, NEW e \in Entities \cup {None}, PushPlain(kind, e)
       PROVE  EntityType'
  BY <1>1, <1>19 DEF PushPlain
<1>20. ASSUME NEW w \in Windows, OpenWindow(w) \/ UpdateWindow(w) PROVE EntityType'
  BY <1>1, <1>20 DEF OpenWindow, UpdateWindow
<1>21. CASE UNCHANGED vars
  BY <1>1, <1>21 DEF vars
<1> QED BY <1>2, <1>3, <1>4, <1>5, <1>6, <1>7, <1>8, <1>9, <1>10, <1>11, <1>12, <1>13,
           <1>15, <1>16, <1>17, <1>18, <1>19, <1>20, <1>21 DEF Next, Flush

LEMMA WindowTypeStep ==
    ASSUME TypeOK, StackInv, [Next]_vars
    PROVE  WindowType'
<1>0. WindowType /\ pending_effects \in Seq(Effects)
  BY DEF TypeOK, WindowType, WindowStates
<1>1. ASSUME UNCHANGED windowVars PROVE WindowType'
  BY <1>0, <1>1 DEF WindowType, windowVars
<1>2. ASSUME NEW w, NEW s \in WindowStates, windows' = [windows EXCEPT ![w] = s],
             removed' \subseteq removed, dirty' \subseteq dirty
      PROVE  WindowType'
  BY <1>0, <1>2 DEF WindowType
<1>3. ASSUME NEW w \in Windows, OpenWindow(w) \/ UpdateWindow(w) PROVE WindowType'
  BY <1>2, <1>3 DEF OpenWindow, UpdateWindow, TakeWindow, WindowStates
<1>4. CASE EndOpen \/ ReturnWindow \/ CloseWindow
  <2>1. CASE EndOpen
    BY <1>2, <2>1 DEF EndOpen, WindowStates
  <2>2. CASE ReturnWindow
    BY <1>2, <2>2 DEF ReturnWindow, WindowStates
  <2>3. CASE CloseWindow
    <3>1. /\ windows' = [windows EXCEPT ![Top.on] = "closed"]
          /\ removed' \subseteq removed /\ dirty' \subseteq dirty
      BY <2>3 DEF CloseWindow
    <3> QED BY <1>2, <3>1 DEF WindowStates
  <2> QED BY <1>4, <2>1, <2>2, <2>3
<1>5. CASE RemoveWindow
  <2>1. Top.on \in Windows
    BY <1>5, TopFacts DEF RemoveWindow, TopIs, WindowKinds
  <2> QED BY <1>0, <1>5, <2>1 DEF RemoveWindow, WindowType
<1>6. CASE Draw
  BY <1>0, <1>6 DEF Draw, WindowType
<1>7. CASE ApplyRefresh
  BY <1>0, <1>7 DEF ApplyRefresh, WindowType
<1>8. CASE EndClosing
  BY <1>0, <1>8 DEF EndClosing, WindowType
<1>9. CASE ApplyCreated
  <2>1. \/ UNCHANGED windowVars
        \/ /\ windows' = [windows EXCEPT ![Head(pending_effects).window] = "out"]
           /\ UNCHANGED <<removed, dirty>>
    BY <1>9 DEF ApplyCreated, TakeWindow
  <2> QED BY <1>1, <1>2, <2>1 DEF WindowStates
<1>10. CASE StartUpdate \/ EndUpdate \/ EndNew \/ EndInsert \/ EndEffect \/ EndFlush
            \/ EndCreated \/ Release \/ ApplyNotify \/ ApplyGlobal \/ ApplyEmit
            \/ ApplyDefer \/ ApplyActivate
  BY <1>1, <1>10 DEF StartUpdate, EndUpdate, EndNew, EndInsert, EndEffect, EndFlush,
     EndCreated, Release, ApplyNotify, ApplyGlobal, ApplyEmit, ApplyDefer, ApplyActivate
<1>11. ASSUME NEW g \in Globals, SetGlobal(g) \/ RemoveGlobal(g) PROVE WindowType'
  BY <1>1, <1>11 DEF SetGlobal, RemoveGlobal
<1>12. ASSUME NEW kind \in Plain, NEW e \in Entities \cup {None}, PushPlain(kind, e)
       PROVE  WindowType'
  BY <1>1, <1>12 DEF PushPlain
<1>13. ASSUME NEW e \in Entities,
              Notify(e) \/ Observe(e) \/ Unobserve(e) \/ StartNew(e) \/ Reserve(e)
              \/ StartInsert(e) \/ DropHandle(e)
       PROVE  WindowType'
  BY <1>1, <1>13 DEF Notify, Observe, Unobserve, StartNew, Reserve, StartInsert, DropHandle
<1>14. CASE UNCHANGED vars
  BY <1>1, <1>14 DEF vars
<1> QED BY <1>3, <1>4, <1>5, <1>6, <1>7, <1>8, <1>9, <1>10, <1>11, <1>12, <1>13, <1>14
        DEF Next, Flush

LEMMA FlagTypeStep ==
    ASSUME TypeOK, [Next]_vars
    PROVE  FlagType'
<1>0. FlagType
  BY DEF TypeOK, FlagType
<1>1. globals' \subseteq Globals
  <2>1. globals \subseteq Globals
    BY DEF TypeOK
  <2>2. ASSUME NEW g \in Globals, SetGlobal(g) \/ RemoveGlobal(g) PROVE globals' \subseteq Globals
    BY <2>1, <2>2 DEF SetGlobal, RemoveGlobal
  <2>3. \/ globals' = globals
        \/ \E g \in Globals : SetGlobal(g) \/ RemoveGlobal(g)
    BY DEF Next, Flush, vars, StartUpdate, EndUpdate, Notify, Observe, Unobserve,
       StartNew, Reserve, StartInsert, DropHandle, PushPlain, EndNew, EndInsert,
       OpenWindow, UpdateWindow, EndOpen, RemoveWindow, Draw, ReturnWindow, CloseWindow,
       EndClosing, EndEffect, EndCreated, Release, ApplyNotify, ApplyGlobal, ApplyEmit,
       ApplyDefer, ApplyActivate, ApplyRefresh, ApplyCreated, EndFlush
  <2> QED BY <2>1, <2>2, <2>3
<1>2. new_observed' = new_observed
  BY DEF Next, Flush, vars, StartUpdate, EndUpdate, Notify, Observe, Unobserve,
     StartNew, Reserve, StartInsert, DropHandle, PushPlain, SetGlobal, RemoveGlobal,
     EndNew, EndInsert, OpenWindow, UpdateWindow, EndOpen, RemoveWindow, Draw,
     ReturnWindow, CloseWindow, EndClosing, EndEffect, EndCreated, Release, ApplyNotify,
     ApplyGlobal, ApplyEmit, ApplyDefer, ApplyActivate, ApplyRefresh, ApplyCreated,
     EndFlush
<1>3. panicked' \in BOOLEAN
  <2>1. panicked \in BOOLEAN
    BY DEF TypeOK
  <2>2. panicked' = panicked \/ panicked' = TRUE
    BY DEF Next, Flush, vars, StartUpdate, EndUpdate, Notify, Observe, Unobserve,
       StartNew, Reserve, StartInsert, DropHandle, PushPlain, SetGlobal, RemoveGlobal,
       EndNew, EndInsert, OpenWindow, UpdateWindow, EndOpen, RemoveWindow, Draw,
       ReturnWindow, CloseWindow, EndClosing, EndEffect, EndCreated, Release,
       ApplyNotify, ApplyGlobal, ApplyEmit, ApplyDefer, ApplyActivate, ApplyRefresh,
       ApplyCreated, EndFlush
  <2> QED BY <2>1, <2>2
<1>4. quit' \in BOOLEAN
  <2>1. quit \in BOOLEAN
    BY DEF TypeOK
  <2>2. \/ quit' = quit \/ quit' = (quit \/ NoWindowLeft(windows))
        \/ quit' = (quit \/ NoWindowLeft(windows'))
    BY DEF Next, Flush, vars, windowVars, StartUpdate, EndUpdate, Notify, Observe,
       Unobserve, StartNew, Reserve, StartInsert, DropHandle, PushPlain, SetGlobal,
       RemoveGlobal, EndNew, EndInsert, OpenWindow, UpdateWindow, EndOpen, RemoveWindow,
       Draw, ReturnWindow, CloseWindow, EndClosing, EndEffect, EndCreated, Release,
       ApplyNotify, ApplyGlobal, ApplyEmit, ApplyDefer, ApplyActivate, ApplyRefresh,
       ApplyCreated, EndFlush
  <2> QED BY <2>1, <2>2, Zenon
<1>5. flushing_effects' \in BOOLEAN
  <2>1. flushing_effects \in BOOLEAN
    BY DEF TypeOK
  <2>2. FinishUpdate => flushing_effects' \in {flushing_effects, TRUE}
    BY DEF FinishUpdate
  <2>3. flushing_effects' \in {flushing_effects, TRUE, FALSE}
    BY <2>2 DEF Next, Flush, vars, updateVars, StartUpdate, EndUpdate, Notify, Observe,
       Unobserve, StartNew, Reserve, StartInsert, DropHandle, PushPlain, SetGlobal,
       RemoveGlobal, EndNew, EndInsert, OpenWindow, UpdateWindow, EndOpen, RemoveWindow,
       Draw, ReturnWindow, CloseWindow, EndClosing, EndEffect, EndCreated, Release,
       ApplyNotify, ApplyGlobal, ApplyEmit, ApplyDefer, ApplyActivate, ApplyRefresh,
       ApplyCreated, EndFlush
  <2> QED BY <2>1, <2>3
<1> QED BY <1>0, <1>1, <1>2, <1>3, <1>4, <1>5 DEF FlagType

-----------------------------------------------------------------------------
(* QueueInv is preserved.                                                  *)

\* Queueing an effect of another kind, or for an x that has none.
LEMMA MirrorsAppend ==
    ASSUME NEW q \in Seq(Effects), NEW kind, NEW S, NEW P, Mirrors(q, kind, S, P),
           NEW f \in Effects
    PROVE  /\ f.kind # kind => Mirrors(Append(q, f), kind, S, P)
           /\ f.kind = kind /\ f.on \in S \ P => Mirrors(Append(q, f), kind, S, P \cup {f.on})
<1> DEFINE r == Append(q, f)
           n == Len(q)
<1>1. /\ Len(r) = n + 1 /\ n + 1 \in 1..(n + 1) /\ r[n + 1] = f
      /\ \A k \in 1..n : k \in 1..(n + 1) /\ r[k] = q[k]
      /\ \A k \in 1..(n + 1) : k = n + 1 \/ k \in 1..n
  BY AppendFacts
<1>2. n = Len(q)
  OBVIOUS
<1>3. r = Append(q, f)
  OBVIOUS
<1> HIDE DEF r, n
<1>4. ASSUME f.kind # kind PROVE Mirrors(r, kind, S, P)
  BY <1>1, <1>2, <1>4 DEF Mirrors
<1>5. ASSUME f.kind = kind, f.on \in S \ P PROVE Mirrors(r, kind, S, P \cup {f.on})
  <2>1. \A k \in 1..n : q[k].kind = kind => q[k].on # f.on
    BY <1>2, <1>5 DEF Mirrors
  <2>2. \A x \in S : x \in P \cup {f.on}
                        <=> \E k \in 1..Len(r) : r[k].kind = kind /\ r[k].on = x
    BY <1>1, <1>2, <1>5 DEF Mirrors
  <2>3. \A k, l \in 1..Len(r) :
           r[k].kind = kind /\ r[l].kind = kind /\ r[k].on = r[l].on => k = l
    BY <1>1, <1>2, <2>1 DEF Mirrors
  <2> QED BY <2>2, <2>3 DEF Mirrors
<1> QED BY <1>3, <1>4, <1>5

\* Taking the next effect.
LEMMA MirrorsTail ==
    ASSUME NEW q \in Seq(Effects), q # <<>>, NEW kind, NEW S, NEW P, Mirrors(q, kind, S, P)
    PROVE  /\ Head(q).kind # kind => Mirrors(Tail(q), kind, S, P)
           /\ Head(q).kind = kind => Mirrors(Tail(q), kind, S, P \ {Head(q).on})
<1> DEFINE r == Tail(q)
           h == Head(q)
           n == Len(q)
           m == Len(r)
<1>1. /\ h = q[1] /\ 1 \in 1..n
      /\ \A k \in 1..m : k + 1 \in 1..n /\ r[k] = q[k + 1] /\ k + 1 # 1
      /\ \A k \in 1..n : k = 1 \/ (k - 1 \in 1..m /\ r[k - 1] = q[k])
  BY TailFacts
<1>2. n = Len(q) /\ m = Len(r) /\ r = Tail(q) /\ h = Head(q)
  OBVIOUS
<1>3. \A k, l \in 1..m : k + 1 = l + 1 => k = l
  OBVIOUS
<1> HIDE DEF r, h, n, m
<1>4. \A k, l \in 1..m :
         r[k].kind = kind /\ r[l].kind = kind /\ r[k].on = r[l].on => k = l
  BY <1>1, <1>2, <1>3 DEF Mirrors
<1>5. ASSUME NEW x \in S, ~(h.kind = kind /\ h.on = x)
      PROVE  x \in P <=> \E k \in 1..m : r[k].kind = kind /\ r[k].on = x
  <2>1. x \in P <=> \E k \in 1..n : q[k].kind = kind /\ q[k].on = x
    BY <1>2 DEF Mirrors
  <2>2. ASSUME NEW k \in 1..n, q[k].kind = kind, q[k].on = x
        PROVE  \E l \in 1..m : r[l].kind = kind /\ r[l].on = x
    <3>1. k - 1 \in 1..m /\ r[k - 1] = q[k]
      BY <1>1, <1>5, <2>2
    <3> QED BY <2>2, <3>1
  <2>3. ASSUME NEW k \in 1..m, r[k].kind = kind, r[k].on = x
        PROVE  \E l \in 1..n : q[l].kind = kind /\ q[l].on = x
    BY <1>1, <2>3
  <2> QED BY <2>1, <2>2, <2>3
<1>6. ASSUME h.kind = kind, NEW k \in 1..m, r[k].kind = kind PROVE r[k].on # h.on
  BY <1>1, <1>2, <1>6 DEF Mirrors
<1>7. ASSUME h.kind # kind PROVE Mirrors(r, kind, S, P)
  BY <1>2, <1>4, <1>5, <1>7 DEF Mirrors
<1>8. ASSUME h.kind = kind PROVE Mirrors(r, kind, S, P \ {h.on})
  <2>1. \A x \in S : x \in P \ {h.on} <=> \E k \in 1..m : r[k].kind = kind /\ r[k].on = x
    <3> TAKE x \in S
    <3>1. CASE x = h.on
      BY <1>6, <1>8, <3>1
    <3>2. CASE x # h.on
      BY <1>5, <3>2
    <3> QED BY <3>1, <3>2
  <2> QED BY <1>2, <1>4, <2>1 DEF Mirrors
<1> QED BY <1>2, <1>7, <1>8

LEMMA QueueInvStep ==
    ASSUME TypeOK, StackInv, QueueInv, [Next]_vars
    PROVE  QueueInv'
<1> DEFINE Owed == \A e \in owed : e \in pending_notifications /\ observer[e] = "active"
<1>0. /\ pending_effects \in Seq(Effects)
      /\ Mirrors(pending_effects, "notify", Entities, pending_notifications)
      /\ Mirrors(pending_effects, "global", Globals, pending_globals)
      /\ Owed
      /\ observer \in [Entities -> {"none", "inactive", "active"}]
      /\ owed \subseteq Entities /\ dropped \in Seq(Entities)
  BY DEF TypeOK, QueueInv
<1>a. Owed => \A e \in owed : e \in pending_notifications /\ observer[e] = "active"
  OBVIOUS
<1>b. Owed' <=> \A e \in owed' : e \in pending_notifications' /\ observer'[e] = "active"
  OBVIOUS
<1> HIDE DEF Owed
<1>1. ASSUME UNCHANGED effectVars, Owed' PROVE QueueInv'
  BY <1>0, <1>1, <1>b DEF QueueInv, effectVars
<1>2. ASSUME UNCHANGED <<effectVars, owed, observer>> PROVE QueueInv'
  BY <1>0, <1>2 DEF QueueInv, effectVars, Owed
<1>3. ASSUME NEW f \in Effects, f.kind \notin {"notify", "global"},
             pending_effects' = Append(pending_effects, f),
             UNCHANGED <<pending_notifications, pending_globals>>, Owed'
      PROVE  QueueInv'
  BY <1>0, <1>3, <1>b, MirrorsAppend DEF QueueInv
<1>4. ASSUME NEW kind, kind \notin {"notify", "global"}, Popped(kind),
             UNCHANGED <<pending_notifications, pending_globals>>, Owed'
      PROVE  QueueInv'
  <2>1. /\ pending_effects # <<>> /\ Head(pending_effects).kind = kind
        /\ pending_effects' = Tail(pending_effects)
    BY <1>0, <1>4, PoppedFacts
  <2> QED BY <1>0, <1>4, <1>b, <2>1, MirrorsTail DEF QueueInv
<1>5. ASSUME UNCHANGED <<pending_notifications, owed, observer>> PROVE Owed'
  BY <1>0, <1>5 DEF Owed
<1>6. ASSUME NEW e \in Entities, Notify(e) PROVE QueueInv'
  <2>1. Owed'
    <3>1. e \in pending_notifications' /\ pending_notifications \subseteq pending_notifications'
      BY <1>6 DEF Notify, PushNotify
    <3>2. observer' = observer /\ owed' = owed \cup {x \in {e} : observer[x] = "active"}
      BY <1>6 DEF Notify
    <3> QED BY <1>0, <1>a, <1>b, <3>1, <3>2
  <2>2. CASE e \in pending_notifications
    BY <1>1, <1>6, <2>1, <2>2 DEF Notify, PushNotify, effectVars
  <2>3. CASE e \notin pending_notifications
    <3> DEFINE f == Effect("notify", e, None)
    <3>1. f \in Effects /\ f.kind = "notify" /\ f.on = e
      BY EffectTypes
    <3>2. /\ pending_notifications' = pending_notifications \cup {e}
          /\ pending_effects' = Append(pending_effects, f)
          /\ pending_globals' = pending_globals
      BY <1>6, <2>3 DEF Notify, PushNotify
    <3> HIDE DEF f
    <3>3. Mirrors(pending_effects', "notify", Entities, pending_notifications \cup {f.on})
      BY <1>0, <2>3, <3>1, <3>2, MirrorsAppend
    <3>4. Mirrors(pending_effects', "global", Globals, pending_globals)
      BY <1>0, <3>1, <3>2, MirrorsAppend
    <3> QED BY <1>b, <2>1, <3>1, <3>2, <3>3, <3>4 DEF QueueInv
  <2> QED BY <2>2, <2>3
<1>7. ASSUME NEW g \in Globals, SetGlobal(g) \/ RemoveGlobal(g) PROVE QueueInv'
  <2>1. PushGlobal(g) /\ UNCHANGED <<pending_notifications, owed, observer>>
    BY <1>7 DEF SetGlobal, RemoveGlobal, entityVars
  <2>2. Owed'
    BY <1>5, <2>1
  <2>3. CASE g \in pending_globals
    BY <1>1, <2>1, <2>2, <2>3 DEF PushGlobal, effectVars
  <2>4. CASE g \notin pending_globals
    <3> DEFINE f == Effect("global", g, None)
    <3>1. f \in Effects /\ f.kind = "global" /\ f.on = g
      BY EffectTypes
    <3>2. /\ pending_globals' = pending_globals \cup {g}
          /\ pending_effects' = Append(pending_effects, f)
          /\ pending_notifications' = pending_notifications
      BY <2>1, <2>4 DEF PushGlobal
    <3> HIDE DEF f
    <3>3. Mirrors(pending_effects', "global", Globals, pending_globals \cup {f.on})
      BY <1>0, <2>4, <3>1, <3>2, MirrorsAppend
    <3>4. Mirrors(pending_effects', "notify", Entities, pending_notifications)
      BY <1>0, <3>1, <3>2, MirrorsAppend
    <3> QED BY <1>b, <2>2, <3>1, <3>2, <3>3, <3>4 DEF QueueInv
  <2> QED BY <2>3, <2>4
<1>8. ASSUME NEW kind \in Plain, NEW e \in Entities \cup {None}, PushPlain(kind, e)
      PROVE  QueueInv'
  <2>1. Effect(kind, e, None) \in Effects /\ kind \notin {"notify", "global"}
    <3>1. kind \in {"emit", "refresh", "defer"} /\ ((kind = "emit") = (e # None))
      BY <1>8, PlainAssumption DEF PushPlain
    <3>2. CASE kind = "emit"
      BY <3>1, <3>2, EffectTypes
    <3>3. CASE kind # "emit"
      BY <3>1, <3>3, EffectTypes
    <3> QED BY <3>2, <3>3
  <2>2. Effect(kind, e, None).kind = kind
    BY EffectTypes
  <2>3. Owed'
    BY <1>5, <1>8 DEF PushPlain, entityVars
  <2> QED BY <1>3, <1>8, <2>1, <2>2, <2>3 DEF PushPlain
<1>9. ASSUME NEW e \in Entities, Observe(e) PROVE QueueInv'
  <2>1. /\ Effect("activate", e, None) \in Effects
        /\ Effect("activate", e, None).kind = "activate"
    BY EffectTypes
  <2>2. Owed'
    <3>1. /\ observer[e] # "active" /\ observer' = [observer EXCEPT ![e] = "inactive"]
          /\ owed' = owed /\ pending_notifications' = pending_notifications
      BY <1>9 DEF Observe
    <3> QED BY <1>0, <1>a, <1>b, <3>1
  <2> QED BY <1>3, <1>9, <2>1, <2>2 DEF Observe
<1>10. ASSUME NEW e \in Entities, Unobserve(e) PROVE QueueInv'
  <2>1. /\ observer' = [observer EXCEPT ![e] = "none"] /\ owed' = owed \ {e}
        /\ UNCHANGED effectVars
    BY <1>10 DEF Unobserve
  <2>2. Owed'
    BY <1>0, <1>a, <1>b, <2>1 DEF effectVars
  <2> QED BY <1>1, <2>1, <2>2
<1>11. CASE EndNew
  <2>1. Top.on \in Entities /\ window_update_stack \in Seq(Windows)
    BY <1>11, TopFacts DEF EndNew, TopIs
  <2>2. CurrentWindow \in Windows \cup {None}
    BY <2>1, FrontFacts DEF CurrentWindow, Last
  <2>3. /\ Effect("created", Top.on, CurrentWindow) \in Effects
        /\ Effect("created", Top.on, CurrentWindow).kind = "created"
    BY <2>1, <2>2, EffectTypes
  <2>4. Owed'
    BY <1>5, <1>11 DEF EndNew
  <2> QED BY <1>3, <1>11, <2>3, <2>4 DEF EndNew
<1>12. CASE EndOpen
  <2>1. /\ Effect("defer", None, None) \in Effects
        /\ Effect("defer", None, None).kind = "defer"
    BY EffectTypes
  <2>2. Owed'
    BY <1>5, <1>12 DEF EndOpen, entityVars
  <2> QED BY <1>3, <1>12, <2>1, <2>2 DEF EndOpen
<1>13. CASE Release
  <2>1. /\ observer' = [observer EXCEPT ![Head(dropped)] = "none"]
        /\ owed' = owed \ {Head(dropped)} /\ UNCHANGED effectVars
    BY <1>13 DEF Release
  <2>2. Owed'
    BY <1>0, <1>a, <1>b, <2>1 DEF effectVars
  <2> QED BY <1>1, <2>1, <2>2
<1>14. CASE ApplyNotify
  <2> DEFINE e == Head(pending_effects).on
  <2>1. /\ pending_effects # <<>> /\ Head(pending_effects).kind = "notify"
        /\ pending_effects' = Tail(pending_effects)
    BY <1>0, <1>14, PoppedFacts DEF ApplyNotify
  <2>2. /\ pending_notifications' = pending_notifications \ {e}
        /\ UNCHANGED <<pending_globals, observer>>
    BY <1>14 DEF ApplyNotify
  <2>3. owed' = owed \ {e}
    <3>1. CASE observer[e] = "active"
      BY <1>14, <3>1 DEF ApplyNotify
    <3>2. CASE observer[e] # "active"
      <4>1. owed' = owed
        BY <1>14, <3>2 DEF ApplyNotify
      <4>2. e \notin owed
        BY <1>0, <1>a, <3>2
      <4> QED BY <4>1, <4>2
    <3> QED BY <3>1, <3>2
  <2>4. Owed'
    BY <1>0, <1>a, <1>b, <2>2, <2>3
  <2>5. Mirrors(pending_effects', "notify", Entities, pending_notifications')
    BY <1>0, <2>1, <2>2, MirrorsTail
  <2>6. Mirrors(pending_effects', "global", Globals, pending_globals')
    BY <1>0, <2>1, <2>2, MirrorsTail
  <2> QED BY <1>b, <2>4, <2>5, <2>6 DEF QueueInv
<1>15. CASE ApplyGlobal
  <2>1. /\ pending_effects # <<>> /\ Head(pending_effects).kind = "global"
        /\ pending_effects' = Tail(pending_effects)
    BY <1>0, <1>15, PoppedFacts DEF ApplyGlobal
  <2>2. /\ pending_globals' = pending_globals \ {Head(pending_effects).on}
        /\ UNCHANGED <<pending_notifications, observer, owed>>
    BY <1>15 DEF ApplyGlobal, entityVars
  <2>3. Owed'
    BY <1>5, <2>2
  <2>4. Mirrors(pending_effects', "notify", Entities, pending_notifications')
    BY <1>0, <2>1, <2>2, MirrorsTail
  <2>5. Mirrors(pending_effects', "global", Globals, pending_globals')
    BY <1>0, <2>1, <2>2, MirrorsTail
  <2> QED BY <1>b, <2>3, <2>4, <2>5 DEF QueueInv
<1>16. ASSUME NEW kind \in {"emit", "defer", "refresh", "created"}, Popped(kind),
              UNCHANGED <<pending_notifications, pending_globals, observer, owed>>
       PROVE  QueueInv'
  <2>1. Owed'
    BY <1>5, <1>16
  <2> QED BY <1>4, <1>16, <2>1
<1>17. CASE ApplyEmit
  BY <1>16, <1>17 DEF ApplyEmit, entityVars
<1>18. CASE ApplyDefer
  BY <1>16, <1>18 DEF ApplyDefer, entityVars
<1>19. CASE ApplyRefresh
  BY <1>16, <1>19 DEF ApplyRefresh, entityVars
<1>20. CASE ApplyCreated
  <2>1. /\ Popped("created")
        /\ UNCHANGED <<pending_notifications, pending_globals, observer, owed>>
    BY <1>20 DEF ApplyCreated
  <2> QED BY <1>16, <2>1
<1>21. CASE ApplyActivate
  <2>1. /\ Popped("activate")
        /\ UNCHANGED <<pending_notifications, pending_globals, owed>>
    BY <1>21 DEF ApplyActivate
  <2>2. \A e \in Entities : observer[e] = "active" => observer'[e] = "active"
    BY <1>0, <1>21 DEF ApplyActivate
  <2>3. Owed'
    BY <1>0, <1>a, <1>b, <2>1, <2>2
  <2> QED BY <1>4, <2>1, <2>3
<1>22. CASE StartUpdate \/ EndUpdate \/ EndInsert \/ EndEffect \/ EndCreated \/ EndFlush
            \/ EndClosing \/ RemoveWindow \/ Draw \/ ReturnWindow \/ CloseWindow
  BY <1>2, <1>22 DEF StartUpdate, EndUpdate, EndInsert, EndEffect, EndCreated, EndFlush,
     EndClosing, RemoveWindow, Draw, ReturnWindow, CloseWindow, entityVars
<1>23. ASSUME NEW e \in Entities, StartNew(e) \/ Reserve(e) \/ StartInsert(e) \/ DropHandle(e)
       PROVE  QueueInv'
  BY <1>2, <1>23 DEF StartNew, Reserve, StartInsert, DropHandle, entityVars
<1>24. ASSUME NEW w \in Windows, OpenWindow(w) \/ UpdateWindow(w) PROVE QueueInv'
  BY <1>2, <1>24 DEF OpenWindow, UpdateWindow, entityVars
<1>25. CASE UNCHANGED vars
  BY <1>2, <1>25 DEF vars, entityVars
<1> QED BY <1>6, <1>7, <1>8, <1>9, <1>10, <1>11, <1>12, <1>13, <1>14, <1>15, <1>17, <1>18,
           <1>19, <1>20, <1>21, <1>22, <1>23, <1>24, <1>25 DEF Next, Flush

-----------------------------------------------------------------------------
(* HeldInv is preserved.                                                   *)

LEMMA EffectHoldsAppend ==
    ASSUME NEW q \in Seq(Effects), NEW f \in Effects, NEW e
    PROVE  EffectHolds(e, q) => EffectHolds(e, Append(q, f))
<1> DEFINE r == Append(q, f)
<1>1. /\ Len(r) = Len(q) + 1
      /\ \A k \in 1..Len(q) : k \in 1..(Len(q) + 1) /\ r[k] = q[k]
  BY AppendFacts
<1> HIDE DEF r
<1>2. EffectHolds(e, q) => EffectHolds(e, r)
  BY <1>1 DEF EffectHolds
<1> QED BY <1>2 DEF r

LEMMA EffectHoldsTail ==
    ASSUME NEW q \in Seq(Effects), q # <<>>, NEW e,
           ~(Head(q).kind = "created" /\ Head(q).on = e), EffectHolds(e, q)
    PROVE  EffectHolds(e, Tail(q))
<1> DEFINE r == Tail(q)
<1>1. /\ Head(q) = q[1]
      /\ \A k \in 1..Len(q) : k = 1 \/ (k - 1 \in 1..Len(r) /\ r[k - 1] = q[k])
  BY TailFacts
<1> HIDE DEF r
<1>2. PICK k \in 1..Len(q) : q[k].kind = "created" /\ q[k].on = e
  BY DEF EffectHolds
<1>3. k - 1 \in 1..Len(r) /\ r[k - 1] = q[k]
  BY <1>1, <1>2
<1>4. EffectHolds(e, r)
  BY <1>2, <1>3 DEF EffectHolds
<1> QED BY <1>4 DEF r

LEMMA WaitsAppend ==
    ASSUME NEW ds \in Seq(Entities), NEW x \in Entities
    PROVE  /\ Waits(x, Append(ds, x))
           /\ \A e : Waits(e, ds) => Waits(e, Append(ds, x))
<1> DEFINE r == Append(ds, x)
<1>1. /\ Len(r) = Len(ds) + 1 /\ Len(ds) + 1 \in 1..(Len(ds) + 1) /\ r[Len(ds) + 1] = x
      /\ \A k \in 1..Len(ds) : k \in 1..(Len(ds) + 1) /\ r[k] = ds[k]
  BY AppendFacts
<1> HIDE DEF r
<1>2. Waits(x, r) /\ \A e : Waits(e, ds) => Waits(e, r)
  BY <1>1 DEF Waits
<1> QED BY <1>2 DEF r

LEMMA WaitsTail ==
    ASSUME NEW ds \in Seq(Entities), ds # <<>>, NEW e, e # Head(ds), Waits(e, ds)
    PROVE  Waits(e, Tail(ds))
<1> DEFINE r == Tail(ds)
<1>1. /\ Head(ds) = ds[1]
      /\ \A k \in 1..Len(ds) : k = 1 \/ (k - 1 \in 1..Len(r) /\ r[k - 1] = ds[k])
  BY TailFacts
<1> HIDE DEF r
<1>2. PICK k \in 1..Len(ds) : ds[k] = e
  BY DEF Waits
<1>3. k - 1 \in 1..Len(r) /\ r[k - 1] = ds[k]
  BY <1>1, <1>2
<1>4. Waits(e, r)
  BY <1>2, <1>3 DEF Waits
<1> QED BY <1>4 DEF r

\* finish_update of a call leaves what the calls below it hold.
LEMMA FinishHolds ==
    ASSUME calls \in Seq(Calls), calls # <<>>, FinishUpdate, NEW e, CallHolds(e, calls),
           Top.call \in {"new", "insert", "created"} => Top.on # e
    PROVE  CallHolds(e, calls')
<1>1. Front(calls) \in Seq(Calls) /\ CallHolds(e, Front(calls))
  BY FrontFacts, HasPop DEF Top
<1>2. Call("flush", None) \in Calls
  BY CallFacts DEF CallKinds
<1>3. calls' = Front(calls) \/ calls' = Append(Front(calls), Call("flush", None))
  BY DEF FinishUpdate
<1> QED BY <1>1, <1>2, <1>3, HasPush

LEMMA HeldInvStep ==
    ASSUME TypeOK, StackInv, HeldInv, [Next]_vars
    PROVE  HeldInv'
<1> DEFINE Holder(e) == \/ e \in held \/ EffectHolds(e, pending_effects)
                        \/ CallHolds(e, calls) \/ Waits(e, dropped)
<1>0. /\ pending_effects \in Seq(Effects) /\ calls \in Seq(Calls)
      /\ dropped \in Seq(Entities) /\ held \subseteq Entities
      /\ entity \in [Entities -> {"absent", "reserved", "live", "released"}]
      /\ None \in Entities \cup Windows \cup Globals \cup {None}
      /\ \A e \in Entities : e \in Entities \cup Windows \cup Globals \cup {None}
      /\ \A e \in Windows : e \in Entities \cup Windows \cup Globals \cup {None}
      /\ \A e \in Globals : e \in Entities \cup Windows \cup Globals \cup {None}
  BY DEF TypeOK
<1>1. ASSUME NEW e \in Entities, ~panicked, entity[e] = "live" PROVE Holder(e)
  BY <1>1 DEF HeldInv
<1>2. ASSUME ~panicked' => \A e \in Entities : entity'[e] = "live" => Holder(e)'
      PROVE  HeldInv'
  BY <1>2 DEF HeldInv
\* A step that takes nothing from a holder.
<1>3. ASSUME ~panicked, UNCHANGED <<entity, dropped>>, held \subseteq held',
             \A e \in Entities : EffectHolds(e, pending_effects)
                                    => EffectHolds(e, pending_effects'),
             \A e \in Entities : CallHolds(e, calls) => CallHolds(e, calls')
      PROVE  HeldInv'
  <2>1. \A e \in Entities : Holder(e) => Holder(e)'
    BY <1>3
  <2> HIDE DEF Holder
  <2> QED BY <1>1, <1>2, <1>3, <2>1
<1> DEFINE KeepsEffects == \A e \in Entities : EffectHolds(e, pending_effects)
                                                  => EffectHolds(e, pending_effects')
           KeepsCalls == \A e \in Entities : CallHolds(e, calls) => CallHolds(e, calls')
<1>4. ASSUME UNCHANGED pending_effects PROVE KeepsEffects
  BY <1>4
<1>5. ASSUME NEW f \in Effects, pending_effects' = Append(pending_effects, f)
      PROVE  KeepsEffects
  BY <1>0, <1>5, EffectHoldsAppend
<1>6. ASSUME NEW kind, kind # "created", Popped(kind) PROVE KeepsEffects
  BY <1>0, <1>6, PoppedFacts, EffectHoldsTail
<1>7. ASSUME UNCHANGED calls PROVE KeepsCalls
  BY <1>7
<1>8. ASSUME NEW call \in CallKinds, NEW on \in Entities \cup Windows \cup Globals \cup {None},
             Push(call, on)
      PROVE  KeepsCalls
  BY <1>0, <1>8, CallFacts, HasPush DEF Push
<1>9. ASSUME calls # <<>>, Top.call \notin {"new", "insert", "created"},
             FinishUpdate \/ calls' = Front(calls)
      PROVE  KeepsCalls
  BY <1>0, <1>9, FinishHolds, HasPop DEF Top
<1> HIDE DEF Holder, KeepsEffects, KeepsCalls
<1>10. ASSUME ~panicked, UNCHANGED <<entity, held, dropped>>, KeepsEffects, KeepsCalls
       PROVE  HeldInv'
  BY <1>3, <1>10 DEF KeepsEffects, KeepsCalls
<1>11. CASE StartUpdate
  <2>1. Push("update", None)
    BY <1>11 DEF StartUpdate
  <2>2. KeepsCalls
    BY <1>0, <1>8, <2>1 DEF CallKinds
  <2> QED BY <1>4, <1>10, <1>11, <2>2
          DEF StartUpdate, CanCall, AppRuns, entityVars, effectVars
<1>12. CASE EndUpdate
  <2>1. KeepsCalls
    BY <1>9, <1>12 DEF EndUpdate, TopIs
  <2> QED BY <1>4, <1>10, <1>12, <2>1 DEF EndUpdate, entityVars, effectVars
<1>13. ASSUME NEW e \in Entities, Notify(e) PROVE HeldInv'
  <2>1. KeepsEffects
    <3>1. Effect("notify", e, None) \in Effects
      BY EffectTypes
    <3> QED BY <1>4, <1>5, <1>13, <3>1 DEF Notify, PushNotify
  <2> QED BY <1>7, <1>10, <1>13, <2>1 DEF Notify, AppRuns, updateVars
<1>14. ASSUME NEW e \in Entities, Observe(e) PROVE HeldInv'
  <2>1. Effect("activate", e, None) \in Effects
    BY EffectTypes
  <2>2. KeepsEffects
    BY <1>5, <1>14, <2>1 DEF Observe
  <2> QED BY <1>7, <1>10, <1>14, <2>2 DEF Observe, AppRuns, updateVars
<1>15. ASSUME NEW e \in Entities, Unobserve(e) PROVE HeldInv'
  BY <1>4, <1>7, <1>10, <1>15 DEF Unobserve, AppRuns, updateVars, effectVars
<1>16. ASSUME NEW kind \in Plain, NEW e \in Entities \cup {None}, PushPlain(kind, e)
       PROVE  HeldInv'
  <2>1. Effect(kind, e, None) \in Effects
    <3>1. kind \in {"emit", "refresh", "defer"} /\ ((kind = "emit") = (e # None))
      BY <1>16, PlainAssumption DEF PushPlain
    <3>2. CASE kind = "emit"
      BY <3>1, <3>2, EffectTypes
    <3>3. CASE kind # "emit"
      BY <3>1, <3>3, EffectTypes
    <3> QED BY <3>2, <3>3
  <2>2. KeepsEffects
    BY <1>5, <1>16, <2>1 DEF PushPlain
  <2> QED BY <1>7, <1>10, <1>16, <2>2 DEF PushPlain, AppRuns, updateVars, entityVars
<1>17. ASSUME NEW g \in Globals, SetGlobal(g) \/ RemoveGlobal(g) PROVE HeldInv'
  <2>1. /\ PushGlobal(g) /\ ~panicked /\ UNCHANGED <<calls, entity, held, dropped>>
    BY <1>17 DEF SetGlobal, RemoveGlobal, AppRuns, updateVars, entityVars
  <2>2. Effect("global", g, None) \in Effects
    BY EffectTypes
  <2>3. KeepsEffects
    BY <1>4, <1>5, <2>1, <2>2 DEF PushGlobal
  <2> QED BY <1>7, <1>10, <2>1, <2>3
<1>18. ASSUME NEW e \in Entities, StartNew(e) \/ Reserve(e) PROVE HeldInv'
  <2>1. /\ entity' = [entity EXCEPT ![e] = "reserved"] /\ ~panicked
        /\ held \subseteq held' /\ UNCHANGED <<dropped, pending_effects>>
        /\ Push("new", e) \/ UNCHANGED calls
    BY <1>18 DEF StartNew, Reserve, CanCall, AppRuns, effectVars, updateVars
  <2>2. KeepsCalls
    BY <1>0, <1>7, <1>8, <2>1 DEF CallKinds
  <2>3. ASSUME NEW x \in Entities, entity'[x] = "live" PROVE Holder(x)'
    <3>1. entity[x] = "live"
      BY <1>0, <2>1, <2>3
    <3>2. Holder(x)
      BY <1>1, <2>1, <3>1
    <3> QED BY <2>1, <2>2, <3>2 DEF Holder, KeepsCalls
  <2> QED BY <1>2, <2>3
<1>19. ASSUME NEW e \in Entities, StartInsert(e) PROVE HeldInv'
  <2>1. /\ entity[e] = "reserved" /\ ~panicked /\ held' = held \ {e} /\ Push("insert", e)
        /\ UNCHANGED <<entity, dropped, pending_effects>>
    BY <1>19 DEF StartInsert, CanCall, AppRuns, effectVars
  <2>2. KeepsCalls
    BY <1>0, <1>8, <2>1 DEF CallKinds
  <2>3. ASSUME NEW x \in Entities, entity'[x] = "live" PROVE Holder(x)'
    <3>1. entity[x] = "live" /\ x # e
      BY <2>1, <2>3
    <3>2. Holder(x)
      BY <1>1, <2>1, <3>1
    <3> QED BY <2>1, <2>2, <3>1, <3>2 DEF Holder, KeepsCalls
  <2> QED BY <1>2, <2>3
<1>20. ASSUME NEW e \in Entities, DropHandle(e) PROVE HeldInv'
  <2>1. /\ ~panicked /\ held' = held \ {e}
        /\ UNCHANGED <<entity, calls, pending_effects>>
        /\ dropped' = IF EffectHolds(e, pending_effects) \/ CallHolds(e, calls)
                      THEN dropped ELSE Append(dropped, e)
    BY <1>20 DEF DropHandle, AppRuns, updateVars, effectVars
  <2>2. /\ \A x \in Entities : Waits(x, dropped) => Waits(x, dropped')
        /\ \/ EffectHolds(e, pending_effects) \/ CallHolds(e, calls)
           \/ Waits(e, dropped')
    BY <1>0, <2>1, WaitsAppend
  <2>3. ASSUME NEW x \in Entities, entity'[x] = "live" PROVE Holder(x)'
    <3>1. Holder(x)
      BY <1>1, <2>1, <2>3
    <3>2. CASE x = e
      BY <2>1, <2>2, <3>2 DEF Holder
    <3>3. CASE x # e
      BY <2>1, <2>2, <3>1, <3>3 DEF Holder
    <3> QED BY <3>2, <3>3
  <2> QED BY <1>2, <2>3
\* EndNew and EndInsert: the application holds what was built.
<1>21. ASSUME ~panicked, calls # <<>>, Top.call \in {"new", "insert"}, FinishUpdate,
              entity' = [entity EXCEPT ![Top.on] = "live"], held' = held \cup {Top.on},
              KeepsEffects, UNCHANGED dropped
       PROVE  HeldInv'
  <2>1. ASSUME NEW x \in Entities, entity'[x] = "live", x # Top.on PROVE Holder(x)'
    <3>1. entity[x] = "live"
      BY <1>0, <1>21, <2>1
    <3>2. Holder(x)
      BY <1>1, <1>21, <3>1
    <3>3. CallHolds(x, calls) => CallHolds(x, calls')
      BY <1>0, <1>21, <2>1, FinishHolds
    <3> QED BY <1>21, <3>2, <3>3 DEF Holder, KeepsEffects
  <2>2. \A x \in Entities : x = Top.on => Holder(x)'
    BY <1>21 DEF Holder
  <2> QED BY <1>2, <2>1, <2>2
<1>22. CASE EndNew
  <2>1. Top.on \in Entities /\ window_update_stack \in Seq(Windows)
    BY <1>22, TopFacts DEF EndNew, TopIs
  <2>2. CurrentWindow \in Windows \cup {None}
    BY <2>1, FrontFacts DEF CurrentWindow, Last
  <2>3. Effect("created", Top.on, CurrentWindow) \in Effects
    BY <2>1, <2>2, EffectTypes
  <2>4. KeepsEffects
    BY <1>5, <1>22, <2>3 DEF EndNew
  <2> QED BY <1>21, <1>22, <2>4 DEF EndNew, TopIs
<1>23. CASE EndInsert
  <2>1. KeepsEffects
    BY <1>4, <1>23 DEF EndInsert, effectVars
  <2> QED BY <1>21, <1>23, <2>1 DEF EndInsert, TopIs
<1>24. ASSUME NEW w \in Windows, OpenWindow(w) PROVE HeldInv'
  <2>1. Push("open", w)
    BY <1>24 DEF OpenWindow
  <2>2. KeepsCalls
    BY <1>0, <1>8, <2>1 DEF CallKinds
  <2> QED BY <1>4, <1>10, <1>24, <2>2
          DEF OpenWindow, CanCall, AppRuns, entityVars, effectVars
<1>25. ASSUME NEW w \in Windows, UpdateWindow(w) PROVE HeldInv'
  <2>1. Push("window", w)
    BY <1>25 DEF UpdateWindow, TakeWindow, Push
  <2>2. KeepsCalls
    BY <1>0, <1>8, <2>1 DEF CallKinds
  <2> QED BY <1>4, <1>10, <1>25, <2>2
          DEF UpdateWindow, CanCall, AppRuns, entityVars, effectVars
<1>26. CASE EndOpen
  <2>1. KeepsCalls
    BY <1>9, <1>26 DEF EndOpen, TopIs
  <2>2. Effect("defer", None, None) \in Effects
    BY EffectTypes
  <2>3. KeepsEffects
    BY <1>5, <1>26, <2>2 DEF EndOpen
  <2> QED BY <1>10, <1>26, <2>1, <2>3 DEF EndOpen, entityVars
<1>27. CASE ReturnWindow
  <2>1. KeepsCalls
    BY <1>9, <1>27 DEF ReturnWindow, TopIs
  <2> QED BY <1>4, <1>10, <1>27, <2>1 DEF ReturnWindow, entityVars, effectVars
<1>28. CASE RemoveWindow \/ Draw
  BY <1>4, <1>7, <1>10, <1>28 DEF RemoveWindow, Draw, updateVars, entityVars, effectVars
<1>29. CASE CloseWindow
  <2>1. /\ calls # <<>> /\ Top.call = "window" /\ ~panicked
        /\ UNCHANGED <<entity, held, dropped, pending_effects>>
        /\ FinishUpdate \/ calls' = Append(Front(calls), Call("closing", Top.on))
    BY <1>29 DEF CloseWindow, TopIs, entityVars, effectVars
  <2>2. CASE FinishUpdate
    BY <1>4, <1>9, <1>10, <2>1, <2>2
  <2>3. CASE calls' = Append(Front(calls), Call("closing", Top.on))
    <3>1. Top.on \in Windows
      BY <2>1, TopFacts DEF WindowKinds
    <3>2. Call("closing", Top.on) \in Calls /\ Front(calls) \in Seq(Calls)
      BY <1>0, <2>1, <3>1, CallFacts, FrontFacts DEF CallKinds
    <3>3. \A e \in Entities : CallHolds(e, calls) => CallHolds(e, Front(calls))
      BY <1>0, <2>1, HasPop DEF Top
    <3>4. KeepsCalls
      BY <2>3, <3>2, <3>3, HasPush DEF KeepsCalls
    <3> QED BY <1>4, <1>10, <2>1, <3>4
  <2> QED BY <2>1, <2>2, <2>3
<1>30. CASE EndClosing
  <2>1. KeepsCalls
    BY <1>9, <1>30 DEF EndClosing, TopIs
  <2> QED BY <1>4, <1>10, <1>30, <2>1 DEF EndClosing, entityVars, effectVars
<1>31. CASE EndEffect
  <2>1. KeepsCalls
    BY <1>9, <1>31 DEF EndEffect, TopIs
  <2> QED BY <1>4, <1>10, <1>31, <2>1 DEF EndEffect, entityVars, effectVars
<1>32. CASE EndFlush
  <2>1. KeepsCalls
    BY <1>9, <1>32 DEF EndFlush, TopIs
  <2> QED BY <1>4, <1>10, <1>32, <2>1 DEF EndFlush, entityVars, effectVars
<1>33. CASE Release
  <2> DEFINE e == Head(dropped)
  <2>1. /\ ~panicked /\ dropped # <<>> /\ dropped' = Tail(dropped)
        /\ entity' = [entity EXCEPT ![e] = "released"]
        /\ UNCHANGED <<held, pending_effects>>
        /\ Push("release", e) \/ UNCHANGED calls
    BY <1>33 DEF Release, effectVars
  <2>2. e \in Entities
    BY <1>0, <2>1, TailFacts
  <2> HIDE DEF e
  <2>3. KeepsCalls
    BY <1>0, <1>7, <1>8, <2>1, <2>2 DEF CallKinds
  <2>4. ASSUME NEW x \in Entities, entity'[x] = "live" PROVE Holder(x)'
    <3>1. entity[x] = "live" /\ x # e
      BY <1>0, <2>1, <2>2, <2>4
    <3>2. Holder(x)
      BY <1>1, <2>1, <3>1
    <3>3. Waits(x, dropped) => Waits(x, dropped')
      BY <1>0, <2>1, <3>1, WaitsTail DEF e
    <3> QED BY <2>1, <2>3, <3>2, <3>3 DEF Holder, KeepsCalls
  <2> QED BY <1>2, <2>4
<1>34. CASE ApplyNotify
  <2>1. /\ Popped("notify") /\ UNCHANGED <<entity, held, dropped>>
        /\ Push("effect", Head(pending_effects).on) \/ UNCHANGED calls
    BY <1>34 DEF ApplyNotify
  <2>2. ~panicked /\ Head(pending_effects).on \in Entities
    BY <1>0, <2>1, PoppedFacts, EffectParts
  <2>3. KeepsCalls
    BY <1>0, <1>7, <1>8, <2>1, <2>2 DEF CallKinds
  <2> QED BY <1>6, <1>10, <2>1, <2>2, <2>3
<1>35. CASE ApplyGlobal
  <2>1. /\ Popped("global") /\ UNCHANGED <<entity, held, dropped>>
        /\ Push("effect", Head(pending_effects).on)
    BY <1>35 DEF ApplyGlobal, entityVars
  <2>2. ~panicked /\ Head(pending_effects).on \in Globals
    BY <1>0, <2>1, PoppedFacts, EffectParts
  <2>3. KeepsCalls
    BY <1>0, <1>8, <2>1, <2>2 DEF CallKinds
  <2> QED BY <1>6, <1>10, <2>1, <2>2, <2>3
<1>36. CASE ApplyEmit
  <2>1. /\ Popped("emit") /\ UNCHANGED <<entity, held, dropped>>
        /\ Push("effect", Head(pending_effects).on) \/ UNCHANGED calls
    BY <1>36 DEF ApplyEmit, entityVars
  <2>2. ~panicked /\ Head(pending_effects).on \in Entities
    BY <1>0, <2>1, PoppedFacts, EffectParts
  <2>3. KeepsCalls
    BY <1>0, <1>7, <1>8, <2>1, <2>2 DEF CallKinds
  <2> QED BY <1>6, <1>10, <2>1, <2>2, <2>3
<1>37. CASE ApplyDefer
  <2>1. /\ Popped("defer") /\ UNCHANGED <<entity, held, dropped>> /\ Push("effect", None)
    BY <1>37 DEF ApplyDefer, entityVars
  <2>2. ~panicked
    BY <1>0, <2>1, PoppedFacts
  <2>3. KeepsCalls
    BY <1>0, <1>8, <2>1 DEF CallKinds
  <2> QED BY <1>6, <1>10, <2>1, <2>2, <2>3
<1>38. CASE ApplyActivate
  <2>1. /\ Popped("activate") /\ UNCHANGED <<entity, held, dropped, calls>>
    BY <1>38 DEF ApplyActivate, updateVars
  <2> QED BY <1>0, <1>6, <1>7, <1>10, <2>1, PoppedFacts
<1>39. CASE ApplyRefresh
  <2>1. /\ Popped("refresh") /\ UNCHANGED <<entity, held, dropped, calls>>
    BY <1>39 DEF ApplyRefresh, updateVars, entityVars
  <2> QED BY <1>0, <1>6, <1>7, <1>10, <2>1, PoppedFacts
\* The handle of x that an EntityCreated effect had is dropped.
<1>40. ASSUME ~panicked, NEW x \in Entities, NEW effects, NEW stack,
              EffectDrops(x, effects, stack), UNCHANGED <<entity, held>>,
              pending_effects' = effects, calls' = stack,
              \A e \in Entities \ {x} :
                 /\ EffectHolds(e, pending_effects) => EffectHolds(e, effects)
                 /\ CallHolds(e, calls) => CallHolds(e, stack)
       PROVE  HeldInv'
  <2>1. /\ \A e \in Entities : Waits(e, dropped) => Waits(e, dropped')
        /\ \/ x \in held \/ EffectHolds(x, effects) \/ CallHolds(x, stack)
           \/ Waits(x, dropped')
    BY <1>0, <1>40, WaitsAppend DEF EffectDrops
  <2>2. Holder(x)'
    BY <1>40, <2>1 DEF Holder
  <2>3. ASSUME NEW e \in Entities, e # x, entity'[e] = "live" PROVE Holder(e)'
    <3>1. Holder(e)
      BY <1>1, <1>40, <2>3
    <3> QED BY <1>40, <2>1, <2>3, <3>1 DEF Holder
  <2> QED BY <1>2, <2>2, <2>3
<1>41. CASE EndCreated
  <2>1. /\ ~panicked /\ calls # <<>> /\ Top.call = "created" /\ calls' = Front(calls)
        /\ EffectDrops(Top.on, pending_effects, Front(calls))
        /\ UNCHANGED <<entity, held, pending_effects>>
    BY <1>41 DEF EndCreated, TopIs, effectVars
  <2>2. Top.on \in Entities
    BY <2>1, TopFacts
  <2>3. \A e \in Entities \ {Top.on} : CallHolds(e, calls) => CallHolds(e, Front(calls))
    BY <1>0, <2>1, HasPop DEF Top
  <2> QED BY <1>40, <2>1, <2>2, <2>3
<1>42. CASE ApplyCreated
  <2> DEFINE x == Head(pending_effects).on
             w == Head(pending_effects).window
  <2>1. /\ ~panicked /\ x \in Entities /\ w \in Windows \cup {None}
        /\ pending_effects' = Tail(pending_effects) /\ pending_effects # <<>>
        /\ UNCHANGED <<entity, held>>
    BY <1>0, <1>42, PoppedFacts, EffectParts DEF ApplyCreated
  <2>2. \A e \in Entities \ {x} : EffectHolds(e, pending_effects)
                                     => EffectHolds(e, pending_effects')
    BY <1>0, <2>1, EffectHoldsTail
  <2>3. \/ EffectDrops(x, pending_effects', calls) /\ UNCHANGED calls
        \/ Push("created", x) /\ UNCHANGED dropped
        \/ /\ w # None /\ UNCHANGED dropped
           /\ calls' = Append(Append(calls, Call("created", x)), Call("window", w))
        \/ panicked'
    BY <1>42 DEF ApplyCreated, TakeWindow, updateVars
  <2>4. CASE EffectDrops(x, pending_effects', calls) /\ UNCHANGED calls
    BY <1>40, <2>1, <2>2, <2>4
  <2> DEFINE b == Call("created", x)
  <2>5. b \in Calls /\ b.call = "created" /\ b.on = x
    BY <1>0, <2>1, CallFacts DEF CallKinds
  <2> HIDE DEF x, w
  <2>6. ASSUME UNCHANGED dropped, KeepsCalls, CallHolds(x, calls') PROVE HeldInv'
    <3>1. ASSUME NEW e \in Entities, entity'[e] = "live" PROVE Holder(e)'
      <4>1. Holder(e)
        BY <1>1, <2>1, <3>1
      <4> QED BY <2>1, <2>2, <2>6, <4>1 DEF Holder, KeepsCalls
    <3> QED BY <1>2, <3>1
  <2>7. CASE Push("created", x) /\ UNCHANGED dropped
    <3>1. KeepsCalls
      BY <1>0, <1>8, <2>1, <2>7 DEF CallKinds
    <3>2. CallHolds(x, calls')
      BY <1>0, <2>5, <2>7, HasPush DEF Push
    <3> QED BY <2>6, <2>7, <3>1, <3>2
  <2>8. CASE /\ w # None /\ UNCHANGED dropped
             /\ calls' = Append(Append(calls, Call("created", x)), Call("window", w))
    <3> DEFINE c == Call("window", w)
               cs == Append(calls, b)
    <3>1. c \in Calls /\ cs \in Seq(Calls) /\ calls' = Append(cs, c)
      BY <1>0, <2>1, <2>5, <2>8, CallFacts, AppendFacts DEF CallKinds
    <3>2. CallHolds(x, cs) /\ \A e : CallHolds(e, calls) => CallHolds(e, cs)
      BY <1>0, <2>5, HasPush
    <3> HIDE DEF b, c, cs
    <3>3. \A e : CallHolds(e, cs) => CallHolds(e, calls')
      BY <3>1, HasPush
    <3> QED BY <2>6, <2>8, <3>2, <3>3 DEF KeepsCalls
  <2>9. CASE panicked'
    BY <1>2, <2>9
  <2> QED BY <2>3, <2>4, <2>7, <2>8, <2>9
<1>43. CASE UNCHANGED vars
  BY <1>43 DEF vars, updateVars, effectVars, entityVars, HeldInv
<1> QED BY <1>11, <1>12, <1>13, <1>14, <1>15, <1>16, <1>17, <1>18, <1>19, <1>20, <1>22,
           <1>23, <1>24, <1>25, <1>26, <1>27, <1>28, <1>29, <1>30, <1>31, <1>32, <1>33,
           <1>34, <1>35, <1>36, <1>37, <1>38, <1>39, <1>41, <1>42, <1>43 DEF Next, Flush

-----------------------------------------------------------------------------
(* Theorems.                                                               *)

IndInv == TypeOK /\ StackInv /\ QueueInv /\ HeldInv

LEMMA InitInd ==
    ASSUME Init
    PROVE  IndInv
<1>1. TypeOK
  <2>1. /\ flushing_effects \in BOOLEAN /\ new_observed \in BOOLEAN
        /\ quit \in BOOLEAN /\ panicked \in BOOLEAN
    BY Zenon DEF Init
  <2>2. /\ calls \in Seq(Calls) /\ pending_updates \in Nat
        /\ pending_effects \in Seq(Effects) /\ dropped \in Seq(Entities)
        /\ window_update_stack \in Seq(Windows)
    BY DEF Init
  <2>3. /\ pending_notifications \subseteq Entities /\ pending_globals \subseteq Globals
        /\ globals \subseteq Globals /\ held \subseteq Entities /\ owed \subseteq Entities
        /\ removed \subseteq Windows /\ dirty \subseteq Windows
    BY DEF Init
  <2>4. /\ entity \in [Entities -> {"absent", "reserved", "live", "released"}]
        /\ observer \in [Entities -> {"none", "inactive", "active"}]
        /\ windows \in [Windows -> {"absent", "home", "out", "closed"}]
    BY DEF Init
  <2> QED BY <2>1, <2>2, <2>3, <2>4 DEF TypeOK
<1>2. StackInv
  <2>1. /\ calls = <<>> /\ pending_updates = 0 /\ window_update_stack = <<>>
        /\ flushing_effects = FALSE /\ windows = [w \in Windows |-> "absent"]
    BY DEF Init
  <2>2. StackOK(calls, pending_updates, window_update_stack)
    <3>1. /\ UpTo(calls, UpdateKinds, 0) = 0 /\ UpTo(calls, WindowKinds, 0) = 0
      BY UpToZero
    <3>2. Len(calls) = 0 /\ Len(window_update_stack) = 0 /\ 1..Len(calls) = {}
      BY <2>1
    <3> QED BY <1>1, <2>1, <3>1, <3>2 DEF StackOK, TypeOK
  <2>3. OutOnStack(windows, window_update_stack)
    BY <2>1 DEF OutOnStack
  <2>4. QuitComing(windows, quit, calls)
    BY <2>1 DEF QuitComing
  <2> QED BY <2>1, <2>2, <2>3, <2>4 DEF StackInv
<1>3. QueueInv
  BY DEF Init, QueueInv, Mirrors
<1>4. HeldInv
  BY DEF Init, HeldInv
<1> QED BY <1>1, <1>2, <1>3, <1>4 DEF IndInv

LEMMA NextInd ==
    ASSUME IndInv, [Next]_vars
    PROVE  IndInv'
<1>1. TypeOK /\ StackInv /\ QueueInv /\ HeldInv
  BY DEF IndInv
<1>2. StackInv' /\ QueueInv' /\ HeldInv'
  BY <1>1, StackInvStep, QueueInvStep, HeldInvStep
<1>3. EffectsType' /\ EntityType' /\ WindowType' /\ FlagType'
  BY <1>1, EffectsTypeStep, EntityTypeStep, WindowTypeStep, FlagTypeStep
<1>4. calls' \in Seq(Calls) /\ pending_updates' \in Nat /\ window_update_stack' \in Seq(Windows)
  BY <1>2, StackTypes DEF StackInv
<1>5. TypeOK'
  BY <1>3, <1>4 DEF TypeOK, EffectsType, EntityType, WindowType, FlagType, WindowStates
<1> QED BY <1>2, <1>5 DEF IndInv

\* The inductive invariant: TypeOK, StackInv, QueueInv and HeldInv.
THEOREM IndInvHolds == Spec => []IndInv
<1>1. Init => IndInv
  BY InitInd
<1>2. IndInv /\ [Next]_vars => IndInv'
  BY NextInd
<1> QED BY <1>1, <1>2, PTL DEF Spec

\* An effect queued at most once is queued at one place or none.
LEMMA MirrorsCount ==
    ASSUME NEW kind, NEW S, NEW P, Mirrors(pending_effects, kind, S, P), NEW x \in S
    PROVE  Cardinality(QueuedAt(kind, x)) = IF x \in P THEN 1 ELSE 0
<1> DEFINE Q == QueuedAt(kind, x)
<1>1. \A k, l \in Q : k = l
  BY DEF Mirrors, QueuedAt
<1>2. x \in P <=> \E k : k \in Q
  BY DEF Mirrors, QueuedAt
<1> HIDE DEF Q
<1>3. CASE x \in P
  <2>1. PICK k : k \in Q
    BY <1>2, <1>3
  <2>2. Q = {k}
    BY <1>1, <2>1
  <2>3. Cardinality(Q) = 1
    BY <2>2, FS_Singleton
  <2> QED BY <1>3, <2>3 DEF Q
<1>4. CASE x \notin P
  <2>1. Q = {}
    BY <1>2, <1>4
  <2>2. Cardinality(Q) = 0
    BY <2>1, FS_EmptySet
  <2> QED BY <1>4, <2>2 DEF Q
<1> QED BY <1>3, <1>4

\* Whatever callbacks nest in an update (App::update, update_window_id, the
\* callbacks of flush_effects and of closed windows), the sets push_effect tests
\* mirror the queue, the windows that are out are on window_update_stack, the
\* flush loop runs with every window in its place, and the application that
\* closes its last window quits.
THEOREM UpdatesAreSound == Spec => []AppInv
<1>1. IndInv => AppInv
  <2> SUFFICES ASSUME IndInv PROVE AppInv
    OBVIOUS
  <2>0. TypeOK /\ StackInv /\ QueueInv
    BY DEF IndInv
  <2>1. PendingMirrorsQueue
    BY <2>0, MirrorsCount DEF PendingMirrorsQueue, QueueInv
  <2>2. StackIsWindowsOut
    BY <2>0 DEF StackIsWindowsOut, StackInv, OutOnStack
  <2>3. WindowsHomeInFlush
    <3> SUFFICES ASSUME TopIs("flush")
                 PROVE  /\ \A w \in Windows : windows[w] # "out"
                        /\ window_update_stack = <<>>
                        /\ pending_updates = 1
      BY DEF WindowsHomeInFlush
    <3>1. window_update_stack = <<>> /\ pending_updates = 1
      BY <2>0, TopFacts DEF TopIs
    <3>2. \A w \in Windows : windows[w] # "out"
      BY <2>0, <3>1 DEF StackInv, OutOnStack
    <3> QED BY <3>1, <3>2
  <2>4. QuitWithLastWindow
    <3>1. calls = <<>> => ~HasCall(calls, "closing")
      BY DEF HasCall
    <3>2. QuitComing(windows, quit, calls)
      BY <2>0 DEF StackInv
    <3> QED BY <3>1, <3>2 DEF QuitComing, QuitWithLastWindow
  <2> QED BY <2>0, <2>1, <2>2, <2>3, <2>4 DEF AppInv
<1> QED BY <1>1, IndInvHolds, PTL

\* An active observer that has not been called since a notify has an effect in
\* the queue that will call it: push_effect merges notifications and observers
\* notify while apply_notify_effect runs them, and none is lost.
THEOREM NotifyAlwaysReaches == Spec => []NotifyReachesActive
<1>1. IndInv => NotifyReachesActive
  BY DEF IndInv, QueueInv, Mirrors, NotifyReachesActive, QueuedAt
<1> QED BY <1>1, IndInvHolds, PTL

\* An update that is not the flush never leaves the stack empty: the outermost
\* one flushes instead of returning.
LEMMA UpdateIsNotLast ==
    ASSUME StackInv, calls # <<>>, Top.call \in UpdateKinds, Top.call # "flush", FinishUpdate
    PROVE  calls' # <<>>
<1>0. calls \in Seq(Calls) /\ Front(calls) \in Seq(Calls) /\ Call("flush", None) \in Calls
      /\ Len(Front(calls)) = Len(calls) - 1 /\ Len(calls) \in Nat
      /\ pending_updates = UpTo(calls, UpdateKinds, Len(calls))
  <2>1. calls \in Seq(Calls)
    BY TopFacts
  <2>2. Front(calls) \in Seq(Calls) /\ Len(Front(calls)) = Len(calls) - 1 /\ Len(calls) \in Nat
    BY <2>1, FrontFacts
  <2>3. Call("flush", None) \in Calls
    BY CallFacts DEF CallKinds
  <2> QED BY <2>1, <2>2, <2>3 DEF StackInv, StackOK
<1>1. CASE ~flushing_effects /\ pending_updates = 1
  BY <1>0, <1>1, AppendFacts DEF FinishUpdate
<1>2. CASE ~(~flushing_effects /\ pending_updates = 1)
  <2> SUFFICES ASSUME Front(calls) = <<>> PROVE FALSE
    BY <1>2 DEF FinishUpdate
  <2>1. Len(calls) = 1
    BY <1>0
  <2>2. UpTo(calls, UpdateKinds, 0 + 1) = UpTo(calls, UpdateKinds, 0)
                                          + IF calls[0 + 1].call \in UpdateKinds THEN 1 ELSE 0
    BY UpToStep
  <2>3. UpTo(calls, UpdateKinds, 0) = 0 /\ calls[1] = Top
    BY <2>1, UpToZero DEF Top
  <2>4. pending_updates = 1
    BY <1>0, <2>1, <2>2, <2>3
  <2>5. HasCall(calls, "flush")
    BY <1>2, <2>4 DEF StackInv
  <2> QED BY <2>1, <2>3, <2>5 DEF HasCall
<1> QED BY <1>1, <1>2

LEMMA CallbackIsNotLast ==
    ASSUME StackInv, calls # <<>>, Top.call \in Callbacks
    PROVE  Front(calls) # <<>>
<1>1. calls \in Seq(Calls) /\ Len(calls) # 1
  BY TopFacts
<1>2. Len(Front(calls)) = Len(calls) - 1 /\ Len(calls) \in Nat
  BY <1>1, FrontFacts
<1> QED BY <1>1, <1>2

\* Only the end of the flush empties the stack.
LEMMA OnlyFlushReturns ==
    ASSUME TypeOK, StackInv, [Next]_vars, calls # <<>>, calls' = <<>>
    PROVE  EndFlush
<1>0. calls \in Seq(Calls) /\ pending_effects \in Seq(Effects) /\ dropped \in Seq(Entities)
  BY DEF TypeOK
<1>1. ASSUME NEW cs \in Seq(Calls), NEW call \in CallKinds,
             NEW on \in Entities \cup Windows \cup Globals \cup {None},
             calls' = Append(cs, Call(call, on))
      PROVE  FALSE
  BY <1>1, CallFacts, AppendFacts
<1>2. ASSUME UNCHANGED calls PROVE FALSE
  BY <1>2
<1>3. ~StartUpdate
  BY <1>0, <1>1 DEF StartUpdate, Push, CallKinds
<1>4. ASSUME NEW e \in Entities, \/ Notify(e) \/ Observe(e) \/ Unobserve(e) \/ StartNew(e)
                                 \/ Reserve(e) \/ StartInsert(e) \/ DropHandle(e)
      PROVE  FALSE
  <2>1. UNCHANGED calls \/ Push("new", e) \/ Push("insert", e)
    BY <1>4 DEF Notify, Observe, Unobserve, StartNew, Reserve, StartInsert, DropHandle, updateVars
  <2> QED BY <1>0, <1>1, <1>2, <2>1 DEF Push, CallKinds
<1>5. ASSUME NEW kind \in Plain, NEW e \in Entities \cup {None}, PushPlain(kind, e)
      PROVE  FALSE
  BY <1>2, <1>5 DEF PushPlain, updateVars
<1>6. ASSUME NEW g \in Globals, SetGlobal(g) \/ RemoveGlobal(g) PROVE FALSE
  BY <1>2, <1>6 DEF SetGlobal, RemoveGlobal, updateVars
<1>7. ASSUME NEW w \in Windows, OpenWindow(w) \/ UpdateWindow(w) PROVE FALSE
  BY <1>0, <1>1, <1>7 DEF OpenWindow, UpdateWindow, TakeWindow, Push, CallKinds
<1>8. ~(EndUpdate \/ EndNew \/ EndInsert \/ EndOpen \/ ReturnWindow \/ EndClosing)
  BY UpdateIsNotLast DEF EndUpdate, EndNew, EndInsert, EndOpen, ReturnWindow, EndClosing,
     TopIs, UpdateKinds
<1>9. ~CloseWindow
  <2> SUFFICES ASSUME CloseWindow PROVE FALSE
    OBVIOUS
  <2>1. /\ calls # <<>> /\ Top.call = "window"
        /\ FinishUpdate \/ calls' = Append(Front(calls), Call("closing", Top.on))
    BY DEF CloseWindow, TopIs
  <2>2. Top.on \in Windows /\ Front(calls) \in Seq(Calls)
    BY <1>0, <2>1, TopFacts, FrontFacts DEF WindowKinds
  <2> QED BY <1>1, <2>1, <2>2, UpdateIsNotLast DEF CallKinds, UpdateKinds
<1>10. ~(EndEffect \/ EndCreated)
  BY CallbackIsNotLast DEF EndEffect, EndCreated, TopIs, Callbacks
<1>11. ~(RemoveWindow \/ Draw \/ ApplyActivate \/ ApplyRefresh)
  BY <1>2 DEF RemoveWindow, Draw, ApplyActivate, ApplyRefresh, updateVars
<1>12. ~Release
  <2> SUFFICES ASSUME Release PROVE FALSE
    OBVIOUS
  <2>1. Head(dropped) \in Entities /\ (Push("release", Head(dropped)) \/ UNCHANGED calls)
    BY <1>0, TailFacts DEF Release
  <2> QED BY <1>0, <1>1, <1>2, <2>1 DEF Push, CallKinds
<1>13. ASSUME NEW kind, Popped(kind), kind \in {"notify", "emit", "created", "global"}
       PROVE  Head(pending_effects).on \in Entities \cup Windows \cup Globals \cup {None}
  BY <1>0, <1>13, PoppedFacts, EffectParts
<1>14. ~(ApplyNotify \/ ApplyGlobal \/ ApplyEmit)
  BY <1>0, <1>1, <1>2, <1>13 DEF ApplyNotify, ApplyGlobal, ApplyEmit, Push, CallKinds
<1>15. ~ApplyDefer
  BY <1>0, <1>1 DEF ApplyDefer, Push, CallKinds
<1>16. ~ApplyCreated
  <2> SUFFICES ASSUME ApplyCreated PROVE FALSE
    OBVIOUS
  <2> DEFINE x == Head(pending_effects).on
             w == Head(pending_effects).window
  <2>1. /\ x \in Entities /\ w \in Windows \cup {None}
    BY <1>0, PoppedFacts, EffectParts DEF ApplyCreated
  <2>2. \/ UNCHANGED calls \/ Push("created", x)
        \/ calls' = Append(Append(calls, Call("created", x)), Call("window", w))
    BY DEF ApplyCreated, TakeWindow, updateVars
  <2> HIDE DEF x, w
  <2>3. Append(calls, Call("created", x)) \in Seq(Calls)
    BY <1>0, <2>1, CallFacts, AppendFacts DEF CallKinds
  <2> QED BY <1>0, <1>1, <1>2, <2>1, <2>2, <2>3 DEF Push, CallKinds
<1>17. ~UNCHANGED vars
  BY <1>2 DEF vars, updateVars
<1> QED BY <1>3, <1>4, <1>5, <1>6, <1>7, <1>8, <1>9, <1>10, <1>11, <1>12, <1>14, <1>15,
           <1>16, <1>17 DEF Next, Flush

\* When the outermost App::update returns, flush_effects has applied every
\* effect and released every entity nobody holds, however updates nest: no
\* inner update returns for the outermost one, and no entity slips between its
\* last handle and dropped_entity_ids.
THEOREM OutermostUpdateFlushes == Spec => FlushedAtReturn
<1> DEFINE Flushed == calls # <<>> /\ calls' = <<>> =>
                         /\ pending_effects' = <<>>
                         /\ dropped' = <<>>
                         /\ \A e \in Entities : entity'[e] = "live" => e \in held'
<1>1. IndInv /\ [Next]_vars => [Flushed]_vars
  <2> SUFFICES ASSUME IndInv, [Next]_vars, calls # <<>>, calls' = <<>>
               PROVE  /\ pending_effects' = <<>>
                      /\ dropped' = <<>>
                      /\ \A e \in Entities : entity'[e] = "live" => e \in held'
    OBVIOUS
  <2>1. IndInv'
    BY NextInd
  <2>2. EndFlush
    BY OnlyFlushReturns DEF IndInv
  <2>3. pending_effects' = <<>> /\ dropped' = <<>> /\ ~panicked'
    BY <2>2 DEF EndFlush, effectVars, entityVars
  <2>4. ASSUME NEW e \in Entities, entity'[e] = "live" PROVE e \in held'
    <3>1. \/ e \in held' \/ EffectHolds(e, pending_effects')
          \/ CallHolds(e, calls') \/ Waits(e, dropped')
      BY <2>1, <2>3, <2>4 DEF IndInv, HeldInv
    <3>2. ~EffectHolds(e, pending_effects') /\ ~CallHolds(e, calls') /\ ~Waits(e, dropped')
      BY <2>3 DEF EffectHolds, CallHolds, Waits
    <3> QED BY <3>1, <3>2
  <2> QED BY <2>3, <2>4
<1>2. FlushedAtReturn <=> [][Flushed]_vars
  BY DEF FlushedAtReturn
<1> HIDE DEF Flushed
<1> QED BY <1>1, <1>2, IndInvHolds, PTL DEF Spec

=============================================================================
