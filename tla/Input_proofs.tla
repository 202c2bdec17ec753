----------------------------- MODULE Input_proofs -----------------------------
(***************************************************************************)
(* What a window does with input: which bindings of the keymap a context   *)
(* and some keystrokes select (Keymap), and what becomes of every          *)
(* keystroke that is typed (KeyInput).                                     *)
(***************************************************************************)
EXTENDS KeyInput, Numbers_proofs, SequenceTheorems, FiniteSetTheorems, TLAPS

(***************************************************************************)
(* The order of precedence.                                                *)
(***************************************************************************)

\* How deep a binding applies is a number, at most the depth of the stack.
LEMMA EnabledFacts ==
    ASSUME NEW b, NEW stack, Len(stack) \in Nat
    PROVE  binding_enabled(b, stack) \in None..Len(stack)
<1> DEFINE S == {None} \cup {d \in 1..Len(stack) : HoldsAt(b.pred, stack, d)}
<1>1. Bounded(S, Len(stack)) /\ \A x \in S : x \in None..Len(stack)
  <2>1. None \in S /\ \A x \in S : x = None \/ x \in 1..Len(stack)
    BY Zenon
  <2> HIDE DEF S
  <2> QED BY <2>1 DEF None, Bounded
<1>2. depth_of(b.pred, stack) = Max(S)
  BY DEF depth_of
<1> HIDE DEF S
<1>3. Max(S) \in S
  BY <1>1, GreatestFacts, Zenon
<1>4. Len(stack) \in None..Len(stack)
  BY DEF None
<1> QED BY <1>1, <1>2, <1>3, <1>4 DEF binding_enabled

\* OutRanks orders the bindings.
LEMMA OutRanksFacts ==
    ASSUME NEW self, NEW stack, Len(stack) \in Nat
    PROVE  /\ \A i, j \in Int : OutRanks(self, stack, i, j) => ~OutRanks(self, stack, j, i)
           /\ \A i, j \in Int : i # j => OutRanks(self, stack, i, j) \/ OutRanks(self, stack, j, i)
           /\ \A i, j, k \in Int : OutRanks(self, stack, i, j) /\ OutRanks(self, stack, j, k)
                                      => OutRanks(self, stack, i, k)
<1>1. ASSUME NEW i \in Int, NEW j \in Int, NEW k \in Int
      PROVE  /\ OutRanks(self, stack, i, j) => ~OutRanks(self, stack, j, i)
             /\ i # j => OutRanks(self, stack, i, j) \/ OutRanks(self, stack, j, i)
             /\ OutRanks(self, stack, i, j) /\ OutRanks(self, stack, j, k)
                   => OutRanks(self, stack, i, k)
  <2> DEFINE d == binding_enabled(self[i], stack)
             e == binding_enabled(self[j], stack)
             f == binding_enabled(self[k], stack)
  <2>1. d \in Int /\ e \in Int /\ f \in Int
    BY EnabledFacts DEF None
  <2>2. /\ OutRanks(self, stack, i, j) = Before(d, i, e, j)
        /\ OutRanks(self, stack, j, i) = Before(e, j, d, i)
        /\ OutRanks(self, stack, j, k) = Before(e, j, f, k)
        /\ OutRanks(self, stack, i, k) = Before(d, i, f, k)
    BY DEF OutRanks
  <2> HIDE DEF d, e, f
  <2>3. /\ Before(d, i, e, j) => ~Before(e, j, d, i)
        /\ i # j => Before(d, i, e, j) \/ Before(e, j, d, i)
        /\ Before(d, i, e, j) /\ Before(e, j, f, k) => Before(d, i, f, k)
    BY <2>1 DEF Before
  <2> QED BY <2>2, <2>3, Zenon
<1> QED BY <1>1, Zenon

\* Some bindings have a best one.
LEMMA BestFacts ==
    ASSUME NEW self, NEW stack, Len(stack) \in Nat, NEW n \in Nat,
           NEW rest \in SUBSET (1..n), rest # {}
    PROVE  LET i == Best(self, stack, rest)
           IN i \in rest /\ \A j \in rest \ {i} : OutRanks(self, stack, i, j)
<1> DEFINE D == {binding_enabled(self[i], stack) : i \in rest}
           d == Max(D)
           S == {i \in rest : binding_enabled(self[i], stack) = d}
           m == Max(S)
<1>0. \A i \in rest : /\ binding_enabled(self[i], stack) \in Int
                      /\ binding_enabled(self[i], stack) <= Len(stack)
  BY EnabledFacts DEF None
<1>1. Bounded(D, Len(stack))
  <2>1. PICK i \in rest : TRUE
    OBVIOUS
  <2>2. binding_enabled(self[i], stack) \in D
    OBVIOUS
  <2>3. \A x \in D : x \in Int /\ x <= Len(stack)
    BY <1>0
  <2> HIDE DEF D
  <2> QED BY <2>2, <2>3 DEF Bounded
<1>2. d \in D /\ \A x \in D : x <= d
  <2> HIDE DEF D, d
  <2> QED BY <1>1, GreatestFacts, Zenon DEF d
<1> HIDE DEF d
<1>3. Bounded(S, n)
  BY <1>2 DEF Bounded
<1>4. m \in S /\ \A x \in S : x <= m
  <2> HIDE DEF S, m
  <2> QED BY <1>3, GreatestFacts, Zenon DEF m
<1> HIDE DEF m
<1>5. \A i \in rest : /\ binding_enabled(self[i], stack) <= d
                      /\ binding_enabled(self[i], stack) = d => i <= m
  BY <1>2, <1>4
<1>6. \E i \in rest : \A j \in rest \ {i} : OutRanks(self, stack, i, j)
  <2>1. m \in rest /\ binding_enabled(self[m], stack) = d
    BY <1>4
  <2>2. ASSUME NEW j \in rest \ {m} PROVE OutRanks(self, stack, m, j)
    BY <1>0, <1>5, <2>1 DEF OutRanks, Before
  <2> QED BY <2>1, <2>2
<1> QED BY <1>6 DEF Best

-----------------------------------------------------------------------------
(***************************************************************************)
(* The loop of resolve_bindings_for_input, on bindings full of the keymap. *)
(***************************************************************************)

\* The bindings of full that run.
RunsOf(full, stack) ==
    {i \in full :
        /\ ~Disables(keymap[i]) /\ ~Nulled(full, stack, i)
        /\ \A u \in full : /\ binding_is_unbound(keymap[u], keymap[i])
                            /\ OutRanks(keymap, stack, u, i)
                            => Nulled(full, stack, u)}

Nulls(done) == {n \in done : is_no_action(keymap[n])}

\* What the loop has collected when done is behind it.
Collected(acc, full, stack, done) ==
    /\ acc.rest = full \ done /\ done \subseteq full
    /\ \A i \in done, j \in acc.rest : OutRanks(keymap, stack, i, j)
    /\ acc.bindings \in Seq(done)
    /\ Range(acc.bindings) = RunsOf(full, stack) \cap done
    /\ \A m, n \in 1..Len(acc.bindings) :
          m < n => OutRanks(keymap, stack, acc.bindings[m], acc.bindings[n])
    /\ acc.unbound = {u \in done : is_unbind(keymap[u]) /\ ~Nulled(full, stack, u)}
    /\ acc.no_action_meta = NoMeta => Nulls(done) = {}
    /\ acc.no_action_meta # NoMeta =>
          /\ \E n \in Nulls(done) : keymap[n].meta = acc.no_action_meta
          /\ \A n \in Nulls(done) : acc.no_action_meta <= keymap[n].meta
    /\ acc = [rest |-> acc.rest, bindings |-> acc.bindings, unbound |-> acc.unbound,
              no_action_meta |-> acc.no_action_meta]

\* What is known of the bindings of the keymap.
BindingsOf(full) == \A i \in full : i \in Nat /\ keymap[i].meta \in Nat

\* The test of the loop is the definition: the strongest `null` so far
\* suppresses the next binding if any that out-ranks it does.
LEMMA SuppressedFacts ==
    ASSUME NEW acc, NEW full, NEW stack, NEW done, Len(stack) \in Nat, BindingsOf(full),
           Collected(acc, full, stack, done), NEW i \in acc.rest,
           \A j \in acc.rest \ {i} : OutRanks(keymap, stack, i, j)
    PROVE  /\ \A x \in full : OutRanks(keymap, stack, x, i) <=> x \in done
           /\ Suppressed(keymap[i], acc.no_action_meta) <=> Nulled(full, stack, i)
           /\ ~Disables(keymap[i]) /\ ~Nulled(full, stack, i) =>
                 (i \in RunsOf(full, stack) <=>
                    ~\E u \in acc.unbound : binding_is_unbound(keymap[u], keymap[i]))
<1>0. /\ acc.rest = full \ done /\ done \subseteq full /\ i \in full
      /\ \A x \in done : OutRanks(keymap, stack, x, i)
      /\ \A x \in full : x \in Int /\ keymap[x].meta \in Nat
  BY DEF Collected, BindingsOf
<1>1. ASSUME NEW x \in full PROVE OutRanks(keymap, stack, x, i) <=> x \in done
  <2>1. CASE x \in done
    BY <1>0, <2>1
  <2>2. CASE x \notin done
    <3>1. /\ \A a, b \in Int : OutRanks(keymap, stack, a, b) => ~OutRanks(keymap, stack, b, a)
          /\ x \in Int /\ i \in Int
      BY <1>0, OutRanksFacts
    <3>2. x = i \/ OutRanks(keymap, stack, i, x)
      BY <1>0, <2>2
    <3> QED BY <2>2, <3>1, <3>2, Zenon
  <2> QED BY <2>1, <2>2
<1>2. Nulled(full, stack, i) <=> \E n \in Nulls(done) : keymap[n].meta <= keymap[i].meta
  BY <1>0, <1>1 DEF Nulled, Nulls
<1>3. Suppressed(keymap[i], acc.no_action_meta) <=> Nulled(full, stack, i)
  <2>1. CASE acc.no_action_meta = NoMeta
    BY <1>2, <2>1 DEF Suppressed, Collected
  <2>2. CASE acc.no_action_meta # NoMeta
    <3>1. /\ \E n \in Nulls(done) : keymap[n].meta = acc.no_action_meta
          /\ \A n \in Nulls(done) : acc.no_action_meta <= keymap[n].meta
      BY <2>2 DEF Collected
    <3>2. \A n \in Nulls(done) : keymap[n].meta \in Nat
      BY <1>0 DEF Nulls
    <3>3. Suppressed(keymap[i], acc.no_action_meta) <=> keymap[i].meta >= acc.no_action_meta
      BY <2>2 DEF Suppressed
    <3> HIDE DEF Nulls
    <3> QED BY <1>0, <1>2, <3>1, <3>2, <3>3
  <2> QED BY <2>1, <2>2
<1>4. ASSUME ~Disables(keymap[i]), ~Nulled(full, stack, i)
      PROVE  i \in RunsOf(full, stack) <=>
                ~\E u \in acc.unbound : binding_is_unbound(keymap[u], keymap[i])
  <2>1. i \in RunsOf(full, stack) <=>
           \A u \in done : binding_is_unbound(keymap[u], keymap[i]) => Nulled(full, stack, u)
    BY <1>0, <1>1, <1>4, Zenon DEF RunsOf
  <2>2. acc.unbound = {u \in done : is_unbind(keymap[u]) /\ ~Nulled(full, stack, u)}
    BY DEF Collected
  <2>3. \A u \in done : binding_is_unbound(keymap[u], keymap[i]) => is_unbind(keymap[u])
    BY DEF binding_is_unbound
  <2> QED BY <2>1, <2>2, <2>3, Zenon
<1> QED BY <1>1, <1>3, <1>4

\* A turn of the loop.
LEMMA CollectStep ==
    ASSUME NEW acc, NEW full, NEW stack, NEW done, Len(stack) \in Nat, BindingsOf(full),
           Collected(acc, full, stack, done), NEW i \in acc.rest,
           \A j \in acc.rest \ {i} : OutRanks(keymap, stack, i, j)
    PROVE  Collected([Collect(keymap, acc, i) EXCEPT !.rest = @ \ {i}], full, stack, done \cup {i})
<1> DEFINE b == keymap[i]
           c == Collect(keymap, acc, i)
           new == [c EXCEPT !.rest = @ \ {i}]
           more == done \cup {i}
           runs == i \in RunsOf(full, stack)
           meta == IF is_no_action(b)
                   THEN IF acc.no_action_meta = NoMeta \/ b.meta < acc.no_action_meta
                        THEN b.meta ELSE acc.no_action_meta
                   ELSE acc.no_action_meta
<1>0. /\ acc.rest = full \ done /\ done \subseteq full /\ i \in full /\ i \notin done
      /\ \A x \in done, j \in acc.rest : OutRanks(keymap, stack, x, j)
      /\ acc.bindings \in Seq(done) /\ Range(acc.bindings) = RunsOf(full, stack) \cap done
      /\ \A m, n \in 1..Len(acc.bindings) :
            m < n => OutRanks(keymap, stack, acc.bindings[m], acc.bindings[n])
      /\ acc.unbound = {u \in done : is_unbind(keymap[u]) /\ ~Nulled(full, stack, u)}
      /\ acc = [rest |-> acc.rest, bindings |-> acc.bindings, unbound |-> acc.unbound,
                no_action_meta |-> acc.no_action_meta]
      /\ \A x \in full : x \in Nat /\ keymap[x].meta \in Nat
  BY DEF Collected, BindingsOf
<1>1. /\ Suppressed(b, acc.no_action_meta) <=> Nulled(full, stack, i)
      /\ ~Disables(b) /\ ~Nulled(full, stack, i) =>
            (runs <=> ~\E u \in acc.unbound : binding_is_unbound(keymap[u], b))
  BY SuppressedFacts
<1>2. runs => ~Disables(b) /\ ~Nulled(full, stack, i)
  BY DEF RunsOf
<1>3. /\ c.rest = acc.rest
      /\ c.bindings = IF runs THEN Append(acc.bindings, i) ELSE acc.bindings
      /\ c.unbound = IF is_unbind(b) /\ ~Nulled(full, stack, i) THEN acc.unbound \cup {i}
                     ELSE acc.unbound
      /\ c.no_action_meta = meta
      /\ c = [rest |-> c.rest, bindings |-> c.bindings, unbound |-> c.unbound,
              no_action_meta |-> c.no_action_meta]
  <2> HIDE DEF runs
  <2>1. CASE is_no_action(b)
    <3>1. ~runs /\ ~is_unbind(b)
      BY <1>2, <2>1 DEF Disables, is_no_action, is_unbind
    <3>2. c = [acc EXCEPT !.no_action_meta = meta]
      BY <2>1 DEF Collect
    <3> HIDE DEF c, meta
    <3> QED BY <1>0, <3>1, <3>2
  <2>2. CASE ~is_no_action(b) /\ Nulled(full, stack, i)
    <3>1. c = acc /\ ~runs /\ meta = acc.no_action_meta
      BY <1>1, <1>2, <2>2 DEF Collect
    <3> HIDE DEF c, meta
    <3> QED BY <1>0, <2>2, <3>1
  <2>3. CASE ~is_no_action(b) /\ ~Nulled(full, stack, i) /\ is_unbind(b)
    <3>1. c = [acc EXCEPT !.unbound = acc.unbound \cup {i}] /\ meta = acc.no_action_meta
      BY <1>1, <2>3 DEF Collect
    <3>2. ~runs
      BY <1>2, <2>3 DEF Disables
    <3> HIDE DEF c, meta
    <3> QED BY <1>0, <2>3, <3>1, <3>2
  <2>4. CASE ~is_no_action(b) /\ ~Nulled(full, stack, i) /\ ~is_unbind(b)
    <3>0. ~Disables(b)
      BY <2>4 DEF Disables
    <3>1. CASE runs
      <4>1. c = [acc EXCEPT !.bindings = Append(acc.bindings, i)] /\ meta = acc.no_action_meta
        BY <1>1, <2>4, <3>0, <3>1 DEF Collect
      <4> HIDE DEF c, meta
      <4> QED BY <1>0, <2>4, <3>1, <4>1
    <3>2. CASE ~runs
      <4>1. c = acc /\ meta = acc.no_action_meta
        BY <1>1, <2>4, <3>0, <3>2 DEF Collect
      <4> HIDE DEF c, meta
      <4> QED BY <1>0, <2>4, <3>2, <4>1
    <3> QED BY <3>1, <3>2
  <2> QED BY <2>1, <2>2, <2>3, <2>4
<1> HIDE DEF c
<1>4. /\ new.rest = acc.rest \ {i} /\ new.bindings = c.bindings /\ new.unbound = c.unbound
      /\ new.no_action_meta = c.no_action_meta
      /\ new = [rest |-> new.rest, bindings |-> new.bindings, unbound |-> new.unbound,
                no_action_meta |-> new.no_action_meta]
  <2>1. PICK r, s, u, m : c = [rest |-> r, bindings |-> s, unbound |-> u, no_action_meta |-> m]
    BY <1>3
  <2>2. c.rest = r /\ c.bindings = s /\ c.unbound = u /\ c.no_action_meta = m
    BY <2>1
  <2>3. new = [rest |-> r \ {i}, bindings |-> s, unbound |-> u, no_action_meta |-> m]
    <3> DEFINE v == c.rest \ {i}
    <3>1. new = [c EXCEPT !.rest = v]
      OBVIOUS
    <3>2. v = r \ {i}
      BY <2>2
    <3> HIDE DEF v, new
    <3>3. new = [rest |-> v, bindings |-> s, unbound |-> u, no_action_meta |-> m]
      BY <2>1, <3>1
    <3> QED BY <3>2, <3>3
  <2> HIDE DEF new
  <2>4. /\ new.rest = r \ {i} /\ new.bindings = s /\ new.unbound = u /\ new.no_action_meta = m
        /\ new = [rest |-> new.rest, bindings |-> new.bindings, unbound |-> new.unbound,
                  no_action_meta |-> new.no_action_meta]
    BY <2>3
  <2> QED BY <1>3, <2>2, <2>4
<1> HIDE DEF new
<1>5. new.rest = full \ more /\ more \subseteq full
  BY <1>0, <1>4
<1>6. \A x \in more, j \in new.rest : OutRanks(keymap, stack, x, j)
  BY <1>0, <1>4
<1>7. /\ new.bindings \in Seq(more)
      /\ Range(new.bindings) = RunsOf(full, stack) \cap more
      /\ \A m, n \in 1..Len(new.bindings) :
            m < n => OutRanks(keymap, stack, new.bindings[m], new.bindings[n])
  <2> DEFINE s == acc.bindings
  <2>0. /\ s \in Seq(done) /\ Range(s) = RunsOf(full, stack) \cap done
        /\ \A m, n \in 1..Len(s) : m < n => OutRanks(keymap, stack, s[m], s[n])
        /\ \A m \in 1..Len(s) : s[m] \in done
        /\ \A x \in done : OutRanks(keymap, stack, x, i)
        /\ s \in Seq(more) /\ Len(s) \in Nat
    BY <1>0
  <2> HIDE DEF s
  <2>1. CASE runs
    <3>1. new.bindings = Append(s, i)
      BY <1>3, <1>4, <2>1 DEF s
    <3> DEFINE t == Append(s, i)
    <3>2. /\ t \in Seq(more) /\ Len(t) = Len(s) + 1 /\ t[Len(s) + 1] = i
          /\ \A m \in 1..Len(s) : t[m] = s[m]
      BY <2>0, AppendProperties
    <3> HIDE DEF t
    <3>3. \A m, n \in 1..Len(t) : m < n => OutRanks(keymap, stack, t[m], t[n])
      <4> SUFFICES ASSUME NEW m \in 1..Len(t), NEW n \in 1..Len(t), m < n
                   PROVE  OutRanks(keymap, stack, t[m], t[n])
        OBVIOUS
      <4>1. m \in 1..Len(s) /\ t[m] = s[m] /\ s[m] \in done
        BY <2>0, <3>2
      <4>2. CASE n \in 1..Len(s)
        BY <2>0, <3>2, <4>1, <4>2
      <4>3. CASE n = Len(s) + 1
        BY <2>0, <3>2, <4>1, <4>3
      <4> QED BY <2>0, <3>2, <4>2, <4>3
    <3>4. Range(t) = Range(s) \cup {i}
      <4>1. /\ DOMAIN t = 1..(Len(s) + 1) /\ DOMAIN s = 1..Len(s)
        BY <2>0, <3>2
      <4>2. Range(t) = {t[m] : m \in 1..(Len(s) + 1)} /\ Range(s) = {s[m] : m \in 1..Len(s)}
        BY <4>1 DEF Range
      <4>3. ASSUME NEW x \in Range(t) PROVE x \in Range(s) \cup {i}
        <5>1. PICK m \in 1..(Len(s) + 1) : x = t[m]
          BY <4>2
        <5> QED BY <2>0, <3>2, <4>2, <5>1
      <4>4. ASSUME NEW x \in Range(s) \cup {i} PROVE x \in Range(t)
        <5>1. CASE x = i
          <6>1. Len(s) + 1 \in 1..(Len(s) + 1)
            BY <2>0
          <6> QED BY <3>2, <4>2, <5>1, <6>1
        <5>2. CASE x \in Range(s)
          <6>1. PICK m \in 1..Len(s) : x = s[m]
            BY <4>2, <5>2
          <6>2. m \in 1..(Len(s) + 1) /\ t[m] = x
            BY <2>0, <3>2, <6>1
          <6> QED BY <4>2, <6>2
        <5> QED BY <5>1, <5>2
      <4> QED BY <4>3, <4>4
    <3>5. RunsOf(full, stack) \cap more = (RunsOf(full, stack) \cap done) \cup {i}
      BY <2>1
    <3> QED BY <2>0, <3>1, <3>2, <3>3, <3>4, <3>5 DEF t
  <2>2. CASE ~runs
    <3>1. new.bindings = s
      BY <1>3, <1>4, <2>2 DEF s
    <3>2. RunsOf(full, stack) \cap more = RunsOf(full, stack) \cap done
      BY <2>2
    <3> QED BY <2>0, <3>1, <3>2
  <2> QED BY <2>1, <2>2
<1>8. new.unbound = {u \in more : is_unbind(keymap[u]) /\ ~Nulled(full, stack, u)}
  BY <1>0, <1>3, <1>4
<1>9. /\ new.no_action_meta = NoMeta => Nulls(more) = {}
      /\ new.no_action_meta # NoMeta =>
            /\ \E n \in Nulls(more) : keymap[n].meta = new.no_action_meta
            /\ \A n \in Nulls(more) : new.no_action_meta <= keymap[n].meta
  <2>0. /\ new.no_action_meta = meta
        /\ acc.no_action_meta = NoMeta => Nulls(done) = {}
        /\ acc.no_action_meta # NoMeta =>
              /\ \E n \in Nulls(done) : keymap[n].meta = acc.no_action_meta
              /\ \A n \in Nulls(done) : acc.no_action_meta <= keymap[n].meta
        /\ \A n \in Nulls(done) : keymap[n].meta \in Nat
        /\ b.meta \in Nat
    BY <1>0, <1>3, <1>4 DEF Collected, Nulls
  <2>1. CASE is_no_action(b)
    <3>1. Nulls(more) = Nulls(done) \cup {i}
      BY <2>1 DEF Nulls
    <3> HIDE DEF Nulls
    <3>2. CASE acc.no_action_meta = NoMeta
      <4>1. Nulls(more) = {i} /\ new.no_action_meta = b.meta
        BY <2>0, <2>1, <3>1, <3>2
      <4>2. new.no_action_meta # NoMeta
        BY <2>0, <4>1 DEF NoMeta
      <4>3. i \in Nulls(more) /\ \A n \in Nulls(more) : n = i
        BY <4>1
      <4>4. new.no_action_meta <= b.meta
        BY <2>0, <4>1
      <4> HIDE DEF new
      <4> QED BY <4>1, <4>2, <4>3, <4>4
    <3>3. CASE acc.no_action_meta # NoMeta
      <4>1. PICK n \in Nulls(done) : keymap[n].meta = acc.no_action_meta
        BY <2>0, <3>3
      <4>2. \A x \in Nulls(done) : acc.no_action_meta <= keymap[x].meta /\ keymap[x].meta \in Nat
        BY <2>0, <3>3
      <4>3. acc.no_action_meta \in Nat
        BY <4>1, <4>2
      <4>4. CASE b.meta < acc.no_action_meta
        <5>1. new.no_action_meta = b.meta /\ b.meta # NoMeta
          BY <2>0, <2>1, <4>4 DEF NoMeta
        <5>2. \A x \in Nulls(more) : b.meta <= keymap[x].meta
          BY <2>0, <3>1, <4>2, <4>3, <4>4
        <5>3. i \in Nulls(more)
          BY <3>1
        <5> QED BY <5>1, <5>2, <5>3
      <4>5. CASE ~(b.meta < acc.no_action_meta)
        <5>1. new.no_action_meta = acc.no_action_meta
          BY <2>0, <2>1, <3>3, <4>5
        <5>2. \A x \in Nulls(more) : acc.no_action_meta <= keymap[x].meta
          BY <2>0, <3>1, <4>2, <4>3, <4>5
        <5>3. n \in Nulls(more)
          BY <3>1
        <5> QED BY <3>3, <4>1, <5>1, <5>2, <5>3
      <4> QED BY <4>4, <4>5
    <3> QED BY <3>2, <3>3
  <2>2. CASE ~is_no_action(b)
    <3>1. Nulls(more) = Nulls(done) /\ meta = acc.no_action_meta
      BY <2>2 DEF Nulls
    <3> QED BY <2>0, <3>1
  <2> QED BY <2>1, <2>2
<1>10. Collected(new, full, stack, more)
  BY <1>4, <1>5, <1>6, <1>7, <1>8, <1>9 DEF Collected
<1> QED BY <1>10 DEF new, c

\* The input selects these of the bindings ixs.
Full(stack, inp, ixs) ==
    {i \in Candidates(keymap, stack, inp, ixs) : ~IsPending(keymap[i], inp)}

KeymapTyped == keymap \in Seq(Bindings)

\* What the loop returns: the bindings that run, in the order of precedence.
LEMMA ResolveFacts ==
    ASSUME KeymapTyped, NEW stack, Len(stack) \in Nat, NEW inp, NEW ixs \in SUBSET (DOMAIN keymap)
    PROVE  LET full == Full(stack, inp, ixs)
               found == resolve_bindings(keymap, stack, inp, ixs)
           IN /\ found \in Seq(full)
              /\ Range(found) = RunsOf(full, stack)
              /\ \A m, n \in 1..Len(found) :
                    m < n => OutRanks(keymap, stack, found[m], found[n])
<1> DEFINE full == Full(stack, inp, ixs)
           N == Cardinality(full)
           start == [rest |-> full, bindings |-> <<>>, unbound |-> {}, no_action_meta |-> NoMeta]
           E(n, f) == IF n = 0 THEN start ELSE CollectBest(keymap, stack, f[n - 1])
           Is(f) == f = [n \in 0..N |-> E(n, f)]
           F == CHOOSE f : Is(f)
<1>1. resolve_bindings(keymap, stack, inp, ixs) = F[N].bindings
  BY Zenon DEF resolve_bindings, Full
<1>2. full \subseteq 1..Len(keymap) /\ Len(keymap) \in Nat
  BY DEF Full, Candidates, KeymapTyped
<1>3. BindingsOf(full)
  <2>1. \A i \in 1..Len(keymap) : keymap[i] \in Bindings
    BY DEF KeymapTyped
  <2> HIDE DEF full
  <2> QED BY <1>2, <2>1, KeymapAssumption DEF BindingsOf
<1>4. IsFiniteSet(full) /\ N \in Nat
  <2>1. IsFiniteSet(1..Len(keymap))
    BY <1>2, FS_Interval
  <2> HIDE DEF full
  <2>2. IsFiniteSet(full)
    BY <1>2, <2>1, FS_Subset
  <2> QED BY <2>2, FS_CardinalityType
<1> HIDE DEF full, N, start
<1>5. \A k \in Nat : \E f : \A n \in 0..k : f[n] = E(n, f)
  <2> DEFINE T == {k \in Nat : \E f : \A n \in 0..k : f[n] = E(n, f)}
  <2>1. 0 \in T
    <3> DEFINE g == [n \in {0} |-> start]
    <3>1. \A n \in 0..0 : n = 0 /\ g[n] = start
      OBVIOUS
    <3>2. \A n \in 0..0 : g[n] = E(n, g)
      BY <3>1
    <3> QED BY <3>2
  <2>2. ASSUME NEW k \in Nat, k \in T PROVE k + 1 \in T
    <3>1. PICK f : \A n \in 0..k : f[n] = E(n, f)
      BY <2>2
    <3> DEFINE g == [n \in 0..(k + 1) |-> IF n = k + 1 THEN E(k + 1, f) ELSE f[n]]
    <3>2. ASSUME NEW n \in 0..(k + 1) PROVE g[n] = E(n, g)
      <4>1. E(n, g) = E(n, f)
        <5>1. CASE n = 0
          BY <5>1
        <5>2. CASE n # 0
          <6>1. n - 1 \in 0..(k + 1) /\ n - 1 # k + 1
            BY <5>2
          <6>2. g[n - 1] = f[n - 1]
            BY <6>1
          <6> HIDE DEF g
          <6> QED BY <5>2, <6>2
        <5> QED BY <5>1, <5>2
      <4> HIDE DEF E
      <4>2. CASE n = k + 1
        BY <4>1, <4>2
      <4>3. CASE n # k + 1
        <5>1. n \in 0..k
          BY <4>3
        <5> QED BY <3>1, <4>1, <4>3, <5>1
      <4> QED BY <4>2, <4>3
    <3> HIDE DEF g, E
    <3> QED BY <3>2
  <2> HIDE DEF T, E
  <2>3. \A k \in Nat : k \in T
    BY <2>1, <2>2, SetInduction
  <2> QED BY <2>3 DEF T
<1>6. \E f : Is(f)
  <2>1. PICK f : \A n \in 0..N : f[n] = E(n, f)
    <3> HIDE DEF E
    <3> QED BY <1>4, <1>5
  <2> DEFINE g == [n \in 0..N |-> E(n, f)]
  <2>2. \A n \in 0..N : g[n] = f[n]
    <3> HIDE DEF E
    <3> QED BY <2>1
  <2>3. \A n \in 0..N : n # 0 => n - 1 \in 0..N
    BY <1>4
  <2> HIDE DEF g
  <2>4. \A n \in 0..N : E(n, g) = E(n, f)
    BY <2>2, <2>3
  <2> USE DEF g
  <2>5. g = [n \in 0..N |-> E(n, g)]
    <3> HIDE DEF E
    <3> QED BY <2>4
  <2> QED BY <2>5
<1>7. \A n \in 0..N : F[n] = E(n, F)
  <2>1. Is(F)
    BY <1>6
  <2>2. \A f : Is(f) => \A n \in 0..N : f[n] = E(n, f)
    <3> HIDE DEF E
    <3> QED OBVIOUS
  <2> HIDE DEF F, Is
  <2> QED BY <2>1, <2>2
<1> HIDE DEF F
<1> DEFINE Good(n) == /\ Collected(F[n], full, stack, full \ F[n].rest)
                      /\ IsFiniteSet(F[n].rest) /\ Cardinality(F[n].rest) = N - n
           T == {n \in Nat : n <= N => Good(n)}
<1>8. 0 \in T
  <2>1. F[0] = start
    BY <1>4, <1>7
  <2>2. start.rest = full /\ start.bindings = <<>> /\ start.unbound = {}
        /\ start.no_action_meta = NoMeta
        /\ start = [rest |-> start.rest, bindings |-> start.bindings, unbound |-> start.unbound,
                    no_action_meta |-> start.no_action_meta]
    BY DEF start
  <2>3. full \ full = {} /\ Range(<<>>) = {} /\ <<>> \in Seq({})
    BY DEF Range
  <2>4. Collected(start, full, stack, {})
    <3>1. Nulls({}) = {} /\ RunsOf(full, stack) \cap {} = {} /\ Len(<<>>) = 0
          /\ full = full \ {} /\ {} \subseteq full
      BY DEF Nulls
    <3>2. \A m, n \in 1..Len(<<>>) :
             m < n => OutRanks(keymap, stack, <<>>[m], <<>>[n])
      BY <3>1
    <3>3. {} = {u \in {} : is_unbind(keymap[u]) /\ ~Nulled(full, stack, u)}
      OBVIOUS
    <3> QED BY <2>2, <2>3, <3>1, <3>2, <3>3, Zenon DEF Collected
  <2>5. Cardinality(full) = N - 0
    BY <1>4 DEF N
  <2> HIDE DEF E, Is, T
  <2>6. Good(0)
    BY <1>4, <2>1, <2>2, <2>3, <2>4, <2>5, Zenon
  <2>7. 0 \in Nat
    OBVIOUS
  <2> HIDE DEF Good
  <2> QED BY <2>6, <2>7, Zenon DEF T
<1>9. ASSUME NEW n \in Nat, n \in T PROVE n + 1 \in T
  <2> SUFFICES ASSUME n + 1 <= N PROVE Good(n + 1)
    OBVIOUS
  <2> DEFINE acc == F[n]
             i == Best(keymap, stack, acc.rest)
             done == full \ acc.rest
  <2>1. /\ Collected(acc, full, stack, done)
        /\ IsFiniteSet(acc.rest) /\ Cardinality(acc.rest) = N - n
    BY <1>4, <1>9
  <2>2. F[n + 1] = CollectBest(keymap, stack, acc)
    <3>1. n + 1 \in 0..N /\ n + 1 # 0 /\ (n + 1) - 1 = n
      BY <1>4
    <3>2. F[n + 1] = E(n + 1, F)
      <4> HIDE DEF E
      <4> QED BY <1>7, <3>1
    <3> QED BY <3>1, <3>2
  <2> HIDE DEF acc
  <2>3. acc.rest # {}
    BY <1>4, <2>1, FS_EmptySet
  <2>4. acc.rest \in SUBSET (1..Len(keymap)) /\ acc.rest = full \ done
    BY <1>2, <2>1 DEF Collected
  <2>5. i \in acc.rest /\ \A j \in acc.rest \ {i} : OutRanks(keymap, stack, i, j)
    BY <1>2, <2>3, <2>4, BestFacts
  <2>6. F[n + 1] = [Collect(keymap, acc, i) EXCEPT !.rest = @ \ {i}]
    BY <2>2, Zenon DEF CollectBest
  <2> HIDE DEF i, done
  <2>7. Collected(F[n + 1], full, stack, done \cup {i})
    BY <1>3, <2>1, <2>5, <2>6, CollectStep
  <2>8. F[n + 1].rest = acc.rest \ {i} /\ full \ F[n + 1].rest = done \cup {i}
    BY <2>4, <2>5, <2>7 DEF Collected
  <2>9. IsFiniteSet(acc.rest \ {i}) /\ Cardinality(acc.rest \ {i}) = N - n - 1
    <3>1. i \in acc.rest /\ IsFiniteSet(acc.rest)
      BY <2>1, <2>5
    <3>2. /\ IsFiniteSet(acc.rest \ {i})
          /\ Cardinality(acc.rest \ {i}) = Cardinality(acc.rest) - 1
      BY <3>1, FS_RemoveElement, Zenon
    <3> QED BY <2>1, <3>2
  <2>10. N - n - 1 = N - (n + 1)
    BY <1>4
  <2> QED BY <2>7, <2>8, <2>9, <2>10
<1>10. Good(N)
  <2>1. N \in T
    <3> HIDE DEF T
    <3> QED BY <1>4, <1>8, <1>9, SetInduction
  <2> HIDE DEF Good
  <2> QED BY <1>4, <2>1
<1>11. F[N].rest = {}
  <2>1. Cardinality(F[N].rest) = 0 /\ IsFiniteSet(F[N].rest)
    BY <1>4, <1>10
  <2> QED BY <2>1, FS_EmptySet
<1>12. full \ F[N].rest = full /\ RunsOf(full, stack) \cap full = RunsOf(full, stack)
  BY <1>11 DEF RunsOf
<1>13. Collected(F[N], full, stack, full)
  BY <1>10, <1>12
<1> QED BY <1>1, <1>12, <1>13 DEF Collected, full

\* What a dispatch runs, as an operator of the bindings that match.
LEMMA RunsFacts ==
    ASSUME NEW stack, NEW inp
    PROVE  Runs(stack, inp) = RunsOf(Full(stack, inp, DOMAIN keymap), stack)
  BY Zenon DEF Runs, RunsOf, Full

\* The first question.
LEMMA ResolvesByPrecedence == KeymapTyped => ResolveByPrecedence
<1> SUFFICES ASSUME KeymapTyped, NEW stack \in Stacks, NEW inp \in Inputs
             PROVE  LET found == bindings_for_input(keymap, stack, inp).bindings
                    IN /\ Range(found) = Runs(stack, inp)
                       /\ \A m, n \in DOMAIN found :
                             m < n => OutRanks(keymap, stack, found[m], found[n])
  BY Zenon DEF ResolveByPrecedence
<1> DEFINE found == resolve_bindings(keymap, stack, inp, DOMAIN keymap)
           full == Full(stack, inp, DOMAIN keymap)
<1>1. bindings_for_input(keymap, stack, inp).bindings = found
  BY DEF bindings_for_input, Resolved
<1>2. Len(stack) \in Nat
  BY KeymapAssumption
<1>3. /\ found \in Seq(full)
      /\ Range(found) = RunsOf(full, stack)
      /\ \A m, n \in 1..Len(found) : m < n => OutRanks(keymap, stack, found[m], found[n])
  BY <1>2, ResolveFacts
<1>4. Runs(stack, inp) = RunsOf(full, stack)
  BY RunsFacts
<1> HIDE DEF found, full
<1>5. DOMAIN found = 1..Len(found)
  BY <1>3
<1> QED BY <1>1, <1>3, <1>4, <1>5

\* The second: what completes an input is among the bindings that extend it.
LEMMA NextAreDispatched == KeymapTyped => NextIsDispatched
<1> SUFFICES ASSUME KeymapTyped, NEW stack \in Stacks, NEW inp \in Inputs
             PROVE  possible_next_bindings(stack, inp)
                      = {i \in possible_next_ixs(inp) : i \in Runs(stack, full_input(inp, i))}
  BY Zenon DEF NextIsDispatched
<1> DEFINE K == DOMAIN ShouldMatch
           next == possible_next_ixs(inp)
<1>0. /\ Len(stack) \in Nat /\ inp \in Seq(K) /\ Len(inp) \in Nat /\ DOMAIN inp = 1..Len(inp)
      /\ \A i \in DOMAIN keymap : keymap[i].keys \in Seq(K) /\ Len(keymap[i].keys) \in Nat
  <2>1. \A i \in DOMAIN keymap : keymap[i] \in Bindings
    BY DEF KeymapTyped
  <2>2. inp \in Seq(K) /\ Len(stack) \in Nat /\ \A b \in Bindings : b.keys \in Seq(K)
    BY KeymapAssumption
  <2> HIDE DEF K
  <2> QED BY <2>1, <2>2
<1>1. next \subseteq DOMAIN keymap
  BY DEF possible_next_ixs
<1>2. ASSUME NEW i \in next
      PROVE  Full(stack, full_input(inp, i), DOMAIN keymap) = Full(stack, full_input(inp, i), next)
  <2> DEFINE ks == keymap[i].keys
             all == full_input(inp, i)
             rest == SubSeq(ks, Len(inp) + 1, Len(ks))
  <2>1. i \in DOMAIN keymap /\ ks \in Seq(K) /\ Len(ks) > Len(inp) /\ Len(ks) \in Nat
    BY <1>0, <1>1, <1>2 DEF possible_next_ixs, IsPending
  <2> HIDE DEF ks, K
  <2>2. rest \in Seq(K) /\ Len(rest) = Len(ks) - Len(inp)
    BY <1>0, <2>1, SubSeqProperties
  <2> HIDE DEF rest
  <2>3. all = inp \o rest
    BY DEF full_input, rest, ks
  <2>4. /\ Len(all) = Len(ks) /\ DOMAIN all = 1..Len(all)
        /\ \A k \in 1..Len(inp) : all[k] = inp[k]
    <3>1. Len(inp \o rest) = Len(inp) + Len(rest) /\ inp \o rest \in Seq(K)
      BY <1>0, <2>2, ConcatProperties
    <3>2. \A k \in 1..Len(inp) : (inp \o rest)[k] = inp[k]
      BY <1>0, <2>2, ConcatProperties
    <3> HIDE DEF all
    <3> QED BY <1>0, <2>1, <2>2, <2>3, <3>1, <3>2
  <2> HIDE DEF all
  <2>5. ASSUME NEW j \in DOMAIN keymap, Matches(keymap[j], all), ~IsPending(keymap[j], all)
        PROVE  j \in next
    <3>1. Len(keymap[j].keys) = Len(all) /\ Len(keymap[j].keys) > Len(inp)
      BY <1>0, <2>1, <2>4, <2>5 DEF Matches, IsPending
    <3>2. \A k \in DOMAIN inp : keymap[j].keys[k] \in ShouldMatch[inp[k]]
      <4>1. \A k \in 1..Len(inp) : k \in DOMAIN all /\ all[k] = inp[k]
        BY <1>0, <2>1, <2>4
      <4> QED BY <1>0, <2>5, <4>1 DEF Matches
    <3> QED BY <1>0, <3>1, <3>2 DEF possible_next_ixs, Matches, IsPending
  <2> HIDE DEF next
  <2>6. Full(stack, all, DOMAIN keymap) = Full(stack, all, next)
    BY <1>1, <2>5 DEF Full, Candidates
  <2> QED BY <2>6 DEF all
<1>3. ASSUME NEW i \in next
      PROVE  i \in possible_next_bindings(stack, inp) <=> i \in Runs(stack, full_input(inp, i))
  <2> DEFINE all == full_input(inp, i)
             found == resolve_bindings(keymap, stack, all, next)
             full == Full(stack, all, next)
  <2>1. Range(found) = RunsOf(full, stack)
    BY <1>0, <1>1, ResolveFacts
  <2>2. Runs(stack, all) = RunsOf(full, stack)
    BY <1>2, <1>3, RunsFacts
  <2>3. i \in RunsOf(full, stack) => ~Disables(keymap[i]) /\ binding_enabled(keymap[i], stack) # None
    BY DEF RunsOf, Full, Candidates
  <2>4. i \in possible_next_bindings(stack, inp) <=>
           /\ ~Disables(keymap[i]) /\ binding_enabled(keymap[i], stack) # None
           /\ i \in Range(found)
    BY <1>3, Zenon DEF possible_next_bindings
  <2> HIDE DEF all, found, full
  <2> QED BY <2>1, <2>2, <2>3, <2>4 DEF all
<1>4. possible_next_bindings(stack, inp) \subseteq next
  BY Zenon DEF possible_next_bindings
<1> HIDE DEF next
<1> QED BY <1>3, <1>4 DEF next

-----------------------------------------------------------------------------
(***************************************************************************)
(* Contexts.  The recursions of eval_inner and of is_superset go down the  *)
(* trees of the predicates, so they define functions.                      *)
(***************************************************************************)

\* The operators that have a left, and a right, subterm.
Unary == {"not", "descendant", "and", "or"}
Binary == {"descendant", "and", "or"}

\* What a step of eval_inner uses of the subterms.
LEMMA EvalUses ==
    ASSUME NEW p \in Predicates, NEW f, NEW g, NEW stack,
           p.op \in Unary => f[p.left] = g[p.left],
           p.op \in Binary => f[p.right] = g[p.right]
    PROVE  eval_inner(p, f, stack) = eval_inner(p, g, stack)
<1>0. p.op \in {"identifier", "equal", "not_equal", "not", "descendant", "and", "or"}
  BY PredicatesAssumption
<1> USE DEF Unary, Binary
<1>1. CASE p.op \in {"identifier", "equal", "not_equal"}
  BY <1>1 DEF eval_inner
<1>2. CASE p.op = "not"
  BY <1>2 DEF eval_inner
<1>3. CASE p.op = "descendant"
  BY <1>3 DEF eval_inner
<1>4. CASE p.op = "and"
  BY <1>4 DEF eval_inner
<1>5. CASE p.op = "or"
  BY <1>5 DEF eval_inner
<1> QED BY <1>0, <1>1, <1>2, <1>3, <1>4, <1>5

\* f solves the recursion up to height k.
Solves(f, k, stack) ==
    \A p \in Predicates : Height[p] < k => f[p] = eval_inner(p, f, stack)

\* The recursion of eval_inner goes down the height of a predicate, so that two
\* functions that follow it are the same as far as they do,
LEMMA SolvesOnce ==
    ASSUME NEW stack, NEW f, NEW g
    PROVE  \A k \in Nat : Solves(f, k, stack) /\ Solves(g, k, stack)
                             => \A p \in Predicates : Height[p] < k => f[p] = g[p]
<1> DEFINE T == {k \in Nat : Solves(f, k, stack) /\ Solves(g, k, stack)
                                => \A p \in Predicates : Height[p] < k => f[p] = g[p]}
<1>1. 0 \in T
  BY PredicatesAssumption
<1>2. ASSUME NEW k \in Nat, k \in T PROVE k + 1 \in T
  <2> SUFFICES ASSUME Solves(f, k + 1, stack), Solves(g, k + 1, stack),
                      NEW p \in Predicates, Height[p] < k + 1
               PROVE  f[p] = g[p]
    OBVIOUS
  <2>1. Solves(f, k, stack) /\ Solves(g, k, stack)
    BY PredicatesAssumption DEF Solves
  <2>2. \A q \in Predicates : Height[q] < k => f[q] = g[q]
    BY <1>2, <2>1
  <2>3. /\ p.op \in Unary => f[p.left] = g[p.left]
        /\ p.op \in Binary => f[p.right] = g[p.right]
    BY <2>2, PredicatesAssumption DEF Unary, Binary
  <2>4. eval_inner(p, f, stack) = eval_inner(p, g, stack)
    BY <2>3, EvalUses
  <2> QED BY <2>4 DEF Solves
<1> HIDE DEF T
<1>3. \A k \in Nat : k \in T
  BY <1>1, <1>2, SetInduction
<1> QED BY <1>3 DEF T

\* ... and there is one that follows it to any height.
LEMMA SolvesSome ==
    ASSUME NEW stack
    PROVE  \A k \in Nat : \E f : Solves(f, k, stack)
<1> DEFINE T == {k \in Nat : \E f : Solves(f, k, stack)}
<1>1. 0 \in T
  BY PredicatesAssumption DEF Solves
<1>2. ASSUME NEW k \in Nat, k \in T PROVE k + 1 \in T
  <2>1. PICK f : Solves(f, k, stack)
    BY <1>2
  <2> DEFINE g == [p \in Predicates |-> eval_inner(p, f, stack)]
  <2>2. \A q \in Predicates : g[q] = eval_inner(q, f, stack)
    OBVIOUS
  <2> HIDE DEF g
  <2>3. \A q \in Predicates : Height[q] < k => g[q] = f[q]
    BY <2>1, <2>2 DEF Solves
  <2>4. ASSUME NEW p \in Predicates, Height[p] < k + 1
        PROVE  g[p] = eval_inner(p, g, stack)
    <3>1. /\ p.op \in Unary => f[p.left] = g[p.left]
          /\ p.op \in Binary => f[p.right] = g[p.right]
      BY <2>3, <2>4, PredicatesAssumption DEF Unary, Binary
    <3>2. eval_inner(p, f, stack) = eval_inner(p, g, stack)
      BY <3>1, EvalUses
    <3> QED BY <2>2, <3>2
  <2>5. Solves(g, k + 1, stack)
    BY <2>4 DEF Solves
  <2> QED BY <2>5
<1> HIDE DEF T
<1>3. \A k \in Nat : k \in T
  BY <1>1, <1>2, SetInduction
<1> QED BY <1>3 DEF T

\* The slices on which a predicate holds are given by the code's cases.
LEMMA EvaluatedFacts ==
    ASSUME NEW stack, NEW p \in Predicates
    PROVE  Evaluated(stack)[p] = eval_inner(p, Evaluated(stack), stack)
<1> DEFINE Is(f) == f = [q \in Predicates |-> eval_inner(q, f, stack)]
           part[k \in Nat] == CHOOSE f : Solves(f, k, stack)
           g == [q \in Predicates |-> part[Height[q] + 1][q]]
<1>1. Evaluated(stack) = CHOOSE f : Is(f)
  BY Zenon DEF Evaluated
<1>2. \A k \in Nat : Solves(part[k], k, stack)
  <2>1. \A k \in Nat : part[k] = CHOOSE f : Solves(f, k, stack)
    OBVIOUS
  <2> HIDE DEF part
  <2> QED BY <2>1, SolvesSome
<1> HIDE DEF part
<1>3. \A q \in Predicates : g[q] = part[Height[q] + 1][q] /\ Height[q] \in Nat
  BY PredicatesAssumption
<1>4. ASSUME NEW k \in Nat, NEW q \in Predicates, Height[q] < k
      PROVE  g[q] = part[k][q]
  <2> HIDE DEF g
  <2> DEFINE h == Height[q] + 1
  <2>1. h \in Nat /\ Height[q] < h /\ h <= k
    BY <1>3, <1>4
  <2>2. Solves(part[h], h, stack) /\ Solves(part[k], h, stack)
    BY <1>2, <2>1, PredicatesAssumption DEF Solves
  <2>3. part[h][q] = part[k][q]
    BY <2>1, <2>2, SolvesOnce
  <2> QED BY <1>3, <2>3
<1>5. ASSUME NEW q \in Predicates PROVE g[q] = eval_inner(q, g, stack)
  <2> DEFINE k == Height[q] + 1
  <2>1. k \in Nat /\ Height[q] < k
    BY PredicatesAssumption
  <2>2. /\ q.op \in Unary => g[q.left] = part[k][q.left]
        /\ q.op \in Binary => g[q.right] = part[k][q.right]
    <3> HIDE DEF g
    <3> QED BY <1>4, PredicatesAssumption DEF Unary, Binary
  <2> HIDE DEF g
  <2>3. eval_inner(q, g, stack) = eval_inner(q, part[k], stack)
    BY <2>2, EvalUses
  <2> QED BY <1>2, <1>3, <2>1, <2>3 DEF Solves
<1>6. g = [q \in Predicates |-> eval_inner(q, g, stack)]
  <2>1. g = [q \in Predicates |-> g[q]]
    OBVIOUS
  <2> HIDE DEF g
  <2> QED BY <1>5, <2>1
<1>7. Is(Evaluated(stack))
  <2> HIDE DEF g
  <2> QED BY <1>1, <1>6
<1> QED BY <1>7

\* The first position where the parent matches.
LEMMA FirstMatchFacts ==
    ASSUME NEW S \in SUBSET (Nat \ {0})
    PROVE  /\ S # {} => FirstMatch(S) \in S /\ \A x \in S : FirstMatch(S) <= x
           /\ FirstMatch(S) \in Nat
           /\ FirstMatch(S) > 0 <=> S # {}
<1>1. CASE S = {}
  BY <1>1 DEF FirstMatch
<1>2. CASE S # {}
  <2>1. \E x \in S : \A y \in S : x <= y
    BY <1>2, LeastNumber
  <2>2. Min(S) \in S /\ \A y \in S : Min(S) <= y
    BY <2>1 DEF Min
  <2>3. FirstMatch(S) = Min(S)
    BY <1>2 DEF FirstMatch
  <2>4. \A x \in S : x \in Nat /\ x > 0
    OBVIOUS
  <2>5. FirstMatch(S) \in Nat /\ FirstMatch(S) > 0
    BY <2>2, <2>3, <2>4
  <2> QED BY <1>2, <2>2, <2>3, <2>5
<1> QED BY <1>1, <1>2

\* What it means that a slice is among those of a compound predicate.
Parents(p, s, stack) ==
    {j \in s.from..(s.to - 1) : Slice(s.from, j, s.all) \in Evaluated(stack)[p.left]}

\* Where a predicate holds, by its operator (eval_inner, on a part of the stack).
LEMMA HoldsFacts ==
    ASSUME NEW stack, NEW p \in Predicates, NEW s
    PROVE  /\ s \in Evaluated(stack)[p] => s \in Slices(Len(stack)) /\ s.from <= s.to
           /\ p.op = "and" =>
                 (s \in Evaluated(stack)[p] <=>
                    /\ s \in Slices(Len(stack)) /\ s.from <= s.to
                    /\ s \in Evaluated(stack)[p.left] /\ s \in Evaluated(stack)[p.right])
           /\ p.op = "or" =>
                 (s \in Evaluated(stack)[p] <=>
                    /\ s \in Slices(Len(stack)) /\ s.from <= s.to
                    /\ s \in Evaluated(stack)[p.left] \/ s \in Evaluated(stack)[p.right])
           /\ p.op = "descendant" =>
                 (s \in Evaluated(stack)[p] <=>
                    /\ s \in Slices(Len(stack)) /\ s.from <= s.to
                    /\ LET i == FirstMatch(Parents(p, s, stack))
                       IN i > 0 /\ Slice(i + 1, s.to, s.to) \in Evaluated(stack)[p.right])
<1> DEFINE H == Evaluated(stack)
<1>1. H[p] = eval_inner(p, H, stack)
  BY EvaluatedFacts
<1> HIDE DEF H
<1>2. s \in H[p] => s \in Slices(Len(stack)) /\ s.from <= s.to
  BY <1>1 DEF eval_inner
<1>3. ASSUME p.op = "and"
      PROVE  s \in H[p] <=> /\ s \in Slices(Len(stack)) /\ s.from <= s.to
                            /\ s \in H[p.left] /\ s \in H[p.right]
  BY <1>1, <1>3 DEF eval_inner
<1>4. ASSUME p.op = "or"
      PROVE  s \in H[p] <=> /\ s \in Slices(Len(stack)) /\ s.from <= s.to
                            /\ s \in H[p.left] \/ s \in H[p.right]
  BY <1>1, <1>4 DEF eval_inner
<1>5. ASSUME p.op = "descendant"
      PROVE  s \in H[p] <=>
                /\ s \in Slices(Len(stack)) /\ s.from <= s.to
                /\ LET i == FirstMatch({j \in s.from..(s.to - 1) :
                                           Slice(s.from, j, s.all) \in H[p.left]})
                   IN i > 0 /\ Slice(i + 1, s.to, s.to) \in H[p.right]
  BY <1>1, <1>5 DEF eval_inner
<1> QED BY <1>2, <1>3, <1>4, <1>5 DEF H, Parents

\* A predicate with no negation in it.
Subterms(p) ==
    (IF p.op \in Unary THEN {p.left} ELSE {}) \cup (IF p.op \in Binary THEN {p.right} ELSE {})
Positive(Q) == \A q \in Q : q.op # "not" /\ Subterms(q) \subseteq Q
WithoutNot(p) == \E Q \in SUBSET Predicates : p \in Q /\ Positive(Q)

\* The parts of a predicate without a negation have none.
LEMMA WithoutNotFacts ==
    ASSUME NEW p \in Predicates, WithoutNot(p)
    PROVE  /\ p.op \in Unary => WithoutNot(p.left)
           /\ p.op \in Binary => WithoutNot(p.right)
  BY DEF WithoutNot, Positive, Subterms

\* t ends where s does and starts at s or above it.
Widens(t, s) == t.to = s.to /\ t.from <= s.from

\* A wider slice has contexts where the narrower one has.
LEMMA WidensFacts ==
    ASSUME NEW n \in Nat, NEW s \in Slices(n), NEW t \in Slices(n), Widens(t, s), s.from <= s.to
    PROVE  t.from <= t.to
  BY DEF Slices, Widens

\* Where a predicate without a negation holds, it holds with more contexts
\* above.
LEMMA HoldsUpwards ==
    ASSUME NEW stack, Len(stack) \in Nat, NEW Q \in SUBSET Predicates, Positive(Q)
    PROVE  \A p \in Q : \A s \in Evaluated(stack)[p] : \A t \in Slices(Len(stack)) :
              Widens(t, s) => t \in Evaluated(stack)[p]
<1> DEFINE n == Len(stack)
           H == Evaluated(stack)
           Up(p) == \A s \in H[p], t \in Slices(n) : Widens(t, s) => t \in H[p]
           T == {k \in Nat : \A p \in Q : Height[p] < k => Up(p)}
<1>0. n \in Nat
  OBVIOUS
<1>1. 0 \in T
  BY PredicatesAssumption
<1>2. ASSUME NEW k \in Nat, k \in T PROVE k + 1 \in T
  <2> SUFFICES ASSUME NEW p \in Q, Height[p] < k + 1, NEW s \in H[p], NEW t \in Slices(n), Widens(t, s)
               PROVE  t \in H[p]
    OBVIOUS
  <2>0. p \in Predicates /\ p.op # "not"
        /\ p.op \in {"identifier", "equal", "not_equal", "not", "descendant", "and", "or"}
    BY PredicatesAssumption DEF Positive
  <2>1. s \in Slices(n) /\ s.from <= s.to
    BY <2>0, HoldsFacts
  <2>2. t.from <= t.to
    BY <1>0, <2>1, WidensFacts
  <2>3. /\ p.op \in Unary => p.left \in Q /\ Up(p.left)
        /\ p.op \in Binary => p.right \in Q /\ Up(p.right)
    <3>1. /\ p.op \in Unary => p.left \in Q /\ Height[p.left] < Height[p] /\ Height[p.left] \in Nat
          /\ p.op \in Binary => p.right \in Q /\ Height[p.right] < Height[p] /\ Height[p.right] \in Nat
          /\ Height[p] \in Nat
      BY PredicatesAssumption DEF Positive, Subterms, Unary, Binary
    <3> HIDE DEF Up
    <3> QED BY <1>2, <3>1
  <2> HIDE DEF H, T
  <2>4. CASE p.op \in {"identifier", "equal", "not_equal"}
    <3>1. H[p] = eval_inner(p, H, stack)
      BY <2>0, EvaluatedFacts DEF H
    <3>2. t.to = s.to
      BY DEF Widens
    <3> QED BY <2>1, <2>2, <2>4, <3>1, <3>2 DEF eval_inner
  <2>5. CASE p.op = "and"
    <3>1. s \in H[p.left] /\ s \in H[p.right]
      BY <2>0, <2>5, HoldsFacts DEF H
    <3>2. t \in H[p.left] /\ t \in H[p.right]
      BY <2>3, <2>5, <3>1 DEF Unary, Binary
    <3> QED BY <2>0, <2>2, <2>5, <3>2, HoldsFacts DEF H
  <2>6. CASE p.op = "or"
    <3>1. s \in H[p.left] \/ s \in H[p.right]
      BY <2>0, <2>6, HoldsFacts DEF H
    <3>2. t \in H[p.left] \/ t \in H[p.right]
      BY <2>3, <2>6, <3>1 DEF Unary, Binary
    <3> QED BY <2>0, <2>2, <2>6, <3>2, HoldsFacts DEF H
  <2>7. CASE p.op = "descendant"
    <3> DEFINE S == Parents(p, s, stack)
               U == Parents(p, t, stack)
               i == FirstMatch(S)
               j == FirstMatch(U)
    <3>1. i > 0 /\ Slice(i + 1, s.to, s.to) \in H[p.right]
      BY <2>0, <2>7, HoldsFacts DEF H
    <3>2. S \in SUBSET (Nat \ {0}) /\ U \in SUBSET (Nat \ {0})
      BY <1>0, <2>1 DEF Parents, Slices
    <3>3. i \in S
      <4> HIDE DEF S
      <4> QED BY <3>1, <3>2, FirstMatchFacts
    <3>4. /\ i \in s.from..(s.to - 1) /\ Slice(s.from, i, s.all) \in H[p.left]
          /\ i \in t.from..(t.to - 1)
      <4> HIDE DEF i
      <4>1. i \in s.from..(s.to - 1) /\ Slice(s.from, i, s.all) \in H[p.left]
        BY <3>3 DEF Parents, H
      <4> QED BY <1>0, <2>1, <4>1 DEF Widens, Slices
    <3> HIDE DEF i, S
    <3>5. Slice(t.from, i, t.all) \in H[p.left]
      <4>1. /\ Slice(t.from, i, t.all) \in Slices(n)
            /\ Widens(Slice(t.from, i, t.all), Slice(s.from, i, s.all))
        BY <1>0, <2>1, <3>4 DEF Slices, Slice, Widens
      <4> QED BY <2>3, <2>7, <3>4, <4>1 DEF Unary
    <3>6. i \in U
      BY <3>4, <3>5 DEF Parents, H
    <3>7. j > 0 /\ j \in U /\ j <= i
      <4> HIDE DEF U
      <4> QED BY <3>2, <3>6, FirstMatchFacts
    <3>8. j \in t.from..(t.to - 1)
      <4> HIDE DEF j
      <4> QED BY <3>7 DEF Parents
    <3> HIDE DEF j, U
    <3>9. Slice(j + 1, t.to, t.to) \in H[p.right]
      <4>1. /\ Slice(j + 1, t.to, t.to) \in Slices(n)
            /\ Widens(Slice(j + 1, t.to, t.to), Slice(i + 1, s.to, s.to))
        BY <1>0, <2>1, <3>4, <3>7, <3>8 DEF Slices, Slice, Widens
      <4> QED BY <2>3, <2>7, <3>1, <4>1 DEF Binary
    <3> QED BY <2>0, <2>2, <2>7, <3>7, <3>9, HoldsFacts DEF H, j, U
  <2> QED BY <2>0, <2>4, <2>5, <2>6, <2>7
<1> HIDE DEF T
<1>3. \A k \in Nat : k \in T
  BY <1>1, <1>2, SetInduction
<1>4. ASSUME NEW p \in Q PROVE Up(p)
  <2>1. Height[p] + 1 \in Nat /\ Height[p] < Height[p] + 1
    BY PredicatesAssumption
  <2> HIDE DEF Up
  <2> QED BY <1>3, <2>1 DEF T
<1> QED BY <1>4

\* The recursion of is_superset, on a pair of predicates.
SupersetOf(ab, f) ==
    LET a == ab[1]
        b == ab[2]
    IN \/ a = b
       \/ a.op = "or" /\ (f[<<a.left, b>>] \/ f[<<a.right, b>>])
       \/ a.op # "or" /\ b.op = "descendant" /\ f[<<a, b.right>>]
       \/ a.op # "or" /\ b.op = "and" /\ (f[<<a, b.left>>] \/ f[<<a, b.right>>])

Pairs == Predicates \X Predicates
PairHeight(ab) == Height[ab[1]] + Height[ab[2]]

\* What a step of it uses: pairs that are less high.
AgreeBelow(f, g, k) == \A ab \in Pairs : PairHeight(ab) < k => f[ab] = g[ab]

\* is_superset asks itself of pairs that are less high.
LEMMA SupersetUses ==
    ASSUME NEW f, NEW g, NEW k \in Nat, AgreeBelow(f, g, k), NEW ab \in Pairs, PairHeight(ab) < k + 1
    PROVE  SupersetOf(ab, f) = SupersetOf(ab, g)
<1> DEFINE a == ab[1]
           b == ab[2]
<1>1. a \in Predicates /\ b \in Predicates /\ Height[a] + Height[b] <= k
      /\ Height[a] \in Nat /\ Height[b] \in Nat
  BY PredicatesAssumption DEF Pairs, PairHeight
<1>2. ASSUME NEW c \in Predicates, NEW d \in Predicates, Height[c] + Height[d] < Height[a] + Height[b]
      PROVE  f[<<c, d>>] = g[<<c, d>>]
  <2>1. <<c, d>> \in Pairs /\ PairHeight(<<c, d>>) = Height[c] + Height[d]
        /\ Height[c] \in Nat /\ Height[d] \in Nat
    BY PredicatesAssumption DEF Pairs, PairHeight
  <2> QED BY <1>1, <1>2, <2>1 DEF AgreeBelow
<1> HIDE DEF a, b
<1>3. a.op = "or" => f[<<a.left, b>>] = g[<<a.left, b>>] /\ f[<<a.right, b>>] = g[<<a.right, b>>]
  BY <1>1, <1>2, PredicatesAssumption
<1>4. b.op \in {"descendant", "and"} => f[<<a, b.right>>] = g[<<a, b.right>>]
  BY <1>1, <1>2, PredicatesAssumption
<1>5. b.op = "and" => f[<<a, b.left>>] = g[<<a, b.left>>]
  BY <1>1, <1>2, PredicatesAssumption
<1> QED BY <1>3, <1>4, <1>5 DEF SupersetOf, a, b

SolvesPairs(f, k) == \A ab \in Pairs : PairHeight(ab) < k => f[ab] = SupersetOf(ab, f)

\* The recursion of is_superset, as that of eval_inner above: the height of a
\* pair, that two functions which follow it agree, and that there is one.
LEMMA PairHeights == \A ab \in Pairs : PairHeight(ab) \in Nat
  BY PredicatesAssumption DEF Pairs, PairHeight

LEMMA PairsOnce ==
    ASSUME NEW f, NEW g
    PROVE  \A k \in Nat : SolvesPairs(f, k) /\ SolvesPairs(g, k) => AgreeBelow(f, g, k)
<1> DEFINE T == {k \in Nat : SolvesPairs(f, k) /\ SolvesPairs(g, k) => AgreeBelow(f, g, k)}
<1>1. 0 \in T
  BY PairHeights DEF AgreeBelow
<1>2. ASSUME NEW k \in Nat, k \in T PROVE k + 1 \in T
  <2> SUFFICES ASSUME SolvesPairs(f, k + 1), SolvesPairs(g, k + 1),
                      NEW ab \in Pairs, PairHeight(ab) < k + 1
               PROVE  f[ab] = g[ab]
    BY DEF AgreeBelow
  <2>1. SolvesPairs(f, k) /\ SolvesPairs(g, k)
    BY PairHeights DEF SolvesPairs
  <2>2. SupersetOf(ab, f) = SupersetOf(ab, g)
    BY <1>2, <2>1, SupersetUses
  <2> QED BY <2>2 DEF SolvesPairs
<1> HIDE DEF T
<1>3. \A k \in Nat : k \in T
  BY <1>1, <1>2, SetInduction
<1> QED BY <1>3 DEF T

LEMMA PairsSome == \A k \in Nat : \E f : SolvesPairs(f, k)
<1> DEFINE T == {k \in Nat : \E f : SolvesPairs(f, k)}
<1>1. 0 \in T
  BY PairHeights DEF SolvesPairs
<1>2. ASSUME NEW k \in Nat, k \in T PROVE k + 1 \in T
  <2>1. PICK f : SolvesPairs(f, k)
    BY <1>2
  <2> DEFINE g == [ab \in Pairs |-> SupersetOf(ab, f)]
  <2>2. \A ab \in Pairs : g[ab] = SupersetOf(ab, f)
    OBVIOUS
  <2> HIDE DEF g
  <2>3. AgreeBelow(f, g, k)
    BY <2>1, <2>2 DEF SolvesPairs, AgreeBelow
  <2>4. ASSUME NEW ab \in Pairs, PairHeight(ab) < k + 1
        PROVE  g[ab] = SupersetOf(ab, g)
    <3>1. SupersetOf(ab, f) = SupersetOf(ab, g)
      BY <2>3, <2>4, SupersetUses
    <3> QED BY <2>2, <3>1
  <2>5. SolvesPairs(g, k + 1)
    BY <2>4 DEF SolvesPairs
  <2> QED BY <2>5
<1> HIDE DEF T
<1>3. \A k \in Nat : k \in T
  BY <1>1, <1>2, SetInduction
<1> QED BY <1>3 DEF T

\* is_superset is given by the code's cases.
LEMMA SupersetFacts ==
    ASSUME NEW a \in Predicates, NEW b \in Predicates
    PROVE  is_superset(a, b) <=>
              \/ a = b
              \/ a.op = "or" /\ (is_superset(a.left, b) \/ is_superset(a.right, b))
              \/ a.op # "or" /\ b.op = "descendant" /\ is_superset(a, b.right)
              \/ a.op # "or" /\ b.op = "and" /\ (is_superset(a, b.left) \/ is_superset(a, b.right))
<1> DEFINE Is(f) == f = [ab \in Pairs |-> SupersetOf(ab, f)]
           F == CHOOSE f : Is(f)
           part[k \in Nat] == CHOOSE f : SolvesPairs(f, k)
           g == [ab \in Pairs |-> part[PairHeight(ab) + 1][ab]]
<1>1. \A p, q : is_superset(p, q) = F[<<p, q>>]
  BY Zenon DEF is_superset, SupersetOf, Pairs
<1>2. \A k \in Nat : SolvesPairs(part[k], k)
  <2>1. \A k \in Nat : part[k] = CHOOSE f : SolvesPairs(f, k)
    OBVIOUS
  <2> HIDE DEF part
  <2> QED BY <2>1, PairsSome
<1> HIDE DEF part
<1>3. \A ab \in Pairs : g[ab] = part[PairHeight(ab) + 1][ab] /\ PairHeight(ab) \in Nat
  BY PairHeights
<1> HIDE DEF g
<1>4. ASSUME NEW k \in Nat PROVE AgreeBelow(part[k], g, k)
  <2> SUFFICES ASSUME NEW ab \in Pairs, PairHeight(ab) < k PROVE part[k][ab] = g[ab]
    BY DEF AgreeBelow
  <2> DEFINE h == PairHeight(ab) + 1
  <2>1. h \in Nat /\ PairHeight(ab) < h /\ h <= k
    BY <1>3
  <2>2. SolvesPairs(part[h], h) /\ SolvesPairs(part[k], h)
    BY <1>2, <2>1, PairHeights DEF SolvesPairs
  <2>3. part[h][ab] = part[k][ab]
    BY <2>1, <2>2, PairsOnce DEF AgreeBelow
  <2> QED BY <1>3, <2>3
<1>5. ASSUME NEW ab \in Pairs PROVE g[ab] = SupersetOf(ab, g)
  <2> DEFINE h == PairHeight(ab)
  <2>1. h \in Nat /\ h + 1 \in Nat /\ h < h + 1
    BY PairHeights
  <2>2. SupersetOf(ab, part[h]) = SupersetOf(ab, g)
    BY <1>4, <2>1, SupersetUses
  <2>3. AgreeBelow(part[h], part[h + 1], h)
    BY <1>4, <2>1, PairHeights DEF AgreeBelow
  <2>4. SupersetOf(ab, part[h]) = SupersetOf(ab, part[h + 1])
    BY <2>1, <2>3, SupersetUses
  <2>5. part[h + 1][ab] = SupersetOf(ab, part[h + 1])
    BY <1>2, <2>1 DEF SolvesPairs
  <2> QED BY <1>3, <2>2, <2>4, <2>5
<1>6. g = [ab \in Pairs |-> SupersetOf(ab, g)]
  <2>1. g = [ab \in Pairs |-> g[ab]]
    BY DEF g
  <2> QED BY <1>5, <2>1
<1>7. F = [ab \in Pairs |-> SupersetOf(ab, F)]
  <2>1. Is(F)
    BY <1>6
  <2> HIDE DEF F
  <2> QED BY <2>1
<1> HIDE DEF F
<1>8. <<a, b>> \in Pairs
  BY DEF Pairs
<1>9. F[<<a, b>>] = SupersetOf(<<a, b>>, F)
  BY <1>7, <1>8
<1> QED BY <1>1, <1>9 DEF SupersetOf

\* No negation is asked of a descendant: what is right of a `>` has none.
NegationsAreOutermost == \A p \in Predicates : p.op = "descendant" => WithoutNot(p.right)

\* Then a superset holds wherever the other predicate does.
LEMMA SupersetHolds ==
    ASSUME NegationsAreOutermost, NEW stack, Len(stack) \in Nat
    PROVE  \A a, b \in Predicates : is_superset(a, b) =>
              \A s \in Evaluated(stack)[b] : s \in Evaluated(stack)[a]
<1> DEFINE n == Len(stack)
           H == Evaluated(stack)
           Near(b, s, t) == t = s \/ (WithoutNot(b) /\ Widens(t, s))
           Covers(a, b) == \A s \in H[b], t \in Slices(n) : Near(b, s, t) => t \in H[a]
           T == {k \in Nat : \A ab \in Pairs :
                    PairHeight(ab) < k /\ is_superset(ab[1], ab[2]) => Covers(ab[1], ab[2])}
<1>0. n \in Nat
  OBVIOUS
<1>1. 0 \in T
  <2> HIDE DEF Covers
  <2> QED BY PairHeights
<1>2. ASSUME NEW k \in Nat, k \in T PROVE k + 1 \in T
  <2> SUFFICES ASSUME NEW ab \in Pairs, PairHeight(ab) < k + 1, is_superset(ab[1], ab[2])
               PROVE  Covers(ab[1], ab[2])
    <3> HIDE DEF Covers
    <3> QED OBVIOUS
  <2> DEFINE a == ab[1]
             b == ab[2]
  <2>1. a \in Predicates /\ b \in Predicates /\ Height[a] + Height[b] <= k
        /\ Height[a] \in Nat /\ Height[b] \in Nat /\ is_superset(a, b)
    BY PredicatesAssumption DEF Pairs, PairHeight
  <2> SUFFICES ASSUME NEW s \in H[b], NEW t \in Slices(n), Near(b, s, t)
               PROVE  t \in H[a]
    OBVIOUS
  <2> HIDE DEF a, b
  <2>2. ASSUME NEW c \in Predicates, NEW d \in Predicates,
               Height[c] + Height[d] < Height[a] + Height[b], is_superset(c, d)
        PROVE  Covers(c, d)
    <3>1. <<c, d>> \in Pairs /\ PairHeight(<<c, d>>) = Height[c] + Height[d]
          /\ Height[c] \in Nat /\ Height[d] \in Nat
      BY PredicatesAssumption DEF Pairs, PairHeight
    <3>2. PairHeight(<<c, d>>) < k
      BY <2>1, <2>2, <3>1
    <3> HIDE DEF Covers
    <3> QED BY <1>2, <2>2, <3>1, <3>2
  <2>3. s \in Slices(n) /\ s.from <= s.to /\ t.from <= t.to
    <3>1. s \in Slices(n) /\ s.from <= s.to
      BY <2>1, HoldsFacts
    <3> QED BY <1>0, <3>1, WidensFacts
  <2> HIDE DEF H, T
  <2>4. CASE a = b
    <3>1. CASE t = s
      BY <2>4, <3>1
    <3>2. CASE WithoutNot(b) /\ Widens(t, s)
      <4>1. PICK Q \in SUBSET Predicates : b \in Q /\ Positive(Q)
        BY <3>2 DEF WithoutNot
      <4> QED BY <1>0, <2>4, <3>2, <4>1, HoldsUpwards DEF H
    <3> QED BY <3>1, <3>2
  <2>5. CASE a.op = "or" /\ (is_superset(a.left, b) \/ is_superset(a.right, b))
    <3>1. /\ a.left \in Predicates /\ a.right \in Predicates
          /\ Height[a.left] + Height[b] < Height[a] + Height[b]
          /\ Height[a.right] + Height[b] < Height[a] + Height[b]
      BY <2>1, <2>5, PredicatesAssumption
    <3>2. Covers(a.left, b) \/ Covers(a.right, b)
      <4> HIDE DEF Covers
      <4> QED BY <2>1, <2>2, <2>5, <3>1
    <3>3. t \in H[a.left] \/ t \in H[a.right]
      BY <3>2
    <3> QED BY <2>1, <2>3, <2>5, <3>3, HoldsFacts DEF H
  <2>6. CASE b.op = "descendant" /\ is_superset(a, b.right)
    <3>1. /\ b.right \in Predicates /\ WithoutNot(b.right)
          /\ Height[a] + Height[b.right] < Height[a] + Height[b]
      BY <2>1, <2>6, PredicatesAssumption DEF NegationsAreOutermost
    <3>2. Covers(a, b.right)
      <4> HIDE DEF Covers
      <4> QED BY <2>1, <2>2, <2>6, <3>1
    <3> DEFINE S == Parents(b, s, stack)
               i == FirstMatch(S)
               u == Slice(i + 1, s.to, s.to)
    <3>3. i > 0 /\ u \in H[b.right]
      BY <2>1, <2>6, HoldsFacts DEF H
    <3>4. S \in SUBSET (Nat \ {0})
      BY <1>0, <2>3 DEF Parents, Slices
    <3>5. i \in S
      <4> HIDE DEF S
      <4> QED BY <3>3, <3>4, FirstMatchFacts
    <3>6. i \in s.from..(s.to - 1)
      <4> HIDE DEF i
      <4> QED BY <3>5 DEF Parents
    <3> HIDE DEF i, S
    <3>7. Widens(t, u)
      BY <1>0, <2>3, <3>6 DEF Widens, Slices, Slice
    <3> HIDE DEF u
    <3> QED BY <3>1, <3>2, <3>3, <3>7
  <2>7. CASE b.op = "and" /\ (is_superset(a, b.left) \/ is_superset(a, b.right))
    <3>1. /\ b.left \in Predicates /\ b.right \in Predicates
          /\ Height[a] + Height[b.left] < Height[a] + Height[b]
          /\ Height[a] + Height[b.right] < Height[a] + Height[b]
      BY <2>1, <2>7, PredicatesAssumption
    <3>2. Covers(a, b.left) \/ Covers(a, b.right)
      <4> HIDE DEF Covers
      <4> QED BY <2>1, <2>2, <2>7, <3>1
    <3>3. s \in H[b.left] /\ s \in H[b.right]
      BY <2>1, <2>7, HoldsFacts DEF H
    <3>4. Near(b.left, s, t) /\ Near(b.right, s, t)
      BY <2>1, <2>7, WithoutNotFacts DEF Unary, Binary
    <3> HIDE DEF Near
    <3> QED BY <3>2, <3>3, <3>4
  <2>8. \/ a = b
        \/ a.op = "or" /\ (is_superset(a.left, b) \/ is_superset(a.right, b))
        \/ b.op = "descendant" /\ is_superset(a, b.right)
        \/ b.op = "and" /\ (is_superset(a, b.left) \/ is_superset(a, b.right))
    BY <2>1, SupersetFacts, Zenon
  <2> QED BY <2>4, <2>5, <2>6, <2>7, <2>8
<1> HIDE DEF T
<1>3. \A k \in Nat : k \in T
  BY <1>1, <1>2, SetInduction
<1>4. ASSUME NEW a \in Predicates, NEW b \in Predicates, is_superset(a, b), NEW s \in H[b]
      PROVE  s \in H[a]
  <2>1. <<a, b>> \in Pairs /\ PairHeight(<<a, b>>) \in Nat
    BY PairHeights DEF Pairs
  <2>2. PairHeight(<<a, b>>) + 1 \in T /\ PairHeight(<<a, b>>) < PairHeight(<<a, b>>) + 1
    BY <1>3, <2>1
  <2>3. Covers(a, b)
    <3> HIDE DEF Covers
    <3> QED BY <1>4, <2>1, <2>2 DEF T
  <2>4. s \in Slices(n)
    BY HoldsFacts
  <2> HIDE DEF H
  <2> QED BY <1>4, <2>3, <2>4
<1> QED BY <1>4

\* A binding that disables another applies at least as deep.
LEMMA DisabledDeeper ==
    ASSUME NegationsAreOutermost, NEW stack, Len(stack) \in Nat, NEW d \in Bindings, NEW b \in Bindings,
           disabled_binding_matches_context(d, b)
    PROVE  binding_enabled(b, stack) <= binding_enabled(d, stack)
<1>1. CASE d.pred = Anywhere
  <2>1. binding_enabled(b, stack) \in None..Len(stack) /\ binding_enabled(d, stack) = Len(stack)
    BY <1>1, EnabledFacts DEF binding_enabled
  <2> QED BY <2>1 DEF None
<1>2. CASE d.pred # Anywhere
  <2> DEFINE S(p) == {None} \cup {e \in 1..Len(stack) : HoldsAt(p, stack, e)}
  <2>1. b.pred # Anywhere /\ is_superset(d.pred, b.pred) /\ d.pred \in Predicates /\ b.pred \in Predicates
    BY <1>2, KeymapAssumption DEF disabled_binding_matches_context
  <2>2. \A e : HoldsAt(b.pred, stack, e) => HoldsAt(d.pred, stack, e)
    BY <2>1, SupersetHolds DEF HoldsAt
  <2>3. \A p : Bounded(S(p), Len(stack))
    <3>1. \A p : None \in S(p) /\ \A x \in S(p) : x = None \/ x \in 1..Len(stack)
      BY Zenon
    <3> HIDE DEF S
    <3> QED BY <3>1 DEF None, Bounded
  <2>4. S(b.pred) \subseteq S(d.pred)
    BY <2>2
  <2>5. binding_enabled(b, stack) = Max(S(b.pred)) /\ binding_enabled(d, stack) = Max(S(d.pred))
    BY <1>2, <2>1 DEF binding_enabled, depth_of
  <2> HIDE DEF S
  <2>6. Max(S(b.pred)) \in S(b.pred) /\ \A x \in S(d.pred) : x <= Max(S(d.pred))
    BY <2>3, GreatestFacts, Zenon
  <2> QED BY <2>4, <2>5, <2>6
<1> QED BY <1>1, <1>2

\* The third question.
LEMMA HiddenNeverRun == NegationsAreOutermost /\ KeymapTyped => HiddenNeverRuns
<1> SUFFICES ASSUME NegationsAreOutermost, KeymapTyped, LoadedInOrder,
                    NEW i \in DOMAIN keymap, ~Disables(keymap[i]),
                    i \notin bindings_for_action(keymap[i].action),
                    NEW stack \in Stacks, i \in Runs(stack, keymap[i].keys)
             PROVE  FALSE
  BY Zenon DEF HiddenNeverRuns
<1> DEFINE keys == keymap[i].keys
           full == Full(stack, keys, DOMAIN keymap)
<1>0. /\ Len(stack) \in Nat /\ DOMAIN keymap \subseteq Int
      /\ \A j \in DOMAIN keymap : keymap[j] \in Bindings /\ keymap[j].meta \in Nat
  BY KeymapAssumption DEF KeymapTyped
<1>1. i \in RunsOf(full, stack)
  BY RunsFacts
<1>2. /\ i \in full /\ ~Nulled(full, stack, i)
      /\ \A u \in full : binding_is_unbound(keymap[u], keymap[i]) /\ OutRanks(keymap, stack, u, i)
                            => Nulled(full, stack, u)
  BY <1>1 DEF RunsOf
<1>3. PICK d \in DOMAIN keymap :
         /\ d > i /\ keymap[d].keys = keys
         /\ disabled_binding_matches_context(keymap[d], keymap[i])
         /\ is_no_action(keymap[d]) \/ binding_is_unbound(keymap[d], keymap[i])
  BY Zenon DEF bindings_for_action
<1>4. binding_enabled(keymap[i], stack) <= binding_enabled(keymap[d], stack)
  BY <1>0, <1>3, DisabledDeeper
<1>5. /\ binding_enabled(keymap[i], stack) \in None..Len(stack)
      /\ binding_enabled(keymap[d], stack) \in None..Len(stack)
  BY <1>0, EnabledFacts
<1>6. OutRanks(keymap, stack, d, i)
  BY <1>0, <1>3, <1>4, <1>5 DEF OutRanks, Before, None
<1>7. d \in full
  <2>1. binding_enabled(keymap[i], stack) # None /\ Matches(keymap[i], keys) /\ ~IsPending(keymap[i], keys)
    BY <1>2 DEF Full, Candidates
  <2>2. binding_enabled(keymap[d], stack) # None
    BY <1>0, <1>4, <1>5, <2>1 DEF None
  <2>3. Matches(keymap[d], keys) /\ ~IsPending(keymap[d], keys)
    BY <1>3, <2>1 DEF Matches, IsPending
  <2> QED BY <2>2, <2>3 DEF Full, Candidates
<1> HIDE DEF full, keys
<1>8. full \subseteq DOMAIN keymap
  BY DEF full, Full, Candidates
<1>9. keymap[d].meta <= keymap[i].meta
  BY <1>3 DEF LoadedInOrder
<1>10. CASE is_no_action(keymap[d])
  BY <1>2, <1>6, <1>7, <1>9, <1>10 DEF Nulled
<1>11. CASE binding_is_unbound(keymap[d], keymap[i])
  <2>1. Nulled(full, stack, d)
    BY <1>2, <1>6, <1>7, <1>11
  <2>2. PICK n \in full : /\ is_no_action(keymap[n]) /\ OutRanks(keymap, stack, n, d)
                          /\ keymap[n].meta <= keymap[d].meta
    BY <2>1 DEF Nulled
  <2>3. OutRanks(keymap, stack, n, i)
    <3>1. n \in Int /\ d \in Int /\ i \in Int
      BY <1>0, <1>8
    <3> QED BY <1>0, <1>6, <2>2, <3>1, OutRanksFacts
  <2>4. keymap[n].meta <= keymap[i].meta
    BY <1>0, <1>8, <1>9, <2>2
  <2> QED BY <1>2, <2>2, <2>3, <2>4 DEF Nulled
<1> QED BY <1>3, <1>10, <1>11

-----------------------------------------------------------------------------
\* The keymap holds bindings.
LEMMA KeymapAlwaysTyped == KeymapSpec => []KeymapTyped
<1>1. KeymapInit => KeymapTyped
  BY DEF KeymapInit, KeymapTyped
<1>2. KeymapTyped /\ [KeymapNext]_keymap => KeymapTyped'
  <2> SUFFICES ASSUME KeymapTyped, [KeymapNext]_keymap PROVE keymap' \in Seq(Bindings)
    BY DEF KeymapTyped
  <2>1. CASE clear
    BY <2>1 DEF clear
  <2>2. ASSUME NEW b \in Bindings, add_bindings(b) PROVE keymap' \in Seq(Bindings)
    BY <2>2 DEF add_bindings, KeymapTyped
  <2>3. CASE UNCHANGED keymap
    BY <2>3 DEF KeymapTyped
  <2> QED BY <2>1, <2>2, <2>3 DEF KeymapNext
<1> QED BY <1>1, <1>2, PTL DEF KeymapSpec

\* What bindings_for_input returns is the bindings that run, in the order of
\* precedence, and possible_next_bindings_for_input returns those that would
\* run for their full keystrokes: for every keymap built by add_bindings and
\* clear, every context stack and every input.
THEOREM KeymapAlwaysResolves == KeymapSpec => [](ResolveByPrecedence /\ NextIsDispatched)
<1>1. KeymapTyped => ResolveByPrecedence /\ NextIsDispatched
  BY ResolvesByPrecedence, NextAreDispatched
<1> QED BY <1>1, KeymapAlwaysTyped, PTL

\* With no negation to the right of a `>`, bindings_for_action agrees with
\* dispatch too: what it hides runs on no context stack.  (With one, is_superset
\* answers that !Workspace covers Pane > !Workspace, and it does not.)
THEOREM KeymapQueriesAgree == NegationsAreOutermost => (KeymapSpec => []QueriesAgree)
<1> SUFFICES ASSUME NegationsAreOutermost PROVE KeymapSpec => []QueriesAgree
  OBVIOUS
<1>1. KeymapTyped => QueriesAgree
  BY ResolvesByPrecedence, NextAreDispatched, HiddenNeverRun DEF QueriesAgree
<1> QED BY <1>1, KeymapAlwaysTyped, PTL

\* And is_superset is what its documentation says.
THEOREM SupersetAlwaysMatches == NegationsAreOutermost => (KeymapSpec => []SupersetMatches)
<1> SUFFICES ASSUME NegationsAreOutermost PROVE KeymapSpec => []SupersetMatches
  OBVIOUS
<1>1. KeymapTyped => SupersetMatches
  <2> SUFFICES ASSUME NEW a \in Predicates, NEW b \in Predicates, is_superset(a, b),
                      NEW stack \in Stacks, eval(b, stack)
               PROVE  eval(a, stack)
    BY Zenon DEF SupersetMatches
  <2>1. Len(stack) \in Nat
    BY KeymapAssumption
  <2> QED BY <2>1, SupersetHolds DEF eval, HoldsAt
<1> QED BY <1>1, KeymapAlwaysTyped, PTL

-----------------------------------------------------------------------------
(***************************************************************************)
(* FlattenSeq of the library: what it is for a longer sequence.            *)
(***************************************************************************)

Flattens(f, s) == f = [i \in 1..Len(s) |-> IF i = 1 THEN s[i] ELSE f[i - 1] \o s[i]]

\* The same, element by element.
LEMMA FlattensEach ==
    ASSUME NEW s, NEW f
    PROVE  Flattens(f, s) <=>
              /\ f = [i \in 1..Len(s) |-> f[i]]
              /\ \A i \in 1..Len(s) : f[i] = IF i = 1 THEN s[i] ELSE f[i - 1] \o s[i]
<1> DEFINE g == [i \in 1..Len(s) |-> IF i = 1 THEN s[i] ELSE f[i - 1] \o s[i]]
           h == [i \in 1..Len(s) |-> f[i]]
<1>1. Flattens(f, s) <=> f = g
  BY DEF Flattens
<1>2. /\ \A i \in 1..Len(s) : g[i] = IF i = 1 THEN s[i] ELSE f[i - 1] \o s[i]
      /\ \A i \in 1..Len(s) : h[i] = f[i]
      /\ (\A i \in 1..Len(s) : g[i] = h[i]) => g = h
  OBVIOUS
<1>3. f = g => f = h
  <2> SUFFICES ASSUME f = g PROVE f = h
    OBVIOUS
  <2>1. \A i \in 1..Len(s) : g[i] = h[i]
    <3> HIDE DEF g, h
    <3> QED BY <1>2
  <2> QED BY <1>2, <2>1
<1> HIDE DEF g, h
<1> QED BY <1>1, <1>2, <1>3 DEF h

\* The function FlattenSeq is defined with exists.
LEMMA FlattensExists ==
    ASSUME NEW A, NEW s \in Seq(Seq(A))
    PROVE  \E f \in [1..Len(s) -> Seq(A)] : Flattens(f, s)
<1> DEFINE Upto(n, f) == \A i \in 1..n : f[i] = IF i = 1 THEN s[i] ELSE f[i - 1] \o s[i]
           T == {n \in Nat : n <= Len(s) => \E f \in [1..n -> Seq(A)] : Upto(n, f)}
<1>0. Len(s) \in Nat /\ \A i \in 1..Len(s) : s[i] \in Seq(A)
  OBVIOUS
<1>t. \A n \in Nat : n \in T <=> (n <= Len(s) => \E f \in [1..n -> Seq(A)] : Upto(n, f))
  OBVIOUS
<1>1. 0 \in T
  <2>1. [i \in 1..0 |-> <<>>] \in [1..0 -> Seq(A)] /\ Upto(0, [i \in 1..0 |-> <<>>])
    OBVIOUS
  <2> QED BY <1>t, <2>1
<1>2. ASSUME NEW n \in Nat, n \in T PROVE n + 1 \in T
  <2> HIDE DEF T, Upto
  <2> SUFFICES ASSUME n + 1 <= Len(s)
               PROVE  \E f \in [1..(n + 1) -> Seq(A)] : Upto(n + 1, f)
    BY <1>t
  <2>1. PICK f \in [1..n -> Seq(A)] : Upto(n, f)
    BY <1>0, <1>2, <1>t
  <2> USE DEF Upto
  <2> DEFINE last == IF n = 0 THEN s[1] ELSE f[n] \o s[n + 1]
             g == [i \in 1..(n + 1) |-> IF i = n + 1 THEN last ELSE f[i]]
  <2>2. last \in Seq(A)
    BY <1>0, <2>1
  <2> HIDE DEF last
  <2>3. g \in [1..(n + 1) -> Seq(A)]
    BY <2>2
  <2>4. ASSUME NEW i \in 1..(n + 1)
        PROVE  g[i] = IF i = 1 THEN s[i] ELSE g[i - 1] \o s[i]
    <3>1. CASE i = n + 1
      BY <3>1 DEF last
    <3>2. CASE i # n + 1
      <4>1. i \in 1..n /\ g[i] = f[i] /\ (i # 1 => g[i - 1] = f[i - 1])
        BY <3>2
      <4> QED BY <2>1, <4>1
    <3> QED BY <3>1, <3>2
  <2> QED BY <2>3, <2>4
<1>3. Len(s) \in T
  <2> HIDE DEF T
  <2> QED BY <1>0, <1>1, <1>2, SetInduction
<1>4. PICK f \in [1..Len(s) -> Seq(A)] : Upto(Len(s), f)
  <2> HIDE DEF T, Upto
  <2> QED BY <1>0, <1>3, <1>t
<1>5. f = [i \in 1..Len(s) |-> f[i]]
  BY <1>4
<1> QED BY <1>4, <1>5, FlattensEach

Begins(a, b) ==
    /\ Len(a) \in Nat /\ Len(b) \in Nat /\ Len(a) <= Len(b)
    /\ \A i \in 1..Len(a) : a[i] = b[i]
Agree(n, f, g) == \A i \in 1..n : f[i] = g[i]

\* Two of them agree as far as their sequences do.
LEMMA FlattensAgree ==
    ASSUME NEW a, NEW b, NEW f, NEW g, Flattens(f, a), Flattens(g, b), Begins(a, b)
    PROVE  Agree(Len(a), f, g)
<1> USE DEF Begins, Agree
<1> DEFINE m == Len(a)
           T == {n \in Nat : n \in 1..m => f[n] = g[n]}
<1>1. \A i \in 1..m : /\ f[i] = IF i = 1 THEN a[i] ELSE f[i - 1] \o a[i]
                      /\ g[i] = IF i = 1 THEN b[i] ELSE g[i - 1] \o b[i]
  BY FlattensEach
<1> HIDE DEF m
<1>2. 0 \in T
  BY DEF m
<1>3. ASSUME NEW n \in Nat, n \in T PROVE n + 1 \in T
  <2> SUFFICES ASSUME n + 1 \in 1..m PROVE f[n + 1] = g[n + 1]
    OBVIOUS
  <2>0. a[n + 1] = b[n + 1] /\ m \in Nat
    BY DEF m
  <2>1. CASE n = 0
    BY <1>1, <2>0, <2>1
  <2>2. CASE n # 0
    <3>1. f[n] = g[n] /\ (n + 1) - 1 = n /\ n + 1 # 1
      BY <1>3, <2>0, <2>2
    <3> QED BY <1>1, <2>0, <3>1
  <2> QED BY <2>1, <2>2
<1>4. \A n \in Nat : n \in T
  <2> HIDE DEF T
  <2> QED BY <1>2, <1>3, SetInduction
<1> QED BY <1>4 DEF m

\* What FlattenSeq is.
LEMMA FlattenIs ==
    ASSUME NEW A, NEW s \in Seq(Seq(A)), s # <<>>
    PROVE  \E f \in [1..Len(s) -> Seq(A)] : Flattens(f, s) /\ FlattenSeq(s) = f[Len(s)]
<1> DEFINE F == CHOOSE f : Flattens(f, s)
<1>1. PICK e \in [1..Len(s) -> Seq(A)] : Flattens(e, s)
  BY FlattensExists
<1>2. Flattens(F, s)
  BY <1>1
<1>3. Len(s) \in Nat /\ Len(s) # 0
  OBVIOUS
<1>4. FlattenSeq(s) = F[Len(s)]
  BY <1>3 DEF FlattenSeq, Flattens
<1> HIDE DEF F
<1>5. F = e
  <2>1. Agree(Len(s), F, e)
    <3>1. Begins(s, s)
      BY <1>3 DEF Begins
    <3> QED BY <1>1, <1>2, <3>1, FlattensAgree, Zenon
  <2>2. F = [i \in 1..Len(s) |-> F[i]] /\ e = [i \in 1..Len(s) |-> e[i]]
    BY <1>1, <1>2, FlattensEach, Zenon
  <2> QED BY <2>1, <2>2 DEF Agree
<1> QED BY <1>1, <1>4, <1>5

\* One sequence more in a sequence of sequences.
LEMMA FlattenAppend ==
    ASSUME NEW A, NEW s \in Seq(Seq(A)), NEW x \in Seq(A)
    PROVE  /\ FlattenSeq(s) \in Seq(A)
           /\ FlattenSeq(Append(s, x)) = FlattenSeq(s) \o x
<1>1. FlattenSeq(<<>>) = <<>>
  BY DEF FlattenSeq
<1> DEFINE t == Append(s, x)
<1>2. /\ t \in Seq(Seq(A)) /\ t # <<>> /\ Len(t) = Len(s) + 1 /\ Len(s) \in Nat
      /\ t[Len(s) + 1] = x /\ \A i \in 1..Len(s) : t[i] = s[i]
  BY AppendProperties, LenProperties
<1> SUFFICES FlattenSeq(s) \in Seq(A) /\ FlattenSeq(t) = FlattenSeq(s) \o x
  OBVIOUS
<1> HIDE DEF t
<1>a. \A f, g : Flattens(g, t) /\ Flattens(f, s) => \A i \in 1..Len(s) : g[i] = f[i]
  <2> SUFFICES ASSUME NEW f, NEW g, Flattens(g, t), Flattens(f, s)
               PROVE  \A i \in 1..Len(s) : g[i] = f[i]
    OBVIOUS
  <2>1. Begins(s, t)
    BY <1>2 DEF Begins
  <2>2. Agree(Len(s), f, g)
    BY <2>1, FlattensAgree, Zenon
  <2> QED BY <2>2 DEF Agree
<1>3. PICK g \in [1..Len(t) -> Seq(A)] : Flattens(g, t) /\ FlattenSeq(t) = g[Len(t)]
  BY <1>2, FlattenIs, Zenon
<1>4. g[Len(t)] = IF Len(t) = 1 THEN x ELSE g[Len(s)] \o x
  <2>1. Len(t) \in 1..Len(t) /\ Len(t) - 1 = Len(s)
    BY <1>2
  <2>2. g[Len(t)] = IF Len(t) = 1 THEN t[Len(t)] ELSE g[Len(t) - 1] \o t[Len(t)]
    BY <1>3, <2>1, FlattensEach, Zenon
  <2> QED BY <1>2, <2>1, <2>2
<1>5. CASE s = <<>>
  <2>1. FlattenSeq(t) = x
    BY <1>2, <1>3, <1>4, <1>5
  <2>2. x = <<>> \o x /\ <<>> \in Seq(A)
    OBVIOUS
  <2> QED BY <1>1, <1>5, <2>1, <2>2, Zenon
<1>6. CASE s # <<>>
  <2>1. PICK f \in [1..Len(s) -> Seq(A)] : Flattens(f, s) /\ FlattenSeq(s) = f[Len(s)]
    BY <1>6, FlattenIs, Zenon
  <2>2. Len(s) \in 1..Len(s) /\ Len(t) # 1 /\ Len(t) \in Nat /\ Len(s) <= Len(t)
    BY <1>2, <1>6
  <2>3. g[Len(s)] = f[Len(s)]
    <3>1. \A i \in 1..Len(s) : g[i] = f[i]
      BY <1>3, <1>a, <2>1, Zenon
    <3> QED BY <2>2, <3>1
  <2>4. f[Len(s)] \in Seq(A)
    BY <2>1, <2>2
  <2> QED BY <1>3, <1>4, <2>1, <2>2, <2>3, <2>4, Zenon
<1> QED BY <1>5, <1>6

\* What two sequences of sequences hold, one after the other.
LEMMA FlattenConcat ==
    ASSUME NEW A, NEW s \in Seq(Seq(A)), NEW t \in Seq(Seq(A))
    PROVE  FlattenSeq(s \o t) = FlattenSeq(s) \o FlattenSeq(t)
<1> DEFINE T == {n \in Nat : \A r \in Seq(Seq(A)) : Len(r) = n =>
                                FlattenSeq(s \o r) = FlattenSeq(s) \o FlattenSeq(r)}
<1>a. ASSUME NEW a \in Seq(A), NEW b \in Seq(A), NEW c \in Seq(A)
      PROVE  (a \o b) \o c = a \o (b \o c)
  <2> HIDE DEF T
  <2> QED BY ConcatAssociative, SMTT(30)
<1>1. \A r \in Seq(Seq(A)) : FlattenSeq(r) \in Seq(A)
  BY EmptySeq, FlattenAppend
<1>2. 0 \in T
  <2> SUFFICES ASSUME NEW r \in Seq(Seq(A)), Len(r) = 0
               PROVE  FlattenSeq(s \o r) = FlattenSeq(s) \o FlattenSeq(r)
    OBVIOUS
  <2>1. r = <<>> /\ s \o r = s
    OBVIOUS
  <2>2. FlattenSeq(r) = <<>>
    BY <2>1 DEF FlattenSeq
  <2>3. FlattenSeq(s) \o <<>> = FlattenSeq(s)
    BY <1>1
  <2> QED BY <2>1, <2>2, <2>3
<1>3. ASSUME NEW n \in Nat, n \in T PROVE n + 1 \in T
  <2> SUFFICES ASSUME NEW r \in Seq(Seq(A)), Len(r) = n + 1
               PROVE  FlattenSeq(s \o r) = FlattenSeq(s) \o FlattenSeq(r)
    OBVIOUS
  <2> DEFINE q == SubSeq(r, 1, n)
             x == r[n + 1]
  <2>1. q \in Seq(Seq(A)) /\ Len(q) = n /\ x \in Seq(A)
    OBVIOUS
  <2>2. r = Append(q, x)
    OBVIOUS
  <2> HIDE DEF q, x
  <2>3. s \o r = Append(s \o q, x) /\ s \o q \in Seq(Seq(A))
    BY <2>1, <2>2
  <2>4. FlattenSeq(r) = FlattenSeq(q) \o x
    BY <2>1, <2>2, FlattenAppend
  <2>5. FlattenSeq(s \o r) = FlattenSeq(s \o q) \o x
    BY <2>1, <2>3, FlattenAppend
  <2>6. FlattenSeq(s \o q) = FlattenSeq(s) \o FlattenSeq(q)
    BY <1>3, <2>1
  <2>7. (FlattenSeq(s) \o FlattenSeq(q)) \o x = FlattenSeq(s) \o (FlattenSeq(q) \o x)
    <3>1. FlattenSeq(s) \in Seq(A) /\ FlattenSeq(q) \in Seq(A)
      BY <1>1, <2>1
    <3> QED BY <1>a, <2>1, <3>1, Zenon
  <2>8. FlattenSeq(s \o r) = (FlattenSeq(s) \o FlattenSeq(q)) \o x
    BY <2>5, <2>6, Zenon
  <2> QED BY <2>4, <2>7, <2>8, Zenon
<1>4. \A n \in Nat : n \in T
  <2> HIDE DEF T
  <2> QED BY <1>2, <1>3, SetInduction
<1>5. Len(t) \in Nat
  OBVIOUS
<1> QED BY <1>4, <1>5

-----------------------------------------------------------------------------
(***************************************************************************)
(* Keystrokes that are replayed.  Whatever the keymap finds for an input,  *)
(* flush_dispatch and dispatch_key cut the keystrokes they are given into  *)
(* pieces, in order and without a gap, and each piece was looked up.       *)
(***************************************************************************)

KeyStrokes == KeyDowns \cup Modifiers

Found(stack, keys) == bindings_for_input(keymap, stack, keys).bindings

\* The pieces that may be replayed for a context stack: a keystroke alone, or
\* several that are a binding.
Pieces(stack) ==
    {[keystroke |-> Last(keys), keys |-> keys, bindings |-> Found(stack, keys)] :
        keys \in {k \in Seq(KeyStrokes) : Len(k) = 1 \/ (k # <<>> /\ Found(stack, k) # <<>>)}}

\* The keystrokes of a sequence of pieces or of outcomes.
KeysOf(s) == [n \in DOMAIN s |-> s[n].keys]
Spelt(s) == FlattenSeq(KeysOf(s))

\* What a longer sequence spells.
LEMMA SpeltFacts ==
    ASSUME NEW A, NEW R, \A r \in R : r.keys \in Seq(A)
    PROVE  /\ Spelt(<<>>) = <<>>
           /\ \A r \in R : Spelt(<<r>>) = r.keys
           /\ \A s \in Seq(R) : Spelt(s) \in Seq(A)
           /\ \A s, t \in Seq(R) : Spelt(s \o t) = Spelt(s) \o Spelt(t)
<1>1. KeysOf(<<>>) = <<>> /\ FlattenSeq(<<>>) = <<>>
  BY DEF KeysOf, FlattenSeq
<1>2. \A s \in Seq(R) : KeysOf(s) \in Seq(Seq(A))
  BY DEF KeysOf
<1>3. ASSUME NEW r \in R PROVE Spelt(<<r>>) = r.keys
  <2>1. KeysOf(<<r>>) = Append(<<>>, r.keys)
    BY DEF KeysOf
  <2>2. <<>> \in Seq(Seq(A)) /\ r.keys \in Seq(A) /\ <<>> \o r.keys = r.keys
    OBVIOUS
  <2>3. FlattenSeq(Append(<<>>, r.keys)) = FlattenSeq(<<>>) \o r.keys
    BY <2>2, FlattenAppend, Zenon
  <2> QED BY <1>1, <2>1, <2>2, <2>3, Zenon DEF Spelt
<1>4. ASSUME NEW s \in Seq(R) PROVE Spelt(s) \in Seq(A)
  <2>1. KeysOf(s) \in Seq(Seq(A)) /\ <<>> \in Seq(A)
    BY <1>2
  <2> QED BY <2>1, FlattenAppend, Zenon DEF Spelt
<1>5. ASSUME NEW s \in Seq(R), NEW t \in Seq(R) PROVE Spelt(s \o t) = Spelt(s) \o Spelt(t)
  <2>2. /\ KeysOf(s) \in Seq(Seq(A)) /\ KeysOf(t) \in Seq(Seq(A))
        /\ KeysOf(s \o t) \in Seq(Seq(A))
    <3>1. s \o t \in Seq(R)
      OBVIOUS
    <3> HIDE DEF KeysOf
    <3> QED BY <1>2, <3>1, Zenon
  <2>1. KeysOf(s \o t) = KeysOf(s) \o KeysOf(t)
    <3> DEFINE u == s \o t
               v == KeysOf(s) \o KeysOf(t)
    <3>1. u \in Seq(R) /\ Len(u) = Len(s) + Len(t)
          /\ \A i \in 1..Len(u) : u[i] = IF i <= Len(s) THEN s[i] ELSE t[i - Len(s)]
      BY ConcatProperties
    <3>2. \A q \in Seq(R) : Len(KeysOf(q)) = Len(q) /\ \A i \in 1..Len(q) : KeysOf(q)[i] = q[i].keys
      BY DEF KeysOf
    <3>3. v \in Seq(Seq(A)) /\ Len(v) = Len(KeysOf(s)) + Len(KeysOf(t))
          /\ \A i \in 1..Len(v) : v[i] = IF i <= Len(KeysOf(s)) THEN KeysOf(s)[i]
                                         ELSE KeysOf(t)[i - Len(KeysOf(s))]
      BY <2>2, ConcatProperties
    <3> HIDE DEF u, v
    <3>4. Len(s) \in Nat /\ Len(t) \in Nat
      OBVIOUS
    <3>5. Len(KeysOf(u)) = Len(v)
      BY <3>1, <3>2, <3>3, <3>4
    <3>6. ASSUME NEW i \in 1..Len(v) PROVE KeysOf(u)[i] = v[i]
      <4>1. i \in 1..Len(u) /\ KeysOf(u)[i] = u[i].keys
        <5>1. Len(KeysOf(u)) = Len(u)
          BY <3>1, <3>2
        <5>2. i \in 1..Len(u)
          BY <3>5, <5>1
        <5> QED BY <3>1, <3>2, <5>2
      <4>2. CASE i <= Len(s)
        <5>1. i \in 1..Len(s)
          BY <3>4, <4>1, <4>2
        <5>2. u[i] = s[i]
          BY <3>1, <4>1, <4>2
        <5>3. Len(KeysOf(s)) = Len(s) /\ KeysOf(s)[i] = s[i].keys
          BY <3>2, <5>1
        <5>4. v[i] = KeysOf(s)[i]
          BY <3>3, <4>2, <5>3
        <5> QED BY <4>1, <5>2, <5>3, <5>4
      <4>3. CASE i > Len(s)
        <5>1. i - Len(s) \in 1..Len(t)
          BY <3>1, <3>4, <4>1, <4>3
        <5>2. u[i] = t[i - Len(s)]
          BY <3>1, <3>4, <4>1, <4>3
        <5>3. Len(KeysOf(s)) = Len(s) /\ KeysOf(t)[i - Len(s)] = t[i - Len(s)].keys
          BY <3>2, <5>1
        <5>4. v[i] = KeysOf(t)[i - Len(s)]
          BY <3>3, <3>4, <4>3, <5>3
        <5> QED BY <4>1, <5>2, <5>3, <5>4
      <4> QED BY <3>4, <4>2, <4>3
    <3>7. KeysOf(u) \in Seq(Seq(A))
      BY <1>2, <3>1
    <3>8. KeysOf(u) = v
      BY <3>3, <3>5, <3>6, <3>7, SeqEqual
    <3> QED BY <3>8 DEF u, v
  <2> QED BY <2>1, <2>2, FlattenConcat, Zenon DEF Spelt
<1> QED BY <1>1, <1>3, <1>4, <1>5, Zenon DEF Spelt

\* A finite set of numbers has a greatest one.
LEMMA MaxFacts ==
    ASSUME NEW n \in Nat, NEW S \in SUBSET (1..n), S # {}
    PROVE  Max(S) \in S
<1>1. Bounded(S, n)
  BY DEF Bounded
<1> QED BY <1>1, GreatestFacts, Zenon

\* replay_prefix takes at least one keystroke, and more only for a binding.
LEMMA PrefixFacts ==
    ASSUME NEW stack, NEW keys, Len(keys) \in Nat, Len(keys) # 0
    PROVE  LET n == PrefixLength(stack, keys)
           IN n \in 1..Len(keys) /\ (n = 1 \/ Found(stack, SubSeq(keys, 1, n)) # <<>>)
<1> DEFINE S == {1} \cup {n \in 1..Len(keys) : Found(stack, SubSeq(keys, 1, n)) # <<>>}
<1>1. S \in SUBSET (1..Len(keys)) /\ S # {}
  OBVIOUS
<1>2. PrefixLength(stack, keys) = Max(S)
  BY DEF PrefixLength, Found
<1>3. Max(S) \in S
  <2> HIDE DEF S
  <2> QED BY <1>1, MaxFacts
<1>4. \A n \in S : n \in 1..Len(keys) /\ (n = 1 \/ Found(stack, SubSeq(keys, 1, n)) # <<>>)
  OBVIOUS
<1> HIDE DEF S
<1> QED BY <1>2, <1>3, <1>4

\* A replay is a piece, and takes the keystrokes off the front.
LEMMA ReplayFacts ==
    ASSUME NEW stack, NEW keys \in Seq(KeyStrokes), NEW p \in 1..Len(keys)
    PROVE  LET r == Replay(stack, From(keys, p))
           IN /\ r \in Pieces(stack)
              /\ Len(r.keys) \in 1..(Len(keys) + 1 - p)
              /\ From(keys, p) = r.keys \o From(keys, p + Len(r.keys))
<1> DEFINE rest == From(keys, p)
           n == PrefixLength(stack, rest)
           taken == SubSeq(rest, 1, n)
<1>1. rest \in Seq(KeyStrokes) /\ Len(rest) = Len(keys) + 1 - p /\ Len(rest) \in Nat \ {0}
  BY SubSeqProperties DEF From
<1>2. Replay(stack, rest) =
         [keystroke |-> Last(taken), keys |-> taken, bindings |-> Found(stack, taken)]
  BY DEF Replay, ReplayOf, Found
<1> HIDE DEF rest
<1>3. n \in 1..Len(rest) /\ (n = 1 \/ Found(stack, taken) # <<>>)
  BY <1>1, PrefixFacts
<1> HIDE DEF n
<1>4. taken \in Seq(KeyStrokes) /\ Len(taken) = n /\ taken # <<>>
  BY <1>1, <1>3
<1>5. rest = taken \o From(keys, p + n)
  <2>1. taken = SubSeq(keys, p, p + n - 1)
    <3>1. /\ Len(keys) \in 1..Len(keys) /\ 1 \in 1..(Len(keys) - p + 1)
          /\ n \in 1..(Len(keys) - p + 1) /\ p + 1 - 1 = p
      BY <1>1, <1>3
    <3>2. SubSeq(SubSeq(keys, p, Len(keys)), 1, n) = SubSeq(keys, p + 1 - 1, p + n - 1)
      <4> HIDE <1>1, <1>3, <1>4
      <4> QED BY <3>1, SubSeqOfSubSeq
    <3> QED BY <3>1, <3>2 DEF rest, From
  <2>2. /\ p \in 1..(Len(keys) + 1) /\ p + n - 1 \in (p - 1)..Len(keys)
        /\ Len(keys) \in (p + n - 1)..Len(keys) /\ (p + n - 1) + 1 = p + n
    BY <1>1, <1>3
  <2>3. SubSeq(keys, p, p + n - 1) \o SubSeq(keys, (p + n - 1) + 1, Len(keys))
           = SubSeq(keys, p, Len(keys))
    BY <2>2, ConcatAdjacentSubSeq, Zenon
  <2> QED BY <2>1, <2>2, <2>3 DEF rest, From
<1>6. [keystroke |-> Last(taken), keys |-> taken, bindings |-> Found(stack, taken)]
         \in Pieces(stack)
  <2> HIDE DEF taken
  <2> QED BY <1>3, <1>4 DEF Pieces
<1> HIDE DEF taken
<1> DEFINE r == Replay(stack, From(keys, p))
<1>7. r.keys = taken /\ Len(r.keys) = n /\ r \in Pieces(stack)
  BY <1>2, <1>4, <1>6 DEF rest
<1>8. r.keys \o From(keys, p + Len(r.keys)) = rest
  <2> HIDE DEF r
  <2> QED BY <1>5, <1>7
<1> QED BY <1>1, <1>3, <1>7, <1>8 DEF rest

\* What a step of a flush leaves for the rest of it.
AfterReplay(stack, keys, p) == p + Len(Replay(stack, From(keys, p)).keys)

\* flush_dispatch replays pieces that are together what it was given.
LEMMA FlushFacts ==
    ASSUME NEW stack, NEW keys \in Seq(KeyStrokes)
    PROVE  /\ flush_dispatch(stack, keys) \in Seq(Pieces(stack))
           /\ Spelt(flush_dispatch(stack, keys)) = keys
<1> DEFINE N == Len(keys)
           R(p) == Replay(stack, From(keys, p))
           next(p) == AfterReplay(stack, keys, p)
           E(p, f) == IF p > N THEN <<>> ELSE <<R(p)>> \o f[next(p)]
           Is(f) == f = [p \in 1..(N + 1) |-> E(p, f)]
           F == CHOOSE f : Is(f)
<1>0. N \in Nat
  OBVIOUS
<1>1. flush_dispatch(stack, keys) = F[1]
  BY DEF flush_dispatch, AfterReplay
<1>2. \A p \in 1..N : /\ R(p) \in Pieces(stack)
                      /\ R(p).keys \in Seq(KeyStrokes)
                      /\ next(p) \in (p + 1)..(N + 1)
                      /\ From(keys, p) = R(p).keys \o From(keys, next(p))
  <2> SUFFICES ASSUME NEW p \in 1..N
               PROVE  /\ R(p) \in Pieces(stack)
                      /\ R(p).keys \in Seq(KeyStrokes)
                      /\ next(p) \in (p + 1)..(N + 1)
                      /\ From(keys, p) = R(p).keys \o From(keys, next(p))
    OBVIOUS
  <2>1. /\ R(p) \in Pieces(stack)
        /\ Len(R(p).keys) \in 1..(Len(keys) + 1 - p)
        /\ From(keys, p) = R(p).keys \o From(keys, p + Len(R(p).keys))
    BY ReplayFacts
  <2>2. next(p) = p + Len(R(p).keys)
    BY DEF AfterReplay
  <2>3. \A r \in Pieces(stack) : r.keys \in Seq(KeyStrokes)
    BY DEF Pieces
  <2> HIDE DEF R, next
  <2> QED BY <1>0, <2>1, <2>2, <2>3
<1> HIDE DEF N, R, next
<1>3. \A k \in Nat : k <= N =>
         \E f : \A p \in (N + 1 - k)..(N + 1) : f[p] = E(p, f)
  <2> DEFINE T == {k \in Nat : k <= N =>
                      \E f : \A p \in (N + 1 - k)..(N + 1) : f[p] = E(p, f)}
  <2>1. 0 \in T
    <3> DEFINE g == [p \in 1..(N + 1) |-> <<>>]
    <3>1. \A p \in (N + 1 - 0)..(N + 1) : p = N + 1 /\ g[p] = <<>> /\ E(p, g) = <<>>
      BY <1>0
    <3> QED BY <3>1
  <2>2. ASSUME NEW k \in Nat, k \in T PROVE k + 1 \in T
    <3> SUFFICES ASSUME k + 1 <= N
                 PROVE  \E f : \A p \in (N + 1 - (k + 1))..(N + 1) : f[p] = E(p, f)
      OBVIOUS
    <3>1. PICK f : \A p \in (N + 1 - k)..(N + 1) : f[p] = E(p, f)
      BY <1>0, <2>2
    <3> DEFINE g == [p \in 1..(N + 1) |-> IF p = N - k THEN E(N - k, f) ELSE f[p]]
    <3>2. ASSUME NEW p \in (N - k)..(N + 1) PROVE g[p] = E(p, g)
      <4>1. p \in 1..(N + 1) /\ N - k \in 1..N
        BY <1>0
      <4>2. E(p, g) = E(p, f)
        <5>1. CASE p > N
          BY <5>1
        <5>2. CASE p <= N
          <6>1. next(p) \in (p + 1)..(N + 1)
            BY <1>2, <4>1, <5>2
          <6>2. next(p) \in 1..(N + 1) /\ next(p) # N - k
            BY <1>0, <4>1, <6>1
          <6> QED BY <6>2
        <5> QED BY <1>0, <5>1, <5>2
      <4> HIDE DEF E
      <4>3. CASE p = N - k
        BY <4>1, <4>2, <4>3
      <4>4. CASE p # N - k
        BY <1>0, <3>1, <4>1, <4>2, <4>4
      <4> QED BY <4>3, <4>4
    <3>3. N + 1 - (k + 1) = N - k
      BY <1>0
    <3> HIDE DEF g, E
    <3> QED BY <3>2, <3>3
  <2> HIDE DEF T, E
  <2>3. \A k \in Nat : k \in T
    BY <2>1, <2>2, SetInduction
  <2> QED BY <2>3 DEF T
<1>4. \E f : Is(f)
  <2>1. PICK f : \A p \in 1..(N + 1) : f[p] = E(p, f)
    <3>1. N <= N /\ N + 1 - N = 1
      BY <1>0
    <3> HIDE DEF E
    <3> QED BY <1>0, <1>3, <3>1
  <2> DEFINE g == [p \in 1..(N + 1) |-> E(p, f)]
  <2>2. \A p \in 1..(N + 1) : E(p, g) = E(p, f)
    BY <1>0, <1>2, <2>1
  <2>3. g = [p \in 1..(N + 1) |-> E(p, g)]
    <3> HIDE DEF E
    <3> QED BY <2>2
  <2> QED BY <2>3
<1>5. \A p \in 1..(N + 1) : F[p] = E(p, F)
  <2>1. Is(F)
    BY <1>4
  <2>2. \A f : Is(f) => \A p \in 1..(N + 1) : f[p] = E(p, f)
    <3> HIDE DEF E
    <3> QED OBVIOUS
  <2> HIDE DEF F, Is
  <2> QED BY <2>1, <2>2
<1> HIDE DEF F
<1> DEFINE Good(p) == F[p] \in Seq(Pieces(stack)) /\ Spelt(F[p]) = From(keys, p)
           T == {k \in Nat : k <= N => \A p \in (N + 1 - k)..(N + 1) : Good(p)}
<1>6. /\ Spelt(<<>>) = <<>>
      /\ \A r \in Pieces(stack) : Spelt(<<r>>) = r.keys
      /\ \A s, t \in Seq(Pieces(stack)) : Spelt(s \o t) = Spelt(s) \o Spelt(t)
  <2>1. \A r \in Pieces(stack) : r.keys \in Seq(KeyStrokes)
    BY DEF Pieces
  <2> QED BY <2>1, SpeltFacts
<1>7. 0 \in T
  <2>1. Good(N + 1)
    <3>0. N + 1 \in 1..(N + 1) /\ N + 1 > N
      BY <1>0
    <3>1. F[N + 1] = <<>>
      <4>1. F[N + 1] = E(N + 1, F)
        <5> HIDE DEF E
        <5> QED BY <1>5, <3>0
      <4> QED BY <3>0, <4>1
    <3>2. From(keys, N + 1) = <<>>
      BY <1>0, SubSeqEmpty DEF From, N
    <3> QED BY <1>6, <3>1, <3>2
  <2>2. \A p \in (N + 1 - 0)..(N + 1) : p = N + 1
    BY <1>0
  <2> QED BY <2>1, <2>2
<1>8. ASSUME NEW k \in Nat, k \in T PROVE k + 1 \in T
  <2> SUFFICES ASSUME k + 1 <= N, NEW p \in (N + 1 - (k + 1))..(N + 1) PROVE Good(p)
    OBVIOUS
  <2>0. \A q \in (N + 1 - k)..(N + 1) : Good(q)
    BY <1>0, <1>8
  <2>1. CASE p \in (N + 1 - k)..(N + 1)
    <3> HIDE DEF Good
    <3> QED BY <2>0, <2>1
  <2>2. CASE p = N - k
    <3>1. p \in 1..N /\ p \in 1..(N + 1) /\ ~(p > N)
      BY <1>0, <2>2
    <3>2. next(p) \in (N + 1 - k)..(N + 1)
      BY <1>0, <1>2, <2>2, <3>1
    <3>3. F[next(p)] \in Seq(Pieces(stack)) /\ Spelt(F[next(p)]) = From(keys, next(p))
      BY <2>0, <3>2
    <3>4. F[p] = <<R(p)>> \o F[next(p)]
      BY <1>5, <3>1
    <3>5. <<R(p)>> \in Seq(Pieces(stack))
      <4>1. R(p) \in Pieces(stack)
        BY <1>2, <3>1, Zenon
      <4> QED BY <4>1
    <3>6. F[p] \in Seq(Pieces(stack))
      BY <3>3, <3>4, <3>5, ConcatProperties
    <3>7. Spelt(F[p]) = Spelt(<<R(p)>>) \o Spelt(F[next(p)])
      BY <1>6, <3>3, <3>4, <3>5, Zenon
    <3>8. Spelt(<<R(p)>>) = R(p).keys
      BY <1>2, <1>6, <3>1, Zenon
    <3>9. Spelt(F[p]) = From(keys, p)
      BY <1>2, <3>1, <3>3, <3>7, <3>8
    <3> QED BY <3>6, <3>9
  <2> QED BY <1>0, <2>1, <2>2
<1>9. \A p \in 1..(N + 1) : Good(p)
  <2>1. N \in T
    <3> HIDE DEF T
    <3> QED BY <1>0, <1>7, <1>8, SetInduction
  <2>2. N + 1 - N = 1
    BY <1>0
  <2> HIDE DEF Good
  <2> QED BY <1>0, <2>1, <2>2
<1>10. From(keys, 1) = keys
  BY SubSeqFull DEF From
<1>11. Good(1)
  <2> HIDE DEF Good
  <2> QED BY <1>0, <1>9
<1> QED BY <1>1, <1>10, <1>11

\* What dispatch_key makes of some keystrokes, the new one last: it replays
\* pieces; the rest is pending, or is what the new keystroke runs.
Dispatched(stack, result, keys, keystroke) ==
    /\ result = [pending |-> result.pending, pending_has_binding |-> result.pending_has_binding,
                 keys |-> result.keys, bindings |-> result.bindings,
                 to_replay |-> result.to_replay]
    /\ result.pending \in Seq(KeyStrokes)
    /\ result.keys \in Seq(KeyStrokes)
    /\ result.to_replay \in Seq(Pieces(stack))
    /\ Spelt(result.to_replay) \o (result.keys \o result.pending) = keys
    /\ result.pending # <<>> => result.keys = <<>>
    /\ result.pending = <<>> =>
          /\ Len(result.keys) # 0 /\ result.keys[Len(result.keys)] = keystroke
          /\ result.bindings = Found(stack, result.keys)
          /\ Len(result.keys) = 1 \/ result.bindings # <<>>

\* Where it replays no more.
LEMMA SettledFacts ==
    ASSUME NEW stack, NEW rest \in Seq(KeyStrokes), NEW keystroke \in KeyStrokes,
           rest = <<>> \/ ~Fails(bindings_for_input(keymap, stack, Append(rest, keystroke)))
    PROVE  LET tried == Append(rest, keystroke)
           IN Dispatched(stack, Settled(tried, bindings_for_input(keymap, stack, tried)),
                         tried, keystroke)
<1> DEFINE tried == Append(rest, keystroke)
           found == bindings_for_input(keymap, stack, tried)
           result == Settled(tried, found)
<1>1. /\ tried \in Seq(KeyStrokes) /\ tried # <<>> /\ Len(tried) # 0
      /\ tried[Len(tried)] = keystroke
      /\ rest = <<>> => Len(tried) = 1
      /\ tried = <<>> \o (tried \o <<>>) /\ tried = <<>> \o (<<>> \o tried)
  <2>1. /\ tried \in Seq(KeyStrokes) /\ Len(tried) = Len(rest) + 1 /\ Len(rest) \in Nat
        /\ tried[Len(rest) + 1] = keystroke
    BY AppendProperties
  <2> HIDE DEF tried
  <2> QED BY <2>1
<1>2. Found(stack, tried) = found.bindings
  BY DEF Found
<1>3. Spelt(<<>>) = <<>>
  BY DEF Spelt, KeysOf, FlattenSeq
<1>4. rest = <<>> \/ ~Fails(found)
  OBVIOUS
<1>5. <<>> \in Seq(KeyStrokes) /\ <<>> \in Seq(Pieces(stack))
  OBVIOUS
<1> SUFFICES Dispatched(stack, result, tried, keystroke)
  OBVIOUS
<1> HIDE DEF tried, found
<1>6. CASE found.pending
  <2>1. result = [pending |-> tried, pending_has_binding |-> found.bindings # <<>>,
                  keys |-> <<>>, bindings |-> <<>>, to_replay |-> <<>>]
    BY <1>6 DEF Settled
  <2> HIDE DEF result
  <2>2. /\ result.pending = tried /\ result.keys = <<>> /\ result.to_replay = <<>>
        /\ result = [pending |-> result.pending, pending_has_binding |-> result.pending_has_binding,
                     keys |-> result.keys, bindings |-> result.bindings,
                     to_replay |-> result.to_replay]
    BY <2>1
  <2> QED BY <1>1, <1>3, <1>5, <2>2 DEF Dispatched
<1>7. CASE ~found.pending
  <2>1. result = [pending |-> <<>>, pending_has_binding |-> FALSE,
                  keys |-> tried, bindings |-> found.bindings, to_replay |-> <<>>]
    BY <1>7 DEF Settled
  <2> HIDE DEF result
  <2>2. /\ result.pending = <<>> /\ result.keys = tried /\ result.to_replay = <<>>
        /\ result.bindings = found.bindings
        /\ result = [pending |-> result.pending, pending_has_binding |-> result.pending_has_binding,
                     keys |-> result.keys, bindings |-> result.bindings,
                     to_replay |-> result.to_replay]
    BY <2>1
  <2>3. Len(tried) = 1 \/ found.bindings # <<>>
    BY <1>1, <1>4, <1>7 DEF Fails
  <2> QED BY <1>1, <1>2, <1>3, <1>5, <2>2, <2>3 DEF Dispatched
<1> QED BY <1>6, <1>7

\* One more replay in front of it.
LEMMA ReplayedFacts ==
    ASSUME NEW stack, NEW result, NEW keys, NEW keystroke, NEW piece \in Pieces(stack),
           Dispatched(stack, result, keys, keystroke)
    PROVE  Dispatched(stack, [result EXCEPT !.to_replay = <<piece>> \o @],
                      piece.keys \o keys, keystroke)
<1> DEFINE more == [result EXCEPT !.to_replay = <<piece>> \o @]
<1>1. /\ more = [pending |-> result.pending, pending_has_binding |-> result.pending_has_binding,
                 keys |-> result.keys, bindings |-> result.bindings,
                 to_replay |-> <<piece>> \o result.to_replay]
  <2> DEFINE v == <<piece>> \o result.to_replay
  <2>1. more = [result EXCEPT !.to_replay = v]
    OBVIOUS
  <2> HIDE DEF v, more
  <2>2. PICK a, b, c, d, e : result = [pending |-> a, pending_has_binding |-> b, keys |-> c,
                                       bindings |-> d, to_replay |-> e]
    BY DEF Dispatched
  <2>3. more = [pending |-> a, pending_has_binding |-> b, keys |-> c,
                bindings |-> d, to_replay |-> v]
    BY <2>1, <2>2
  <2>4. /\ result.pending = a /\ result.pending_has_binding = b /\ result.keys = c
        /\ result.bindings = d
    BY <2>2
  <2> QED BY <2>3, <2>4 DEF v
<1> HIDE DEF more
<1>2. /\ more = [pending |-> more.pending, pending_has_binding |-> more.pending_has_binding,
                 keys |-> more.keys, bindings |-> more.bindings, to_replay |-> more.to_replay]
      /\ more.pending = result.pending /\ more.keys = result.keys
      /\ more.bindings = result.bindings /\ more.to_replay = <<piece>> \o result.to_replay
  BY <1>1
<1>3. \A r \in Pieces(stack) : r.keys \in Seq(KeyStrokes)
  BY DEF Pieces
<1>4. /\ <<piece>> \in Seq(Pieces(stack)) /\ result.to_replay \in Seq(Pieces(stack))
      /\ <<piece>> \o result.to_replay \in Seq(Pieces(stack))
  BY DEF Dispatched
<1>5. /\ Spelt(<<piece>> \o result.to_replay) = Spelt(<<piece>>) \o Spelt(result.to_replay)
      /\ Spelt(<<piece>>) = piece.keys
      /\ Spelt(result.to_replay) \in Seq(KeyStrokes)
  <2>1. /\ \A r \in Pieces(stack) : Spelt(<<r>>) = r.keys
        /\ \A s \in Seq(Pieces(stack)) : Spelt(s) \in Seq(KeyStrokes)
        /\ \A s, t \in Seq(Pieces(stack)) : Spelt(s \o t) = Spelt(s) \o Spelt(t)
    BY <1>3, SpeltFacts
  <2> QED BY <1>4, <2>1, Zenon
<1>6. Spelt(more.to_replay) \o (more.keys \o more.pending) = piece.keys \o keys
  <2> DEFINE a == piece.keys
             b == Spelt(result.to_replay)
             c == result.keys \o result.pending
  <2>1. a \in Seq(KeyStrokes) /\ b \in Seq(KeyStrokes) /\ c \in Seq(KeyStrokes)
    BY <1>3, <1>5 DEF Dispatched
  <2>2. b \o c = keys
    BY DEF Dispatched
  <2>3. Spelt(more.to_replay) \o (more.keys \o more.pending) = (a \o b) \o c
    BY <1>2, <1>5, Zenon
  <2> HIDE DEF a, b, c
  <2>4. (a \o b) \o c = a \o (b \o c)
    BY <2>1, ConcatAssociative
  <2> QED BY <2>2, <2>3, <2>4 DEF a
<1>7. Dispatched(stack, more, piece.keys \o keys, keystroke)
  BY <1>2, <1>4, <1>6 DEF Dispatched
<1> QED BY <1>7 DEF more

\* dispatch_key loses none of the keystrokes it is given and asks the keymap
\* about whatever it does not keep pending.
LEMMA DispatchFacts ==
    ASSUME NEW stack, NEW keys \in Seq(KeyStrokes), NEW keystroke \in KeyStrokes
    PROVE  Dispatched(stack, dispatch_key(stack, keys, keystroke), Append(keys, keystroke),
                      keystroke)
<1> DEFINE N == Len(keys)
           R(p) == Replay(stack, From(keys, p))
           next(p) == AfterReplay(stack, keys, p)
           tried(p) == Append(From(keys, p), keystroke)
           found(p) == bindings_for_input(keymap, stack, tried(p))
           E(p, f) == IF p <= N /\ Fails(found(p))
                      THEN [f[next(p)] EXCEPT !.to_replay = <<R(p)>> \o @]
                      ELSE Settled(tried(p), found(p))
           Is(f) == f = [p \in 1..(N + 1) |-> E(p, f)]
           F == CHOOSE f : Is(f)
<1>0. N \in Nat
  OBVIOUS
<1>1. dispatch_key(stack, keys, keystroke) = F[1]
  BY DEF dispatch_key, AfterReplay
<1>2. \A p \in 1..N : /\ R(p) \in Pieces(stack)
                      /\ R(p).keys \in Seq(KeyStrokes)
                      /\ next(p) \in (p + 1)..(N + 1)
                      /\ From(keys, p) = R(p).keys \o From(keys, next(p))
  <2> SUFFICES ASSUME NEW p \in 1..N
               PROVE  /\ R(p) \in Pieces(stack)
                      /\ R(p).keys \in Seq(KeyStrokes)
                      /\ next(p) \in (p + 1)..(N + 1)
                      /\ From(keys, p) = R(p).keys \o From(keys, next(p))
    OBVIOUS
  <2>1. /\ R(p) \in Pieces(stack)
        /\ Len(R(p).keys) \in 1..(Len(keys) + 1 - p)
        /\ From(keys, p) = R(p).keys \o From(keys, p + Len(R(p).keys))
    BY ReplayFacts
  <2>2. next(p) = p + Len(R(p).keys)
    BY DEF AfterReplay
  <2>3. \A r \in Pieces(stack) : r.keys \in Seq(KeyStrokes)
    BY DEF Pieces
  <2> HIDE DEF R, next
  <2> QED BY <1>0, <2>1, <2>2, <2>3
<1>f. \A p \in 1..(N + 1) : From(keys, p) \in Seq(KeyStrokes) /\ (p = N + 1 => From(keys, p) = <<>>)
  BY SubSeqProperties, SubSeqEmpty DEF From
<1> HIDE DEF N, R, next, tried, found
<1>3. \A k \in Nat : k <= N =>
         \E f : \A p \in (N + 1 - k)..(N + 1) : f[p] = E(p, f)
  <2> DEFINE T == {k \in Nat : k <= N =>
                      \E f : \A p \in (N + 1 - k)..(N + 1) : f[p] = E(p, f)}
  <2>1. 0 \in T
    <3> DEFINE g == [p \in 1..(N + 1) |-> E(p, <<>>)]
    <3>1. \A p \in (N + 1 - 0)..(N + 1) : /\ p = N + 1 /\ p \in 1..(N + 1) /\ ~(p <= N)
      BY <1>0
    <3>2. \A p \in (N + 1 - 0)..(N + 1) : E(p, g) = E(p, <<>>)
      BY <3>1
    <3>3. \A p \in (N + 1 - 0)..(N + 1) : g[p] = E(p, <<>>)
      <4> HIDE DEF E
      <4> QED BY <3>1
    <3> HIDE DEF g, E
    <3> QED BY <3>2, <3>3
  <2>2. ASSUME NEW k \in Nat, k \in T PROVE k + 1 \in T
    <3> SUFFICES ASSUME k + 1 <= N
                 PROVE  \E f : \A p \in (N + 1 - (k + 1))..(N + 1) : f[p] = E(p, f)
      <4> HIDE DEF E
      <4> QED OBVIOUS
    <3>1. PICK f : \A p \in (N + 1 - k)..(N + 1) : f[p] = E(p, f)
      <4> HIDE DEF E
      <4> QED BY <1>0, <2>2
    <3> DEFINE g == [p \in 1..(N + 1) |-> IF p = N - k THEN E(N - k, f) ELSE f[p]]
    <3>2. ASSUME NEW p \in (N - k)..(N + 1) PROVE g[p] = E(p, g)
      <4>1. p \in 1..(N + 1) /\ N - k \in 1..N
        BY <1>0
      <4>2. E(p, g) = E(p, f)
        <5>1. CASE ~(p <= N)
          BY <5>1
        <5>2. CASE p <= N
          <6>1. next(p) \in (p + 1)..(N + 1)
            BY <1>2, <4>1, <5>2
          <6>2. next(p) \in 1..(N + 1) /\ next(p) # N - k
            BY <1>0, <4>1, <6>1
          <6> QED BY <6>2
        <5> QED BY <1>0, <5>1, <5>2
      <4> HIDE DEF E
      <4>3. CASE p = N - k
        BY <4>1, <4>2, <4>3
      <4>4. CASE p # N - k
        BY <1>0, <3>1, <4>1, <4>2, <4>4
      <4> QED BY <4>3, <4>4
    <3>3. N + 1 - (k + 1) = N - k
      BY <1>0
    <3> HIDE DEF g, E
    <3> QED BY <3>2, <3>3
  <2> HIDE DEF T, E
  <2>3. \A k \in Nat : k \in T
    BY <2>1, <2>2, SetInduction
  <2> QED BY <2>3 DEF T
<1>4. \E f : Is(f)
  <2>1. PICK f : \A p \in 1..(N + 1) : f[p] = E(p, f)
    <3>1. N <= N /\ N + 1 - N = 1
      BY <1>0
    <3> HIDE DEF E
    <3> QED BY <1>0, <1>3, <3>1
  <2> DEFINE g == [p \in 1..(N + 1) |-> E(p, f)]
  <2>a. \A p \in 1..(N + 1) : g[p] = f[p]
    <3> HIDE DEF E
    <3> QED BY <2>1
  <2>b. \A p \in 1..N : next(p) \in 1..(N + 1)
    BY <1>0, <1>2
  <2> HIDE DEF g
  <2>2. \A p \in 1..(N + 1) : E(p, g) = E(p, f)
    <3> SUFFICES ASSUME NEW p \in 1..(N + 1) PROVE E(p, g) = E(p, f)
      <4> HIDE DEF E
      <4> QED OBVIOUS
    <3>1. CASE p <= N
      <4>1. g[next(p)] = f[next(p)]
        BY <1>0, <2>a, <2>b, <3>1
      <4> QED BY <4>1, Zenon
    <3>2. CASE ~(p <= N)
      BY <3>2
    <3> QED BY <3>1, <3>2
  <2> USE DEF g
  <2>3. g = [p \in 1..(N + 1) |-> E(p, g)]
    <3> HIDE DEF E
    <3> QED BY <2>2
  <2> QED BY <2>3
<1>5. \A p \in 1..(N + 1) : F[p] = E(p, F)
  <2>1. Is(F)
    BY <1>4
  <2>2. \A f : Is(f) => \A p \in 1..(N + 1) : f[p] = E(p, f)
    <3> HIDE DEF E
    <3> QED OBVIOUS
  <2> HIDE DEF F, Is
  <2> QED BY <2>1, <2>2
<1> HIDE DEF F
<1> DEFINE Good(p) == Dispatched(stack, F[p], tried(p), keystroke)
           T == {k \in Nat : k <= N => \A p \in (N + 1 - k)..(N + 1) : Good(p)}
<1>6. ASSUME NEW p \in 1..(N + 1), ~(p <= N /\ Fails(found(p))) PROVE Good(p)
  <2>1. F[p] = Settled(tried(p), found(p))
    BY <1>5, <1>6
  <2>2. From(keys, p) = <<>> \/ ~Fails(found(p))
    BY <1>0, <1>f, <1>6
  <2>3. From(keys, p) \in Seq(KeyStrokes)
    BY <1>f
  <2>4. Dispatched(stack, Settled(tried(p), found(p)), tried(p), keystroke)
    BY <2>2, <2>3, SettledFacts DEF tried, found
  <2> QED BY <2>1, <2>4
<1>7. 0 \in T
  <2>1. \A p \in (N + 1 - 0)..(N + 1) : p \in 1..(N + 1) /\ ~(p <= N)
    BY <1>0
  <2> HIDE DEF Good
  <2> QED BY <1>6, <2>1
<1>8. ASSUME NEW k \in Nat, k \in T PROVE k + 1 \in T
  <2> SUFFICES ASSUME k + 1 <= N, NEW p \in (N + 1 - (k + 1))..(N + 1) PROVE Good(p)
    OBVIOUS
  <2>0. \A q \in (N + 1 - k)..(N + 1) : Good(q)
    BY <1>0, <1>8
  <2>a. p \in 1..(N + 1)
    BY <1>0
  <2>1. CASE p \in (N + 1 - k)..(N + 1)
    <3> HIDE DEF Good
    <3> QED BY <2>0, <2>1
  <2>2. CASE ~(p <= N /\ Fails(found(p)))
    <3> HIDE DEF Good
    <3> QED BY <1>6, <2>2, <2>a
  <2>3. CASE p = N - k /\ p <= N /\ Fails(found(p))
    <3>1. p \in 1..N
      BY <1>0, <2>3
    <3>2. next(p) \in (N + 1 - k)..(N + 1) /\ next(p) \in 1..(N + 1)
      BY <1>0, <1>2, <2>3, <3>1
    <3>3. Dispatched(stack, F[next(p)], tried(next(p)), keystroke)
      BY <2>0, <3>2
    <3>4. F[p] = [F[next(p)] EXCEPT !.to_replay = <<R(p)>> \o @]
      BY <1>5, <2>3, <2>a
    <3>5. R(p) \in Pieces(stack) /\ From(keys, p) = R(p).keys \o From(keys, next(p))
          /\ R(p).keys \in Seq(KeyStrokes)
      BY <1>2, <3>1
    <3>6. tried(p) = R(p).keys \o tried(next(p))
      <4> DEFINE a == R(p).keys
                 b == From(keys, next(p))
      <4>1. a \in Seq(KeyStrokes) /\ b \in Seq(KeyStrokes)
        BY <1>f, <3>2, <3>5
      <4>2. tried(p) = Append(a \o b, keystroke) /\ tried(next(p)) = Append(b, keystroke)
        BY <3>5 DEF tried
      <4> HIDE DEF a, b
      <4>c. <<keystroke>> \in Seq(KeyStrokes) /\ a \o b \in Seq(KeyStrokes)
        BY <4>1
      <4>3. Append(a \o b, keystroke) = a \o Append(b, keystroke)
        <5>1. Append(a \o b, keystroke) = (a \o b) \o <<keystroke>>
          BY <4>c, AppendIsConcat
        <5>2. Append(b, keystroke) = b \o <<keystroke>>
          BY <4>1, AppendIsConcat
        <5>3. (a \o b) \o <<keystroke>> = a \o (b \o <<keystroke>>)
          BY <4>1, <4>c, ConcatAssociative
        <5> QED BY <5>1, <5>2, <5>3, Zenon
      <4> QED BY <4>2, <4>3 DEF a
    <3>7. Dispatched(stack, [F[next(p)] EXCEPT !.to_replay = <<R(p)>> \o @],
                     R(p).keys \o tried(next(p)), keystroke)
      BY <3>3, <3>5, ReplayedFacts, Zenon
    <3> QED BY <3>4, <3>6, <3>7, Zenon
  <2> QED BY <1>0, <2>1, <2>2, <2>3
<1>9. \A p \in 1..(N + 1) : Good(p)
  <2>1. N \in T
    <3> HIDE DEF T
    <3> QED BY <1>0, <1>7, <1>8, SetInduction
  <2>2. N + 1 - N = 1
    BY <1>0
  <2> HIDE DEF Good
  <2> QED BY <1>0, <2>1, <2>2
<1>10. From(keys, 1) = keys
  BY SubSeqFull DEF From
<1>11. Good(1)
  <2> HIDE DEF Good
  <2> QED BY <1>0, <1>9
<1> QED BY <1>1, <1>10, <1>11 DEF tried

-----------------------------------------------------------------------------
(***************************************************************************)
(* A step of the window.                                                   *)
(***************************************************************************)

\* What NoBindingSkipped says of one outcome.
Accounted(o) ==
    o.as \in {"event", "text"} =>
        LET bindings == Found(ContextStack[o.at], o.keys)
        IN /\ o.keystroke = Last(o.keys)
           /\ Len(o.keys) > 1 => bindings # <<>>
           /\ o.as = "event" => Taken(keymap, o.at, bindings) = 0

Outcomes ==
    {o \in [keys : Seq(KeyStrokes), keystroke : KeyStrokes, at : {focus, NoFocus},
            as : {"event", "text", "action", "dropped"}] :
        Accounted(o)}

\* A keystroke is the last of some.
LEMMA LastFacts ==
    ASSUME NEW keys \in Seq(KeyStrokes), keys # <<>>
    PROVE  Last(keys) \in KeyStrokes
  BY DEF Last

\* What such outcomes spell.
LEMMA SpeltOutcomes ==
    /\ Spelt(<<>>) = <<>>
    /\ \A o \in Outcomes : Spelt(<<o>>) = o.keys
    /\ \A s \in Seq(Outcomes) : Spelt(s) \in Seq(KeyStrokes)
    /\ \A s, t \in Seq(Outcomes) : Spelt(s \o t) = Spelt(s) \o Spelt(t)
<1>1. \A o \in Outcomes : o.keys \in Seq(KeyStrokes)
  BY DEF Outcomes
<1> QED BY <1>1, SpeltFacts

\* One keystroke is not none, and not several.
LEMMA OneKeystroke ==
    \A keys \in Seq(KeyStrokes) : Len(keys) = 1 => keys # <<>> /\ ~(Len(keys) > 1)
<1> TAKE keys \in Seq(KeyStrokes)
<1>1. Len(keys) \in Nat
  OBVIOUS
<1>2. Len(keys) = 1 => ~(Len(keys) > 1)
  <2> DEFINE n == Len(keys)
  <2> HIDE DEF n
  <2> QED BY <1>1 DEF n
<1>3. Len(<<>>) # 1
  OBVIOUS
<1> QED BY <1>2, <1>3, Zenon

\* The outcome of a piece that was looked up for the focused element.
LEMMA OutcomeFacts ==
    ASSUME NEW keys \in Seq(KeyStrokes), keys # <<>>, NEW bindings, NEW skip \in BOOLEAN,
           ~skip => bindings = Found(ContextStack[focus], keys),
           Len(keys) = 1 \/ Found(ContextStack[focus], keys) # <<>>
    PROVE  LET o == Outcome(focus, Last(keys), keys, bindings, skip)
           IN o \in Outcomes /\ o.keys = keys
<1> DEFINE o == Outcome(focus, Last(keys), keys, bindings, skip)
           how == CASE Taken(keymap, focus, bindings) # 0 -> "action"
                    [] Taken(keymap, focus, bindings) = 0 /\ skip -> "text"
                    [] OTHER -> "event"
<1>1. /\ how \in {"event", "text", "action"}
      /\ how = "event" => Taken(keymap, focus, bindings) = 0 /\ ~skip
  <2>1. CASE Taken(keymap, focus, bindings) # 0
    BY <2>1
  <2>2. CASE Taken(keymap, focus, bindings) = 0 /\ skip
    BY <2>2
  <2>3. CASE Taken(keymap, focus, bindings) = 0 /\ ~skip
    BY <2>3
  <2> QED BY <2>1, <2>2, <2>3
<1>2. o = [keys |-> keys, keystroke |-> Last(keys), at |-> focus, as |-> how]
  BY DEF Outcome
<1>3. Last(keys) \in KeyStrokes
  BY LastFacts
<1> HIDE DEF o, how
<1>4. o.keys = keys /\ o.keystroke = Last(keys) /\ o.at = focus /\ o.as = how
  BY <1>2
<1>5. o \in [keys : Seq(KeyStrokes), keystroke : KeyStrokes, at : {focus, NoFocus},
             as : {"event", "text", "action", "dropped"}]
  BY <1>1, <1>2, <1>3
<1>6. Accounted(o)
  <2>1. Len(keys) > 1 => Found(ContextStack[focus], keys) # <<>>
    BY OneKeystroke, Zenon
  <2>2. how = "event" => Taken(keymap, focus, Found(ContextStack[focus], keys)) = 0
    BY <1>1, Zenon
  <2> QED BY <1>4, <2>1, <2>2, Zenon DEF Accounted
<1> QED BY <1>4, <1>5, <1>6 DEF Outcomes, o

\* replay_pending_input accounts for what it replays.
LEMMA ReplaysAccounted ==
    ASSUME NEW replays \in Seq(Pieces(ContextStack[focus]))
    PROVE  LET o == replay_pending_input(focus, replays).out
           IN o \in Seq(Outcomes) /\ Spelt(o) = Spelt(replays)
<1> DEFINE o == replay_pending_input(focus, replays).out
           V(r) == Outcome(focus, replays[r].keystroke, replays[r].keys,
                           replays[r].bindings, FALSE)
<1>1. o = [r \in DOMAIN replays |-> V(r)]
  BY DEF replay_pending_input
<1>2. DOMAIN replays = 1..Len(replays) /\ Len(replays) \in Nat
  OBVIOUS
<1>3. ASSUME NEW r \in DOMAIN replays PROVE V(r) \in Outcomes /\ V(r).keys = replays[r].keys
  <2>1. replays[r] \in Pieces(ContextStack[focus])
    BY <1>3
  <2>2. /\ replays[r].keys \in Seq(KeyStrokes) /\ replays[r].keys # <<>>
        /\ replays[r].keystroke = Last(replays[r].keys)
        /\ replays[r].bindings = Found(ContextStack[focus], replays[r].keys)
        /\ Len(replays[r].keys) = 1 \/ replays[r].bindings # <<>>
    <3>1. PICK keys \in {k \in Seq(KeyStrokes) :
                            Len(k) = 1 \/ (k # <<>> /\ Found(ContextStack[focus], k) # <<>>)} :
             replays[r] = [keystroke |-> Last(keys), keys |-> keys,
                           bindings |-> Found(ContextStack[focus], keys)]
      BY <2>1, Zenon DEF Pieces
    <3>2. /\ replays[r].keys = keys /\ replays[r].keystroke = Last(keys)
          /\ replays[r].bindings = Found(ContextStack[focus], keys)
      BY <3>1
    <3>3. Len(keys) = 1 => keys # <<>>
      BY OneKeystroke, Zenon
    <3> QED BY <3>1, <3>2, <3>3, Zenon
  <2> QED BY <2>2, OutcomeFacts
<1> HIDE DEF o, V
<1>4. o \in Seq(Outcomes)
  BY <1>1, <1>2, <1>3
<1>5. KeysOf(o) = KeysOf(replays)
  BY <1>1, <1>3 DEF KeysOf
<1> QED BY <1>4, <1>5 DEF o, Spelt

\* Keystrokes that are dropped are accounted for.
LEMMA DroppedAccounted ==
    ASSUME NEW keys \in Seq(KeyStrokes)
    PROVE  Dropped(keys) \in Seq(Outcomes) /\ Spelt(Dropped(keys)) = keys
<1> DEFINE o == [keys |-> keys, keystroke |-> Last(keys), at |-> NoFocus, as |-> "dropped"]
<1>2. CASE keys = <<>>
  BY <1>2, SpeltOutcomes DEF Dropped
<1>3. CASE keys # <<>>
  <2>1. Dropped(keys) = <<o>>
    BY <1>3 DEF Dropped
  <2>2. o \in Outcomes /\ o.keys = keys
    BY <1>3, LastFacts DEF Outcomes, Accounted
  <2> HIDE DEF o
  <2>3. <<o>> \in Seq(Outcomes)
    BY <2>2
  <2> QED BY <2>1, <2>2, <2>3, SpeltOutcomes
<1> QED BY <1>2, <1>3

(***************************************************************************)
(* The invariant.  A timer belongs to the pending input of its generation, *)
(* and to no other: a generation is used once.  Input under a focus that   *)
(* was lost remembers an element, which is not focused any more.           *)
(***************************************************************************)

KeyTypes ==
    /\ pending.keys \in Seq(KeyStrokes)
    /\ count \in Nat
    /\ modifiers \in SUBSET Modifiers

GenerationsFit ==
    /\ pending.generation \in 0..count
    /\ pending.needs_timeout \/ pending.generation = 0
    /\ \A t \in timers : t.generation \in 1..count /\ (Current(t) => t.keys = pending.keys)

\* Pending input that must not wait for ever has its timer running.
WaitIsTimed ==
    pending.keys # <<>> /\ pending.needs_timeout =>
        \E t \in timers : t.generation = pending.generation

FocusFits ==
    /\ leftover => pending.keys # <<>>
    /\ pending.keys # <<>> =>
          IF leftover THEN focus = NoFocus /\ pending.focus # NoFocus ELSE pending.focus = focus

KeyInv == KeyTypes /\ GenerationsFit /\ WaitIsTimed /\ FocusFits /\ NoBindingSkipped

\* What every step does: its outcomes are accounted for, and they are, with
\* what stays pending, the keystrokes that were pending and the new one.
StepAccounted ==
    /\ out' \in Seq(Outcomes)
    /\ Spelt(out') \o pending'.keys = pending.keys \o input'

DropsLeftover ==
    leftover /\ pending' # pending
      => out' # <<>> /\ out'[1].as = "dropped" /\ out'[1].keys = pending.keys

\* The pending input that is not carried on is accounted for.
LEMMA CarriedFacts ==
    ASSUME KeyInv
    PROVE  LET gone == Dropped(SubSeq(pending.keys, 1, Len(pending.keys) - Len(Carried.keys)))
           IN /\ Carried.keys \in Seq(KeyStrokes)
              /\ gone \in Seq(Outcomes)
              /\ Spelt(gone) \o Carried.keys = pending.keys
              /\ leftover => gone # <<>> /\ gone[1].as = "dropped" /\ gone[1].keys = pending.keys
              /\ Carried.generation \in 0..count
              /\ Carried.needs_timeout \/ Carried.generation = 0
<1> DEFINE keys == pending.keys
           lost == SubSeq(keys, 1, Len(keys) - Len(Carried.keys))
<1>0. keys \in Seq(KeyStrokes) /\ Len(keys) \in Nat
  BY DEF KeyInv, KeyTypes
<1>1. CASE pending.focus # NoFocus /\ pending.focus # focus
  <2>1. Carried = DefaultPending
    BY <1>1 DEF Carried
  <2>2. Carried.keys = <<>> /\ Carried.generation = 0
    BY <2>1 DEF DefaultPending
  <2>3. lost = keys
    <3>1. Len(keys) - Len(Carried.keys) = Len(keys)
      BY <1>0, <2>2
    <3> QED BY <1>0, <3>1, SubSeqFull
  <2>4. Dropped(keys) \in Seq(Outcomes) /\ Spelt(Dropped(keys)) = keys
    BY <1>0, DroppedAccounted
  <2>5. keys \o <<>> = keys /\ <<>> \in Seq(KeyStrokes) /\ 0 \in 0..count
    BY <1>0 DEF KeyInv, KeyTypes
  <2>6. leftover => /\ Dropped(keys) # <<>> /\ Dropped(keys)[1].as = "dropped"
                    /\ Dropped(keys)[1].keys = keys
    <3>1. leftover => keys # <<>>
      BY DEF KeyInv, FocusFits
    <3> HIDE DEF keys
    <3> QED BY <3>1 DEF Dropped
  <2> HIDE DEF keys
  <2>7. lost = keys /\ Spelt(Dropped(lost)) \o Carried.keys = keys
    BY <2>2, <2>3, <2>4, <2>5
  <2> HIDE DEF lost
  <2> QED BY <2>2, <2>4, <2>5, <2>6, <2>7 DEF keys, lost
<1>2. CASE ~(pending.focus # NoFocus /\ pending.focus # focus)
  <2>1. Carried = pending
    BY <1>2 DEF Carried
  <2>2. lost = <<>>
    <3>1. Len(keys) - Len(Carried.keys) = 0
      BY <1>0, <2>1
    <3> HIDE DEF keys
    <3>2. SubSeq(keys, 1, 0) = <<>>
      BY SubSeqEmpty
    <3> QED BY <3>1, <3>2
  <2>3. Dropped(<<>>) = <<>> /\ Spelt(<<>>) = <<>> /\ <<>> \o keys = keys
    BY <1>0, SpeltOutcomes DEF Dropped
  <2>4. ~leftover
    BY <1>2 DEF KeyInv, FocusFits
  <2>5. pending.generation \in 0..count /\ (pending.needs_timeout \/ pending.generation = 0)
    BY DEF KeyInv, GenerationsFit
  <2>6. <<>> \in Seq(Outcomes)
    OBVIOUS
  <2> HIDE DEF lost, keys
  <2>7. Dropped(lost) = <<>> /\ Carried.keys = keys
    BY <2>1, <2>2, <2>3 DEF keys
  <2> QED BY <1>0, <2>1, <2>3, <2>4, <2>5, <2>6, <2>7 DEF lost, keys
<1> QED BY <1>1, <1>2

\* A keystroke, whether it extends what is pending, runs something, or makes
\* a sequence fail.
LEMMA DispatchStep ==
    ASSUME KeyInv, NEW k \in KeyStrokes, DispatchKeystroke(k)
    PROVE  /\ StepAccounted
           /\ DropsLeftover
           /\ pending'.keys \in Seq(KeyStrokes) /\ count' \in Nat
           /\ GenerationsFit' /\ WaitIsTimed' /\ FocusFits'
<1> DEFINE current == Carried
           stack == ContextStack[focus]
           gone == Dropped(SubSeq(pending.keys, 1, Len(pending.keys) - Len(current.keys)))
           result == dispatch_key(stack, current.keys, k)
           replayed == replay_pending_input(focus, result.to_replay)
           needs == NeedsTimeout(current, result, k, focus)
           skip == PrefersCharacter(k, focus)
           bindings == IF skip THEN <<>> ELSE result.bindings
           last == Outcome(focus, k, result.keys, bindings, skip)
<1>a. \A a, b, c \in Seq(KeyStrokes) : (a \o b) \o c = a \o (b \o c)
  BY ConcatAssociative
<1>1. /\ count' = count + 1
      /\ input' = <<k>>
      /\ leftover' = FALSE
      /\ IF result.pending # <<>>
         THEN /\ pending' = [keys |-> result.pending, focus |-> replayed.focus,
                             needs_timeout |-> needs,
                             generation |-> IF needs THEN count' ELSE current.generation]
              /\ timers' = IF needs
                           THEN timers \cup {[generation |-> count', keys |-> result.pending]}
                           ELSE timers
              /\ focus' = replayed.focus
              /\ out' = gone \o replayed.out
         ELSE /\ pending' = DefaultPending
              /\ out' = gone \o replayed.out \o <<last>>
              /\ timers' = timers
  BY Zenon DEF DispatchKeystroke
<1>2. /\ current.keys \in Seq(KeyStrokes)
      /\ gone \in Seq(Outcomes)
      /\ Spelt(gone) \o current.keys = pending.keys
      /\ leftover => gone # <<>> /\ gone[1].as = "dropped" /\ gone[1].keys = pending.keys
      /\ current.generation \in 0..count
      /\ current.needs_timeout \/ current.generation = 0
  BY CarriedFacts
<1> HIDE DEF current, gone
<1>3. Dispatched(stack, result, Append(current.keys, k), k)
  BY <1>2, DispatchFacts
<1> HIDE DEF result
<1>4. replayed.out \in Seq(Outcomes) /\ Spelt(replayed.out) = Spelt(result.to_replay)
  <2>1. result.to_replay \in Seq(Pieces(ContextStack[focus]))
    BY <1>3 DEF Dispatched
  <2> QED BY <2>1, ReplaysAccounted
<1>5. /\ count \in Nat /\ pending.keys \in Seq(KeyStrokes)
      /\ \A t \in timers : t.generation \in 1..count
  BY DEF KeyInv, KeyTypes, GenerationsFit
<1>6. ~needs => ~current.needs_timeout
  BY DEF NeedsTimeout
<1> HIDE DEF replayed, needs, stack
<1>7. /\ Spelt(gone) \in Seq(KeyStrokes) /\ Spelt(replayed.out) \in Seq(KeyStrokes)
      /\ gone \o replayed.out \in Seq(Outcomes)
      /\ Spelt(gone \o replayed.out) = Spelt(gone) \o Spelt(replayed.out)
  <2>1. gone \o replayed.out \in Seq(Outcomes)
    BY <1>2, <1>4, ConcatProperties
  <2> QED BY <1>2, <1>4, <2>1, SpeltOutcomes, Zenon
<1>8. Spelt(gone) \o (Spelt(replayed.out) \o (result.keys \o result.pending)) = pending.keys \o <<k>>
  <2>1. Spelt(replayed.out) \o (result.keys \o result.pending) = Append(current.keys, k)
    BY <1>3, <1>4 DEF Dispatched
  <2>2. Append(current.keys, k) = current.keys \o <<k>> /\ <<k>> \in Seq(KeyStrokes)
    BY <1>2, AppendIsConcat
  <2>3. Spelt(gone) \o (current.keys \o <<k>>) = (Spelt(gone) \o current.keys) \o <<k>>
    BY <1>2, <1>7, <1>a, <2>2, Zenon
  <2> QED BY <1>2, <2>1, <2>2, <2>3
<1>9. result.keys \in Seq(KeyStrokes) /\ result.pending \in Seq(KeyStrokes)
  BY <1>3 DEF Dispatched
<1>10. leftover => /\ (gone \o replayed.out) # <<>> /\ (gone \o replayed.out)[1].as = "dropped"
                   /\ (gone \o replayed.out)[1].keys = pending.keys
  <2> SUFFICES ASSUME leftover
               PROVE  /\ (gone \o replayed.out) # <<>> /\ (gone \o replayed.out)[1].as = "dropped"
                      /\ (gone \o replayed.out)[1].keys = pending.keys
    OBVIOUS
  <2>1. Len(gone) # 0 /\ Len(gone) \in Nat /\ Len(replayed.out) \in Nat
    BY <1>2, <1>4
  <2>2. Len(gone \o replayed.out) = Len(gone) + Len(replayed.out)
    BY <1>2, <1>4, ConcatProperties
  <2>3. (gone \o replayed.out)[1] = gone[1]
    BY <1>2, <1>4, <2>1, <2>2, ConcatProperties
  <2>4. gone \o replayed.out # <<>>
    BY <1>7, <2>1, <2>2
  <2> QED BY <1>2, <2>3, <2>4
<1>11. CASE result.pending # <<>>
  <2>1. /\ pending'.keys = result.pending /\ pending'.focus = focus'
        /\ pending'.needs_timeout = needs
        /\ pending'.generation = IF needs THEN count' ELSE current.generation
        /\ timers' = IF needs THEN timers \cup {[generation |-> count', keys |-> result.pending]}
                     ELSE timers
        /\ out' = gone \o replayed.out
    BY <1>1, <1>11
  <2>2. result.keys = <<>>
    BY <1>3, <1>11 DEF Dispatched
  <2>3. StepAccounted
    <3>1. result.keys \o result.pending = result.pending
      BY <1>9, <2>2
    <3>2. (Spelt(gone) \o Spelt(replayed.out)) \o result.pending
             = Spelt(gone) \o (Spelt(replayed.out) \o result.pending)
      BY <1>7, <1>9, <1>a, Zenon
    <3> QED BY <1>1, <1>7, <1>8, <2>1, <3>1, <3>2 DEF StepAccounted
  <2>4. DropsLeftover
    BY <1>10, <2>1 DEF DropsLeftover
  <2>5. GenerationsFit' /\ WaitIsTimed'
    <3>1. CASE needs
      <4>1. pending'.generation = count + 1 /\ count' = count + 1
        BY <1>1, <2>1, <3>1
      <4>2. timers' = timers \cup {[generation |-> count + 1, keys |-> result.pending]}
        BY <1>1, <2>1, <3>1
      <4>3. \A t \in timers' : /\ t.generation \in 1..count'
                               /\ t.generation = count + 1 => t.keys = result.pending
        BY <1>5, <4>1, <4>2
      <4>4. [generation |-> count + 1, keys |-> result.pending] \in timers'
        BY <4>2
      <4>5. count + 1 \in 0..(count + 1)
        BY <1>5
      <4>6. GenerationsFit'
        BY <2>1, <3>1, <4>1, <4>3, <4>5 DEF GenerationsFit, Current
      <4>7. WaitIsTimed'
        BY <4>1, <4>4 DEF WaitIsTimed
      <4> QED BY <4>6, <4>7
    <3>2. CASE ~needs
      <4>1. pending'.generation = 0 /\ timers' = timers /\ count' = count + 1
        BY <1>1, <1>2, <1>6, <2>1, <3>2
      <4>2. \A t \in timers' : t.generation \in 1..count' /\ t.generation # 0
        BY <1>5, <4>1
      <4> QED BY <1>5, <2>1, <3>2, <4>1, <4>2 DEF GenerationsFit, WaitIsTimed, Current
    <3> QED BY <3>1, <3>2
  <2>6. FocusFits'
    BY <1>1, <2>1 DEF FocusFits
  <2> QED BY <1>1, <1>5, <1>9, <2>1, <2>3, <2>4, <2>5, <2>6
<1>12. CASE result.pending = <<>>
  <2>1. /\ pending'.keys = <<>> /\ pending'.generation = 0
        /\ out' = gone \o replayed.out \o <<last>> /\ timers' = timers
    BY <1>1, <1>12 DEF DefaultPending
  <2>2. last \in Outcomes /\ last.keys = result.keys
    <3>1. Last(result.keys) = k /\ result.keys # <<>>
      BY <1>3, <1>12 DEF Dispatched, Last
    <3>2. /\ ~skip => bindings = Found(ContextStack[focus], result.keys)
          /\ Len(result.keys) = 1 \/ Found(ContextStack[focus], result.keys) # <<>>
      BY <1>3, <1>12 DEF Dispatched, stack
    <3>3. skip \in BOOLEAN
      BY DEF PrefersCharacter
    <3> HIDE DEF bindings, skip
    <3> QED BY <1>9, <3>1, <3>2, <3>3, OutcomeFacts
  <2> HIDE DEF last
  <2>3. StepAccounted
    <3>0. <<last>> \in Seq(Outcomes)
      BY <2>2
    <3>1. out' \in Seq(Outcomes)
      BY <1>7, <2>1, <3>0, ConcatProperties
    <3>2. Spelt(out') = (Spelt(gone) \o Spelt(replayed.out)) \o result.keys
      <4>1. Spelt((gone \o replayed.out) \o <<last>>) = Spelt(gone \o replayed.out) \o Spelt(<<last>>)
        BY <1>7, <3>0, SpeltOutcomes, Zenon
      <4>2. Spelt(<<last>>) = result.keys
        BY <2>2, SpeltOutcomes, Zenon
      <4> QED BY <1>7, <2>1, <4>1, <4>2
    <3>3. result.keys \o result.pending = result.keys
      BY <1>9, <1>12
    <3>4. (Spelt(gone) \o Spelt(replayed.out)) \o result.keys
             = Spelt(gone) \o (Spelt(replayed.out) \o result.keys)
      BY <1>7, <1>9, <1>a, Zenon
    <3>5. Spelt(out') \o <<>> = Spelt(out')
      BY <1>7, <1>9, <3>2
    <3> QED BY <1>1, <1>8, <2>1, <3>1, <3>2, <3>3, <3>4, <3>5 DEF StepAccounted
  <2>4. DropsLeftover
    <3> SUFFICES ASSUME leftover
                 PROVE  out' # <<>> /\ out'[1] = (gone \o replayed.out)[1]
      BY <1>10 DEF DropsLeftover
    <3> DEFINE u == gone \o replayed.out
    <3>1. u \in Seq(Outcomes) /\ u # <<>> /\ out' = u \o <<last>> /\ <<last>> \in Seq(Outcomes)
      BY <1>7, <1>10, <2>1, <2>2
    <3> HIDE DEF u
    <3> QED BY <3>1 DEF u
  <2>5. GenerationsFit' /\ WaitIsTimed' /\ FocusFits'
    <3>1. \A t \in timers' : t.generation \in 1..count'
      BY <1>1, <1>5, <2>1
    <3>2. 0 \in 0..count'
      BY <1>1, <1>5
    <3> QED BY <1>1, <2>1, <3>1, <3>2 DEF GenerationsFit, WaitIsTimed, FocusFits, Current
  <2>6. pending'.keys \in Seq(KeyStrokes)
    BY <2>1
  <2> QED BY <1>1, <1>5, <2>3, <2>4, <2>5, <2>6
<1> QED BY <1>11, <1>12

\* A step whose outcomes are accounted for skips no binding.
LEMMA NoneSkipped ==
    ASSUME out' \in Seq(Outcomes), UNCHANGED keymap
    PROVE  NoBindingSkipped'
<1>1. ASSUME NEW n \in DOMAIN out' PROVE Accounted(out'[n])
  <2>1. out'[n] \in Outcomes
    OBVIOUS
  <2> QED BY <2>1 DEF Outcomes
<1> QED BY <1>1, Zenon DEF NoBindingSkipped, Accounted, Found

\* A step without a keystroke, and without an effect on the pending input.
LEMMA QuietStep ==
    ASSUME KeyInv, NoKeystroke, UNCHANGED <<keymap, pending, timers>>
    PROVE  /\ StepAccounted /\ DropsLeftover
           /\ GenerationsFit' /\ WaitIsTimed'
           /\ pending'.keys \in Seq(KeyStrokes) /\ count' \in Nat
<1>1. out' = <<>> /\ input' = <<>> /\ count' = count
  BY DEF NoKeystroke, Quiet
<1>2. pending.keys \in Seq(KeyStrokes) /\ count \in Nat
  BY DEF KeyInv, KeyTypes
<1>3. StepAccounted
  <2>1. Spelt(<<>>) \o pending.keys = pending.keys \o <<>>
    BY <1>2, SpeltOutcomes
  <2> QED BY <1>1, <2>1 DEF StepAccounted
<1>4. GenerationsFit' /\ WaitIsTimed'
  BY <1>1 DEF KeyInv, GenerationsFit, WaitIsTimed, Current
<1> QED BY <1>1, <1>2, <1>3, <1>4 DEF DropsLeftover

\* A step that drops the pending input.
LEMMA DropStep ==
    ASSUME KeyInv, Quiet(Dropped(pending.keys)), pending' = DefaultPending, leftover' = FALSE,
           timers' \subseteq timers
    PROVE  /\ StepAccounted /\ DropsLeftover
           /\ GenerationsFit' /\ WaitIsTimed' /\ FocusFits'
           /\ pending'.keys \in Seq(KeyStrokes) /\ count' \in Nat
<1>1. out' = Dropped(pending.keys) /\ input' = <<>> /\ count' = count
  BY DEF Quiet
<1>2. /\ pending.keys \in Seq(KeyStrokes) /\ count \in Nat
      /\ \A t \in timers : t.generation \in 1..count
      /\ leftover => pending.keys # <<>>
  BY DEF KeyInv, KeyTypes, GenerationsFit, FocusFits
<1>3. pending'.keys = <<>> /\ pending'.generation = 0
  BY DEF DefaultPending
<1>4. StepAccounted
  <2>1. out' \in Seq(Outcomes) /\ Spelt(out') = pending.keys
    BY <1>1, <1>2, DroppedAccounted
  <2> QED BY <1>1, <1>3, <2>1 DEF StepAccounted
<1>5. GenerationsFit' /\ WaitIsTimed' /\ FocusFits'
  <2>1. 0 \in 0..count
    BY <1>2
  <2> QED BY <1>1, <1>2, <1>3, <2>1 DEF GenerationsFit, WaitIsTimed, FocusFits, Current
<1>6. DropsLeftover
  BY <1>1, <1>2 DEF DropsLeftover, Dropped
<1> QED BY <1>1, <1>2, <1>3, <1>4, <1>5, <1>6

\* The timeout.
LEMMA TimerStep ==
    ASSUME KeyInv, NEW t \in timers, TimerFires(t)
    PROVE  /\ StepAccounted /\ DropsLeftover
           /\ GenerationsFit' /\ WaitIsTimed' /\ FocusFits'
           /\ pending'.keys \in Seq(KeyStrokes) /\ count' \in Nat
<1> DEFINE keys == pending.keys
           replays == flush_dispatch(ContextStack[focus], keys)
<1>1. /\ keys \in Seq(KeyStrokes) /\ count \in Nat
      /\ \A u \in timers : u.generation \in 1..count
  BY DEF KeyInv, KeyTypes, GenerationsFit
<1>2. timers' = timers \ {t} /\ UNCHANGED keymap
  BY DEF TimerFires
<1>3. CASE Current(t) /\ pending.focus # focus
  BY <1>2, <1>3, DropStep DEF TimerFires
<1>4. CASE Current(t) /\ pending.focus = focus
  <2>1. /\ pending' = DefaultPending /\ leftover' = FALSE /\ input' = <<>> /\ count' = count
        /\ out' = replay_pending_input(focus, replays).out
    BY <1>4 DEF TimerFires, Quiet
  <2>2. replays \in Seq(Pieces(ContextStack[focus])) /\ Spelt(replays) = keys
    BY <1>1, FlushFacts
  <2> HIDE DEF replays
  <2>3. out' \in Seq(Outcomes) /\ Spelt(out') = keys
    BY <2>1, <2>2, ReplaysAccounted
  <2>4. pending'.keys = <<>> /\ pending'.generation = 0
    BY <2>1 DEF DefaultPending
  <2>5. StepAccounted
    BY <2>1, <2>3, <2>4 DEF StepAccounted
  <2>6. ~leftover
    BY <1>4 DEF KeyInv, FocusFits
  <2>7. 0 \in 0..count
    BY <1>1
  <2>8. GenerationsFit' /\ WaitIsTimed' /\ FocusFits'
    BY <1>1, <1>2, <2>1, <2>4, <2>7 DEF GenerationsFit, WaitIsTimed, FocusFits, Current
  <2> QED BY <1>1, <2>1, <2>4, <2>5, <2>6, <2>8 DEF DropsLeftover
<1>5. CASE ~Current(t)
  <2>1. /\ out' = <<>> /\ input' = <<>> /\ count' = count
        /\ UNCHANGED <<focus, pending, leftover>>
    BY <1>5 DEF TimerFires, NoKeystroke, Quiet
  <2>2. StepAccounted
    <3>1. Spelt(<<>>) \o keys = keys \o <<>>
      BY <1>1, SpeltOutcomes
    <3> QED BY <2>1, <3>1 DEF StepAccounted
  <2>3. GenerationsFit' /\ FocusFits'
    BY <1>2, <2>1 DEF KeyInv, GenerationsFit, FocusFits, Current
  <2>4. WaitIsTimed'
    BY <1>2, <1>5, <2>1 DEF KeyInv, WaitIsTimed, Current
  <2> QED BY <1>1, <2>1, <2>2, <2>3, <2>4 DEF DropsLeftover
<1> QED BY <1>3, <1>4, <1>5

\* Every step is accounted for and keeps the invariant.
LEMMA InputStep ==
    ASSUME KeyInv, InputNext
    PROVE  StepAccounted /\ DropsLeftover /\ KeyInv'
<1>0. modifiers \in SUBSET Modifiers
  BY DEF KeyInv, KeyTypes
<1>s. ASSUME StepAccounted, UNCHANGED keymap, pending'.keys \in Seq(KeyStrokes), count' \in Nat,
             modifiers' \in SUBSET Modifiers, GenerationsFit', WaitIsTimed', FocusFits'
      PROVE  KeyInv'
  <2>1. NoBindingSkipped'
    BY <1>s, NoneSkipped DEF StepAccounted
  <2> QED BY <1>s, <2>1 DEF KeyInv, KeyTypes
<1> HIDE DEF KeyInv
<1>1. ASSUME NEW k \in KeyDowns, KeyDown(k) PROVE StepAccounted /\ DropsLeftover /\ KeyInv'
  <2>1. k \in KeyStrokes /\ DispatchKeystroke(k) /\ UNCHANGED <<keymap, modifiers>>
    BY <1>1 DEF KeyDown, KeyStrokes
  <2> QED BY <1>0, <1>s, <2>1, DispatchStep
<1>2. ASSUME KeyDownIntercepted PROVE StepAccounted /\ DropsLeftover /\ KeyInv'
  <2>1. NoKeystroke /\ UNCHANGED <<keymap, focus, pending, timers, modifiers, leftover>>
    BY <1>2 DEF KeyDownIntercepted
  <2>2. FocusFits'
    BY <2>1 DEF KeyInv, FocusFits
  <2> QED BY <1>0, <1>s, <2>1, <2>2, QuietStep
<1>3. ASSUME NEW new \in SUBSET Modifiers, ModifiersChanged(new)
      PROVE  StepAccounted /\ DropsLeftover /\ KeyInv'
  <2>1. modifiers' = new /\ new # modifiers /\ UNCHANGED keymap
    BY <1>3 DEF ModifiersChanged
  <2>2. CASE new = {} /\ ~saw_other_input
    <3> DEFINE m == CHOOSE x \in modifiers : TRUE
    <3>1. m \in KeyStrokes
      BY <1>0, <2>1, <2>2 DEF KeyStrokes
    <3>2. DispatchKeystroke(m)
      BY <1>3, <2>2 DEF ModifiersChanged
    <3> HIDE DEF m
    <3> QED BY <1>s, <2>1, <3>1, <3>2, DispatchStep
  <2>3. CASE ~(new = {} /\ ~saw_other_input)
    <3>1. NoKeystroke /\ UNCHANGED <<focus, pending, timers, leftover>>
      BY <1>3, <2>3 DEF ModifiersChanged
    <3>2. FocusFits'
      BY <3>1 DEF KeyInv, FocusFits
    <3> QED BY <1>s, <2>1, <3>1, <3>2, QuietStep
  <2> QED BY <2>2, <2>3
<1>4. ASSUME NEW e \in Elements, FocusOn(e) PROVE StepAccounted /\ DropsLeftover /\ KeyInv'
  <2>1. /\ Quiet(Dropped(pending.keys)) /\ pending' = DefaultPending /\ leftover' = FALSE
        /\ UNCHANGED <<keymap, timers, modifiers>>
    BY <1>4 DEF FocusOn
  <2> QED BY <1>0, <1>s, <2>1, DropStep
<1>5. ASSUME Blur PROVE StepAccounted /\ DropsLeftover /\ KeyInv'
  <2>1. /\ focus # NoFocus /\ focus' = NoFocus /\ leftover' = (pending.keys # <<>>)
        /\ NoKeystroke /\ UNCHANGED <<keymap, pending, timers, modifiers>>
    BY <1>5 DEF Blur
  <2>2. FocusFits'
    BY <2>1 DEF KeyInv, FocusFits
  <2> QED BY <1>0, <1>s, <2>1, <2>2, QuietStep
<1>6. ASSUME ClearPending PROVE StepAccounted /\ DropsLeftover /\ KeyInv'
  <2>1. /\ Quiet(Dropped(pending.keys)) /\ pending' = DefaultPending /\ leftover' = FALSE
        /\ UNCHANGED <<keymap, timers, modifiers>>
    BY <1>6 DEF ClearPending
  <2> QED BY <1>0, <1>s, <2>1, DropStep
<1>7. ASSUME NEW t \in timers, TimerFires(t) PROVE StepAccounted /\ DropsLeftover /\ KeyInv'
  <2>1. UNCHANGED <<keymap, modifiers>>
    BY <1>7 DEF TimerFires
  <2> QED BY <1>0, <1>7, <1>s, <2>1, TimerStep
<1> QED BY <1>1, <1>2, <1>3, <1>4, <1>5, <1>6, <1>7 DEF InputNext

\* The invariant holds.
LEMMA KeyInvHolds == InputSpec => []KeyInv
<1>1. InputInit => KeyInv
  <2> SUFFICES ASSUME InputInit PROVE KeyInv
    OBVIOUS
  <2>1. /\ pending.keys = <<>> /\ pending.generation = 0 /\ timers = {} /\ modifiers = {}
        /\ count = 0 /\ out = <<>> /\ leftover = FALSE
    BY DEF InputInit, WindowInit, DefaultPending
  <2> QED BY <2>1 DEF KeyInv, KeyTypes, GenerationsFit, WaitIsTimed, FocusFits, NoBindingSkipped
<1>2. KeyInv /\ [InputNext]_inputVars => KeyInv'
  <2> SUFFICES ASSUME KeyInv, [InputNext]_inputVars PROVE KeyInv'
    OBVIOUS
  <2>1. CASE InputNext
    BY <2>1, InputStep
  <2>2. CASE UNCHANGED inputVars
    <3>1. UNCHANGED <<keymap, focus, pending, timers, modifiers, count, out, leftover>>
      BY <2>2 DEF inputVars, windowVars
    <3>2. NoBindingSkipped'
      BY <3>1, Zenon DEF KeyInv, NoBindingSkipped
    <3>3. KeyTypes' /\ GenerationsFit' /\ WaitIsTimed' /\ FocusFits'
      BY <3>1 DEF KeyInv, KeyTypes, GenerationsFit, WaitIsTimed, FocusFits, Current
    <3> QED BY <3>2, <3>3 DEF KeyInv
  <2> QED BY <2>1, <2>2
<1> QED BY <1>1, <1>2, PTL DEF InputSpec

\* For any keymaps, contexts and handlers, and any number of keystrokes: each is
\* taken off the input once and in order; what an event takes is one keystroke
\* that nobody handles, or a chord that is bound and that nobody handles, of
\* which the last is given on and the others are lost (where text goes before
\* bindings, somebody may handle it); input left over from another focus is
\* dropped, and a timeout flushes only what did not change since it was armed.
THEOREM KeysAlwaysAccounted == InputSpec => KeysAreAccounted
<1>1. KeyInv => NoBindingSkipped
  BY DEF KeyInv
<1>2. KeyInv /\ [InputNext]_inputVars
        => [FlattenSeq([n \in DOMAIN out' |-> out'[n].keys]) \o pending'.keys
               = pending.keys \o input']_inputVars
  BY InputStep DEF StepAccounted, Spelt, KeysOf
<1>3. KeyInv /\ [InputNext]_inputVars
        => [leftover /\ pending' # pending
              => out' # <<>> /\ out'[1].as = "dropped" /\ out'[1].keys = pending.keys]_inputVars
  BY InputStep DEF DropsLeftover
<1>4. KeyInv => [\A t \in timers :
                    TimerFires(t) /\ pending' # pending => pending.keys = t.keys]_inputVars
  <2> SUFFICES ASSUME KeyInv, NEW t \in timers, TimerFires(t), pending' # pending
               PROVE  pending.keys = t.keys
    OBVIOUS
  <2>1. Current(t)
    BY DEF TimerFires
  <2> QED BY <2>1 DEF KeyInv, GenerationsFit
<1> QED BY <1>1, <1>2, <1>3, <1>4, KeyInvHolds, PTL
        DEF InputSpec, KeysAreAccounted, KeysAreConserved, LeftoverIsDropped, FlushesWhatStalled

\* For any keymaps, contexts and handlers: pending input that must not wait for
\* ever has a timer of its generation running, however often the sequence
\* grew, failed and started again.  Text that waits for a longer binding is
\* released by that timer.
THEOREM WaitAlwaysTimed == InputSpec => []WaitIsTimed
  BY KeyInvHolds, PTL DEF KeyInv

=============================================================================
