------------------------------- MODULE Keymap -------------------------------
(***************************************************************************)
(* Which bindings of a keymap an input selects (keymap.rs, binding.rs).    *)
(* A keymap is the sequence of its bindings in the order they were added.  *)
(* A binding has the keystrokes that trigger it, the predicate it asks     *)
(* for or Anywhere, its kind (an action, `null`, or an Unbind that names   *)
(* an action) and the meta of its source: 0 for the user, larger for       *)
(* weaker sources.  What is asked of a keymap while keys are dispatched    *)
(* takes it as an argument, which is self in the code.                     *)
(***************************************************************************)
EXTENDS KeyContext, SequencesExt, TLC

CONSTANTS
    ShouldMatch,  \* for a typed keystroke, the keystrokes of bindings it matches
    Bindings,     \* the bindings that may be added
    Stacks,       \* the context stacks of the frames that are drawn
    Inputs,       \* the keystrokes typed
    MaxBindings   \* bound on the length of the keymap

Anywhere == [op |-> "anywhere"]

\* Keystrokes are matched with those of bindings; sources are numbered.
ASSUME KeymapAssumption ==
    /\ \A b \in Bindings : b.keys \in Seq(DOMAIN ShouldMatch) /\ b.meta \in Nat
                           /\ b.pred \in Predicates \cup {Anywhere}
    /\ Inputs \subseteq Seq(DOMAIN ShouldMatch)
    /\ \A stack \in Stacks : Len(stack) \in Nat

VARIABLE keymap

KeymapInit == keymap = <<>>

\* One add_bindings with one binding; the two index vectors of the code are
\* derived from the position of a binding and its kind, and the version
\* only says that something changed.
add_bindings(b) ==
    /\ Len(keymap) < MaxBindings
    /\ keymap' = Append(keymap, b)

clear == keymap # <<>> /\ keymap' = <<>>

KeymapNext == clear \/ \E b \in Bindings : add_bindings(b)

KeymapSpec == KeymapInit /\ [][KeymapNext]_keymap

-----------------------------------------------------------------------------
NoMeta == -1

is_no_action(b) == b.kind = "no_action"
is_unbind(b) == b.kind = "unbind"
Disables(b) == is_no_action(b) \/ is_unbind(b)

binding_is_unbound(disabled, b) ==
    disabled.keys = b.keys /\ is_unbind(disabled) /\ disabled.action = b.action

disabled_binding_matches_context(disabled, b) ==
    \/ disabled.pred = Anywhere
    \/ b.pred # Anywhere /\ is_superset(disabled.pred, b.pred)

\* match_keystrokes is Some: the input is a prefix of the binding's keys.
Matches(b, input) ==
    /\ Len(input) <= Len(b.keys)
    /\ \A k \in DOMAIN input : b.keys[k] \in ShouldMatch[input[k]]

\* match_keystrokes returns Some(true).
IsPending(b, input) == Len(b.keys) > Len(input)

\* The depth at which a binding applies, None if it does not.
binding_enabled(b, stack) == IF b.pred = Anywhere THEN Len(stack) ELSE depth_of(b.pred, stack)

\* The order of precedence: deeper first, then later in the keymap.
Before(d, i, e, j) == d > e \/ (d = e /\ i > j)
OutRanks(self, stack, i, j) ==
    Before(binding_enabled(self[i], stack), i, binding_enabled(self[j], stack), j)

Candidates(self, stack, input, ixs) ==
    {i \in ixs : binding_enabled(self[i], stack) # None /\ Matches(self[i], input)}

-----------------------------------------------------------------------------
(* resolve_bindings_for_input on the bindings with the indices ixs.        *)

\* Mutant of Suppressed: a `null` takes every binding it out-ranks away.
SuppressedByAny(b, no_action_meta) == no_action_meta # NoMeta

\* A `null` met before suppresses bindings of sources that are not stronger.
Suppressed(b, no_action_meta) == no_action_meta # NoMeta /\ b.meta >= no_action_meta

\* One turn of the loop over the matched bindings: what it collected so far
\* is the result, the unbound bindings and the strongest `null`.
Collect(self, acc, i) ==
    LET b == self[i]
    IN IF is_no_action(b)
       THEN [acc EXCEPT !.no_action_meta =
                IF acc.no_action_meta = NoMeta \/ b.meta < acc.no_action_meta
                THEN b.meta ELSE acc.no_action_meta]
       ELSE IF Suppressed(b, acc.no_action_meta) THEN acc
       ELSE IF is_unbind(b) THEN [acc EXCEPT !.unbound = @ \cup {i}]
       ELSE IF \E u \in acc.unbound : binding_is_unbound(self[u], b) THEN acc
       ELSE [acc EXCEPT !.bindings = Append(@, i)]

\* The bindings are sorted for the loop: each turn takes the best of the rest.
Best(self, stack, rest) ==
    CHOOSE i \in rest : \A j \in rest \ {i} : OutRanks(self, stack, i, j)
CollectBest(self, stack, acc) ==
    [Collect(self, acc, Best(self, stack, acc.rest))
        EXCEPT !.rest = @ \ {Best(self, stack, acc.rest)}]

resolve_bindings(self, stack, input, ixs) ==
    LET matched == {i \in Candidates(self, stack, input, ixs) : ~IsPending(self[i], input)}
        loop[n \in 0..Cardinality(matched)] ==
            IF n = 0
            THEN [rest |-> matched, bindings |-> <<>>, unbound |-> {}, no_action_meta |-> NoMeta]
            ELSE CollectBest(self, stack, loop[n - 1])
    IN loop[Cardinality(matched)].bindings

\* The second loop: is there a longer binding to wait for.  A binding that
\* disables takes the keystrokes of the bindings before it out of the set;
\* the ones before the best match do not count at all.
Awaited(self, counted) ==
    \E i \in counted :
        /\ ~Disables(self[i])
        /\ \A j \in counted :
              j > i /\ Disables(self[j]) => self[j].keys # self[i].keys

resolve_pending(self, longer, bindings) ==
    Awaited(self, {i \in longer : bindings = <<>> \/ bindings[1] <= i})

Resolved(self, longer, bindings) ==
    [bindings |-> bindings, pending |-> resolve_pending(self, longer, bindings)]

\* bindings_for_input: the whole keymap.
bindings_for_input(self, stack, input) ==
    Resolved(self,
             {i \in Candidates(self, stack, input, DOMAIN self) : IsPending(self[i], input)},
             resolve_bindings(self, stack, input, DOMAIN self))

\* bindings_extending_input, the ones that disable included.
possible_next_ixs(input) ==
    {i \in DOMAIN keymap : Matches(keymap[i], input) /\ IsPending(keymap[i], input)}

\* The input typed so far and the keystrokes that complete binding i.
full_input(input, i) == input \o SubSeq(keymap[i].keys, Len(input) + 1, Len(keymap[i].keys))

\* possible_next_bindings_for_input, as a set (its order is OutRanks).
possible_next_bindings(stack, input) ==
    {i \in possible_next_ixs(input) :
        /\ ~Disables(keymap[i])
        /\ binding_enabled(keymap[i], stack) # None
        /\ i \in Range(resolve_bindings(keymap, stack, full_input(input, i),
                                       possible_next_ixs(input)))}

\* bindings_for_action: those no later binding disables wherever they apply.
bindings_for_action(action) ==
    {i \in DOMAIN keymap :
        /\ ~Disables(keymap[i]) /\ keymap[i].action = action
        /\ \A d \in DOMAIN keymap :
              ~(/\ d > i /\ Disables(keymap[d]) /\ keymap[d].keys = keymap[i].keys
                /\ disabled_binding_matches_context(keymap[d], keymap[i])
                /\ is_no_action(keymap[d]) \/ binding_is_unbound(keymap[d], keymap[i]))}

-----------------------------------------------------------------------------
(* What the documentation of the keymap promises.                          *)

\* The bindings that run for an input, said without the loop: a binding is
\* suppressed by a `null` that out-ranks it and comes from a source that is
\* not weaker, or by an Unbind of its action that out-ranks it and is not
\* suppressed itself.
Nulled(full, stack, i) ==
    \E n \in full : /\ is_no_action(keymap[n])
                    /\ OutRanks(keymap, stack, n, i)
                    /\ keymap[n].meta <= keymap[i].meta
Runs(stack, input) ==
    LET full == {i \in Candidates(keymap, stack, input, DOMAIN keymap) :
                    ~IsPending(keymap[i], input)}
    IN {i \in full :
          /\ ~Disables(keymap[i]) /\ ~Nulled(full, stack, i)
          /\ \A u \in full : /\ binding_is_unbound(keymap[u], keymap[i])
                              /\ OutRanks(keymap, stack, u, i)
                              => Nulled(full, stack, u)}

\* bindings_for_input returns the bindings that run, in the order of
\* precedence: deeper contexts first, later bindings first among equals; a
\* `null` of a weaker source does not take a user's binding away.
ResolveByPrecedence ==
    \A stack \in Stacks, input \in Inputs :
        LET found == bindings_for_input(keymap, stack, input).bindings
        IN /\ Range(found) = Runs(stack, input)
           /\ \A m, n \in DOMAIN found :
                 m < n => OutRanks(keymap, stack, found[m], found[n])

\* possible_next_bindings_for_input "only includes bindings that dispatch
\* would run for their full keystrokes", and all of those: looking at the
\* bindings that extend the input gives what the whole keymap gives.
NextIsDispatched ==
    \A stack \in Stacks, input \in Inputs :
        possible_next_bindings(stack, input)
          = {i \in possible_next_ixs(input) : i \in Runs(stack, full_input(input, i))}

\* The sources were loaded in the order the documentation asks for: "User
\* bindings are added after built-in bindings".
LoadedInOrder == \A i, j \in DOMAIN keymap : i < j => keymap[j].meta <= keymap[i].meta

\* A binding that bindings_for_action leaves out, so that menus and hints do
\* not show it, is one that its keystrokes run in no context: the test on
\* predicates alone agrees with what dispatch finds on every stack.
HiddenNeverRuns ==
    LoadedInOrder =>
        \A i \in DOMAIN keymap :
            /\ ~Disables(keymap[i])
            /\ i \notin bindings_for_action(keymap[i].action)
            => \A stack \in Stacks : i \notin Runs(stack, keymap[i].keys)

\* A predicate that is_superset of another "matches all possible contexts
\* matched by the other predicate".
SupersetMatches ==
    \A i, j \in DOMAIN keymap :
        /\ {keymap[i].pred, keymap[j].pred} \subseteq Predicates
        /\ is_superset(keymap[i].pred, keymap[j].pred)
        => \A stack \in Stacks : eval(keymap[j].pred, stack) => eval(keymap[i].pred, stack)

\* The three questions one can ask a keymap have answers that agree with one
\* definition of what runs.
QueriesAgree == ResolveByPrecedence /\ NextIsDispatched /\ HiddenNeverRuns

=============================================================================
