------------------------------ MODULE KeyInput ------------------------------
(***************************************************************************)
(* Keystrokes in one window: the pending input of multi-stroke bindings    *)
(* (window.rs, key_dispatch.rs).  A keystroke extends the pending ones;    *)
(* when no binding can match any more, the longest matching prefix is      *)
(* replayed and the rest is tried again; one second without a keystroke    *)
(* flushes what is pending.  Moving the focus ends a sequence.  While they *)
(* are pending, keystrokes are swallowed: a chord that nobody handles      *)
(* gives only its last keystroke on as an event.                           *)
(*                                                                         *)
(* The context stack of a focused element is a constant: the tree it is    *)
(* read from is the one of the last frame, and dispatch_key_event draws    *)
(* first if the window is dirty.                                           *)
(***************************************************************************)
EXTENDS Keymap

CONSTANTS
    Keymaps,      \* the keymaps the application may have loaded
    Elements,     \* what can be focused
    NoFocus,
    ContextStack, \* for an element, or NoFocus, the contexts of its dispatch path
    Handles,      \* for an element and an action: "unhandled", "stay", or
                  \* where the handler moves the focus
    HasChar,      \* keystrokes that type a character
    AcceptsText,  \* elements whose input handler takes text
    PrefersText,  \* keystrokes with prefer_character_input
    KeyDowns,     \* keystrokes of key down events
    Modifiers,    \* a modifier tapped alone is a keystroke too
    MaxTyped      \* bound on the keystrokes of a behaviour

VARIABLES
    focus,
    pending,   \* pending_input, DefaultPending for None
    timers,    \* timeout tasks: what they captured, and what was pending then
    modifiers, saw_other_input,  \* pending_modifier
    count,     \* history: how many keystrokes reached the keymap
    input,     \* history: the keystroke of the last step, none or one
    out,       \* history: what became of keystrokes in the last step, in order
    leftover   \* history: the focus was moved under the pending input

windowVars == <<focus, pending, timers, modifiers, saw_other_input, count, input, out,
                leftover>>
inputVars == <<keymap, windowVars>>

DefaultPending == [keys |-> <<>>, focus |-> NoFocus, needs_timeout |-> FALSE, generation |-> 0]

Focuses == Elements \cup {NoFocus}

WindowInit ==
    /\ focus = NoFocus
    /\ pending = DefaultPending
    /\ timers = {}
    /\ modifiers = {} /\ saw_other_input = FALSE
    /\ count = 0 /\ input = <<>> /\ out = <<>> /\ leftover = FALSE

InputInit == keymap \in Keymaps /\ WindowInit

-----------------------------------------------------------------------------
(* DispatchTree: dispatch_key, flush_dispatch, replay_prefix.              *)

From(keys, p) == SubSeq(keys, p, Len(keys))

\* replay_prefix: the keystrokes the next replay takes off the input, as
\* many as the longest prefix with a binding, or the first alone.
PrefixLength(stack, keys) ==
    Max({1} \cup {n \in 1..Len(keys) :
                     bindings_for_input(keymap, stack, SubSeq(keys, 1, n)).bindings # <<>>})

\* Mutant of ReplayOf: takes one keystroke off where the binding used several.
ReplayOfLast(stack, taken) ==
    [keystroke |-> Last(taken), keys |-> <<Last(taken)>>,
     bindings |-> bindings_for_input(keymap, stack, taken).bindings]

\* Replay, and what it took off the input: of that it keeps only the last
\* keystroke.
ReplayOf(stack, taken) ==
    [keystroke |-> Last(taken), keys |-> taken,
     bindings |-> bindings_for_input(keymap, stack, taken).bindings]

Replay(stack, keys) == ReplayOf(stack, SubSeq(keys, 1, PrefixLength(stack, keys)))

\* flush_dispatch: replays until nothing is left.
flush_dispatch(stack, keys) ==
    LET flush[p \in 1..(Len(keys) + 1)] ==
            IF p > Len(keys) THEN <<>>
            ELSE LET replay == Replay(stack, From(keys, p))
                 IN <<replay>> \o flush[p + Len(replay.keys)]
    IN flush[1]

\* dispatch_key where it replays no more: the keystrokes tried are pending,
\* or have these bindings, or none.
Settled(tried, found) ==
    LET none == [pending |-> <<>>, pending_has_binding |-> FALSE,
                 keys |-> <<>>, bindings |-> <<>>, to_replay |-> <<>>]
    IN IF found.pending
       THEN [none EXCEPT !.pending = tried, !.pending_has_binding = found.bindings # <<>>]
       ELSE [none EXCEPT !.keys = tried, !.bindings = found.bindings]

Fails(found) == ~found.pending /\ found.bindings = <<>>

\* dispatch_key: the pending keystrokes, with one more.
dispatch_key(stack, keys, keystroke) ==
    LET dispatch[p \in 1..(Len(keys) + 1)] ==
            LET tried == Append(From(keys, p), keystroke)
                replay == Replay(stack, From(keys, p))
            IN IF p <= Len(keys) /\ Fails(bindings_for_input(keymap, stack, tried))
               THEN [dispatch[p + Len(replay.keys)] EXCEPT !.to_replay = <<replay>> \o @]
               ELSE Settled(tried, bindings_for_input(keymap, stack, tried))
    IN dispatch[1]

-----------------------------------------------------------------------------
(* Dispatch on the window.                                                 *)

\* The first binding whose action has a handler on the dispatch path of the
\* node, 0 if the event propagates past all of them.
Taken(self, node, bindings) ==
    SelectInSeq(bindings, LAMBDA i : Handles[node, self[i].action] # "unhandled")

\* What became of keys, for the history.  A binding with a handler on the
\* path of the node takes all of them.  Otherwise the event of the keystroke,
\* the last of them, goes on to listeners and input handler, and the others
\* are lost: they were swallowed while they were pending.
Outcome(node, keystroke, keys, bindings, skip_bindings) ==
    [keys |-> keys, keystroke |-> keystroke, at |-> node,
     as |-> CASE Taken(keymap, node, bindings) # 0 -> "action"
              [] Taken(keymap, node, bindings) = 0 /\ skip_bindings -> "text"
              [] OTHER -> "event"]

\* The focus after a node was given the bindings.
FocusAfter(node, bindings, current) ==
    LET n == Taken(keymap, node, bindings)
        effect == IF n = 0 THEN "stay" ELSE Handles[node, keymap[bindings[n]].action]
    IN IF effect = "stay" THEN current ELSE effect

\* replay_pending_input: all replays go to the node that is focused when it
\* starts, also when one of them moves the focus.
replay_pending_input(node, replays) ==
    [out |-> [r \in DOMAIN replays |->
                Outcome(node, replays[r].keystroke, replays[r].keys, replays[r].bindings, FALSE)],
     focus |-> FoldLeft(LAMBDA f, r : FocusAfter(node, r.bindings, f), node, replays)]

\* The pending input a keystroke extends: one of another focus is dropped.
Carried ==
    IF pending.focus # NoFocus /\ pending.focus # focus THEN DefaultPending ELSE pending

Dropped(keys) ==
    IF keys = <<>> THEN <<>>
    ELSE <<[keys |-> keys, keystroke |-> Last(keys), at |-> NoFocus, as |-> "dropped"]>>

\* Mutant of NeedsTimeout: only the last keystroke decides.
NeedsTimeoutNow(current, result, keystroke, node) ==
    \/ result.pending_has_binding
    \/ keystroke \in HasChar /\ node \in AcceptsText

NeedsTimeout(current, result, keystroke, node) ==
    \/ current.needs_timeout
    \/ result.pending_has_binding
    \/ keystroke \in HasChar /\ node \in AcceptsText

\* skip_bindings: text goes before bindings, such as with AltGr.
PrefersCharacter(keystroke, node) == keystroke \in PrefersText /\ node \in AcceptsText

\* dispatch_key_event from the keystroke on.  node is the focus at the start,
\* and stays the target after a replay has moved the focus.
DispatchKeystroke(keystroke) ==
    LET node == focus
        current == Carried
        gone == Dropped(SubSeq(pending.keys, 1, Len(pending.keys) - Len(current.keys)))
    IN \E result \in {dispatch_key(ContextStack[node], current.keys, keystroke)} :
       \E replayed \in {replay_pending_input(node, result.to_replay)} :
       LET needs == NeedsTimeout(current, result, keystroke, node)
           skip_bindings == PrefersCharacter(keystroke, node)
           bindings == IF skip_bindings THEN <<>> ELSE result.bindings
       IN /\ count < MaxTyped
          /\ count' = count + 1
          /\ input' = <<keystroke>>
          /\ leftover' = FALSE
          /\ IF result.pending # <<>>
             THEN /\ pending' = [keys |-> result.pending, focus |-> replayed.focus,
                                 needs_timeout |-> needs,
                                 generation |-> IF needs THEN count' ELSE current.generation]
                  /\ timers' = IF needs
                               THEN timers \cup {[generation |-> count', keys |-> result.pending]}
                               ELSE timers
                  /\ focus' = replayed.focus
                  /\ out' = gone \o replayed.out
             ELSE /\ pending' = DefaultPending
                  /\ focus' = FocusAfter(node, bindings, replayed.focus)
                  /\ out' = gone \o replayed.out
                                \o <<Outcome(node, keystroke, result.keys, bindings,
                                              skip_bindings)>>
                  /\ UNCHANGED timers

-----------------------------------------------------------------------------
(* Events of the platform and calls of the application.                    *)

\* The history of a step that brings no keystroke, and of one that also
\* leaves the pending ones alone.
Quiet(outcome) == out' = outcome /\ input' = <<>> /\ UNCHANGED count
NoKeystroke == Quiet(<<>>)

KeyDown(k) ==
    /\ saw_other_input' = TRUE
    /\ DispatchKeystroke(k)
    /\ UNCHANGED <<keymap, modifiers>>

\* An interceptor stops the keystroke: the pending input stays as it is.
KeyDownIntercepted ==
    /\ saw_other_input' = TRUE
    /\ NoKeystroke
    /\ UNCHANGED <<keymap, focus, pending, timers, modifiers, leftover>>

SawOther(new) ==
    IF modifiers = {} /\ Cardinality(new) = 1 THEN FALSE
    ELSE saw_other_input \/ Cardinality(new) > 1

\* ModifiersChangedEvent: one modifier pressed or released.  The release of
\* a modifier that was held alone, with nothing in between, is a keystroke.
ModifiersChanged(new) ==
    /\ \E m \in Modifiers : new = modifiers \cup {m} \/ new = modifiers \ {m}
    /\ new # modifiers
    /\ modifiers' = new
    /\ saw_other_input' = SawOther(new)
    /\ IF new = {} /\ ~saw_other_input
       THEN DispatchKeystroke(CHOOSE m \in modifiers : TRUE)
       ELSE NoKeystroke /\ UNCHANGED <<focus, pending, timers, leftover>>
    /\ UNCHANGED keymap

\* Window::focus and blur, called while no key is dispatched.
FocusOn(e) ==
    /\ e # focus
    /\ focus' = e
    /\ pending' = DefaultPending
    /\ Quiet(Dropped(pending.keys))
    /\ leftover' = FALSE
    /\ UNCHANGED <<keymap, timers, modifiers, saw_other_input>>

Blur ==
    /\ focus # NoFocus
    /\ focus' = NoFocus
    /\ leftover' = (pending.keys # <<>>)
    /\ NoKeystroke
    /\ UNCHANGED <<keymap, pending, timers, modifiers, saw_other_input>>

\* App::clear_pending_keystrokes, when a menu opens.
ClearPending ==
    /\ pending # DefaultPending
    /\ pending' = DefaultPending
    /\ Quiet(Dropped(pending.keys))
    /\ leftover' = FALSE
    /\ UNCHANGED <<keymap, focus, timers, modifiers, saw_other_input>>

\* The generation of the pending input is the one the timer captured.
Current(t) == pending.keys # <<>> /\ pending.generation = t.generation

\* A second after it was armed, a timer takes the pending input and replays
\* it.  Dropping a task cancels it; the model lets a dropped one resume all
\* the same, for the generation is there to stop it.
TimerFires(t) ==
    /\ t \in timers
    /\ timers' = timers \ {t}
    /\ IF Current(t)
       THEN /\ pending' = DefaultPending
            /\ IF pending.focus = focus
               THEN \E replayed \in {replay_pending_input(focus,
                                       flush_dispatch(ContextStack[focus], pending.keys))} :
                       focus' = replayed.focus /\ Quiet(replayed.out)
               ELSE Quiet(Dropped(pending.keys)) /\ UNCHANGED focus
            /\ leftover' = FALSE
       ELSE NoKeystroke /\ UNCHANGED <<focus, pending, leftover>>
    /\ UNCHANGED <<keymap, modifiers, saw_other_input>>

InputNext ==
    \/ \E k \in KeyDowns : KeyDown(k)
    \/ KeyDownIntercepted
    \/ \E new \in SUBSET Modifiers : ModifiersChanged(new)
    \/ \E e \in Elements : FocusOn(e)
    \/ Blur
    \/ ClearPending
    \/ \E t \in timers : TimerFires(t)

\* The pending input still holds the task of this timer; one without a need
\* for a timeout has dropped it.
Held(t) == pending.needs_timeout /\ pending.generation = t.generation

\* The executor resumes a task that is held, a second later: nobody has to
\* type.  Only TimerFires takes a timer out, so the condition is on timers
\* alone.
TimersResume == WF_timers(\E t \in timers : Held(t) /\ timers' = timers \ {t})

InputSpec == InputInit /\ [][InputNext]_inputVars /\ TimersResume

-----------------------------------------------------------------------------
\* Every keystroke is taken off the input once and in the order it was typed:
\* by a binding, by an event, because the focus moved, or not yet.  None falls
\* between the replays of a prefix and the second try of the rest, none is
\* replayed twice.  (Of those taken by one event only the last is given on.)
KeysAreConserved ==
    [][FlattenSeq([n \in DOMAIN out' |-> out'[n].keys]) \o pending'.keys
          = pending.keys \o input']_inputVars

\* An event is of the last keystroke it took off the input; the ones before
\* it are lost, and that happens only to a chord that is bound where it was
\* typed.  Nobody there handles what is bound to all of them, unless bindings
\* were skipped for text: a sequence that fails passes over no chord and no
\* keystroke that would have run.  (It does not go back into a chord that
\* nobody handles: a binding of its first keystrokes is lost with them.)
NoBindingSkipped ==
    \A n \in DOMAIN out :
        out[n].as \in {"event", "text"} =>
            LET bindings == bindings_for_input(keymap, ContextStack[out[n].at], out[n].keys).bindings
            IN /\ out[n].keystroke = Last(out[n].keys)
               /\ Len(out[n].keys) > 1 => bindings # <<>>
               /\ out[n].as = "event" => Taken(keymap, out[n].at, bindings) = 0

\* "Input left over from a previous focus can never complete" a binding:
\* what was pending when the focus was moved or lost between keystrokes is
\* dropped as a whole, by the next keystroke or by the timeout.
LeftoverIsDropped ==
    [][leftover /\ pending' # pending
          => out' # <<>> /\ out'[1].as = "dropped" /\ out'[1].keys = pending.keys]_inputVars

\* A timeout only flushes input that had not changed since it was armed.
FlushesWhatStalled ==
    [][\A t \in timers :
          TimerFires(t) /\ pending' # pending => pending.keys = t.keys]_inputVars

\* No keystroke is taken twice or out of order, none is lost but the first ones
\* of a chord that is bound and that nobody handles, and none completes a
\* binding it was not typed for.
KeysAreAccounted ==
    KeysAreConserved /\ []NoBindingSkipped /\ LeftoverIsDropped /\ FlushesWhatStalled

\* The focused element's input handler would take text that is pending.
TextWaits ==
    /\ pending.focus = focus /\ focus \in AcceptsText
    /\ \E n \in DOMAIN pending.keys : pending.keys[n] \in HasChar

\* Text that waits for a longer binding is not held back for ever: the
\* second after the last keystroke ends the wait, also when that keystroke
\* typed nothing itself.  (This is of the keymaps of the run.  With others a
\* replay may move the focus from an element that takes no text to one that
\* does, and what remains pending then has no timer.)
TextIsNotHeldBack == TextWaits ~> ~TextWaits

=============================================================================
