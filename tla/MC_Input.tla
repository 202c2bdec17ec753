----------------------------- MODULE MC_Input -----------------------------
(***************************************************************************)
(* What a window does with input, side by side for TLC: keymaps built up   *)
(* binding by binding over a workspace with an editor, one of a few        *)
(* keymaps for typing in a window with an editor that takes text and a     *)
(* panel that does not, the focus, the tooltips and the tab stops.  A      *)
(* behaviour is one of one of them.                                        *)
(***************************************************************************)
EXTENDS KeyInput, WindowFocus, Tooltip, TabStops

VARIABLE part  \* the one that moves

Workspace == Identifier("Workspace")
Editor == Identifier("Editor")
Panel == Identifier("Panel")
Vim == Equal("mode", "vim")

MC_Predicates ==
    {Workspace, Editor, Panel, Vim, Not(Vim), And(Editor, Vim), Or(Editor, Vim),
     Descendant(Workspace, Editor), Descendant(Workspace, And(Editor, Vim)),
     Or(Workspace, Or(Editor, Vim))}

MC_Height ==
    LET height[p \in MC_Predicates] ==
            CASE p.op = "not" -> 1 + height[p.left]
              [] p.op \in {"descendant", "and", "or"} ->
                    1 + Max({height[p.left], height[p.right]})
              [] OTHER -> 0
    IN height

\* The workspace alone, an editor in it, and an editor in vim mode.
MC_Stacks ==
    LET workspace == ("Workspace" :> NoValue)
        editor == ("Editor" :> NoValue)
        vim == editor @@ ("mode" :> "vim")
    IN {<<workspace>>, <<workspace, editor>>, <<workspace, vim>>}

Binding(keys, pred, kind, action, meta) ==
    [keys |-> keys, pred |-> pred, kind |-> kind, action |-> action, meta |-> meta]
Act(keys, pred, action) == Binding(keys, pred, "action", action, 0)

MC_Bindings ==
    LET ab == <<"a", "b">> IN
    {Act(k, p, "X") : k \in {<<"a">>, ab}, p \in {Anywhere, Workspace, Editor}}
    \cup {Binding(ab, And(Editor, Vim), "action", a, 1) : a \in {"X", "Y"}}
    \cup {Binding(ab, p, "no_action", "null", m) :
             p \in {Anywhere, Editor, Vim, Workspace}, m \in {0, 1}}
    \cup {Binding(ab, p, "unbind", "X", 0) : p \in {Anywhere, Or(Editor, Vim)}}
    \cup {Binding(<<"a">>, Not(Vim), "no_action", "null", 1),
          Binding(ab, Or(Editor, Vim), "action", "X", 1),
          Act(<<"c", "b">>, Descendant(Workspace, Editor), "Y")}

MC_Inputs == {<<"a">>, <<"a", "b">>, <<"alt-a">>}

\* alt-a types the character c on this layout.
MC_ShouldMatch == [k \in {"a", "b", "c", "alt-a", "shift", "control"} |->
                      IF k = "alt-a" THEN {"alt-a", "c"} ELSE {k}]

\* To type with: chords with a shorter binding inside, with a second one
\* after the first keystroke, disabled in one place, and with a modifier.
MC_Keymaps ==
    {<<Act(<<"a">>, Anywhere, "Jump"), Act(<<"a", "c">>, Anywhere, "Y"),
       Act(<<"b", "c">>, Editor, "X")>>,
     <<Act(<<"b">>, Anywhere, "X"), Act(<<"a", "b", "c">>, Editor, "Y"),
       Act(<<"b", "c">>, Panel, "Jump")>>,
     <<Act(<<"shift", "a">>, Anywhere, "X"), Act(<<"c", "a">>, Anywhere, "Y"),
       Act(<<"c", "a", "b">>, Anywhere, "X"),
       Binding(<<"c", "a">>, Editor, "no_action", "null", 0)>>}

MC_ContextStack ==
    [e \in {"editor", "panel", "none"} |->
        LET leaf == IF e = "editor" THEN "Editor" ELSE IF e = "panel" THEN "Panel" ELSE "Root"
        IN <<("Workspace" :> NoValue), (leaf :> NoValue)>>]

\* Jump takes the focus to the other element, nobody handles Y outside the
\* editor.
MC_Handles ==
    [p \in {"editor", "panel", "none"} \X {"X", "Y", "Jump"} |->
        CASE p = <<"editor", "Jump">> -> "panel"
          [] p = <<"panel", "Jump">> -> "editor"
          [] p[2] = "Y" /\ p[1] # "editor" -> "unhandled"
          [] OTHER -> "stay"]

\* f2 is inside f1, and f3 beside them.
MC_Above == ("f1" :> {"f1"}) @@ ("f2" :> {"f1", "f2"}) @@ ("f3" :> {"f3"})

AllInit ==
    /\ part \in {"keymap", "typing", "focus", "tooltips", "tabs"}
    /\ IF part = "typing" THEN keymap \in Keymaps ELSE KeymapInit
    /\ WindowInit /\ FocusInit /\ TipInit /\ TabInit

AllNext ==
    /\ UNCHANGED part
    /\ \/ /\ part = "keymap"
          /\ KeymapNext
          /\ UNCHANGED <<windowVars, focusVars, tipVars, tabVars>>
       \/ part = "typing" /\ InputNext /\ UNCHANGED <<focusVars, tipVars, tabVars>>
       \/ part = "focus" /\ FocusNext /\ UNCHANGED <<inputVars, tipVars, tabVars>>
       \/ part = "tooltips" /\ TipNext /\ UNCHANGED <<inputVars, focusVars, tabVars>>
       \/ part = "tabs" /\ TabNext /\ UNCHANGED <<inputVars, focusVars, tipVars>>

\* In the parts that do not move no timer runs and nothing is to be drawn.
AllSpec ==
    /\ AllInit /\ [][AllNext]_<<inputVars, focusVars, tipVars, tabVars, part>>
    /\ TimersResume /\ TipFairness

=============================================================================
