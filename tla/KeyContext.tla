----------------------------- MODULE KeyContext -----------------------------
(***************************************************************************)
(* The contexts a key binding may ask for (keymap/context.rs).  A          *)
(* KeyContext is a function from the names it holds to values, NoValue     *)
(* for a plain identifier; a dispatch path gives a sequence of contexts    *)
(* from the root to the focused element.  Predicates are parsed trees.     *)
(***************************************************************************)
EXTENDS Integers, Sequences, FiniteSetsExt

CONSTANTS
    Predicates,  \* the predicates in use, with all their subterms
    Height       \* the height of the tree of each

\* Parsed predicates are trees.
ASSUME PredicatesAssumption ==
    \A p \in Predicates :
        /\ Height[p] \in Nat
        /\ p.op \in {"identifier", "equal", "not_equal", "not", "descendant", "and", "or"}
        /\ p.op \in {"not", "descendant", "and", "or"} =>
              p.left \in Predicates /\ Height[p.left] < Height[p]
        /\ p.op \in {"descendant", "and", "or"} =>
              p.right \in Predicates /\ Height[p.right] < Height[p]

NoValue == ""

\* KeyBindingContextPredicate.
Identifier(name) == [op |-> "identifier", name |-> name]
Equal(left, right) == [op |-> "equal", name |-> left, value |-> right]
NotEqual(left, right) == [op |-> "not_equal", name |-> left, value |-> right]
Descendant(parent, child) == [op |-> "descendant", left |-> parent, right |-> child]
Not(pred) == [op |-> "not", left |-> pred]
And(left, right) == [op |-> "and", left |-> left, right |-> right]
Or(left, right) == [op |-> "or", left |-> left, right |-> right]

contains(context, name) == name \in DOMAIN context

\* KeyContext::get, NoValue for None.
get(context, name) == IF contains(context, name) THEN context[name] ELSE NoValue

\* The first of the positions where the parent matches, 0 if there is none.
FirstMatch(found) == IF found = {} THEN 0 ELSE Min(found)

\* The slices stack[from..to] and stack[from..all] of a call of eval_inner:
\* every call in the code passes two with one start.
Slice(from, to, all) == [from |-> from, to |-> to, all |-> all]
Slices(n) == [from : 1..(n + 1), to : 0..n, all : 0..n]

\* eval_inner, as the slices on which a predicate holds, from those on which
\* its subterms do.
eval_inner(p, holds, stack) ==
    {s \in Slices(Len(stack)) :
        /\ s.from <= s.to
        /\ CASE p.op = "identifier" -> contains(stack[s.to], p.name)
             [] p.op = "equal" -> get(stack[s.to], p.name) = p.value
             [] p.op = "not_equal" -> get(stack[s.to], p.name) # p.value
             [] p.op = "not" ->
                   \A i \in s.from..s.all : Slice(s.from, i, s.all) \notin holds[p.left]
             [] p.op = "descendant" ->
                   LET i == FirstMatch({j \in s.from..(s.to - 1) :
                                           Slice(s.from, j, s.all) \in holds[p.left]})
                   IN i > 0 /\ Slice(i + 1, s.to, s.to) \in holds[p.right]
             [] p.op = "and" -> s \in holds[p.left] /\ s \in holds[p.right]
             [] p.op = "or" -> s \in holds[p.left] \/ s \in holds[p.right]}

Evaluated(stack) ==
    LET holds[p \in Predicates] == eval_inner(p, holds, stack) IN holds

\* The predicate holds on the first d contexts of the stack.
HoldsAt(p, stack, d) == Slice(1, d, Len(stack)) \in Evaluated(stack)[p]

eval(p, stack) == HoldsAt(p, stack, Len(stack))

None == -1

\* The deepest prefix of the stack on which the predicate holds.
depth_of(p, stack) == Max({None} \cup {d \in 1..Len(stack) : HoldsAt(p, stack, d)})

is_superset(p, q) ==
    LET superset[ab \in Predicates \X Predicates] ==
            LET a == ab[1]
                b == ab[2]
            IN \/ a = b
               \/ a.op = "or" /\ (superset[<<a.left, b>>] \/ superset[<<a.right, b>>])
               \/ a.op # "or" /\ b.op = "descendant" /\ superset[<<a, b.right>>]
               \/ a.op # "or" /\ b.op = "and" /\ (superset[<<a, b.left>>] \/ superset[<<a, b.right>>])
    IN superset[<<p, q>>]

=============================================================================
