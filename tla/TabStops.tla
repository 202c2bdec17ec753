----------------------------- MODULE TabStops -----------------------------
(***************************************************************************)
(* The order in which the tab key visits the elements of a frame           *)
(* (crates/gpui/src/tab_stop.rs).  Painting an element inserts its focus   *)
(* handle (elements/div.rs); a tab group makes the indices of what it      *)
(* holds local to it, its own handle included.  replay, for a recycled     *)
(* view, runs these same operations.                                       *)
(*                                                                         *)
(* TabHandles are numbered as they are inserted: each is tracked by one    *)
(* element of a frame.                                                     *)
(***************************************************************************)
EXTENDS Integers, Sequences, FiniteSetsExt, Functions

CONSTANTS
    TabIndices,    \* the tab indices used
    MaxInsertions  \* bound: insertion_history

ASSUME TabAssumption == TabIndices \subseteq Int /\ MaxInsertions \in Nat

VARIABLES
    current_path,
    insertion_history,  \* "insert", "group" or "end"
    by_id,              \* the node of each handle, in the order of insertion
    groups              \* history: position in insertion_history, index, and
                        \* handle of the container (0: none) of each open or
                        \* closed group, and the end of those closed

tabVars == <<current_path, insertion_history, by_id, groups>>

TabInit ==
    /\ current_path = <<>> /\ insertion_history = <<>> /\ by_id = <<>> /\ groups = <<>>

TabHandles == 1..Len(by_id)

-----------------------------------------------------------------------------
\* Mutant of NodePath: the group a handle is in does not count.
NodePathFlat(tab_index) == <<tab_index>>

\* The path of a handle inserted now.
NodePath(tab_index) == Append(current_path, tab_index)

\* TabStopMap::insert, of the handle of a painted element.
InsertTab(tab_index, tab_stop) ==
    /\ Len(insertion_history) < MaxInsertions
    /\ insertion_history' = Append(insertion_history, "insert")
    /\ by_id' = Append(by_id, [path |-> NodePath(tab_index),
                               at |-> Len(insertion_history), stop |-> tab_stop])
    /\ UNCHANGED <<current_path, groups>>

\* begin_group, in with_tab_group, for an element without a handle ...
BeginGroup(tab_index) ==
    /\ Len(insertion_history) < MaxInsertions
    /\ insertion_history' = Append(insertion_history, "group")
    /\ current_path' = Append(current_path, tab_index)
    /\ groups' = Append(groups, [from |-> Len(insertion_history), to |-> MaxInsertions,
                                 path |-> Append(current_path, tab_index), container |-> 0])
    /\ UNCHANGED by_id

\* ... and for a focusable one, whose handle has the index of the group and is
\* inserted inside it.
BeginContainer(tab_index, tab_stop) ==
    LET path == Append(current_path, tab_index)
    IN /\ Len(insertion_history) + 1 < MaxInsertions
       /\ insertion_history' = insertion_history \o <<"group", "insert">>
       /\ current_path' = path
       /\ by_id' = Append(by_id, [path |-> Append(path, tab_index),
                                  at |-> Len(insertion_history) + 1, stop |-> tab_stop])
       /\ groups' = Append(groups, [from |-> Len(insertion_history), to |-> MaxInsertions,
                                    path |-> path, container |-> Len(by_id) + 1])

EndGroup ==
    /\ current_path # <<>>
    /\ insertion_history' = Append(insertion_history, "end")
    /\ current_path' = SubSeq(current_path, 1, Len(current_path) - 1)
    /\ LET open == Max({g \in DOMAIN groups : groups[g].to = MaxInsertions})
       IN groups' = [groups EXCEPT ![open].to = Len(insertion_history)]
    /\ Len(insertion_history) < MaxInsertions
    /\ UNCHANGED by_id

TabNext ==
    \/ \E i \in TabIndices :
          \/ \E stop \in BOOLEAN : InsertTab(i, stop) \/ BeginContainer(i, stop)
          \/ BeginGroup(i)
    \/ EndGroup

TabSpec == TabInit /\ [][TabNext]_tabVars

-----------------------------------------------------------------------------
\* Ord for TabStopNode: lexicographic by path, then by insertion.
PathBelow(p, q) ==
    \E n \in 0..Len(p) :
        /\ n < Len(q)
        /\ \A i \in 1..n : p[i] = q[i]
        /\ n < Len(p) => p[n + 1] < q[n + 1]
NodeBelow(h, k) ==
    \/ PathBelow(by_id[h].path, by_id[k].path)
    \/ by_id[h].path = by_id[k].path /\ by_id[h].at < by_id[k].at

LeastNode(S) == CHOOSE h \in S : \A k \in S \ {h} : NodeBelow(h, k)
GreatestNode(S) == CHOOSE h \in S : \A k \in S \ {h} : NodeBelow(k, h)
Stops == {h \in TabHandles : by_id[h].stop}

\* next_inner and prev_inner; 0: none.
next_inner(h) ==
    LET after == {k \in Stops : NodeBelow(h, k)} IN IF after = {} THEN 0 ELSE LeastNode(after)
prev_inner(h) ==
    LET before == {k \in Stops : NodeBelow(k, h)} IN IF before = {} THEN 0 ELSE GreatestNode(before)

\* next and prev of None ...
next_of_none ==
    IF TabHandles = {} THEN 0
    ELSE LET first == LeastNode(TabHandles) IN IF by_id[first].stop THEN first ELSE next_inner(first)
prev_of_none ==
    IF TabHandles = {} THEN 0
    ELSE LET last == GreatestNode(TabHandles) IN IF by_id[last].stop THEN last ELSE prev_inner(last)

\* ... and of a handle of the frame.
next(h) == IF next_inner(h) # 0 THEN next_inner(h) ELSE next_of_none
prev(h) == IF prev_inner(h) # 0 THEN prev_inner(h) ELSE prev_of_none

-----------------------------------------------------------------------------
\* The tab key goes round all tab stops, whatever groups and handles that are
\* not stops lie between them: from any handle it reaches a stop, no stop is
\* reached from two, shift-tab goes back, and no stops are left out of the round.
TabGoesRound ==
    Stops # {} =>
        /\ \A h \in TabHandles : next(h) \in Stops /\ prev(h) \in Stops
        /\ \A h \in Stops : prev(next(h)) = h /\ next(prev(h)) = h
        /\ \A S \in (SUBSET Stops) \ {{}} : (\A h \in S : next(h) \in S) => S = Stops

\* The handles in a group, and whether no handle or group around it has its
\* path, so that the group has its place to itself.
Members(g) == {h \in TabHandles : by_id[h].at > groups[g].from /\ by_id[h].at <= groups[g].to}
Alone(g) == \A f \in DOMAIN groups \ {g} : groups[f].path # groups[g].path

\* "Tab groups have their own location in the tab-index order": the tab stops
\* of a group follow each other, when no group beside it has the same index.
GroupsStayTogether ==
    \A g \in DOMAIN groups :
        Alone(g) => \A h, k \in Members(g), l \in TabHandles \ Members(g) :
                        ~(NodeBelow(h, l) /\ NodeBelow(l, k))

\* The order of the tab key: all stops once around, each group in one piece.
TabOrder == TabGoesRound /\ GroupsStayTogether

\* What InteractiveElement::tab_stop says: "focus the container, then call
\* `window.focus_next(cx)` to focus the first tab stop inside it while having
\* the container element itself be unreachable via the keyboard".
ContainerEntersGroup ==
    \A g \in DOMAIN groups :
        LET inside == (Members(g) \cap Stops) \ {groups[g].container}
        IN /\ groups[g].container \notin Stops \cup {0} /\ Alone(g)
           /\ inside # {}
           => next(groups[g].container) = LeastNode(inside)

=============================================================================
