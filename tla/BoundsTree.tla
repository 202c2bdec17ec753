----------------------------- MODULE BoundsTree -----------------------------
(***************************************************************************)
(* The tree of bounds that gives the primitives of a scene their drawing   *)
(* order (crates/gpui/src/bounds_tree.rs): an R-tree whose internal nodes  *)
(* know the bounds and the greatest order below them.  Bounds are          *)
(* intervals here, for the tree only asks whether two intersect, for their *)
(* union and for its size.                                                 *)
(***************************************************************************)
EXTENDS Integers, Sequences, SequencesExt, FiniteSetsExt

CONSTANT MaxChildren  \* MAX_CHILDREN, 12 in the code

ASSUME MaxChildrenAssumption == MaxChildren \in Nat \ {0, 1}

VARIABLES
    nodes,    \* indices of nodes are from 1; a leaf has no children
    root,     \* 0: none
    max_leaf  \* 0: none

treeVars == <<nodes, root, max_leaf>>

TreeInit == nodes = <<>> /\ root = 0 /\ max_leaf = 0

Intersects(a, b) == a[1] < b[2] /\ b[1] < a[2]
Hull(a, b) == <<Min({a[1], b[1]}), Max({a[2], b[2]})>>
HalfPerimeter(a) == a[2] - a[1]

IsLeaf(i) == nodes[i].children = <<>>

-----------------------------------------------------------------------------
\* The children that may have a greater order than was found go on the stack.
Extend(search_stack, children, found) ==
    LET extended[n \in 0..Len(children)] ==
            IF n = 0 THEN search_stack
            ELSE IF nodes[children[n]].max_order > found
                 THEN Append(extended[n - 1], children[n])
                 ELSE extended[n - 1]
    IN extended[Len(children)]

\* One turn of the search loop of find_max_ordering.
SearchTurn(query, s) ==
    LET node == nodes[Last(s.stack)]
        rest == Front(s.stack)
    IN IF s.stack = <<>> THEN s
       ELSE IF node.max_order <= s.found \/ ~Intersects(query, node.bounds)
            THEN [s EXCEPT !.stack = rest]
       ELSE IF node.children = <<>> THEN [stack |-> rest, found |-> node.max_order]
       ELSE [s EXCEPT !.stack = Extend(rest, node.children, s.found)]

\* The loop, which takes no node twice.
Search(query) ==
    LET turn[n \in 0..Len(nodes)] ==
            IF n = 0 THEN [stack |-> <<root>>, found |-> 0] ELSE SearchTurn(query, turn[n - 1])
    IN turn[Len(nodes)].found

find_max_ordering(query) ==
    CASE root = 0 -> 0
      [] root # 0 /\ Intersects(query, nodes[max_leaf].bounds) -> nodes[max_leaf].max_order
      [] OTHER -> Search(query)

-----------------------------------------------------------------------------
\* The child of i that grows least, the first of several.
BestPos(i, b) ==
    LET children == nodes[i].children
        Cost(p) == HalfPerimeter(Hull(b, nodes[children[p]].bounds))
    IN CHOOSE p \in 1..Len(children) :
           \A q \in 1..Len(children) : Cost(p) < Cost(q) \/ (Cost(p) = Cost(q) /\ p <= q)
BestChild(i, b) == nodes[i].children[BestPos(i, b)]

\* insert_path, from the root down to the node whose best child is a leaf.
Descend(path, b) ==
    LET child == BestChild(Last(path), b)
    IN IF IsLeaf(child) THEN path ELSE Append(path, child)
InsertPath(b) ==
    LET path[n \in 0..Len(nodes)] == IF n = 0 THEN <<root>> ELSE Descend(path[n - 1], b)
    IN path[Len(nodes)]

SwapAt(s, p, q) == [s EXCEPT ![p] = s[q], ![q] = s[p]]

Leaf(b, order) == [bounds |-> b, max_order |-> order, children |-> <<>>]

\* An internal node over leaf i and the new leaf, the greater order last.
Pair(i, b, order) ==
    LET new == Len(nodes) + 1
    IN [bounds |-> Hull(nodes[i].bounds, b),
        max_order |-> Max({nodes[i].max_order, order}),
        children |-> IF order > nodes[i].max_order THEN <<i, new>> ELSE <<new, i>>]

\* The children of the node at the end of the path after the insertion: the
\* new leaf is put beside them, or below one of them when there is no room.
LowestChildren(i, b, order) ==
    LET children == nodes[i].children
        new == Len(nodes) + 1
        pushed == Append(children, new)
        p == BestPos(i, b)
        replaced == [children EXCEPT ![p] = Len(nodes) + 2]
    IN IF Len(children) < MaxChildren
       THEN IF order <= nodes[i].max_order THEN SwapAt(pushed, Len(pushed) - 1, Len(pushed))
            ELSE pushed
       ELSE IF order > nodes[i].max_order THEN SwapAt(replaced, p, Len(replaced))
            ELSE replaced

\* The k-th node of the path after the insertion.
Propagated(path, k, b, order) ==
    LET node == nodes[path[k]]
        at == IF k = Len(path) THEN 0
              ELSE CHOOSE p \in 1..Len(node.children) : node.children[p] = path[k + 1]
    IN [bounds |-> Hull(node.bounds, b),
        max_order |-> Max({node.max_order, order}),
        children |-> CASE k = Len(path) -> LowestChildren(path[k], b, order)
                       [] k < Len(path) /\ order > node.max_order ->
                             SwapAt(node.children, at, Len(node.children))
                       [] OTHER -> node.children]

\* insert_leaf.
InsertLeaf(b, order) ==
    LET leaf == Leaf(b, order)
        new == Len(nodes) + 1
        path == InsertPath(b)
        lowest == path[Len(path)]
        full == Len(nodes[lowest].children) >= MaxChildren
        updated == [i \in 1..Len(nodes) |->
                       IF \E k \in 1..Len(path) : path[k] = i
                       THEN Propagated(path, CHOOSE k \in 1..Len(path) : path[k] = i, b, order)
                       ELSE nodes[i]]
    IN \/ root = 0 /\ nodes' = <<leaf>> /\ root' = 1
       \/ /\ root # 0 /\ IsLeaf(root)
          /\ nodes' = nodes \o <<leaf, Pair(root, b, order)>>
          /\ root' = new + 1
       \/ /\ root # 0 /\ ~IsLeaf(root)
          /\ nodes' = updated \o IF full THEN <<leaf, Pair(BestChild(lowest, b), b, order)>>
                                 ELSE <<leaf>>
          /\ UNCHANGED root

\* BoundsTree::insert; the order is the result.
InsertBounds(b, order) ==
    /\ order = find_max_ordering(b) + 1
    /\ InsertLeaf(b, order)
    /\ max_leaf' = IF max_leaf = 0 \/ nodes[max_leaf].max_order < order
                   THEN Len(nodes) + 1 ELSE max_leaf

Leaves == {i \in 1..Len(nodes) : IsLeaf(i)}

\* What BoundsTree::insert promises: "The ordering is one greater than the
\* maximum ordering of any existing bounds that intersect with the new
\* bounds".  Leaves are numbered as they were inserted.  The search prunes by
\* what the internal nodes say, which every insertion must bring up to date.
OrderIsOneAbove ==
    \A i \in Leaves :
        nodes[i].max_order =
            1 + Max({0} \cup {nodes[j].max_order :
                        j \in {l \in Leaves : l < i /\ Intersects(nodes[l].bounds, nodes[i].bounds)}})

=============================================================================
