------------------------------- MODULE Scene -------------------------------
(***************************************************************************)
(* The scene of a frame (crates/gpui/src/scene.rs): elements insert        *)
(* primitives, some of them in layers; each gets an order, its own from    *)
(* the tree of bounds or that of its layer.  finish sorts each kind by     *)
(* order and the renderer is given batches of one kind (BatchIterator).    *)
(* A primitive is its kind, its tile and the texture the tile is in;       *)
(* kinds are numbered as PrimitiveKind orders them, and one that is not    *)
(* a sprite has tile and texture 0.  replay runs these same operations.    *)
(***************************************************************************)
EXTENDS BoundsTree

CONSTANTS
    Rects,   \* the bounds used
    Prims,   \* triples <<kind, tile, texture>>
    MaxOps   \* bound: paint operations of the frame

\* Bounds have no negative size; kinds, tiles and textures are numbered.
ASSUME SceneAssumption ==
    /\ Rects \subseteq {r \in Int \X Int : r[1] <= r[2]}
    /\ Prims \subseteq Nat \X Nat \X Nat
    /\ MaxOps \in Nat

VARIABLES
    layer_stack,   \* the order, and the operation that pushed the layer
    primitives,    \* what was painted, with its bounds, order and layers
    paint_ops,     \* how many paint_operations there are
    finished,
    heads,         \* the iterator of each kind: what it has yet to give
    drawn          \* the primitives in the batches given so far

sceneVars == <<treeVars, layer_stack, primitives, paint_ops, finished, heads, drawn>>

Kinds == {p[1] : p \in Prims}

SceneInit ==
    /\ TreeInit
    /\ layer_stack = <<>> /\ primitives = <<>> /\ paint_ops = 0
    /\ finished = FALSE
    /\ heads = [k \in Kinds |-> <<>>]
    /\ drawn = <<>>

-----------------------------------------------------------------------------
Painting == ~finished /\ paint_ops < MaxOps /\ UNCHANGED <<finished, heads, drawn>>

PushLayer(b) ==
    /\ Painting
    /\ \E order \in 1..(MaxOps + 1) :
          /\ InsertBounds(b, order)
          /\ layer_stack' = Append(layer_stack, [order |-> order, op |-> paint_ops, bounds |-> b])
    /\ paint_ops' = paint_ops + 1
    /\ UNCHANGED primitives

\* paint_layer pops the layer it pushed.
PopLayer ==
    /\ ~finished /\ layer_stack # <<>>
    /\ layer_stack' = Front(layer_stack)
    /\ UNCHANGED <<treeVars, primitives, paint_ops, finished, heads, drawn>>

\* insert_primitive; one that its mask hides is not inserted.
InsertPrimitive(prim, b) ==
    /\ Painting
    /\ \E order \in 1..(MaxOps + 1) :
          /\ IF layer_stack # <<>> THEN order = Last(layer_stack).order /\ UNCHANGED treeVars
             ELSE InsertBounds(b, order)
          /\ primitives' = Append(primitives,
                                  [prim |-> prim, bounds |-> b, order |-> order,
                                   layers |-> layer_stack])
    /\ paint_ops' = paint_ops + 1
    /\ UNCHANGED layer_stack

-----------------------------------------------------------------------------
\* The kind of a primitive, and the key its kind is sorted by.
KindOf(i) == primitives[i].prim[1]
Before(i, j) ==
    \/ primitives[i].order < primitives[j].order
    \/ primitives[i].order = primitives[j].order
       /\ \/ primitives[i].prim[2] < primitives[j].prim[2]
          \/ primitives[i].prim[2] = primitives[j].prim[2] /\ i < j

\* The members of S in that order: each follows as many as are before it.
Sorted(S) ==
    [n \in 1..Cardinality(S) |-> CHOOSE i \in S : Cardinality({j \in S : Before(j, i)}) = n - 1]

\* Scene::finish, and batches.
FinishScene ==
    /\ ~finished /\ layer_stack = <<>> /\ primitives # <<>>
    /\ finished' = TRUE
    /\ heads' = [k \in Kinds |-> Sorted({i \in 1..Len(primitives) : KindOf(i) = k})]
    /\ UNCHANGED <<treeVars, layer_stack, primitives, paint_ops, drawn>>

\* (order, kind) < (order, kind), as tuples compare.
Precedes(a, b) == a[1] < b[1] \/ (a[1] = b[1] /\ a[2] < b[2])
Greatest == MaxOps + 1  \* u32::MAX
HeadKey(k) == <<IF heads[k] = <<>> THEN Greatest ELSE primitives[Head(heads[k])].order, k>>

\* Mutant of BatchEnd: a batch ends at another texture only.
BatchEndByTexture(k, next) ==
    CHOOSE n \in 1..Len(heads[k]) :
        LET Fits(m) == primitives[heads[k][m]].prim[3] = primitives[Head(heads[k])].prim[3]
        IN /\ \A m \in 2..n : Fits(m)
           /\ n < Len(heads[k]) => ~Fits(n + 1)

\* How many primitives the batch of kind k has, if `next` is the next key.
BatchEnd(k, next) ==
    CHOOSE n \in 1..Len(heads[k]) :
        LET Fits(m) == /\ Precedes(<<primitives[heads[k][m]].order, k>>, next)
                       /\ primitives[heads[k][m]].prim[3] = primitives[Head(heads[k])].prim[3]
        IN /\ \A m \in 2..n : Fits(m)
           /\ n < Len(heads[k]) => ~Fits(n + 1)

\* BatchIterator::next.
NextBatch ==
    \E k \in Kinds :
        LET others == Kinds \ {k}
            next == CHOOSE key \in {HeadKey(l) : l \in others} :
                        \A l \in others : ~Precedes(HeadKey(l), key)
            n == BatchEnd(k, next)
        IN /\ finished /\ heads[k] # <<>>
           /\ \A l \in others : Precedes(HeadKey(k), HeadKey(l))
           /\ drawn' = drawn \o SubSeq(heads[k], 1, n)
           /\ heads' = [heads EXCEPT ![k] = SubSeq(@, n + 1, Len(@))]
           /\ UNCHANGED <<treeVars, layer_stack, primitives, paint_ops, finished>>

SceneNext ==
    \/ \E b \in Rects : PushLayer(b) \/ \E prim \in Prims : InsertPrimitive(prim, b)
    \/ PopLayer
    \/ FinishScene
    \/ NextBatch

SceneSpec == SceneInit /\ [][SceneNext]_sceneVars

-----------------------------------------------------------------------------
\* The layers of a primitive are what paint_layer asks for: "a batch of
\* geometry that are non-overlapping"; the primitive stays inside.
InLayer(i) ==
    primitives[i].layers # <<>> =>
        LET b == Last(primitives[i].layers).bounds
        IN b[1] <= primitives[i].bounds[1] /\ primitives[i].bounds[2] <= b[2]
ShareLayer(i, j) ==
    \E k \in 1..Len(primitives[i].layers), l \in 1..Len(primitives[j].layers) :
        primitives[i].layers[k] = primitives[j].layers[l]

\* Of two primitives that overlap, the one painted later is drawn later, over
\* the other, although they are drawn kind by kind in batches.
\* Excepted are two in one layer, and one that sticks out of its layer.
DrawnInPaintOrder ==
    finished => \A i, j \in 1..Len(primitives) :
        /\ i < j /\ Intersects(primitives[i].bounds, primitives[j].bounds)
        /\ InLayer(i) /\ InLayer(j) /\ ~ShareLayer(i, j)
        /\ \E q \in 1..Len(drawn) : drawn[q] = j
        => \E p, q \in 1..Len(drawn) : p < q /\ drawn[p] = i /\ drawn[q] = j

\* From the tree's order to the batches, what is painted over something is
\* drawn over it.
PaintOrderIsKept == OrderIsOneAbove /\ DrawnInPaintOrder

=============================================================================
