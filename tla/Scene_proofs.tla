---------------------------- MODULE Scene_proofs ----------------------------
(***************************************************************************)
(* The scene, for any bounds, primitives and layers and any fan-out of the *)
(* tree of bounds.  SceneInv, the inductive invariant, joins three facts:  *)
(* the nodes are a tree in which each node covers what is under it, and so *)
(* the search that prunes finds the greatest order of all that overlap     *)
(* (TreeInv); the orders of what overlaps rise as it is painted, layers    *)
(* included (PaintInv); and batches leave nothing behind that is of a      *)
(* lower order than what they draw (DrawInv).                              *)
(***************************************************************************)
EXTENDS Scene, Numbers_proofs, FiniteSetTheorems, SequenceTheorems, TLAPS

\* Bounds, and one inside another.
RectSet == {r \in Int \X Int : r[1] <= r[2]}
Within(a, b) == b[1] <= a[1] /\ a[2] <= b[2]

\* What meets one of two bounds meets the one it is inside of too.
LEMMA RectFacts ==
    /\ \A a, b \in RectSet : /\ Hull(a, b) \in RectSet
                             /\ Within(a, Hull(a, b)) /\ Within(b, Hull(a, b))
                             /\ HalfPerimeter(Hull(a, b)) \in Nat
                             /\ Within(a, a)
                             /\ Intersects(a, b) <=> Intersects(b, a)
    /\ \A a, b, c \in RectSet : /\ Within(a, b) /\ Within(b, c) => Within(a, c)
                                /\ Within(a, b) /\ Intersects(c, a) => Intersects(c, b)
<1>1. ASSUME NEW a \in RectSet, NEW b \in RectSet
      PROVE  /\ Hull(a, b) \in RectSet
             /\ Within(a, Hull(a, b)) /\ Within(b, Hull(a, b))
             /\ HalfPerimeter(Hull(a, b)) \in Nat
             /\ Within(a, a)
             /\ Intersects(a, b) <=> Intersects(b, a)
  <2> DEFINE l == Min({a[1], b[1]})
             r == Max({a[2], b[2]})
  <2>1. /\ a[1] \in Int /\ a[2] \in Int /\ a[1] <= a[2]
        /\ b[1] \in Int /\ b[2] \in Int /\ b[1] <= b[2]
    BY DEF RectSet
  <2>2. l = (IF a[1] <= b[1] THEN a[1] ELSE b[1]) /\ r = IF a[2] >= b[2] THEN a[2] ELSE b[2]
    BY <2>1, MinOfTwo, MaxOfTwo
  <2>3. Hull(a, b) = <<l, r>>
    BY DEF Hull
  <2> HIDE DEF l, r
  <2>4. /\ l \in Int /\ r \in Int /\ l <= r /\ r - l \in Nat
        /\ l <= a[1] /\ a[2] <= r /\ l <= b[1] /\ b[2] <= r
    BY <2>1, <2>2
  <2>5. Hull(a, b)[1] = l /\ Hull(a, b)[2] = r
    BY <2>3
  <2>6. Hull(a, b) \in RectSet
    BY <2>3, <2>4 DEF RectSet
  <2> QED BY <2>1, <2>4, <2>5, <2>6 DEF Within, HalfPerimeter, Intersects
<1>2. ASSUME NEW a \in RectSet, NEW b \in RectSet, NEW c \in RectSet
      PROVE  /\ Within(a, b) /\ Within(b, c) => Within(a, c)
             /\ Within(a, b) /\ Intersects(c, a) => Intersects(c, b)
  BY DEF RectSet, Within, Intersects
<1> QED BY <1>1, <1>2

\* The entries of a sequence, no two with a node below in common.
Apart(under, s) ==
    \A p, q \in 1..Len(s) : p # q => under[s[p]] \cap under[s[q]] = {}
AllBelow(under, s) == UNION {under[s[p]] : p \in 1..Len(s)}

\* One more entry, with nothing below it that is below the others.
LEMMA AppendApart ==
    ASSUME NEW S, NEW s \in Seq(S), NEW c \in S, NEW under,
           Apart(under, s), AllBelow(under, s) \cap under[c] = {}
    PROVE  /\ Append(s, c) \in Seq(S)
           /\ Apart(under, Append(s, c))
           /\ AllBelow(under, Append(s, c)) = AllBelow(under, s) \cup under[c]
<1> DEFINE t == Append(s, c)
           n == Len(s)
<1>1. /\ t \in Seq(S) /\ Len(t) = n + 1 /\ n \in Nat /\ t[n + 1] = c
      /\ \A p \in 1..n : t[p] = s[p]
  OBVIOUS
<1> HIDE DEF t, n
<1>2. \A p \in 1..(n + 1) : p \in 1..n \/ p = n + 1
  BY <1>1
<1>3. n + 1 \in 1..(n + 1) /\ 1..n \subseteq 1..(n + 1) /\ n + 1 \notin 1..n
  BY <1>1
<1>4. \A p \in 1..n : under[t[p]] \cap under[c] = {}
  BY <1>1 DEF AllBelow, n
<1>5. Apart(under, t)
  BY <1>1, <1>2, <1>4 DEF Apart, n
<1>6. AllBelow(under, t) = AllBelow(under, s) \cup under[c]
  <2>1. \A x : x \in AllBelow(under, t) <=> \E p \in 1..(n + 1) : x \in under[t[p]]
    BY <1>1 DEF AllBelow
  <2>2. \A x : x \in AllBelow(under, s) <=> \E p \in 1..n : x \in under[s[p]]
    BY DEF AllBelow, n
  <2>3. \A x : (\E p \in 1..(n + 1) : x \in under[t[p]])
                 <=> (\E p \in 1..n : x \in under[s[p]]) \/ x \in under[c]
    BY <1>1, <1>2, <1>3, Zenon
  <2> QED BY <2>1, <2>2, <2>3
<1> QED BY <1>1, <1>5, <1>6 DEF t

\* The loop of Extend goes up the children.
ExtendIs(s, children, found, f) ==
    /\ Extend(s, children, found) = f[Len(children)] /\ f[0] = s
    /\ \A n \in 1..Len(children) : f[n] = IF nodes[children[n]].max_order > found
                                         THEN Append(f[n - 1], children[n]) ELSE f[n - 1]

\* There is such a loop for any children.
LEMMA ExtendLoop ==
    ASSUME NEW s, NEW children, Len(children) \in Nat, NEW found
    PROVE  \E f : ExtendIs(s, children, found, f)
<1> DEFINE K == Len(children)
           E(n, f) == IF n = 0 THEN s
                      ELSE IF nodes[children[n]].max_order > found
                           THEN Append(f[n - 1], children[n]) ELSE f[n - 1]
           Is(f) == f = [n \in 0..K |-> E(n, f)]
           F == CHOOSE f : Is(f)
           T == {k \in Nat : \E f : \A n \in 0..k : f[n] = E(n, f)}
<1>0. K \in Nat
  OBVIOUS
<1>1. Extend(s, children, found) = F[K]
  BY Zenon DEF Extend
<1>2. 0 \in T
  <2> DEFINE g == [n \in {0} |-> s]
  <2>1. \A n \in 0..0 : n = 0 /\ g[n] = s
    OBVIOUS
  <2>2. \A n \in 0..0 : g[n] = E(n, g)
    BY <2>1
  <2> QED BY <2>2
<1>3. ASSUME NEW k \in Nat, k \in T PROVE k + 1 \in T
  <2>1. PICK f : \A n \in 0..k : f[n] = E(n, f)
    BY <1>3
  <2> DEFINE g == [n \in 0..(k + 1) |-> E(n, f)]
  <2>2. \A n \in 0..(k + 1) : g[n] = E(n, f)
    <3> HIDE DEF E
    <3> QED OBVIOUS
  <2> HIDE DEF g
  <2>3. \A n \in 0..k : g[n] = f[n]
    <3> HIDE DEF E
    <3> QED BY <2>1, <2>2
  <2>4. \A n \in 0..(k + 1) : n # 0 => n - 1 \in 0..k
    OBVIOUS
  <2>5. \A n \in 0..(k + 1) : E(n, g) = E(n, f)
    BY <2>3, <2>4
  <2>6. \A n \in 0..(k + 1) : g[n] = E(n, g)
    <3> HIDE DEF E
    <3> QED BY <2>2, <2>5
  <2> HIDE DEF E
  <2> QED BY <2>6
<1>4. \E f : Is(f)
  <2>1. K \in T
    <3> HIDE DEF T
    <3> QED BY <1>0, <1>2, <1>3, SetInduction
  <2>2. PICK f : \A n \in 0..K : f[n] = E(n, f)
    <3> HIDE DEF E
    <3> QED BY <2>1
  <2> DEFINE g == [n \in 0..K |-> E(n, f)]
  <2>3. \A n \in 0..K : g[n] = f[n]
    <3> HIDE DEF E
    <3> QED BY <2>2
  <2>4. \A n \in 0..K : n # 0 => n - 1 \in 0..K
    BY <1>0
  <2> HIDE DEF g
  <2>5. \A n \in 0..K : E(n, g) = E(n, f)
    BY <2>3, <2>4
  <2> USE DEF g
  <2>6. g = [n \in 0..K |-> E(n, g)]
    <3> HIDE DEF E
    <3> QED BY <2>5
  <2> QED BY <2>6
<1>5. \A n \in 0..K : F[n] = E(n, F)
  <2>1. Is(F)
    BY <1>4
  <2> HIDE DEF E, F
  <2> QED BY <2>1
<1>6. 0 \in 0..K /\ \A n \in 1..K : n \in 0..K /\ n # 0
  BY <1>0
<1> HIDE DEF F
<1>7. ExtendIs(s, children, found, F)
  BY <1>1, <1>5, <1>6 DEF ExtendIs
<1> QED BY <1>7

\* What Extend leaves on the stack.
LEMMA ExtendFacts ==
    ASSUME NEW S, NEW s \in Seq(S), NEW children \in Seq(S), NEW found, NEW under,
           Apart(under, s), Apart(under, children),
           AllBelow(under, s) \cap AllBelow(under, children) = {}
    PROVE  LET t == Extend(s, children, found)
           IN /\ t \in Seq(S) /\ Apart(under, t)
              /\ AllBelow(under, t) =
                    AllBelow(under, s)
                      \cup UNION {under[children[m]] : m \in {k \in 1..Len(children) :
                                                        nodes[children[k]].max_order > found}}
<1> DEFINE K == Len(children)
           More(n) == {k \in 1..n : nodes[children[k]].max_order > found}
           Got(n) == UNION {under[children[m]] : m \in More(n)}
           Good(n, t) == /\ t \in Seq(S) /\ Apart(under, t)
                         /\ AllBelow(under, t) = AllBelow(under, s) \cup Got(n)
<1>0. K \in Nat /\ \A n \in 1..K : children[n] \in S
  OBVIOUS
<1>1a. PICK f : ExtendIs(s, children, found, f)
  BY <1>0, ExtendLoop
<1>1. /\ Extend(s, children, found) = f[K] /\ f[0] = s
      /\ \A n \in 1..K : f[n] = IF nodes[children[n]].max_order > found
                                THEN Append(f[n - 1], children[n]) ELSE f[n - 1]
  BY <1>1a DEF ExtendIs
<1> DEFINE T == {n \in Nat : n <= K => Good(n, f[n])}
<1>2. 0 \in T
  <2>1. Got(0) = {}
    OBVIOUS
  <2> HIDE DEF Got
  <2>2. Good(0, s)
    BY <2>1
  <2>3. Good(0, f[0])
    BY <1>1, <2>2
  <2> HIDE DEF Good
  <2> QED BY <2>3
<1>3. ASSUME NEW n \in Nat, n \in T PROVE n + 1 \in T
  <2> SUFFICES ASSUME n + 1 <= K PROVE Good(n + 1, f[n + 1])
    OBVIOUS
  <2> DEFINE c == children[n + 1]
             more == nodes[c].max_order > found
  <2>1. n + 1 \in 1..K /\ n <= K /\ (n + 1) - 1 = n
    BY <1>0
  <2>2. Good(n, f[n]) /\ c \in S
    BY <1>0, <1>3, <2>1
  <2>3. f[n + 1] = IF more THEN Append(f[n], c) ELSE f[n]
    BY <1>1, <2>1
  <2>4. More(n + 1) = IF more THEN More(n) \cup {n + 1} ELSE More(n)
    <3>1. \A k \in 1..(n + 1) : k \in 1..n \/ k = n + 1
      OBVIOUS
    <3>2. 1..n \subseteq 1..(n + 1) /\ n + 1 \in 1..(n + 1) /\ n + 1 \notin 1..n
      OBVIOUS
    <3> QED BY <3>1, <3>2
  <2>5. CASE ~more
    BY <2>2, <2>3, <2>4, <2>5
  <2>6. CASE more
    <3>1. AllBelow(under, f[n]) \cap under[c] = {}
      <4>1. AllBelow(under, s) \cap under[c] = {}
        BY <1>0, <2>1 DEF AllBelow
      <4>2. \A m \in More(n) : under[children[m]] \cap under[c] = {}
        <5>1. \A m \in 1..n : m \in 1..K /\ m # n + 1
          BY <2>1
        <5> QED BY <2>1, <5>1 DEF Apart
      <4>3. \A x \in Got(n) : x \notin under[c]
        BY <4>2
      <4> HIDE DEF More, more, c, Got
      <4> QED BY <2>2, <4>1, <4>3
    <3>2. /\ Append(f[n], c) \in Seq(S) /\ Apart(under, Append(f[n], c))
          /\ AllBelow(under, Append(f[n], c)) = AllBelow(under, f[n]) \cup under[c]
      <4> HIDE DEF More, more, c
      <4> QED BY <2>2, <3>1, AppendApart
    <3>3. Got(n + 1) = Got(n) \cup under[c]
      <4>1. \A x : x \in Got(n + 1) <=> \E m \in More(n + 1) : x \in under[children[m]]
        BY Zenon
      <4>2. \A x : x \in Got(n) <=> \E m \in More(n) : x \in under[children[m]]
        BY Zenon
      <4>3. More(n + 1) = More(n) \cup {n + 1}
        BY <2>4, <2>6
      <4> HIDE DEF More, more, Got
      <4>4. \A x : x \in Got(n + 1) <=> x \in Got(n) \/ x \in under[c]
        BY <4>1, <4>2, <4>3
      <4> QED BY <4>4
    <3> HIDE DEF More, more, c, Got
    <3> QED BY <2>2, <2>3, <2>6, <3>2, <3>3
  <2> QED BY <2>5, <2>6
<1>4. K \in T
  <2> HIDE DEF T
  <2> QED BY <1>0, <1>2, <1>3, SetInduction
<1> QED BY <1>0, <1>1, <1>4

(***************************************************************************)
(* The tree of bounds.  That `under`, the nodes at and below each node,    *)
(* exists says that the nodes are a tree; and what a node says of its      *)
(* bounds and greatest order is true of all below it.                      *)
(***************************************************************************)
\* Node, whose children are positions in the list of nodes.
TreeNode == [bounds : RectSet, max_order : Nat, children : Seq(Nat)]

KidsOf ==
    [i \in 1..Len(nodes) |-> {nodes[i].children[p] : p \in 1..Len(nodes[i].children)}]

\* `under` is what is at and below each node of `all`: a node and what is under
\* its children, each of which has one parent and nothing in common with another.
Forest(kids, under, all) ==
    /\ kids \in [all -> SUBSET all] /\ under \in [all -> SUBSET all]
    /\ \A i, x \in all : x \in under[i] <=> x = i \/ \E c \in kids[i] : x \in under[c]
    /\ \A i \in all : \A c \in kids[i] : i \notin under[c]
    /\ \A i \in all : \A c, d \in kids[i] : c # d => under[c] \cap under[d] = {}
    /\ \A i, j \in all : kids[i] \cap kids[j] # {} => i = j
    /\ \A i \in all : \A j \in under[i] : under[j] \subseteq under[i]

ChildrenDiffer ==
    \A i \in 1..Len(nodes) : \A p, q \in 1..Len(nodes[i].children) :
        p # q => nodes[i].children[p] # nodes[i].children[q]

\* What a node says of its bounds and its greatest order holds below it.
NodesCover(under) ==
    \A i \in 1..Len(nodes) : \A j \in under[i] :
        Within(nodes[j].bounds, nodes[i].bounds) /\ nodes[j].max_order <= nodes[i].max_order

Tree(under) ==
    /\ nodes \in Seq(TreeNode) /\ root \in 1..Len(nodes)
    /\ ChildrenDiffer
    /\ Forest(KidsOf, under, 1..Len(nodes)) /\ under[root] = 1..Len(nodes)
    /\ NodesCover(under)

\* What is known of a node of the tree.
LEMMA NodeFacts ==
    ASSUME NEW under, Tree(under), NEW i \in 1..Len(nodes)
    PROVE  /\ Len(nodes) \in Nat
           /\ nodes[i].bounds \in RectSet /\ nodes[i].max_order \in Nat
           /\ nodes[i].children \in Seq(1..Len(nodes))
           /\ under[i] \subseteq 1..Len(nodes) /\ i \in under[i]
           /\ Apart(under, nodes[i].children)
           /\ AllBelow(under, nodes[i].children) = under[i] \ {i}
           /\ IsLeaf(i) => under[i] = {i}
           /\ IsLeaf(i) <=> nodes[i].children = <<>>
           /\ KidsOf[i] = {nodes[i].children[p] : p \in 1..Len(nodes[i].children)}
<1> DEFINE c == nodes[i].children
           all == 1..Len(nodes)
<1>1. nodes[i] \in TreeNode /\ Len(nodes) \in Nat
  BY DEF Tree
<1>2. nodes[i].bounds \in RectSet /\ nodes[i].max_order \in Nat /\ c \in Seq(Nat)
  BY <1>1 DEF TreeNode
<1>3. KidsOf[i] = {c[p] : p \in 1..Len(c)}
  BY DEF KidsOf
<1>4. /\ KidsOf[i] \in SUBSET all /\ under \in [all -> SUBSET all]
      /\ \A x \in all : x \in under[i] <=> x = i \/ \E d \in KidsOf[i] : x \in under[d]
      /\ \A d \in KidsOf[i] : i \notin under[d]
      /\ \A d, e \in KidsOf[i] : d # e => under[d] \cap under[e] = {}
  BY DEF Tree, Forest
<1>5. \A p, q \in 1..Len(c) : p # q => c[p] # c[q]
  BY DEF Tree, ChildrenDiffer
<1> HIDE DEF c
<1>6. \A p \in 1..Len(c) : c[p] \in KidsOf[i] /\ c[p] \in all
  BY <1>3, <1>4
<1>7. c \in Seq(all)
  <2>1. c \in [1..Len(c) -> all] /\ Len(c) \in Nat
    BY <1>2, <1>6
  <2> HIDE DEF all
  <2> QED BY <2>1
<1>8. Apart(under, c)
  BY <1>4, <1>5, <1>6 DEF Apart
<1>9. \A x : x \in AllBelow(under, c) <=> \E p \in 1..Len(c) : x \in under[c[p]]
  BY DEF AllBelow
<1>10. \A x \in AllBelow(under, c) : x \in under[i] /\ x # i
  <2>1. \A d \in all : under[d] \subseteq all
    BY <1>4
  <2> HIDE DEF all
  <2> QED BY <1>4, <1>6, <1>9, <2>1
<1>11. \A x \in under[i] : x # i => x \in AllBelow(under, c)
  <2> SUFFICES ASSUME NEW x \in under[i], x # i PROVE x \in AllBelow(under, c)
    OBVIOUS
  <2>1. PICK d \in KidsOf[i] : x \in under[d]
    BY <1>4
  <2>2. PICK p \in 1..Len(c) : d = c[p]
    BY <1>3
  <2> QED BY <1>9, <2>1, <2>2
<1>12. i \in under[i] /\ under[i] \subseteq all
  BY <1>4
<1>13. c = <<>> => under[i] = {i}
  <2>1. c = <<>> => \A x : x \notin AllBelow(under, c)
    BY <1>9
  <2> QED BY <1>11, <1>12, <2>1
<1> QED BY <1>1, <1>2, <1>3, <1>7, <1>8, <1>10, <1>11, <1>12, <1>13 DEF IsLeaf, c

\* The last of a stack, and the rest.
LEMMA LastFrontFacts ==
    ASSUME NEW S, NEW s \in Seq(S), s # <<>>
    PROVE  /\ Len(s) \in Nat /\ Len(s) # 0 /\ Last(s) = s[Len(s)] /\ Last(s) \in S
           /\ Front(s) \in Seq(S) /\ Len(Front(s)) = Len(s) - 1
           /\ \A p \in 1..(Len(s) - 1) : Front(s)[p] = s[p]
<1> DEFINE n == Len(s) - 1
<1>1. Len(s) \in Nat /\ Len(s) # 0 /\ Last(s) = s[Len(s)]
  BY DEF Last
<1>2. Last(s) \in S
  BY <1>1
<1>3. Front(s) = SubSeq(s, 1, n)
  BY DEF Front
<1>4. n \in Nat /\ \A i \in 1..n : s[i] \in S
  BY <1>1
<1> HIDE DEF n
<1>5. /\ SubSeq(s, 1, n) \in Seq(S) /\ Len(SubSeq(s, 1, n)) = IF 1 <= n THEN n - 1 + 1 ELSE 0
      /\ \A p \in 1..(n - 1 + 1) : SubSeq(s, 1, n)[p] = s[1 + p - 1]
  BY <1>4, SubSeqProperties
<1>6. Len(SubSeq(s, 1, n)) = n /\ \A p \in 1..n : SubSeq(s, 1, n)[p] = s[p]
  BY <1>4, <1>5
<1> QED BY <1>1, <1>2, <1>3, <1>5, <1>6 DEF n

\* What is below a stack is below its last entry or below the rest.
LEMMA PopApart ==
    ASSUME NEW S, NEW s \in Seq(S), s # <<>>, NEW under, Apart(under, s)
    PROVE  /\ Apart(under, Front(s))
           /\ AllBelow(under, Front(s)) \cap under[Last(s)] = {}
           /\ AllBelow(under, s) = AllBelow(under, Front(s)) \cup under[Last(s)]
<1> DEFINE n == Len(s)
           t == Front(s)
<1>1. /\ n \in Nat /\ n # 0 /\ Last(s) = s[n] /\ Len(t) = n - 1
      /\ \A p \in 1..(n - 1) : t[p] = s[p]
  BY LastFrontFacts
<1> HIDE DEF t, n
<1>2. /\ \A p \in 1..n : p \in 1..(n - 1) \/ p = n
      /\ 1..(n - 1) \subseteq 1..n /\ n \in 1..n /\ n \notin 1..(n - 1)
  BY <1>1
<1>3. Apart(under, t)
  BY <1>1, <1>2 DEF Apart, n
<1>4. \A x : x \in AllBelow(under, t) <=> \E p \in 1..(n - 1) : x \in under[s[p]]
  BY <1>1 DEF AllBelow
<1>5. \A x : x \in AllBelow(under, s) <=> \E p \in 1..n : x \in under[s[p]]
  BY DEF AllBelow, n
<1>6. \A x : (\E p \in 1..n : x \in under[s[p]])
                <=> (\E p \in 1..(n - 1) : x \in under[s[p]]) \/ x \in under[s[n]]
  BY <1>2, Zenon
<1>7. AllBelow(under, s) = AllBelow(under, t) \cup under[s[n]]
  BY <1>4, <1>5, <1>6
<1>8. \A p \in 1..(n - 1) : under[s[p]] \cap under[s[n]] = {}
  BY <1>2 DEF Apart, n
<1>9. \A x \in AllBelow(under, t) : x \notin under[s[n]]
  BY <1>4, <1>8
<1> QED BY <1>1, <1>3, <1>7, <1>9 DEF t

\* The leaves that the search looks for.
Met(query) == {j \in Leaves : Intersects(query, nodes[j].bounds)}

\* What the search knows after n turns: a leaf that it looks for is among the
\* nodes it has yet to take, or has no greater order than it found.
Searched(under, query, s, n) ==
    /\ s \in [stack : Seq(1..Len(nodes)), found : Nat]
    /\ Apart(under, s.stack)
    /\ s.stack # <<>> => n + Cardinality(AllBelow(under, s.stack)) <= Len(nodes)
    /\ \A j \in Met(query) : nodes[j].max_order <= s.found \/ j \in AllBelow(under, s.stack)
    /\ s.found = 0 \/ \E j \in Met(query) : nodes[j].max_order = s.found

\* A turn takes at least the node it looks at.
LEMMA FewerBelow ==
    ASSUME NEW under, Tree(under), NEW s \in Seq(1..Len(nodes)), NEW t \in Seq(1..Len(nodes)),
           NEW i \in AllBelow(under, s), AllBelow(under, t) \subseteq AllBelow(under, s) \ {i}
    PROVE  /\ Cardinality(AllBelow(under, t)) \in Nat
           /\ Cardinality(AllBelow(under, t)) + 1 <= Cardinality(AllBelow(under, s))
           /\ Cardinality(AllBelow(under, s)) \in Nat
<1> DEFINE S == AllBelow(under, s)
           T == AllBelow(under, t)
<1>1. S \subseteq 1..Len(nodes)
  <2>1. \A k \in 1..Len(nodes) : under[k] \subseteq 1..Len(nodes)
    BY NodeFacts
  <2>2. \A p \in 1..Len(s) : s[p] \in 1..Len(nodes)
    OBVIOUS
  <2>3. \A x \in S : \E p \in 1..Len(s) : x \in under[s[p]]
    BY DEF AllBelow
  <2> QED BY <2>1, <2>2, <2>3
<1> HIDE DEF S, T
<1>2. IsFiniteSet(S)
  <2>1. Len(nodes) \in Nat
    BY DEF Tree
  <2>2. IsFiniteSet(1..Len(nodes))
    BY <2>1, FS_Interval
  <2> QED BY <1>1, <2>2, FS_Subset
<1>3. i \in S /\ T \subseteq S \ {i}
  BY DEF S, T
<1>4. IsFiniteSet(S \ {i}) /\ Cardinality(S \ {i}) = Cardinality(S) - 1
  BY <1>2, <1>3, FS_RemoveElement
<1>5. IsFiniteSet(T) /\ Cardinality(T) <= Cardinality(S \ {i})
  BY <1>3, <1>4, FS_Subset
<1>6. Cardinality(T) \in Nat /\ Cardinality(S) \in Nat
  BY <1>2, <1>5, FS_CardinalityType
<1> QED BY <1>4, <1>5, <1>6 DEF S, T

\* A turn of the search keeps what the search knows.
LEMMA TurnSearches ==
    ASSUME NEW under, Tree(under), NEW query \in RectSet, NEW n \in Nat, NEW s,
           Searched(under, query, s, n)
    PROVE  Searched(under, query, SearchTurn(query, s), n + 1)
<1> DEFINE N == 1..Len(nodes)
           stack == s.stack
           found == s.found
           i == Last(stack)
           rest == Front(stack)
           node == nodes[i]
           turn == SearchTurn(query, s)
<1>1. /\ s \in [stack : Seq(N), found : Nat] /\ stack \in Seq(N) /\ found \in Nat
      /\ Apart(under, stack)
      /\ stack # <<>> => n + Cardinality(AllBelow(under, stack)) <= Len(nodes)
      /\ \A j \in Met(query) : nodes[j].max_order <= found \/ j \in AllBelow(under, stack)
      /\ found = 0 \/ \E j \in Met(query) : nodes[j].max_order = found
  BY DEF Searched
<1>2. CASE stack = <<>>
  <2>1. turn = s
    BY <1>2 DEF SearchTurn
  <2> HIDE DEF turn
  <2> QED BY <1>1, <1>2, <2>1 DEF Searched, turn
<1> SUFFICES ASSUME stack # <<>> PROVE Searched(under, query, turn, n + 1)
  BY <1>2
<1>3. /\ i \in N /\ rest \in Seq(N) /\ Apart(under, rest)
      /\ AllBelow(under, rest) \cap under[i] = {}
      /\ AllBelow(under, stack) = AllBelow(under, rest) \cup under[i]
  <2> HIDE DEF N
  <2> QED BY <1>1, LastFrontFacts, PopApart
<1>4. /\ Len(nodes) \in Nat
      /\ node.bounds \in RectSet /\ node.max_order \in Nat /\ node.children \in Seq(N)
      /\ under[i] \subseteq N /\ i \in under[i]
      /\ Apart(under, node.children)
      /\ AllBelow(under, node.children) = under[i] \ {i}
      /\ IsLeaf(i) => under[i] = {i}
      /\ IsLeaf(i) <=> node.children = <<>>
  BY <1>3, NodeFacts
<1>5. \A j \in Met(query) : /\ j \in N /\ nodes[j].bounds \in RectSet /\ nodes[j].max_order \in Nat
                            /\ Intersects(query, nodes[j].bounds) /\ IsLeaf(j)
  BY NodeFacts DEF Met, Leaves
<1>6. \A k \in N : \A j \in under[k] :
         Within(nodes[j].bounds, nodes[k].bounds) /\ nodes[j].max_order <= nodes[k].max_order
  BY DEF Tree, NodesCover
<1>7. \A k \in N : nodes[k].bounds \in RectSet /\ nodes[k].max_order \in Nat /\ under[k] \subseteq N
  BY NodeFacts
\* The new stack has less below it than the old one.
<1>8. ASSUME NEW t \in Seq(N), AllBelow(under, t) \subseteq AllBelow(under, stack) \ {i}
      PROVE  (n + 1) + Cardinality(AllBelow(under, t)) <= Len(nodes)
  <2>1. /\ Cardinality(AllBelow(under, t)) \in Nat /\ Cardinality(AllBelow(under, stack)) \in Nat
        /\ Cardinality(AllBelow(under, t)) + 1 <= Cardinality(AllBelow(under, stack))
    <3>1. i \in AllBelow(under, stack)
      BY <1>3, <1>4
    <3> HIDE DEF i, stack
    <3> QED BY <1>1, <1>8, <3>1, FewerBelow DEF N
  <2> HIDE DEF stack
  <2> QED BY <1>1, <1>4, <2>1
<1>9. AllBelow(under, rest) \subseteq AllBelow(under, stack) \ {i}
  BY <1>3, <1>4
\* It is enough to say what the new stack and the new order are.
<1>10. ASSUME NEW t \in Seq(N), NEW f \in Nat, turn = [stack |-> t, found |-> f],
              Apart(under, t), AllBelow(under, t) \subseteq AllBelow(under, stack) \ {i},
              \A j \in Met(query) : nodes[j].max_order <= f \/ j \in AllBelow(under, t),
              f = 0 \/ \E j \in Met(query) : nodes[j].max_order = f
       PROVE  Searched(under, query, turn, n + 1)
  <2>1. (n + 1) + Cardinality(AllBelow(under, t)) <= Len(nodes)
    BY <1>8, <1>10
  <2> HIDE DEF turn, i, stack
  <2>2. turn \in [stack : Seq(N), found : Nat] /\ turn.stack = t /\ turn.found = f
    BY <1>10
  <2> QED BY <1>10, <2>1, <2>2 DEF Searched
<1>11. turn = IF node.max_order <= found \/ ~Intersects(query, node.bounds)
              THEN [s EXCEPT !.stack = rest]
              ELSE IF node.children = <<>> THEN [stack |-> rest, found |-> node.max_order]
              ELSE [s EXCEPT !.stack = Extend(rest, node.children, found)]
  BY DEF SearchTurn
<1>12. \A t : [s EXCEPT !.stack = t] = [stack |-> t, found |-> found]
  BY <1>1
<1>13. CASE node.max_order <= found \/ ~Intersects(query, node.bounds)
  <2>1. turn = [stack |-> rest, found |-> found]
    BY <1>11, <1>12, <1>13
  <2>2. ASSUME NEW j \in Met(query), j \in under[i] PROVE nodes[j].max_order <= found
    <3>1. Within(nodes[j].bounds, node.bounds) /\ nodes[j].max_order <= node.max_order
      BY <1>3, <1>6, <2>2
    <3>2. Intersects(query, node.bounds)
      <4> HIDE DEF node
      <4> QED BY <1>4, <1>5, <3>1, RectFacts
    <3>3. nodes[j].max_order \in Nat
      BY <1>5
    <3> HIDE DEF node, found
    <3> QED BY <1>1, <1>4, <1>13, <3>1, <3>2, <3>3
  <2>3. \A j \in Met(query) : nodes[j].max_order <= found \/ j \in AllBelow(under, rest)
    <3> HIDE DEF i, rest, stack, found
    <3> QED BY <1>1, <1>3, <2>2
  <2> HIDE DEF turn, i, rest, stack, found, N
  <2> QED BY <1>1, <1>3, <1>9, <1>10, <2>1, <2>3
<1>14. CASE ~(node.max_order <= found \/ ~Intersects(query, node.bounds)) /\ node.children = <<>>
  <2>1. turn = [stack |-> rest, found |-> node.max_order]
    BY <1>11, <1>14
  <2>2. under[i] = {i} /\ IsLeaf(i)
    BY <1>4, <1>14
  <2>3. i \in Met(query)
    BY <1>3, <1>14, <2>2 DEF Met, Leaves
  <2>4. ASSUME NEW j \in Met(query)
        PROVE  nodes[j].max_order <= node.max_order \/ j \in AllBelow(under, rest)
    <3>1. nodes[j].max_order \in Nat
      BY <1>5
    <3>2. j = i \/ j \in AllBelow(under, rest) \/ nodes[j].max_order <= found
      BY <1>1, <1>3, <2>2
    <3>3. j = i => nodes[j].max_order = node.max_order
      OBVIOUS
    <3>4. found < node.max_order
      BY <1>1, <1>4, <1>14
    <3> HIDE DEF node, i, rest, stack, found
    <3> QED BY <1>1, <1>4, <3>1, <3>2, <3>3, <3>4
  <2>5. \E j \in Met(query) : nodes[j].max_order = node.max_order
    BY <2>3
  <2> HIDE DEF turn, i, rest, stack, found, N, node
  <2> QED BY <1>3, <1>4, <1>9, <1>10, <2>1, <2>4, <2>5
<1>15. CASE ~(node.max_order <= found \/ ~Intersects(query, node.bounds)) /\ node.children # <<>>
  <2> DEFINE c == node.children
             t == Extend(rest, c, found)
             More == {k \in 1..Len(c) : nodes[c[k]].max_order > found}
             Got == UNION {under[c[m]] : m \in More}
  <2>1. turn = [stack |-> t, found |-> found]
    BY <1>11, <1>12, <1>15
  <2>2. ~IsLeaf(i)
    BY <1>4, <1>15
  <2>3. AllBelow(under, rest) \cap AllBelow(under, c) = {}
    <3> HIDE DEF i, rest, stack, found, N
    <3> QED BY <1>3, <1>4
  <2>4. t \in Seq(N) /\ Apart(under, t) /\ AllBelow(under, t) = AllBelow(under, rest) \cup Got
    <3>1. c \in Seq(N) /\ Apart(under, c) /\ Apart(under, rest) /\ rest \in Seq(N)
      BY <1>3, <1>4
    <3> HIDE DEF c, rest, found, N
    <3> QED BY <2>3, <3>1, ExtendFacts
  <2>5. \A x : x \in Got <=> \E m \in More : x \in under[c[m]]
    BY Zenon
  <2>6. \A x : x \in AllBelow(under, c) <=> \E p \in 1..Len(c) : x \in under[c[p]]
    BY DEF AllBelow
  <2>7. \A m \in More : m \in 1..Len(c)
    OBVIOUS
  <2> HIDE DEF Got
  <2>8. Got \subseteq AllBelow(under, c)
    BY <2>5, <2>6, <2>7
  <2>9. AllBelow(under, t) \subseteq AllBelow(under, stack) \ {i}
    <3> HIDE DEF i, rest, stack, found, N, t, c
    <3> QED BY <1>3, <1>4, <2>4, <2>8, <1>9 DEF c
  <2>10. ASSUME NEW j \in Met(query)
         PROVE  nodes[j].max_order <= found \/ j \in AllBelow(under, t)
    <3> SUFFICES ASSUME j \in under[i] PROVE nodes[j].max_order <= found \/ j \in Got
      <4> HIDE DEF i, rest, stack, found, N, t, c
      <4> QED BY <1>1, <1>3, <2>4
    <3>1. j # i /\ j \in AllBelow(under, c)
      BY <1>4, <1>5, <2>2
    <3>2. PICK p \in 1..Len(c) : j \in under[c[p]]
      BY <2>6, <3>1
    <3>3. c[p] \in N
      BY <1>4
    <3>4. nodes[j].max_order <= nodes[c[p]].max_order /\ nodes[c[p]].max_order \in Nat
          /\ nodes[j].max_order \in Nat
      BY <1>5, <1>6, <1>7, <3>2, <3>3
    <3>5. CASE nodes[c[p]].max_order > found
      BY <2>5, <3>2, <3>5
    <3>6. CASE ~(nodes[c[p]].max_order > found)
      <4>1. found \in Nat
        BY <1>1
      <4> HIDE DEF c, found
      <4>2. nodes[j].max_order <= found
        BY <3>4, <3>6, <4>1
      <4> QED BY <4>2
    <3> QED BY <3>5, <3>6
  <2> HIDE DEF turn, i, rest, stack, found, N, t
  <2> QED BY <1>1, <1>10, <2>1, <2>4, <2>9, <2>10
<1> QED BY <1>13, <1>14, <1>15

\* The loop of Search.
SearchIs(query, f) ==
    /\ Search(query) = f[Len(nodes)].found
    /\ f[0] = [stack |-> <<root>>, found |-> 0]
    /\ \A n \in 1..Len(nodes) : f[n] = SearchTurn(query, f[n - 1])

\* There is such a loop.
LEMMA SearchLoop ==
    ASSUME Len(nodes) \in Nat, NEW query
    PROVE  \E f : SearchIs(query, f)
<1> DEFINE K == Len(nodes)
           E(n, f) == IF n = 0 THEN [stack |-> <<root>>, found |-> 0]
                      ELSE SearchTurn(query, f[n - 1])
           Is(f) == f = [n \in 0..K |-> E(n, f)]
           F == CHOOSE f : Is(f)
           T == {k \in Nat : \E f : \A n \in 0..k : f[n] = E(n, f)}
<1>0. K \in Nat
  OBVIOUS
<1>1. Search(query) = F[K].found
  BY Zenon DEF Search
<1>2. 0 \in T
  <2> DEFINE g == [n \in {0} |-> [stack |-> <<root>>, found |-> 0]]
  <2>1. \A n \in 0..0 : n = 0 /\ g[n] = [stack |-> <<root>>, found |-> 0]
    OBVIOUS
  <2>2. \A n \in 0..0 : g[n] = E(n, g)
    BY <2>1
  <2> QED BY <2>2
<1>3. ASSUME NEW k \in Nat, k \in T PROVE k + 1 \in T
  <2>1. PICK f : \A n \in 0..k : f[n] = E(n, f)
    BY <1>3
  <2> DEFINE g == [n \in 0..(k + 1) |-> E(n, f)]
  <2>2. \A n \in 0..(k + 1) : g[n] = E(n, f)
    <3> HIDE DEF E
    <3> QED OBVIOUS
  <2> HIDE DEF g
  <2>3. \A n \in 0..k : g[n] = f[n]
    <3> HIDE DEF E
    <3> QED BY <2>1, <2>2
  <2>4. \A n \in 0..(k + 1) : n # 0 => n - 1 \in 0..k
    OBVIOUS
  <2>5. \A n \in 0..(k + 1) : E(n, g) = E(n, f)
    BY <2>3, <2>4
  <2>6. \A n \in 0..(k + 1) : g[n] = E(n, g)
    <3> HIDE DEF E
    <3> QED BY <2>2, <2>5
  <2> HIDE DEF E
  <2> QED BY <2>6
<1>4. \E f : Is(f)
  <2>1. K \in T
    <3> HIDE DEF T
    <3> QED BY <1>0, <1>2, <1>3, SetInduction
  <2>2. PICK f : \A n \in 0..K : f[n] = E(n, f)
    <3> HIDE DEF E
    <3> QED BY <2>1
  <2> DEFINE g == [n \in 0..K |-> E(n, f)]
  <2>3. \A n \in 0..K : g[n] = f[n]
    <3> HIDE DEF E
    <3> QED BY <2>2
  <2>4. \A n \in 0..K : n # 0 => n - 1 \in 0..K
    BY <1>0
  <2> HIDE DEF g
  <2>5. \A n \in 0..K : E(n, g) = E(n, f)
    BY <2>3, <2>4
  <2> USE DEF g
  <2>6. g = [n \in 0..K |-> E(n, g)]
    <3> HIDE DEF E
    <3> QED BY <2>5
  <2> QED BY <2>6
<1>5. \A n \in 0..K : F[n] = E(n, F)
  <2>1. Is(F)
    BY <1>4
  <2> HIDE DEF E, F
  <2> QED BY <2>1
<1>6. 0 \in 0..K /\ \A n \in 1..K : n \in 0..K /\ n # 0
  BY <1>0
<1> HIDE DEF F
<1>7. SearchIs(query, F)
  BY <1>1, <1>5, <1>6 DEF SearchIs
<1> QED BY <1>7

\* The greatest order among the leaves that a query meets.
GreatestMet(query, m) ==
    /\ m \in Nat
    /\ \A j \in Met(query) : nodes[j].max_order <= m
    /\ m = 0 \/ \E j \in Met(query) : nodes[j].max_order = m

\* The slow path of find_max_ordering finds the greatest order it looks for.
LEMMA SearchFinds ==
    ASSUME NEW under, Tree(under), NEW query \in RectSet
    PROVE  GreatestMet(query, Search(query))
<1> DEFINE K == Len(nodes)
<1>0. K \in Nat /\ root \in 1..K
  BY DEF Tree
<1>1. PICK f : SearchIs(query, f)
  BY <1>0, SearchLoop
<1>2. /\ Search(query) = f[K].found /\ f[0] = [stack |-> <<root>>, found |-> 0]
      /\ \A n \in 1..K : f[n] = SearchTurn(query, f[n - 1])
  BY <1>1 DEF SearchIs
<1> DEFINE T == {n \in Nat : n <= K => Searched(under, query, f[n], n)}
<1>3. 0 \in T
  <2> DEFINE s == <<root>>
  <2>1. s \in Seq(1..K) /\ Len(s) = 1 /\ s[1] = root
    BY <1>0
  <2> HIDE DEF s
  <2>2. \A p \in 1..Len(s) : p = 1
    BY <2>1
  <2>3. Apart(under, s)
    BY <2>2 DEF Apart
  <2>4. \A x : x \in AllBelow(under, s) <=> \E p \in 1..Len(s) : x \in under[s[p]]
    BY DEF AllBelow
  <2>5. 1 \in 1..Len(s) /\ under[root] = 1..K
    BY <2>1 DEF Tree
  <2>6. AllBelow(under, s) = 1..K
    BY <2>1, <2>2, <2>4, <2>5
  <2>7. Cardinality(1..K) = K
    <3>1. Cardinality(1..K) = IF 1 > K THEN 0 ELSE K - 1 + 1
      BY <1>0, FS_Interval
    <3> QED BY <1>0, <3>1
  <2>8. \A j \in Met(query) : j \in 1..K
    BY DEF Met, Leaves
  <2> DEFINE u == [stack |-> s, found |-> 0]
  <2>9. u \in [stack : Seq(1..K), found : Nat] /\ u.stack = s /\ u.found = 0
    BY <2>1
  <2> HIDE DEF u
  <2>10. Searched(under, query, u, 0)
    BY <1>0, <2>3, <2>6, <2>7, <2>8, <2>9 DEF Searched
  <2>11. f[0] = u
    BY <1>2 DEF u, s
  <2> QED BY <2>10, <2>11
<1>4. ASSUME NEW n \in Nat, n \in T PROVE n + 1 \in T
  <2> SUFFICES ASSUME n + 1 <= K PROVE Searched(under, query, f[n + 1], n + 1)
    OBVIOUS
  <2>1. n + 1 \in 1..K /\ n <= K /\ (n + 1) - 1 = n
    BY <1>0
  <2>2. Searched(under, query, f[n], n)
    BY <1>4, <2>1
  <2>3. Searched(under, query, SearchTurn(query, f[n]), n + 1)
    BY <2>2, TurnSearches
  <2>4. f[n + 1] = SearchTurn(query, f[n])
    BY <1>2, <2>1
  <2> QED BY <2>3, <2>4
<1>5. Searched(under, query, f[K], K)
  <2>1. K \in T
    <3> HIDE DEF T
    <3> QED BY <1>0, <1>3, <1>4, SetInduction
  <2> QED BY <1>0, <2>1
<1> DEFINE s == f[K]
<1> HIDE DEF s
<1>6. /\ s \in [stack : Seq(1..K), found : Nat]
      /\ s.stack # <<>> => K + Cardinality(AllBelow(under, s.stack)) <= K
      /\ \A j \in Met(query) : nodes[j].max_order <= s.found \/ j \in AllBelow(under, s.stack)
      /\ s.found = 0 \/ \E j \in Met(query) : nodes[j].max_order = s.found
  BY <1>5 DEF Searched, s
<1>7. s.stack = <<>>
  <2> SUFFICES ASSUME s.stack # <<>> PROVE FALSE
    OBVIOUS
  <2> DEFINE stack == s.stack
             i == Last(stack)
  <2>1. stack \in Seq(1..K) /\ stack # <<>>
    BY <1>6
  <2> HIDE DEF stack
  <2>2. i \in 1..K /\ stack[Len(stack)] = i /\ Len(stack) \in 1..Len(stack)
    <3>1. /\ Len(stack) \in Nat /\ Len(stack) # 0
          /\ Last(stack) = stack[Len(stack)] /\ Last(stack) \in 1..K
      <4> HIDE DEF K
      <4> QED BY <2>1, LastFrontFacts
    <3> QED BY <3>1
  <2>3. i \in under[i]
    BY <2>2, NodeFacts
  <2>4. i \in AllBelow(under, stack)
    BY <2>2, <2>3 DEF AllBelow
  <2>5. <<>> \in Seq(1..K) /\ AllBelow(under, <<>>) = {}
    BY DEF AllBelow
  <2> HIDE DEF i
  <2>6. Cardinality(AllBelow(under, <<>>)) + 1 <= Cardinality(AllBelow(under, stack))
        /\ Cardinality(AllBelow(under, stack)) \in Nat /\ Cardinality(AllBelow(under, <<>>)) \in Nat
    BY <2>1, <2>4, <2>5, FewerBelow
  <2>7. K + Cardinality(AllBelow(under, stack)) <= K
    BY <1>6 DEF stack
  <2> QED BY <1>0, <2>6, <2>7
<1>8. AllBelow(under, <<>>) = {}
  BY DEF AllBelow
<1>9. s.found \in Nat /\ Search(query) = s.found
  BY <1>2, <1>6 DEF s
<1> QED BY <1>6, <1>7, <1>8, <1>9 DEF GreatestMet

\* The leaf that the fast path asks first.
MaxLeafIsGreatest ==
    max_leaf \in Leaves /\ \A j \in Leaves : nodes[j].max_order <= nodes[max_leaf].max_order

\* What BoundsTree is, between two insertions.
TreeInv ==
    \/ nodes = <<>> /\ root = 0 /\ max_leaf = 0
    \/ /\ \E under : Tree(under)
       /\ MaxLeafIsGreatest

\* find_max_ordering finds what it is named for, by either path.
LEMMA FindsGreatest ==
    ASSUME TreeInv, NEW query \in RectSet
    PROVE  GreatestMet(query, find_max_ordering(query))
<1>1. CASE nodes = <<>> /\ root = 0 /\ max_leaf = 0
  <2>1. find_max_ordering(query) = 0
    BY <1>1 DEF find_max_ordering
  <2>2. Met(query) = {}
    BY <1>1 DEF Met, Leaves
  <2> QED BY <2>1, <2>2 DEF GreatestMet
<1>2. ASSUME NEW under, Tree(under), MaxLeafIsGreatest
      PROVE  GreatestMet(query, find_max_ordering(query))
  <2>1. root # 0
    BY <1>2 DEF Tree
  <2>2. CASE Intersects(query, nodes[max_leaf].bounds)
    <3>1. find_max_ordering(query) = nodes[max_leaf].max_order
      BY <2>1, <2>2 DEF find_max_ordering
    <3>2. max_leaf \in Met(query)
      BY <1>2, <2>2 DEF MaxLeafIsGreatest, Met
    <3>3. nodes[max_leaf].max_order \in Nat
      BY <1>2, NodeFacts DEF MaxLeafIsGreatest, Leaves
    <3>4. \A j \in Met(query) : nodes[j].max_order <= nodes[max_leaf].max_order
      BY <1>2 DEF MaxLeafIsGreatest, Met
    <3> QED BY <3>1, <3>2, <3>3, <3>4 DEF GreatestMet
  <2>3. CASE ~Intersects(query, nodes[max_leaf].bounds)
    <3>1. find_max_ordering(query) = Search(query)
      BY <2>1, <2>3 DEF find_max_ordering
    <3> QED BY <1>2, <3>1, SearchFinds
  <2> QED BY <2>2, <2>3
<1> QED BY <1>1, <1>2 DEF TreeInv

\* There is a child that grows least.
LEMMA BestFacts ==
    ASSUME NEW under, Tree(under), NEW i \in 1..Len(nodes), ~IsLeaf(i), NEW b \in RectSet
    PROVE  /\ BestPos(i, b) \in 1..Len(nodes[i].children)
           /\ BestChild(i, b) = nodes[i].children[BestPos(i, b)]
           /\ BestChild(i, b) \in KidsOf[i]
<1> DEFINE c == nodes[i].children
           Cost(p) == HalfPerimeter(Hull(b, nodes[c[p]].bounds))
           Best(p) == \A q \in 1..Len(c) : Cost(p) < Cost(q) \/ (Cost(p) = Cost(q) /\ p <= q)
<1>1. c \in Seq(1..Len(nodes)) /\ c # <<>> /\ KidsOf[i] = {c[p] : p \in 1..Len(c)}
  BY NodeFacts
<1>2. \A p \in 1..Len(c) : Cost(p) \in Nat
  <2> SUFFICES ASSUME NEW p \in 1..Len(c) PROVE Cost(p) \in Nat
    OBVIOUS
  <2>1. c[p] \in 1..Len(nodes)
    BY <1>1
  <2>2. nodes[c[p]].bounds \in RectSet
    BY <2>1, NodeFacts
  <2> QED BY <2>2, RectFacts
<1> HIDE DEF c, Cost
<1>3. 1 \in 1..Len(c)
  BY <1>1
<1>4. PICK m \in {Cost(p) : p \in 1..Len(c)} : \A x \in {Cost(p) : p \in 1..Len(c)} : m <= x
  <2>1. {Cost(p) : p \in 1..Len(c)} \in SUBSET Nat /\ {Cost(p) : p \in 1..Len(c)} # {}
    BY <1>2, <1>3
  <2> HIDE DEF Best
  <2> QED BY <2>1, LeastNumber
<1> DEFINE P == {p \in 1..Len(c) : Cost(p) = m}
<1>5. PICK p \in P : \A q \in P : p <= q
  <2>1. P \in SUBSET Nat /\ P # {}
    BY <1>4
  <2> HIDE DEF P, Best
  <2> QED BY <2>1, LeastNumber
<1>6. Best(p)
  <2> SUFFICES ASSUME NEW q \in 1..Len(c) PROVE Cost(p) < Cost(q) \/ (Cost(p) = Cost(q) /\ p <= q)
    OBVIOUS
  <2>1. Cost(p) = m /\ p \in 1..Len(c) /\ m <= Cost(q)
    BY <1>4
  <2>2. Cost(q) = m => p <= q
    BY <1>5
  <2> QED BY <1>2, <2>1, <2>2
<1>7. BestPos(i, b) = CHOOSE r \in 1..Len(c) : Best(r)
  BY DEF BestPos, c, Cost
<1>8. BestPos(i, b) \in 1..Len(c)
  <2>1. p \in 1..Len(c)
    OBVIOUS
  <2> HIDE DEF Best
  <2> QED BY <1>6, <1>7, <2>1
<1>9. BestChild(i, b) = c[BestPos(i, b)]
  BY DEF BestChild, c
<1> QED BY <1>1, <1>8, <1>9 DEF c

\* The loop of InsertPath.
PathIs(b, f) ==
    /\ InsertPath(b) = f[Len(nodes)]
    /\ f[0] = <<root>>
    /\ \A n \in 1..Len(nodes) : f[n] = Descend(f[n - 1], b)

\* There is such a loop.
LEMMA PathLoop ==
    ASSUME Len(nodes) \in Nat, NEW b
    PROVE  \E f : PathIs(b, f)
<1> DEFINE K == Len(nodes)
           E(n, f) == IF n = 0 THEN <<root>> ELSE Descend(f[n - 1], b)
           Is(f) == f = [n \in 0..K |-> E(n, f)]
           F == CHOOSE f : Is(f)
           T == {k \in Nat : \E f : \A n \in 0..k : f[n] = E(n, f)}
<1>0. K \in Nat
  OBVIOUS
<1>1. InsertPath(b) = F[K]
  BY Zenon DEF InsertPath
<1>2. 0 \in T
  <2> DEFINE g == [n \in {0} |-> <<root>>]
  <2>1. \A n \in 0..0 : n = 0 /\ g[n] = <<root>>
    OBVIOUS
  <2>2. \A n \in 0..0 : g[n] = E(n, g)
    BY <2>1
  <2> QED BY <2>2
<1>3. ASSUME NEW k \in Nat, k \in T PROVE k + 1 \in T
  <2>1. PICK f : \A n \in 0..k : f[n] = E(n, f)
    BY <1>3
  <2> DEFINE g == [n \in 0..(k + 1) |-> E(n, f)]
  <2>2. \A n \in 0..(k + 1) : g[n] = E(n, f)
    <3> HIDE DEF E
    <3> QED OBVIOUS
  <2> HIDE DEF g
  <2>3. \A n \in 0..k : g[n] = f[n]
    <3> HIDE DEF E
    <3> QED BY <2>1, <2>2
  <2>4. \A n \in 0..(k + 1) : n # 0 => n - 1 \in 0..k
    OBVIOUS
  <2>5. \A n \in 0..(k + 1) : E(n, g) = E(n, f)
    BY <2>3, <2>4
  <2>6. \A n \in 0..(k + 1) : g[n] = E(n, g)
    <3> HIDE DEF E
    <3> QED BY <2>2, <2>5
  <2> HIDE DEF E
  <2> QED BY <2>6
<1>4. \E f : Is(f)
  <2>1. K \in T
    <3> HIDE DEF T
    <3> QED BY <1>0, <1>2, <1>3, SetInduction
  <2>2. PICK f : \A n \in 0..K : f[n] = E(n, f)
    <3> HIDE DEF E
    <3> QED BY <2>1
  <2> DEFINE g == [n \in 0..K |-> E(n, f)]
  <2>3. \A n \in 0..K : g[n] = f[n]
    <3> HIDE DEF E
    <3> QED BY <2>2
  <2>4. \A n \in 0..K : n # 0 => n - 1 \in 0..K
    BY <1>0
  <2> HIDE DEF g
  <2>5. \A n \in 0..K : E(n, g) = E(n, f)
    BY <2>3, <2>4
  <2> USE DEF g
  <2>6. g = [n \in 0..K |-> E(n, g)]
    <3> HIDE DEF E
    <3> QED BY <2>5
  <2> QED BY <2>6
<1>5. \A n \in 0..K : F[n] = E(n, F)
  <2>1. Is(F)
    BY <1>4
  <2> HIDE DEF E, F
  <2> QED BY <2>1
<1>6. 0 \in 0..K /\ \A n \in 1..K : n \in 0..K /\ n # 0
  BY <1>0
<1> HIDE DEF F
<1>7. PathIs(b, F)
  BY <1>1, <1>5, <1>6 DEF PathIs
<1> QED BY <1>7

\* A path from the root down, of nodes that are no leaves.
PathDown(path, b) ==
    /\ path \in Seq(1..Len(nodes)) /\ path # <<>> /\ path[1] = root
    /\ \A k \in 1..Len(path) : ~IsLeaf(path[k])
    /\ \A k \in 1..(Len(path) - 1) : path[k + 1] = BestChild(path[k], b)

\* It ends above a leaf.
PathEnds(path, b) == IsLeaf(BestChild(Last(path), b))

\* A node has finitely many at and below it, itself among them.
LEMMA UnderFinite ==
    ASSUME NEW under, Tree(under)
    PROVE  \A i \in 1..Len(nodes) :
              IsFiniteSet(under[i]) /\ Cardinality(under[i]) \in Nat /\ Cardinality(under[i]) # 0
<1>1. Len(nodes) \in Nat
  BY DEF Tree
<1> DEFINE all == 1..Len(nodes)
<1>2. IsFiniteSet(1..Len(nodes))
  BY <1>1, FS_Interval
<1> SUFFICES ASSUME NEW i \in all
             PROVE  /\ IsFiniteSet(under[i])
                    /\ Cardinality(under[i]) \in Nat /\ Cardinality(under[i]) # 0
  OBVIOUS
<1>3. under[i] \in SUBSET all /\ i \in under[i]
  BY NodeFacts
<1> HIDE DEF all
<1>4. IsFiniteSet(under[i])
  BY <1>2, <1>3, FS_Subset DEF all
<1>5. Cardinality(under[i]) \in Nat /\ (Cardinality(under[i]) = 0 <=> under[i] = {})
  BY <1>4, FS_CardinalityType, FS_EmptySet
<1> QED BY <1>3, <1>4, <1>5

\* There are fewer nodes below a child.
LEMMA FewerUnder ==
    ASSUME NEW under, Tree(under), NEW i \in 1..Len(nodes), NEW c \in KidsOf[i]
    PROVE  /\ c \in 1..Len(nodes)
           /\ Cardinality(under[c]) \in Nat /\ Cardinality(under[i]) \in Nat
           /\ Cardinality(under[c]) + 1 <= Cardinality(under[i])
           /\ Cardinality(under[c]) # 0
<1> DEFINE all == 1..Len(nodes)
<1>1. /\ KidsOf[i] \in SUBSET all /\ under \in [all -> SUBSET all]
      /\ \A x \in all : x \in under[i] <=> x = i \/ \E d \in KidsOf[i] : x \in under[d]
      /\ \A x \in all : x \in under[c] <=> x = c \/ \E d \in KidsOf[c] : x \in under[d]
      /\ i \notin under[c]
  BY DEF Tree, Forest
<1>2. c \in all /\ c \in under[c] /\ i \in under[i] /\ under[c] \subseteq under[i] \ {i}
  BY <1>1
<1>3. /\ IsFiniteSet(under[i]) /\ IsFiniteSet(under[c])
      /\ Cardinality(under[c]) \in Nat /\ Cardinality(under[i]) \in Nat
      /\ Cardinality(under[c]) # 0
  BY <1>2, UnderFinite
<1> HIDE DEF all
<1>5. IsFiniteSet(under[i] \ {i}) /\ Cardinality(under[i] \ {i}) = Cardinality(under[i]) - 1
  BY <1>2, <1>3, FS_RemoveElement
<1>6. Cardinality(under[c]) <= Cardinality(under[i] \ {i})
  BY <1>2, <1>5, FS_Subset
<1> QED BY <1>2, <1>3, <1>5, <1>6 DEF all

\* insert_path is such a path, and it ends above a leaf within its turns.
LEMMA PathFacts ==
    ASSUME NEW under, Tree(under), NEW b \in RectSet, ~IsLeaf(root)
    PROVE  PathDown(InsertPath(b), b) /\ PathEnds(InsertPath(b), b)
<1> DEFINE N == Len(nodes)
           Good(n, path) == /\ PathDown(path, b)
                            /\ PathEnds(path, b) \/ n + Cardinality(under[Last(path)]) <= N
<1>0. N \in Nat /\ root \in 1..N /\ under[root] = 1..N
  BY DEF Tree
<1>1a. PICK f : PathIs(b, f)
  BY <1>0, PathLoop
<1>1. /\ InsertPath(b) = f[N] /\ f[0] = <<root>>
      /\ \A n \in 1..N : f[n] = Descend(f[n - 1], b)
  BY <1>1a DEF PathIs
<1>2. Good(0, <<root>>)
  <2> DEFINE s == <<root>>
  <2>1. s \in Seq(1..N) /\ Len(s) = 1 /\ s[1] = root /\ s # <<>>
    BY <1>0
  <2>2. Last(s) = root
    BY DEF Last
  <2> HIDE DEF s
  <2>3. \A k \in 1..Len(s) : k = 1
    BY <2>1
  <2>4. \A k \in 1..(Len(s) - 1) : FALSE
    BY <2>1
  <2>5. PathDown(s, b)
    BY <2>1, <2>3, <2>4 DEF PathDown
  <2>6. Cardinality(1..N) = N
    <3>1. Cardinality(1..N) = IF 1 > N THEN 0 ELSE N - 1 + 1
      BY <1>0, FS_Interval
    <3> QED BY <1>0, <3>1
  <2>7. 0 + Cardinality(under[Last(s)]) <= N
    BY <1>0, <2>2, <2>6
  <2> QED BY <2>5, <2>7 DEF s
<1>3. ASSUME NEW n \in Nat, NEW path, Good(n, path)
      PROVE  Good(n + 1, Descend(path, b))
  <2> DEFINE i == Last(path)
             c == BestChild(i, b)
             t == Append(path, c)
  <2>1. Descend(path, b) = IF IsLeaf(c) THEN path ELSE t
    BY DEF Descend
  <2>2. /\ path \in Seq(1..N) /\ path # <<>> /\ path[1] = root
        /\ \A k \in 1..Len(path) : ~IsLeaf(path[k])
        /\ \A k \in 1..(Len(path) - 1) : path[k + 1] = BestChild(path[k], b)
    BY <1>3 DEF PathDown
  <2>3. CASE IsLeaf(c)
    BY <1>3, <2>1, <2>3 DEF PathEnds
  <2>4. CASE ~IsLeaf(c)
    <3>1. /\ Len(path) \in Nat /\ Len(path) # 0 /\ i = path[Len(path)] /\ i \in 1..N
      <4> HIDE DEF N
      <4> QED BY <2>2, LastFrontFacts
    <3>2. ~IsLeaf(i)
      <4>1. Len(path) \in 1..Len(path)
        BY <3>1
      <4> QED BY <2>2, <3>1, <4>1
    <3>3. c \in KidsOf[i]
      <4> HIDE DEF i
      <4> QED BY <3>1, <3>2, BestFacts DEF i
    <3>4. /\ c \in 1..N
          /\ Cardinality(under[c]) \in Nat /\ Cardinality(under[i]) \in Nat
          /\ Cardinality(under[c]) + 1 <= Cardinality(under[i])
      BY <3>1, <3>3, FewerUnder
    <3>5. n + Cardinality(under[i]) <= N
      BY <1>3, <2>4 DEF PathEnds
    <3> HIDE DEF c, i, N
    <3>6. /\ t \in Seq(1..N) /\ Len(t) = Len(path) + 1 /\ t[Len(path) + 1] = c /\ t # <<>>
          /\ \A k \in 1..Len(path) : t[k] = path[k]
      BY <2>2, <3>4
    <3>7. Last(t) = c
      BY <3>6 DEF Last
    <3> HIDE DEF t
    <3>8. \A k \in 1..Len(t) : k \in 1..Len(path) \/ k = Len(path) + 1
      BY <3>1, <3>6
    <3>9. \A k \in 1..Len(t) : ~IsLeaf(t[k])
      BY <2>2, <2>4, <3>6, <3>8
    <3>10. \A k \in 1..(Len(t) - 1) : t[k + 1] = BestChild(t[k], b)
      <4> SUFFICES ASSUME NEW k \in 1..(Len(t) - 1) PROVE t[k + 1] = BestChild(t[k], b)
        OBVIOUS
      <4>1. k \in 1..Len(path) /\ t[k] = path[k]
        BY <3>1, <3>6
      <4>2. CASE k = Len(path)
        BY <3>1, <3>6, <4>1, <4>2 DEF c
      <4>3. CASE k # Len(path)
        <5>1. k \in 1..(Len(path) - 1) /\ k + 1 \in 1..Len(path)
          BY <3>1, <4>1, <4>3
        <5> QED BY <2>2, <3>6, <4>1, <5>1
      <4> QED BY <4>2, <4>3
    <3>11. t[1] = root
      BY <2>2, <3>1, <3>6
    <3>12. PathDown(t, b)
      BY <3>6, <3>9, <3>10, <3>11 DEF PathDown, N
    <3>13. n + 1 + Cardinality(under[Last(t)]) <= N
      BY <1>0, <3>4, <3>5, <3>7
    <3> QED BY <2>1, <2>4, <3>12, <3>13
  <2> QED BY <2>3, <2>4
<1> DEFINE T == {n \in Nat : n <= N => Good(n, f[n])}
<1> HIDE DEF Good
<1>4. 0 \in T
  BY <1>1, <1>2
<1>5. ASSUME NEW n \in Nat, n \in T PROVE n + 1 \in T
  <2> SUFFICES ASSUME n + 1 <= N PROVE Good(n + 1, f[n + 1])
    OBVIOUS
  <2>1. n + 1 \in 1..N /\ n <= N /\ (n + 1) - 1 = n
    BY <1>0
  <2> QED BY <1>1, <1>3, <1>5, <2>1
<1>6. N \in T
  <2> HIDE DEF T
  <2> QED BY <1>0, <1>4, <1>5, SetInduction
<1>7. Good(N, InsertPath(b))
  BY <1>0, <1>1, <1>6
<1> DEFINE path == InsertPath(b)
<1> HIDE DEF path
<1>8. PathDown(path, b) /\ (PathEnds(path, b) \/ N + Cardinality(under[Last(path)]) <= N)
  BY <1>7 DEF Good, path
<1>9. Cardinality(under[Last(path)]) \in Nat /\ Cardinality(under[Last(path)]) # 0
  <2> DEFINE i == Last(path)
  <2>1. i \in 1..N
    <3>1. path \in Seq(1..N) /\ path # <<>>
      BY <1>8 DEF PathDown
    <3> HIDE DEF N
    <3> QED BY <3>1, LastFrontFacts
  <2> QED BY <2>1, UnderFinite
<1> QED BY <1>0, <1>8, <1>9 DEF path

\* The nodes of the path are those that the last one is under.
LEMMA PathIsAncestors ==
    ASSUME NEW under, Tree(under), NEW b \in RectSet, NEW path,
           PathDown(path, b), PathEnds(path, b)
    PROVE  LET lowest == Last(path)
           IN /\ Len(path) \in Nat /\ Len(path) # 0 /\ lowest = path[Len(path)]
              /\ lowest \in 1..Len(nodes) /\ ~IsLeaf(lowest)
              /\ BestChild(lowest, b) \in KidsOf[lowest] /\ IsLeaf(BestChild(lowest, b))
              /\ \A k \in 1..Len(path) : path[k] \in 1..Len(nodes) /\ lowest \in under[path[k]]
              /\ \A i \in 1..Len(nodes) : lowest \in under[i] => \E k \in 1..Len(path) : path[k] = i
              /\ \A k, l \in 1..Len(path) : path[k] = path[l] => k = l
              /\ \A k \in 1..(Len(path) - 1) : path[k + 1] \in KidsOf[path[k]]
<1> DEFINE all == 1..Len(nodes)
           K == Len(path)
           low == Last(path)
<1>1. /\ path \in Seq(all) /\ path # <<>> /\ path[1] = root
      /\ \A k \in 1..K : ~IsLeaf(path[k])
      /\ \A k \in 1..(K - 1) : path[k + 1] = BestChild(path[k], b)
  BY DEF PathDown
<1>2. K \in Nat /\ K # 0 /\ low = path[K] /\ \A k \in 1..K : path[k] \in all
  <2>1. Len(path) \in Nat /\ Len(path) # 0 /\ Last(path) = path[Len(path)]
    <3> HIDE DEF all
    <3> QED BY <1>1, LastFrontFacts
  <2> QED BY <1>1, <2>1
<1>3. ASSUME NEW k \in 1..K
      PROVE  BestChild(path[k], b) \in KidsOf[path[k]]
  <2>1. path[k] \in all /\ ~IsLeaf(path[k])
    BY <1>1, <1>2
  <2> QED BY <2>1, BestFacts
<1>4. /\ KidsOf \in [all -> SUBSET all] /\ under \in [all -> SUBSET all]
      /\ \A i, x \in all : x \in under[i] <=> x = i \/ \E c \in KidsOf[i] : x \in under[c]
      /\ \A i \in all : \A c \in KidsOf[i] : i \notin under[c]
      /\ \A i \in all : \A c, d \in KidsOf[i] : c # d => under[c] \cap under[d] = {}
      /\ \A i \in all : \A j \in under[i] : under[j] \subseteq under[i]
      /\ under[root] = all
  BY DEF Tree, Forest
<1> HIDE DEF all
<1>5. \A k \in 1..(K - 1) : /\ k \in 1..K /\ k + 1 \in 1..K /\ path[k + 1] \in KidsOf[path[k]]
  <2>1. \A k \in 1..(K - 1) : k \in 1..K /\ k + 1 \in 1..K
    BY <1>2
  <2> QED BY <1>1, <1>3, <2>1
<1>6. ASSUME NEW d \in Nat PROVE \A k \in 1..K : k + d <= K => path[k + d] \in under[path[k]]
  <2> DEFINE T == {e \in Nat : \A k \in 1..K : k + e <= K => path[k + e] \in under[path[k]]}
  <2>1. 0 \in T
    <3>1. \A k \in 1..K : k + 0 = k /\ path[k] \in under[path[k]]
      BY <1>2, <1>4
    <3> QED BY <3>1
  <2>2. ASSUME NEW e \in Nat, e \in T PROVE e + 1 \in T
    <3> SUFFICES ASSUME NEW k \in 1..K, k + (e + 1) <= K
                 PROVE  path[k + (e + 1)] \in under[path[k]]
      OBVIOUS
    <3>1. k \in 1..(K - 1) /\ k + 1 \in 1..K /\ (k + 1) + e = k + (e + 1) /\ (k + 1) + e <= K
          /\ (k + 1) + e \in 1..K
      BY <1>2
    <3> DEFINE x == path[(k + 1) + e]
    <3>2. x \in under[path[k + 1]]
      BY <2>2, <3>1
    <3>3. x \in all /\ path[k] \in all /\ path[k + 1] \in KidsOf[path[k]]
      BY <1>2, <1>5, <3>1
    <3> HIDE DEF x
    <3>4. x \in under[path[k]]
      BY <1>4, <3>2, <3>3
    <3> QED BY <3>1, <3>4 DEF x
  <2>3. d \in T
    <3> HIDE DEF T
    <3> QED BY <2>1, <2>2, SetInduction
  <2> QED BY <2>3
<1>7. \A k \in 1..K : low \in under[path[k]]
  <2> SUFFICES ASSUME NEW k \in 1..K PROVE path[K] \in under[path[k]]
    BY <1>2
  <2>1. K - k \in Nat /\ k + (K - k) = K /\ K <= K
    BY <1>2
  <2> QED BY <1>6, <2>1
<1>8. \A k \in 1..K, l \in 1..K : k < l => path[k] # path[l]
  <2> SUFFICES ASSUME NEW k \in 1..K, NEW l \in 1..K, k < l, path[k] = path[l] PROVE FALSE
    OBVIOUS
  <2>1. k \in 1..(K - 1) /\ k + 1 \in 1..K /\ l - (k + 1) \in Nat /\ (k + 1) + (l - (k + 1)) = l
        /\ l <= K
    BY <1>2
  <2>2. path[l] \in under[path[k + 1]]
    BY <1>6, <2>1
  <2>3. path[k + 1] \in KidsOf[path[k]] /\ path[k] \in all
    BY <1>2, <1>5, <2>1
  <2> QED BY <1>4, <2>2, <2>3
<1>9. \A k, l \in 1..K : path[k] = path[l] => k = l
  <2> SUFFICES ASSUME NEW k \in 1..K, NEW l \in 1..K, k # l PROVE path[k] # path[l]
    OBVIOUS
  <2>1. k < l \/ l < k
    BY <1>2
  <2> QED BY <1>8, <2>1
<1>10. low \in all /\ low \in under[low] /\ K \in 1..K
  BY <1>2, <1>4
\* An ancestor of the last node is on the path, or below what was passed.
<1>11. ASSUME NEW i \in all, low \in under[i] PROVE \E k \in 1..K : path[k] = i
  <2> DEFINE On == \E k \in 1..K : path[k] = i
             T == {k \in Nat : k + 1 <= K => On \/ i \in under[path[k + 1]]}
  <2>1. 0 \in T
    BY <1>1, <1>4
  <2>2. ASSUME NEW k \in Nat, k \in T PROVE k + 1 \in T
    <3> SUFFICES ASSUME (k + 1) + 1 <= K, ~On PROVE i \in under[path[(k + 1) + 1]]
      OBVIOUS
    <3> DEFINE u == path[k + 1]
               v == path[(k + 1) + 1]
    <3>1. k + 1 \in 1..(K - 1) /\ k + 1 <= K /\ k + 1 \in 1..K /\ (k + 1) + 1 \in 1..K
      BY <1>2
    <3>2. i \in under[u] /\ u \in all /\ v \in KidsOf[u] /\ i # u /\ low \in under[v]
      BY <1>2, <1>5, <1>7, <2>2, <3>1
    <3> HIDE DEF u, v, On
    <3>3. PICK c \in KidsOf[u] : i \in under[c]
      BY <1>4, <3>2
    <3>4. c \in all
      BY <1>4, <3>2
    <3>5. low \in under[c]
      BY <1>4, <1>11, <3>3, <3>4
    <3>6. c = v
      BY <1>4, <3>2, <3>5
    <3> QED BY <3>3, <3>6 DEF v
  <2>3. K - 1 \in Nat /\ (K - 1) + 1 = K
    BY <1>2
  <2>4. K - 1 \in T
    <3> HIDE DEF T
    <3> QED BY <2>1, <2>2, <2>3, SetInduction
  <2>5. On \/ i \in under[low]
    BY <1>2, <2>3, <2>4
  <2> SUFFICES ASSUME i \in under[low], i # low PROVE FALSE
    BY <1>2, <1>10, <2>5
  <2>6. PICK c \in KidsOf[low] : i \in under[c]
    BY <1>4, <1>10
  <2>7. c \in all
    BY <1>4, <1>10
  <2> QED BY <1>4, <1>10, <1>11, <2>6, <2>7
<1>12. ~IsLeaf(low) /\ BestChild(low, b) \in KidsOf[low] /\ IsLeaf(BestChild(low, b))
  BY <1>1, <1>2, <1>3, <1>10 DEF PathEnds
<1> HIDE DEF K, low
<1>13. /\ K \in Nat /\ K # 0 /\ low = path[K]
       /\ low \in all /\ ~IsLeaf(low)
       /\ BestChild(low, b) \in KidsOf[low] /\ IsLeaf(BestChild(low, b))
  BY <1>2, <1>10, <1>12
<1>14. \A k \in 1..K : path[k] \in all /\ low \in under[path[k]]
  BY <1>2, <1>7
<1>15. \A k \in 1..(K - 1) : path[k + 1] \in KidsOf[path[k]]
  BY <1>5
<1> QED BY <1>9, <1>11, <1>13, <1>14, <1>15 DEF K, low, all

\* A new leaf below a node.
KidsWithLeaf(all, kids, low, new) ==
    [i \in all \cup {new} |-> CASE i = new -> {}
                               [] i = low /\ i # new -> kids[i] \cup {new}
                               [] OTHER -> kids[i]]
UnderWithLeaf(all, under, low, new) ==
    [i \in all \cup {new} |-> CASE i = new -> {new}
                               [] i # new /\ low \in under[i] -> under[i] \cup {new}
                               [] OTHER -> under[i]]

\* That is a forest again.
LEMMA ForestWithLeaf ==
    ASSUME NEW all, NEW kids, NEW under, Forest(kids, under, all),
           NEW low \in all, NEW new, new \notin all
    PROVE  Forest(KidsWithLeaf(all, kids, low, new), UnderWithLeaf(all, under, low, new),
                  all \cup {new})
<1> DEFINE All == all \cup {new}
           K == KidsWithLeaf(all, kids, low, new)
           U == UnderWithLeaf(all, under, low, new)
<1>1. /\ kids \in [all -> SUBSET all] /\ under \in [all -> SUBSET all]
      /\ \A i, x \in all : x \in under[i] <=> x = i \/ \E c \in kids[i] : x \in under[c]
      /\ \A i \in all : \A c \in kids[i] : i \notin under[c]
      /\ \A i \in all : \A c, d \in kids[i] : c # d => under[c] \cap under[d] = {}
      /\ \A i, j \in all : kids[i] \cap kids[j] # {} => i = j
      /\ \A i \in all : \A j \in under[i] : under[j] \subseteq under[i]
  BY DEF Forest
<1>2. /\ K[new] = {} /\ U[new] = {new}
      /\ \A i \in all : /\ i # new /\ K[i] = IF i = low THEN kids[i] \cup {new} ELSE kids[i]
                        /\ U[i] = IF low \in under[i] THEN under[i] \cup {new} ELSE under[i]
  BY DEF KidsWithLeaf, UnderWithLeaf
<1>3. K \in [All -> SUBSET All] /\ U \in [All -> SUBSET All]
  BY <1>1 DEF KidsWithLeaf, UnderWithLeaf
<1> HIDE DEF K, U
<1>4. low \in under[low] /\ \A i \in all : kids[i] \subseteq all /\ under[i] \subseteq all
  BY <1>1
<1>5. ASSUME NEW i \in All, NEW x \in All
      PROVE  x \in U[i] <=> x = i \/ \E c \in K[i] : x \in U[c]
  <2>1. CASE i = new
    BY <1>2, <2>1
  <2>2. CASE i \in all /\ x \in all
    <3>1. x # new /\ \A c \in all : x \in U[c] <=> x \in under[c]
      BY <1>2, <2>2
    <3>2. x \notin U[new]
      BY <1>2, <3>1
    <3>3. (\E c \in K[i] : x \in U[c]) <=> (\E c \in kids[i] : x \in under[c])
      BY <1>2, <1>4, <2>2, <3>1, <3>2
    <3> QED BY <1>1, <2>2, <3>1, <3>3
  <2>3. CASE i \in all /\ x = new
    <3>1. \A c \in all : x \in U[c] <=> low \in under[c]
      BY <1>2, <1>4, <2>3
    <3>2. i # x /\ x \in U[new]
      BY <1>2, <2>3
    <3>3. CASE i = low
      BY <1>2, <1>4, <3>1, <3>2, <3>3, <2>3
    <3>4. CASE i # low
      <4>1. low \in under[i] <=> \E c \in kids[i] : low \in under[c]
        BY <1>1, <2>3, <3>4
      <4>2. K[i] = kids[i]
        BY <1>2, <2>3, <3>4
      <4> QED BY <1>4, <2>3, <3>1, <3>2, <4>1, <4>2
    <3> QED BY <3>3, <3>4
  <2> QED BY <2>1, <2>2, <2>3
<1>6. ASSUME NEW i \in All, NEW c \in K[i] PROVE i \notin U[c]
  <2>1. i \in all
    BY <1>2
  <2>2. CASE c = new
    BY <1>2, <2>1, <2>2
  <2>3. CASE c # new
    <3>1. c \in kids[i]
      BY <1>2, <1>6, <2>1, <2>3
    <3>2. c \in all /\ i \notin under[c]
      BY <1>1, <1>4, <2>1, <3>1
    <3> QED BY <1>2, <2>1, <3>2
  <2> QED BY <2>2, <2>3
<1>7. ASSUME NEW i \in All, NEW c \in K[i], NEW d \in K[i], c # d PROVE U[c] \cap U[d] = {}
  <2>1. i \in all
    BY <1>2
  <2>2. ASSUME NEW e \in K[i], e # new PROVE e \in kids[i] /\ e \in all
    BY <1>2, <1>4, <2>1, <2>2
  <2>3. CASE i = low
    <3>1. \A e \in kids[i] : e \in all /\ low \notin under[e]
      BY <1>1, <1>4, <2>1, <2>3
    <3>2. \A e \in kids[i] : U[e] = under[e] /\ new \notin under[e]
      BY <1>2, <1>4, <3>1
    <3>3. c = new => d # new /\ d \in kids[i]
      BY <1>7, <2>2
    <3>4. d = new => c \in kids[i]
      BY <1>7, <2>2
    <3>5. c # new /\ d # new => under[c] \cap under[d] = {} /\ c \in kids[i] /\ d \in kids[i]
      <4> SUFFICES ASSUME c # new, d # new
                   PROVE  under[c] \cap under[d] = {} /\ c \in kids[i] /\ d \in kids[i]
        OBVIOUS
      <4>1. c \in kids[i] /\ d \in kids[i]
        BY <2>2
      <4> QED BY <1>1, <1>7, <2>1, <4>1
    <3> QED BY <1>2, <3>2, <3>3, <3>4, <3>5
  <2>4. CASE i # low
    <3>1. K[i] = kids[i]
      BY <1>2, <2>1, <2>4
    <3>2. c \in all /\ d \in all /\ under[c] \cap under[d] = {}
      BY <1>1, <1>4, <1>7, <2>1, <3>1
    <3>3. ~(low \in under[c] /\ low \in under[d])
      BY <3>2
    <3>4. new \notin under[c] /\ new \notin under[d]
      BY <1>4, <3>2
    <3> QED BY <1>2, <3>2, <3>3, <3>4
  <2> QED BY <2>3, <2>4
<1>8. ASSUME NEW i \in All, NEW j \in All, K[i] \cap K[j] # {} PROVE i = j
  <2>1. i \in all /\ j \in all
    BY <1>2, <1>8
  <2>2. PICK c : c \in K[i] /\ c \in K[j]
    BY <1>8
  <2>3. CASE c = new
    <3>1. new \notin kids[i] /\ new \notin kids[j]
      BY <1>4, <2>1
    <3> QED BY <1>2, <2>1, <2>2, <2>3, <3>1
  <2>4. CASE c # new
    <3>1. c \in kids[i] /\ c \in kids[j]
      BY <1>2, <2>1, <2>2, <2>4
    <3> QED BY <1>1, <2>1, <3>1
  <2> QED BY <2>3, <2>4
<1>9. ASSUME NEW i \in All, NEW j \in U[i] PROVE U[j] \subseteq U[i]
  <2>1. CASE j = new
    BY <1>2, <1>9, <2>1
  <2>2. CASE j # new
    <3>1. i \in all
      BY <1>2, <1>9, <2>2
    <3>2. j \in under[i] /\ j \in all
      BY <1>2, <1>4, <1>9, <2>2, <3>1
    <3>3. under[j] \subseteq under[i]
      BY <1>1, <3>1, <3>2
    <3> QED BY <1>2, <3>1, <3>2, <3>3
  <2> QED BY <2>1, <2>2
<1> HIDE DEF All
<1>10. Forest(K, U, All)
  BY <1>3, <1>5, <1>6, <1>7, <1>8, <1>9 DEF Forest
<1> QED BY <1>10 DEF K, U, All

\* A new leaf in the place of another, with which it is put below a new node.
KidsWithPair(all, kids, low, leaf, new, pair) ==
    [i \in all \cup {new, pair} |->
        CASE i = new -> {}
          [] i = pair /\ i # new -> {leaf, new}
          [] i = low /\ i \in all -> (kids[i] \ {leaf}) \cup {pair}
          [] OTHER -> kids[i]]
UnderWithPair(all, under, low, leaf, new, pair) ==
    [i \in all \cup {new, pair} |->
        CASE i = new -> {new}
          [] i = pair /\ i # new -> {pair, leaf, new}
          [] i \in all /\ low \in under[i] -> under[i] \cup {new, pair}
          [] OTHER -> under[i]]

\* That is a forest again.
LEMMA ForestWithPair ==
    ASSUME NEW all, NEW kids, NEW under, Forest(kids, under, all),
           NEW low \in all, NEW leaf \in kids[low], kids[leaf] = {},
           NEW new, new \notin all, NEW pair, pair \notin all, pair # new
    PROVE  Forest(KidsWithPair(all, kids, low, leaf, new, pair),
                  UnderWithPair(all, under, low, leaf, new, pair), all \cup {new, pair})
<1> DEFINE All == all \cup {new, pair}
           K == KidsWithPair(all, kids, low, leaf, new, pair)
           U == UnderWithPair(all, under, low, leaf, new, pair)
<1>1. /\ kids \in [all -> SUBSET all] /\ under \in [all -> SUBSET all]
      /\ \A i, x \in all : x \in under[i] <=> x = i \/ \E c \in kids[i] : x \in under[c]
      /\ \A i \in all : \A c \in kids[i] : i \notin under[c]
      /\ \A i \in all : \A c, d \in kids[i] : c # d => under[c] \cap under[d] = {}
      /\ \A i, j \in all : kids[i] \cap kids[j] # {} => i = j
      /\ \A i \in all : \A j \in under[i] : under[j] \subseteq under[i]
  BY DEF Forest
<1>2. /\ K[new] = {} /\ U[new] = {new} /\ K[pair] = {leaf, new} /\ U[pair] = {pair, leaf, new}
      /\ \A i \in all : /\ i # new /\ i # pair
                        /\ K[i] = IF i = low THEN (kids[i] \ {leaf}) \cup {pair} ELSE kids[i]
                        /\ U[i] = IF low \in under[i] THEN under[i] \cup {new, pair} ELSE under[i]
  BY DEF KidsWithPair, UnderWithPair
<1>4. low \in under[low] /\ \A i \in all : kids[i] \subseteq all /\ under[i] \subseteq all /\ i \in under[i]
  BY <1>1
<1>5. leaf \in all /\ leaf # low /\ under[leaf] = {leaf} /\ leaf \in under[low]
  BY <1>1, <1>4
<1>3. K \in [All -> SUBSET All] /\ U \in [All -> SUBSET All]
  BY <1>1, <1>5 DEF KidsWithPair, UnderWithPair
<1> HIDE DEF K, U
<1>6. U[leaf] = {leaf}
  BY <1>2, <1>5
<1>7. \A e \in kids[low] : e \in all /\ low \notin under[e] /\ U[e] = under[e]
  BY <1>1, <1>2, <1>4
\* A member of K[i] is a child of i already, or one of the three.
<1>8. ASSUME NEW i \in all, NEW c \in K[i]
      PROVE  \/ c = pair /\ i = low
             \/ c \in kids[i] /\ c \in all /\ c # leaf
  <2>1. CASE i = low
    <3>1. K[i] = (kids[i] \ {leaf}) \cup {pair}
      BY <1>2, <2>1
    <3> QED BY <1>4, <1>8, <2>1, <3>1
  <2>2. CASE i # low
    <3>1. c \in kids[i] /\ c \in all
      BY <1>2, <1>4, <1>8, <2>2
    <3>2. c # leaf
      BY <1>1, <2>2, <3>1
    <3> QED BY <3>1, <3>2
  <2> QED BY <2>1, <2>2
<1>9. ASSUME NEW i \in All, NEW x \in All
      PROVE  x \in U[i] <=> x = i \/ \E c \in K[i] : x \in U[c]
  <2>1. CASE i = new
    BY <1>2, <2>1
  <2>2. CASE i = pair
    BY <1>2, <1>6, <2>2
  <2>3. CASE i \in all /\ x \in all
    <3>1. x # new /\ x # pair /\ \A c \in all : x \in U[c] <=> x \in under[c]
      BY <1>2, <2>3
    <3>2. x \in under[i] <=> x = i \/ \E c \in kids[i] : x \in under[c]
      BY <1>1, <2>3
    <3>3. CASE i = low
      <4>1. K[i] = (kids[i] \ {leaf}) \cup {pair}
        BY <1>2, <2>3, <3>3
      <4>2. x \in U[pair] <=> x = leaf
        BY <1>2, <3>1
      <4>3. x \in under[leaf] <=> x = leaf
        BY <1>5
      <4>4. \A c \in kids[i] : c \in all
        BY <1>4, <2>3
      <4>5. leaf \in kids[i]
        BY <3>3
      <4> QED BY <2>3, <3>1, <3>2, <4>1, <4>2, <4>3, <4>4, <4>5
    <3>4. CASE i # low
      <4>1. K[i] = kids[i] /\ \A c \in kids[i] : c \in all
        BY <1>2, <1>4, <2>3, <3>4
      <4> QED BY <2>3, <3>1, <3>2, <4>1
    <3> QED BY <3>3, <3>4
  <2>4. CASE i \in all /\ x \in {new, pair}
    <3>1. \A c \in all : x \in U[c] <=> low \in under[c]
      BY <1>2, <1>4, <2>4
    <3>2. i # x /\ x \in U[pair]
      BY <1>2, <2>4
    <3>3. CASE i = low
      <4>1. pair \in K[i]
        BY <1>2, <2>4, <3>3
      <4>2. low \in under[low] /\ U[i] = under[i] \cup {new, pair}
        BY <1>2, <1>4, <3>3
      <4>3. x \in U[i]
        BY <2>4, <4>2
      <4> QED BY <3>2, <4>1, <4>3
    <3>4. CASE i # low
      <4>1. low \in under[i] <=> \E c \in kids[i] : low \in under[c]
        BY <1>1, <2>4, <3>4
      <4>2. K[i] = kids[i]
        BY <1>2, <2>4, <3>4
      <4> QED BY <1>4, <2>4, <3>1, <3>2, <4>1, <4>2
    <3> QED BY <3>3, <3>4
  <2> QED BY <2>1, <2>2, <2>3, <2>4
<1>10. ASSUME NEW i \in All, NEW c \in K[i] PROVE i \notin U[c]
  <2>1. CASE i \in all
    <3>1. CASE c = pair /\ i = low
      <4>1. U[c] = {pair, leaf, new} /\ i # pair /\ i # new /\ i # leaf
        BY <1>2, <1>5, <2>1, <3>1
      <4> QED BY <4>1
    <3>2. CASE c \in kids[i] /\ c \in all
      <4>1. i \notin under[c] /\ i # new /\ i # pair
        BY <1>1, <2>1, <3>2
      <4>2. U[c] \subseteq under[c] \cup {new, pair}
        BY <1>2, <3>2
      <4> QED BY <4>1, <4>2
    <3> QED BY <1>8, <2>1, <3>1, <3>2
  <2>2. CASE i = pair
    <3>1. c = leaf \/ c = new
      BY <1>2, <1>10, <2>2
    <3>2. pair # leaf /\ pair # new
      BY <1>5
    <3> QED BY <1>2, <1>6, <2>2, <3>1, <3>2
  <2>3. i # new
    BY <1>2, <1>10
  <2> QED BY <2>1, <2>2, <2>3
<1>11. ASSUME NEW i \in All, NEW c \in K[i], NEW d \in K[i], c # d PROVE U[c] \cap U[d] = {}
  <2>1. CASE i = pair
    <3>1. {c, d} = {leaf, new} /\ leaf # new
      BY <1>2, <1>5, <1>11, <2>1
    <3> QED BY <1>2, <1>6, <3>1
  <2>2. CASE i \in all
    <3>1. CASE c = pair /\ i = low
      <4>1. d \in kids[low] /\ d # leaf /\ d \in all
        BY <1>8, <1>11, <2>2, <3>1
      <4>2. U[d] = under[d] /\ under[d] \cap under[leaf] = {}
        BY <1>1, <1>7, <4>1
      <4>3. new \notin under[d] /\ pair \notin under[d]
        BY <1>4, <4>1
      <4> QED BY <1>2, <1>5, <3>1, <4>2, <4>3
    <3>2. CASE d = pair /\ i = low
      <4>1. c \in kids[low] /\ c # leaf /\ c \in all
        BY <1>8, <1>11, <2>2, <3>2
      <4>2. U[c] = under[c] /\ under[c] \cap under[leaf] = {}
        BY <1>1, <1>7, <4>1
      <4>3. new \notin under[c] /\ pair \notin under[c]
        BY <1>4, <4>1
      <4> QED BY <1>2, <1>5, <3>2, <4>2, <4>3
    <3>3. CASE c \in kids[i] /\ c \in all /\ d \in kids[i] /\ d \in all
      <4>1. under[c] \cap under[d] = {}
        BY <1>1, <1>11, <2>2, <3>3
      <4>2. ~(low \in under[c] /\ low \in under[d])
        BY <4>1
      <4>3. new \notin under[c] /\ new \notin under[d] /\ pair \notin under[c] /\ pair \notin under[d]
        BY <1>4, <3>3
      <4>4. /\ U[c] = IF low \in under[c] THEN under[c] \cup {new, pair} ELSE under[c]
            /\ U[d] = IF low \in under[d] THEN under[d] \cup {new, pair} ELSE under[d]
        BY <1>2, <3>3
      <4> QED BY <4>1, <4>2, <4>3, <4>4
    <3>4. (c = pair /\ i = low) \/ (c \in kids[i] /\ c \in all)
      BY <1>8, <2>2
    <3>5. (d = pair /\ i = low) \/ (d \in kids[i] /\ d \in all)
      BY <1>8, <2>2
    <3> QED BY <3>1, <3>2, <3>3, <3>4, <3>5
  <2>3. i # new
    BY <1>2, <1>11
  <2> QED BY <2>1, <2>2, <2>3
<1>12. ASSUME NEW i \in All, NEW j \in All, K[i] \cap K[j] # {} PROVE i = j
  <2>1. i # new /\ j # new
    BY <1>2, <1>12
  <2>2. PICK c : c \in K[i] /\ c \in K[j]
    BY <1>12
  <2>3. \A k \in all : c \in K[k] => (c = pair /\ k = low) \/ (c \in kids[k] /\ c \in all /\ c # leaf)
    BY <1>8
  <2>4. c \in K[pair] => c = leaf \/ c = new
    BY <1>2
  <2>5. CASE i \in all /\ j \in all
    <3>1. pair \notin all
      OBVIOUS
    <3> QED BY <1>1, <2>2, <2>3, <2>5, <3>1
  <2>6. ~(i = pair /\ j \in all) /\ ~(i \in all /\ j = pair)
    BY <2>2, <2>3, <2>4, <1>5
  <2> QED BY <2>1, <2>5, <2>6
<1>13. ASSUME NEW i \in All, NEW j \in U[i] PROVE U[j] \subseteq U[i]
  <2>1. CASE i = new
    BY <1>2, <1>13, <2>1
  <2>2. CASE i = pair
    <3>1. j = pair \/ j = leaf \/ j = new
      BY <1>2, <1>13, <2>2
    <3> QED BY <1>2, <1>6, <2>2, <3>1
  <2>3. CASE i \in all
    <3>1. CASE j \in all
      <4>1. j \in under[i]
        BY <1>2, <1>13, <2>3, <3>1
      <4>2. under[j] \subseteq under[i]
        BY <1>1, <2>3, <4>1
      <4> QED BY <1>2, <2>3, <3>1, <4>2
    <3>2. CASE j \in {new, pair}
      <4>1. low \in under[i] /\ U[i] = under[i] \cup {new, pair}
        BY <1>2, <1>4, <1>13, <2>3, <3>2
      <4>2. under[low] \subseteq under[i]
        BY <1>1, <2>3, <4>1
      <4> QED BY <1>2, <1>5, <3>2, <4>1, <4>2
    <3>3. j \in All
      BY <1>3, <1>13
    <3> QED BY <3>1, <3>2, <3>3
  <2> QED BY <2>1, <2>2, <2>3
<1> HIDE DEF All
<1>14. Forest(K, U, All)
  BY <1>3, <1>9, <1>10, <1>11, <1>12, <1>13 DEF Forest
<1> QED BY <1>14 DEF K, U, All

-----------------------------------------------------------------------------
\* What is in a sequence, once each.
Entries(s) == {s[p] : p \in 1..Len(s)}
Differ(s) == \A p, q \in 1..Len(s) : p # q => s[p] # s[q]

\* The swap to the end, which insert_leaf does with the best child.
LEMMA SwapFacts ==
    ASSUME NEW S, NEW s \in Seq(S), NEW p \in 1..Len(s), NEW q \in 1..Len(s)
    PROVE  LET t == SwapAt(s, p, q)
           IN t \in Seq(S) /\ Entries(t) = Entries(s) /\ (Differ(s) => Differ(t))
<1> DEFINE n == Len(s)
           t == SwapAt(s, p, q)
           at(k) == IF k = q THEN p ELSE IF k = p THEN q ELSE k
<1>1. n \in Nat /\ s \in [1..n -> S] /\ p \in 1..n /\ q \in 1..n
  OBVIOUS
<1>2. t \in [1..n -> S] /\ \A k \in 1..n : t[k] = s[at(k)]
  BY <1>1 DEF SwapAt
<1> HIDE DEF t
<1>3. t \in Seq(S) /\ Len(t) = n
  BY <1>1, <1>2
<1>4. /\ \A k \in 1..n : at(k) \in 1..n /\ at(at(k)) = k
      /\ \A k, l \in 1..n : k # l => at(k) # at(l)
  OBVIOUS
<1> HIDE DEF at, n
<1>5. Entries(t) = Entries(s)
  <2>1. ASSUME NEW x \in Entries(t) PROVE x \in Entries(s)
    BY <1>2, <1>3, <1>4 DEF Entries, n
  <2>2. ASSUME NEW k \in 1..n PROVE s[k] \in Entries(t)
    <3>1. at(k) \in 1..n /\ t[at(k)] = s[k]
      BY <1>2, <1>4
    <3> QED BY <1>3, <3>1 DEF Entries
  <2> QED BY <2>1, <2>2 DEF Entries, n
<1>6. ASSUME Differ(s) PROVE Differ(t)
  <2> SUFFICES ASSUME NEW k \in 1..n, NEW l \in 1..n, k # l PROVE t[k] # t[l]
    BY <1>3 DEF Differ
  <2>1. at(k) \in 1..n /\ at(l) \in 1..n /\ at(k) # at(l)
    BY <1>4
  <2>2. s[at(k)] # s[at(l)]
    BY <1>6, <2>1 DEF Differ, n
  <2> QED BY <1>2, <2>2
<1> QED BY <1>3, <1>5, <1>6 DEF t

\* An entry more at the end.
LEMMA PushFacts ==
    ASSUME NEW S, NEW s \in Seq(S), NEW x \in S, x \notin Entries(s)
    PROVE  LET t == Append(s, x)
           IN /\ t \in Seq(S) /\ Len(t) = Len(s) + 1 /\ Entries(t) = Entries(s) \cup {x}
              /\ Differ(s) => Differ(t)
<1> DEFINE n == Len(s)
           t == Append(s, x)
<1>1. /\ n \in Nat /\ t \in Seq(S) /\ Len(t) = n + 1 /\ t[n + 1] = x
      /\ \A k \in 1..n : t[k] = s[k]
  OBVIOUS
<1> HIDE DEF t, n
<1>2. /\ \A k \in 1..(n + 1) : k \in 1..n \/ k = n + 1
      /\ 1..n \subseteq 1..(n + 1) /\ n + 1 \in 1..(n + 1)
  BY <1>1
<1>3. \A y : y \in Entries(t) <=> \E k \in 1..(n + 1) : y = t[k]
  BY <1>1 DEF Entries
<1>4. \A y : y \in Entries(s) <=> \E k \in 1..n : y = s[k]
  BY DEF Entries, n
<1>5. Entries(t) = Entries(s) \cup {x}
  BY <1>1, <1>2, <1>3, <1>4
<1>6. ASSUME Differ(s) PROVE Differ(t)
  <2>1. \A k \in 1..n : s[k] # x
    BY <1>4
  <2>2. \A k, l \in 1..n : k # l => s[k] # s[l]
    BY <1>6 DEF Differ, n
  <2> QED BY <1>1, <1>2, <2>1, <2>2 DEF Differ
<1> QED BY <1>1, <1>5, <1>6 DEF t, n

\* One entry in the place of another.
LEMMA ReplaceFacts ==
    ASSUME NEW S, NEW s \in Seq(S), Differ(s), NEW p \in 1..Len(s), NEW x \in S, x \notin Entries(s)
    PROVE  LET t == [s EXCEPT ![p] = x]
           IN /\ t \in Seq(S) /\ Len(t) = Len(s) /\ Entries(t) = (Entries(s) \ {s[p]}) \cup {x}
              /\ Differ(t)
<1> DEFINE n == Len(s)
           t == [s EXCEPT ![p] = x]
<1>1. /\ n \in Nat /\ t \in Seq(S) /\ Len(t) = n /\ t[p] = x /\ p \in 1..n
      /\ \A k \in 1..n : k # p => t[k] = s[k]
  OBVIOUS
<1> HIDE DEF t, n
<1>2. \A y : y \in Entries(t) <=> \E k \in 1..n : y = t[k]
  BY <1>1 DEF Entries
<1>3. \A y : y \in Entries(s) <=> \E k \in 1..n : y = s[k]
  BY DEF Entries, n
<1>4. \A k, l \in 1..n : k # l => s[k] # s[l]
  BY DEF Differ, n
<1>5. \A k \in 1..n : s[k] # x
  BY <1>3
<1>6. Entries(t) = (Entries(s) \ {s[p]}) \cup {x}
  BY <1>1, <1>2, <1>3, <1>4
<1>7. Differ(t)
  BY <1>1, <1>4, <1>5 DEF Differ
<1> QED BY <1>1, <1>6, <1>7 DEF t, n

\* The children of a node, as sets and sequences.
LEMMA ChildrenFacts ==
    ASSUME NEW under, Tree(under), NEW i \in 1..Len(nodes)
    PROVE  /\ nodes[i].children \in Seq(Nat) /\ Differ(nodes[i].children)
           /\ KidsOf[i] = Entries(nodes[i].children)
           /\ \A n \in Nat : n > Len(nodes) => n \notin Entries(nodes[i].children)
<1>1. /\ nodes[i].children \in Seq(1..Len(nodes)) /\ Len(nodes) \in Nat
      /\ KidsOf[i] = {nodes[i].children[p] : p \in 1..Len(nodes[i].children)}
  BY NodeFacts
<1>2. Differ(nodes[i].children)
  BY DEF Tree, ChildrenDiffer, Differ
<1> DEFINE c == nodes[i].children
<1>3. \A p \in 1..Len(c) : c[p] \in 1..Len(nodes)
  BY <1>1
<1>4. c \in Seq(1..Len(nodes))
  BY <1>1
<1> HIDE DEF c
<1>5. c \in Seq(Nat)
  BY <1>1, <1>4
<1>6. \A n \in Nat : n > Len(nodes) => n \notin Entries(c)
  <2>1. \A x \in Entries(c) : x \in 1..Len(nodes)
    BY <1>3 DEF Entries
  <2> QED BY <1>1, <2>1
<1> QED BY <1>1, <1>2, <1>5, <1>6 DEF Entries, c

\* A node that can take no more children.
Full(i) == Len(nodes[i].children) >= MaxChildren

\* The children at the end of the path.
LEMMA LowestFacts ==
    ASSUME NEW under, Tree(under), NEW i \in 1..Len(nodes), ~IsLeaf(i), NEW b \in RectSet,
           NEW order \in Nat
    PROVE  LET t == LowestChildren(i, b, order)
           IN /\ t \in Seq(Nat) /\ Differ(t)
              /\ Entries(t) = IF Full(i) THEN (KidsOf[i] \ {BestChild(i, b)}) \cup {Len(nodes) + 2}
                              ELSE KidsOf[i] \cup {Len(nodes) + 1}
<1> DEFINE c == nodes[i].children
           new == Len(nodes) + 1
           pushed == Append(c, new)
           p == BestPos(i, b)
           replaced == [c EXCEPT ![p] = Len(nodes) + 2]
           t == LowestChildren(i, b, order)
<1>1. /\ c \in Seq(Nat) /\ Differ(c) /\ KidsOf[i] = Entries(c)
      /\ \A n \in Nat : n > Len(nodes) => n \notin Entries(c)
  BY ChildrenFacts
<1>2. Len(nodes) \in Nat /\ nodes[i].max_order \in Nat /\ c # <<>>
  BY NodeFacts
<1>3. p \in 1..Len(c) /\ BestChild(i, b) = c[p]
  BY BestFacts
<1>4. MaxChildren \in Nat
  BY MaxChildrenAssumption
<1>5. t = IF ~Full(i)
          THEN IF order <= nodes[i].max_order THEN SwapAt(pushed, Len(pushed) - 1, Len(pushed))
               ELSE pushed
          ELSE IF order > nodes[i].max_order THEN SwapAt(replaced, p, Len(replaced))
               ELSE replaced
  <2>1. Len(c) \in Nat
    BY <1>1
  <2>2. Len(c) < MaxChildren <=> ~Full(i)
    BY <1>4, <2>1 DEF Full
  <2> QED BY <2>2 DEF LowestChildren
<1>6. new \in Nat /\ new \notin Entries(c) /\ Len(nodes) + 2 \in Nat /\ Len(nodes) + 2 \notin Entries(c)
  BY <1>1, <1>2
<1> HIDE DEF p, t
<1>7. CASE ~Full(i)
  <2>1. pushed \in Seq(Nat) /\ Len(pushed) = Len(c) + 1 /\ Entries(pushed) = Entries(c) \cup {new}
        /\ Differ(pushed)
    <3> HIDE DEF c, new
    <3> QED BY <1>1, <1>6, PushFacts
  <2>2. Len(pushed) - 1 \in 1..Len(pushed) /\ Len(pushed) \in 1..Len(pushed)
    <3> HIDE DEF c, new
    <3>1. Len(c) \in Nat /\ Len(c) # 0
      BY <1>1, <1>2
    <3> QED BY <2>1, <3>1
  <2> HIDE DEF pushed
  <2>3. LET u == SwapAt(pushed, Len(pushed) - 1, Len(pushed))
        IN u \in Seq(Nat) /\ Entries(u) = Entries(pushed) /\ Differ(u)
    BY <2>1, <2>2, SwapFacts
  <2> HIDE DEF c
  <2> QED BY <1>1, <1>5, <1>7, <2>1, <2>3 DEF t
<1>8. CASE Full(i)
  <2>1. /\ replaced \in Seq(Nat) /\ Len(replaced) = Len(c) /\ Differ(replaced)
        /\ Entries(replaced) = (Entries(c) \ {c[p]}) \cup {Len(nodes) + 2}
    <3> DEFINE x == Len(nodes) + 2
    <3>1. x \in Nat /\ x \notin Entries(c)
      BY <1>6
    <3> HIDE DEF c, x
    <3>2. LET u == [c EXCEPT ![p] = x]
          IN /\ u \in Seq(Nat) /\ Len(u) = Len(c) /\ Entries(u) = (Entries(c) \ {c[p]}) \cup {x}
             /\ Differ(u)
      BY <1>1, <1>3, <3>1, ReplaceFacts
    <3> QED BY <3>2 DEF x
  <2>2. p \in 1..Len(replaced) /\ Len(replaced) \in 1..Len(replaced)
    <3> HIDE DEF c, replaced
    <3>1. Len(c) \in Nat /\ Len(c) # 0
      BY <1>1, <1>2
    <3> QED BY <1>3, <2>1, <3>1
  <2> HIDE DEF replaced
  <2>3. LET u == SwapAt(replaced, p, Len(replaced))
        IN u \in Seq(Nat) /\ Entries(u) = Entries(replaced) /\ Differ(u)
    BY <2>1, <2>2, SwapFacts
  <2> HIDE DEF c
  <2> QED BY <1>1, <1>3, <1>5, <1>8, <2>1, <2>3 DEF t
<1> QED BY <1>7, <1>8

\* What an insertion below the node `low` makes of the nodes.
Grown(under, b, order, low) ==
    LET N == Len(nodes)
        leaf == BestChild(low, b)
    IN /\ low \in 1..N /\ ~IsLeaf(low) /\ leaf \in KidsOf[low] /\ IsLeaf(leaf)
       /\ nodes' \in Seq(TreeNode) /\ Len(nodes') = IF Full(low) THEN N + 2 ELSE N + 1
       /\ \A i \in 1..N :
             /\ low \notin under[i] => nodes'[i] = nodes[i]
             /\ low \in under[i] =>
                   /\ nodes'[i].bounds = Hull(nodes[i].bounds, b)
                   /\ nodes'[i].max_order = Max({nodes[i].max_order, order})
             /\ Differ(nodes'[i].children)
             /\ Entries(nodes'[i].children) =
                   CASE i # low -> KidsOf[i]
                     [] i = low /\ Full(low) -> (KidsOf[i] \ {leaf}) \cup {N + 2}
                     [] i = low /\ ~Full(low) -> KidsOf[i] \cup {N + 1}
       /\ nodes'[N + 1] = Leaf(b, order)
       /\ Full(low) => nodes'[N + 2] = Pair(leaf, b, order)
       /\ root' = root

\* One sequence after another.
LEMMA JoinFacts ==
    ASSUME NEW S, NEW s \in Seq(S), NEW t \in Seq(S)
    PROVE  /\ s \o t \in Seq(S) /\ Len(s \o t) = Len(s) + Len(t)
           /\ \A i \in 1..Len(s) : (s \o t)[i] = s[i]
           /\ \A i \in 1..Len(t) : (s \o t)[Len(s) + i] = t[i]
  OBVIOUS

\* A node of the path after the insertion.
GrownNode(v, i, low, b, order) ==
    /\ v \in TreeNode
    /\ v.bounds = Hull(nodes[i].bounds, b)
    /\ v.max_order = Max({nodes[i].max_order, order})
    /\ Differ(v.children)
    /\ Entries(v.children) =
          CASE i # low -> KidsOf[i]
            [] i = low /\ Full(low) -> (KidsOf[i] \ {BestChild(low, b)}) \cup {Len(nodes) + 2}
            [] i = low /\ ~Full(low) -> KidsOf[i] \cup {Len(nodes) + 1}

\* insert_leaf's way back along insert_path makes that of each node.
LEMMA PropagatedFacts ==
    ASSUME NEW under, Tree(under), NEW b \in RectSet, NEW order \in Nat, NEW path,
           PathDown(path, b), PathEnds(path, b), NEW k \in 1..Len(path)
    PROVE  GrownNode(Propagated(path, k, b, order), path[k], Last(path), b, order)
<1> DEFINE i == path[k]
           low == Last(path)
           c == nodes[i].children
           K == Len(path)
           at == IF k = K THEN 0 ELSE CHOOSE p \in 1..Len(c) : c[p] = path[k + 1]
           d == CASE k = K -> LowestChildren(i, b, order)
                  [] k < K /\ order > nodes[i].max_order -> SwapAt(c, at, Len(c))
                  [] OTHER -> c
           v == Propagated(path, k, b, order)
<1>1. v = [bounds |-> Hull(nodes[i].bounds, b), max_order |-> Max({nodes[i].max_order, order}),
           children |-> d]
  BY DEF Propagated
<1>2. /\ K \in Nat /\ K # 0 /\ low = path[K] /\ low \in 1..Len(nodes) /\ ~IsLeaf(low)
      /\ i \in 1..Len(nodes)
      /\ \A l \in 1..Len(path) : path[k] = path[l] => k = l
      /\ k \in 1..(K - 1) => path[k + 1] \in KidsOf[i]
  BY PathIsAncestors
<1> HIDE DEF i, low
<1>3. /\ c \in Seq(Nat) /\ Differ(c) /\ KidsOf[i] = Entries(c)
  BY <1>2, ChildrenFacts
<1>4. nodes[i].bounds \in RectSet /\ nodes[i].max_order \in Nat
  BY <1>2, NodeFacts
<1>5. Hull(nodes[i].bounds, b) \in RectSet
  BY <1>4, RectFacts
<1>6. Max({nodes[i].max_order, order}) \in Nat
  BY <1>4, MaxOfTwo
<1>7. i = low <=> k = K
  <2>1. K \in 1..K
    BY <1>2
  <2> QED BY <1>2, <2>1 DEF i
<1>8. /\ d \in Seq(Nat) /\ Differ(d)
      /\ Entries(d) = CASE i # low -> KidsOf[i]
                        [] i = low /\ Full(low) ->
                              (KidsOf[i] \ {BestChild(low, b)}) \cup {Len(nodes) + 2}
                        [] i = low /\ ~Full(low) -> KidsOf[i] \cup {Len(nodes) + 1}
  <2>1. CASE k = K
    <3> DEFINE t == LowestChildren(low, b, order)
    <3>1. /\ t \in Seq(Nat) /\ Differ(t)
          /\ Entries(t) = IF Full(low) THEN (KidsOf[low] \ {BestChild(low, b)}) \cup {Len(nodes) + 2}
                          ELSE KidsOf[low] \cup {Len(nodes) + 1}
      BY <1>2, LowestFacts
    <3>2. d = t /\ i = low
      BY <1>7, <2>1
    <3> HIDE DEF d, t
    <3> QED BY <3>1, <3>2
  <2>2. CASE k # K
    <3>1. k \in 1..(K - 1) /\ k < K
      BY <1>2, <2>2
    <3>2. PICK p \in 1..Len(c) : c[p] = path[k + 1]
      BY <1>2, <1>3, <3>1 DEF Entries
    <3>3. at \in 1..Len(c)
      BY <2>2, <3>2
    <3>4. Len(c) \in 1..Len(c)
      <4> HIDE DEF c
      <4> QED BY <1>3, <3>2
    <3>5. d = c \/ d = SwapAt(c, at, Len(c))
      BY <2>2
    <3> HIDE DEF at, c
    <3>6. LET t == SwapAt(c, at, Len(c)) IN t \in Seq(Nat) /\ Entries(t) = Entries(c) /\ Differ(t)
      BY <1>3, <3>3, <3>4, SwapFacts
    <3> HIDE DEF d
    <3> QED BY <1>3, <1>7, <2>2, <3>5, <3>6
  <2> QED BY <2>1, <2>2
<1> HIDE DEF d, v
<1>9. v \in TreeNode /\ v.children = d
  BY <1>1, <1>5, <1>6, <1>8 DEF TreeNode
<1>10. GrownNode(v, i, low, b, order)
  BY <1>1, <1>8, <1>9 DEF GrownNode
<1> QED BY <1>10 DEF v, i, low

\* insert_leaf does that to the tree, below the last node of its path.
LEMMA InsertGrows ==
    ASSUME NEW under, Tree(under), ~IsLeaf(root), NEW b \in RectSet, NEW order \in Nat,
           InsertLeaf(b, order)
    PROVE  \E low \in 1..Len(nodes) : Grown(under, b, order, low)
<1> DEFINE N == Len(nodes)
           path == InsertPath(b)
           low == Last(path)
           leaf == BestChild(low, b)
           updated == [i \in 1..N |->
                          IF \E k \in 1..Len(path) : path[k] = i
                          THEN Propagated(path, CHOOSE k \in 1..Len(path) : path[k] = i, b, order)
                          ELSE nodes[i]]
           more == IF Full(low) THEN <<Leaf(b, order), Pair(leaf, b, order)>>
                   ELSE <<Leaf(b, order)>>
<1>1. root # 0 /\ N \in Nat /\ nodes \in Seq(TreeNode)
  BY DEF Tree
<1>2. nodes' = updated \o more /\ root' = root
  BY <1>1 DEF InsertLeaf, Full, Last
<1>3. PathDown(path, b) /\ PathEnds(path, b)
  BY PathFacts
<1>4. /\ low \in 1..N /\ ~IsLeaf(low) /\ leaf \in KidsOf[low] /\ IsLeaf(leaf)
      /\ \A k \in 1..Len(path) : path[k] \in 1..Len(nodes) /\ low \in under[path[k]]
      /\ \A i \in 1..Len(nodes) : low \in under[i] => \E k \in 1..Len(path) : path[k] = i
  BY <1>3, PathIsAncestors
<1> HIDE DEF path
<1> DEFINE Kids2(i) == CASE i # low -> KidsOf[i]
                         [] i = low /\ Full(low) -> (KidsOf[i] \ {leaf}) \cup {N + 2}
                         [] i = low /\ ~Full(low) -> KidsOf[i] \cup {N + 1}
<1>5. ASSUME NEW i \in 1..N
      PROVE  /\ updated[i] \in TreeNode
             /\ low \notin under[i] => updated[i] = nodes[i]
             /\ low \in under[i] => /\ updated[i].bounds = Hull(nodes[i].bounds, b)
                                    /\ updated[i].max_order = Max({nodes[i].max_order, order})
             /\ Differ(updated[i].children)
             /\ Entries(updated[i].children) = Kids2(i)
  <2>1. CASE low \in under[i]
    <3> DEFINE k == CHOOSE k \in 1..Len(path) : path[k] = i
    <3>1. k \in 1..Len(path) /\ path[k] = i
      BY <1>4, <2>1
    <3>2. updated[i] = Propagated(path, k, b, order)
      BY <1>4, <2>1
    <3> HIDE DEF k
    <3> DEFINE v == Propagated(path, k, b, order)
    <3>3. /\ v \in TreeNode
          /\ v.bounds = Hull(nodes[i].bounds, b)
          /\ v.max_order = Max({nodes[i].max_order, order})
          /\ Differ(v.children)
          /\ Entries(v.children) = Kids2(i)
      <4>1. GrownNode(v, path[k], low, b, order)
        BY <1>3, <3>1, PropagatedFacts
      <4>2. GrownNode(v, i, low, b, order)
        BY <3>1, <4>1
      <4> HIDE DEF v, low
      <4> QED BY <4>2 DEF GrownNode
    <3> HIDE DEF updated, v, Kids2
    <3> QED BY <2>1, <3>2, <3>3 DEF v
  <2>2. CASE low \notin under[i]
    <3>1. updated[i] = nodes[i]
      BY <1>4, <2>2
    <3>2. nodes[i] \in TreeNode /\ Differ(nodes[i].children) /\ KidsOf[i] = Entries(nodes[i].children)
      BY <1>1, ChildrenFacts
    <3>3. low \in under[low]
      BY <1>4, NodeFacts
    <3>4. i # low
      BY <2>2, <3>3
    <3> HIDE DEF updated
    <3> QED BY <2>2, <3>1, <3>2, <3>4
  <2> QED BY <2>1, <2>2
<1>6. DOMAIN updated = 1..N
  OBVIOUS
<1>7. Leaf(b, order) \in TreeNode
  BY DEF Leaf, TreeNode
<1>8. Pair(leaf, b, order) \in TreeNode
  <2>1. leaf \in 1..N
    BY <1>4, FewerUnder
  <2>2. nodes[leaf].bounds \in RectSet /\ nodes[leaf].max_order \in Nat
    BY <2>1, NodeFacts
  <2>3. Hull(nodes[leaf].bounds, b) \in RectSet /\ Max({nodes[leaf].max_order, order}) \in Nat
    BY <2>2, RectFacts, MaxOfTwo
  <2>4. <<leaf, N + 1>> \in Seq(Nat) /\ <<N + 1, leaf>> \in Seq(Nat)
    BY <1>1, <2>1
  <2> HIDE DEF leaf
  <2> QED BY <2>3, <2>4 DEF Pair, TreeNode
<1> HIDE DEF updated
<1>9. updated \in Seq(TreeNode) /\ Len(updated) = N
  <2>1. updated \in [1..N -> TreeNode]
    <3>1. \A i \in 1..N : updated[i] \in TreeNode
      BY <1>5
    <3>2. updated = [i \in 1..N |-> updated[i]]
      BY DEF updated
    <3> QED BY <3>1, <3>2
  <2> HIDE DEF N
  <2> QED BY <1>1, <2>1
<1>10. /\ more \in Seq(TreeNode) /\ Len(more) = IF Full(low) THEN 2 ELSE 1
       /\ more[1] = Leaf(b, order)
       /\ Full(low) => more[2] = Pair(leaf, b, order)
  BY <1>7, <1>8
<1> HIDE DEF more
<1>11. /\ nodes' \in Seq(TreeNode) /\ Len(nodes') = IF Full(low) THEN N + 2 ELSE N + 1
       /\ \A i \in 1..N : nodes'[i] = updated[i]
       /\ nodes'[N + 1] = Leaf(b, order)
       /\ Full(low) => nodes'[N + 2] = Pair(leaf, b, order)
  <2> DEFINE s == updated \o more
  <2>1. /\ s \in Seq(TreeNode) /\ Len(s) = N + Len(more)
        /\ \A i \in 1..N : s[i] = updated[i]
        /\ \A i \in 1..Len(more) : s[N + i] = more[i]
    <3>1. /\ updated \o more \in Seq(TreeNode) /\ Len(updated \o more) = Len(updated) + Len(more)
          /\ \A i \in 1..Len(updated) : (updated \o more)[i] = updated[i]
          /\ \A i \in 1..Len(more) : (updated \o more)[Len(updated) + i] = more[i]
      <4>1. updated \in Seq(TreeNode) /\ more \in Seq(TreeNode)
        BY <1>9, <1>10
      <4> HIDE DEF N, low, leaf, Kids2
      <4> QED BY <4>1, JoinFacts
    <3> QED BY <1>9, <3>1
  <2> HIDE DEF s
  <2>2. Len(s) = IF Full(low) THEN N + 2 ELSE N + 1
    BY <1>1, <1>10, <2>1
  <2>3. s[N + 1] = Leaf(b, order) /\ (Full(low) => s[N + 2] = Pair(leaf, b, order))
    <3>1. 1 \in 1..Len(more) /\ (Full(low) => 2 \in 1..Len(more))
      BY <1>10
    <3> QED BY <1>10, <2>1, <3>1
  <2>4. nodes' = s
    BY <1>2 DEF s
  <2> QED BY <2>1, <2>2, <2>3, <2>4
<1>12. \A i \in 1..N :
          /\ low \notin under[i] => nodes'[i] = nodes[i]
          /\ low \in under[i] =>
                /\ nodes'[i].bounds = Hull(nodes[i].bounds, b)
                /\ nodes'[i].max_order = Max({nodes[i].max_order, order})
          /\ Differ(nodes'[i].children)
          /\ Entries(nodes'[i].children) = Kids2(i)
  <2> HIDE DEF Kids2, low
  <2> QED BY <1>5, <1>11
<1>13. Grown(under, b, order, low)
  <2> HIDE DEF low
  <2> QED BY <1>2, <1>4, <1>11, <1>12 DEF Grown
<1> QED BY <1>4, <1>13

\* The hull of two is in what both are in, and the greater of two numbers is
\* no more than what neither exceeds.
LEMMA HullIsLeast ==
    ASSUME NEW a \in RectSet, NEW b \in RectSet, NEW c \in RectSet, Within(a, c), Within(b, c)
    PROVE  Within(Hull(a, b), c)
<1> DEFINE l == Min({a[1], b[1]})
           r == Max({a[2], b[2]})
<1>1. /\ a[1] \in Int /\ a[2] \in Int /\ b[1] \in Int /\ b[2] \in Int
      /\ c[1] \in Int /\ c[2] \in Int
  BY DEF RectSet
<1>2. l = (IF a[1] <= b[1] THEN a[1] ELSE b[1]) /\ r = IF a[2] >= b[2] THEN a[2] ELSE b[2]
  BY <1>1, MinOfTwo, MaxOfTwo
<1>3. Hull(a, b)[1] = l /\ Hull(a, b)[2] = r
  BY DEF Hull
<1> HIDE DEF l, r
<1> QED BY <1>1, <1>2, <1>3 DEF Within

LEMMA MaxBounds ==
    /\ \A a, b \in Nat : Max({a, b}) \in Nat /\ a <= Max({a, b}) /\ b <= Max({a, b})
    /\ \A a, b, c \in Nat : a <= c /\ b <= c => Max({a, b}) <= c
<1>1. \A a, b \in Nat : Max({a, b}) = IF a >= b THEN a ELSE b
  BY MaxOfTwo
<1> QED BY <1>1

\* One node says no less than another.
Says(v, w) == Within(w.bounds, v.bounds) /\ w.max_order <= v.max_order

\* What nodes say is ordered.
LEMMA SaysFacts ==
    /\ \A v \in TreeNode : Says(v, v)
    /\ \A u, v, w \in TreeNode : Says(u, v) /\ Says(v, w) => Says(u, w)
<1>1. ASSUME NEW v \in TreeNode PROVE v.bounds \in RectSet /\ v.max_order \in Nat
  BY DEF TreeNode
<1>2. ASSUME NEW v \in TreeNode PROVE Says(v, v)
  BY <1>1, RectFacts DEF Says
<1>3. ASSUME NEW u \in TreeNode, NEW v \in TreeNode, NEW w \in TreeNode, Says(u, v), Says(v, w)
      PROVE  Says(u, w)
  <2>1. Within(w.bounds, u.bounds)
    BY <1>1, <1>3, RectFacts DEF Says
  <2>2. w.max_order <= v.max_order /\ v.max_order <= u.max_order
    BY <1>3 DEF Says
  <2>3. w.max_order <= u.max_order
    <3>1. w.max_order \in Nat /\ v.max_order \in Nat /\ u.max_order \in Nat
      BY <1>1
    <3> QED BY <2>2, <3>1
  <2> QED BY <2>1, <2>3 DEF Says
<1> QED BY <1>2, <1>3

\* After the insertion, what a node says is true of all that is below it then.
LEMMA GrownCovers ==
    ASSUME NEW under, Tree(under), NEW b \in RectSet, NEW order \in Nat,
           NEW low \in 1..Len(nodes), Grown(under, b, order, low),
           NEW i \in 1..Len(nodes'), NEW j \in 1..Len(nodes'),
           \/ i \in 1..Len(nodes) /\ j \in 1..Len(nodes) /\ j \in under[i]
           \/ i \in 1..Len(nodes) /\ j > Len(nodes) /\ low \in under[i]
           \/ i > Len(nodes) /\ j = i
           \/ i = Len(nodes) + 2 /\ j = Len(nodes) + 1
           \/ i = Len(nodes) + 2 /\ j = BestChild(low, b)
    PROVE  Says(nodes'[i], nodes'[j])
<1> DEFINE N == Len(nodes)
           leaf == BestChild(low, b)
           Hulled(v, w) == /\ w.bounds = Hull(v.bounds, b)
                           /\ w.max_order = Max({v.max_order, order})
<1>1. /\ leaf \in KidsOf[low] /\ IsLeaf(leaf)
      /\ nodes' \in Seq(TreeNode) /\ Len(nodes') = IF Full(low) THEN N + 2 ELSE N + 1
      /\ \A k \in 1..N : /\ low \notin under[k] => nodes'[k] = nodes[k]
                         /\ low \in under[k] => Hulled(nodes[k], nodes'[k])
      /\ nodes'[N + 1] = Leaf(b, order)
      /\ Full(low) => nodes'[N + 2] = Pair(leaf, b, order)
  BY DEF Grown
<1>2. /\ N \in Nat /\ nodes \in Seq(TreeNode)
      /\ \A k \in 1..N : \A l \in under[k] : under[l] \subseteq under[k] /\ l \in 1..N
      /\ \A k \in 1..N : \A l \in under[k] : Says(nodes[k], nodes[l])
      /\ \A k \in 1..N : k \in under[k]
  <2>1. /\ \A k \in 1..N : k \in under[k] /\ under[k] \subseteq 1..N
        /\ N \in Nat /\ nodes \in Seq(TreeNode)
    BY NodeFacts DEF Tree
  <2>2. \A k \in 1..N : \A l \in under[k] : under[l] \subseteq under[k]
    BY DEF Tree, Forest
  <2>3. \A k \in 1..N : \A l \in under[k] : Says(nodes[k], nodes[l])
    BY DEF Tree, NodesCover, Says
  <2> QED BY <2>1, <2>2, <2>3
<1>3. leaf \in 1..N /\ leaf \in under[low] /\ under[leaf] = {leaf} /\ leaf # low
  <2>1. leaf \in 1..N /\ under[leaf] = {leaf}
    BY <1>1, FewerUnder, NodeFacts
  <2>2. leaf \in under[low] /\ low \notin under[leaf]
    BY <1>1, <1>2, <2>1 DEF Tree, Forest
  <2> QED BY <2>1, <2>2
<1> HIDE DEF leaf
<1>4. low \notin under[leaf] /\ nodes'[leaf] = nodes[leaf]
  BY <1>1, <1>3
\* What the hull says.
<1>5. ASSUME NEW v \in TreeNode, NEW w \in TreeNode, Hulled(v, w)
      PROVE  /\ Says(w, v) /\ Says(w, Leaf(b, order))
             /\ \A u \in TreeNode : Says(u, v) /\ Says(u, Leaf(b, order)) => Says(u, w)
  <2>1. /\ v.bounds \in RectSet /\ v.max_order \in Nat /\ w.bounds \in RectSet /\ w.max_order \in Nat
        /\ \A u \in TreeNode : u.bounds \in RectSet /\ u.max_order \in Nat
    BY DEF TreeNode
  <2>2. Leaf(b, order).bounds = b /\ Leaf(b, order).max_order = order
    BY DEF Leaf
  <2>3. Says(w, v) /\ Says(w, Leaf(b, order))
    <3>1. v.max_order <= w.max_order /\ order <= w.max_order
      BY <1>5, <2>1, MaxBounds
    <3>2. Within(v.bounds, w.bounds) /\ Within(b, w.bounds)
      BY <1>5, <2>1, RectFacts
    <3> QED BY <2>2, <3>1, <3>2 DEF Says
  <2>4. ASSUME NEW u \in TreeNode, Says(u, v), Says(u, Leaf(b, order)) PROVE Says(u, w)
    <3>1. /\ Within(v.bounds, u.bounds) /\ v.max_order <= u.max_order
          /\ Within(b, u.bounds) /\ order <= u.max_order
      BY <2>2, <2>4 DEF Says
    <3>2. u.bounds \in RectSet /\ u.max_order \in Nat
      BY <2>1
    <3>3. Within(w.bounds, u.bounds)
      BY <1>5, <2>1, <3>1, <3>2, HullIsLeast
    <3>4. w.max_order <= u.max_order
      BY <1>5, <2>1, <3>1, <3>2, MaxBounds
    <3> QED BY <3>3, <3>4 DEF Says
  <2> HIDE DEF Hulled
  <2> QED BY <2>3, <2>4
<1>6. ASSUME NEW k \in 1..N
      PROVE  nodes[k] \in TreeNode /\ nodes'[k] \in TreeNode
  BY <1>1, <1>2
<1>7. Leaf(b, order) \in TreeNode
  BY DEF Leaf, TreeNode
\* A node says at least what it said, and what it said of the new leaf.
<1>8. ASSUME NEW k \in 1..N
      PROVE  /\ Says(nodes'[k], nodes[k])
             /\ low \in under[k] => Says(nodes'[k], Leaf(b, order))
  <2>1. CASE low \in under[k]
    <3> HIDE DEF Hulled
    <3> QED BY <1>1, <1>5, <1>6, <2>1
  <2>2. CASE low \notin under[k]
    BY <1>1, <1>6, <2>2, SaysFacts
  <2> QED BY <2>1, <2>2
<1>9. ASSUME Full(low)
      PROVE  /\ N + 2 \in 1..Len(nodes') /\ nodes'[N + 2] \in TreeNode
             /\ Hulled(nodes[leaf], nodes'[N + 2])
  <2>1. nodes'[N + 2] = Pair(leaf, b, order) /\ Len(nodes') = N + 2
    BY <1>1, <1>9
  <2>2. N + 2 \in 1..Len(nodes') /\ nodes'[N + 2] \in TreeNode
    BY <1>1, <1>2, <2>1
  <2> QED BY <2>1, <2>2 DEF Pair
<1> HIDE DEF Hulled
<1>10. ASSUME i \in 1..N, j \in 1..N, j \in under[i] PROVE Says(nodes'[i], nodes'[j])
  <2>1. Says(nodes[i], nodes[j]) /\ Says(nodes'[i], nodes[i]) /\ Says(nodes'[i], nodes[j])
    BY <1>2, <1>6, <1>8, <1>10, SaysFacts
  <2>2. CASE low \in under[j]
    <3>1. low \in under[i]
      BY <1>2, <1>10, <2>2
    <3>2. Says(nodes'[i], Leaf(b, order))
      BY <1>8, <1>10, <3>1
    <3>3. Hulled(nodes[j], nodes'[j])
      BY <1>1, <1>10, <2>2
    <3> QED BY <1>5, <1>6, <1>10, <2>1, <3>2, <3>3
  <2>3. CASE low \notin under[j]
    BY <1>1, <1>10, <2>1, <2>3
  <2> QED BY <2>2, <2>3
<1>11. j > N => j = N + 1 \/ (j = N + 2 /\ Full(low))
  BY <1>1, <1>2
<1>12. ASSUME i \in 1..N, low \in under[i] PROVE Says(nodes'[i], nodes'[N + 1])
  BY <1>1, <1>8, <1>12
<1>13. ASSUME i \in 1..N, low \in under[i], Full(low) PROVE Says(nodes'[i], nodes'[N + 2])
  <2>1. leaf \in under[i]
    BY <1>2, <1>3, <1>13
  <2>2. Says(nodes'[i], nodes[leaf])
    <3>1. Says(nodes'[i], nodes[i]) /\ Says(nodes[i], nodes[leaf])
      BY <1>2, <1>8, <1>13, <2>1
    <3> QED BY <1>3, <1>6, <1>13, <3>1, SaysFacts
  <2>3. Says(nodes'[i], Leaf(b, order))
    BY <1>8, <1>13
  <2> QED BY <1>3, <1>5, <1>6, <1>9, <1>13, <2>2, <2>3
<1>14. ASSUME i = N + 2 PROVE Says(nodes'[i], nodes'[N + 1]) /\ Says(nodes'[i], nodes'[leaf])
  <2>1. Full(low)
    BY <1>1, <1>2, <1>14
  <2>2. Says(nodes'[N + 2], nodes[leaf]) /\ Says(nodes'[N + 2], Leaf(b, order))
    BY <1>3, <1>5, <1>6, <1>9, <2>1
  <2> QED BY <1>1, <1>4, <1>14, <2>2
<1>15. nodes'[i] \in TreeNode
  BY <1>1
<1>16. j = i => Says(nodes'[i], nodes'[j])
  BY <1>15, SaysFacts
<1> QED BY <1>10, <1>11, <1>12, <1>13, <1>14, <1>16 DEF leaf

\* The children of a new node.
LEMMA EntriesOfTwo ==
    ASSUME NEW x, NEW y, x # y
    PROVE  Differ(<<x, y>>) /\ Entries(<<x, y>>) = {x, y}
<1> DEFINE c == <<x, y>>
<1>1. Len(c) = 2 /\ c[1] = x /\ c[2] = y
  OBVIOUS
<1> HIDE DEF c
<1>2. /\ \A p \in 1..Len(c) : p = 1 \/ p = 2
      /\ 1 \in 1..Len(c) /\ 2 \in 1..Len(c)
  BY <1>1
<1>3. Differ(c)
  BY <1>1, <1>2 DEF Differ
<1>4. Entries(c) = {x, y}
  BY <1>1, <1>2 DEF Entries
<1> QED BY <1>3, <1>4 DEF c

\* The children of the nodes after an insertion below `low`.
LEMMA GrownKids ==
    ASSUME NEW under, Tree(under), NEW b, NEW order,
           NEW low \in 1..Len(nodes), Grown(under, b, order, low)
    PROVE  /\ ChildrenDiffer'
           /\ KidsOf' =
                 IF Full(low)
                 THEN KidsWithPair(1..Len(nodes), KidsOf, low, BestChild(low, b),
                                   Len(nodes) + 1, Len(nodes) + 2)
                 ELSE KidsWithLeaf(1..Len(nodes), KidsOf, low, Len(nodes) + 1)
<1> DEFINE N == Len(nodes)
           leaf == BestChild(low, b)
           K2(i) == CASE i = N + 1 -> {}
                      [] i = N + 2 /\ i # N + 1 -> {leaf, N + 1}
                      [] i \in 1..N /\ i # low -> KidsOf[i]
                      [] i \in 1..N /\ i = low /\ Full(low) -> (KidsOf[i] \ {leaf}) \cup {N + 2}
                      [] i \in 1..N /\ i = low /\ ~Full(low) -> KidsOf[i] \cup {N + 1}
<1>1. /\ leaf \in KidsOf[low]
      /\ Len(nodes') = IF Full(low) THEN N + 2 ELSE N + 1
      /\ \A k \in 1..N : /\ Differ(nodes'[k].children)
                         /\ Entries(nodes'[k].children) =
                               CASE k # low -> KidsOf[k]
                                 [] k = low /\ Full(low) -> (KidsOf[k] \ {leaf}) \cup {N + 2}
                                 [] k = low /\ ~Full(low) -> KidsOf[k] \cup {N + 1}
      /\ nodes'[N + 1] = Leaf(b, order)
      /\ Full(low) => nodes'[N + 2] = Pair(leaf, b, order)
  BY DEF Grown
<1>2. N \in Nat
  BY DEF Tree
<1>3. leaf \in 1..N
  BY <1>1, FewerUnder
<1>4. KidsOf' = [i \in 1..Len(nodes') |-> Entries(nodes'[i].children)]
  BY DEF KidsOf, Entries
<1> HIDE DEF leaf
<1>5. ASSUME NEW i \in 1..Len(nodes')
      PROVE  Differ(nodes'[i].children) /\ Entries(nodes'[i].children) = K2(i)
  <2>1. CASE i \in 1..N
    <3>1. i # N + 1 /\ i # N + 2
      BY <1>2, <2>1
    <3> QED BY <1>1, <2>1, <3>1
  <2>2. CASE i = N + 1
    <3>1. nodes'[i].children = <<>>
      BY <1>1, <2>2 DEF Leaf
    <3>2. Differ(<<>>) /\ Entries(<<>>) = {}
      BY DEF Differ, Entries
    <3> QED BY <2>2, <3>1, <3>2
  <2>3. CASE i = N + 2 /\ Full(low)
    <3>1. nodes'[i].children = <<leaf, N + 1>> \/ nodes'[i].children = <<N + 1, leaf>>
      BY <1>1, <2>3 DEF Pair
    <3>2. leaf # N + 1 /\ N + 2 # N + 1
      BY <1>2, <1>3
    <3>3. /\ Differ(<<leaf, N + 1>>) /\ Entries(<<leaf, N + 1>>) = {leaf, N + 1}
          /\ Differ(<<N + 1, leaf>>) /\ Entries(<<N + 1, leaf>>) = {N + 1, leaf}
      <4> HIDE DEF N
      <4> QED BY <3>2, EntriesOfTwo
    <3>4. K2(i) = {leaf, N + 1}
      BY <2>3, <3>2
    <3> HIDE DEF K2
    <3> QED BY <3>1, <3>3, <3>4
  <2>4. i \in 1..N \/ i = N + 1 \/ (i = N + 2 /\ Full(low))
    BY <1>1, <1>2
  <2> QED BY <2>1, <2>2, <2>3, <2>4
<1>6. KidsOf' = [i \in 1..Len(nodes') |-> K2(i)]
  <2> HIDE DEF K2
  <2> QED BY <1>4, <1>5
<1>7. ChildrenDiffer'
  BY <1>5 DEF ChildrenDiffer, Differ
<1>8. CASE Full(low)
  <2>1. 1..Len(nodes') = 1..N \cup {N + 1, N + 2}
    BY <1>1, <1>2, <1>8
  <2>2. \A i \in 1..N \cup {N + 1, N + 2} :
           K2(i) = CASE i = N + 1 -> {}
                     [] i = N + 2 /\ i # N + 1 -> {leaf, N + 1}
                     [] i = low /\ i \in 1..N -> (KidsOf[i] \ {leaf}) \cup {N + 2}
                     [] OTHER -> KidsOf[i]
    <3>1. low \in 1..N /\ N + 1 \notin 1..N /\ N + 2 \notin 1..N /\ N + 1 # N + 2
      BY <1>2
    <3> QED BY <1>8, <3>1
  <2>3. KidsOf' = KidsWithPair(1..N, KidsOf, low, leaf, N + 1, N + 2)
    <3> HIDE DEF K2
    <3> QED BY <1>6, <2>1, <2>2 DEF KidsWithPair
  <2> QED BY <1>7, <1>8, <2>3 DEF leaf
<1>9. CASE ~Full(low)
  <2>1. 1..Len(nodes') = 1..N \cup {N + 1}
    BY <1>1, <1>2, <1>9
  <2>2. \A i \in 1..N \cup {N + 1} :
           K2(i) = CASE i = N + 1 -> {}
                     [] i = low /\ i # N + 1 -> KidsOf[i] \cup {N + 1}
                     [] OTHER -> KidsOf[i]
    <3>1. low \in 1..N /\ N + 1 \notin 1..N /\ N + 2 \notin 1..N /\ N + 1 # N + 2
      BY <1>2
    <3> QED BY <1>9, <3>1
  <2>3. KidsOf' = KidsWithLeaf(1..N, KidsOf, low, N + 1)
    <3> HIDE DEF K2
    <3> QED BY <1>6, <2>1, <2>2 DEF KidsWithLeaf
  <2> QED BY <1>7, <1>9, <2>3
<1> QED BY <1>8, <1>9

\* The nodes are a tree after the insertion.
LEMMA TreeGrows ==
    ASSUME NEW under, Tree(under), NEW b \in RectSet, NEW order \in Nat,
           NEW low \in 1..Len(nodes), Grown(under, b, order, low)
    PROVE  \E u : Tree(u)'
<1> DEFINE N == Len(nodes)
           all == 1..N
           leaf == BestChild(low, b)
           new == N + 1
           pair == N + 2
           more == IF Full(low) THEN {new, pair} ELSE {new}
           kids == KidsOf
<1>1. /\ leaf \in kids[low] /\ IsLeaf(leaf)
      /\ nodes' \in Seq(TreeNode) /\ Len(nodes') = IF Full(low) THEN N + 2 ELSE N + 1
      /\ root' = root
  BY DEF Grown
<1>2. /\ N \in Nat /\ root \in all
      /\ Forest(kids, under, all) /\ under[root] = all
  BY DEF Tree
<1>3. ChildrenDiffer'
  BY GrownKids
<1>4. KidsOf' = IF Full(low) THEN KidsWithPair(all, kids, low, leaf, new, pair)
                ELSE KidsWithLeaf(all, kids, low, new)
  BY GrownKids
<1>5. leaf \in all /\ kids[leaf] = {} /\ under[leaf] = {leaf}
  <2>1. leaf \in all
    BY <1>1, FewerUnder
  <2>2. KidsOf[leaf] = {nodes[leaf].children[p] : p \in 1..Len(nodes[leaf].children)}
        /\ nodes[leaf].children = <<>> /\ under[leaf] = {leaf}
    BY <1>1, <2>1, NodeFacts
  <2> HIDE DEF leaf
  <2>3. KidsOf[leaf] = {}
    BY <2>2
  <2> QED BY <2>1, <2>2, <2>3
<1>6. /\ new \notin all /\ pair \notin all /\ pair # new
      /\ 1..Len(nodes') = all \cup more
  BY <1>1, <1>2
<1>7. \A i \in all : under[i] \subseteq all
  BY <1>2 DEF Forest
<1>8. low \in all /\ root \in all
  BY <1>2
<1>9. PICK u : u = IF Full(low) THEN UnderWithPair(all, under, low, leaf, new, pair)
                   ELSE UnderWithLeaf(all, under, low, new)
  OBVIOUS
<1> HIDE DEF N, all, leaf, new, pair, kids
<1>10. Forest(KidsOf', u, all \cup more)
  <2>1. CASE Full(low)
    <3>1. Forest(KidsWithPair(all, kids, low, leaf, new, pair),
                 UnderWithPair(all, under, low, leaf, new, pair), all \cup {new, pair})
      BY <1>1, <1>2, <1>5, <1>6, <1>8, ForestWithPair
    <3> QED BY <1>4, <1>9, <2>1, <3>1
  <2>2. CASE ~Full(low)
    <3>1. Forest(KidsWithLeaf(all, kids, low, new), UnderWithLeaf(all, under, low, new),
                 all \cup {new})
      BY <1>2, <1>6, <1>8, ForestWithLeaf
    <3> QED BY <1>4, <1>9, <2>2, <3>1
  <2> QED BY <2>1, <2>2
<1>11. /\ u[new] = {new}
       /\ Full(low) => u[pair] = {pair, leaf, new}
       /\ \A i \in all : u[i] = IF low \in under[i] THEN under[i] \cup more ELSE under[i]
  <2>1. CASE Full(low)
    BY <1>6, <1>9, <2>1 DEF UnderWithPair
  <2>2. CASE ~Full(low)
    BY <1>6, <1>9, <2>2 DEF UnderWithLeaf
  <2> QED BY <2>1, <2>2
<1>12. u[root] = all \cup more
  BY <1>2, <1>8, <1>11
<1>13. ASSUME NEW i \in 1..Len(nodes'), NEW j \in u[i]
       PROVE  Says(nodes'[i], nodes'[j])
  <2>1. i \in all \cup more /\ u[i] \subseteq all \cup more
    BY <1>6, <1>10 DEF Forest
  <2>2. j \in 1..Len(nodes')
    BY <1>6, <2>1
  <2>3. i \in all \/ i = new \/ (i = pair /\ Full(low))
    BY <2>1
  <2>4. \/ i \in all /\ j \in all /\ j \in under[i]
        \/ i \in all /\ (j = new \/ j = pair) /\ low \in under[i]
        \/ i = new /\ j = i
        \/ i = pair /\ (j = i \/ j = new \/ j = leaf)
    <3>1. CASE i = new
      BY <1>11, <1>13, <3>1
    <3>2. CASE i = pair /\ Full(low)
      BY <1>11, <1>13, <3>2
    <3>3. CASE i \in all
      <4>1. u[i] = IF low \in under[i] THEN under[i] \cup more ELSE under[i]
        BY <1>11, <3>3
      <4> QED BY <1>7, <1>13, <3>3, <4>1
    <3> QED BY <2>3, <3>1, <3>2, <3>3
  <2>5. \/ i \in 1..Len(nodes) /\ j \in 1..Len(nodes) /\ j \in under[i]
        \/ i \in 1..Len(nodes) /\ j > Len(nodes) /\ low \in under[i]
        \/ i > Len(nodes) /\ j = i
        \/ i = Len(nodes) + 2 /\ j = Len(nodes) + 1
        \/ i = Len(nodes) + 2 /\ j = BestChild(low, b)
    <3>1. N \in Nat /\ (j = new \/ j = pair => j > N) /\ (i = new \/ i = pair => i > N)
      BY <1>2 DEF new, pair
    <3> QED BY <2>4, <3>1 DEF all, N, new, pair, leaf
  <2> QED BY <2>2, <2>5, GrownCovers
<1>14. Forest(KidsOf', u, 1..Len(nodes')) /\ u[root'] = 1..Len(nodes')
  BY <1>1, <1>6, <1>10, <1>12
<1>15. nodes' \in Seq(TreeNode) /\ root' \in 1..Len(nodes')
  BY <1>1, <1>6, <1>8
<1>16. NodesCover(u)'
  BY <1>13 DEF NodesCover, Says
<1>17. Tree(u)'
  BY <1>3, <1>14, <1>15, <1>16 DEF Tree
<1> QED BY <1>17

\* A leaf is a node with no children, as a set too.
LEMMA EmptyEntries ==
    ASSUME NEW S, NEW s \in Seq(S)
    PROVE  s = <<>> <=> Entries(s) = {}
<1>1. s = <<>> => Entries(s) = {}
  BY DEF Entries
<1>2. ASSUME s # <<>> PROVE Entries(s) # {}
  <2>1. 1 \in 1..Len(s)
    BY <1>2
  <2> QED BY <2>1 DEF Entries
<1> QED BY <1>1, <1>2

\* What an insertion makes of the leaves: one more, after the others.
LeafAdded(b, order) ==
    /\ Len(nodes) \in Nat /\ Len(nodes') \in Nat
    /\ Leaves' = Leaves \cup {Len(nodes) + 1}
    /\ nodes'[Len(nodes) + 1] = Leaf(b, order)
    /\ \A i \in Leaves : nodes'[i] = nodes[i]

\* The first insertion, when there is no node.
LEMMA FirstLeaf ==
    ASSUME nodes = <<>>, NEW b \in RectSet, NEW order \in Nat,
           nodes' = <<Leaf(b, order)>>, root' = 1
    PROVE  (\E u : Tree(u)') /\ LeafAdded(b, order)
<1> DEFINE v == Leaf(b, order)
<1>1. v \in TreeNode /\ v.children = <<>>
  BY DEF Leaf, TreeNode
<1> HIDE DEF v
<1>2. nodes' \in Seq(TreeNode) /\ Len(nodes') = 1 /\ nodes'[1] = v /\ Len(nodes) = 0
  BY <1>1 DEF v
<1>3. 1..Len(nodes') = {1} /\ 1..Len(nodes) = {}
  BY <1>2
<1>4. KidsOf' = [i \in {1} |-> {}]
  <2>1. KidsOf' = [i \in 1..Len(nodes') |->
                     {nodes'[i].children[p] : p \in 1..Len(nodes'[i].children)}]
    BY DEF KidsOf
  <2>2. \A i \in {1} : {nodes'[i].children[p] : p \in 1..Len(nodes'[i].children)} = {}
    BY <1>1, <1>2
  <2> QED BY <1>3, <2>1, <2>2
<1>5. ChildrenDiffer'
  BY <1>1, <1>2, <1>3 DEF ChildrenDiffer
<1>6. PICK u : u = [i \in {1} |-> {1}]
  OBVIOUS
<1>7. Forest([i \in {1} |-> {}], u, {1})
  BY <1>6 DEF Forest
<1>8. NodesCover(u)'
  <2>1. Says(v, v)
    BY <1>1, SaysFacts
  <2> QED BY <1>2, <1>3, <1>6, <2>1 DEF NodesCover, Says
<1>9. Tree(u)'
  <2>1. Forest(KidsOf', u, 1..Len(nodes')) /\ u[root'] = 1..Len(nodes') /\ root' \in 1..Len(nodes')
    BY <1>3, <1>4, <1>6, <1>7
  <2> QED BY <1>2, <1>5, <1>8, <2>1 DEF Tree
<1>10. Leaves' = {1} /\ Leaves = {}
  BY <1>1, <1>2, <1>3 DEF Leaves, IsLeaf
<1>11. LeafAdded(b, order)
  BY <1>2, <1>10 DEF LeafAdded, v
<1> QED BY <1>9, <1>11

\* An insertion below `low` makes one leaf and keeps the others.
LEMMA GrownLeaves ==
    ASSUME NEW under, Tree(under), NEW b \in RectSet, NEW order \in Nat,
           NEW low \in 1..Len(nodes), Grown(under, b, order, low)
    PROVE  LeafAdded(b, order)
<1> DEFINE N == Len(nodes)
           leaf == BestChild(low, b)
<1>1. /\ low \in 1..N /\ ~IsLeaf(low) /\ leaf \in KidsOf[low]
      /\ nodes' \in Seq(TreeNode) /\ Len(nodes') = IF Full(low) THEN N + 2 ELSE N + 1
      /\ nodes'[N + 1] = Leaf(b, order)
      /\ Full(low) => nodes'[N + 2] = Pair(leaf, b, order)
      /\ \A i \in 1..N :
            /\ low \notin under[i] => nodes'[i] = nodes[i]
            /\ Entries(nodes'[i].children) =
                  CASE i # low -> KidsOf[i]
                    [] i = low /\ Full(low) -> (KidsOf[i] \ {leaf}) \cup {N + 2}
                    [] i = low /\ ~Full(low) -> KidsOf[i] \cup {N + 1}
  BY DEF Grown
<1>2. N \in Nat
  BY DEF Tree
<1>3. leaf \in 1..N
  BY <1>1, FewerUnder
<1> HIDE DEF leaf
<1>4. \A i \in 1..Len(nodes') : nodes'[i] \in TreeNode /\ nodes'[i].children \in Seq(Nat)
  <2>1. \A i \in 1..Len(nodes') : nodes'[i] \in TreeNode
    BY <1>1
  <2>2. \A v \in TreeNode : v.children \in Seq(Nat)
    BY DEF TreeNode
  <2> QED BY <2>1, <2>2
<1>5. \A i \in 1..N : i \in 1..Len(nodes')
  BY <1>1, <1>2
<1>6. ASSUME NEW i \in 1..N PROVE nodes'[i].children = <<>> <=> IsLeaf(i)
  <2>1. nodes'[i].children = <<>> <=> Entries(nodes'[i].children) = {}
    <3>1. nodes'[i].children \in Seq(Nat)
      BY <1>4, <1>5
    <3> QED BY <3>1, EmptyEntries
  <2>2. IsLeaf(i) <=> KidsOf[i] = {}
    <3>1. nodes[i].children \in Seq(Nat) /\ KidsOf[i] = Entries(nodes[i].children)
      BY ChildrenFacts
    <3> QED BY <3>1, EmptyEntries DEF IsLeaf
  <2> QED BY <1>1, <2>1, <2>2
<1>7. ASSUME NEW i \in Leaves PROVE nodes'[i] = nodes[i]
  <2>1. i \in 1..N /\ IsLeaf(i) /\ i # low
    BY <1>1 DEF Leaves
  <2>2. low \notin under[i]
    <3>1. under[i] = {i}
      BY <2>1, NodeFacts
    <3> QED BY <2>1, <3>1
  <2> QED BY <1>1, <2>1, <2>2
<1>8. nodes'[N + 1].children = <<>>
  BY <1>1 DEF Leaf
<1>9. Full(low) => nodes'[N + 2].children # <<>>
  <2> SUFFICES ASSUME Full(low) PROVE nodes'[N + 2].children # <<>>
    OBVIOUS
  <2>1. nodes'[N + 2].children = <<leaf, N + 1>> \/ nodes'[N + 2].children = <<N + 1, leaf>>
    BY <1>1 DEF Pair
  <2>2. \A x, y : <<x, y>> # <<>>
    OBVIOUS
  <2> QED BY <2>1, <2>2
<1>10. \A i \in 1..Len(nodes') : i \in 1..N \/ i = N + 1 \/ (i = N + 2 /\ Full(low))
  BY <1>1, <1>2
<1>11. N + 1 \in 1..Len(nodes')
  BY <1>1, <1>2
<1>12. Leaves' = {i \in 1..Len(nodes') : nodes'[i].children = <<>>}
  BY DEF Leaves, IsLeaf
<1>13. \A i : i \in Leaves' <=> i \in Leaves \/ i = N + 1
  BY <1>5, <1>6, <1>8, <1>9, <1>10, <1>11, <1>12 DEF Leaves
<1>14. Leaves' = Leaves \cup {N + 1}
  BY <1>13
<1>15. Len(nodes') \in Nat
  BY <1>1, <1>2
<1> QED BY <1>1, <1>2, <1>7, <1>14, <1>15 DEF LeafAdded

\* The second insertion, when the root is a leaf.
LEMMA SecondLeaf ==
    ASSUME NEW under, Tree(under), IsLeaf(root), NEW b \in RectSet, NEW order \in Nat,
           nodes' = nodes \o <<Leaf(b, order), Pair(root, b, order)>>, root' = Len(nodes) + 2
    PROVE  (\E u : Tree(u)') /\ LeafAdded(b, order)
<1> DEFINE v == nodes[1]
           w == Leaf(b, order)
           r == Pair(root, b, order)
<1>1. Len(nodes) \in Nat /\ root = 1 /\ Len(nodes) = 1
  <2>1. root \in 1..Len(nodes) /\ Len(nodes) \in Nat /\ under[root] = 1..Len(nodes)
    BY DEF Tree
  <2>2. 1..Len(nodes) = {root}
    BY <2>1, NodeFacts
  <2>3. 1 \in 1..Len(nodes) /\ Len(nodes) \in 1..Len(nodes)
    BY <2>1
  <2> QED BY <2>1, <2>2, <2>3
<1>2. /\ v \in TreeNode /\ v.children = <<>> /\ v.bounds \in RectSet /\ v.max_order \in Nat
      /\ nodes \in Seq(TreeNode)
  <2>1. nodes \in Seq(TreeNode)
    BY DEF Tree
  <2>2. 1 \in 1..Len(nodes) /\ IsLeaf(1)
    BY <1>1
  <2>3. v \in TreeNode
    BY <2>1, <2>2
  <2>4. v.bounds \in RectSet /\ v.max_order \in Nat /\ v.children = <<>>
    BY <2>2, NodeFacts
  <2> QED BY <2>1, <2>3, <2>4
<1>3. w \in TreeNode /\ w.children = <<>> /\ w.bounds = b /\ w.max_order = order
  BY DEF Leaf, TreeNode
<1>4. /\ r.bounds = Hull(v.bounds, b) /\ r.max_order = Max({v.max_order, order})
      /\ r.children = <<1, 2>> \/ r.children = <<2, 1>>
  BY <1>1 DEF Pair
<1>5. r \in TreeNode
  <2>1. Hull(v.bounds, b) \in RectSet /\ Max({v.max_order, order}) \in Nat
    BY <1>2, RectFacts, MaxBounds
  <2>2. <<1, 2>> \in Seq(Nat) /\ <<2, 1>> \in Seq(Nat)
    OBVIOUS
  <2>3. r = [bounds |-> Hull(v.bounds, b), max_order |-> Max({v.max_order, order}),
             children |-> r.children]
    BY <1>1 DEF Pair
  <2> HIDE DEF r
  <2>4. r.children \in Seq(Nat)
    BY <1>4, <2>2
  <2> QED BY <2>1, <2>3, <2>4 DEF TreeNode
<1> HIDE DEF v, w, r
<1>6. /\ Differ(r.children) /\ Entries(r.children) = {1, 2} /\ r.children # <<>>
  <2>1. /\ Differ(<<1, 2>>) /\ Entries(<<1, 2>>) = {1, 2}
        /\ Differ(<<2, 1>>) /\ Entries(<<2, 1>>) = {2, 1}
    BY EntriesOfTwo
  <2>2. <<1, 2>> # <<>> /\ <<2, 1>> # <<>>
    OBVIOUS
  <2>3. {2, 1} = {1, 2}
    OBVIOUS
  <2> QED BY <1>4, <2>1, <2>2, <2>3, Zenon
<1>7. /\ nodes' \in Seq(TreeNode) /\ Len(nodes') = 3
      /\ nodes'[1] = v /\ nodes'[2] = w /\ nodes'[3] = r
  <2> DEFINE s == <<w, r>>
  <2>1. s \in Seq(TreeNode) /\ Len(s) = 2 /\ s[1] = w /\ s[2] = r
    BY <1>3, <1>5
  <2>2. nodes' = nodes \o s
    BY DEF w, r
  <2> HIDE DEF s
  <2>3. /\ nodes \o s \in Seq(TreeNode) /\ Len(nodes \o s) = Len(nodes) + Len(s)
        /\ \A i \in 1..Len(nodes) : (nodes \o s)[i] = nodes[i]
        /\ \A i \in 1..Len(s) : (nodes \o s)[Len(nodes) + i] = s[i]
    <3>1. nodes \in Seq(TreeNode) /\ s \in Seq(TreeNode)
      BY <1>2, <2>1
    <3> QED BY <3>1
  <2>4. 1 \in 1..Len(nodes) /\ 1 \in 1..Len(s) /\ 2 \in 1..Len(s)
    BY <1>1, <2>1
  <2> QED BY <1>1, <2>1, <2>2, <2>3, <2>4 DEF v
<1>8. 1..Len(nodes') = {1, 2, 3} /\ 1..Len(nodes) = {1}
  BY <1>1, <1>7
<1>9. /\ Differ(<<>>) /\ Entries(<<>>) = {}
  BY DEF Differ, Entries
<1>10. KidsOf' = [i \in {1, 2, 3} |-> IF i = 3 THEN {1, 2} ELSE {}]
  <2>1. KidsOf' = [i \in 1..Len(nodes') |-> Entries(nodes'[i].children)]
    BY DEF KidsOf, Entries
  <2>2. \A i \in {1, 2, 3} : Entries(nodes'[i].children) = IF i = 3 THEN {1, 2} ELSE {}
    BY <1>2, <1>3, <1>6, <1>7, <1>9
  <2> QED BY <1>8, <2>1, <2>2
<1>11. ChildrenDiffer'
  <2>1. \A i \in {1, 2, 3} : Differ(nodes'[i].children)
    BY <1>2, <1>3, <1>6, <1>7, <1>9
  <2> QED BY <1>8, <2>1 DEF ChildrenDiffer, Differ
<1>12. PICK u : u = [i \in {1, 2, 3} |-> IF i = 3 THEN {1, 2, 3} ELSE {i}]
  OBVIOUS
<1>13. Forest([i \in {1, 2, 3} |-> IF i = 3 THEN {1, 2} ELSE {}], u, {1, 2, 3})
  BY <1>12 DEF Forest
<1>14. NodesCover(u)'
  <2>1. Says(v, v) /\ Says(w, w) /\ Says(r, r)
    BY <1>2, <1>3, <1>5, SaysFacts
  <2>2. Says(r, v) /\ Says(r, w)
    <3>1. Within(v.bounds, r.bounds) /\ Within(w.bounds, r.bounds)
      BY <1>2, <1>3, <1>4, RectFacts
    <3>2. v.max_order <= r.max_order /\ w.max_order <= r.max_order
      BY <1>2, <1>3, <1>4, MaxBounds
    <3> QED BY <3>1, <3>2 DEF Says
  <2>3. \A i \in {1, 2, 3} : \A j \in u[i] : Says(nodes'[i], nodes'[j])
    BY <1>7, <1>12, <2>1, <2>2
  <2> QED BY <1>8, <2>3 DEF NodesCover, Says
<1>15. Tree(u)'
  <2>1. Forest(KidsOf', u, 1..Len(nodes')) /\ u[root'] = 1..Len(nodes') /\ root' \in 1..Len(nodes')
    <3>1. Forest(KidsOf', u, 1..Len(nodes'))
      BY <1>8, <1>10, <1>13
    <3>2. root' = 3
      BY <1>1
    <3> QED BY <1>8, <1>12, <3>1, <3>2
  <2> QED BY <1>7, <1>11, <1>14, <2>1 DEF Tree
<1>16. Leaves' = {1, 2} /\ Leaves = {1}
  BY <1>1, <1>2, <1>3, <1>6, <1>7, <1>8 DEF Leaves, IsLeaf, v
<1>17. LeafAdded(b, order)
  BY <1>1, <1>7, <1>16 DEF LeafAdded, v, w
<1> QED BY <1>15, <1>17

\* Whatever the tree was, it is one after an insertion, with a leaf more.
LEMMA InsertKeepsTree ==
    ASSUME TreeInv, NEW b \in RectSet, NEW order \in Nat, InsertLeaf(b, order)
    PROVE  (\E u : Tree(u)') /\ LeafAdded(b, order)
<1>1. CASE nodes = <<>> /\ root = 0
  <2>1. nodes' = <<Leaf(b, order)>> /\ root' = 1
    BY <1>1 DEF InsertLeaf
  <2> QED BY <1>1, <2>1, FirstLeaf
<1>2. ASSUME NEW under, Tree(under)
      PROVE  (\E u : Tree(u)') /\ LeafAdded(b, order)
  <2>1. root # 0
    BY <1>2 DEF Tree
  <2>2. CASE IsLeaf(root)
    <3>1. /\ nodes' = nodes \o <<Leaf(b, order), Pair(root, b, order)>>
          /\ root' = Len(nodes) + 1 + 1
      BY <2>1, <2>2 DEF InsertLeaf
    <3>2. root' = Len(nodes) + 2
      BY <1>2, <3>1 DEF Tree
    <3> QED BY <1>2, <2>2, <3>1, <3>2, SecondLeaf
  <2>3. CASE ~IsLeaf(root)
    <3>1. PICK low \in 1..Len(nodes) : Grown(under, b, order, low)
      BY <1>2, <2>3, InsertGrows
    <3> QED BY <1>2, <3>1, TreeGrows, GrownLeaves
  <2> QED BY <2>2, <2>3
<1> QED BY <1>1, <1>2 DEF TreeInv

\* The greatest of some numbers.
LEMMA MaxIs ==
    ASSUME NEW S \in SUBSET Int, NEW m \in S, \A x \in S : x <= m
    PROVE  Max(S) = m
<1>1. \A x \in S : m >= x
  OBVIOUS
<1>2. Max(S) \in S /\ \A y \in S : Max(S) >= y
  BY <1>1, Zenon DEF Max
<1>3. Max(S) >= m /\ Max(S) <= m
  BY <1>2
<1>4. Max(S) \in Int /\ m \in Int
  BY <1>2
<1> QED BY <1>3, <1>4

\* What is known of a leaf.
LEMMA LeafTypes ==
    ASSUME TreeInv
    PROVE  /\ Len(nodes) \in Nat
           /\ \A i \in Leaves : /\ i \in 1..Len(nodes)
                                /\ nodes[i].bounds \in RectSet /\ nodes[i].max_order \in Nat
<1>1. CASE nodes = <<>>
  BY <1>1 DEF Leaves
<1>2. ASSUME NEW under, Tree(under)
      PROVE  /\ Len(nodes) \in Nat
             /\ \A i \in Leaves : /\ i \in 1..Len(nodes)
                                  /\ nodes[i].bounds \in RectSet /\ nodes[i].max_order \in Nat
  <2>1. Len(nodes) \in Nat
    BY <1>2 DEF Tree
  <2>2. \A i \in Leaves : i \in 1..Len(nodes)
    BY DEF Leaves
  <2> QED BY <1>2, <2>1, <2>2, NodeFacts
<1> QED BY <1>1, <1>2 DEF TreeInv

\* What BoundsTree::insert does.
Inserted(b, order) ==
    /\ TreeInv' /\ LeafAdded(b, order)
    /\ OrderIsOneAbove => OrderIsOneAbove'
    /\ order \in Nat
    /\ \A j \in Leaves : Intersects(nodes[j].bounds, b) => nodes[j].max_order < order

\* BoundsTree::insert keeps the tree, and gives an order above all it overlaps.
LEMMA InsertKeeps ==
    ASSUME TreeInv, NEW b \in RectSet, NEW order, InsertBounds(b, order)
    PROVE  Inserted(b, order)
<1> DEFINE N == Len(nodes)
           m == find_max_ordering(b)
<1>1. /\ order = m + 1 /\ InsertLeaf(b, order)
      /\ max_leaf' = IF max_leaf = 0 \/ nodes[max_leaf].max_order < order
                     THEN N + 1 ELSE max_leaf
  BY DEF InsertBounds
<1>2. GreatestMet(b, m)
  BY FindsGreatest
<1> HIDE DEF m
<1>3. m \in Nat /\ order \in Nat
  BY <1>1, <1>2 DEF GreatestMet
<1>4. (\E u : Tree(u)') /\ LeafAdded(b, order)
  BY <1>1, <1>3, InsertKeepsTree
<1>5. /\ N \in Nat /\ Leaves' = Leaves \cup {N + 1} /\ nodes'[N + 1] = Leaf(b, order)
      /\ \A i \in Leaves : nodes'[i] = nodes[i]
  BY <1>4 DEF LeafAdded
<1>6. \A i \in Leaves : /\ i \in 1..N /\ i # N + 1 /\ i < N + 1
                        /\ nodes[i].bounds \in RectSet /\ nodes[i].max_order \in Nat
  <2>1. \A i \in 1..N : i # N + 1 /\ i < N + 1
    BY <1>5
  <2> QED BY <2>1, LeafTypes
<1>7. nodes'[N + 1].bounds = b /\ nodes'[N + 1].max_order = order
  BY <1>5 DEF Leaf
<1>8. \A j \in Leaves : Intersects(nodes[j].bounds, b) <=> Intersects(b, nodes[j].bounds)
  BY <1>6, RectFacts
<1>9. \A j \in Leaves : Intersects(nodes[j].bounds, b) => nodes[j].max_order < order
  BY <1>1, <1>2, <1>3, <1>6, <1>8 DEF GreatestMet, Met
<1>10. TreeInv'
  <2>1. MaxLeafIsGreatest'
    <3>1. CASE nodes = <<>> /\ root = 0 /\ max_leaf = 0
      <4>1. max_leaf' = N + 1 /\ Leaves = {}
        BY <1>1, <3>1 DEF Leaves
      <4> QED BY <1>3, <1>5, <1>7, <4>1 DEF MaxLeafIsGreatest
    <3>2. CASE MaxLeafIsGreatest
      <4>1. max_leaf \in Leaves /\ max_leaf # 0 /\ nodes[max_leaf].max_order \in Nat
        BY <1>6, <3>2 DEF MaxLeafIsGreatest
      <4>2. \A j \in Leaves : nodes[j].max_order <= nodes[max_leaf].max_order
        BY <3>2 DEF MaxLeafIsGreatest
      <4>3. CASE nodes[max_leaf].max_order < order
        <5>1. max_leaf' = N + 1
          BY <1>1, <4>3
        <5>2. \A j \in Leaves : nodes'[j].max_order <= order
          BY <1>3, <1>5, <1>6, <4>1, <4>2, <4>3
        <5>3. order <= order
          BY <1>3
        <5>4. \A j \in Leaves' : nodes'[j].max_order <= order
          BY <1>5, <1>7, <5>2, <5>3
        <5> QED BY <1>5, <1>7, <5>1, <5>4 DEF MaxLeafIsGreatest
      <4>4. CASE ~(nodes[max_leaf].max_order < order)
        <5>1. max_leaf' = max_leaf /\ order <= nodes[max_leaf].max_order
          BY <1>1, <1>3, <4>1, <4>4
        <5>2. nodes'[max_leaf] = nodes[max_leaf]
          BY <1>5, <4>1
        <5>3. \A j \in Leaves' : nodes'[j].max_order <= nodes[max_leaf].max_order
          BY <1>5, <1>7, <4>2, <5>1
        <5> QED BY <1>5, <4>1, <5>1, <5>2, <5>3 DEF MaxLeafIsGreatest
      <4> QED BY <4>3, <4>4
    <3> QED BY <3>1, <3>2 DEF TreeInv
  <2> QED BY <1>4, <2>1 DEF TreeInv
<1>11. ASSUME OrderIsOneAbove PROVE OrderIsOneAbove'
  <2> DEFINE Below(i) == {l \in Leaves : l < i /\ Intersects(nodes[l].bounds, nodes[i].bounds)}
             Orders(i) == {nodes[j].max_order : j \in Below(i)}
             Below2(i) == {l \in Leaves' : l < i /\ Intersects(nodes'[l].bounds, nodes'[i].bounds)}
             Orders2(i) == {nodes'[j].max_order : j \in Below2(i)}
  <2>1. ASSUME NEW i \in Leaves PROVE nodes'[i].max_order = 1 + Max({0} \cup Orders2(i))
    <3>1. Below2(i) = Below(i)
      <4>1. \A l \in Leaves' : l < i => l \in Leaves
        <5>1. ~(N + 1 < i)
          BY <1>5, <1>6
        <5> QED BY <1>5, <5>1
      <4> QED BY <1>5, <4>1
    <3>2. Orders2(i) = Orders(i)
      <4>1. \A j \in Below(i) : nodes'[j] = nodes[j]
        BY <1>5
      <4> HIDE DEF Below, Below2
      <4> QED BY <3>1, <4>1
    <3>3. nodes[i].max_order = 1 + Max({0} \cup Orders(i))
      BY <1>11 DEF OrderIsOneAbove
    <3> HIDE DEF Orders, Orders2
    <3> QED BY <1>5, <3>2, <3>3
  <2>2. order = 1 + Max({0} \cup Orders2(N + 1))
    <3>1. Below2(N + 1) = Met(b)
      <4>1. ~(N + 1 < N + 1)
        BY <1>5
      <4>2. \A l \in Leaves : l < N + 1 /\ nodes'[l] = nodes[l]
        BY <1>5, <1>6
      <4> QED BY <1>5, <1>7, <1>8, <4>1, <4>2 DEF Met
    <3> HIDE DEF Below2
    <3>2. Orders2(N + 1) = {nodes[j].max_order : j \in Met(b)}
      <4>1. \A j \in Met(b) : nodes'[j] = nodes[j]
        BY <1>5 DEF Met
      <4> QED BY <3>1, <4>1
    <3> DEFINE S == {0} \cup {nodes[j].max_order : j \in Met(b)}
    <3>3. S \in SUBSET Int /\ m \in S /\ \A x \in S : x <= m
      <4>1. \A j \in Met(b) : nodes[j].max_order \in Nat
        BY <1>6 DEF Met
      <4>2. \A j \in Met(b) : nodes[j].max_order <= m
        BY <1>2 DEF GreatestMet
      <4>3. m = 0 \/ \E j \in Met(b) : nodes[j].max_order = m
        BY <1>2 DEF GreatestMet
      <4>4. 0 <= m
        BY <1>3
      <4>5. \A x : x \in S <=> x = 0 \/ \E j \in Met(b) : x = nodes[j].max_order
        OBVIOUS
      <4> HIDE DEF S
      <4>6. m \in S
        BY <4>3, <4>5
      <4>7. \A x \in S : x \in Int /\ x <= m
        BY <4>1, <4>2, <4>4, <4>5
      <4> QED BY <4>6, <4>7
    <3> HIDE DEF S
    <3>4. Max(S) = m
      BY <3>3, MaxIs
    <3> HIDE DEF Orders2
    <3>5. {0} \cup Orders2(N + 1) = S
      BY <3>2, Zenon DEF S
    <3>6. Max({0} \cup Orders2(N + 1)) = m
      BY <3>4, <3>5, Zenon
    <3>7. order = 1 + m
      BY <1>1, <1>3
    <3> QED BY <3>6, <3>7, Zenon
  <2>3. \A i \in Leaves' : nodes'[i].max_order = 1 + Max({0} \cup Orders2(i))
    <3> HIDE DEF Orders2
    <3> QED BY <1>5, <1>7, <2>1, <2>2
  <2> QED BY <2>3 DEF OrderIsOneAbove
<1> QED BY <1>3, <1>4, <1>9, <1>10, <1>11 DEF Inserted

(***************************************************************************)
(* Painting.                                                               *)
(***************************************************************************)
\* What a layer and a primitive are.
LayerType == [order : Nat, op : Nat, bounds : RectSet]
PrimitiveType == [prim : Prims, bounds : RectSet, order : Nat, layers : Seq(LayerType)]

\* Before orders any primitives strictly and totally.
LEMMA BeforeFacts ==
    ASSUME primitives \in Seq(PrimitiveType)
    PROVE  LET all == 1..Len(primitives)
           IN /\ \A i \in all : ~Before(i, i)
              /\ \A i, j \in all : i # j => Before(i, j) \/ Before(j, i)
              /\ \A i, j, k \in all : Before(i, j) /\ Before(j, k) => Before(i, k)
              /\ \A i, j \in all : Before(i, j) => primitives[i].order <= primitives[j].order
<1> DEFINE all == 1..Len(primitives)
<1>1. ASSUME NEW i \in all
      PROVE  i \in Nat /\ primitives[i].order \in Nat /\ primitives[i].prim[2] \in Nat
  <2>1. primitives[i] \in PrimitiveType
    OBVIOUS
  <2>2. primitives[i].order \in Nat /\ primitives[i].prim \in Prims
    BY <2>1 DEF PrimitiveType
  <2>3. primitives[i].prim \in Nat \X Nat \X Nat
    BY <2>2, SceneAssumption
  <2> QED BY <2>2, <2>3
<1> HIDE DEF all
<1> DEFINE o(i) == primitives[i].order
           t(i) == primitives[i].prim[2]
<1>2. \A i, j : Before(i, j) <=> \/ o(i) < o(j)
                                \/ (o(i) = o(j) /\ (t(i) < t(j) \/ (t(i) = t(j) /\ i < j)))
  BY DEF Before
<1>3. \A i \in all : i \in Nat /\ o(i) \in Nat /\ t(i) \in Nat
  BY <1>1
<1> HIDE DEF o, t
<1>4. \A i \in all : ~Before(i, i)
  BY <1>2, <1>3
<1>5. \A i, j \in all : i # j => Before(i, j) \/ Before(j, i)
  BY <1>2, <1>3
<1>6. \A i, j, k \in all : Before(i, j) /\ Before(j, k) => Before(i, k)
  BY <1>2, <1>3
<1>7. \A i, j \in all : Before(i, j) => o(i) <= o(j)
  BY <1>2, <1>3
<1> QED BY <1>4, <1>5, <1>6, <1>7 DEF all, o

\* The sequence that Sorted makes of some primitives.
SortedOf(s, S) ==
    /\ s \in Seq(S) /\ \A i \in S : \E p \in 1..Len(s) : s[p] = i
    /\ \A p, q \in 1..Len(s) : p < q => primitives[s[p]].order <= primitives[s[q]].order

\* What finish sorts is all of a kind, in the order of their orders.
LEMMA SortedFacts ==
    ASSUME primitives \in Seq(PrimitiveType), NEW S \in SUBSET (1..Len(primitives))
    PROVE  SortedOf(Sorted(S), S)
<1> DEFINE N == Cardinality(S)
           before(i) == {j \in S : Before(j, i)}
           r == [i \in S |-> Cardinality(before(i))]
           s == Sorted(S)
<1>1. IsFiniteSet(S) /\ N \in Nat
  <2>1. IsFiniteSet(1..Len(primitives))
    BY FS_Interval
  <2>2. IsFiniteSet(S)
    BY <2>1, FS_Subset
  <2> QED BY <2>2, FS_CardinalityType
<1> DEFINE all == 1..Len(primitives)
<1>2. /\ \A i \in S : ~Before(i, i)
      /\ \A i, j \in S : i # j => Before(i, j) \/ Before(j, i)
      /\ \A i, j, k \in S : Before(i, j) /\ Before(j, k) => Before(i, k)
      /\ \A i, j \in S : Before(i, j) => primitives[i].order <= primitives[j].order
  <2>1. \A i \in S : i \in 1..Len(primitives)
    OBVIOUS
  <2>2. /\ \A i \in all : ~Before(i, i)
        /\ \A i, j \in all : i # j => Before(i, j) \/ Before(j, i)
        /\ \A i, j, k \in all : Before(i, j) /\ Before(j, k) => Before(i, k)
        /\ \A i, j \in all : Before(i, j) => primitives[i].order <= primitives[j].order
    BY BeforeFacts
  <2> HIDE DEF all
  <2> QED BY <2>1, <2>2 DEF all
\* Of two, the one before has the lower rank.
<1>3. ASSUME NEW i \in S, NEW X \in SUBSET S, i \notin X
      PROVE  Cardinality(X) \in Nat /\ Cardinality(X) < N
  <2>1. IsFiniteSet(S \ {i}) /\ Cardinality(S \ {i}) = N - 1
    BY <1>1, FS_RemoveElement
  <2>2. X \in SUBSET (S \ {i})
    BY <1>3
  <2>3. IsFiniteSet(X) /\ Cardinality(X) <= Cardinality(S \ {i})
    BY <2>1, <2>2, FS_Subset
  <2>4. Cardinality(X) \in Nat
    BY <2>3, FS_CardinalityType
  <2> HIDE DEF N
  <2> QED BY <1>1, <2>1, <2>3, <2>4
<1>4. ASSUME NEW i \in S PROVE r[i] \in Nat /\ r[i] < N
  <2>1. before(i) \in SUBSET S /\ i \notin before(i)
    BY <1>2
  <2> HIDE DEF before, N
  <2> QED BY <1>3, <2>1
<1>5. ASSUME NEW i \in S, NEW j \in S, Before(i, j) PROVE r[i] < r[j]
  <2>1. before(i) \subseteq before(j) \ {i}
    BY <1>2, <1>5
  <2>2. i \in before(j) /\ before(j) \subseteq S
    BY <1>5
  <2> HIDE DEF before
  <2>3. IsFiniteSet(before(j))
    BY <1>1, <2>2, FS_Subset
  <2>4. IsFiniteSet(before(j) \ {i}) /\ Cardinality(before(j) \ {i}) = Cardinality(before(j)) - 1
    BY <2>2, <2>3, FS_RemoveElement
  <2>5. Cardinality(before(i)) <= Cardinality(before(j) \ {i})
    BY <2>1, <2>4, FS_Subset
  <2>6. r[i] = Cardinality(before(i)) /\ r[j] = Cardinality(before(j))
    OBVIOUS
  <2>7. r[i] \in Nat /\ r[j] \in Nat
    BY <1>4
  <2> HIDE DEF r
  <2> QED BY <2>4, <2>5, <2>6, <2>7
<1> HIDE DEF before, N
<1>6. \A i, j \in S : r[i] = r[j] => i = j
  <2>1. \A i, j \in S : Before(i, j) => r[i] \in Nat /\ r[j] \in Nat /\ r[i] < r[j]
    BY <1>4, <1>5
  <2> HIDE DEF r
  <2> QED BY <1>2, <2>1
\* Every rank is taken.
<1>7. ASSUME NEW n \in 1..N PROVE \E i \in S : r[i] = n - 1
  <2> SUFFICES ASSUME \A i \in S : r[i] # n - 1 PROVE FALSE
    OBVIOUS
  <2> DEFINE T == (0..(N - 1)) \ {n - 1}
  <2>1. IsFiniteSet(0..(N - 1)) /\ Cardinality(0..(N - 1)) = N
    <3>1. N - 1 \in Int /\ 0 <= N - 1 /\ N - 1 - 0 + 1 = N
      BY <1>1
    <3> QED BY <3>1, FS_Interval
  <2>2. n - 1 \in 0..(N - 1)
    BY <1>1
  <2>3. IsFiniteSet(T) /\ Cardinality(T) = N - 1
    <3> DEFINE A == 0..(N - 1)
               a == n - 1
    <3>1. IsFiniteSet(A) /\ Cardinality(A) = N /\ a \in A
      BY <2>1, <2>2
    <3>2. T = A \ {a}
      OBVIOUS
    <3> HIDE DEF A, a, T
    <3>3. IsFiniteSet(A \ {a}) /\ Cardinality(A \ {a}) = Cardinality(A) - 1
      BY <3>1, FS_RemoveElement
    <3> QED BY <3>1, <3>2, <3>3
  <2>4. r \in [S -> T]
    <3>1. \A i \in S : r[i] \in 0..(N - 1)
      <4>1. \A i \in S : r[i] \in Nat /\ r[i] < N
        BY <1>4
      <4> HIDE DEF r
      <4> QED BY <1>1, <4>1
    <3>2. \A i \in S : r[i] \in T
      <4> HIDE DEF r
      <4> QED BY <3>1
    <3>3. r = [i \in S |-> r[i]]
      OBVIOUS
    <3> HIDE DEF r, T
    <3> QED BY <3>2, <3>3
  <2>5. Cardinality(T) < Cardinality(S)
    BY <1>1, <2>3 DEF N
  <2> HIDE DEF r, T
  <2>6. \E x, y \in S : x # y /\ r[x] = r[y]
    BY <1>1, <2>3, <2>4, <2>5, FS_PigeonHole
  <2> QED BY <1>6, <2>6
<1>8. s = [n \in 1..N |-> CHOOSE i \in S : r[i] = n - 1]
  <2> DEFINE ranked(n) == CHOOSE i \in S : r[i] = n - 1
             placed(n) == CHOOSE i \in S : Cardinality(before(i)) = n - 1
  <2>1. \A n : ranked(n) = placed(n)
    <3>1. \A i \in S : r[i] = Cardinality(before(i))
      OBVIOUS
    <3> HIDE DEF r
    <3> QED BY <3>1
  <2>2. s = [n \in 1..N |-> placed(n)]
    BY DEF Sorted, before, N
  <2> HIDE DEF r, s, ranked, placed
  <2>3. s = [n \in 1..N |-> ranked(n)]
    BY <2>1, <2>2
  <2> QED BY <2>3 DEF ranked
<1> HIDE DEF r
<1>9. \A n \in 1..N : s[n] \in S /\ r[s[n]] = n - 1
  <2> HIDE DEF s
  <2> QED BY <1>7, <1>8
<1> HIDE DEF s
<1>10. s \in Seq(S) /\ Len(s) = N
  <2>1. s \in [1..N -> S]
    BY <1>8, <1>9
  <2> QED BY <1>1, <2>1
<1>11. ASSUME NEW i \in S PROVE \E p \in 1..Len(s) : s[p] = i
  <2>1. r[i] + 1 \in 1..N /\ (r[i] + 1) - 1 = r[i]
    BY <1>1, <1>4
  <2>2. s[r[i] + 1] \in S /\ r[s[r[i] + 1]] = r[i]
    BY <1>9, <2>1
  <2>3. s[r[i] + 1] = i
    BY <1>6, <2>2
  <2> QED BY <1>10, <2>1, <2>3
<1>12. ASSUME NEW p \in 1..N, NEW q \in 1..N, p < q
       PROVE  primitives[s[p]].order <= primitives[s[q]].order
  <2>1. s[p] \in S /\ s[q] \in S /\ r[s[p]] < r[s[q]]
    BY <1>1, <1>9, <1>12
  <2>2. s[p] # s[q] /\ ~Before(s[q], s[p])
    <3>1. r[s[p]] \in Nat /\ r[s[q]] \in Nat
      BY <1>4, <2>1
    <3>2. ~(r[s[q]] < r[s[p]]) /\ r[s[p]] # r[s[q]]
      BY <2>1, <3>1
    <3> QED BY <1>5, <2>1, <3>2
  <2> QED BY <1>2, <2>1, <2>2
<1> QED BY <1>10, <1>11, <1>12 DEF SortedOf, s

\* The bounds that a primitive's order was asked with: those of its layer.
Asked(v) == IF v.layers = <<>> THEN v.bounds ELSE Last(v.layers).bounds
\* There is a leaf of these bounds and this order.
InTree(b, order) == \E l \in Leaves : nodes[l].bounds = b /\ nodes[l].max_order = order
\* A primitive was painted while this layer was open.
Inside(v, layer) == \E k \in 1..Len(v.layers) : v.layers[k] = layer

\* What painting has made so far.
PaintTypes ==
    /\ layer_stack \in Seq(LayerType) /\ primitives \in Seq(PrimitiveType)
    /\ paint_ops \in Nat

\* What was painted has the order of a leaf.
PaintedInTree ==
    /\ \A i \in 1..Len(primitives) : InTree(Asked(primitives[i]), primitives[i].order)
    /\ \A d \in 1..Len(layer_stack) : InTree(layer_stack[d].bounds, layer_stack[d].order)

\* A layer is above all that it overlaps, but what is painted in it.
LayersAbove ==
    \A d \in 1..Len(layer_stack), i \in 1..Len(primitives) :
        \/ Inside(primitives[i], layer_stack[d])
        \/ Intersects(Asked(primitives[i]), layer_stack[d].bounds)
              => primitives[i].order < layer_stack[d].order

\* Of two primitives that overlap, the one painted later has the greater order.
OrdersRise ==
    \A i, j \in 1..Len(primitives) :
        /\ i < j /\ Intersects(primitives[i].bounds, primitives[j].bounds)
        /\ InLayer(i) /\ InLayer(j) /\ ~ShareLayer(i, j)
        => primitives[i].order < primitives[j].order

\* What is true while a scene is painted.
PaintInv == PaintTypes /\ TreeInv /\ OrderIsOneAbove /\ PaintedInTree /\ LayersAbove /\ OrdersRise

\* What is known of a primitive.
LEMMA AskedFacts ==
    ASSUME NEW v \in PrimitiveType
    PROVE  /\ v.bounds \in RectSet /\ v.order \in Nat /\ v.layers \in Seq(LayerType)
           /\ Asked(v) \in RectSet
<1>1. v.bounds \in RectSet /\ v.order \in Nat /\ v.layers \in Seq(LayerType)
  BY DEF PrimitiveType
<1>2. CASE v.layers = <<>>
  BY <1>1, <1>2 DEF Asked
<1>3. CASE v.layers # <<>>
  <2>1. Last(v.layers) \in LayerType
    BY <1>1, <1>3, LastFrontFacts
  <2> QED BY <1>1, <1>3, <2>1 DEF Asked, LayerType
<1> QED BY <1>1, <1>2, <1>3

\* A primitive that stays in its layer is in the bounds asked with.
LEMMA InAsked ==
    ASSUME primitives \in Seq(PrimitiveType), NEW i \in 1..Len(primitives), InLayer(i)
    PROVE  Within(primitives[i].bounds, Asked(primitives[i]))
<1>1. primitives[i] \in PrimitiveType
  OBVIOUS
<1>2. CASE primitives[i].layers = <<>>
  BY <1>1, <1>2, AskedFacts, RectFacts DEF Asked
<1>3. CASE primitives[i].layers # <<>>
  BY <1>3 DEF Asked, InLayer, Within
<1> QED BY <1>2, <1>3

\* What is in the tree stays there, and what is inserted is put there.
LEMMA TreeKeeps ==
    ASSUME NEW b, NEW order, LeafAdded(b, order)
    PROVE  /\ \A c, o : InTree(c, o) => InTree(c, o)'
           /\ InTree(b, order)'
<1>1. /\ Leaves' = Leaves \cup {Len(nodes) + 1} /\ nodes'[Len(nodes) + 1] = Leaf(b, order)
      /\ \A i \in Leaves : nodes'[i] = nodes[i]
  BY DEF LeafAdded
<1>2. ASSUME NEW c, NEW o, InTree(c, o) PROVE InTree(c, o)'
  <2>1. PICK l \in Leaves : nodes[l].bounds = c /\ nodes[l].max_order = o
    BY <1>2 DEF InTree
  <2> QED BY <1>1, <2>1 DEF InTree
<1>3. InTree(b, order)'
  BY <1>1 DEF InTree, Leaf
<1> QED BY <1>2, <1>3

\* push_layer keeps it: the layer's order is above all that it overlaps.
LEMMA PushPaints ==
    ASSUME PaintInv, NEW b \in Rects, PushLayer(b)
    PROVE  PaintInv'
<1>1. PICK order \in 1..(MaxOps + 1) :
          /\ InsertBounds(b, order)
          /\ layer_stack' = Append(layer_stack, [order |-> order, op |-> paint_ops, bounds |-> b])
  BY DEF PushLayer
<1>2. paint_ops' = paint_ops + 1 /\ primitives' = primitives
  BY DEF PushLayer
<1>3. /\ PaintTypes /\ TreeInv /\ OrderIsOneAbove /\ PaintedInTree /\ LayersAbove /\ OrdersRise
  BY DEF PaintInv
<1>4. b \in RectSet
  BY SceneAssumption DEF RectSet
<1>5. Inserted(b, order)
  BY <1>1, <1>3, <1>4, InsertKeeps
<1>6. /\ TreeInv' /\ OrderIsOneAbove' /\ order \in Nat /\ LeafAdded(b, order)
      /\ \A j \in Leaves : Intersects(nodes[j].bounds, b) => nodes[j].max_order < order
  BY <1>3, <1>5 DEF Inserted
<1> DEFINE layer == [order |-> order, op |-> paint_ops, bounds |-> b]
           n == Len(layer_stack)
<1>7. layer \in LayerType /\ layer.order = order /\ layer.bounds = b
  BY <1>3, <1>4, <1>6 DEF PaintTypes, LayerType
<1>8. layer_stack' = Append(layer_stack, layer)
  BY <1>1
<1> HIDE DEF layer
<1>9. /\ layer_stack' \in Seq(LayerType) /\ n \in Nat /\ Len(layer_stack') = n + 1
      /\ layer_stack'[n + 1] = layer /\ \A d \in 1..n : layer_stack'[d] = layer_stack[d]
  <2>1. layer_stack \in Seq(LayerType)
    BY <1>3 DEF PaintTypes
  <2> QED BY <1>7, <1>8, <2>1
<1> HIDE DEF n
<1>10. \A d \in 1..(n + 1) : d \in 1..n \/ d = n + 1
  BY <1>9
<1>11. PaintTypes'
  BY <1>2, <1>3, <1>9 DEF PaintTypes
<1>12. /\ \A c, o : InTree(c, o) => InTree(c, o)'
       /\ InTree(b, order)'
  BY <1>6, TreeKeeps
<1>13. PaintedInTree'
  <2>1. \A i \in 1..Len(primitives) : InTree(Asked(primitives[i]), primitives[i].order)
    BY <1>3 DEF PaintedInTree
  <2>2. \A d \in 1..n : InTree(layer_stack[d].bounds, layer_stack[d].order)
    BY <1>3 DEF PaintedInTree, n
  <2>3. ASSUME NEW i \in 1..Len(primitives')
        PROVE  InTree(Asked(primitives[i]), primitives[i].order)'
    <3>1. PICK c, o : c = Asked(primitives[i]) /\ o = primitives[i].order
      OBVIOUS
    <3>2. InTree(c, o)'
      BY <1>2, <1>12, <2>1, <3>1
    <3>3. c = Asked(primitives[i])' /\ o = primitives'[i].order
      BY <1>2, <3>1 DEF Asked
    <3> QED BY <3>2, <3>3 DEF InTree
  <2>4. ASSUME NEW d \in 1..Len(layer_stack')
        PROVE  InTree(layer_stack[d].bounds, layer_stack[d].order)'
    <3>1. CASE d \in 1..n
      <4>1. PICK c, o : c = layer_stack[d].bounds /\ o = layer_stack[d].order
        OBVIOUS
      <4>2. InTree(c, o)'
        BY <1>12, <2>2, <3>1, <4>1
      <4>3. c = layer_stack'[d].bounds /\ o = layer_stack'[d].order
        BY <1>9, <3>1, <4>1
      <4> QED BY <4>2, <4>3 DEF InTree
    <3>2. CASE d = n + 1
      <4>1. layer_stack'[d].bounds = b /\ layer_stack'[d].order = order
        BY <1>7, <1>9, <3>2
      <4> QED BY <1>12, <4>1 DEF InTree
    <3> QED BY <1>9, <1>10, <3>1, <3>2
  <2> QED BY <2>3, <2>4 DEF PaintedInTree
<1>14. LayersAbove'
  <2>1. ASSUME NEW i \in 1..Len(primitives), Intersects(Asked(primitives[i]), b)
        PROVE  primitives[i].order < order
    <3>1. PICK l \in Leaves : nodes[l].bounds = Asked(primitives[i])
                              /\ nodes[l].max_order = primitives[i].order
      BY <1>3 DEF PaintedInTree, InTree
    <3> QED BY <1>6, <2>1, <3>1
  <2>2. ASSUME NEW d \in 1..Len(layer_stack'), NEW i \in 1..Len(primitives')
        PROVE  \/ Inside(primitives[i], layer_stack'[d])
               \/ Intersects(Asked(primitives[i]), layer_stack'[d].bounds)
                     => primitives[i].order < layer_stack'[d].order
    <3>1. CASE d \in 1..n
      <4>1. d \in 1..Len(layer_stack) /\ i \in 1..Len(primitives)
        BY <1>2, <3>1 DEF n
      <4>2. layer_stack'[d] = layer_stack[d]
        BY <1>9, <3>1
      <4> QED BY <1>3, <4>1, <4>2 DEF LayersAbove
    <3>2. CASE d = n + 1
      <4>1. layer_stack'[d].bounds = b /\ layer_stack'[d].order = order
        BY <1>7, <1>9, <3>2
      <4>2. i \in 1..Len(primitives)
        BY <1>2
      <4> QED BY <2>1, <4>1, <4>2
    <3> QED BY <1>9, <1>10, <3>1, <3>2
  <2> QED BY <1>2, <2>2 DEF LayersAbove, Inside, Asked
<1>15. OrdersRise'
  BY <1>2, <1>3 DEF OrdersRise, InLayer, ShareLayer
<1> QED BY <1>6, <1>11, <1>13, <1>14, <1>15 DEF PaintInv

\* What is known of a tree stays known while it stays.
LEMMA TreeSame ==
    ASSUME UNCHANGED treeVars
    PROVE  /\ TreeInv => TreeInv'
           /\ OrderIsOneAbove => OrderIsOneAbove'
           /\ \A c, o : InTree(c, o) => InTree(c, o)'
<1>1. nodes' = nodes /\ root' = root /\ max_leaf' = max_leaf
  BY DEF treeVars
<1>2. ASSUME NEW u, Tree(u) PROVE Tree(u)'
  <2>1. KidsOf' = KidsOf
    BY <1>1 DEF KidsOf
  <2>2. ChildrenDiffer' /\ NodesCover(u)'
    BY <1>1, <1>2 DEF Tree, ChildrenDiffer, NodesCover
  <2> QED BY <1>1, <1>2, <2>1, <2>2 DEF Tree
<1>3. MaxLeafIsGreatest => MaxLeafIsGreatest'
  BY <1>1 DEF MaxLeafIsGreatest, Leaves, IsLeaf
<1>4. TreeInv => TreeInv'
  BY <1>1, <1>2, <1>3 DEF TreeInv
<1>5. OrderIsOneAbove => OrderIsOneAbove'
  BY <1>1 DEF OrderIsOneAbove, Leaves, IsLeaf
<1>6. \A c, o : InTree(c, o) => InTree(c, o)'
  BY <1>1 DEF InTree, Leaves, IsLeaf
<1> QED BY <1>4, <1>5, <1>6

\* pop_layer keeps it.
LEMMA PopPaints ==
    ASSUME PaintInv, PopLayer
    PROVE  PaintInv'
<1>1. /\ layer_stack # <<>> /\ layer_stack' = Front(layer_stack)
      /\ treeVars' = treeVars /\ primitives' = primitives /\ paint_ops' = paint_ops
  BY DEF PopLayer
<1>2. nodes' = nodes /\ root' = root /\ max_leaf' = max_leaf
  BY <1>1 DEF treeVars
<1>3. /\ PaintTypes /\ TreeInv /\ OrderIsOneAbove /\ PaintedInTree /\ LayersAbove /\ OrdersRise
  BY DEF PaintInv
<1> DEFINE n == Len(layer_stack)
<1>4. layer_stack \in Seq(LayerType)
  BY <1>3 DEF PaintTypes
<1>5. /\ layer_stack' \in Seq(LayerType) /\ n \in Nat /\ Len(layer_stack') = n - 1
      /\ \A d \in 1..(n - 1) : layer_stack'[d] = layer_stack[d]
  <2>1. /\ Len(layer_stack) \in Nat /\ Front(layer_stack) \in Seq(LayerType)
        /\ Len(Front(layer_stack)) = Len(layer_stack) - 1
        /\ \A p \in 1..(Len(layer_stack) - 1) : Front(layer_stack)[p] = layer_stack[p]
    BY <1>1, <1>4, LastFrontFacts
  <2> QED BY <1>1, <2>1
<1>6. \A d \in 1..Len(layer_stack') : d \in 1..Len(layer_stack) /\ layer_stack'[d] = layer_stack[d]
  BY <1>5
<1> HIDE DEF n
<1>7. PaintTypes'
  BY <1>1, <1>3, <1>5 DEF PaintTypes
<1>8. TreeInv'
  BY <1>1, <1>3, TreeSame
<1>9. OrderIsOneAbove'
  BY <1>1, <1>3, TreeSame
<1>10. PaintedInTree'
  <2>1. Leaves' = Leaves
    BY <1>2 DEF Leaves, IsLeaf
  <2>2. \A i \in 1..Len(primitives) : \E l \in Leaves :
           nodes[l].bounds = Asked(primitives[i]) /\ nodes[l].max_order = primitives[i].order
    BY <1>3 DEF PaintedInTree, InTree
  <2>3. \A d \in 1..Len(layer_stack') : \E l \in Leaves :
           nodes[l].bounds = layer_stack'[d].bounds /\ nodes[l].max_order = layer_stack'[d].order
    BY <1>3, <1>6 DEF PaintedInTree, InTree
  <2> QED BY <1>1, <1>2, <2>1, <2>2, <2>3 DEF PaintedInTree, InTree, Asked
<1>11. LayersAbove'
  <2>1. ASSUME NEW d \in 1..Len(layer_stack'), NEW i \in 1..Len(primitives)
        PROVE  \/ Inside(primitives[i], layer_stack'[d])
               \/ Intersects(Asked(primitives[i]), layer_stack'[d].bounds)
                     => primitives[i].order < layer_stack'[d].order
    BY <1>3, <1>6 DEF LayersAbove
  <2> QED BY <1>1, <2>1 DEF LayersAbove, Inside, Asked
<1>12. OrdersRise'
  BY <1>1, <1>3 DEF OrdersRise, InLayer, ShareLayer
<1> QED BY <1>7, <1>8, <1>9, <1>10, <1>11, <1>12 DEF PaintInv

\* A primitive gets an order above all it overlaps, from the tree or its layer.
OrderedAbove(x) ==
    /\ InTree(Asked(x), x.order)'
    /\ \A i \in 1..Len(primitives) :
          /\ InLayer(i) /\ Intersects(primitives[i].bounds, x.bounds)
          /\ x.layers # <<>> => Within(x.bounds, Asked(x))
          /\ x.layers # <<>> => ~Inside(primitives[i], Last(x.layers))
          => primitives[i].order < x.order

\* insert_primitive finds such an order, whichever of the two gives it.
LEMMA InsertOrders ==
    ASSUME PaintInv, NEW b \in Rects, NEW order \in 1..(MaxOps + 1), NEW prim \in Prims,
           IF layer_stack # <<>> THEN order = Last(layer_stack).order /\ UNCHANGED treeVars
           ELSE InsertBounds(b, order),
           NEW x,
           x = [prim |-> prim, bounds |-> b, order |-> order, layers |-> layer_stack]
    PROVE  /\ TreeInv' /\ OrderIsOneAbove' /\ \A c, o : InTree(c, o) => InTree(c, o)'
           /\ OrderedAbove(x)
<1>1. /\ PaintTypes /\ TreeInv /\ OrderIsOneAbove /\ PaintedInTree /\ LayersAbove
  BY DEF PaintInv
<1>2. b \in RectSet /\ order \in Nat
  BY SceneAssumption DEF RectSet
<1>3. layer_stack \in Seq(LayerType) /\ primitives \in Seq(PrimitiveType)
  BY <1>1 DEF PaintTypes
<1>4. x \in PrimitiveType /\ x.bounds = b /\ x.order = order /\ x.layers = layer_stack
  BY <1>2, <1>3 DEF PrimitiveType
<1>5. ASSUME NEW i \in 1..Len(primitives)
      PROVE  /\ primitives[i].bounds \in RectSet /\ primitives[i].order \in Nat
             /\ Asked(primitives[i]) \in RectSet
             /\ InLayer(i) => Within(primitives[i].bounds, Asked(primitives[i]))
  <2>1. primitives[i] \in PrimitiveType
    BY <1>3
  <2> QED BY <1>3, <2>1, AskedFacts, InAsked
<1>6. CASE layer_stack = <<>>
  <2>1. InsertBounds(b, order)
    BY <1>6
  <2>2. Inserted(b, order)
    BY <1>1, <1>2, <2>1, InsertKeeps
  <2>3. /\ TreeInv' /\ OrderIsOneAbove' /\ LeafAdded(b, order)
        /\ \A j \in Leaves : Intersects(nodes[j].bounds, b) => nodes[j].max_order < order
    BY <1>1, <2>2 DEF Inserted
  <2>4. /\ \A c, o : InTree(c, o) => InTree(c, o)'
        /\ InTree(b, order)'
    BY <2>3, TreeKeeps
  <2>5. Asked(x) = b
    BY <1>4, <1>6 DEF Asked
  <2>6. InTree(Asked(x), x.order)'
    <3>1. InTree(b, order)' => InTree(Asked(x), x.order)'
      BY <1>4, <2>5 DEF InTree
    <3> QED BY <2>4, <3>1
  <2>7. ASSUME NEW i \in 1..Len(primitives), InLayer(i), Intersects(primitives[i].bounds, b)
        PROVE  primitives[i].order < order
    <3>1. Intersects(Asked(primitives[i]), b)
      BY <1>2, <1>5, <2>7, RectFacts
    <3>2. PICK l \in Leaves : nodes[l].bounds = Asked(primitives[i])
                              /\ nodes[l].max_order = primitives[i].order
      BY <1>1 DEF PaintedInTree, InTree
    <3> QED BY <2>3, <3>1, <3>2
  <2> QED BY <1>4, <2>3, <2>4, <2>6, <2>7 DEF OrderedAbove
<1>7. CASE layer_stack # <<>>
  <2> DEFINE n == Len(layer_stack)
  <2>0. PICK layer : layer = Last(layer_stack)
    OBVIOUS
  <2>1. order = layer.order /\ UNCHANGED treeVars
    BY <1>7, <2>0
  <2>2. TreeInv' /\ OrderIsOneAbove' /\ \A c, o : InTree(c, o) => InTree(c, o)'
    BY <1>1, <2>1, TreeSame
  <2>3. n \in 1..Len(layer_stack) /\ layer = layer_stack[n] /\ layer \in LayerType
    <3>1. /\ Len(layer_stack) \in Nat /\ Len(layer_stack) # 0
          /\ Last(layer_stack) = layer_stack[Len(layer_stack)] /\ Last(layer_stack) \in LayerType
      BY <1>3, <1>7, LastFrontFacts
    <3> QED BY <2>0, <3>1
  <2>4. layer.bounds \in RectSet
    BY <2>3 DEF LayerType
  <2>5. Asked(x) = layer.bounds
    BY <1>4, <1>7, <2>0 DEF Asked
  <2> HIDE DEF n
  <2>6. InTree(layer.bounds, layer.order)
    BY <1>1, <2>3 DEF PaintedInTree
  <2>7. InTree(layer.bounds, layer.order)'
    BY <2>2, <2>6
  <2>8. ASSUME NEW i \in 1..Len(primitives), InLayer(i), Intersects(primitives[i].bounds, b),
               Within(b, layer.bounds), ~Inside(primitives[i], layer)
        PROVE  primitives[i].order < order
    <3>1. Intersects(primitives[i].bounds, layer.bounds)
      BY <1>2, <1>5, <2>4, <2>8, RectFacts
    <3>2. Intersects(layer.bounds, primitives[i].bounds)
      BY <1>5, <2>4, <3>1, RectFacts
    <3>3. Intersects(layer.bounds, Asked(primitives[i]))
      BY <1>5, <2>4, <2>8, <3>2, RectFacts
    <3>4. Intersects(Asked(primitives[i]), layer.bounds)
      BY <1>5, <2>4, <3>3, RectFacts
    <3> QED BY <1>1, <2>1, <2>3, <2>8, <3>4 DEF LayersAbove
  <2>9. InTree(Asked(x), x.order)'
    <3>1. InTree(layer.bounds, layer.order)' => InTree(Asked(x), x.order)'
      BY <1>4, <2>1, <2>5 DEF InTree
    <3> QED BY <2>7, <3>1
  <2>10. \A i \in 1..Len(primitives) :
            /\ InLayer(i) /\ Intersects(primitives[i].bounds, x.bounds)
            /\ x.layers # <<>> => Within(x.bounds, Asked(x))
            /\ x.layers # <<>> => ~Inside(primitives[i], Last(x.layers))
            => primitives[i].order < x.order
    BY <1>4, <1>7, <2>0, <2>5, <2>8
  <2> QED BY <2>2, <2>9, <2>10 DEF OrderedAbove
<1> QED BY <1>6, <1>7

\* insert_primitive keeps what is true while a scene is painted.
LEMMA InsertPaints ==
    ASSUME PaintInv, NEW prim \in Prims, NEW b \in Rects, InsertPrimitive(prim, b)
    PROVE  PaintInv'
<1>1. PICK order \in 1..(MaxOps + 1) :
          /\ IF layer_stack # <<>> THEN order = Last(layer_stack).order /\ UNCHANGED treeVars
             ELSE InsertBounds(b, order)
          /\ primitives' = Append(primitives,
                                  [prim |-> prim, bounds |-> b, order |-> order,
                                   layers |-> layer_stack])
  BY DEF InsertPrimitive
<1>0. PICK x : x = [prim |-> prim, bounds |-> b, order |-> order, layers |-> layer_stack]
  OBVIOUS
<1> DEFINE n == Len(primitives)
<1>2. paint_ops' = paint_ops + 1 /\ layer_stack' = layer_stack
  BY DEF InsertPrimitive
<1>3. /\ PaintTypes /\ TreeInv /\ OrderIsOneAbove /\ PaintedInTree /\ LayersAbove /\ OrdersRise
  BY DEF PaintInv
<1>4. layer_stack \in Seq(LayerType) /\ primitives \in Seq(PrimitiveType) /\ paint_ops \in Nat
  BY <1>3 DEF PaintTypes
<1>5. /\ TreeInv' /\ OrderIsOneAbove' /\ (\A c, o : InTree(c, o) => InTree(c, o)')
      /\ OrderedAbove(x)
  BY <1>0, <1>1, InsertOrders
<1>6. x \in PrimitiveType /\ x.bounds = b /\ x.order = order /\ x.layers = layer_stack
  BY <1>0, <1>4, SceneAssumption DEF PrimitiveType, RectSet
<1>7. primitives' = Append(primitives, x)
  BY <1>0, <1>1
<1>8. /\ primitives' \in Seq(PrimitiveType) /\ n \in Nat /\ Len(primitives') = n + 1
      /\ primitives'[n + 1] = x /\ \A i \in 1..n : primitives'[i] = primitives[i]
  BY <1>4, <1>6, <1>7
<1>9. \A i \in 1..n : i \in 1..Len(primitives)
  OBVIOUS
<1> HIDE DEF n
<1>10. \A i \in 1..(n + 1) : i \in 1..n \/ i = n + 1
  BY <1>8
<1>11. PaintTypes'
  BY <1>2, <1>4, <1>8 DEF PaintTypes
<1>12. PaintedInTree'
  <2>1. ASSUME NEW i \in 1..Len(primitives')
        PROVE  InTree(Asked(primitives[i]), primitives[i].order)'
    <3>1. CASE i \in 1..n
      <4>1. PICK c, o : c = Asked(primitives[i]) /\ o = primitives[i].order
        OBVIOUS
      <4>2. InTree(c, o)
        BY <1>3, <1>9, <3>1, <4>1 DEF PaintedInTree
      <4>3. InTree(c, o)'
        BY <1>5, <4>2
      <4>4. c = Asked(primitives'[i]) /\ o = primitives'[i].order
        BY <1>8, <3>1, <4>1
      <4>5. Asked(primitives[i])' = Asked(primitives'[i])
        BY DEF Asked
      <4> QED BY <4>3, <4>4, <4>5 DEF InTree
    <3>2. CASE i = n + 1
      <4>1. primitives'[i] = x
        BY <1>8, <3>2
      <4>2. InTree(Asked(x), x.order)'
        BY <1>5 DEF OrderedAbove
      <4> QED BY <4>1, <4>2 DEF InTree, Asked
    <3> QED BY <1>8, <1>10, <3>1, <3>2
  <2>2. ASSUME NEW d \in 1..Len(layer_stack')
        PROVE  InTree(layer_stack[d].bounds, layer_stack[d].order)'
    <3>1. PICK c, o : c = layer_stack[d].bounds /\ o = layer_stack[d].order
      OBVIOUS
    <3>2. InTree(c, o)'
      BY <1>2, <1>3, <1>5, <3>1 DEF PaintedInTree
    <3> QED BY <1>2, <3>1, <3>2 DEF InTree
  <2> QED BY <2>1, <2>2 DEF PaintedInTree
<1>13. LayersAbove'
  <2>1. ASSUME NEW d \in 1..Len(layer_stack), NEW i \in 1..Len(primitives')
        PROVE  \/ Inside(primitives'[i], layer_stack[d])
               \/ Intersects(Asked(primitives'[i]), layer_stack[d].bounds)
                     => primitives'[i].order < layer_stack[d].order
    <3>1. CASE i \in 1..n
      BY <1>3, <1>8, <1>9, <3>1 DEF LayersAbove
    <3>2. CASE i = n + 1
      BY <1>6, <1>8, <3>2 DEF Inside
    <3> QED BY <1>8, <1>10, <3>1, <3>2
  <2> QED BY <1>2, <2>1 DEF LayersAbove, Inside, Asked
<1>14. OrdersRise'
  <2> SUFFICES ASSUME NEW i \in 1..Len(primitives'), NEW j \in 1..Len(primitives'),
                      i < j, Intersects(primitives'[i].bounds, primitives'[j].bounds),
                      InLayer(i)', InLayer(j)', ~ShareLayer(i, j)'
               PROVE  primitives'[i].order < primitives'[j].order
    BY DEF OrdersRise
  <2>1. i \in 1..n
    BY <1>8
  <2>2. primitives'[i] = primitives[i] /\ InLayer(i)
    BY <1>8, <2>1 DEF InLayer
  <2>3. CASE j \in 1..n
    <3>1. primitives'[j] = primitives[j]
      BY <1>8, <2>3
    <3>2. InLayer(j) /\ ~ShareLayer(i, j)
      BY <2>2, <3>1 DEF InLayer, ShareLayer
    <3> QED BY <1>3, <1>9, <2>1, <2>2, <2>3, <3>1, <3>2 DEF OrdersRise
  <2>4. CASE j = n + 1
    <3>1. primitives'[j] = x
      BY <1>8, <2>4
    <3>2. x.layers # <<>> => Within(x.bounds, Asked(x))
      BY <3>1 DEF InLayer, Within, Asked
    <3>3. x.layers # <<>> => ~Inside(primitives[i], Last(x.layers))
      <4> SUFFICES ASSUME x.layers # <<>>, Inside(primitives[i], Last(x.layers)) PROVE FALSE
        OBVIOUS
      <4>1. PICK k \in 1..Len(primitives[i].layers) :
               primitives[i].layers[k] = Last(x.layers)
        BY DEF Inside
      <4>2. Last(x.layers) = x.layers[Len(x.layers)] /\ Len(x.layers) \in 1..Len(x.layers)
        <5>1. /\ Len(layer_stack) \in Nat /\ Len(layer_stack) # 0
              /\ Last(layer_stack) = layer_stack[Len(layer_stack)]
          BY <1>4, <1>6, LastFrontFacts
        <5> QED BY <1>6, <5>1
      <4> QED BY <2>2, <3>1, <4>1, <4>2 DEF ShareLayer
    <3> QED BY <1>5, <1>9, <2>1, <2>2, <3>1, <3>2, <3>3 DEF OrderedAbove
  <2> QED BY <1>8, <1>10, <2>3, <2>4
<1> QED BY <1>5, <1>11, <1>12, <1>13, <1>14 DEF PaintInv

(***************************************************************************)
(* Batches.                                                                *)
(***************************************************************************)
\* The primitives.
All == 1..Len(primitives)

\* What has yet to be drawn is in order, kind by kind, nothing is left out,
\* and what was drawn came after all of a lower order.
HeadsSorted ==
    \A k \in Kinds : \A p, q \in 1..Len(heads[k]) :
        p < q => primitives[heads[k][p]].order <= primitives[heads[k][q]].order
NoneLost == \A i \in All : i \in Entries(drawn) \/ i \in Entries(heads[KindOf(i)])
DrawnByOrder ==
    \A q \in 1..Len(drawn) : \A i \in All :
        primitives[i].order < primitives[drawn[q]].order =>
            \E p \in 1..Len(drawn) : p < q /\ drawn[p] = i

\* What is true while batches are taken.
DrawInv ==
    /\ ~finished => drawn = <<>>
    /\ finished => /\ heads \in [Kinds -> Seq(All)] /\ drawn \in Seq(All)
                   /\ HeadsSorted /\ NoneLost /\ DrawnByOrder

\* Kinds are numbers, and so are orders.
LEMMA KindFacts ==
    ASSUME primitives \in Seq(PrimitiveType)
    PROVE  /\ Kinds \subseteq Nat
           /\ \A i \in All : KindOf(i) \in Kinds /\ primitives[i].order \in Nat
<1>1. Kinds \subseteq Nat
  BY SceneAssumption DEF Kinds
<1>2. ASSUME NEW i \in All PROVE KindOf(i) \in Kinds /\ primitives[i].order \in Nat
  <2>1. primitives[i] \in PrimitiveType
    BY DEF All
  <2>2. primitives[i].prim \in Prims /\ primitives[i].order \in Nat
    BY <2>1 DEF PrimitiveType
  <2> QED BY <2>2 DEF KindOf, Kinds
<1> QED BY <1>1, <1>2

\* finish sorts all that was painted, and nothing is drawn yet.
LEMMA FinishDraws ==
    ASSUME PaintInv, DrawInv, FinishScene
    PROVE  DrawInv'
<1>1. /\ ~finished /\ finished' = TRUE /\ primitives' = primitives /\ drawn' = drawn
      /\ heads' = [k \in Kinds |-> Sorted({i \in 1..Len(primitives) : KindOf(i) = k})]
  BY DEF FinishScene
<1>2. primitives \in Seq(PrimitiveType) /\ drawn = <<>>
  BY <1>1 DEF PaintInv, PaintTypes, DrawInv
<1> DEFINE S(k) == {i \in All : KindOf(i) = k}
<1>3. heads' = [k \in Kinds |-> Sorted(S(k))]
  BY <1>1 DEF All
<1>4. ASSUME NEW k \in Kinds PROVE SortedOf(heads'[k], S(k))
  <2>1. S(k) \in SUBSET (1..Len(primitives))
    BY DEF All
  <2> HIDE DEF S
  <2>2. SortedOf(Sorted(S(k)), S(k))
    BY <1>2, <2>1, SortedFacts
  <2> QED BY <1>3, <2>2
<1>5. \A k \in Kinds : S(k) \subseteq All
  OBVIOUS
<1>6. \A i \in All : KindOf(i) \in Kinds /\ i \in S(KindOf(i))
  BY <1>2, KindFacts
<1> HIDE DEF S
<1>7. ASSUME NEW k \in Kinds PROVE heads'[k] \in Seq(All)
  <2>1. heads'[k] \in Seq(S(k)) /\ S(k) \subseteq All
    BY <1>4, <1>5 DEF SortedOf
  <2> QED BY <2>1
<1>8. heads' \in [Kinds -> Seq(All)]
  <2>1. heads' = [k \in Kinds |-> heads'[k]]
    BY <1>3
  <2> QED BY <1>7, <2>1
<1>9. All' = All /\ \A i : KindOf(i)' = KindOf(i)
  BY <1>1 DEF All, KindOf
<1>10. HeadsSorted'
  <2>1. ASSUME NEW k \in Kinds
        PROVE  \A p, q \in 1..Len(heads'[k]) :
                  p < q => primitives[heads'[k][p]].order <= primitives[heads'[k][q]].order
    BY <1>4 DEF SortedOf
  <2> QED BY <1>1, <2>1 DEF HeadsSorted
<1>11. NoneLost'
  <2>1. \A i \in All : i \in Entries(heads'[KindOf(i)])
    BY <1>4, <1>6 DEF SortedOf, Entries
  <2>2. \A i \in All : i \in Entries(heads'[primitives'[i].prim[1]])
    BY <1>1, <2>1 DEF KindOf
  <2> QED BY <1>9, <2>2 DEF NoneLost, KindOf
<1>12. DrawnByOrder'
  BY <1>1, <1>2 DEF DrawnByOrder
<1>13. heads' \in [Kinds -> Seq(All')]
  BY <1>8, <1>9
<1>14. drawn' \in Seq(All')
  <2> HIDE DEF All
  <2> QED BY <1>1, <1>2
<1> QED BY <1>1, <1>10, <1>11, <1>12, <1>13, <1>14 DEF DrawInv

\* The batch is a start of what its kind has left, and of two in it the
\* second compared less than the least key of the other kinds.
LEMMA BatchEndFacts ==
    ASSUME NEW k, NEW next, Len(heads[k]) \in Nat \ {0}
    PROVE  /\ BatchEnd(k, next) \in 1..Len(heads[k])
           /\ \A m \in 2..BatchEnd(k, next) :
                 Precedes(<<primitives[heads[k][m]].order, k>>, next)
<1> DEFINE N == Len(heads[k])
           Fits(m) == /\ Precedes(<<primitives[heads[k][m]].order, k>>, next)
                      /\ primitives[heads[k][m]].prim[3] = primitives[Head(heads[k])].prim[3]
           Ends(n) == /\ \A m \in 2..n : Fits(m)
                      /\ n < N => ~Fits(n + 1)
           T == {n \in 1..N : n < N => ~Fits(n + 1)}
<1>1. BatchEnd(k, next) = CHOOSE n \in 1..N : Ends(n)
  BY DEF BatchEnd
<1>2. N \in Nat /\ N # 0
  OBVIOUS
<1>3. \A m : Fits(m) => Precedes(<<primitives[heads[k][m]].order, k>>, next)
  OBVIOUS
<1> HIDE DEF N, Fits
<1>4. PICK n \in T : \A m \in T : n <= m
  <2>1. T \in SUBSET Nat /\ N \in T
    BY <1>2
  <2> HIDE DEF T
  <2> QED BY <2>1, LeastNumber
<1>5. \A m \in 2..n : Fits(m)
  <2> SUFFICES ASSUME NEW m \in 2..n PROVE Fits(m)
    OBVIOUS
  <2>1. m - 1 \in 1..N /\ m - 1 < N /\ ~(n <= m - 1) /\ (m - 1) + 1 = m
    BY <1>2
  <2>2. m - 1 \notin T
    BY <1>4, <2>1
  <2> QED BY <2>1, <2>2
<1>6. Ends(n) /\ n \in 1..N
  BY <1>5
<1>7. BatchEnd(k, next) \in 1..N /\ Ends(BatchEnd(k, next))
  <2> HIDE DEF Ends
  <2> QED BY <1>1, <1>6
<1> QED BY <1>3, <1>7 DEF N

\* There is a least key.
LEMMA LeastKey ==
    ASSUME NEW others \in SUBSET Nat, others # {}, \A l \in others : HeadKey(l)[1] \in Nat
    PROVE  \E key \in {HeadKey(l) : l \in others} : \A l \in others : ~Precedes(HeadKey(l), key)
<1> DEFINE key(l) == HeadKey(l)[1]
           A == {key(l) : l \in others}
<1>1. \A l : HeadKey(l) = <<key(l), l>>
  BY DEF HeadKey
<1>2. A \in SUBSET Nat /\ A # {}
  OBVIOUS
<1> HIDE DEF A
<1>3. PICK a \in A : \A x \in A : a <= x
  BY <1>2, LeastNumber
<1> DEFINE B == {l \in others : key(l) = a}
<1>4. B \in SUBSET Nat /\ B # {}
  BY DEF A
<1> HIDE DEF B
<1>5. PICK b \in B : \A l \in B : b <= l
  BY <1>4, LeastNumber
<1>6. b \in others /\ key(b) = a /\ a \in Nat
  BY <1>2 DEF B
<1>7. ASSUME NEW l \in others PROVE ~Precedes(HeadKey(l), HeadKey(b))
  <2>1. key(l) \in Nat /\ a <= key(l)
    BY <1>3 DEF A
  <2>2. key(l) = a => b <= l
    BY <1>5 DEF B
  <2>3. HeadKey(l) = <<key(l), l>> /\ HeadKey(b) = <<a, b>>
    BY <1>1, <1>6
  <2>4. l \in Nat /\ b \in Nat
    BY <1>6
  <2> HIDE DEF key
  <2>5. ~(key(l) < a) /\ (key(l) = a => ~(l < b))
    BY <1>6, <2>1, <2>2, <2>4
  <2> QED BY <2>3, <2>5 DEF Precedes
<1> QED BY <1>6, <1>7

\* The first n of a sequence and the rest have all its entries.
LEMMA SplitFacts ==
    ASSUME NEW S, NEW s \in Seq(S), NEW n \in 1..Len(s)
    PROVE  LET front == SubSeq(s, 1, n)
               rest == SubSeq(s, n + 1, Len(s))
           IN /\ front \in Seq(S) /\ Len(front) = n /\ \A p \in 1..n : front[p] = s[p]
              /\ rest \in Seq(S) /\ Len(rest) = Len(s) - n
              /\ \A p \in 1..(Len(s) - n) : rest[p] = s[n + p]
<1> DEFINE K == Len(s)
           front == SubSeq(s, 1, n)
           rest == SubSeq(s, n + 1, K)
<1>1. K \in Nat /\ n \in Nat /\ 1 <= n /\ n <= K /\ \A i \in 1..K : s[i] \in S
  OBVIOUS
<1> HIDE DEF K
<1>2. /\ front \in Seq(S) /\ Len(front) = (IF 1 <= n THEN n - 1 + 1 ELSE 0)
      /\ \A p \in 1..(n - 1 + 1) : front[p] = s[1 + p - 1]
  <2>1. \A i \in 1..n : s[i] \in S
    BY <1>1
  <2> QED BY <1>1, <2>1, SubSeqProperties
<1>3. /\ rest \in Seq(S) /\ Len(rest) = (IF n + 1 <= K THEN K - (n + 1) + 1 ELSE 0)
      /\ \A p \in 1..(K - (n + 1) + 1) : rest[p] = s[(n + 1) + p - 1]
  <2>1. \A i \in (n + 1)..K : s[i] \in S
    BY <1>1
  <2>2. n + 1 \in Int /\ K \in Int
    BY <1>1
  <2> QED BY <2>1, <2>2, SubSeqProperties
<1> HIDE DEF front, rest
<1>4. Len(front) = n /\ \A p \in 1..n : front[p] = s[p]
  BY <1>1, <1>2
<1>5. Len(rest) = K - n /\ \A p \in 1..(K - n) : rest[p] = s[n + p]
  BY <1>1, <1>3
<1> QED BY <1>2, <1>3, <1>4, <1>5 DEF front, rest, K

\* The least key of the other kinds.
NextKey(k) ==
    CHOOSE key \in {HeadKey(l) : l \in Kinds \ {k}} :
        \A l \in Kinds \ {k} : ~Precedes(HeadKey(l), key)

\* All of a lower order than what a batch holds was drawn before it, or is
\* before it in the batch.
LEMMA BatchIsNext ==
    ASSUME PaintInv, DrawInv, finished, NEW k \in Kinds, heads[k] # <<>>,
           NEW next, next = NextKey(k),
           \A l \in Kinds \ {k} : Precedes(HeadKey(k), HeadKey(l)),
           NEW m \in 1..BatchEnd(k, next), NEW i \in All, i \notin Entries(drawn),
           primitives[i].order < primitives[heads[k][m]].order
    PROVE  \E p \in 1..(m - 1) : heads[k][p] = i
<1> DEFINE o(x) == primitives[x].order
           h == heads[k]
           l == KindOf(i)
           n == BatchEnd(k, next)
<1>1. /\ primitives \in Seq(PrimitiveType)
      /\ heads \in [Kinds -> Seq(All)] /\ HeadsSorted /\ NoneLost
  BY DEF PaintInv, PaintTypes, DrawInv
<1>2. /\ Kinds \subseteq Nat /\ l \in Kinds
      /\ \A x \in All : o(x) \in Nat
  BY <1>1, KindFacts
<1>3. \A c \in Kinds : heads[c] \in Seq(All)
  BY <1>1
<1>4. PICK p \in 1..Len(heads[l]) : heads[l][p] = i
  BY <1>1 DEF NoneLost, Entries
<1>5. Len(h) \in Nat \ {0} /\ h \in Seq(All)
  BY <1>3
<1>6. /\ n \in 1..Len(h)
      /\ \A q \in 2..n : Precedes(<<o(h[q]), k>>, next)
  BY <1>5, BatchEndFacts
<1>7. m \in 1..Len(h) /\ m \in Nat /\ m # 0 /\ h[m] \in All
  BY <1>5, <1>6
<1>8. o(i) < o(h[m])
  OBVIOUS
<1> HIDE DEF n, o
<1>9. CASE l = k
  <2>1. p \in 1..Len(h) /\ h[p] = i /\ p \in Nat /\ 1 <= p
    BY <1>4, <1>5, <1>9
  <2>2. m < p \/ m = p \/ p < m
    BY <1>7, <2>1
  <2>3. ~(m < p)
    <3>1. m < p => o(h[m]) <= o(h[p])
      BY <1>1, <1>7, <2>1 DEF HeadsSorted, o
    <3>2. o(h[m]) \in Nat /\ o(i) \in Nat
      BY <1>2, <1>7
    <3> HIDE DEF h
    <3> QED BY <1>8, <2>1, <3>1, <3>2
  <2>4. m # p
    <3>1. o(h[m]) \in Nat /\ o(i) \in Nat
      BY <1>2, <1>7
    <3> HIDE DEF h
    <3> QED BY <1>8, <2>1, <3>1
  <2>5. p \in 1..(m - 1)
    BY <1>7, <2>1, <2>2, <2>3, <2>4
  <2> QED BY <2>1, <2>5
<1>10. CASE l # k
  <2>1. heads[l] \in Seq(All) /\ heads[l] # <<>>
    <3> HIDE DEF l
    <3>1. heads[l] \in Seq(All)
      BY <1>2, <1>3
    <3>2. heads[l] = <<>> => p \notin 1..Len(heads[l])
      OBVIOUS
    <3> QED BY <1>4, <3>1, <3>2
  <2>2. Len(heads[l]) \in Nat /\ 1 \in 1..Len(heads[l]) /\ Head(heads[l]) = heads[l][1]
        /\ heads[l][1] \in All
    BY <2>1
  <2>3. HeadKey(l) = <<o(heads[l][1]), l>>
    BY <2>1, <2>2 DEF HeadKey, o
  <2>4. o(heads[l][1]) <= o(i)
    <3>1. 1 < p \/ 1 = p
      BY <1>4, <2>2
    <3>2. 1 < p => o(heads[l][1]) <= o(heads[l][p])
      BY <1>1, <1>2, <1>4, <2>2 DEF HeadsSorted, o
    <3>3. o(i) \in Nat
      BY <1>2
    <3> HIDE DEF l
    <3> QED BY <1>4, <3>1, <3>2, <3>3
  <2>5. o(heads[l][1]) \in Nat /\ o(i) \in Nat /\ o(h[m]) \in Nat
    BY <1>2, <1>7, <2>2
  <2>6. l \in Kinds \ {k}
    BY <1>2, <1>10
  <2>7. CASE m = 1
    <3>1. HeadKey(k) = <<o(h[1]), k>>
      BY <1>5 DEF HeadKey, o
    <3>2. Precedes(<<o(h[1]), k>>, <<o(heads[l][1]), l>>)
      BY <2>3, <2>6, <3>1
    <3> HIDE DEF h, l
    <3>3. o(h[1]) <= o(heads[l][1])
      BY <2>5, <2>7, <3>2 DEF Precedes
    <3> QED BY <1>8, <2>4, <2>5, <2>7, <3>3
  <2>8. CASE m # 1
    <3> DEFINE others == Kinds \ {k}
    <3>1. m \in 2..n
      BY <1>7, <2>8 DEF n
    <3>2. \A c \in others : HeadKey(c)[1] \in Nat
      <4> SUFFICES ASSUME NEW c \in others PROVE HeadKey(c)[1] \in Nat
        OBVIOUS
      <4>1. CASE heads[c] = <<>>
        BY <4>1, SceneAssumption DEF HeadKey, Greatest
      <4>2. CASE heads[c] # <<>>
        <5>1. Head(heads[c]) \in All
          BY <1>3, <4>2
        <5> QED BY <1>2, <4>2, <5>1 DEF HeadKey, o
      <4> QED BY <4>1, <4>2
    <3>3. others \in SUBSET Nat /\ others # {} /\ l \in others
      BY <1>2, <2>6
    <3>4. /\ next \in {HeadKey(c) : c \in others}
          /\ \A c \in others : ~Precedes(HeadKey(c), next)
      <4> DEFINE keys == {HeadKey(c) : c \in others}
                 Least(key) == \A c \in others : ~Precedes(HeadKey(c), key)
      <4>1. next = CHOOSE key \in keys : Least(key)
        BY DEF NextKey
      <4>2. \E key \in keys : Least(key)
        <5> HIDE DEF others
        <5> QED BY <3>2, <3>3, LeastKey
      <4> HIDE DEF keys, Least
      <4>3. next \in keys /\ Least(next)
        BY <4>1, <4>2
      <4> QED BY <4>3 DEF keys, Least
    <3>5. PICK x \in Nat, c \in Nat : next = <<x, c>>
      <4>1. PICK c \in others : next = HeadKey(c)
        BY <3>4
      <4>2. HeadKey(c) = <<HeadKey(c)[1], c>>
        BY DEF HeadKey
      <4> HIDE DEF others
      <4> QED BY <3>2, <3>3, <4>1, <4>2
    <3>6. Precedes(<<o(h[m]), k>>, <<x, c>>) /\ ~Precedes(<<o(heads[l][1]), l>>, <<x, c>>)
      BY <1>6, <2>3, <3>1, <3>3, <3>4, <3>5
    <3> HIDE DEF h, l
    <3>7. o(h[m]) <= x /\ x <= o(heads[l][1])
      BY <2>5, <3>6 DEF Precedes
    <3> QED BY <1>8, <2>4, <2>5, <3>5, <3>7
  <2> QED BY <2>7, <2>8
<1> QED BY <1>9, <1>10

\* BatchIterator::next keeps it: it takes the kind of the least key.
LEMMA BatchDraws ==
    ASSUME PaintInv, DrawInv, NextBatch
    PROVE  DrawInv'
<1>1. PICK k \in Kinds :
        LET others == Kinds \ {k}
            next == CHOOSE key \in {HeadKey(l) : l \in others} :
                        \A l \in others : ~Precedes(HeadKey(l), key)
            n == BatchEnd(k, next)
        IN /\ finished /\ heads[k] # <<>>
           /\ \A l \in others : Precedes(HeadKey(k), HeadKey(l))
           /\ drawn' = drawn \o SubSeq(heads[k], 1, n)
           /\ heads' = [heads EXCEPT ![k] = SubSeq(@, n + 1, Len(@))]
           /\ UNCHANGED <<treeVars, layer_stack, primitives, paint_ops, finished>>
  BY DEF NextBatch
<1>2. PICK next : next = NextKey(k)
  OBVIOUS
<1> DEFINE n == BatchEnd(k, next)
           h == heads[k]
           front == SubSeq(h, 1, n)
           rest == SubSeq(h, n + 1, Len(h))
           D == Len(drawn)
<1>3. /\ finished /\ h # <<>>
      /\ \A l \in Kinds \ {k} : Precedes(HeadKey(k), HeadKey(l))
      /\ drawn' = drawn \o front
      /\ heads' = [heads EXCEPT ![k] = rest]
      /\ primitives' = primitives /\ finished' = finished
  BY <1>1, <1>2 DEF NextKey
<1>4. /\ primitives \in Seq(PrimitiveType)
      /\ heads \in [Kinds -> Seq(All)] /\ drawn \in Seq(All)
      /\ HeadsSorted /\ NoneLost /\ DrawnByOrder
  BY <1>3 DEF PaintInv, PaintTypes, DrawInv
<1>5. \A m \in 1..n : \A i \in All :
         /\ i \notin Entries(drawn) /\ primitives[i].order < primitives[h[m]].order
         => \E p \in 1..(m - 1) : h[p] = i
  <2>1. \A l \in Kinds \ {k} : Precedes(HeadKey(k), HeadKey(l))
    BY <1>3
  <2>2. finished /\ heads[k] # <<>>
    BY <1>3
  <2>3. ASSUME NEW m \in 1..BatchEnd(k, next), NEW i \in All, i \notin Entries(drawn),
               primitives[i].order < primitives[heads[k][m]].order
        PROVE  \E p \in 1..(m - 1) : heads[k][p] = i
    BY <1>2, <2>1, <2>2, <2>3, BatchIsNext
  <2> QED BY <2>3
<1>6. h \in Seq(All) /\ Len(h) \in Nat \ {0}
  BY <1>3, <1>4
<1>7. n \in 1..Len(h)
  BY <1>6, BatchEndFacts
<1> HIDE DEF n, h
<1>8. /\ front \in Seq(All) /\ Len(front) = n /\ \A p \in 1..n : front[p] = h[p]
      /\ rest \in Seq(All) /\ Len(rest) = Len(h) - n
      /\ \A p \in 1..(Len(h) - n) : rest[p] = h[n + p]
  BY <1>6, <1>7, SplitFacts
<1> HIDE DEF front, rest
<1>9. All' = All
  BY <1>3 DEF All
<1>10. /\ drawn' \in Seq(All) /\ D \in Nat /\ Len(drawn') = D + n /\ n \in Nat
       /\ \A q \in 1..D : drawn'[q] = drawn[q]
       /\ \A q \in 1..n : drawn'[D + q] = h[q]
  <2>1. n \in Nat
    BY <1>6, <1>7
  <2> HIDE DEF All
  <2>2. /\ drawn \o front \in Seq(All) /\ Len(drawn \o front) = Len(drawn) + Len(front)
        /\ \A i \in 1..Len(drawn) : (drawn \o front)[i] = drawn[i]
        /\ \A i \in 1..Len(front) : (drawn \o front)[Len(drawn) + i] = front[i]
    <3>1. drawn \in Seq(All) /\ front \in Seq(All)
      BY <1>4, <1>8
    <3> QED BY <3>1, JoinFacts
  <2>3. Len(drawn) \in Nat
    BY <1>4
  <2> QED BY <1>3, <1>8, <2>1, <2>2, <2>3
<1>11. /\ heads' \in [Kinds -> Seq(All)] /\ heads'[k] = rest
       /\ \A c \in Kinds : c # k => heads'[c] = heads[c]
  BY <1>3, <1>4, <1>8
<1> HIDE DEF D
<1>12. \A q \in 1..(D + n) : q \in 1..D \/ \E m \in 1..n : q = D + m
  <2>1. \A q \in 1..(D + n) : q \in 1..D \/ (q - D \in 1..n /\ q = D + (q - D))
    BY <1>10
  <2> QED BY <2>1
<1>13. HeadsSorted'
  <2> SUFFICES ASSUME NEW c \in Kinds, NEW p \in 1..Len(heads'[c]), NEW q \in 1..Len(heads'[c]),
                      p < q
               PROVE  primitives[heads'[c][p]].order <= primitives[heads'[c][q]].order
    BY <1>3 DEF HeadsSorted
  <2>1. CASE c = k
    <3>1. p \in 1..(Len(h) - n) /\ q \in 1..(Len(h) - n) /\ heads'[c] = rest
      BY <1>8, <1>11, <2>1
    <3>2. n + p \in 1..Len(h) /\ n + q \in 1..Len(h) /\ n + p < n + q
      BY <1>6, <1>10, <3>1
    <3>3. primitives[h[n + p]].order <= primitives[h[n + q]].order
      BY <1>4, <3>2 DEF HeadsSorted, h
    <3> QED BY <1>8, <3>1, <3>3
  <2>2. CASE c # k
    BY <1>4, <1>11, <2>2 DEF HeadsSorted
  <2> QED BY <2>1, <2>2
<1>14. \A i \in Entries(drawn) : i \in Entries(drawn')
  <2>1. \A q \in 1..D : q \in 1..(D + n)
    BY <1>10
  <2> QED BY <1>10, <2>1 DEF Entries, D
<1>15. NoneLost'
  <2>1. ASSUME NEW i \in All
        PROVE  i \in Entries(drawn') \/ i \in Entries(heads'[KindOf(i)])
    <3>1. CASE i \in Entries(drawn)
      BY <1>14, <3>1
    <3>2. CASE i \in Entries(heads[KindOf(i)]) /\ KindOf(i) # k
      <4>1. KindOf(i) \in Kinds
        BY <1>4, KindFacts
      <4> QED BY <1>11, <3>2, <4>1
    <3>3. CASE i \in Entries(heads[KindOf(i)]) /\ KindOf(i) = k
      <4>1. PICK p \in 1..Len(h) : h[p] = i
        BY <3>3 DEF Entries, h
      <4>2. CASE p \in 1..n
        <5>1. D + p \in 1..Len(drawn') /\ drawn'[D + p] = i
          BY <1>10, <4>1, <4>2
        <5> QED BY <5>1 DEF Entries
      <4>3. CASE p \notin 1..n
        <5>1. p - n \in 1..(Len(h) - n) /\ n + (p - n) = p
          BY <1>6, <1>10, <4>1, <4>3
        <5>2. p - n \in 1..Len(rest) /\ rest[p - n] = i
          BY <1>8, <4>1, <5>1
        <5> QED BY <1>11, <3>3, <5>2 DEF Entries
      <4> QED BY <4>2, <4>3
    <3> QED BY <1>4, <3>1, <3>2, <3>3 DEF NoneLost
  <2>2. \A i \in All : i \in Entries(drawn') \/ i \in Entries(heads'[primitives'[i].prim[1]])
    BY <1>3, <2>1 DEF KindOf
  <2> QED BY <1>9, <2>2 DEF NoneLost, KindOf
<1>16. DrawnByOrder'
  <2> SUFFICES ASSUME NEW q \in 1..Len(drawn'), NEW i \in All,
                      primitives[i].order < primitives[drawn'[q]].order
               PROVE  \E p \in 1..Len(drawn') : p < q /\ drawn'[p] = i
    BY <1>3, <1>9 DEF DrawnByOrder
  <2>1. CASE q \in 1..D
    <3>1. PICK p \in 1..D : p < q /\ drawn[p] = i
      BY <1>4, <1>10, <2>1 DEF DrawnByOrder, D
    <3>2. p \in 1..Len(drawn')
      BY <1>10
    <3> QED BY <1>10, <3>1, <3>2
  <2>2. ASSUME NEW m \in 1..n, q = D + m
        PROVE  \E p \in 1..Len(drawn') : p < q /\ drawn'[p] = i
    <3>1. drawn'[q] = h[m]
      BY <1>10, <2>2
    <3>2. CASE i \in Entries(drawn)
      <4>1. PICK p \in 1..D : drawn[p] = i
        BY <3>2 DEF Entries, D
      <4>2. p \in 1..Len(drawn') /\ p < q
        BY <1>10, <2>2
      <4> QED BY <1>10, <4>1, <4>2
    <3>3. CASE i \notin Entries(drawn)
      <4>1. PICK p \in 1..(m - 1) : h[p] = i
        BY <1>5, <3>1, <3>3
      <4>2. p \in 1..n /\ D + p \in 1..Len(drawn') /\ D + p < q
        BY <1>10, <2>2
      <4> QED BY <1>10, <4>1, <4>2
    <3> QED BY <3>2, <3>3
  <2> QED BY <1>10, <1>12, <2>1, <2>2
<1>17. heads' \in [Kinds -> Seq(All')] /\ drawn' \in Seq(All')
  BY <1>9, <1>10, <1>11
<1> QED BY <1>3, <1>13, <1>15, <1>16, <1>17 DEF DrawInv

(***************************************************************************)
(* The scene.                                                              *)
(***************************************************************************)
\* The inductive invariant of the scene.
SceneInv == PaintInv /\ DrawInv

\* A cleared scene satisfies it.
LEMMA SceneStarts == SceneInit => SceneInv
<1> SUFFICES ASSUME SceneInit PROVE SceneInv
  OBVIOUS
<1>1. /\ nodes = <<>> /\ root = 0 /\ max_leaf = 0
      /\ layer_stack = <<>> /\ primitives = <<>> /\ paint_ops = 0
      /\ finished = FALSE /\ drawn = <<>>
  BY DEF SceneInit, TreeInit
<1>2. TreeInv /\ Leaves = {}
  BY <1>1 DEF TreeInv, Leaves
<1>3. PaintTypes /\ OrderIsOneAbove /\ PaintedInTree /\ LayersAbove /\ OrdersRise
  BY <1>1, <1>2 DEF PaintTypes, OrderIsOneAbove, PaintedInTree, LayersAbove, OrdersRise
<1>4. DrawInv
  BY <1>1 DEF DrawInv
<1> QED BY <1>2, <1>3, <1>4 DEF SceneInv, PaintInv

\* finish and the batches leave what was painted as it is.
LEMMA PaintSame ==
    ASSUME PaintInv, UNCHANGED <<treeVars, layer_stack, primitives, paint_ops>>
    PROVE  PaintInv'
<1>1. /\ UNCHANGED treeVars /\ layer_stack' = layer_stack /\ primitives' = primitives
      /\ paint_ops' = paint_ops
  OBVIOUS
<1>2. PaintTypes /\ TreeInv /\ OrderIsOneAbove /\ PaintedInTree /\ LayersAbove /\ OrdersRise
  BY DEF PaintInv
<1>3. TreeInv' /\ OrderIsOneAbove' /\ \A c, o : InTree(c, o) => InTree(c, o)'
  BY <1>1, <1>2, TreeSame
<1>4. PaintTypes' /\ LayersAbove' /\ OrdersRise'
  BY <1>1, <1>2 DEF PaintTypes, LayersAbove, OrdersRise, Inside, Asked, InLayer, ShareLayer
<1>5. PaintedInTree'
  <2>1. nodes' = nodes
    BY <1>1 DEF treeVars
  <2> QED BY <1>1, <1>2, <2>1 DEF PaintedInTree, InTree, Leaves, IsLeaf, Asked
<1> QED BY <1>3, <1>4, <1>5 DEF PaintInv

\* Every operation of the scene keeps it.
LEMMA SceneSteps == SceneInv /\ [SceneNext]_sceneVars => SceneInv'
<1> SUFFICES ASSUME SceneInv, [SceneNext]_sceneVars PROVE SceneInv'
  OBVIOUS
<1>1. PaintInv /\ DrawInv
  BY DEF SceneInv
<1>2. ASSUME Painting PROVE DrawInv'
  BY <1>1, <1>2 DEF Painting, DrawInv
<1>3. ASSUME NEW b \in Rects, PushLayer(b) PROVE SceneInv'
  <2>1. PaintInv'
    BY <1>1, <1>3, PushPaints
  <2>2. Painting
    BY <1>3 DEF PushLayer
  <2> QED BY <1>2, <2>1, <2>2 DEF SceneInv
<1>4. ASSUME NEW b \in Rects, NEW prim \in Prims, InsertPrimitive(prim, b) PROVE SceneInv'
  <2>1. PaintInv'
    BY <1>1, <1>4, InsertPaints
  <2>2. Painting
    BY <1>4 DEF InsertPrimitive
  <2> QED BY <1>2, <2>1, <2>2 DEF SceneInv
<1>5. CASE PopLayer
  <2>1. PaintInv'
    BY <1>1, <1>5, PopPaints
  <2>2. ~finished /\ finished' = finished /\ drawn' = drawn
    BY <1>5 DEF PopLayer
  <2> QED BY <1>1, <2>1, <2>2 DEF SceneInv, DrawInv
<1>6. CASE FinishScene
  <2>1. PaintInv'
    BY <1>1, <1>6, PaintSame DEF FinishScene
  <2>2. DrawInv'
    BY <1>1, <1>6, FinishDraws
  <2> QED BY <2>1, <2>2 DEF SceneInv
<1>7. CASE NextBatch
  <2>1. PaintInv'
    BY <1>1, <1>7, PaintSame DEF NextBatch
  <2>2. DrawInv'
    BY <1>1, <1>7, BatchDraws
  <2> QED BY <2>1, <2>2 DEF SceneInv
<1>8. CASE UNCHANGED sceneVars
  <2>1. UNCHANGED <<treeVars, layer_stack, primitives, paint_ops, finished, heads, drawn>>
    BY <1>8 DEF sceneVars
  <2>2. PaintInv'
    BY <1>1, <2>1, PaintSame
  <2>3. DrawInv'
    BY <1>1, <2>1 DEF DrawInv, All, HeadsSorted, NoneLost, DrawnByOrder, KindOf
  <2> QED BY <2>2, <2>3 DEF SceneInv
<1> QED BY <1>3, <1>4, <1>5, <1>6, <1>7, <1>8 DEF SceneNext

\* What was drawn by order was drawn in the order it was painted.
LEMMA SceneShows == SceneInv => PaintOrderIsKept
<1> SUFFICES ASSUME SceneInv PROVE PaintOrderIsKept
  OBVIOUS
<1>1. OrderIsOneAbove /\ OrdersRise /\ DrawInv
  BY DEF SceneInv, PaintInv
<1>2. ASSUME finished, NEW i \in 1..Len(primitives), NEW j \in 1..Len(primitives),
             i < j, Intersects(primitives[i].bounds, primitives[j].bounds),
             InLayer(i), InLayer(j), ~ShareLayer(i, j),
             NEW q \in 1..Len(drawn), drawn[q] = j
      PROVE  \E p, r \in 1..Len(drawn) : p < r /\ drawn[p] = i /\ drawn[r] = j
  <2>1. primitives[i].order < primitives[drawn[q]].order
    BY <1>1, <1>2 DEF OrdersRise
  <2>2. PICK p \in 1..Len(drawn) : p < q /\ drawn[p] = i
    BY <1>1, <1>2, <2>1 DEF DrawInv, DrawnByOrder, All
  <2> QED BY <1>2, <2>2
<1>3. DrawnInPaintOrder
  BY <1>2 DEF DrawnInPaintOrder
<1> QED BY <1>1, <1>3 DEF PaintOrderIsKept

\* Of two primitives that overlap, the one painted later is drawn later, for any
\* bounds, kinds and layers and any fan-out of the tree: the orders that
\* Scene::insert_primitive takes from BoundsTree::insert or from the layer rise
\* where bounds overlap, and Scene::finish and BatchIterator::next draw no
\* primitive before one of a lower order.
THEOREM PaintOrderAlwaysKept == SceneSpec => []PaintOrderIsKept
<1>1. SceneInit => SceneInv
  BY SceneStarts
<1>2. SceneInv /\ [SceneNext]_sceneVars => SceneInv'
  BY SceneSteps
<1>3. SceneInv => PaintOrderIsKept
  BY SceneShows
<1> QED BY <1>1, <1>2, <1>3, PTL DEF SceneSpec

=============================================================================
