------------------------- MODULE PatriciaTreeProofs -------------------------
(***************************************************************************)
(* Proofs about PatriciaTree, for trees of every height: the update of a   *)
(* tree leaves the tree readable, splits the tree between the queue and    *)
(* updated_nodes, writes well-formed facts only, ends with the root the    *)
(* reference definition computes from the leaves, and returns the nodes    *)
(* above the modified leaves; the difference of two trees is exact.        *)
(***************************************************************************)
EXTENDS PatriciaTree, PatriciaNodesProofs, FiniteSetTheorems, TLAPS

-----------------------------------------------------------------------------
(* The recursive functions.                                                *)

\* DiffLayers satisfies its recursive equation.
LEMMA DiffLayersDef ==
  ASSUME NEW p, NEW c
  PROVE  /\ DiffLayers(p, c)[0] = {Difference(p, c, 0)}
         /\ \A k \in Nat :
               DiffLayers(p, c)[k + 1] =
               UNION {DiffChildren(d) : d \in DiffLayers(p, c)[k]}
<1> DEFINE Base == {Difference(p, c, 0)}
           Step(v, n) == UNION {DiffChildren(d) : d \in v}
           Good(g, m) == g = [n \in 0 .. m |->
                                 IF n = 0 THEN Base ELSE Step(g[n - 1], n)]
           S == {m \in Nat : \E g : Good(g, m)}
           Full(f) == f = [n \in Nat |-> IF n = 0 THEN Base ELSE Step(f[n - 1], n)]
<1>0. DiffLayers(p, c) = CHOOSE f : Full(f) BY DEF DiffLayers
<1> HIDE DEF Base, Step
<1>1. 0 \in S
  <2> DEFINE e == [n \in 0 .. 0 |-> Base]
  <2>1. Good(e, 0) OBVIOUS
  <2> HIDE DEF e, Good
  <2>2. \E g : Good(g, 0) BY <2>1
  <2> QED BY <2>2
<1>2. ASSUME NEW m \in Nat, m \in S PROVE m + 1 \in S
  <2>1. PICK g : Good(g, m) BY <1>2
  <2> DEFINE e == [n \in 0 .. (m + 1) |->
                     IF n = m + 1 THEN Step(g[m], m + 1) ELSE g[n]]
  <2>2. \A n \in 0 .. m : g[n] = IF n = 0 THEN Base ELSE Step(g[n - 1], n) BY <2>1
  <2>3. \A n \in 0 .. (m + 1) : e[n] = IF n = 0 THEN Base ELSE Step(e[n - 1], n)
    BY <2>2
  <2>4. Good(e, m + 1) BY <2>3
  <2> HIDE DEF e, Good
  <2>5. \E f : Good(f, m + 1) BY <2>4
  <2> QED BY <2>5
<1>3. \A m \in Nat : m \in S
  <2> HIDE DEF S
  <2> QED BY <1>1, <1>2, NatSetInduction
<1> DEFINE G(m) == CHOOSE g : Good(g, m)
<1>4. \A m \in Nat : Good(G(m), m) BY <1>3
<1> HIDE DEF G
<1>5. ASSUME NEW m \in Nat PROVE \A n \in 0 .. m : G(m)[n] = G(m + 1)[n]
  <2> DEFINE T == {n \in Nat : n \in 0 .. m => G(m)[n] = G(m + 1)[n]}
  <2>1. /\ \A n \in 0 .. m : G(m)[n] = IF n = 0 THEN Base ELSE Step(G(m)[n - 1], n)
        /\ \A n \in 0 .. (m + 1) :
              G(m + 1)[n] = IF n = 0 THEN Base ELSE Step(G(m + 1)[n - 1], n)
    BY <1>4
  <2>2. 0 \in T BY <2>1
  <2>3. ASSUME NEW n \in Nat, n \in T PROVE n + 1 \in T BY <2>1, <2>3
  <2>4. \A n \in Nat : n \in T
    <3> HIDE DEF T
    <3> QED BY <2>2, <2>3, NatSetInduction
  <2> QED BY <2>4
<1> DEFINE F == [n \in Nat |-> G(n)[n]]
<1>6. Full(F)
  <2>1. ASSUME NEW n \in Nat PROVE F[n] = IF n = 0 THEN Base ELSE Step(F[n - 1], n)
    <3>1. G(n)[n] = IF n = 0 THEN Base ELSE Step(G(n)[n - 1], n) BY <1>4
    <3>2. n # 0 => n - 1 \in Nat /\ (n - 1) + 1 = n OBVIOUS
    <3>3. n # 0 => G(n - 1)[n - 1] = G(n)[n - 1] BY <3>2, <1>5
    <3> QED BY <3>1, <3>2, <3>3
  <2> QED BY <2>1
<1>7. PICK L : L = DiffLayers(p, c) OBVIOUS
<1>8. Full(L)
  <2> HIDE DEF F, Full
  <2> QED BY <1>0, <1>6, <1>7
<1>9. \A n \in Nat : L[n] = IF n = 0 THEN Base ELSE Step(L[n - 1], n) BY <1>8
<1>10. L[0] = Base /\ \A n \in Nat : L[n + 1] = Step(L[n], n + 1)
  <2>1. \A n \in Nat : (n + 1) - 1 = n /\ n + 1 \in Nat /\ n + 1 # 0 OBVIOUS
  <2> QED BY <1>9, <2>1
<1> QED BY <1>7, <1>10 DEF Base, Step

\* Merges satisfies its recursive equation.
LEMMA MergesDef ==
  ASSUME NEW j, NEW nodes
  PROVE  /\ Merges(j, nodes)[0] = [index |-> j, nodes |-> nodes, reads |-> {}]
         /\ \A k \in Nat : Merges(j, nodes)[k + 1] = Merge(Merges(j, nodes)[k])
<1> DEFINE Base == [index |-> j, nodes |-> nodes, reads |-> {}]
           Step(v, n) == Merge(v)
           Good(g, m) == g = [n \in 0 .. m |->
                                 IF n = 0 THEN Base ELSE Step(g[n - 1], n)]
           S == {m \in Nat : \E g : Good(g, m)}
           Full(f) == f = [n \in Nat |-> IF n = 0 THEN Base ELSE Step(f[n - 1], n)]
<1>0. Merges(j, nodes) = CHOOSE f : Full(f) BY DEF Merges
<1> HIDE DEF Base, Step
<1>1. 0 \in S
  <2> DEFINE e == [n \in 0 .. 0 |-> Base]
  <2>1. Good(e, 0) OBVIOUS
  <2> HIDE DEF e, Good
  <2>2. \E g : Good(g, 0) BY <2>1
  <2> QED BY <2>2
<1>2. ASSUME NEW m \in Nat, m \in S PROVE m + 1 \in S
  <2>1. PICK g : Good(g, m) BY <1>2
  <2> DEFINE e == [n \in 0 .. (m + 1) |->
                     IF n = m + 1 THEN Step(g[m], m + 1) ELSE g[n]]
  <2>2. \A n \in 0 .. m : g[n] = IF n = 0 THEN Base ELSE Step(g[n - 1], n) BY <2>1
  <2>3. \A n \in 0 .. (m + 1) : e[n] = IF n = 0 THEN Base ELSE Step(e[n - 1], n)
    BY <2>2
  <2>4. Good(e, m + 1) BY <2>3
  <2> HIDE DEF e, Good
  <2>5. \E f : Good(f, m + 1) BY <2>4
  <2> QED BY <2>5
<1>3. \A m \in Nat : m \in S
  <2> HIDE DEF S
  <2> QED BY <1>1, <1>2, NatSetInduction
<1> DEFINE G(m) == CHOOSE g : Good(g, m)
<1>4. \A m \in Nat : Good(G(m), m) BY <1>3
<1> HIDE DEF G
<1>5. ASSUME NEW m \in Nat PROVE \A n \in 0 .. m : G(m)[n] = G(m + 1)[n]
  <2> DEFINE T == {n \in Nat : n \in 0 .. m => G(m)[n] = G(m + 1)[n]}
  <2>1. /\ \A n \in 0 .. m : G(m)[n] = IF n = 0 THEN Base ELSE Step(G(m)[n - 1], n)
        /\ \A n \in 0 .. (m + 1) :
              G(m + 1)[n] = IF n = 0 THEN Base ELSE Step(G(m + 1)[n - 1], n)
    BY <1>4
  <2>2. 0 \in T BY <2>1
  <2>3. ASSUME NEW n \in Nat, n \in T PROVE n + 1 \in T BY <2>1, <2>3
  <2>4. \A n \in Nat : n \in T
    <3> HIDE DEF T
    <3> QED BY <2>2, <2>3, NatSetInduction
  <2> QED BY <2>4
<1> DEFINE F == [n \in Nat |-> G(n)[n]]
<1>6. Full(F)
  <2>1. ASSUME NEW n \in Nat PROVE F[n] = IF n = 0 THEN Base ELSE Step(F[n - 1], n)
    <3>1. G(n)[n] = IF n = 0 THEN Base ELSE Step(G(n)[n - 1], n) BY <1>4
    <3>2. n # 0 => n - 1 \in Nat /\ (n - 1) + 1 = n OBVIOUS
    <3>3. n # 0 => G(n - 1)[n - 1] = G(n)[n - 1] BY <3>2, <1>5
    <3> QED BY <3>1, <3>2, <3>3
  <2> QED BY <2>1
<1>7. PICK L : L = Merges(j, nodes) OBVIOUS
<1>8. Full(L)
  <2> HIDE DEF F, Full
  <2> QED BY <1>0, <1>6, <1>7
<1>9. \A n \in Nat : L[n] = IF n = 0 THEN Base ELSE Step(L[n - 1], n) BY <1>8
<1>10. L[0] = Base /\ \A n \in Nat : L[n + 1] = Step(L[n], n + 1)
  <2>1. \A n \in Nat : (n + 1) - 1 = n /\ n + 1 \in Nat /\ n + 1 # 0 OBVIOUS
  <2> QED BY <1>9, <2>1
<1> QED BY <1>7, <1>10 DEF Base, Step

-----------------------------------------------------------------------------
(* Calculations, against the reference tree.                               *)

\* The node that a calculation will be.
View(c) == VirtualNode(c.bottom.hash, c.path, c.length, c.height)

\* The node c of calculations will be the subtree s, all of which is in the
\* set st of facts or among the new facts of c.
Computes(c, s, st) ==
    /\ c = CalcNode(c.bottom, c.path, c.length, c.height)
    /\ Shows(View(c), s.node)
    /\ s.facts \subseteq st \cup c.bottom.facts
    /\ c.bottom.hash \in st \cup c.bottom.facts
    /\ \A f \in c.bottom.facts : WellFormedFact(f)
    /\ c.bottom.calc \in {"constant", "leaf", "binary"}
    /\ c.bottom.calc = "constant" => c.bottom.facts = {}
    /\ c.bottom.calc = "leaf" => c.bottom.hash.kind # "edge"
    /\ c.bottom.calc = "binary" => c.bottom.hash.kind = "binary"

LEMMA ViewFields ==
  ASSUME NEW c
  PROVE  /\ View(c).bottom = c.bottom.hash /\ View(c).path = c.path
         /\ View(c).length = c.length /\ View(c).height = c.height
BY DEF View, VirtualNode

\* A calculation is empty where the subtree is.
LEMMA CalcIsEmpty ==
  ASSUME NEW h \in 0 .. Height, NEW s, SubtreeOK(s, h), NEW c, NEW st,
         Computes(c, s, st)
  PROVE  /\ calc_is_empty(c.bottom) <=> is_empty(s.node)
         /\ c.height = h
<1> USE NodesAssumption
<1>1. NodeOK(s.node, h) BY DEF SubtreeOK
<1>2. s.node.height = h BY <1>1, NodeHeight
<1>3. Shows(View(c), s.node) BY DEF Computes
<1>4. c.bottom.hash = s.node.bottom \/ c.bottom.hash = hash_node(s.node)
  BY <1>3, ViewFields DEF Shows, from_hash, VirtualNode
<1>5. c.height = h BY <1>2, <1>3, ViewFields DEF Shows, from_hash, VirtualNode
<1>6. c.bottom.hash = EMPTY_NODE_HASH <=> is_empty(s.node)
  BY <1>1, <1>4, HashNodeKind DEF is_empty
<1>7. c.bottom.hash = EMPTY_NODE_HASH => c.bottom.calc \in {"constant", "leaf"}
  BY DEF Computes, EMPTY_NODE_HASH
<1> QED BY <1>5, <1>6, <1>7 DEF calc_is_empty

\* commit() gives the hash of the subtree, and its fact where it is new.
LEMMA CommitHash ==
  ASSUME NEW h \in 0 .. Height, NEW s, SubtreeOK(s, h), NEW c, NEW st,
         Computes(c, s, st)
  PROVE  /\ commit(c).hash = hash_node(s.node)
         /\ commit(c).hash \in st \cup commit(c).facts
         /\ c.bottom.facts \subseteq commit(c).facts
         /\ \A f \in commit(c).facts : WellFormedFact(f)
<1> USE NodesAssumption
<1>1. NodeOK(s.node, h) BY DEF SubtreeOK
<1>2. Shows(View(c), s.node) BY DEF Computes
<1>3. CASE c.length = 0
  <2>1. commit(c) = c.bottom BY <1>3 DEF commit, is_virtual_edge
  <2>2. c.bottom.hash = hash_node(s.node)
    BY <1>2, <1>3, ViewFields DEF Shows, from_hash, VirtualNode, hash_node
  <2> QED BY <2>1, <2>2 DEF Computes
<1>4. CASE c.length # 0
  <2>1. View(c) = s.node
    BY <1>2, <1>4, ViewFields DEF Shows, from_hash, VirtualNode
  <2>2. commit(c) = EdgeCalculation(c.bottom, c.path, c.length)
    BY <1>4 DEF commit, is_virtual_edge
  <2>3. hash_node(s.node) = EdgeNodeFact(c.bottom.hash, c.path, c.length)
    BY <1>4, <2>1, ViewFields DEF hash_node
  <2>4. /\ commit(c).hash = hash_node(s.node)
        /\ commit(c).facts = {hash_node(s.node)} \cup c.bottom.facts
    BY <2>2, <2>3 DEF EdgeCalculation
  <2>5. WellFormedFact(hash_node(s.node)) BY <1>1, HashNodeKind
  <2> QED BY <2>4, <2>5 DEF Computes
<1> QED BY <1>3, <1>4

\* decommit() gives the triple of the subtree.
LEMMA DecommitTriple ==
  ASSUME NEW h \in 0 .. Height, NEW s, SubtreeOK(s, h), NEW c, NEW st,
         Computes(c, s, st), ~is_empty(s.node)
  PROVE  /\ Computes(decommit(c), s, st)
         /\ View(decommit(c)) = s.node
         /\ DecommitReads(c) \subseteq st
<1> USE NodesAssumption
<1>1. NodeOK(s.node, h) BY DEF SubtreeOK
<1>2. Shows(View(c), s.node) BY DEF Computes
<1>3. ~calc_is_empty(c.bottom) /\ c.height = h BY CalcIsEmpty
<1>4. s.node.height = h BY <1>1, NodeHeight
<1>5. DecommitReads(c) \subseteq st
  BY DEF DecommitReads, Computes
<1>6. CASE s.node.length = 0
  <2>1. View(c) = s.node
    <3>1. hash_node(s.node) = s.node.bottom BY <1>6 DEF hash_node
    <3>2. s.node.path = 0 BY <1>1, <1>6, Pow2Def DEF NodeOK, Positions
    <3>3. s.node = from_hash(s.node.bottom, h)
      BY <1>1, <1>6, <3>2 DEF NodeOK, from_hash
    <3> QED BY <1>2, <1>4, <3>1, <3>3 DEF Shows
  <2>2. c.bottom.hash.kind # "edge"
    BY <1>1, <2>1, ViewFields DEF NodeOK, EMPTY_NODE_HASH
  <2>3. c.bottom.calc # "edge" BY DEF Computes
  <2>4. decommit(c) = c BY <2>2, <2>3 DEF decommit
  <2> QED BY <1>5, <2>1, <2>4
<1>7. CASE s.node.length # 0 /\ c.length # 0
  <2>1. View(c) = s.node
    BY <1>2, <1>7, ViewFields DEF Shows, from_hash, VirtualNode
  <2>2. decommit(c) = c BY <1>7 DEF decommit, is_virtual_edge
  <2> QED BY <1>5, <2>1, <2>2
<1>8. CASE s.node.length # 0 /\ c.length = 0
  <2>1. View(c) = from_hash(hash_node(s.node), h)
    BY <1>2, <1>4, <1>8, ViewFields DEF Shows
  <2>2. c.bottom.hash = EdgeNodeFact(s.node.bottom, s.node.path, s.node.length)
    BY <1>8, <2>1, ViewFields DEF from_hash, VirtualNode, hash_node
  <2>3. /\ c.bottom.hash.kind = "edge" /\ c.bottom.hash.bottom = s.node.bottom
        /\ c.bottom.hash.path = s.node.path /\ c.bottom.hash.length = s.node.length
    BY <2>2 DEF EdgeNodeFact
  <2>4. c.bottom.calc = "constant" /\ c.bottom.facts = {} BY <2>3 DEF Computes
  <2>5. ~is_leaf(c) /\ ~is_virtual_edge(c)
    BY <1>1, <1>3, <1>8 DEF is_leaf, is_virtual_edge, NodeOK
  <2>6. decommit(c) = CalcNode(Constant(s.node.bottom), s.node.path, s.node.length, h)
    BY <1>3, <2>3, <2>4, <2>5 DEF decommit
  <2>7. /\ decommit(c).bottom = Constant(s.node.bottom)
        /\ decommit(c).path = s.node.path /\ decommit(c).length = s.node.length
        /\ decommit(c).height = h
    BY <2>6 DEF CalcNode
  <2>8. /\ Constant(s.node.bottom).calc = "constant"
        /\ Constant(s.node.bottom).hash = s.node.bottom
        /\ Constant(s.node.bottom).facts = {}
    BY DEF Constant
  <2>9. View(decommit(c)) = s.node
    BY <1>1, <2>7, <2>8 DEF View, NodeOK
  <2>10. s.facts \subseteq st /\ s.node.bottom \in st
    BY <2>4 DEF Computes, SubtreeOK
  <2>11. Computes(decommit(c), s, st)
    BY <2>6, <2>7, <2>8, <2>9, <2>10 DEF Computes, Shows
  <2> QED BY <1>5, <2>9, <2>11
<1> QED BY <1>6, <1>7, <1>8

\* combine() of two calculations computes the node above the two subtrees.
LEMMA CombineComputes ==
  ASSUME NEW h \in Nat, h < Height, NEW l, NEW r, SubtreeOK(l, h), SubtreeOK(r, h),
         NEW a, NEW b, NEW st, EMPTY_NODE_HASH \in st,
         Computes(a, l, st), Computes(b, r, st)
  PROVE  /\ Computes(combine(a, b), ReferenceNode(l, r), st)
         /\ CombineReads(a, b) \subseteq st
<1> USE NodesAssumption
<1> DEFINE s == ReferenceNode(l, r)
           c == combine(a, b)
<1>1. h \in 0 .. Height /\ h + 1 \in 0 .. Height BY ReferenceNodeOK
<1>2. /\ calc_is_empty(a.bottom) <=> is_empty(l.node)
      /\ calc_is_empty(b.bottom) <=> is_empty(r.node)
      /\ a.height = h /\ b.height = h
  BY <1>1, CalcIsEmpty
<1>3. NodeOK(l.node, h) /\ NodeOK(r.node, h) BY DEF SubtreeOK
<1>4. l.node.height = h /\ r.node.height = h BY <1>3, NodeHeight
<1>5. CASE is_empty(l.node) /\ is_empty(r.node)
  <2>1. /\ s.node = empty_node(h + 1) /\ s.facts = l.facts \cup r.facts
    BY <1>5, EmptyChildren DEF Subtree
  <2>2. c = CalcNode(Constant(EMPTY_NODE_HASH), 0, 0, h + 1)
    BY <1>2, <1>5 DEF combine, create_from_node, empty_node, from_hash, VirtualNode
  <2>3. /\ c.bottom = Constant(EMPTY_NODE_HASH)
        /\ c.path = 0 /\ c.length = 0 /\ c.height = h + 1
    BY <2>2 DEF CalcNode
  <2>4. /\ Constant(EMPTY_NODE_HASH).calc = "constant"
        /\ Constant(EMPTY_NODE_HASH).hash = EMPTY_NODE_HASH
        /\ Constant(EMPTY_NODE_HASH).facts = {}
    BY DEF Constant
  <2>5. View(c) = s.node
    BY <2>1, <2>3, <2>4 DEF View, empty_node, from_hash
  <2>6. s.facts \subseteq st BY <1>5, <2>1 DEF SubtreeOK
  <2>7. CombineReads(a, b) = {} BY <1>2, <1>5 DEF CombineReads
  <2> HIDE DEF s, c
  <2>8. Computes(c, s, st)
    BY <2>2, <2>3, <2>4, <2>5, <2>6 DEF Computes, Shows
  <2> QED BY <2>7, <2>8 DEF s, c
<1>6. CASE ~is_empty(l.node) /\ ~is_empty(r.node)
  <2> DEFINE binary == BinaryNodeFact(hash_node(l.node), hash_node(r.node))
             new == {binary} \cup commit(a).facts \cup commit(b).facts
  <2>1. /\ s.node = from_hash(binary, h + 1)
        /\ s.facts = l.facts \cup r.facts
                     \cup {binary, hash_node(l.node), hash_node(r.node)}
    BY <1>4, <1>6 DEF ReferenceNode, Subtree
  <2>2. /\ commit(a).hash = hash_node(l.node) /\ commit(b).hash = hash_node(r.node)
        /\ hash_node(l.node) \in st \cup new /\ hash_node(r.node) \in st \cup new
        /\ a.bottom.facts \subseteq new /\ b.bottom.facts \subseteq new
        /\ \A f \in commit(a).facts \cup commit(b).facts : WellFormedFact(f)
    <3>1. /\ commit(a).hash = hash_node(l.node)
          /\ commit(a).hash \in st \cup commit(a).facts
          /\ a.bottom.facts \subseteq commit(a).facts
          /\ \A f \in commit(a).facts : WellFormedFact(f)
      BY <1>1, <1>6, CommitHash
    <3>2. /\ commit(b).hash = hash_node(r.node)
          /\ commit(b).hash \in st \cup commit(b).facts
          /\ b.bottom.facts \subseteq commit(b).facts
          /\ \A f \in commit(b).facts : WellFormedFact(f)
      BY <1>1, <1>6, CommitHash
    <3> QED BY <3>1, <3>2
  <2>3. c = CalcNode(BinaryCalculation(commit(a), commit(b)), 0, 0, h + 1)
    BY <1>2, <1>6 DEF combine, combine_to_binary_node
  <2>4. /\ c.bottom = BinaryCalculation(commit(a), commit(b))
        /\ c.path = 0 /\ c.length = 0 /\ c.height = h + 1
    BY <2>3 DEF CalcNode
  <2>5. /\ c.bottom.hash = binary /\ c.bottom.facts = new
        /\ c.bottom.calc = "binary"
    BY <2>2, <2>4 DEF BinaryCalculation
  <2>6. WellFormedFact(binary) /\ binary.kind = "binary"
    <3>1. hash_node(l.node) # EMPTY_NODE_HASH /\ hash_node(r.node) # EMPTY_NODE_HASH
      BY <1>1, <1>3, <1>6, HashNodeKind
    <3> QED BY <3>1 DEF WellFormedFact, BinaryNodeFact
  <2>7. binary \in new OBVIOUS
  <2>8. \A f \in new : WellFormedFact(f) BY <2>2, <2>6
  <2> HIDE DEF binary, new
  <2>9. View(c) = s.node BY <2>1, <2>4, <2>5 DEF View, from_hash
  <2>10. s.facts \subseteq st \cup new BY <2>1, <2>2, <2>7 DEF Computes
  <2>11. CombineReads(a, b) = {} BY <1>2, <1>6 DEF CombineReads, calc_is_empty
  <2>12. c = CalcNode(c.bottom, c.path, c.length, c.height) BY <2>3, <2>4
  <2> HIDE DEF s, c
  <2>13. Computes(c, s, st)
    BY <2>5, <2>6, <2>7, <2>8, <2>9, <2>10, <2>12 DEF Computes, Shows
  <2> QED BY <2>11, <2>13 DEF s, c
<1>7. CASE is_empty(l.node) /\ ~is_empty(r.node)
  <2> DEFINE d == decommit(b)
  <2>1. /\ s.node = VirtualNode(r.node.bottom, r.node.path + Pow2[r.node.length],
                                r.node.length + 1, h + 1)
        /\ s.facts = l.facts \cup r.facts
    BY <1>4, <1>7 DEF ReferenceNode, Subtree
  <2>2. Computes(d, r, st) /\ View(d) = r.node /\ DecommitReads(b) \subseteq st
    BY <1>1, <1>7, DecommitTriple
  <2>3. /\ d.bottom.hash = r.node.bottom /\ d.path = r.node.path
        /\ d.length = r.node.length /\ d.height = h
    BY <1>4, <2>2, ViewFields
  <2>4. c = CalcNode(d.bottom, d.path + Pow2[d.length], d.length + 1, d.height + 1)
    BY <1>2, <1>7 DEF combine, combine_to_virtual_edge_node
  <2>5. CombineReads(a, b) = DecommitReads(b) BY <1>2, <1>7 DEF CombineReads
  <2> HIDE DEF d
  <2>6. /\ c.bottom = d.bottom /\ c.path = d.path + Pow2[d.length]
        /\ c.length = d.length + 1 /\ c.height = d.height + 1
    BY <2>4 DEF CalcNode
  <2>7. View(c) = s.node BY <2>1, <2>3, <2>6 DEF View
  <2>8. s.facts \subseteq st \cup d.bottom.facts
    BY <1>7, <2>1, <2>2 DEF Computes, SubtreeOK
  <2>9. c = CalcNode(c.bottom, c.path, c.length, c.height) BY <2>4, <2>6
  <2> HIDE DEF s, c
  <2>10. Computes(c, s, st) BY <2>2, <2>6, <2>7, <2>8, <2>9 DEF Computes, Shows
  <2> QED BY <2>2, <2>5, <2>10 DEF s, c
<1>8. CASE ~is_empty(l.node) /\ is_empty(r.node)
  <2> DEFINE d == decommit(a)
  <2>1. /\ s.node = VirtualNode(l.node.bottom, l.node.path, l.node.length + 1, h + 1)
        /\ s.facts = l.facts \cup r.facts
    BY <1>4, <1>8 DEF ReferenceNode, Subtree
  <2>2. Computes(d, l, st) /\ View(d) = l.node /\ DecommitReads(a) \subseteq st
    BY <1>1, <1>8, DecommitTriple
  <2>3. /\ d.bottom.hash = l.node.bottom /\ d.path = l.node.path
        /\ d.length = l.node.length /\ d.height = h /\ l.node.path \in Nat
    BY <1>3, <1>4, <2>2, ViewFields DEF NodeOK, Positions
  <2>4. c = CalcNode(d.bottom, d.path + 0, d.length + 1, d.height + 1)
    BY <1>2, <1>8 DEF combine, combine_to_virtual_edge_node
  <2>5. CombineReads(a, b) = DecommitReads(a) BY <1>2, <1>8 DEF CombineReads
  <2> HIDE DEF d
  <2>6. /\ c.bottom = d.bottom /\ c.path = d.path
        /\ c.length = d.length + 1 /\ c.height = d.height + 1
    BY <2>3, <2>4 DEF CalcNode
  <2>7. View(c) = s.node BY <2>1, <2>3, <2>6 DEF View
  <2>8. s.facts \subseteq st \cup d.bottom.facts
    BY <1>8, <2>1, <2>2 DEF Computes, SubtreeOK
  <2>9. c = CalcNode(c.bottom, c.path, c.length, c.height) BY <2>3, <2>4, <2>6
  <2> HIDE DEF s, c
  <2>10. Computes(c, s, st) BY <2>2, <2>6, <2>7, <2>8, <2>9 DEF Computes, Shows
  <2> QED BY <2>2, <2>5, <2>10 DEF s, c
<1> QED BY <1>5, <1>6, <1>7, <1>8

\* An unchanged node and a new leaf compute what they are.
LEMMA CreateFromNodeComputes ==
  ASSUME NEW h \in Nat, NEW s, SubtreeOK(s, h), NEW n, NEW st, StandsFor(n, s, st)
  PROVE  Computes(create_from_node(n), s, st)
<1> DEFINE c == create_from_node(n)
<1>1. Shows(n, s.node) /\ s.facts \subseteq st /\ n.bottom \in st BY DEF StandsFor
<1>2. n = VirtualNode(n.bottom, n.path, n.length, n.height)
  BY <1>1 DEF Shows, SubtreeOK, NodeOK, from_hash, VirtualNode
<1>3. /\ c.bottom = Constant(n.bottom) /\ c.path = n.path /\ c.length = n.length
      /\ c.height = n.height /\ c = CalcNode(c.bottom, c.path, c.length, c.height)
  BY DEF create_from_node, CalcNode
<1>4. /\ c.bottom.calc = "constant" /\ c.bottom.hash = n.bottom /\ c.bottom.facts = {}
  BY <1>3 DEF Constant
<1>5. View(c) = n BY <1>2, <1>3, <1>4 DEF View
<1> HIDE DEF c
<1>6. Computes(c, s, st) BY <1>1, <1>3, <1>4, <1>5 DEF Computes
<1> QED BY <1>6 DEF c

LEMMA CreateFromFactComputes ==
  ASSUME NEW v \in Value, NEW st
  PROVE  Computes(create_from_fact(v), ReferenceLeaf(v), st)
<1> DEFINE c == create_from_fact(v)
           s == ReferenceLeaf(v)
<1>1. SubtreeOK(s, 0) BY ReferenceLeafOK
<1>2. s.node = from_hash(LeafFact(v), 0) /\ s.facts = {LeafFact(v)}
  BY DEF ReferenceLeaf, Subtree
<1>3. /\ c.bottom = LeafCalculation(v) /\ c.path = 0 /\ c.length = 0 /\ c.height = 0
      /\ c = CalcNode(c.bottom, c.path, c.length, c.height)
  BY DEF create_from_fact, CalcNode
<1>4. /\ c.bottom.calc = "leaf" /\ c.bottom.hash = LeafFact(v)
      /\ c.bottom.facts = {LeafFact(v)}
  BY <1>3 DEF LeafCalculation
<1>5. View(c) = s.node BY <1>2, <1>3, <1>4 DEF View, from_hash
<1>6. LeafFact(v).kind # "edge" BY DEF LeafFact, EMPTY_NODE_HASH
<1>7. WellFormedFact(LeafFact(v)) BY <1>1, <1>2 DEF SubtreeOK
<1> HIDE DEF c, s
<1>8. Computes(c, s, st) BY <1>2, <1>3, <1>4, <1>5, <1>6, <1>7 DEF Computes, Shows
<1> QED BY <1>8 DEF c, s

-----------------------------------------------------------------------------
(* The indices of nodes: the root is 1, the children of i are 2i, 2i + 1.  *)

LEMMA AtParent ==
  ASSUME NEW i, NEW h, At(i, h), h # Height
  PROVE  /\ At(i \div 2, h + 1) /\ h + 1 \in 0 .. Height /\ h \in Nat
         /\ \/ i = 2 * (i \div 2) /\ Sibling(i) = 2 * (i \div 2) + 1
            \/ i = 2 * (i \div 2) + 1 /\ Sibling(i) = 2 * (i \div 2)
<1> USE NodesAssumption
<1>1. /\ h \in 0 .. Height /\ i \in Nat /\ Height - h \in Nat
      /\ Pow2[Height - h] \in Nat /\ Pow2[Height - h] <= i /\ i < 2 * Pow2[Height - h]
  BY AtRange
<1>2. h + 1 \in 0 .. Height /\ Height - h = (Height - (h + 1)) + 1
      /\ Height - (h + 1) \in Nat
  BY <1>1
<1>3. Pow2[Height - h] = 2 * Pow2[Height - (h + 1)] /\ Pow2[Height - (h + 1)] \in Nat
  BY <1>2, Pow2Def, Pow2Type
<1>4. PICK k \in Nat : k = i \div 2 BY <1>1
<1>5. i = 2 * k \/ i = 2 * k + 1 BY <1>1, <1>4
<1>6. At(k, h + 1) BY <1>1, <1>2, <1>3, <1>5, AtIntro
<1>7. CASE i = 2 * k
  <2>1. i % 2 = 0 BY <1>7
  <2> QED BY <1>1, <1>2, <1>4, <1>6, <1>7, <2>1 DEF Sibling
<1>8. CASE i = 2 * k + 1
  <2>1. i % 2 = 1 BY <1>8
  <2> QED BY <1>1, <1>2, <1>4, <1>6, <1>8, <2>1 DEF Sibling
<1> QED BY <1>5, <1>7, <1>8

\* The root has no sibling.
LEMMA RootHasNoSibling == Sibling(1) = 0 /\ \A h : ~ At(0, h)
<1>1. Sibling(1) = 0 BY DEF Sibling
<1>2. \A h : ~ At(0, h) BY AtRange
<1> QED BY <1>1, <1>2

LEMMA SiblingAgain ==
  ASSUME NEW i \in Nat
  PROVE  Sibling(Sibling(i)) = i /\ Sibling(i) # i
<1>1. PICK k \in Nat : k = i \div 2 OBVIOUS
<1>2. CASE i % 2 = 0
  <2>1. Sibling(i) = i + 1 /\ (i + 1) % 2 = 1 BY <1>2 DEF Sibling
  <2> QED BY <2>1 DEF Sibling
<1>3. CASE i % 2 # 0
  <2>1. Sibling(i) = i - 1 /\ (i - 1) % 2 = 0 BY <1>3 DEF Sibling
  <2> QED BY <2>1 DEF Sibling
<1> QED BY <1>2, <1>3

-----------------------------------------------------------------------------
(* The entries of the queue and of updated_nodes.                          *)

\* q is a node of the tree below n0, with its part of the update.
Entry(q, n0, mods) ==
    LET h == q.tree.height
        p == Pos(q.index, h)
    IN /\ At(q.index, h)
       /\ q.tree = NodeLayers(n0)[Height - h][p]
       /\ q.update = UpdateOf(UpdateLayers(mods)[h], p)

\* The calculation c at index i computes the node of the tree at i.
NodeEntry(i, c, tree, st) ==
    /\ At(i, c.height)
    /\ Computes(c, Ref(tree, c.height, Pos(i, c.height)), st)

LEMMA EntryStandsFor ==
  ASSUME NEW n0, NEW tree, NEW st, ReadsTree(n0, tree, st), NEW mods, NEW q,
         Entry(q, n0, mods)
  PROVE  LET h == q.tree.height
             p == Pos(q.index, h)
         IN /\ h \in 0 .. Height /\ p \in Positions(Height - h)
            /\ SubtreeOK(Ref(tree, h, p), h)
            /\ StandsFor(q.tree, Ref(tree, h, p), st)
            /\ ChildrenReads(q.tree) \subseteq st
<1> USE NodesAssumption
<1> DEFINE h == q.tree.height
           p == Pos(q.index, h)
<1>1. At(q.index, h) /\ q.tree = NodeLayers(n0)[Height - h][p] BY DEF Entry
<1>2. h \in 0 .. Height /\ p \in Positions(Height - h) BY <1>1 DEF At
<1>3. Height - h \in 0 .. Height /\ Height - (Height - h) = h BY <1>2
<1>4. StandsFor(q.tree, Ref(tree, h, p), st) BY <1>1, <1>2, <1>3, LayersStandFor
<1>5. SubtreeOK(Ref(tree, h, p), h) BY <1>2, RefOK DEF ReadsTree
<1>6. ChildrenReads(q.tree) \subseteq st BY <1>2, <1>4, <1>5, StandsForHeight
<1> QED BY <1>2, <1>4, <1>5, <1>6

\* A node with modified leaves below is replaced by its two children.
LEMMA EntryChildren ==
  ASSUME NEW n0, NEW tree, NEW st, ReadsTree(n0, tree, st), NEW mods, NEW q,
         Entry(q, n0, mods), q.update.update = "tuple"
  PROVE  \E a, b :
            /\ Children(q) = <<a, b>>
            /\ Entry(a, n0, mods) /\ Entry(b, n0, mods)
            /\ a.index = 2 * q.index /\ b.index = 2 * q.index + 1
            /\ a.tree.height \in Nat /\ b.tree.height = a.tree.height
            /\ q.tree.height = a.tree.height + 1
            /\ At(q.index, q.tree.height)
<1> USE NodesAssumption
<1> DEFINE g == q.tree.height
           p == Pos(q.index, g)
           u == UpdateLayers(mods)
<1>1. /\ At(q.index, g) /\ q.tree = NodeLayers(n0)[Height - g][p]
      /\ q.update = UpdateOf(u[g], p)
  BY DEF Entry
<1>2. g \in 0 .. Height /\ p \in Positions(Height - g) BY <1>1 DEF At
<1>3. g # 0
  <2> SUFFICES ASSUME g = 0 PROVE FALSE OBVIOUS
  <2>1. q.update = UpdateOf(u[0], p) BY <1>1
  <2>2. q.update = [update |-> "leaf", fact |-> mods[p]] \/ q.update = NoUpdate
    BY <2>1, UpdateOfLeaf
  <2> QED BY <2>2 DEF NoUpdate
<1>4. PICK h \in Nat : g = h + 1
  <2>1. g - 1 \in Nat /\ g = (g - 1) + 1 BY <1>2, <1>3
  <2> QED BY <2>1
<1>5. /\ h \in 0 .. Height /\ h < Height
      /\ Height - h = (Height - g) + 1 /\ Height - g \in Nat
  BY <1>2, <1>4
<1>6. p \in DOMAIN u[g]
  <2> SUFFICES ASSUME p \notin DOMAIN u[g] PROVE FALSE OBVIOUS
  <2>1. q.update = NoUpdate BY <1>1, <1>4, UpdateOfInner
  <2> QED BY <2>1 DEF NoUpdate
<1>7. q.update = [update |-> "tuple", left |-> UpdateOf(u[h], 2 * p),
                  right |-> UpdateOf(u[h], 2 * p + 1)]
  BY <1>1, <1>4, <1>6, UpdateOfInner
<1>8. q.update.left = UpdateOf(u[h], 2 * p) /\ q.update.right = UpdateOf(u[h], 2 * p + 1)
  BY <1>7
<1>9. /\ At(2 * q.index, h) /\ Pos(2 * q.index, h) = 2 * p
      /\ At(2 * q.index + 1, h) /\ Pos(2 * q.index + 1, h) = 2 * p + 1
  BY <1>1, <1>4, AtChildren
<1>10. p \in Nat BY <1>2, <1>5, Pow2Type DEF Positions
<1>11. 2 * p \in Positions(Height - h) /\ 2 * p + 1 \in Positions(Height - h)
  BY <1>2, <1>5, ChildPositions
<1> DEFINE x == get_children(q.tree)[1]
           y == get_children(q.tree)[2]
<1>12. x = NodeLayers(n0)[Height - h][2 * p]
  <2>1. (2 * p) \div 2 = p /\ ((2 * p) % 2) + 1 = 1 BY <1>10
  <2>2. NodeLayers(n0)[Height - h][2 * p] =
          get_children(NodeLayers(n0)[Height - g][(2 * p) \div 2])[((2 * p) % 2) + 1]
    BY <1>5, <1>11, NodeLayersAt
  <2> QED BY <1>1, <2>1, <2>2
<1>13. y = NodeLayers(n0)[Height - h][2 * p + 1]
  <2>1. (2 * p + 1) \div 2 = p /\ ((2 * p + 1) % 2) + 1 = 2 BY <1>10
  <2>2. NodeLayers(n0)[Height - h][2 * p + 1] =
          get_children(NodeLayers(n0)[Height - g][(2 * p + 1) \div 2])[((2 * p + 1) % 2) + 1]
    BY <1>5, <1>11, NodeLayersAt
  <2> QED BY <1>1, <2>1, <2>2
<1>14. x.height = h /\ y.height = h
  <2>1. SubtreeOK(Ref(tree, h, 2 * p), h) /\ SubtreeOK(Ref(tree, h, 2 * p + 1), h)
    BY <1>5, <1>11, RefOK DEF ReadsTree
  <2>2. Height - h \in 0 .. Height /\ Height - (Height - h) = h BY <1>5
  <2>3. StandsFor(x, Ref(tree, h, 2 * p), st) /\ StandsFor(y, Ref(tree, h, 2 * p + 1), st)
    BY <1>11, <1>12, <1>13, <2>2, LayersStandFor
  <2> HIDE DEF x, y
  <2> QED BY <2>1, <2>3, StandsForHeight
<1> DEFINE a == [index |-> 2 * q.index, tree |-> x, update |-> q.update.left]
           b == [index |-> 2 * q.index + 1, tree |-> y, update |-> q.update.right]
<1>15. Children(q) = <<a, b>> BY DEF Children
<1> HIDE DEF x, y
<1>16. /\ a.index = 2 * q.index /\ a.tree = x /\ a.update = q.update.left
       /\ b.index = 2 * q.index + 1 /\ b.tree = y /\ b.update = q.update.right
  OBVIOUS
<1> HIDE DEF a, b
<1>17. Entry(a, n0, mods) BY <1>8, <1>9, <1>12, <1>14, <1>16 DEF Entry
<1>18. Entry(b, n0, mods) BY <1>8, <1>9, <1>13, <1>14, <1>16 DEF Entry
<1> QED BY <1>1, <1>4, <1>14, <1>15, <1>16, <1>17, <1>18

\* Any other node is settled: unchanged, or a modified leaf.
LEMMA EntrySettles ==
  ASSUME NEW n0, NEW tree, NEW st, ReadsTree(n0, tree, st), NEW mods, IsMods(mods),
         NEW q, Entry(q, n0, mods), q.update.update # "tuple", NEW node,
         node = IF q.update = NoUpdate THEN create_from_node(q.tree)
                ELSE create_from_fact(q.update.fact)
  PROVE  /\ NodeEntry(q.index, node, Unify(tree, mods), st)
         /\ node.height = q.tree.height
<1> USE NodesAssumption
<1> DEFINE h == q.tree.height
           p == Pos(q.index, h)
           u == UpdateLayers(mods)
           new == Unify(tree, mods)
<1>1. /\ At(q.index, h) /\ q.tree = NodeLayers(n0)[Height - h][p]
      /\ q.update = UpdateOf(u[h], p)
  BY DEF Entry
<1>2. /\ h \in 0 .. Height /\ p \in Positions(Height - h)
      /\ SubtreeOK(Ref(tree, h, p), h)
      /\ StandsFor(q.tree, Ref(tree, h, p), st)
  BY EntryStandsFor
<1>3. tree \in Tree BY DEF ReadsTree
<1>4. CASE p \notin DOMAIN u[h]
  <2>1. q.update = NoUpdate BY <1>1, <1>4 DEF UpdateOf
  <2>2. Ref(new, h, p) = Ref(tree, h, p) BY <1>2, <1>3, <1>4, Untouched
  <2>3. node = create_from_node(q.tree) BY <2>1
  <2>4. Computes(node, Ref(tree, h, p), st) BY <1>2, <2>3, CreateFromNodeComputes
  <2>5. node.height = h BY <2>3 DEF create_from_node, CalcNode
  <2> QED BY <1>1, <2>2, <2>4, <2>5 DEF NodeEntry
<1>5. CASE p \in DOMAIN u[h] /\ h = 0
  <2>1. DOMAIN u[0] = DOMAIN mods BY UpdateLayersDef
  <2>2. p \in DOMAIN mods BY <1>5, <2>1
  <2>3. q.update = [update |-> "leaf", fact |-> mods[p]] BY <1>1, <1>5, <2>2, UpdateOfLeaf
  <2>4. q.update # NoUpdate /\ q.update.fact = mods[p] BY <2>3 DEF NoUpdate
  <2>5. node = create_from_fact(mods[p]) BY <2>4
  <2>6. mods[p] \in Value /\ p \in Index BY <2>2 DEF IsMods
  <2>7. new[p] = mods[p] BY <1>3, <2>2, <2>6, UnifyType
  <2>8. Ref(new, 0, p) = ReferenceLeaf(mods[p]) BY <2>6, <2>7, RefDef
  <2>9. Computes(node, ReferenceLeaf(mods[p]), st) BY <2>5, <2>6, CreateFromFactComputes
  <2>10. node.height = 0 BY <2>5 DEF create_from_fact, CalcNode
  <2> QED BY <1>1, <1>5, <2>8, <2>9, <2>10 DEF NodeEntry
<1>6. CASE p \in DOMAIN u[h] /\ h # 0
  <2>1. PICK k \in Nat : h = k + 1
    <3>1. h - 1 \in Nat /\ h = (h - 1) + 1 BY <1>2, <1>6
    <3> QED BY <3>1
  <2>2. q.update = [update |-> "tuple", left |-> UpdateOf(u[k], 2 * p),
                    right |-> UpdateOf(u[k], 2 * p + 1)]
    BY <1>1, <1>6, <2>1, UpdateOfInner
  <2> QED BY <2>2
<1> QED BY <1>4, <1>5, <1>6

\* What is computed from some facts is computed from more of them.
LEMMA NodeEntryMore ==
  ASSUME NEW i, NEW c, NEW tree, NEW st, NEW more, st \subseteq more,
         NodeEntry(i, c, tree, st)
  PROVE  NodeEntry(i, c, tree, more)
BY DEF NodeEntry, Computes

-----------------------------------------------------------------------------
(* The queue and updated_nodes split the tree.                             *)

LEMMA UnderBlock ==
  ASSUME NEW i, NEW h, At(i, h)
  PROVE  /\ Under(i, h) = Block(Pos(i, h), h)
         /\ Under(i, h) \subseteq Index /\ Under(i, h) # {}
         /\ Pos(i, h) \in Nat /\ h \in 0 .. Height
<1>1. Under(i, h) = Block(Pos(i, h), h) BY DEF Under, Pos, Block
<1>2. h \in 0 .. Height /\ Pos(i, h) \in Positions(Height - h) BY DEF At
<1>3. PICK p \in Positions(Height - h) : p = Pos(i, h) BY <1>2
<1>4. p \in Nat /\ p * Pow2[h] \in Block(p, h) /\ Block(p, h) \subseteq Index
  BY <1>2, BlockInIndex
<1> QED BY <1>1, <1>2, <1>3, <1>4

LEMMA RootHasAllLeaves == Under(1, Height) = Index
<1>1. At(1, Height) /\ Pos(1, Height) = 0 BY AtRoot
<1>2. Under(1, Height) = Block(0, Height) BY <1>1, UnderBlock
<1>3. Pow2[Height] \in Nat BY Pow2Type, NodesAssumption
<1>4. 0 * Pow2[Height] = 0 /\ (0 + 1) * Pow2[Height] = Pow2[Height] BY <1>3
<1> QED BY <1>2, <1>4 DEF Block, Index, Positions

\* The leaves of a node are those of its children.
LEMMA UnderSplit ==
  ASSUME NEW i, NEW h \in Nat, At(i, h + 1), NEW leaf \in Index
  PROVE  /\ leaf \in Under(i, h + 1)
            <=> leaf \in Under(2 * i, h) \/ leaf \in Under(2 * i + 1, h)
         /\ ~ (leaf \in Under(2 * i, h) /\ leaf \in Under(2 * i + 1, h))
         /\ At(2 * i, h) /\ At(2 * i + 1, h)
<1>1. /\ At(2 * i, h) /\ Pos(2 * i, h) = 2 * Pos(i, h + 1)
      /\ At(2 * i + 1, h) /\ Pos(2 * i + 1, h) = 2 * Pos(i, h + 1) + 1
  BY AtChildren
<1>2. Pos(i, h + 1) \in Nat /\ Under(i, h + 1) = Block(Pos(i, h + 1), h + 1)
  BY UnderBlock
<1>3. /\ Under(2 * i, h) = Block(Pos(2 * i, h), h)
      /\ Under(2 * i + 1, h) = Block(Pos(2 * i + 1, h), h)
  BY <1>1, UnderBlock
<1>4. leaf \in Int BY DEF Index, Positions
<1>5. PICK p \in Nat : p = Pos(i, h + 1) BY <1>2
<1>6. /\ leaf \in Block(p, h + 1) <=> leaf \in Block(2 * p, h) \cup Block(2 * p + 1, h)
      /\ ~ (leaf \in Block(2 * p, h) /\ leaf \in Block(2 * p + 1, h))
  BY <1>4, BlockSplit
<1> QED BY <1>1, <1>2, <1>3, <1>5, <1>6

\* The node at k of the queue Q, and at i of the nodes N, has the leaf.
QueueHas(Q, k, leaf) ==
    k \in DOMAIN Q /\ leaf \in Under(Q[k].index, Q[k].tree.height)
NodesHave(N, i, leaf) == i \in DOMAIN N /\ leaf \in Under(i, N[i].height)

\* Exactly one of them has the leaf.
OneOwner(Q, N, leaf) ==
    /\ (\E k : QueueHas(Q, k, leaf)) \/ (\E i : NodesHave(N, i, leaf))
    /\ \A j, k : QueueHas(Q, j, leaf) /\ QueueHas(Q, k, leaf) => j = k
    /\ \A i, j : NodesHave(N, i, leaf) /\ NodesHave(N, j, leaf) => i = j
    /\ \A k, i : ~ (QueueHas(Q, k, leaf) /\ NodesHave(N, i, leaf))

\* The queue after its head was replaced by its children, or was settled.
LEMMA OwnerAfterSplit ==
  ASSUME NEW X, NEW Q \in Seq(X), Q # <<>>, NEW N, NEW leaf, OneOwner(Q, N, leaf),
         NEW a \in X, NEW b \in X,
         /\ leaf \in Under(Q[1].index, Q[1].tree.height)
            <=> leaf \in Under(a.index, a.tree.height)
                \/ leaf \in Under(b.index, b.tree.height)
         /\ ~ (leaf \in Under(a.index, a.tree.height)
               /\ leaf \in Under(b.index, b.tree.height))
  PROVE  OneOwner(Tail(Q) \o <<a, b>>, N, leaf)
<1> DEFINE R == Tail(Q) \o <<a, b>>
           m == Len(Q)
           inA == leaf \in Under(a.index, a.tree.height)
           inB == leaf \in Under(b.index, b.tree.height)
<1>1. /\ m \in Nat \ {0} /\ DOMAIN Q = 1 .. m /\ DOMAIN R = 1 .. (m + 1)
      /\ \A k \in 1 .. (m - 1) : R[k] = Q[k + 1]
      /\ R[m] = a /\ R[m + 1] = b
  OBVIOUS
<1> HIDE DEF R, m
<1>2. ASSUME NEW k
      PROVE  QueueHas(R, k, leaf) <=> \/ k \in 1 .. (m - 1) /\ QueueHas(Q, k + 1, leaf)
                                      \/ k = m /\ inA
                                      \/ k = m + 1 /\ inB
  <2> DEFINE W(i, h) == leaf \in Under(i, h)
  <2>1. /\ QueueHas(R, k, leaf) <=> k \in DOMAIN R /\ W(R[k].index, R[k].tree.height)
        /\ QueueHas(Q, k + 1, leaf) <=>
              k + 1 \in DOMAIN Q /\ W(Q[k + 1].index, Q[k + 1].tree.height)
        /\ inA <=> W(a.index, a.tree.height)
        /\ inB <=> W(b.index, b.tree.height)
    BY DEF QueueHas
  <2> HIDE DEF W, inA, inB
  <2>2. CASE k \notin 1 .. (m + 1) BY <1>1, <2>1, <2>2
  <2>3. CASE k \in 1 .. (m - 1)
    <3>1. R[k] = Q[k + 1] /\ k + 1 \in DOMAIN Q /\ k \in DOMAIN R /\ k # m /\ k # m + 1
      BY <1>1, <2>3
    <3> QED BY <2>1, <2>3, <3>1
  <2>4. CASE k = m
    <3>1. R[k] = a /\ k \in DOMAIN R /\ k \notin 1 .. (m - 1) /\ k # m + 1
      BY <1>1, <2>4
    <3> QED BY <2>1, <2>4, <3>1
  <2>5. CASE k = m + 1
    <3>1. R[k] = b /\ k \in DOMAIN R /\ k \notin 1 .. (m - 1) /\ k # m
      BY <1>1, <2>5
    <3> QED BY <2>1, <2>5, <3>1
  <2> QED BY <1>1, <2>2, <2>3, <2>4, <2>5
<1>3. QueueHas(Q, 1, leaf) <=> inA \/ inB BY <1>1 DEF QueueHas
<1>4. ~ (inA /\ inB) OBVIOUS
<1>5. \A k : QueueHas(Q, k, leaf) => k = 1 \/ (k - 1 \in 1 .. (m - 1) /\ (k - 1) + 1 = k)
  BY <1>1 DEF QueueHas
<1>6. /\ (\E k : QueueHas(Q, k, leaf)) \/ (\E i : NodesHave(N, i, leaf))
      /\ \A j, k : QueueHas(Q, j, leaf) /\ QueueHas(Q, k, leaf) => j = k
      /\ \A i, j : NodesHave(N, i, leaf) /\ NodesHave(N, j, leaf) => i = j
      /\ \A k, i : ~ (QueueHas(Q, k, leaf) /\ NodesHave(N, i, leaf))
  BY DEF OneOwner
<1> HIDE DEF inA, inB
<1>7. (\E k : QueueHas(R, k, leaf)) \/ (\E i : NodesHave(N, i, leaf))
  <2>1. CASE \E i : NodesHave(N, i, leaf) BY <2>1
  <2>2. CASE \E k : QueueHas(Q, k, leaf)
    <3>1. PICK k : QueueHas(Q, k, leaf) BY <2>2
    <3>2. CASE k = 1 BY <1>2, <1>3, <3>1, <3>2
    <3>3. CASE k # 1 BY <1>2, <1>5, <3>1, <3>3
    <3> QED BY <3>2, <3>3
  <2> QED BY <1>6, <2>1, <2>2
<1>8. ASSUME NEW j, NEW k, QueueHas(R, j, leaf), QueueHas(R, k, leaf) PROVE j = k
  <2>1. CASE j \in 1 .. (m - 1) /\ k \in 1 .. (m - 1)
    <3>1. QueueHas(Q, j + 1, leaf) /\ QueueHas(Q, k + 1, leaf) BY <1>1, <1>2, <1>8, <2>1
    <3>2. j + 1 = k + 1 BY <1>6, <3>1
    <3> QED BY <2>1, <3>2
  <2>2. ASSUME NEW x \in 1 .. (m - 1), QueueHas(R, x, leaf) PROVE ~inA /\ ~inB
    <3>1. QueueHas(Q, x + 1, leaf) /\ x + 1 # 1 BY <1>1, <1>2, <2>2
    <3> QED BY <1>3, <1>6, <3>1
  <2> QED BY <1>2, <1>4, <1>8, <2>1, <2>2
<1>9. ASSUME NEW k, NEW i, QueueHas(R, k, leaf), NodesHave(N, i, leaf) PROVE FALSE
  BY <1>2, <1>3, <1>6, <1>9
<1>10. OneOwner(R, N, leaf) BY <1>6, <1>7, <1>8, <1>9 DEF OneOwner
<1> QED BY <1>10 DEF R

LEMMA OwnerAfterSettle ==
  ASSUME NEW X, NEW Q \in Seq(X), Q # <<>>, NEW N, NEW leaf, OneOwner(Q, N, leaf),
         NEW node, node.height = Q[1].tree.height, Q[1].index \notin DOMAIN N
  PROVE  OneOwner(Tail(Q), [i \in DOMAIN N \cup {Q[1].index} |->
                               IF i = Q[1].index THEN node ELSE N[i]], leaf)
<1> DEFINE R == Tail(Q)
           m == Len(Q)
           x == Q[1].index
           M == [i \in DOMAIN N \cup {x} |-> IF i = x THEN node ELSE N[i]]
<1>1. /\ m \in Nat \ {0} /\ DOMAIN Q = 1 .. m /\ DOMAIN R = 1 .. (m - 1)
      /\ \A k \in 1 .. (m - 1) : R[k] = Q[k + 1]
  OBVIOUS
<1>2. /\ DOMAIN M = DOMAIN N \cup {x} /\ M[x] = node
      /\ \A i \in DOMAIN N : M[i] = N[i]
  OBVIOUS
<1> HIDE DEF R, m, M
<1>3. ASSUME NEW k
      PROVE  QueueHas(R, k, leaf) <=> k \in 1 .. (m - 1) /\ QueueHas(Q, k + 1, leaf)
  <2> DEFINE W(i, h) == leaf \in Under(i, h)
  <2>1. /\ QueueHas(R, k, leaf) <=> k \in DOMAIN R /\ W(R[k].index, R[k].tree.height)
        /\ QueueHas(Q, k + 1, leaf) <=>
              k + 1 \in DOMAIN Q /\ W(Q[k + 1].index, Q[k + 1].tree.height)
    BY DEF QueueHas
  <2> HIDE DEF W
  <2>2. CASE k \notin 1 .. (m - 1) BY <1>1, <2>1, <2>2
  <2>3. CASE k \in 1 .. (m - 1)
    <3>1. R[k] = Q[k + 1] /\ k + 1 \in DOMAIN Q /\ k \in DOMAIN R BY <1>1, <2>3
    <3> QED BY <2>1, <2>3, <3>1
  <2> QED BY <2>2, <2>3
<1>4. ASSUME NEW i
      PROVE  NodesHave(M, i, leaf) <=> \/ NodesHave(N, i, leaf)
                                       \/ i = x /\ QueueHas(Q, 1, leaf)
  <2>1. QueueHas(Q, 1, leaf) <=> leaf \in Under(x, Q[1].tree.height)
    BY <1>1 DEF QueueHas
  <2> HIDE DEF x
  <2> QED BY <1>2, <2>1 DEF NodesHave, x
<1>5. \A k : QueueHas(Q, k, leaf) => k = 1 \/ (k - 1 \in 1 .. (m - 1) /\ (k - 1) + 1 = k)
  BY <1>1 DEF QueueHas
<1>6. /\ (\E k : QueueHas(Q, k, leaf)) \/ (\E i : NodesHave(N, i, leaf))
      /\ \A j, k : QueueHas(Q, j, leaf) /\ QueueHas(Q, k, leaf) => j = k
      /\ \A i, j : NodesHave(N, i, leaf) /\ NodesHave(N, j, leaf) => i = j
      /\ \A k, i : ~ (QueueHas(Q, k, leaf) /\ NodesHave(N, i, leaf))
  BY DEF OneOwner
<1> HIDE DEF x
<1>7. (\E k : QueueHas(R, k, leaf)) \/ (\E i : NodesHave(M, i, leaf))
  <2>1. CASE \E i : NodesHave(N, i, leaf) BY <1>4, <2>1
  <2>2. CASE \E k : QueueHas(Q, k, leaf)
    <3>1. PICK k : QueueHas(Q, k, leaf) BY <2>2
    <3>2. CASE k = 1 BY <1>4, <3>1, <3>2
    <3>3. CASE k # 1 BY <1>3, <1>5, <3>1, <3>3
    <3> QED BY <3>2, <3>3
  <2> QED BY <1>6, <2>1, <2>2
<1>8. ASSUME NEW j, NEW k, QueueHas(R, j, leaf), QueueHas(R, k, leaf) PROVE j = k
  <2>1. /\ j \in 1 .. (m - 1) /\ k \in 1 .. (m - 1)
        /\ QueueHas(Q, j + 1, leaf) /\ QueueHas(Q, k + 1, leaf)
    BY <1>3, <1>8
  <2>2. j + 1 = k + 1 BY <1>6, <2>1
  <2> QED BY <2>1, <2>2
<1>9. ASSUME NEW i, NEW j, NodesHave(M, i, leaf), NodesHave(M, j, leaf) PROVE i = j
  BY <1>4, <1>6, <1>9
<1>10. ASSUME NEW k, NEW i, QueueHas(R, k, leaf), NodesHave(M, i, leaf) PROVE FALSE
  <2>1. k \in 1 .. (m - 1) /\ QueueHas(Q, k + 1, leaf) /\ k + 1 # 1 BY <1>1, <1>3, <1>10
  <2> QED BY <1>4, <1>6, <1>10, <2>1
<1>11. OneOwner(R, M, leaf) BY <1>7, <1>8, <1>9, <1>10 DEF OneOwner
<1> QED BY <1>11 DEF R, M, x

\* Two siblings are replaced by the node above them.
LEMMA OwnerAfterMerge ==
  ASSUME NEW Q, NEW N, NEW M, NEW leaf, OneOwner(Q, N, leaf), NEW p, NEW a, NEW b,
         a \in DOMAIN N, b \in DOMAIN N, p \notin DOMAIN N, a # b,
         DOMAIN M = (DOMAIN N \ {a, b}) \cup {p},
         \A i \in DOMAIN N \ {a, b} : M[i] = N[i],
         leaf \in Under(p, M[p].height)
            <=> leaf \in Under(a, N[a].height) \/ leaf \in Under(b, N[b].height)
  PROVE  OneOwner(Q, M, leaf)
<1>2. ASSUME NEW i
      PROVE  NodesHave(M, i, leaf) <=>
             \/ NodesHave(N, i, leaf) /\ i # a /\ i # b
             \/ i = p /\ (NodesHave(N, a, leaf) \/ NodesHave(N, b, leaf))
  BY DEF NodesHave
<1>3. /\ (\E k : QueueHas(Q, k, leaf)) \/ (\E i : NodesHave(N, i, leaf))
      /\ \A j, k : QueueHas(Q, j, leaf) /\ QueueHas(Q, k, leaf) => j = k
      /\ \A i, j : NodesHave(N, i, leaf) /\ NodesHave(N, j, leaf) => i = j
      /\ \A k, i : ~ (QueueHas(Q, k, leaf) /\ NodesHave(N, i, leaf))
  BY DEF OneOwner
<1>4. (\E k : QueueHas(Q, k, leaf)) \/ (\E i : NodesHave(M, i, leaf))
  <2>1. CASE \E i : NodesHave(N, i, leaf)
    <3>1. PICK i : NodesHave(N, i, leaf) BY <2>1
    <3>2. CASE i = a \/ i = b BY <1>2, <3>1, <3>2
    <3>3. CASE i # a /\ i # b BY <1>2, <3>1, <3>3
    <3> QED BY <3>2, <3>3
  <2> QED BY <1>3, <2>1
<1>5. ASSUME NEW i, NEW j, NodesHave(M, i, leaf), NodesHave(M, j, leaf) PROVE i = j
  BY <1>2, <1>3, <1>5
<1>6. ASSUME NEW k, NEW i, QueueHas(Q, k, leaf), NodesHave(M, i, leaf) PROVE FALSE
  BY <1>2, <1>3, <1>6
<1> QED BY <1>3, <1>4, <1>5, <1>6 DEF OneOwner

-----------------------------------------------------------------------------
(* update_necessary.                                                       *)

NodeEntries(N, tree, st) == \A i \in DOMAIN N : NodeEntry(i, N[i], tree, st)

\* The children l, r at height h of the node with index p, and what computes
\* them in N.
Pair(N, tree, st, p, h, l, r) ==
    /\ h \in Nat /\ h < Height /\ p \in Nat \ {0} /\ At(p, h + 1)
    /\ 2 * p \in DOMAIN N /\ 2 * p + 1 \in DOMAIN N
    /\ N[2 * p].height = h /\ N[2 * p + 1].height = h
    /\ l = Ref(tree, h, Pos(2 * p, h)) /\ r = Ref(tree, h, Pos(2 * p + 1, h))
    /\ SubtreeOK(l, h) /\ SubtreeOK(r, h)
    /\ Ref(tree, h + 1, Pos(p, h + 1)) = ReferenceNode(l, r)
    /\ Computes(N[2 * p], l, st) /\ Computes(N[2 * p + 1], r, st)

\* Two siblings in updated_nodes are the two children of one node.
LEMMA SiblingsPair ==
  ASSUME NEW tree \in Tree, NEW st, NEW N, NodeEntries(N, tree, st),
         NEW i \in DOMAIN N, Sibling(i) \in DOMAIN N
  PROVE  \E h, l, r :
            /\ Pair(N, tree, st, i \div 2, h, l, r)
            /\ i \in {2 * (i \div 2), 2 * (i \div 2) + 1}
            /\ N[i].height = h
<1> USE NodesAssumption
<1> DEFINE h == N[i].height
           p == i \div 2
           l == Ref(tree, h, Pos(2 * p, h))
           r == Ref(tree, h, Pos(2 * p + 1, h))
<1>1. At(i, h) /\ At(Sibling(i), N[Sibling(i)].height) BY DEF NodeEntries, NodeEntry
<1>2. h # Height
  <2> SUFFICES ASSUME h = Height PROVE FALSE OBVIOUS
  <2>1. i = 1 BY <1>1, AtRoot
  <2> QED BY <1>1, <2>1, RootHasNoSibling
<1>3. /\ At(p, h + 1) /\ h + 1 \in 0 .. Height /\ h \in Nat
      /\ \/ i = 2 * p /\ Sibling(i) = 2 * p + 1
         \/ i = 2 * p + 1 /\ Sibling(i) = 2 * p
  BY <1>1, <1>2, AtParent
<1>4. p \in Nat \ {0} BY <1>3, AtRange
<1>5. /\ At(2 * p, h) /\ Pos(2 * p, h) = 2 * Pos(p, h + 1)
      /\ At(2 * p + 1, h) /\ Pos(2 * p + 1, h) = 2 * Pos(p, h + 1) + 1
  BY <1>3, AtChildren
<1>6. 2 * p \in DOMAIN N /\ 2 * p + 1 \in DOMAIN N BY <1>3
<1>7. /\ NodeEntry(2 * p, N[2 * p], tree, st)
      /\ NodeEntry(2 * p + 1, N[2 * p + 1], tree, st)
  BY <1>6 DEF NodeEntries
<1>8. N[2 * p].height = h /\ N[2 * p + 1].height = h
  <2>1. At(2 * p, N[2 * p].height) /\ At(2 * p + 1, N[2 * p + 1].height)
    BY <1>7 DEF NodeEntry
  <2> HIDE DEF p, h
  <2> QED BY <1>5, <2>1, AtUnique
<1>9. h \in 0 .. Height /\ h < Height BY <1>3
<1>10. SubtreeOK(l, h) /\ SubtreeOK(r, h)
  <2>1. /\ Pos(2 * p, h) \in Positions(Height - h)
        /\ Pos(2 * p + 1, h) \in Positions(Height - h)
    BY <1>5 DEF At
  <2> QED BY <1>9, <2>1, RefOK
<1>11. Ref(tree, h + 1, Pos(p, h + 1)) = ReferenceNode(l, r)
  <2>1. Pos(p, h + 1) \in Positions(Height - (h + 1)) BY <1>3 DEF At
  <2>2. Ref(tree, h + 1, Pos(p, h + 1)) =
          ReferenceNode(Ref(tree, h, 2 * Pos(p, h + 1)), Ref(tree, h, 2 * Pos(p, h + 1) + 1))
    BY <1>3, <2>1, RefDef
  <2> QED BY <1>5, <2>2
<1>12. Computes(N[2 * p], l, st) /\ Computes(N[2 * p + 1], r, st)
  BY <1>7, <1>8 DEF NodeEntry
<1> HIDE DEF p, l, r
<1>13. Pair(N, tree, st, p, h, l, r)
  BY <1>3, <1>4, <1>6, <1>8, <1>9, <1>10, <1>11, <1>12 DEF Pair, l, r
<1> QED BY <1>3, <1>13 DEF p

\* The state of update_necessary after k rounds.
MergeInv(s, k, Q, tree, st) ==
    /\ s.index \in DOMAIN s.nodes
    /\ NodeEntries(s.nodes, tree, st)
    /\ \A leaf \in Index : OneOwner(Q, s.nodes, leaf)
    /\ s.reads \subseteq st
    /\ \A i \in DOMAIN s.nodes :
          Sibling(i) \in DOMAIN s.nodes => i = s.index \/ Sibling(i) = s.index
    /\ Sibling(s.index) \in DOMAIN s.nodes => s.nodes[s.index].height >= k

\* No node but the leaf's owner has the leaf: the parent is not there yet.
LEMMA ParentIsNew ==
  ASSUME NEW tree, NEW st, NEW Q, NEW N, NEW p, NEW h, NEW l, NEW r,
         NodeEntries(N, tree, st), Pair(N, tree, st, p, h, l, r),
         \A leaf \in Index : OneOwner(Q, N, leaf)
  PROVE  p \notin DOMAIN N
<1> SUFFICES ASSUME p \in DOMAIN N PROVE FALSE OBVIOUS
<1>1. h \in Nat /\ p \in Nat \ {0} /\ At(p, h + 1) /\ 2 * p \in DOMAIN N /\ N[2 * p].height = h
  BY DEF Pair
<1>2. At(p, N[p].height) BY DEF NodeEntries, NodeEntry
<1>3. N[p].height = h + 1 BY <1>1, <1>2, AtUnique
<1>4. At(2 * p, h) BY <1>1, AtChildren
<1>5. PICK leaf \in Index : leaf \in Under(2 * p, h) BY <1>4, UnderBlock
<1>6. leaf \in Under(p, h + 1) BY <1>1, <1>5, UnderSplit
<1>7. NodesHave(N, 2 * p, leaf) /\ NodesHave(N, p, leaf)
  BY <1>1, <1>3, <1>5, <1>6 DEF NodesHave
<1>8. 2 * p = p BY <1>7 DEF OneOwner
<1> QED BY <1>1, <1>8

\* One round of update_necessary.
LEMMA MergeKeeps ==
  ASSUME NEW tree \in Tree, NEW st, EMPTY_NODE_HASH \in st, NEW k \in Nat, NEW Q, NEW s,
         MergeInv(s, k, Q, tree, st)
  PROVE  MergeInv(Merge(s), k + 1, Q, tree, st)
<1> DEFINE N == s.nodes
           i == s.index
<1>1. /\ i \in DOMAIN N /\ NodeEntries(N, tree, st) /\ s.reads \subseteq st
      /\ \A leaf \in Index : OneOwner(Q, N, leaf)
      /\ \A j \in DOMAIN N : Sibling(j) \in DOMAIN N => j = i \/ Sibling(j) = i
      /\ Sibling(i) \in DOMAIN N => N[i].height >= k
  BY DEF MergeInv
<1>2. CASE Sibling(i) \notin DOMAIN N
  <2>1. Merge(s) = s BY <1>2 DEF Merge
  <2> QED BY <1>1, <1>2, <2>1 DEF MergeInv
<1>3. CASE Sibling(i) \in DOMAIN N
  <2> DEFINE p == i \div 2
             c == combine(N[2 * p], N[2 * p + 1])
             M == [j \in (DOMAIN N \ {2 * p, 2 * p + 1}) \cup {p} |->
                     IF j = p THEN c ELSE N[j]]
  <2>1. Merge(s) = [index |-> p, nodes |-> M,
                    reads |-> s.reads \cup CombineReads(N[2 * p], N[2 * p + 1])]
    BY <1>3 DEF Merge
  <2>2. Merge(s).index = p /\ Merge(s).nodes = M
        /\ Merge(s).reads = s.reads \cup CombineReads(N[2 * p], N[2 * p + 1])
    BY <2>1
  <2> HIDE DEF N, i
  <2>3. PICK h, l, r : /\ Pair(N, tree, st, p, h, l, r)
                       /\ i \in {2 * p, 2 * p + 1} /\ N[i].height = h
    BY <1>1, <1>3, SiblingsPair
  <2> HIDE DEF p
  <2>4. /\ h \in Nat /\ h < Height /\ p \in Nat \ {0} /\ At(p, h + 1)
        /\ 2 * p \in DOMAIN N /\ 2 * p + 1 \in DOMAIN N
        /\ N[2 * p].height = h /\ N[2 * p + 1].height = h
        /\ SubtreeOK(l, h) /\ SubtreeOK(r, h)
        /\ Ref(tree, h + 1, Pos(p, h + 1)) = ReferenceNode(l, r)
        /\ Computes(N[2 * p], l, st) /\ Computes(N[2 * p + 1], r, st)
    BY <2>3 DEF Pair
  <2>5. Computes(c, ReferenceNode(l, r), st) /\ CombineReads(N[2 * p], N[2 * p + 1]) \subseteq st
    <3>1. PICK a, b : a = N[2 * p] /\ b = N[2 * p + 1] OBVIOUS
    <3>2. Computes(a, l, st) /\ Computes(b, r, st) BY <2>4, <3>1
    <3>3. Computes(combine(a, b), ReferenceNode(l, r), st) /\ CombineReads(a, b) \subseteq st
      BY <2>4, <3>2, CombineComputes
    <3> QED BY <3>1, <3>3
  <2>6. c.height = h + 1
    <3>1. h + 1 \in 0 .. Height BY <2>4, NodesAssumption
    <3>2. SubtreeOK(ReferenceNode(l, r), h + 1) BY <2>4, ReferenceNodeOK
    <3> HIDE DEF c
    <3> QED BY <2>5, <3>1, <3>2, CalcIsEmpty
  <2>7. NodeEntry(p, c, tree, st) BY <2>4, <2>5, <2>6 DEF NodeEntry
  <2>8. p \notin DOMAIN N BY <1>1, <2>3, ParentIsNew
  <2> HIDE DEF c
  <2>9. /\ DOMAIN M = (DOMAIN N \ {2 * p, 2 * p + 1}) \cup {p} /\ M[p] = c
        /\ \A j \in DOMAIN N \ {2 * p, 2 * p + 1} : M[j] = N[j]
    BY <2>8
  <2>10. \A leaf \in Index : OneOwner(Q, M, leaf)
    <3> SUFFICES ASSUME NEW leaf \in Index PROVE OneOwner(Q, M, leaf) OBVIOUS
    <3>1. leaf \in Under(p, c.height) <=>
             \/ leaf \in Under(2 * p, N[2 * p].height)
             \/ leaf \in Under(2 * p + 1, N[2 * p + 1].height)
      BY <2>4, <2>6, UnderSplit
    <3>2. 2 * p # 2 * p + 1 BY <2>4
    <3>3. OneOwner(Q, N, leaf) BY <1>1
    <3>4. PICK a, b : a = 2 * p /\ b = 2 * p + 1 OBVIOUS
    <3> HIDE DEF M
    <3>5. /\ a \in DOMAIN N /\ b \in DOMAIN N /\ a # b
          /\ DOMAIN M = (DOMAIN N \ {a, b}) \cup {p}
          /\ \A j \in DOMAIN N \ {a, b} : M[j] = N[j]
          /\ leaf \in Under(p, M[p].height) <=>
                leaf \in Under(a, N[a].height) \/ leaf \in Under(b, N[b].height)
      BY <2>4, <2>9, <3>1, <3>2, <3>4
    <3> QED BY <2>8, <3>3, <3>5, OwnerAfterMerge
  <2> HIDE DEF M
  <2>11. NodeEntries(M, tree, st) BY <1>1, <2>7, <2>9 DEF NodeEntries
  <2>12. \A j \in DOMAIN M : Sibling(j) \in DOMAIN M => j = p \/ Sibling(j) = p
    <3> SUFFICES ASSUME NEW j \in DOMAIN M, Sibling(j) \in DOMAIN M, j # p, Sibling(j) # p
                 PROVE  FALSE
      OBVIOUS
    <3>1. j \in DOMAIN N /\ Sibling(j) \in DOMAIN N /\ j \notin {2 * p, 2 * p + 1}
          /\ Sibling(j) \notin {2 * p, 2 * p + 1}
      BY <2>9
    <3> QED BY <1>1, <2>3, <3>1
  <2>13. M[p].height >= k + 1 BY <1>1, <1>3, <2>3, <2>4, <2>6, <2>9
  <2> QED BY <1>1, <2>2, <2>5, <2>9, <2>10, <2>11, <2>12, <2>13 DEF MergeInv
<1> QED BY <1>2, <1>3

NoSiblings(N) == \A i \in DOMAIN N : Sibling(i) \notin DOMAIN N

\* A settled node is added to updated_nodes, and what follows from it.
LEMMA MergesInv ==
  ASSUME NEW tree \in Tree, NEW st, EMPTY_NODE_HASH \in st, NEW Q, NEW i, NEW N,
         i \in DOMAIN N, NodeEntries(N, tree, st),
         \A leaf \in Index : OneOwner(Q, N, leaf),
         \A j \in DOMAIN N : Sibling(j) \in DOMAIN N => j = i \/ Sibling(j) = i
  PROVE  \A k \in Nat : MergeInv(Merges(i, N)[k], k, Q, tree, st)
<1> USE NodesAssumption
<1> DEFINE m(k) == Merges(i, N)[k]
           S == {k \in Nat : MergeInv(m(k), k, Q, tree, st)}
<1>1. 0 \in S
  <2>1. m(0) = [index |-> i, nodes |-> N, reads |-> {}] BY MergesDef
  <2>2. m(0).index = i /\ m(0).nodes = N /\ m(0).reads = {} BY <2>1
  <2>3. N[i].height >= 0
    <3>1. At(i, N[i].height) BY DEF NodeEntries, NodeEntry
    <3>2. N[i].height \in 0 .. Height BY <3>1, AtRange
    <3> QED BY <3>2
  <2> HIDE DEF m
  <2>4. MergeInv(m(0), 0, Q, tree, st) BY <2>2, <2>3 DEF MergeInv
  <2> QED BY <2>4
<1>2. ASSUME NEW k \in Nat, k \in S PROVE k + 1 \in S
  <2>1. m(k + 1) = Merge(m(k)) BY MergesDef
  <2>2. MergeInv(m(k), k, Q, tree, st) BY <1>2
  <2> HIDE DEF m
  <2>3. MergeInv(m(k + 1), k + 1, Q, tree, st) BY <2>1, <2>2, MergeKeeps
  <2> QED BY <2>3
<1>3. \A k \in Nat : k \in S
  <2> HIDE DEF S
  <2> QED BY <1>1, <1>2, NatSetInduction
<1> QED BY <1>3

LEMMA MergesKeep ==
  ASSUME NEW tree \in Tree, NEW st, EMPTY_NODE_HASH \in st, NEW Q, NEW i, NEW N,
         i \in DOMAIN N, NodeEntries(N, tree, st),
         \A leaf \in Index : OneOwner(Q, N, leaf),
         \A j \in DOMAIN N : Sibling(j) \in DOMAIN N => j = i \/ Sibling(j) = i
  PROVE  LET s == update_necessary(i, N)
         IN /\ NodeEntries(s.nodes, tree, st)
            /\ \A leaf \in Index : OneOwner(Q, s.nodes, leaf)
            /\ s.reads \subseteq st
            /\ NoSiblings(s.nodes)
<1> USE NodesAssumption
<1>1. PICK s : s = update_necessary(i, N) OBVIOUS
<1>2. MergeInv(s, Height, Q, tree, st) BY <1>1, MergesInv DEF update_necessary
<1>3. /\ s.index \in DOMAIN s.nodes /\ NodeEntries(s.nodes, tree, st)
      /\ \A j \in DOMAIN s.nodes :
            Sibling(j) \in DOMAIN s.nodes => j = s.index \/ Sibling(j) = s.index
      /\ Sibling(s.index) \in DOMAIN s.nodes => s.nodes[s.index].height >= Height
      /\ \A leaf \in Index : OneOwner(Q, s.nodes, leaf)
      /\ s.reads \subseteq st
  BY <1>2 DEF MergeInv
<1>4. Sibling(s.index) \notin DOMAIN s.nodes
  <2> SUFFICES ASSUME Sibling(s.index) \in DOMAIN s.nodes PROVE FALSE OBVIOUS
  <2>1. PICK h, l, r : /\ Pair(s.nodes, tree, st, s.index \div 2, h, l, r)
                       /\ s.nodes[s.index].height = h
    BY <1>3, SiblingsPair
  <2>2. h \in Nat /\ h < Height BY <2>1 DEF Pair
  <2> QED BY <1>3, <2>1, <2>2
<1>5. NoSiblings(s.nodes)
  <2> SUFFICES ASSUME NEW j \in DOMAIN s.nodes, Sibling(j) \in DOMAIN s.nodes PROVE FALSE
    BY DEF NoSiblings
  <2>1. At(j, s.nodes[j].height) BY <1>3 DEF NodeEntries, NodeEntry
  <2>2. j \in Nat BY <2>1, AtRange
  <2>3. Sibling(Sibling(j)) = j BY <2>2, SiblingAgain
  <2> QED BY <1>3, <1>4, <2>3
<1> QED BY <1>1, <1>3, <1>5

\* With the queue empty and no siblings, the root is all there is.
LEMMA OnlyTheRoot ==
  ASSUME NEW tree, NEW st, NEW N, NodeEntries(N, tree, st), NoSiblings(N),
         \A leaf \in Index : OneOwner(<<>>, N, leaf)
  PROVE  DOMAIN N = {1}
<1> USE NodesAssumption
<1>1. \A i \in DOMAIN N : At(i, N[i].height) /\ N[i].height \in 0 .. Height
  BY AtRange DEF NodeEntries, NodeEntry
<1>2. \A leaf \in Index : \E i : NodesHave(N, i, leaf)
  BY DEF OneOwner, QueueHas
<1>3. \A leaf \in Index : \A i, j : NodesHave(N, i, leaf) /\ NodesHave(N, j, leaf) => i = j
  BY DEF OneOwner
<1>4. DOMAIN N # {}
  <2>1. 0 \in Index BY Pow2Type DEF Index, Positions
  <2> QED BY <1>2, <2>1 DEF NodesHave
<1>5. PICK i \in DOMAIN N : \A j \in DOMAIN N : N[i].height <= N[j].height
  <2> DEFINE T == {N[j].height : j \in DOMAIN N}
             R == OpToRel(<, Nat)
  <2>1. T \subseteq Nat /\ T # {} BY <1>1, <1>4
  <2>2. IsWellFoundedOn(R, Nat) BY NatLessThanWellFounded
  <2>3. PICK x \in T : \A y \in T : <<y, x>> \notin R
    <3> HIDE DEF T, R
    <3> QED BY <2>1, <2>2, WFMin
  <2>4. \A y \in T : x <= y
    <3> SUFFICES ASSUME NEW y \in T PROVE x <= y OBVIOUS
    <3>1. x \in Nat /\ y \in Nat BY <2>1
    <3>2. ~ (y < x) BY <2>3, <3>1 DEF OpToRel
    <3> QED BY <3>1, <3>2
  <2> QED BY <2>4
<1>6. PICK h \in 0 .. Height : h = N[i].height BY <1>1
<1>7. CASE h = Height
  <2>1. ASSUME NEW j \in DOMAIN N PROVE j = 1
    <3>1. N[j].height = Height BY <1>1, <1>5, <1>6, <1>7
    <3> QED BY <1>1, <3>1, AtRoot
  <2> QED BY <1>4, <2>1
<1>8. CASE h # Height
  <2>1. At(i, h) BY <1>1, <1>6
  <2> DEFINE p == i \div 2
             z == Sibling(i)
  <2>2. /\ At(p, h + 1) /\ h + 1 \in 0 .. Height /\ h \in Nat
        /\ \/ i = 2 * p /\ z = 2 * p + 1
           \/ i = 2 * p + 1 /\ z = 2 * p
    BY <1>8, <2>1, AtParent
  <2> HIDE DEF p, z
  <2>3. At(2 * p, h) /\ At(2 * p + 1, h) BY <2>2, AtChildren
  <2>4. At(z, h) BY <2>2, <2>3
  <2>5. PICK x \in Index : x \in Under(z, h) BY <2>4, UnderBlock
  <2>6. PICK y \in Index : y \in Under(i, h) BY <2>1, UnderBlock
  <2>7. x \in Under(p, h + 1) /\ y \in Under(p, h + 1)
    BY <2>2, <2>5, <2>6, UnderSplit
  <2>8. PICK j : NodesHave(N, j, x) BY <1>2
  <2>9. PICK g \in 0 .. Height : g = N[j].height BY <1>1, <2>8 DEF NodesHave
  <2>10. j \in DOMAIN N /\ x \in Under(j, g) /\ At(j, g) /\ h <= g
    BY <1>1, <1>5, <1>6, <2>8, <2>9 DEF NodesHave
  <2>11. /\ Under(j, g) = Block(Pos(j, g), g) /\ Pos(j, g) \in Nat
         /\ Under(z, h) = Block(Pos(z, h), h) /\ Pos(z, h) \in Nat
         /\ Under(p, h + 1) = Block(Pos(p, h + 1), h + 1) /\ Pos(p, h + 1) \in Nat
    BY <2>2, <2>4, <2>10, UnderBlock
  <2>12. x \in Int BY DEF Index, Positions
  <2>13. CASE g = h
    <3>1. Pos(j, h) = Pos(z, h) BY <2>5, <2>10, <2>11, <2>12, <2>13, BlockEq
    <3>2. /\ j \in Nat /\ z \in Nat /\ Pow2[Height - h] \in Nat
      BY <2>4, <2>10, AtRange
    <3>3. j = z BY <3>1, <3>2 DEF Pos
    <3> QED BY <2>10, <3>3 DEF NoSiblings, z
  <2>14. CASE g # h
    <3>1. PICK k \in Nat : g = (h + 1) + k
      <4>1. g - (h + 1) \in Nat /\ g = (h + 1) + (g - (h + 1)) BY <2>2, <2>10, <2>14
      <4> QED BY <4>1
    <3>2. Under(p, h + 1) \subseteq Under(j, g)
      <4>1. PICK a \in Nat, b \in Nat, e \in Nat :
                a = h + 1 /\ b = Pos(p, h + 1) /\ e = Pos(j, g)
        BY <2>2, <2>11
      <4>2. x \in Block(b, a) /\ x \in Block(e, a + k)
        BY <2>7, <2>10, <2>11, <3>1, <4>1
      <4>3. Block(b, a) \subseteq Block(e, a + k) BY <2>12, <4>2, BlockNest
      <4> QED BY <2>11, <3>1, <4>1, <4>3
    <3>3. NodesHave(N, j, y) /\ NodesHave(N, i, y)
      BY <1>6, <2>6, <2>7, <2>9, <2>10, <3>2 DEF NodesHave
    <3>4. i = j BY <1>3, <3>3
    <3> QED BY <1>6, <2>9, <2>14, <3>4
  <2> QED BY <2>13, <2>14
<1> QED BY <1>7, <1>8

-----------------------------------------------------------------------------
(* The inductive invariant.                                                *)

\* Nothing is lost from storage that the current root needs, and what is
\* there is well formed.
StorageInv ==
    /\ leaves \in Tree
    /\ root = ReferenceRoot(leaves)
    /\ ReferenceFacts(leaves) \subseteq storage
    /\ EMPTY_NODE_HASH \in storage
    /\ \A f \in storage : WellFormedFact(f)
    /\ IsMods(modifications)
    /\ phase \in {"idle", "traverse", "write", "commit", "done", "failed"}

\* The queue holds nodes of the current tree, updated_nodes holds nodes of the
\* new one, and together they split the tree.
FrontierInv ==
    /\ \E X : queue \in Seq(X)
    /\ \A k \in DOMAIN queue :
          Entry(queue[k], from_hash(root, Height), modifications)
    /\ NodeEntries(updated_nodes, Unify(leaves, modifications), storage)
    /\ NoSiblings(updated_nodes)
    /\ \A leaf \in Index : OneOwner(queue, updated_nodes, leaf)

WriteInv ==
    /\ phase \in {"write", "commit"} => queue = <<>>
    /\ phase = "commit" => updated_nodes[1].bottom.facts \subseteq storage

PatriciaInv ==
    /\ StorageInv
    /\ phase \in {"traverse", "write", "commit"} => FrontierInv
    /\ WriteInv

LEMMA InitInv == Init => PatriciaInv
<1> SUFFICES ASSUME Init PROVE PatriciaInv OBVIOUS
<1> USE NodesAssumption
<1>1. /\ leaves \in Tree /\ root = ReferenceRoot(leaves)
      /\ storage = {EMPTY_NODE_HASH} \cup ReferenceFacts(leaves)
      /\ modifications = NoNodes /\ phase = "idle"
  BY DEF Init
<1>2. \A f \in storage : WellFormedFact(f)
  <2> DEFINE s == Ref(leaves, Height, 0)
  <2>1. Height \in 0 .. Height /\ 0 \in Positions(Height - Height)
    BY Pow2Def DEF Positions
  <2>2. SubtreeOK(s, Height) BY <1>1, <2>1, RefOK
  <2>3. WellFormedFact(hash_node(s.node)) BY <2>1, <2>2, HashNodeKind DEF SubtreeOK
  <2>4. storage = {EMPTY_NODE_HASH} \cup s.facts \cup {hash_node(s.node)}
    BY <1>1 DEF ReferenceFacts, ReferenceRoot, Reference, Ref
  <2>5. WellFormedFact(EMPTY_NODE_HASH) BY DEF WellFormedFact, EMPTY_NODE_HASH
  <2> HIDE DEF s
  <2> QED BY <2>2, <2>3, <2>4, <2>5 DEF SubtreeOK
<1>3. IsMods(modifications) BY <1>1, NoNodesIsMods
<1>4. StorageInv BY <1>1, <1>2, <1>3 DEF StorageInv
<1> QED BY <1>1, <1>4 DEF PatriciaInv, WriteInv

\* The traversal begins at the root.
LEMMA BeginKeeps ==
  ASSUME StorageInv, NEW mods, IsMods(mods), Begin(mods)
  PROVE  PatriciaInv'
<1> USE NodesAssumption
<1> DEFINE n0 == from_hash(root, Height)
           q == [index |-> 1, tree |-> n0, update |-> build_update_tree(mods)]
<1>1. /\ modifications' = mods /\ queue' = <<q>> /\ updated_nodes' = NoNodes
      /\ phase' = "traverse" /\ storage' = storage /\ root' = root /\ leaves' = leaves
  BY DEF Begin
<1>2. StorageInv' BY <1>1 DEF StorageInv
<1>3. n0.height = Height BY DEF from_hash, VirtualNode
<1>4. Entry(q, n0, mods)
  <2>1. At(1, Height) /\ Pos(1, Height) = 0 BY AtRoot
  <2>2. NodeLayers(n0)[0] = [i \in {0} |-> n0] BY NodeLayersDef
  <2>3. NodeLayers(n0)[0][0] = n0 BY <2>2
  <2>4. build_update_tree(mods) = UpdateOf(UpdateLayers(mods)[Height], 0) BY UpdateRoot
  <2>5. Height - Height = 0 OBVIOUS
  <2> HIDE DEF n0
  <2>6. q.index = 1 /\ q.tree = n0 /\ q.update = build_update_tree(mods) OBVIOUS
  <2> HIDE DEF q
  <2> QED BY <1>3, <2>1, <2>3, <2>4, <2>5, <2>6 DEF Entry
<1>5. q.index = 1 /\ q.tree.height = Height BY <1>3
<1> HIDE DEF q, n0
<1>6. DOMAIN queue' = {1} /\ queue'[1] = q /\ queue' \in Seq({q}) BY <1>1
<1>7. \A k \in DOMAIN queue' : Entry(queue'[k], from_hash(root', Height), modifications')
  BY <1>1, <1>4, <1>6 DEF n0
<1>8. DOMAIN updated_nodes' = {} BY <1>1 DEF NoNodes
<1>9. ASSUME NEW leaf \in Index PROVE OneOwner(queue', updated_nodes', leaf)
  <2>1. Under(1, Height) = Index BY RootHasAllLeaves
  <2>2. QueueHas(queue', 1, leaf) BY <1>5, <1>6, <2>1 DEF QueueHas
  <2>3. \A k : QueueHas(queue', k, leaf) => k = 1 BY <1>6 DEF QueueHas
  <2>4. \A i : ~ NodesHave(updated_nodes', i, leaf) BY <1>8 DEF NodesHave
  <2> QED BY <2>2, <2>3, <2>4 DEF OneOwner
<1>10. FrontierInv'
  BY <1>6, <1>7, <1>8, <1>9 DEF FrontierInv, NodeEntries, NoSiblings
<1> QED BY <1>1, <1>2, <1>10 DEF PatriciaInv, WriteInv

\* The current tree is read from storage.
LEMMA CurrentTree ==
  ASSUME StorageInv
  PROVE  /\ ReadsTree(from_hash(root, Height), leaves, storage)
         /\ Unify(leaves, modifications) \in Tree
BY RootStandsFor, UnifyType DEF StorageInv

\* The root of the new tree is the one entry at the end of the traversal.
LEMMA RootEntry ==
  ASSUME StorageInv, FrontierInv, queue = <<>>
  PROVE  LET s == Ref(Unify(leaves, modifications), Height, 0)
         IN /\ DOMAIN updated_nodes = {1}
            /\ SubtreeOK(s, Height)
            /\ Computes(updated_nodes[1], s, storage)
<1> USE NodesAssumption
<1> DEFINE new == Unify(leaves, modifications)
           s == Ref(new, Height, 0)
           c == updated_nodes[1]
<1>1. DOMAIN updated_nodes = {1} BY OnlyTheRoot DEF FrontierInv
<1>2. NodeEntry(1, c, new, storage) BY <1>1 DEF FrontierInv, NodeEntries
<1>3. At(1, c.height) /\ At(1, Height) /\ Pos(1, Height) = 0 BY <1>2, AtRoot DEF NodeEntry
<1>4. c.height = Height BY <1>3, AtUnique
<1>5. Computes(c, s, storage) BY <1>2, <1>3, <1>4 DEF NodeEntry
<1>6. new \in Tree BY CurrentTree
<1>7. Height \in 0 .. Height /\ 0 \in Positions(Height - Height)
  BY Pow2Def DEF Positions
<1>8. SubtreeOK(s, Height) BY <1>6, <1>7, RefOK
<1> QED BY <1>1, <1>5, <1>8

\* A node with modified leaves below it is visited.
LEMMA VisitInnerKeeps ==
  ASSUME PatriciaInv, phase = "traverse", queue # <<>>,
         queue[1].update.update = "tuple",
         queue' = Tail(queue) \o Children(queue[1]),
         UNCHANGED <<storage, root, leaves, modifications, updated_nodes, phase>>
  PROVE  PatriciaInv'
<1> DEFINE q == queue[1]
           n0 == from_hash(root, Height)
<1>1. StorageInv /\ FrontierInv /\ StorageInv' BY DEF PatriciaInv, StorageInv
<1>2. PICK X : queue \in Seq(X) BY <1>1 DEF FrontierInv
<1>3. 1 \in DOMAIN queue BY <1>2
<1>4. Entry(q, n0, modifications) BY <1>1, <1>3 DEF FrontierInv
<1>5. ReadsTree(n0, leaves, storage) BY <1>1, CurrentTree
<1> HIDE DEF n0
<1>6. PICK a, b :
         /\ Children(q) = <<a, b>>
         /\ Entry(a, n0, modifications) /\ Entry(b, n0, modifications)
         /\ a.index = 2 * q.index /\ b.index = 2 * q.index + 1
         /\ a.tree.height \in Nat /\ b.tree.height = a.tree.height
         /\ q.tree.height = a.tree.height + 1
         /\ At(q.index, q.tree.height)
  BY <1>4, <1>5, EntryChildren
<1> DEFINE Y == X \cup {a, b}
<1>7. queue \in Seq(Y) /\ a \in Y /\ b \in Y BY <1>2
<1>8. queue' = Tail(queue) \o <<a, b>> BY <1>6
<1> HIDE DEF Y
<1>9. queue' \in Seq(Y)
  <2>1. Tail(queue) \in Seq(Y) BY <1>7
  <2>2. <<a, b>> \in Seq(Y) BY <1>7
  <2>3. \A t, u \in Seq(Y) : t \o u \in Seq(Y) OBVIOUS
  <2>4. Tail(queue) \o <<a, b>> \in Seq(Y) BY <2>1, <2>2, <2>3
  <2> QED BY <1>8, <2>4
<1>10. \A k \in DOMAIN queue' : Entry(queue'[k], n0, modifications)
  <2> SUFFICES ASSUME NEW k \in DOMAIN queue' PROVE Entry(queue'[k], n0, modifications)
    OBVIOUS
  <2>1. queue'[k] = a \/ queue'[k] = b \/ \E j \in DOMAIN queue : queue'[k] = queue[j]
    BY <1>7, <1>8
  <2> QED BY <1>1, <1>6, <2>1 DEF FrontierInv, n0
<1>11. ASSUME NEW leaf \in Index PROVE OneOwner(queue', updated_nodes, leaf)
  <2>1. OneOwner(queue, updated_nodes, leaf) BY <1>1 DEF FrontierInv
  <2>2. PICK h \in Nat : h = a.tree.height BY <1>6
  <2>3. PICK i : i = q.index OBVIOUS
  <2>4. At(i, h + 1) BY <1>6, <2>2, <2>3
  <2>5. /\ leaf \in Under(i, h + 1)
           <=> leaf \in Under(2 * i, h) \/ leaf \in Under(2 * i + 1, h)
        /\ ~ (leaf \in Under(2 * i, h) /\ leaf \in Under(2 * i + 1, h))
    BY <2>4, UnderSplit
  <2>6. /\ leaf \in Under(q.index, q.tree.height)
           <=> leaf \in Under(a.index, a.tree.height) \/ leaf \in Under(b.index, b.tree.height)
        /\ ~ (leaf \in Under(a.index, a.tree.height) /\ leaf \in Under(b.index, b.tree.height))
    BY <1>6, <2>2, <2>3, <2>5
  <2>7. OneOwner(Tail(queue) \o <<a, b>>, updated_nodes, leaf)
    BY <1>7, <2>1, <2>6, OwnerAfterSplit
  <2> QED BY <1>8, <2>7
<1>12. FrontierInv' BY <1>1, <1>9, <1>10, <1>11 DEF FrontierInv, n0
<1> QED BY <1>1, <1>12 DEF PatriciaInv, WriteInv

\* A settled node of the queue is not in updated_nodes yet.
LEMMA SettledIsNew ==
  ASSUME NEW tree, NEW st, NEW X, NEW Q \in Seq(X), Q # <<>>, NEW N,
         NodeEntries(N, tree, st), At(Q[1].index, Q[1].tree.height),
         \A leaf \in Index : OneOwner(Q, N, leaf)
  PROVE  Q[1].index \notin DOMAIN N
<1> DEFINE i == Q[1].index
           h == Q[1].tree.height
<1> SUFFICES ASSUME i \in DOMAIN N PROVE FALSE OBVIOUS
<1>1. At(i, N[i].height) BY DEF NodeEntries, NodeEntry
<1>2. N[i].height = h BY <1>1, AtUnique
<1>3. PICK leaf \in Index : leaf \in Under(i, h) BY UnderBlock
<1>4. 1 \in DOMAIN Q OBVIOUS
<1>5. QueueHas(Q, 1, leaf) /\ NodesHave(N, i, leaf)
  BY <1>2, <1>3, <1>4 DEF QueueHas, NodesHave
<1>6. OneOwner(Q, N, leaf) OBVIOUS
<1> QED BY <1>5, <1>6 DEF OneOwner

\* The head of the queue is settled and added to updated_nodes.
LEMMA SettleSetup ==
  ASSUME StorageInv, FrontierInv, queue # <<>>, queue[1].update.update # "tuple"
  PROVE  \E i, node, M :
            /\ Settle(queue[1]) = update_necessary(i, M) /\ i \in DOMAIN M
            /\ i = queue[1].index /\ M[i] = node /\ node.height = queue[1].tree.height
            /\ \A j \in DOMAIN M :
                  j = i \/ (j \in DOMAIN updated_nodes /\ M[j] = updated_nodes[j])
            /\ NodeEntries(M, Unify(leaves, modifications), storage)
            /\ \A leaf \in Index : OneOwner(Tail(queue), M, leaf)
            /\ \A j \in DOMAIN M : Sibling(j) \in DOMAIN M => j = i \/ Sibling(j) = i
<1> DEFINE q == queue[1]
           n0 == from_hash(root, Height)
           new == Unify(leaves, modifications)
           node == IF q.update = NoUpdate THEN create_from_node(q.tree)
                   ELSE create_from_fact(q.update.fact)
           i == q.index
           N == updated_nodes
           M == [j \in DOMAIN N \cup {i} |-> IF j = i THEN node ELSE N[j]]
<1>1. PICK X : queue \in Seq(X) BY DEF FrontierInv
<1>2. 1 \in DOMAIN queue BY <1>1
<1>3. Entry(q, n0, modifications) BY <1>2 DEF FrontierInv
<1>4. ReadsTree(n0, leaves, storage) /\ new \in Tree BY CurrentTree
<1>5. IsMods(modifications) /\ EMPTY_NODE_HASH \in storage BY DEF StorageInv
<1>6. NodeEntry(i, node, new, storage) /\ node.height = q.tree.height
  <2> HIDE DEF n0
  <2> QED BY <1>3, <1>4, <1>5, EntrySettles
<1>7. /\ NodeEntries(N, new, storage) /\ NoSiblings(N)
      /\ \A leaf \in Index : OneOwner(queue, N, leaf)
  BY DEF FrontierInv
<1>8. At(i, q.tree.height) BY <1>3 DEF Entry
<1>9. i \notin DOMAIN N BY <1>1, <1>7, <1>8, SettledIsNew
<1>10. Settle(q) = update_necessary(i, M) BY DEF Settle
<1> HIDE DEF node, new
<1>11. ASSUME NEW leaf \in Index PROVE OneOwner(Tail(queue), M, leaf)
  <2>1. OneOwner(queue, N, leaf) BY <1>7
  <2> QED BY <1>1, <1>6, <1>9, <2>1, OwnerAfterSettle
<1>12. DOMAIN M = DOMAIN N \cup {i} /\ M[i] = node /\ \A j \in DOMAIN N : M[j] = N[j]
  BY <1>9
<1> HIDE DEF M, N, i
<1>13. NodeEntries(M, new, storage) BY <1>6, <1>7, <1>12 DEF NodeEntries
<1>14. \A j \in DOMAIN M : Sibling(j) \in DOMAIN M => j = i \/ Sibling(j) = i
  BY <1>7, <1>12 DEF NoSiblings
<1>15. i \in DOMAIN M BY <1>12
<1>16. \A j \in DOMAIN M : j = i \/ (j \in DOMAIN updated_nodes /\ M[j] = updated_nodes[j])
  BY <1>12 DEF N
<1>17. i = queue[1].index BY DEF i
<1> QED BY <1>6, <1>10, <1>11, <1>12, <1>13, <1>14, <1>15, <1>16, <1>17 DEF new

\* Settling the head of the queue keeps the split, and finds what it reads.
LEMMA SettleResult ==
  ASSUME StorageInv, FrontierInv, queue # <<>>, queue[1].update.update # "tuple"
  PROVE  LET s == Settle(queue[1])
         IN /\ NodeEntries(s.nodes, Unify(leaves, modifications), storage)
            /\ \A leaf \in Index : OneOwner(Tail(queue), s.nodes, leaf)
            /\ s.reads \subseteq storage
            /\ NoSiblings(s.nodes)
<1>1. PICK i, M :
         /\ Settle(queue[1]) = update_necessary(i, M) /\ i \in DOMAIN M
         /\ NodeEntries(M, Unify(leaves, modifications), storage)
         /\ \A leaf \in Index : OneOwner(Tail(queue), M, leaf)
         /\ \A j \in DOMAIN M : Sibling(j) \in DOMAIN M => j = i \/ Sibling(j) = i
  BY SettleSetup
<1>2. Unify(leaves, modifications) \in Tree /\ EMPTY_NODE_HASH \in storage
  BY CurrentTree DEF StorageInv
<1> QED BY <1>1, <1>2, MergesKeep

LEMMA VisitKeeps ==
  ASSUME PatriciaInv, Visit
  PROVE  PatriciaInv'
<1>1. phase = "traverse" /\ queue # <<>> BY DEF Visit
<1>2. StorageInv /\ FrontierInv BY <1>1 DEF PatriciaInv
<1>3. PICK X : queue \in Seq(X) BY <1>2 DEF FrontierInv
<1>4. PICK n : n = Head(queue) OBVIOUS
<1>5. 1 \in DOMAIN queue /\ n = queue[1] BY <1>1, <1>3, <1>4
<1>6. CASE n.update.update = "tuple"
  <2>1. Entry(n, from_hash(root, Height), modifications) BY <1>2, <1>5 DEF FrontierInv
  <2>2. ReadsTree(from_hash(root, Height), leaves, storage) BY <1>2, CurrentTree
  <2>3. ChildrenReads(n.tree) \subseteq storage BY <2>1, <2>2, EntryStandsFor
  <2>4. /\ queue' = Tail(queue) \o Children(n)
        /\ UNCHANGED <<storage, root, leaves, modifications, updated_nodes, phase>>
    BY <1>4, <1>6, <2>3 DEF Visit
  <2> QED BY <1>1, <1>5, <1>6, <2>4, VisitInnerKeeps
<1>7. CASE n.update.update # "tuple"
  <2>1. PICK s : s = Settle(n) OBVIOUS
  <2>2. /\ NodeEntries(s.nodes, Unify(leaves, modifications), storage)
        /\ \A leaf \in Index : OneOwner(Tail(queue), s.nodes, leaf)
        /\ s.reads \subseteq storage
        /\ NoSiblings(s.nodes)
    BY <1>1, <1>2, <1>5, <1>7, <2>1, SettleResult
  <2>3. /\ queue' = Tail(queue) /\ updated_nodes' = s.nodes
        /\ UNCHANGED <<storage, root, leaves, modifications, phase>>
    BY <1>4, <1>7, <2>1, <2>2 DEF Visit
  <2>4. queue' \in Seq(X) BY <1>1, <1>3, <2>3
  <2>5. \A k \in DOMAIN queue' : Entry(queue'[k], from_hash(root', Height), modifications')
    <3> SUFFICES ASSUME NEW k \in DOMAIN queue'
                 PROVE  Entry(queue'[k], from_hash(root, Height), modifications)
      BY <2>3
    <3>1. k + 1 \in DOMAIN queue /\ queue'[k] = queue[k + 1] BY <1>1, <1>3, <2>3
    <3> QED BY <1>2, <3>1 DEF FrontierInv
  <2>6. StorageInv' BY <1>2, <2>3 DEF StorageInv
  <2>7. FrontierInv' BY <2>2, <2>3, <2>4, <2>5 DEF FrontierInv
  <2> QED BY <1>1, <2>3, <2>6, <2>7 DEF PatriciaInv, WriteInv
<1> QED BY <1>6, <1>7

LEMMA EndTraversalKeeps ==
  ASSUME PatriciaInv, EndTraversal
  PROVE  PatriciaInv'
BY DEF PatriciaInv, EndTraversal, StorageInv, FrontierInv, WriteInv

\* Whatever part of the new facts is written, the current tree is not lost.
LEMMA WriteKeeps ==
  ASSUME PatriciaInv, WriteFactNodes
  PROVE  PatriciaInv'
<1> DEFINE new == updated_nodes[1].bottom.facts
<1>1. phase = "write" /\ queue = <<>> /\ StorageInv /\ FrontierInv
  BY DEF WriteFactNodes, PatriciaInv, WriteInv
<1>2. \A f \in new : WellFormedFact(f) BY <1>1, RootEntry DEF Computes
<1>3. /\ UNCHANGED <<root, leaves, modifications, queue, updated_nodes>>
      /\ storage \subseteq storage' /\ storage' \subseteq storage \cup new
      /\ \/ phase' = "commit" /\ storage' = storage \cup new
         \/ phase' = "failed"
  BY DEF WriteFactNodes, Written
<1> HIDE DEF new
<1>4. StorageInv' BY <1>1, <1>2, <1>3 DEF StorageInv
<1>5. FrontierInv'
  <2>1. NodeEntries(updated_nodes, Unify(leaves, modifications), storage')
    BY <1>1, <1>3, NodeEntryMore DEF FrontierInv, NodeEntries
  <2> QED BY <1>1, <1>3, <2>1 DEF FrontierInv
<1>6. WriteInv' BY <1>1, <1>3 DEF WriteInv, new
<1> QED BY <1>4, <1>5, <1>6 DEF PatriciaInv

\* commit() stores the new root: the new tree is complete.
LEMMA CommitKeeps ==
  ASSUME PatriciaInv, Commit
  PROVE  PatriciaInv'
<1> USE NodesAssumption
<1> DEFINE n == updated_nodes[1]
           hash == commit(n).hash
           tree == Unify(leaves, modifications)
           s == Ref(tree, Height, 0)
           new == IF is_virtual_edge(n) THEN {hash} ELSE {}
<1>1. /\ phase = "commit" /\ queue = <<>> /\ StorageInv /\ FrontierInv
      /\ n.bottom.facts \subseteq storage
  BY DEF Commit, PatriciaInv, WriteInv
<1>2. SubtreeOK(s, Height) /\ Computes(n, s, storage) BY <1>1, RootEntry
<1>3. tree \in Tree BY <1>1, CurrentTree
<1>4. Height \in 0 .. Height OBVIOUS
<1>5. \/ /\ storage' = storage \cup new /\ root' = hash /\ leaves' = tree /\ phase' = "done"
         /\ modifications' = modifications
      \/ /\ phase' = "failed"
         /\ UNCHANGED <<storage, root, leaves, modifications>>
  BY DEF Commit, Committed
<1>6. CASE phase' = "done" /\ storage' = storage \cup new /\ root' = hash /\ leaves' = tree
           /\ modifications' = modifications
  <2>1. ReferenceRoot(tree) = hash_node(s.node)
        /\ ReferenceFacts(tree) = s.facts \cup {hash_node(s.node)}
    BY DEF ReferenceRoot, ReferenceFacts, Reference, Ref
  <2> HIDE DEF s, n, tree
  <2>2. hash = hash_node(s.node) /\ hash \in storage \cup commit(n).facts
    BY <1>2, <1>4, CommitHash
  <2>3. WellFormedFact(hash) BY <1>2, <1>4, <2>2, HashNodeKind DEF SubtreeOK
  <2>4. hash \in storage \cup new
    <3>1. CASE is_virtual_edge(n) BY <3>1
    <3>2. CASE ~is_virtual_edge(n)
      <4>1. commit(n).facts \subseteq storage BY <1>1, <3>2 DEF commit
      <4> QED BY <2>2, <4>1
    <3> QED BY <3>1, <3>2
  <2>5. s.facts \subseteq storage BY <1>1, <1>2 DEF Computes
  <2>6. new \subseteq {hash} OBVIOUS
  <2> HIDE DEF new, hash
  <2>7. ReferenceFacts(leaves') \subseteq storage' BY <1>6, <2>1, <2>2, <2>4, <2>5
  <2>8. \A f \in storage' : WellFormedFact(f)
    BY <1>1, <1>6, <2>3, <2>6 DEF StorageInv
  <2>9. StorageInv'
    BY <1>1, <1>3, <1>6, <2>1, <2>2, <2>7, <2>8 DEF StorageInv
  <2> QED BY <1>6, <2>9 DEF PatriciaInv, WriteInv
<1>7. CASE phase' = "failed" /\ UNCHANGED <<storage, root, leaves, modifications>>
  <2>1. StorageInv' BY <1>1, <1>7 DEF StorageInv
  <2> QED BY <1>7, <2>1 DEF PatriciaInv, WriteInv
<1> QED BY <1>5, <1>6, <1>7

LEMMA StepInv == PatriciaInv /\ [Next]_vars => PatriciaInv'
<1> SUFFICES ASSUME PatriciaInv, [Next]_vars PROVE PatriciaInv' OBVIOUS
<1>1. ASSUME NEW mods \in Modifications, Update(mods) PROVE PatriciaInv'
  BY <1>1, ModificationsType, BeginKeeps DEF Update, PatriciaInv
<1>2. CASE Retry
  <2>1. StorageInv /\ IsMods(modifications) /\ Begin(modifications)
    BY <1>2 DEF Retry, PatriciaInv, StorageInv
  <2> QED BY <2>1, BeginKeeps
<1>3. CASE Visit BY <1>3, VisitKeeps
<1>4. CASE EndTraversal BY <1>4, EndTraversalKeeps
<1>5. CASE WriteFactNodes BY <1>5, WriteKeeps
<1>6. CASE Commit BY <1>6, CommitKeeps
<1>7. CASE UNCHANGED vars
  BY <1>7 DEF vars, PatriciaInv, StorageInv, FrontierInv, WriteInv
<1> QED BY <1>1, <1>2, <1>3, <1>4, <1>5, <1>6, <1>7 DEF Next

LEMMA SpecInv == Spec => []PatriciaInv
BY InitInv, StepInv, PTL DEF Spec

-----------------------------------------------------------------------------
(* The theorems about the states of an update.                             *)

\* No fact that reaches storage is one a tree may not contain, whichever of
\* the new facts a failed write_fact_nodes left behind.
THEOREM StoredFactsAreWellFormed == Spec => []StoredFactsWellFormed
<1>1. PatriciaInv => StoredFactsWellFormed
  BY DEF PatriciaInv, StorageInv, StoredFactsWellFormed
<1> QED BY <1>1, SpecInv, PTL

\* The root update() returns is the root of the reference tree over the
\* leaves, for every tree and every set of modifications.
THEOREM UpdatedRootIsCanonical == Spec => []RootIsCanonical
<1>1. PatriciaInv => RootIsCanonical
  BY DEF PatriciaInv, StorageInv, RootIsCanonical
<1> QED BY <1>1, SpecInv, PTL

\* At every moment all leaves of the current root can be read from storage,
\* with their values, and update() never misses a fact.
THEOREM TreeIsAlwaysReadable == Spec => []TreeStaysReadable
<1>1. PatriciaInv => TreeStaysReadable
  <2> SUFFICES ASSUME PatriciaInv PROVE TreeStaysReadable OBVIOUS
  <2> USE NodesAssumption
  <2> DEFINE n0 == from_hash(root, Height)
  <2>1. StorageInv BY DEF PatriciaInv
  <2>2. ReadsTree(n0, leaves, storage) /\ leaves \in Tree
    BY <2>1, CurrentTree DEF StorageInv
  <2> HIDE DEF n0
  <2>3. ASSUME NEW d \in 0 .. (Height - 1), NEW leaf \in Index
        PROVE  ChildrenReads(NodeLayers(n0)[d][leaf \div Pow2[Height - d]]) \subseteq storage
    <3>1. d \in 0 .. Height /\ Height - d \in 0 .. Height /\ Height - d \in Nat
          /\ Height - (Height - d) = d
      OBVIOUS
    <3>2. PICK p \in Positions(d) : p = leaf \div Pow2[Height - d]
      BY <3>1, LeafAncestor
    <3>3. StandsFor(NodeLayers(n0)[d][p], Ref(leaves, Height - d, p), storage)
      BY <2>2, <3>1, LayersStandFor
    <3>4. SubtreeOK(Ref(leaves, Height - d, p), Height - d) BY <2>2, <3>1, RefOK
    <3>5. ChildrenReads(NodeLayers(n0)[d][p]) \subseteq storage
      BY <3>1, <3>3, <3>4, StandsForHeight
    <3> QED BY <3>2, <3>5
  <2>4. \A leaf \in Index : NodeLayers(n0)[Height][leaf].bottom \in storage
    BY <2>2, LeafRead
  <2>5. LeavesReads(n0, Index) \subseteq storage
    <3> DEFINE above == {ChildrenReads(NodeLayers(n0)[d][leaf \div Pow2[Height - d]]) :
                            d \in 0 .. (Height - 1), leaf \in Index}
               below == {NodeLayers(n0)[Height][leaf].bottom : leaf \in Index}
    <3>1. LeavesReads(n0, Index) = (UNION above) \cup below BY DEF LeavesReads
    <3>2. ASSUME NEW reads \in above PROVE reads \subseteq storage
      <4>1. PICK d \in 0 .. (Height - 1), leaf \in Index :
               reads = ChildrenReads(NodeLayers(n0)[d][leaf \div Pow2[Height - d]])
        OBVIOUS
      <4> QED BY <2>3, <4>1
    <3>3. below \subseteq storage BY <2>4
    <3> HIDE DEF above, below
    <3>4. UNION above \subseteq storage BY <3>2
    <3> QED BY <3>1, <3>3, <3>4
  <2>6. ASSUME NEW leaf \in Index
        PROVE  LeafValue(NodeLayers(n0)[Height][leaf].bottom) = leaves[leaf]
    <3>1. NodeLayers(n0)[Height][leaf].bottom = LeafFact(leaves[leaf])
      BY <2>2, LeafRead
    <3>2. PICK v \in Value : v = leaves[leaf] BY <2>2 DEF Tree
    <3>3. LeafValue(LeafFact(v)) = v BY DEF LeafValue, LeafFact, EMPTY_NODE_HASH
    <3> QED BY <3>1, <3>2, <3>3
  <2>7. phase # "missing" BY <2>1 DEF StorageInv
  <2> QED BY <2>5, <2>6, <2>7 DEF TreeStaysReadable, n0
<1> QED BY <1>1, SpecInv, PTL

\* The queue and updated_nodes split the tree until the root is left.
THEOREM FrontierAlwaysSplitsTree == Spec => []FrontierSplitsTree
<1>1. PatriciaInv => FrontierSplitsTree
  <2> SUFFICES ASSUME PatriciaInv, phase \in {"traverse", "write", "commit"}
               PROVE  /\ \A leaf \in Index :
                            Cardinality({q \in DOMAIN queue :
                               leaf \in Under(queue[q].index, queue[q].tree.height)})
                            + Cardinality({i \in DOMAIN updated_nodes :
                               leaf \in Under(i, updated_nodes[i].height)}) = 1
                      /\ queue = <<>> => DOMAIN updated_nodes = {1}
    BY DEF FrontierSplitsTree
  <2>1. StorageInv /\ FrontierInv BY DEF PatriciaInv
  <2>2. queue = <<>> => DOMAIN updated_nodes = {1} BY <2>1, RootEntry
  <2>3. ASSUME NEW leaf \in Index
        PROVE  Cardinality({q \in DOMAIN queue :
                  leaf \in Under(queue[q].index, queue[q].tree.height)})
               + Cardinality({i \in DOMAIN updated_nodes :
                  leaf \in Under(i, updated_nodes[i].height)}) = 1
    <3> DEFINE A == {q \in DOMAIN queue :
                       leaf \in Under(queue[q].index, queue[q].tree.height)}
               B == {i \in DOMAIN updated_nodes : leaf \in Under(i, updated_nodes[i].height)}
    <3>1. /\ \A k : k \in A <=> QueueHas(queue, k, leaf)
          /\ \A i : i \in B <=> NodesHave(updated_nodes, i, leaf)
      BY DEF QueueHas, NodesHave
    <3>2. OneOwner(queue, updated_nodes, leaf) BY <2>1 DEF FrontierInv
    <3> HIDE DEF A, B
    <3>3. \/ A = {} /\ \E x : B = {x}
          \/ B = {} /\ \E x : A = {x}
      BY <3>1, <3>2 DEF OneOwner
    <3>4. Cardinality({}) = 0 /\ \A x : Cardinality({x}) = 1
      BY FS_EmptySet, FS_Singleton
    <3>5. Cardinality(A) + Cardinality(B) = 1
      <4> 0 + 1 = 1 /\ 1 + 0 = 1 OBVIOUS
      <4>1. CASE A = {} /\ \E x : B = {x} BY <3>4, <4>1, Zenon
      <4>2. CASE B = {} /\ \E x : A = {x} BY <3>4, <4>2, Zenon
      <4> QED BY <3>3, <4>1, <4>2
    <3> QED BY <3>5 DEF A, B
  <2> QED BY <2>2, <2>3
<1> QED BY <1>1, SpecInv, PTL

-----------------------------------------------------------------------------
(* The difference of two trees.                                            *)

\* The remainder of a division.
LEMMA RemainderIs ==
  ASSUME NEW m \in Nat \ {0}, NEW y \in Nat, NEW t \in Nat, t < m, NEW x \in Nat,
         x = m * y + t
  PROVE  x % m = t
OBVIOUS

\* A path shifted to the left in a usize is the low bits of the path shifted.
LEMMA UsizeShift ==
  ASSUME NEW i \in Nat
  PROVE  /\ usize(2 * usize(i)) + 1 - 1 = usize(2 * i)
         /\ usize(2 * usize(i)) + 2 - 1 = usize(2 * i + 1)
<1> USE PatriciaAssumption
<1>1. PICK W \in Nat : USIZE_BITS = W + 1
  <2>1. USIZE_BITS - 1 \in Nat /\ USIZE_BITS = (USIZE_BITS - 1) + 1 OBVIOUS
  <2> QED BY <2>1
<1>2. PICK K \in Nat \ {0} : Pow2[USIZE_BITS] = 2 * K BY <1>1, Pow2Type, Pow2Def
<1>3. PICK M \in Nat \ {0} : M = 2 * K /\ \A x \in Nat : usize(x) = x % M
  BY <1>2 DEF usize
<1>4. PICK r \in Nat, q \in Nat : r = i % M /\ r < M /\ i = M * q + r
  <2>1. i % M \in Nat /\ i \div M \in Nat /\ i % M < M OBVIOUS
  <2>2. i = M * (i \div M) + (i % M) OBVIOUS
  <2> QED BY <2>1, <2>2
<1>5. PICK t \in Nat : \/ r < K /\ t = 2 * r
                       \/ r >= K /\ t = 2 * r - M
  BY <1>3, <1>4
<1>6. t < M /\ t + 1 < M BY <1>3, <1>4, <1>5
<1>7. (2 * r) % M = t
  <2>1. CASE r < K /\ t = 2 * r BY <1>6, <2>1
  <2>2. CASE r >= K /\ t = 2 * r - M BY <1>6, <2>2
  <2> QED BY <1>5, <2>1, <2>2
<1>8. PICK y \in Nat : 2 * i = M * y + t
  <2>1. PICK a \in Nat, b \in Nat : a = 2 * q /\ b = 2 * q + 1 OBVIOUS
  <2>2. M * q \in Nat /\ M * a = 2 * (M * q) /\ M * b = 2 * (M * q) + M BY <2>1
  <2>3. CASE r < K /\ t = 2 * r
    <3>1. PICK z \in Nat : z = M * q BY <2>2
    <3>2. i = z + r /\ M * a = 2 * z BY <1>4, <2>2, <3>1
    <3>3. 2 * i = 2 * z + t BY <2>3, <3>2
    <3>4. 2 * i = M * a + t BY <3>2, <3>3
    <3> QED BY <2>1, <3>4
  <2>4. CASE r >= K /\ t = 2 * r - M
    <3>1. PICK z \in Nat : z = M * q BY <2>2
    <3>2. i = z + r /\ M * b = 2 * z + M BY <1>4, <2>2, <3>1
    <3>3. 2 * i = (2 * z + M) + t BY <2>4, <3>2
    <3>4. 2 * i = M * b + t BY <3>2, <3>3
    <3> QED BY <2>1, <3>4
  <2> QED BY <1>5, <2>3, <2>4
<1>9. (2 * i) % M = t
  <2>1. PICK x \in Nat : x = 2 * i OBVIOUS
  <2>2. x = M * y + t BY <1>8, <2>1
  <2>3. x % M = t BY <1>6, <2>2, RemainderIs
  <2> QED BY <2>1, <2>3
<1>10. (2 * i + 1) % M = t + 1
  <2>1. PICK x \in Nat, u \in Nat : x = 2 * i + 1 /\ u = t + 1 OBVIOUS
  <2>2. x = M * y + u BY <1>8, <2>1
  <2>3. x % M = u BY <1>6, <2>1, <2>2, RemainderIs
  <2> QED BY <2>1, <2>3
<1>11. usize(i) = r BY <1>3, <1>4
<1>12. usize(2 * usize(i)) = t /\ usize(2 * i) = t /\ usize(2 * i + 1) = t + 1
  <2>1. PICK a \in Nat, b \in Nat, c \in Nat : a = 2 * r /\ b = 2 * i /\ c = 2 * i + 1
    OBVIOUS
  <2>2. usize(a) = a % M /\ usize(b) = b % M /\ usize(c) = c % M BY <1>3
  <2> QED BY <1>7, <1>9, <1>10, <1>11, <2>1, <2>2
<1> QED BY <1>12

\* A number that fits in a usize is kept as it is.
LEMMA UsizeLow ==
  ASSUME NEW i \in Nat, i < Pow2[USIZE_BITS]
  PROVE  usize(i) = i
<1>1. PICK m \in Nat \ {0} : m = Pow2[USIZE_BITS] BY PatriciaAssumption, Pow2Type
<1>2. i % m = i BY <1>1
<1> QED BY <1>1, <1>2 DEF usize

\* The nodes that get_diff_between_trees comes to at depth d are the pairs of
\* nodes of the two trees that are not the same.
LEMMA DiffLayersAre ==
  ASSUME NEW p0, NEW c0
  PROVE  \A d \in Nat \ {0} :
            DiffLayers(p0, c0)[d] =
            {Difference(NodeLayers(p0)[d][i], NodeLayers(c0)[d][i], usize(i)) :
                i \in {j \in Positions(d) : NodeLayers(p0)[d][j] # NodeLayers(c0)[d][j]}}
<1> DEFINE P(d, i) == NodeLayers(p0)[d][i]
           C(d, i) == NodeLayers(c0)[d][i]
           D(d) == DiffLayers(p0, c0)[d]
           S == {d \in Nat : \A x : x \in D(d + 1) <=>
                    \E i \in Positions(d + 1) : /\ P(d + 1, i) # C(d + 1, i)
                                                /\ x = Difference(P(d + 1, i), C(d + 1, i), usize(i))}
<1>1. ASSUME NEW d \in Nat, NEW i \in Positions(d), NEW x
      PROVE  x \in DiffChildren(Difference(P(d, i), C(d, i), usize(i))) <=>
             \E j \in {2 * i, 2 * i + 1} : /\ P(d + 1, j) # C(d + 1, j)
                                           /\ x = Difference(P(d + 1, j), C(d + 1, j), usize(j))
  <2>1. i \in Nat BY Pow2Type DEF Positions
  <2>2. 2 * i \in Positions(d + 1) /\ 2 * i + 1 \in Positions(d + 1) BY ChildPositions
  <2>3. /\ (2 * i) \div 2 = i /\ ((2 * i) % 2) + 1 = 1
        /\ (2 * i + 1) \div 2 = i /\ ((2 * i + 1) % 2) + 1 = 2
    BY <2>1
  <2>4. /\ P(d + 1, 2 * i) = get_children(P(d, i))[1]
        /\ P(d + 1, 2 * i + 1) = get_children(P(d, i))[2]
    <3>1. P(d + 1, 2 * i) = get_children(P(d, (2 * i) \div 2))[((2 * i) % 2) + 1]
      BY <2>2, NodeLayersAt
    <3>2. P(d + 1, 2 * i + 1) =
             get_children(P(d, (2 * i + 1) \div 2))[((2 * i + 1) % 2) + 1]
      BY <2>2, NodeLayersAt
    <3> QED BY <2>3, <3>1, <3>2
  <2>5. /\ C(d + 1, 2 * i) = get_children(C(d, i))[1]
        /\ C(d + 1, 2 * i + 1) = get_children(C(d, i))[2]
    <3>1. C(d + 1, 2 * i) = get_children(C(d, (2 * i) \div 2))[((2 * i) % 2) + 1]
      BY <2>2, NodeLayersAt
    <3>2. C(d + 1, 2 * i + 1) =
             get_children(C(d, (2 * i + 1) \div 2))[((2 * i + 1) % 2) + 1]
      BY <2>2, NodeLayersAt
    <3> QED BY <2>3, <3>1, <3>2
  <2> DEFINE e == Difference(P(d, i), C(d, i), usize(i))
  <2>6. e.previous = P(d, i) /\ e.current = C(d, i) /\ e.path = usize(i) BY DEF Difference
  <2> HIDE DEF e, P, C
  <2>7. DiffChildren(e) =
          {Difference(get_children(P(d, i))[side], get_children(C(d, i))[side],
                      usize(2 * usize(i)) + side - 1) :
             side \in {s \in 1 .. 2 : get_children(P(d, i))[s] # get_children(C(d, i))[s]}}
    BY <2>6 DEF DiffChildren
  <2>8. x \in DiffChildren(e) <=>
          \E side \in 1 .. 2 :
             /\ get_children(P(d, i))[side] # get_children(C(d, i))[side]
             /\ x = Difference(get_children(P(d, i))[side], get_children(C(d, i))[side],
                               usize(2 * usize(i)) + side - 1)
    BY <2>7
  <2>9. x \in DiffChildren(e) <=>
          \/ /\ P(d + 1, 2 * i) # C(d + 1, 2 * i)
             /\ x = Difference(P(d + 1, 2 * i), C(d + 1, 2 * i), usize(2 * i))
          \/ /\ P(d + 1, 2 * i + 1) # C(d + 1, 2 * i + 1)
             /\ x = Difference(P(d + 1, 2 * i + 1), C(d + 1, 2 * i + 1), usize(2 * i + 1))
    <3>1. /\ usize(2 * usize(i)) + 1 - 1 = usize(2 * i)
          /\ usize(2 * usize(i)) + 2 - 1 = usize(2 * i + 1)
      BY <2>1, UsizeShift
    <3>2. 1 .. 2 = {1, 2} OBVIOUS
    <3> QED BY <2>4, <2>5, <2>8, <3>1, <3>2
  <2> QED BY <2>9 DEF e
<1>2. 0 \in S
  <2>1. P(0, 0) = p0 /\ C(0, 0) = c0 /\ Positions(0) = {0}
    <3>1. NodeLayers(p0)[0] = [i \in {0} |-> p0] BY NodeLayersDef
    <3>2. NodeLayers(c0)[0] = [i \in {0} |-> c0] BY NodeLayersDef
    <3>3. Positions(0) = {0} BY Pow2Def DEF Positions
    <3> QED BY <3>1, <3>2, <3>3
  <2>2. D(0) = {Difference(P(0, 0), C(0, 0), usize(0))}
    <3>1. 0 < Pow2[USIZE_BITS] BY PatriciaAssumption, Pow2Type
    <3>2. usize(0) = 0 BY <3>1, UsizeLow
    <3> QED BY <2>1, <3>2, DiffLayersDef
  <2>3. D(0 + 1) = UNION {DiffChildren(n) : n \in D(0)} BY DiffLayersDef
  <2>4. Positions(0 + 1) = {2 * 0, 2 * 0 + 1}
    <3>1. Pow2[0] = 1 /\ Pow2[0 + 1] = 2 * Pow2[0] BY Pow2Def
    <3> QED BY <3>1 DEF Positions
  <2> HIDE DEF D, P, C
  <2>5. D(0 + 1) = DiffChildren(Difference(P(0, 0), C(0, 0), usize(0))) BY <2>2, <2>3
  <2>6. \A x : x \in D(0 + 1) <=>
           \E i \in Positions(0 + 1) : /\ P(0 + 1, i) # C(0 + 1, i)
                                       /\ x = Difference(P(0 + 1, i), C(0 + 1, i), usize(i))
    BY <1>1, <2>1, <2>4, <2>5
  <2> QED BY <2>6
<1>3. ASSUME NEW d \in Nat, d \in S PROVE d + 1 \in S
  <2>1. PICK k \in Nat : k = d + 1 OBVIOUS
  <2>2. D(k + 1) = UNION {DiffChildren(n) : n \in D(k)} BY DiffLayersDef
  <2>3. \A x : x \in D(k) <=>
           \E i \in Positions(k) : P(k, i) # C(k, i) /\ x = Difference(P(k, i), C(k, i), usize(i))
    BY <1>3, <2>1
  <2>4. ASSUME NEW j \in Positions(k + 1), P(k + 1, j) # C(k + 1, j)
        PROVE  \E i \in Positions(k) : P(k, i) # C(k, i) /\ j \in {2 * i, 2 * i + 1}
    <3>1. PICK i \in Positions(k) : i = j \div 2 BY ParentPosition
    <3>2. j \in Nat BY Pow2Type DEF Positions
    <3>3. j \in {2 * i, 2 * i + 1} BY <3>1, <3>2
    <3>4. /\ P(k + 1, j) = get_children(P(k, j \div 2))[(j % 2) + 1]
          /\ C(k + 1, j) = get_children(C(k, j \div 2))[(j % 2) + 1]
      BY NodeLayersAt
    <3> HIDE DEF P, C
    <3>5. P(k, i) # C(k, i) BY <2>4, <3>1, <3>4
    <3> QED BY <3>3, <3>5
  <2>5. \A i \in Positions(k) : 2 * i \in Positions(k + 1) /\ 2 * i + 1 \in Positions(k + 1)
    BY ChildPositions
  <2> HIDE DEF D, P, C
  <2>6. ASSUME NEW x, x \in D(k + 1)
        PROVE  \E j \in Positions(k + 1) : /\ P(k + 1, j) # C(k + 1, j)
                                           /\ x = Difference(P(k + 1, j), C(k + 1, j), usize(j))
    <3>1. PICK n \in D(k) : x \in DiffChildren(n) BY <2>2, <2>6
    <3>2. PICK i \in Positions(k) : n = Difference(P(k, i), C(k, i), usize(i)) BY <2>3
    <3>3. PICK j \in {2 * i, 2 * i + 1} :
             P(k + 1, j) # C(k + 1, j) /\ x = Difference(P(k + 1, j), C(k + 1, j), usize(j))
      BY <1>1, <3>1, <3>2
    <3>4. j \in Positions(k + 1) BY <2>5
    <3> QED BY <3>3, <3>4
  <2>7. ASSUME NEW x, NEW j \in Positions(k + 1), P(k + 1, j) # C(k + 1, j),
               x = Difference(P(k + 1, j), C(k + 1, j), usize(j))
        PROVE  x \in D(k + 1)
    <3>1. PICK i \in Positions(k) : P(k, i) # C(k, i) /\ j \in {2 * i, 2 * i + 1}
      BY <2>4, <2>7
    <3>2. Difference(P(k, i), C(k, i), usize(i)) \in D(k) BY <2>3, <3>1
    <3>3. x \in DiffChildren(Difference(P(k, i), C(k, i), usize(i))) BY <1>1, <2>7, <3>1
    <3> QED BY <2>2, <3>2, <3>3
  <2> QED BY <2>1, <2>6, <2>7
<1>4. \A d \in Nat : d \in S
  <2> HIDE DEF S
  <2> QED BY <1>2, <1>3, NatSetInduction
<1> SUFFICES ASSUME NEW e \in Nat \ {0}
             PROVE  D(e) = {Difference(P(e, i), C(e, i), usize(i)) :
                               i \in {j \in Positions(e) : P(e, j) # C(e, j)}}
  OBVIOUS
<1>5. e - 1 \in Nat /\ (e - 1) + 1 = e OBVIOUS
<1>6. \A x : x \in D(e) <=>
         \E i \in Positions(e) : P(e, i) # C(e, i) /\ x = Difference(P(e, i), C(e, i), usize(i))
  BY <1>4, <1>5
<1> HIDE DEF D, P, C
<1> QED BY <1>6

\* The leaves that get_diff_between_trees reports are those with another value.
LEMMA DiffOfTrees ==
  ASSUME NEW p0, NEW old, NEW st, ReadsTree(p0, old, st),
         NEW c0, NEW new, NEW st2, ReadsTree(c0, new, st2)
  PROVE  get_diff_between_trees(p0, c0) =
         {Difference(old[i], new[i], usize(i)) : i \in {j \in Index : old[j] # new[j]}}
<1> USE NodesAssumption
<1> DEFINE P(i) == NodeLayers(p0)[Height][i]
           C(i) == NodeLayers(c0)[Height][i]
<1>1. DiffLayers(p0, c0)[Height] =
        {Difference(P(i), C(i), usize(i)) : i \in {j \in Positions(Height) : P(j) # C(j)}}
  BY DiffLayersAre
<1>2. ASSUME NEW i \in Index
      PROVE  /\ P(i) # C(i) <=> old[i] # new[i]
             /\ LeafValue(P(i).bottom) = old[i] /\ LeafValue(C(i).bottom) = new[i]
  <2>1. P(i) = from_hash(LeafFact(old[i]), 0) BY LeafRead
  <2>2. C(i) = from_hash(LeafFact(new[i]), 0) BY LeafRead
  <2>3. PICK v \in Value, w \in Value : v = old[i] /\ w = new[i] BY DEF ReadsTree, Tree
  <2>4. LeafFact(v) = LeafFact(w) => v = w BY DEF LeafFact, EMPTY_NODE_HASH
  <2>5. from_hash(LeafFact(v), 0) = from_hash(LeafFact(w), 0) => LeafFact(v) = LeafFact(w)
    BY DEF from_hash, VirtualNode
  <2>6. \A u \in Value : LeafValue(LeafFact(u)) = u
    BY DEF LeafValue, LeafFact, EMPTY_NODE_HASH
  <2>7. \A f : from_hash(f, 0).bottom = f BY DEF from_hash, VirtualNode
  <2> QED BY <2>1, <2>2, <2>3, <2>4, <2>5, <2>6, <2>7
<1>3. Positions(Height) = Index BY DEF Index
<1>4. \A p, c, i : /\ Difference(p, c, i).previous = p
                   /\ Difference(p, c, i).current = c
                   /\ Difference(p, c, i).path = i
  BY DEF Difference
<1> HIDE DEF P, C
<1> DEFINE S == {Difference(old[i], new[i], usize(i)) : i \in {j \in Index : old[j] # new[j]}}
<1>5. ASSUME NEW x, x \in get_diff_between_trees(p0, c0) PROVE x \in S
  <2>1. PICK d \in DiffLayers(p0, c0)[Height] :
           x = Difference(LeafValue(d.previous.bottom), LeafValue(d.current.bottom), d.path)
    BY <1>5 DEF get_diff_between_trees
  <2>2. PICK i \in Index : P(i) # C(i) /\ d = Difference(P(i), C(i), usize(i))
    BY <1>1, <1>3
  <2>3. x = Difference(old[i], new[i], usize(i)) BY <1>2, <1>4, <2>1, <2>2
  <2> QED BY <1>2, <2>2, <2>3
<1>6. ASSUME NEW i \in Index, old[i] # new[i]
      PROVE  Difference(old[i], new[i], usize(i)) \in get_diff_between_trees(p0, c0)
  <2>1. PICK d : d = Difference(P(i), C(i), usize(i)) OBVIOUS
  <2>2. d \in DiffLayers(p0, c0)[Height] BY <1>1, <1>2, <1>3, <1>6, <2>1
  <2>3. Difference(LeafValue(d.previous.bottom), LeafValue(d.current.bottom), d.path)
        = Difference(old[i], new[i], usize(i))
    BY <1>2, <1>4, <2>1
  <2> QED BY <2>2, <2>3 DEF get_diff_between_trees
<1> QED BY <1>5, <1>6

\* Only Commit ends an update.
LEMMA DoneIsCommit ==
  ASSUME PatriciaInv, [Next]_vars, phase' = "done", ~ UNCHANGED vars
  PROVE  Commit /\ modifications' = modifications /\ leaves' = Unify(leaves, modifications)
<1>1. Commit
  <2>1. ASSUME NEW mods, Update(mods) PROVE FALSE BY <2>1 DEF Update, Begin
  <2>2. CASE Retry BY <2>2 DEF Retry, Begin
  <2>3. CASE Visit BY <2>3 DEF Visit, Missing
  <2>4. CASE EndTraversal BY <2>4 DEF EndTraversal
  <2>5. CASE WriteFactNodes BY <2>5 DEF WriteFactNodes
  <2> QED BY <2>1, <2>2, <2>3, <2>4, <2>5 DEF Next
<1> QED BY <1>1 DEF Commit

\* get_diff_between_trees of the old and the new root gives the leaves that
\* the update changed, under the low USIZE_BITS bits of their index.
THEOREM DiffAlwaysFindsChanges == Spec => DiffFindsChanges
<1>1. ASSUME PatriciaInv, PatriciaInv', [Next]_vars
      PROVE  [phase' = "done" =>
                get_diff_between_trees(from_hash(root, Height), from_hash(root', Height))
                = {Difference(leaves[i], leaves'[i], usize(i)) :
                      i \in {j \in Index : leaves[j] # leaves'[j]}}]_vars
  <2>1. ReadsTree(from_hash(root, Height), leaves, storage)
    BY <1>1, CurrentTree DEF PatriciaInv
  <2>2. ReadsTree(from_hash(root', Height), leaves', storage')
    BY <1>1, RootStandsFor DEF PatriciaInv, StorageInv
  <2> QED BY <2>1, <2>2, DiffOfTrees
<1> QED BY <1>1, SpecInv, PTL DEF Spec, DiffFindsChanges

\* In a tree that is no higher than a usize is wide, get_diff_between_trees
\* reports each leaf that an update changed under its own index.
THEOREM DiffIsExactInLowTrees ==
  ASSUME Height <= USIZE_BITS
  PROVE  Spec => [][phase' = "done" =>
                      get_diff_between_trees(from_hash(root, Height), from_hash(root', Height))
                      = {Difference(leaves[i], leaves'[i], i) :
                            i \in {j \in Index : leaves[j] # leaves'[j]}}]_vars
<1>1. ASSUME NEW i \in Index PROVE usize(i) = i
  <2> USE NodesAssumption, PatriciaAssumption
  <2>1. i \in Nat /\ i < Pow2[Height] BY Pow2Type DEF Index, Positions
  <2>2. Pow2[Height] <= Pow2[USIZE_BITS]
    <3>1. CASE Height = USIZE_BITS BY <3>1, Pow2Type
    <3>2. CASE Height < USIZE_BITS BY <3>2, Pow2Type, Pow2Less
    <3> QED BY <3>1, <3>2
  <2>3. i < Pow2[USIZE_BITS] BY <2>1, <2>2, Pow2Type
  <2> QED BY <2>1, <2>3, UsizeLow
<1>2. ASSUME PatriciaInv, PatriciaInv', [Next]_vars
      PROVE  [phase' = "done" =>
                get_diff_between_trees(from_hash(root, Height), from_hash(root', Height))
                = {Difference(leaves[i], leaves'[i], i) :
                      i \in {j \in Index : leaves[j] # leaves'[j]}}]_vars
  <2>1. ReadsTree(from_hash(root, Height), leaves, storage)
    BY <1>2, CurrentTree DEF PatriciaInv
  <2>2. ReadsTree(from_hash(root', Height), leaves', storage')
    BY <1>2, RootStandsFor DEF PatriciaInv, StorageInv
  <2>3. {Difference(leaves[i], leaves'[i], usize(i)) :
            i \in {j \in Index : leaves[j] # leaves'[j]}}
        = {Difference(leaves[i], leaves'[i], i) :
              i \in {j \in Index : leaves[j] # leaves'[j]}}
    BY <1>1
  <2> QED BY <2>1, <2>2, <2>3, DiffOfTrees
<1> QED BY <1>2, SpecInv, PTL DEF Spec

-----------------------------------------------------------------------------
(* The facts that update() returns.                                        *)

\* combine() gives the triple of the new node and keeps the new facts.
LEMMA CombineFacts ==
  ASSUME NEW h \in Nat, h < Height, NEW l, NEW r, SubtreeOK(l, h), SubtreeOK(r, h),
         NEW a, NEW b, NEW st, Computes(a, l, st), Computes(b, r, st)
  PROVE  LET c == combine(a, b)
             s == ReferenceNode(l, r)
         IN /\ View(c) = s.node
            /\ ~is_empty(l.node) => a.bottom.facts \subseteq c.bottom.facts
            /\ ~is_empty(r.node) => b.bottom.facts \subseteq c.bottom.facts
            /\ ~is_empty(l.node) /\ ~is_empty(r.node) =>
                  /\ s.node.bottom \in c.bottom.facts
                  /\ a.length # 0 => hash_node(l.node) \in c.bottom.facts
                  /\ b.length # 0 => hash_node(r.node) \in c.bottom.facts
<1> USE NodesAssumption
<1> DEFINE s == ReferenceNode(l, r)
           c == combine(a, b)
<1>1. h \in 0 .. Height /\ h + 1 \in 0 .. Height OBVIOUS
<1>2. /\ calc_is_empty(a.bottom) <=> is_empty(l.node)
      /\ calc_is_empty(b.bottom) <=> is_empty(r.node)
      /\ a.height = h /\ b.height = h
  BY <1>1, CalcIsEmpty
<1>3. NodeOK(l.node, h) /\ NodeOK(r.node, h) BY DEF SubtreeOK
<1>4. l.node.height = h /\ r.node.height = h BY <1>3, NodeHeight
<1>5. CASE is_empty(l.node) /\ is_empty(r.node)
  <2>1. s.node = empty_node(h + 1)
    <3>1. s = Subtree(empty_node(h + 1), l.facts \cup r.facts) BY <1>5, EmptyChildren
    <3>2. \A n, fs : Subtree(n, fs).node = n BY DEF Subtree
    <3> QED BY <3>1, <3>2, Zenon
  <2>2. c = CalcNode(Constant(EMPTY_NODE_HASH), 0, 0, h + 1)
    BY <1>2, <1>5 DEF combine, create_from_node, empty_node, from_hash, VirtualNode
  <2>3. View(c) = s.node
    BY <2>1, <2>2 DEF View, CalcNode, Constant, empty_node, from_hash
  <2> QED BY <1>5, <2>3
<1>6. CASE ~is_empty(l.node) /\ ~is_empty(r.node)
  <2> DEFINE binary == BinaryNodeFact(hash_node(l.node), hash_node(r.node))
             new == {binary} \cup commit(a).facts \cup commit(b).facts
  <2>1. s.node = from_hash(binary, h + 1) BY <1>4, <1>6 DEF ReferenceNode, Subtree
  <2>2. /\ commit(a).hash = hash_node(l.node) /\ a.bottom.facts \subseteq commit(a).facts
        /\ commit(b).hash = hash_node(r.node) /\ b.bottom.facts \subseteq commit(b).facts
    <3>1. commit(a).hash = hash_node(l.node) /\ a.bottom.facts \subseteq commit(a).facts
      BY <1>1, CommitHash
    <3>2. commit(b).hash = hash_node(r.node) /\ b.bottom.facts \subseteq commit(b).facts
      BY <1>1, CommitHash
    <3> QED BY <3>1, <3>2
  <2>3. c = CalcNode(BinaryCalculation(commit(a), commit(b)), 0, 0, h + 1)
    BY <1>2, <1>6 DEF combine, combine_to_binary_node
  <2>4. /\ c.bottom = BinaryCalculation(commit(a), commit(b))
        /\ c.path = 0 /\ c.length = 0 /\ c.height = h + 1
    BY <2>3 DEF CalcNode
  <2>5. c.bottom.hash = binary /\ c.bottom.facts = new
    BY <2>2, <2>4 DEF BinaryCalculation
  <2>6. \A x : is_virtual_edge(x) => commit(x).hash \in commit(x).facts
    BY DEF commit, EdgeCalculation
  <2>7. /\ a.length # 0 => commit(a).hash \in commit(a).facts
        /\ b.length # 0 => commit(b).hash \in commit(b).facts
    BY <2>6 DEF is_virtual_edge
  <2>8. binary \in new /\ commit(a).facts \subseteq new /\ commit(b).facts \subseteq new
    OBVIOUS
  <2> HIDE DEF binary, new
  <2>9. View(c) = s.node BY <2>1, <2>4, <2>5 DEF View, from_hash
  <2>10. s.node.bottom = binary BY <2>1 DEF from_hash, VirtualNode
  <2> HIDE DEF s, c
  <2>11. /\ a.bottom.facts \subseteq c.bottom.facts
         /\ b.bottom.facts \subseteq c.bottom.facts
         /\ s.node.bottom \in c.bottom.facts
         /\ a.length # 0 => hash_node(l.node) \in c.bottom.facts
         /\ b.length # 0 => hash_node(r.node) \in c.bottom.facts
    BY <2>2, <2>5, <2>7, <2>8, <2>10
  <2> QED BY <2>9, <2>11 DEF s, c
<1>7. ASSUME NEW x, Computes(x, l, st) \/ Computes(x, r, st)
      PROVE  decommit(x).bottom.facts = x.bottom.facts
  <2>1. /\ x.bottom.calc \in {"constant", "leaf", "binary"}
        /\ x.bottom.calc = "constant" => x.bottom.facts = {}
    BY <1>7 DEF Computes
  <2>2. decommit(x) = x \/ (x.bottom.calc = "constant" /\ decommit(x).bottom.facts = {})
    BY <2>1 DEF decommit, CalcNode, Constant
  <2> QED BY <2>1, <2>2
<1>8. CASE is_empty(l.node) /\ ~is_empty(r.node)
  <2> DEFINE d == decommit(b)
  <2>1. s.node = VirtualNode(r.node.bottom, r.node.path + Pow2[r.node.length],
                             r.node.length + 1, h + 1)
    BY <1>4, <1>8 DEF ReferenceNode, Subtree
  <2>2. View(d) = r.node BY <1>1, <1>8, DecommitTriple
  <2>3. d.bottom.facts = b.bottom.facts BY <1>7
  <2>4. c = CalcNode(d.bottom, d.path + Pow2[d.length], d.length + 1, d.height + 1)
    BY <1>2, <1>8 DEF combine, combine_to_virtual_edge_node
  <2> HIDE DEF d
  <2>5. /\ d.bottom.hash = r.node.bottom /\ d.path = r.node.path
        /\ d.length = r.node.length /\ d.height = h
    BY <1>4, <2>2, ViewFields
  <2>6. /\ c.bottom = d.bottom /\ c.path = d.path + Pow2[d.length]
        /\ c.length = d.length + 1 /\ c.height = d.height + 1
    BY <2>4 DEF CalcNode
  <2>7. View(c) = s.node BY <2>1, <2>5, <2>6 DEF View
  <2> QED BY <1>8, <2>3, <2>6, <2>7
<1>9. CASE ~is_empty(l.node) /\ is_empty(r.node)
  <2> DEFINE d == decommit(a)
  <2>1. s.node = VirtualNode(l.node.bottom, l.node.path, l.node.length + 1, h + 1)
    BY <1>4, <1>9 DEF ReferenceNode, Subtree
  <2>2. View(d) = l.node BY <1>1, <1>9, DecommitTriple
  <2>3. d.bottom.facts = a.bottom.facts BY <1>7
  <2>4. c = CalcNode(d.bottom, d.path + 0, d.length + 1, d.height + 1)
    BY <1>2, <1>9 DEF combine, combine_to_virtual_edge_node
  <2> HIDE DEF d
  <2>5. /\ d.bottom.hash = l.node.bottom /\ d.path = l.node.path
        /\ d.length = l.node.length /\ d.height = h /\ l.node.path \in Nat
    BY <1>3, <1>4, <2>2, ViewFields DEF NodeOK, Positions
  <2>6. /\ c.bottom = d.bottom /\ c.path = d.path
        /\ c.length = d.length + 1 /\ c.height = d.height + 1
    BY <2>4, <2>5 DEF CalcNode
  <2>7. View(c) = s.node BY <2>1, <2>5, <2>6 DEF View
  <2> QED BY <1>9, <2>3, <2>6, <2>7
<1> QED BY <1>5, <1>6, <1>8, <1>9

\* F has the fact of the node at height h and position p, where a reader who
\* knows its triple opens it, and where a reader who knows its hash does.
HeldNode(tree, h, p, F) ==
    LET n == Ref(tree, h, p).node
    IN n.length = 0 /\ ~is_empty(n) => n.bottom \in F

HeldEdge(tree, h, p, F) ==
    LET n == Ref(tree, h, p).node
    IN /\ n.length # 0
       /\ ~is_empty(Ref(tree, h, 2 * (p \div 2)).node)
       /\ ~is_empty(Ref(tree, h, 2 * (p \div 2) + 1).node)
       => hash_node(n) \in F

\* The calculation c at index i has the facts of the nodes above the modified
\* leaves.
Carries(i, c, mods, tree) ==
    LET g == c.height
    IN \A leaf \in DOMAIN mods : leaf \in Under(i, g) =>
          /\ g # 0 => View(c) = Ref(tree, g, Pos(i, g)).node
          /\ \A h \in 1 .. g : \A p \in Positions(Height - h) :
                leaf \in Block(p, h) => HeldNode(tree, h, p, c.bottom.facts)
          /\ \A h \in 1 .. (g - 1) : \A p \in Positions(Height - h) :
                leaf \in Block(p, h) => HeldEdge(tree, h, p, c.bottom.facts)

\* The node above two siblings carries what they carry, and its own fact.
LEMMA CombineCarries ==
  ASSUME NEW tree \in Tree, NEW st, NEW mods, IsMods(mods), NEW N, NEW P, NEW k,
         NEW l, NEW r, Pair(N, tree, st, P, k, l, r),
         Carries(2 * P, N[2 * P], mods, tree),
         Carries(2 * P + 1, N[2 * P + 1], mods, tree)
  PROVE  Carries(P, combine(N[2 * P], N[2 * P + 1]), mods, tree)
<1> USE NodesAssumption
<1>1. PICK a, b : a = N[2 * P] /\ b = N[2 * P + 1] OBVIOUS
<1> DEFINE c == combine(a, b)
           g == k + 1
           F == c.bottom.facts
           s == ReferenceNode(l, r)
           Q == Pos(P, g)
<1>2. /\ k \in Nat /\ k < Height /\ P \in Nat \ {0} /\ At(P, g)
      /\ a.height = k /\ b.height = k
      /\ l = Ref(tree, k, Pos(2 * P, k)) /\ r = Ref(tree, k, Pos(2 * P + 1, k))
      /\ SubtreeOK(l, k) /\ SubtreeOK(r, k) /\ Ref(tree, g, Q) = s
      /\ Computes(a, l, st) /\ Computes(b, r, st)
  BY <1>1 DEF Pair
<1>3. /\ View(c) = s.node
      /\ ~is_empty(l.node) => a.bottom.facts \subseteq F
      /\ ~is_empty(r.node) => b.bottom.facts \subseteq F
      /\ ~is_empty(l.node) /\ ~is_empty(r.node) =>
            /\ s.node.bottom \in F
            /\ a.length # 0 => hash_node(l.node) \in F
            /\ b.length # 0 => hash_node(r.node) \in F
  BY <1>2, CombineFacts
<1>4. c.height = g
  <2>1. SubtreeOK(s, g) /\ g \in Nat BY <1>2, ReferenceNodeOK
  <2>2. s.node.height = g BY <2>1, NodeHeight DEF SubtreeOK
  <2> HIDE DEF c, s
  <2> QED BY <1>3, <2>2, ViewFields
<1>5. /\ At(2 * P, k) /\ Pos(2 * P, k) = 2 * Q
      /\ At(2 * P + 1, k) /\ Pos(2 * P + 1, k) = 2 * Q + 1
  BY <1>2, AtChildren
<1>6. /\ is_empty(s.node) <=> is_empty(l.node) /\ is_empty(r.node)
      /\ s.node.length = 0 /\ ~is_empty(s.node) => ~is_empty(l.node) /\ ~is_empty(r.node)
  BY <1>2, ReferenceNodeNotEmpty
<1>7. Q \in Nat /\ Under(P, g) = Block(Q, g) BY <1>2, UnderBlock
<1>8. k \in 0 .. Height /\ g \in 0 .. Height BY <1>2
<1> HIDE DEF c, F, s, Q
<1>9. ASSUME NEW leaf \in DOMAIN mods, leaf \in Under(P, g)
      PROVE  /\ \A h \in 1 .. g : \A p \in Positions(Height - h) :
                   leaf \in Block(p, h) => HeldNode(tree, h, p, F)
             /\ \A h \in 1 .. (g - 1) : \A p \in Positions(Height - h) :
                   leaf \in Block(p, h) => HeldEdge(tree, h, p, F)
  <2>1. leaf \in Index /\ leaf \in Int BY DEF IsMods, Index, Positions
  <2>2. leaf \in Under(2 * P, k) \/ leaf \in Under(2 * P + 1, k)
    BY <1>2, <1>9, <2>1, UnderSplit
  <2>3. PICK j \in {2 * P, 2 * P + 1}, x \in {a, b}, t \in {l, r} :
          /\ leaf \in Under(j, k) /\ At(j, k) /\ Carries(j, x, mods, tree)
          /\ x.height = k /\ t = Ref(tree, k, Pos(j, k)) /\ Pos(j, k) \in {2 * Q, 2 * Q + 1}
          /\ ~is_empty(t.node) => x.bottom.facts \subseteq F
          /\ ~is_empty(l.node) /\ ~is_empty(r.node) /\ x.length # 0 => hash_node(t.node) \in F
    <3>1. CASE leaf \in Under(2 * P, k) BY <1>1, <1>2, <1>3, <1>5, <3>1
    <3>2. CASE leaf \in Under(2 * P + 1, k) BY <1>1, <1>2, <1>3, <1>5, <3>2
    <3> QED BY <2>2, <3>1, <3>2
  <2>4. /\ k # 0 => View(x) = t.node
        /\ \A h \in 1 .. k : \A p \in Positions(Height - h) :
              leaf \in Block(p, h) => HeldNode(tree, h, p, x.bottom.facts)
        /\ \A h \in 1 .. (k - 1) : \A p \in Positions(Height - h) :
              leaf \in Block(p, h) => HeldEdge(tree, h, p, x.bottom.facts)
    BY <2>3 DEF Carries
  <2>5. PICK q \in Nat : q = Pos(j, k) /\ Under(j, k) = Block(q, k) /\ q \in Positions(Height - k)
    BY <2>3, UnderBlock DEF At
  <2>6. leaf \in Block(q, k) BY <2>3, <2>5
  <2>7. ASSUME NEW h \in 1 .. k, NEW p \in Positions(Height - h), leaf \in Block(p, h),
               ~is_empty(Ref(tree, h, p).node)
        PROVE  x.bottom.facts \subseteq F
    <3>1. h \in 0 .. Height /\ k \in h .. Height BY <1>2
    <3>2. ~is_empty(Ref(tree, k, q).node)
      BY <2>1, <2>5, <2>6, <2>7, <3>1, NotEmptyAbove
    <3> QED BY <2>3, <2>5, <3>2
  <2>8. ASSUME NEW h \in 1 .. g, NEW p \in Positions(Height - h), leaf \in Block(p, h)
        PROVE  HeldNode(tree, h, p, F)
    <3>1. p \in Nat
      <4>1. Height - h \in Nat BY <1>2
      <4> QED BY <4>1, PositionsNat
    <3>2. CASE h = g
      <4>1. leaf \in Block(p, g) /\ leaf \in Block(Q, g) BY <1>7, <1>9, <2>8, <3>2
      <4>2. p = Q BY <1>2, <1>7, <2>1, <3>1, <4>1, BlockEq
      <4>3. Ref(tree, h, p) = s BY <1>2, <3>2, <4>2
      <4> QED BY <1>3, <1>6, <4>3 DEF HeldNode
    <3>3. CASE h # g
      <4>1. h \in 1 .. k BY <1>2, <3>3
      <4>2. HeldNode(tree, h, p, x.bottom.facts) BY <2>4, <2>8, <4>1
      <4>3. ~is_empty(Ref(tree, h, p).node) => x.bottom.facts \subseteq F
        BY <2>7, <2>8, <4>1
      <4> QED BY <4>2, <4>3 DEF HeldNode
    <3> QED BY <3>2, <3>3
  <2>9. ASSUME NEW h \in 1 .. (g - 1), NEW p \in Positions(Height - h), leaf \in Block(p, h)
        PROVE  HeldEdge(tree, h, p, F)
    <3>1. h \in 1 .. k /\ h \in 0 .. Height /\ Height - h \in Nat BY <1>2
    <3>2. p \in Nat BY <3>1, PositionsNat
    <3>3. CASE h = k
      <4>1. p = q BY <1>2, <2>1, <2>6, <2>9, <3>2, <3>3, BlockEq
      <4>2. p \div 2 = Q BY <1>7, <2>3, <2>5, <4>1
      <4>3. Ref(tree, h, p) = t BY <2>3, <2>5, <3>3, <4>1
      <4>4. Ref(tree, h, 2 * (p \div 2)) = l /\ Ref(tree, h, 2 * (p \div 2) + 1) = r
        BY <1>2, <1>5, <3>3, <4>2
      <4>5. x.length = t.node.length
        <5>1. k # 0 BY <3>1, <3>3
        <5> QED BY <2>4, <5>1, ViewFields
      <4> QED BY <2>3, <4>3, <4>4, <4>5 DEF HeldEdge
    <3>4. CASE h # k
      <4>1. h \in 1 .. (k - 1) BY <1>2, <3>1, <3>4
      <4>2. HeldEdge(tree, h, p, x.bottom.facts) BY <2>4, <2>9, <4>1
      <4>3. Ref(tree, h, p).node.length # 0 => ~is_empty(Ref(tree, h, p).node)
        <5>1. SubtreeOK(Ref(tree, h, p), h) BY <3>1, RefOK
        <5> QED BY <5>1 DEF SubtreeOK, NodeOK, is_empty, EMPTY_NODE_HASH
      <4>4. ~is_empty(Ref(tree, h, p).node) => x.bottom.facts \subseteq F
        BY <2>7, <2>9, <3>1
      <4> QED BY <4>2, <4>3, <4>4 DEF HeldEdge
    <3> QED BY <3>3, <3>4
  <2> QED BY <2>8, <2>9
<1>10. Carries(P, c, mods, tree) BY <1>2, <1>3, <1>4, <1>9 DEF Carries, F, Q
<1> QED BY <1>1, <1>10 DEF c

AllCarry(N, mods, tree) == \A i \in DOMAIN N : Carries(i, N[i], mods, tree)

\* update_necessary keeps what the nodes carry.
LEMMA MergesCarry ==
  ASSUME NEW tree \in Tree, NEW st, EMPTY_NODE_HASH \in st, NEW mods, IsMods(mods),
         NEW Q, NEW i, NEW N,
         i \in DOMAIN N, NodeEntries(N, tree, st),
         \A leaf \in Index : OneOwner(Q, N, leaf),
         \A j \in DOMAIN N : Sibling(j) \in DOMAIN N => j = i \/ Sibling(j) = i,
         AllCarry(N, mods, tree)
  PROVE  AllCarry(update_necessary(i, N).nodes, mods, tree)
<1> USE NodesAssumption
<1> DEFINE m(k) == Merges(i, N)[k]
           S == {k \in Nat : AllCarry(m(k).nodes, mods, tree)}
<1>1. 0 \in S
  <2>1. m(0) = [index |-> i, nodes |-> N, reads |-> {}] BY MergesDef
  <2>2. m(0).nodes = N BY <2>1
  <2> QED BY <2>2
<1>2. ASSUME NEW k \in Nat, k \in S PROVE k + 1 \in S
  <2>1. m(k + 1) = Merge(m(k)) BY MergesDef
  <2>2. MergeInv(m(k), k, Q, tree, st) BY MergesInv
  <2>3. PICK s : s = m(k) OBVIOUS
  <2> DEFINE M == s.nodes
             x == s.index
  <2>4. /\ x \in DOMAIN M /\ NodeEntries(M, tree, st)
        /\ \A leaf \in Index : OneOwner(Q, M, leaf)
    BY <2>2, <2>3 DEF MergeInv
  <2>5. AllCarry(M, mods, tree) BY <1>2, <2>3
  <2> HIDE DEF m
  <2>6. CASE Sibling(x) \notin DOMAIN M
    <3>1. Merge(s) = s BY <2>6 DEF Merge
    <3> QED BY <2>1, <2>3, <2>5, <3>1
  <2>7. CASE Sibling(x) \in DOMAIN M
    <3> DEFINE p == x \div 2
               c == combine(M[2 * p], M[2 * p + 1])
               R == [j \in (DOMAIN M \ {2 * p, 2 * p + 1}) \cup {p} |->
                       IF j = p THEN c ELSE M[j]]
    <3>1. Merge(s) = [index |-> p, nodes |-> R,
                      reads |-> s.reads \cup CombineReads(M[2 * p], M[2 * p + 1])]
      BY <2>7 DEF Merge
    <3>2. Merge(s).nodes = R BY <3>1
    <3> HIDE DEF M, x
    <3>3. PICK h, l, r : Pair(M, tree, st, p, h, l, r) BY <2>4, <2>7, SiblingsPair
    <3> HIDE DEF p
    <3>4. 2 * p \in DOMAIN M /\ 2 * p + 1 \in DOMAIN M BY <3>3 DEF Pair
    <3>5. Carries(2 * p, M[2 * p], mods, tree) /\ Carries(2 * p + 1, M[2 * p + 1], mods, tree)
      BY <2>5, <3>4 DEF AllCarry
    <3>6. Carries(p, c, mods, tree) BY <3>3, <3>5, CombineCarries
    <3> HIDE DEF c
    <3>7. p \notin DOMAIN M BY <2>4, <3>3, ParentIsNew
    <3>8. /\ DOMAIN R = (DOMAIN M \ {2 * p, 2 * p + 1}) \cup {p} /\ R[p] = c
          /\ \A j \in DOMAIN M \ {2 * p, 2 * p + 1} : R[j] = M[j]
      BY <3>7
    <3> HIDE DEF R
    <3>9. AllCarry(R, mods, tree) BY <2>5, <3>6, <3>8 DEF AllCarry
    <3> QED BY <2>1, <2>3, <3>2, <3>9
  <2> QED BY <2>6, <2>7
<1>3. \A k \in Nat : k \in S
  <2> HIDE DEF S
  <2> QED BY <1>1, <1>2, NatSetInduction
<1> QED BY <1>3 DEF update_necessary

\* The inner nodes above the modified leaves are in facts as soon as the
\* traversal has passed them, the new ones are with the calculations.
ReadInv ==
    \A leaf \in DOMAIN modifications :
       \A h \in 1 .. Height : \A p \in Positions(Height - h) :
          leaf \in Block(p, h) =>
             \/ ChildrenReads(NodeLayers(from_hash(root, Height))[Height - h][p])
                \subseteq facts
             \/ \E k \in DOMAIN queue :
                   /\ leaf \in Under(queue[k].index, queue[k].tree.height)
                   /\ h <= queue[k].tree.height

FactsInv ==
    phase \in {"traverse", "write", "commit"} =>
        /\ ReadInv
        /\ AllCarry(updated_nodes, modifications, Unify(leaves, modifications))
        /\ phase = "commit" =>
              \A f \in updated_nodes[1].bottom.facts : IsInner(f) => f \in facts

LEMMA BeginFacts ==
  ASSUME StorageInv, NEW mods, IsMods(mods), Begin(mods)
  PROVE  FactsInv'
<1> USE NodesAssumption
<1> DEFINE q == [index |-> 1, tree |-> from_hash(root, Height),
                 update |-> build_update_tree(mods)]
<1>1. /\ modifications' = mods /\ queue' = <<q>> /\ updated_nodes' = NoNodes
      /\ phase' = "traverse"
  BY DEF Begin
<1>2. q.index = 1 /\ q.tree.height = Height BY DEF from_hash, VirtualNode
<1> HIDE DEF q
<1>3. 1 \in DOMAIN queue' /\ queue'[1] = q BY <1>1
<1>4. Under(1, Height) = Index BY RootHasAllLeaves
<1>5. DOMAIN mods \subseteq Index BY DEF IsMods
<1>6. ReadInv' BY <1>1, <1>2, <1>3, <1>4, <1>5 DEF ReadInv
<1>7. AllCarry(updated_nodes', modifications', Unify(leaves', modifications'))
  BY <1>1 DEF AllCarry, NoNodes
<1> QED BY <1>1, <1>6, <1>7 DEF FactsInv

\* The head of the queue is opened: the modified leaves are below its children.
LEMMA VisitInnerFacts ==
  ASSUME PatriciaInv, FactsInv, phase = "traverse", queue # <<>>,
         queue[1].update.update = "tuple",
         queue' = Tail(queue) \o Children(queue[1]),
         facts' = facts \cup ChildrenReads(queue[1].tree),
         UNCHANGED <<storage, root, leaves, modifications, updated_nodes, phase>>
  PROVE  FactsInv'
<1> USE NodesAssumption
<1> DEFINE q == queue[1]
           n0 == from_hash(root, Height)
<1>1. StorageInv /\ FrontierInv /\ ReadInv BY DEF PatriciaInv, FactsInv
<1>2. PICK X : queue \in Seq(X) BY <1>1 DEF FrontierInv
<1>3. 1 \in DOMAIN queue BY <1>2
<1>4. Entry(q, n0, modifications) BY <1>1, <1>3 DEF FrontierInv
<1>5. ReadsTree(n0, leaves, storage) BY <1>1, CurrentTree
<1> HIDE DEF n0
<1>6. PICK a, b :
         /\ Children(q) = <<a, b>>
         /\ Entry(a, n0, modifications) /\ Entry(b, n0, modifications)
         /\ a.index = 2 * q.index /\ b.index = 2 * q.index + 1
         /\ a.tree.height \in Nat /\ b.tree.height = a.tree.height
         /\ q.tree.height = a.tree.height + 1
         /\ At(q.index, q.tree.height)
  BY <1>4, <1>5, EntryChildren
<1>7. PICK m \in Nat : m = Len(queue) BY <1>2
<1>8. /\ DOMAIN queue = 1 .. m /\ m >= 1
      /\ m \in DOMAIN queue' /\ queue'[m] = a
      /\ m + 1 \in DOMAIN queue' /\ queue'[m + 1] = b
      /\ \A k \in 2 .. m : k - 1 \in DOMAIN queue' /\ queue'[k - 1] = queue[k]
  <2>1. queue' = Tail(queue) \o <<a, b>> BY <1>6
  <2> QED BY <1>2, <1>7, <2>1
<1>9. q.tree = NodeLayers(n0)[Height - q.tree.height][Pos(q.index, q.tree.height)]
  BY <1>4 DEF Entry
<1>10. ReadInv'
  <2> SUFFICES ASSUME NEW leaf \in DOMAIN modifications, NEW h \in 1 .. Height,
                      NEW p \in Positions(Height - h), leaf \in Block(p, h)
               PROVE  \/ ChildrenReads(NodeLayers(n0)[Height - h][p]) \subseteq facts'
                      \/ \E k \in DOMAIN queue' :
                            /\ leaf \in Under(queue'[k].index, queue'[k].tree.height)
                            /\ h <= queue'[k].tree.height
    BY DEF ReadInv, n0
  <2>1. CASE ChildrenReads(NodeLayers(n0)[Height - h][p]) \subseteq facts BY <2>1
  <2>2. CASE \E k \in DOMAIN queue :
                /\ leaf \in Under(queue[k].index, queue[k].tree.height)
                /\ h <= queue[k].tree.height
    <3>1. PICK k \in DOMAIN queue : /\ leaf \in Under(queue[k].index, queue[k].tree.height)
                                    /\ h <= queue[k].tree.height
      BY <2>2
    <3>2. CASE k # 1
      <4>1. k \in 2 .. m BY <1>8, <3>2
      <4> QED BY <1>8, <3>1, <4>1
    <3>3. CASE k = 1
      <4>0. PICK i : i = q.index OBVIOUS
      <4>1. PICK g \in Nat : g = a.tree.height /\ i = q.index BY <1>6, <4>0
      <4>2. /\ At(i, g + 1) /\ q.tree.height = g + 1
            /\ leaf \in Under(i, g + 1) /\ h <= g + 1
        BY <1>6, <3>1, <3>3, <4>1
      <4>3. leaf \in Index /\ leaf \in Int
        BY <1>1 DEF StorageInv, IsMods, Index, Positions
      <4>4. CASE h = g + 1
        <5>1. Under(i, g + 1) = Block(Pos(i, g + 1), g + 1) /\ Pos(i, g + 1) \in Nat
          BY <4>2, UnderBlock
        <5>2. Height - h \in Nat OBVIOUS
        <5>3. p \in Nat BY <5>2, PositionsNat
        <5>4. p = Pos(i, g + 1)
          <6>1. leaf \in Block(p, h) /\ leaf \in Block(Pos(i, g + 1), h) /\ h \in Nat
            BY <4>2, <4>4, <5>1
          <6> QED BY <4>3, <5>1, <5>3, <6>1, BlockEq
        <5>5. q.tree = NodeLayers(n0)[Height - h][p] BY <1>9, <4>1, <4>2, <4>4, <5>4
        <5> QED BY <5>5
      <4>5. CASE h # g + 1
        <5>1. h <= g BY <4>1, <4>2, <4>5
        <5>2. leaf \in Under(2 * i, g) \/ leaf \in Under(2 * i + 1, g)
          BY <4>2, <4>3, UnderSplit
        <5>3. CASE leaf \in Under(2 * i, g)
          BY <1>6, <1>8, <4>1, <5>1, <5>3
        <5>4. CASE leaf \in Under(2 * i + 1, g)
          BY <1>6, <1>8, <4>1, <5>1, <5>4
        <5> QED BY <5>2, <5>3, <5>4
      <4> QED BY <4>4, <4>5
    <3> QED BY <3>2, <3>3
  <2> QED BY <1>1, <2>1, <2>2 DEF ReadInv, n0
<1> QED BY <1>10 DEF FactsInv

\* A settled node has no modified leaf below it, or is one.
LEMMA SettledTouched ==
  ASSUME NEW n0, NEW mods, IsMods(mods), NEW q, Entry(q, n0, mods),
         q.update.update # "tuple", NEW leaf \in DOMAIN mods,
         leaf \in Under(q.index, q.tree.height)
  PROVE  q.tree.height = 0
<1> USE NodesAssumption
<1> DEFINE h == q.tree.height
           p == Pos(q.index, h)
<1> SUFFICES ASSUME h # 0 PROVE FALSE OBVIOUS
<1>1. At(q.index, h) /\ q.update = UpdateOf(UpdateLayers(mods)[h], p) BY DEF Entry
<1>2. h \in 0 .. Height /\ p \in Positions(Height - h) /\ leaf \in Block(p, h)
  BY <1>1, UnderBlock DEF At
<1>3. p \in DOMAIN UpdateLayers(mods)[h] BY <1>2, Touched
<1>4. PICK k \in Nat : h = k + 1
  <2>1. h - 1 \in Nat /\ h = (h - 1) + 1 BY <1>2
  <2> QED BY <2>1
<1>5. q.update = [update |-> "tuple", left |-> UpdateOf(UpdateLayers(mods)[k], 2 * p),
                  right |-> UpdateOf(UpdateLayers(mods)[k], 2 * p + 1)]
  BY <1>1, <1>3, <1>4, UpdateOfInner
<1> QED BY <1>5

\* The head of the queue is settled.
LEMMA VisitSettledFacts ==
  ASSUME PatriciaInv, FactsInv, phase = "traverse", queue # <<>>,
         queue[1].update.update # "tuple", NEW s, s = Settle(queue[1]),
         queue' = Tail(queue), updated_nodes' = s.nodes, facts' = facts \cup s.reads,
         UNCHANGED <<storage, root, leaves, modifications, phase>>
  PROVE  FactsInv'
<1> USE NodesAssumption
<1> DEFINE q == queue[1]
           n0 == from_hash(root, Height)
           tree == Unify(leaves, modifications)
<1>1. /\ StorageInv /\ FrontierInv /\ ReadInv
      /\ AllCarry(updated_nodes, modifications, tree)
  BY DEF PatriciaInv, FactsInv
<1>2. PICK X : queue \in Seq(X) BY <1>1 DEF FrontierInv
<1>3. 1 \in DOMAIN queue BY <1>2
<1>4. Entry(q, n0, modifications) BY <1>1, <1>3 DEF FrontierInv
<1>5. IsMods(modifications) /\ EMPTY_NODE_HASH \in storage BY <1>1 DEF StorageInv
<1>6. ASSUME NEW leaf \in DOMAIN modifications, leaf \in Under(q.index, q.tree.height)
      PROVE  q.tree.height = 0
  <2> HIDE DEF n0
  <2> QED BY <1>4, <1>5, <1>6, SettledTouched
<1>7. ReadInv'
  <2> SUFFICES ASSUME NEW leaf \in DOMAIN modifications, NEW h \in 1 .. Height,
                      NEW p \in Positions(Height - h), leaf \in Block(p, h)
               PROVE  \/ ChildrenReads(NodeLayers(n0)[Height - h][p]) \subseteq facts'
                      \/ \E k \in DOMAIN queue' :
                            /\ leaf \in Under(queue'[k].index, queue'[k].tree.height)
                            /\ h <= queue'[k].tree.height
    BY DEF ReadInv
  <2>1. CASE ChildrenReads(NodeLayers(n0)[Height - h][p]) \subseteq facts BY <2>1
  <2>2. CASE \E k \in DOMAIN queue :
                /\ leaf \in Under(queue[k].index, queue[k].tree.height)
                /\ h <= queue[k].tree.height
    <3>1. PICK k \in DOMAIN queue : /\ leaf \in Under(queue[k].index, queue[k].tree.height)
                                    /\ h <= queue[k].tree.height
      BY <2>2
    <3>2. k # 1 BY <1>6, <3>1
    <3>3. k - 1 \in DOMAIN queue' /\ queue'[k - 1] = queue[k] BY <1>2, <3>2
    <3> QED BY <3>1, <3>3
  <2> QED BY <1>1, <2>1, <2>2 DEF ReadInv
<1>8. PICK i, node, M :
         /\ Settle(q) = update_necessary(i, M) /\ i \in DOMAIN M
         /\ i = q.index /\ M[i] = node /\ node.height = q.tree.height
         /\ \A j \in DOMAIN M : j = i \/ (j \in DOMAIN updated_nodes /\ M[j] = updated_nodes[j])
         /\ NodeEntries(M, tree, storage)
         /\ \A leaf \in Index : OneOwner(Tail(queue), M, leaf)
         /\ \A j \in DOMAIN M : Sibling(j) \in DOMAIN M => j = i \/ Sibling(j) = i
  BY <1>1, SettleSetup
<1>9. Carries(i, node, modifications, tree)
  <2>1. \A leaf \in DOMAIN modifications :
           leaf \in Under(i, node.height) => node.height = 0
    BY <1>6, <1>8
  <2>2. 1 .. 0 = {} /\ 1 .. (0 - 1) = {} OBVIOUS
  <2> HIDE DEF tree
  <2> QED BY <2>1, <2>2 DEF Carries
<1>10. AllCarry(M, modifications, tree)
  <2> HIDE DEF tree
  <2> QED BY <1>1, <1>8, <1>9 DEF AllCarry
<1>11. tree \in Tree BY <1>1, CurrentTree
<1> HIDE DEF tree
<1>12. s = update_necessary(i, M) BY <1>8
<1> HIDE DEF q, n0
<1>13. AllCarry(update_necessary(i, M).nodes, modifications, tree)
  <2>1. \A leaf \in Index : OneOwner(Tail(queue), M, leaf) BY <1>8
  <2>2. PICK Q : Q = Tail(queue) OBVIOUS
  <2>3. \A leaf \in Index : OneOwner(Q, M, leaf) BY <2>1, <2>2
  <2> QED BY <1>5, <1>8, <1>10, <1>11, <2>3, MergesCarry
<1>14. AllCarry(s.nodes, modifications, tree) BY <1>12, <1>13
<1> QED BY <1>7, <1>14 DEF FactsInv, tree

LEMMA VisitFacts ==
  ASSUME PatriciaInv, FactsInv, Visit
  PROVE  FactsInv'
<1>1. phase = "traverse" /\ queue # <<>> BY DEF Visit
<1>2. StorageInv /\ FrontierInv BY <1>1 DEF PatriciaInv
<1>3. PICK X : queue \in Seq(X) BY <1>2 DEF FrontierInv
<1>4. PICK n : n = Head(queue) OBVIOUS
<1>5. n = queue[1] BY <1>1, <1>3, <1>4
<1>6. CASE n.update.update = "tuple" /\ phase' # "missing"
  <2>1. /\ queue' = Tail(queue) \o Children(n)
        /\ facts' = facts \cup ChildrenReads(n.tree)
        /\ UNCHANGED <<storage, root, leaves, modifications, updated_nodes, phase>>
    BY <1>4, <1>6 DEF Visit, Missing
  <2> QED BY <1>1, <1>5, <1>6, <2>1, VisitInnerFacts
<1>7. CASE n.update.update # "tuple" /\ phase' # "missing"
  <2>1. PICK s : s = Settle(n) OBVIOUS
  <2>2. /\ queue' = Tail(queue) /\ updated_nodes' = s.nodes /\ facts' = facts \cup s.reads
        /\ UNCHANGED <<storage, root, leaves, modifications, phase>>
    BY <1>4, <1>7, <2>1 DEF Visit, Missing
  <2> QED BY <1>1, <1>5, <1>7, <2>1, <2>2, VisitSettledFacts
<1>8. CASE phase' = "missing" BY <1>8 DEF FactsInv
<1> QED BY <1>6, <1>7, <1>8

LEMMA WriteFacts ==
  ASSUME PatriciaInv, FactsInv, WriteFactNodes
  PROVE  FactsInv'
<1> DEFINE new == updated_nodes[1].bottom.facts
<1>1. phase = "write" BY DEF WriteFactNodes
<1>2. CASE phase' = "failed" BY <1>2 DEF FactsInv
<1>3. CASE phase' # "failed"
  <2>1. /\ UNCHANGED <<root, leaves, modifications, queue, updated_nodes>>
        /\ phase' = "commit" /\ facts' = facts \cup {f \in new : IsInner(f)}
    BY <1>3 DEF WriteFactNodes
  <2>2. ReadInv /\ AllCarry(updated_nodes, modifications, Unify(leaves, modifications))
    BY <1>1 DEF FactsInv
  <2>3. facts \subseteq facts' BY <2>1
  <2>4. ReadInv' BY <2>1, <2>2, <2>3 DEF ReadInv
  <2> QED BY <2>1, <2>2, <2>4 DEF FactsInv
<1> QED BY <1>2, <1>3

LEMMA StepFacts == PatriciaInv /\ FactsInv /\ [Next]_vars => FactsInv'
<1> SUFFICES ASSUME PatriciaInv, FactsInv, [Next]_vars PROVE FactsInv' OBVIOUS
<1>1. ASSUME NEW mods \in Modifications, Update(mods) PROVE FactsInv'
  BY <1>1, ModificationsType, BeginFacts DEF Update, PatriciaInv
<1>2. CASE Retry
  <2>1. StorageInv /\ IsMods(modifications) /\ Begin(modifications)
    BY <1>2 DEF Retry, PatriciaInv, StorageInv
  <2> QED BY <2>1, BeginFacts
<1>3. CASE Visit BY <1>3, VisitFacts
<1>4. CASE EndTraversal BY <1>4 DEF EndTraversal, FactsInv, ReadInv
<1>5. CASE WriteFactNodes BY <1>5, WriteFacts
<1>6. CASE Commit BY <1>6 DEF Commit, FactsInv
<1>7. CASE UNCHANGED vars BY <1>7 DEF vars, FactsInv, ReadInv
<1> QED BY <1>1, <1>2, <1>3, <1>4, <1>5, <1>6, <1>7 DEF Next

LEMMA SpecFacts == Spec => []FactsInv
<1>1. Init => FactsInv BY DEF Init, FactsInv
<1> QED BY <1>1, StepFacts, SpecInv, PTL DEF Spec

\* What a reader opens at a node of a tree is among facts that hold its
\* reference node.
LEMMA HeldReads ==
  ASSUME NEW n0, NEW tree, NEW st, ReadsTree(n0, tree, st), NEW F,
         NEW d \in 0 .. (Height - 1), NEW p \in Positions(d),
         NEW h \in Nat, h = Height - d, HeldNode(tree, h, p, F),
         d # 0 => HeldEdge(tree, h, p, F),
         Ref(tree, Height, 0).node.length # 0 => n0.bottom \in F
  PROVE  ChildrenReads(NodeLayers(n0)[d][p]) \subseteq F
<1> USE NodesAssumption
<1> DEFINE n == NodeLayers(n0)[d][p]
           s == Ref(tree, h, p).node
<1>1. Shows(n, s)
  <2>1. d \in 0 .. Height OBVIOUS
  <2>2. StandsFor(NodeLayers(n0)[d][p], Ref(tree, Height - d, p), st)
    BY <2>1, LayersStandFor
  <2> QED BY <2>2 DEF StandsFor
<1> SUFFICES ASSUME ~is_empty(n), n.length = 0 PROVE n.bottom \in F
  BY DEF ChildrenReads, is_virtual_edge
<1>2. s.length = 0 /\ ~is_empty(s) => s.bottom \in F BY DEF HeldNode
<1>3. CASE n = s BY <1>2, <1>3
<1>4. CASE n # s
  <2>1. n = from_hash(hash_node(s), s.height) BY <1>1, <1>4 DEF Shows
  <2>2. n.bottom = hash_node(s) BY <2>1 DEF from_hash, VirtualNode
  <2>3. CASE s.length = 0
    <3>1. n.bottom = s.bottom BY <2>2, <2>3 DEF hash_node
    <3>2. ~is_empty(s) BY <3>1 DEF is_empty
    <3> QED BY <1>2, <2>3, <3>1, <3>2
  <2>4. CASE s.length # 0 /\ d = 0
    <3>1. p = 0 BY <2>4, Pow2Def DEF Positions
    <3>2. NodeLayers(n0)[0] = [i \in {0} |-> n0] BY NodeLayersDef
    <3>3. n = n0 BY <2>4, <3>1, <3>2
    <3>4. h = Height BY <2>4
    <3> QED BY <2>4, <3>1, <3>3, <3>4
  <2>5. CASE s.length # 0 /\ d # 0
    <3>1. PICK e \in Nat : d = e + 1
      <4>1. d - 1 \in Nat /\ d = (d - 1) + 1 BY <2>5
      <4> QED BY <4>1
    <3>2. \/ NodeLayers(n0)[e + 1][p] = Ref(tree, h, p).node
          \/ /\ ~is_empty(Ref(tree, h, 2 * (p \div 2)).node)
             /\ ~is_empty(Ref(tree, h, 2 * (p \div 2) + 1).node)
      <4>1. e + 1 <= Height /\ p \in Positions(e + 1) /\ h = Height - (e + 1)
        BY <3>1
      <4> QED BY <4>1, ReachedAs
    <3>3. /\ ~is_empty(Ref(tree, h, 2 * (p \div 2)).node)
          /\ ~is_empty(Ref(tree, h, 2 * (p \div 2) + 1).node)
      BY <1>4, <3>1, <3>2
    <3>4. hash_node(s) \in F BY <2>5, <3>3 DEF HeldEdge
    <3> QED BY <2>2, <3>4
  <2> QED BY <2>3, <2>4, <2>5
<1> QED BY <1>3, <1>4

\* The inner nodes on the way to some leaves, when what is opened on the way
\* is among the facts of a set.
LEMMA PathIn ==
  ASSUME NEW hash, NEW tree, NEW st, ReadsTree(from_hash(hash, Height), tree, st),
         NEW M, M \subseteq Index, NEW F,
         \A leaf \in M : \A d \in 0 .. (Height - 1) : \A p \in Positions(d) :
            leaf \in Block(p, Height - d) =>
               \A f \in ChildrenReads(NodeLayers(from_hash(hash, Height))[d][p]) :
                  IsInner(f) => f \in F
  PROVE  PathNodes(hash, M) \subseteq F
<1> USE NodesAssumption
<1> DEFINE n0 == from_hash(hash, Height)
<1> HIDE DEF n0
<1> SUFFICES ASSUME NEW f \in LeavesReads(n0, M), IsInner(f) PROVE f \in F
  BY DEF PathNodes, n0
<1>1. CASE \E d \in 0 .. (Height - 1), leaf \in M :
              f \in ChildrenReads(NodeLayers(n0)[d][leaf \div Pow2[Height - d]])
  <2>1. PICK d \in 0 .. (Height - 1), leaf \in M :
                f \in ChildrenReads(NodeLayers(n0)[d][leaf \div Pow2[Height - d]])
    BY <1>1
  <2>2. d \in 0 .. Height /\ leaf \in Index OBVIOUS
  <2>3. PICK p \in Positions(d) :
           p = leaf \div Pow2[Height - d] /\ leaf \in Block(p, Height - d)
    BY <2>2, LeafAncestor
  <2> QED BY <2>1, <2>3 DEF n0
<1>2. CASE \E leaf \in M : f = NodeLayers(n0)[Height][leaf].bottom
  <2>1. PICK leaf \in M : f = NodeLayers(n0)[Height][leaf].bottom BY <1>2
  <2>2. leaf \in Index OBVIOUS
  <2>3. ReadsTree(n0, tree, st) BY DEF n0
  <2>4. f = LeafFact(tree[leaf]) BY <2>1, <2>2, <2>3, LeafRead
  <2> QED BY <2>4 DEF LeafFact, IsInner, EMPTY_NODE_HASH
<1> QED BY <1>1, <1>2 DEF LeavesReads

\* The old root, the new root and what lies above the modified leaves, when an
\* update is over.
LEMMA DoneReturnsFacts ==
  ASSUME PatriciaInv, FactsInv, PatriciaInv', [Next]_vars, phase' = "done",
         ~ UNCHANGED vars
  PROVE  PathNodes(root, DOMAIN modifications) \cup
         PathNodes(root', DOMAIN modifications) \subseteq facts'
<1> USE NodesAssumption
<1> DEFINE c == updated_nodes[1]
           tree == Unify(leaves, modifications)
           new == IF is_virtual_edge(c) THEN {commit(c).hash} ELSE {}
<1>1. Commit /\ leaves' = tree BY DoneIsCommit
<1>2. phase = "commit" /\ root' = commit(c).hash /\ facts' = facts \cup new
  BY <1>1 DEF Commit, Committed
<1>3. StorageInv /\ FrontierInv /\ queue = <<>> BY <1>2 DEF PatriciaInv, WriteInv
<1>4. /\ ReadInv /\ AllCarry(updated_nodes, modifications, tree)
      /\ \A f \in c.bottom.facts : IsInner(f) => f \in facts
  BY <1>2 DEF FactsInv
<1>5. DOMAIN modifications \subseteq Index BY <1>3 DEF StorageInv, IsMods
<1>6. PathNodes(root, DOMAIN modifications) \subseteq facts'
  <2>1. ReadsTree(from_hash(root, Height), leaves, storage) BY <1>3, CurrentTree
  <2>2. ASSUME NEW leaf \in DOMAIN modifications, NEW d \in 0 .. (Height - 1),
               NEW p \in Positions(d), leaf \in Block(p, Height - d),
               NEW f \in ChildrenReads(NodeLayers(from_hash(root, Height))[d][p])
        PROVE  f \in facts'
    <3>1. PICK h \in 1 .. Height : h = Height - d OBVIOUS
    <3>2. Height - h = d BY <3>1
    <3>3. DOMAIN queue = {} BY <1>3
    <3>4. ChildrenReads(NodeLayers(from_hash(root, Height))[Height - h][p]) \subseteq facts
      <4>1. p \in Positions(Height - h) /\ leaf \in Block(p, h) BY <2>2, <3>1, <3>2
      <4> QED BY <1>4, <3>3, <4>1 DEF ReadInv
    <3> QED BY <1>2, <2>2, <3>2, <3>4
  <2> QED BY <1>5, <2>1, <2>2, PathIn
<1>7. PathNodes(root', DOMAIN modifications) \subseteq facts'
  <2> DEFINE n0 == from_hash(root', Height)
             s == Ref(tree, Height, 0)
  <2>1. ReadsTree(n0, tree, storage')
    BY <1>1, RootStandsFor DEF PatriciaInv, StorageInv
  <2>2. DOMAIN updated_nodes = {1} /\ SubtreeOK(s, Height) /\ Computes(c, s, storage)
    BY <1>3, RootEntry
  <2>3. NodeEntry(1, c, tree, storage) BY <1>3, <2>2 DEF FrontierInv, NodeEntries
  <2>4. c.height = Height
    <3>1. At(1, c.height) /\ At(1, Height) BY <2>3, AtRoot DEF NodeEntry
    <3> QED BY <3>1, AtUnique
  <2>5. Carries(1, c, modifications, tree) BY <1>4, <2>2 DEF AllCarry
  <2>6. Under(1, Height) = Index /\ Pos(1, Height) = 0 BY AtRoot, RootHasAllLeaves
  <2>7. n0.bottom = root' BY DEF from_hash, VirtualNode
  <2> DEFINE F == c.bottom.facts \cup new
  <2>8. ASSUME NEW leaf \in DOMAIN modifications, NEW d \in 0 .. (Height - 1),
               NEW p \in Positions(d), leaf \in Block(p, Height - d)
        PROVE  ChildrenReads(NodeLayers(n0)[d][p]) \subseteq F
    <3>1. leaf \in Under(1, c.height) BY <1>5, <2>4, <2>6
    <3>2. PICK h \in 1 .. Height : h = Height - d OBVIOUS
    <3>3. Height - h = d /\ h \in Nat BY <3>2
    <3>4. p \in Positions(Height - h) /\ leaf \in Block(p, h) BY <2>8, <3>2, <3>3
    <3>5. View(c) = s.node
      <4>1. View(c) = Ref(tree, Height, Pos(1, Height)).node
        BY <2>4, <2>5, <3>1 DEF Carries
      <4> QED BY <2>6, <4>1
    <3>6. HeldNode(tree, h, p, c.bottom.facts)
      BY <2>4, <2>5, <3>1, <3>4 DEF Carries
    <3>7. d # 0 => HeldEdge(tree, h, p, c.bottom.facts)
      <4>1. d # 0 => h \in 1 .. (Height - 1) BY <3>2
      <4> QED BY <2>4, <2>5, <3>1, <3>4, <4>1 DEF Carries
    <3>8. s.node.length # 0 => n0.bottom \in F
      <4>1. s.node.length = c.length BY <3>5 DEF View, VirtualNode
      <4> QED BY <1>2, <2>7, <4>1 DEF is_virtual_edge
    <3> HIDE DEF n0, tree
    <3>9. c.bottom.facts \subseteq F OBVIOUS
    <3> HIDE DEF F, c
    <3>10. HeldNode(tree, h, p, F) BY <3>6, <3>9 DEF HeldNode
    <3>11. d # 0 => HeldEdge(tree, h, p, F) BY <3>7, <3>9 DEF HeldEdge
    <3> QED BY <2>1, <3>2, <3>3, <3>8, <3>10, <3>11, HeldReads
  <2>9. \A f \in F : IsInner(f) => f \in facts' BY <1>2, <1>4
  <2> HIDE DEF F
  <2>10. ASSUME NEW leaf \in DOMAIN modifications, NEW d \in 0 .. (Height - 1),
                NEW p \in Positions(d), leaf \in Block(p, Height - d),
                NEW f \in ChildrenReads(NodeLayers(n0)[d][p]), IsInner(f)
         PROVE  f \in facts'
    BY <2>8, <2>9, <2>10
  <2> HIDE DEF tree
  <2> QED BY <1>5, <2>1, <2>10, PathIn
<1> QED BY <1>6, <1>7

\* The facts returned with an update let a reader walk from the old and from
\* the new root to every modified leaf.
THEOREM UpdateAlwaysReturnsItsFacts == Spec => UpdateReturnsItsFacts
<1>1. ASSUME PatriciaInv, FactsInv, PatriciaInv', [Next]_vars
      PROVE  [phase' = "done" =>
                PathNodes(root, DOMAIN modifications) \cup
                PathNodes(root', DOMAIN modifications) \subseteq facts']_vars
  BY <1>1, DoneReturnsFacts
<1> QED BY <1>1, SpecInv, SpecFacts, PTL DEF Spec, UpdateReturnsItsFacts

=============================================================================
