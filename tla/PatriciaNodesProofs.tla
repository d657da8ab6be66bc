------------------------ MODULE PatriciaNodesProofs ------------------------
(***************************************************************************)
(* What holds of the nodes of PatriciaNodes in trees of every height: the  *)
(* nodes of the reference tree are well-formed, a reader who opens a tree  *)
(* layer by layer finds them, and the subtree that modified leaves induce  *)
(* has a node wherever a modified leaf is below.                           *)
(*                                                                         *)
(* The layers of a tree are recursive functions over Nat.  What is said of *)
(* all layers is proved by NatSetInduction, which takes a set where the    *)
(* induction theorems of the library take an operator.                     *)
(***************************************************************************)
EXTENDS PatriciaNodes, FiniteSetTheorems, WellFoundedInduction, TLAPS

-----------------------------------------------------------------------------
(* Induction over Nat, with the property as a set.                         *)

LEMMA NatSetInduction ==
  ASSUME NEW S, 0 \in S, \A n \in Nat : n \in S => n + 1 \in S
  PROVE  \A n \in Nat : n \in S
<1> SUFFICES ASSUME NEW m \in Nat, m \notin S PROVE FALSE OBVIOUS
<1> DEFINE T == {n \in Nat : n \notin S}
           R == OpToRel(<, Nat)
<1>1. T \subseteq Nat /\ T # {} OBVIOUS
<1>2. IsWellFoundedOn(R, Nat) BY NatLessThanWellFounded
<1>3. PICK x \in T : \A y \in T : <<y, x>> \notin R
  <2> HIDE DEF T, R
  <2> QED BY <1>1, <1>2, WFMin
<1>4. x # 0 OBVIOUS
<1>5. x - 1 \in Nat /\ x - 1 < x BY <1>4
<1>6. x - 1 \notin T
  <2>1. <<x - 1, x>> \in R BY <1>5 DEF OpToRel
  <2> QED BY <2>1, <1>3
<1>7. x - 1 \in S BY <1>6, <1>5
<1>8. (x - 1) + 1 = x OBVIOUS
<1> QED BY <1>5, <1>7, <1>8

-----------------------------------------------------------------------------
(* Powers of two.                                                          *)

\* Pow2 satisfies its recursive equation.
LEMMA Pow2Def ==
  /\ Pow2[0] = 1
  /\ \A n \in Nat : Pow2[n + 1] = 2 * Pow2[n]
<1> DEFINE Good(g, m) == g = [n \in 0 .. m |-> IF n = 0 THEN 1 ELSE 2 * g[n - 1]]
           S == {m \in Nat : \E g : Good(g, m)}
<1>1. 0 \in S
  <2>1. Good([n \in 0 .. 0 |-> 1], 0) OBVIOUS
  <2> QED BY <2>1
<1>2. ASSUME NEW m \in Nat, m \in S PROVE m + 1 \in S
  <2>1. PICK g : Good(g, m) BY <1>2
  <2> DEFINE e == [n \in 0 .. (m + 1) |-> IF n = m + 1 THEN 2 * g[m] ELSE g[n]]
  <2>2. \A n \in 0 .. m : g[n] = IF n = 0 THEN 1 ELSE 2 * g[n - 1] BY <2>1
  <2>3. \A n \in 0 .. (m + 1) : e[n] = IF n = 0 THEN 1 ELSE 2 * e[n - 1]
    BY <2>2
  <2>4. Good(e, m + 1) BY <2>3
  <2> HIDE DEF e, Good
  <2>5. \E f : Good(f, m + 1) BY <2>4
  <2> QED BY <2>5
<1>3. \A m \in Nat : m \in S
  <2> HIDE DEF S
  <2> QED BY <1>1, <1>2, NatSetInduction
<1> DEFINE G(m) == CHOOSE g : Good(g, m)
<1>4. \A m \in Nat : Good(G(m), m) BY <1>3
<1> HIDE DEF G
<1>5. ASSUME NEW m \in Nat PROVE \A n \in 0 .. m : G(m)[n] = G(m + 1)[n]
  <2> DEFINE T == {n \in Nat : n \in 0 .. m => G(m)[n] = G(m + 1)[n]}
  <2>1. /\ \A n \in 0 .. m : G(m)[n] = IF n = 0 THEN 1 ELSE 2 * G(m)[n - 1]
        /\ \A n \in 0 .. (m + 1) :
              G(m + 1)[n] = IF n = 0 THEN 1 ELSE 2 * G(m + 1)[n - 1]
    BY <1>4
  <2>2. 0 \in T BY <2>1
  <2>3. ASSUME NEW n \in Nat, n \in T PROVE n + 1 \in T BY <2>1, <2>3
  <2>4. \A n \in Nat : n \in T
    <3> HIDE DEF T
    <3> QED BY <2>2, <2>3, NatSetInduction
  <2> QED BY <2>4
<1> DEFINE F == [n \in Nat |-> G(n)[n]]
<1>6. F = [n \in Nat |-> IF n = 0 THEN 1 ELSE 2 * F[n - 1]]
  <2>1. ASSUME NEW n \in Nat PROVE F[n] = IF n = 0 THEN 1 ELSE 2 * F[n - 1]
    <3>1. G(n)[n] = IF n = 0 THEN 1 ELSE 2 * G(n)[n - 1] BY <1>4
    <3>2. n # 0 => n - 1 \in Nat /\ (n - 1) + 1 = n OBVIOUS
    <3>3. n # 0 => G(n - 1)[n - 1] = G(n)[n - 1] BY <3>2, <1>5
    <3> QED BY <3>1, <3>2, <3>3
  <2> QED BY <2>1
<1>7. Pow2 = [n \in Nat |-> IF n = 0 THEN 1 ELSE 2 * Pow2[n - 1]]
  <2> HIDE DEF F
  <2> QED BY <1>6 DEF Pow2
<1>8. \A n \in Nat : Pow2[n] = IF n = 0 THEN 1 ELSE 2 * Pow2[n - 1]
  <2>1. PICK P : P = Pow2 OBVIOUS
  <2>2. P = [n \in Nat |-> IF n = 0 THEN 1 ELSE 2 * P[n - 1]] BY <1>7, <2>1
  <2>3. \A n \in Nat : P[n] = IF n = 0 THEN 1 ELSE 2 * P[n - 1] BY <2>2
  <2> QED BY <2>1, <2>3
<1> QED BY <1>8

LEMMA Pow2Type == \A n \in Nat : Pow2[n] \in Nat \ {0}
<1> DEFINE S == {n \in Nat : Pow2[n] \in Nat \ {0}}
<1>1. 0 \in S BY Pow2Def
<1>2. ASSUME NEW n \in Nat, n \in S PROVE n + 1 \in S BY Pow2Def, <1>2
<1>3. \A n \in Nat : n \in S
  <2> HIDE DEF S
  <2> QED BY <1>1, <1>2, NatSetInduction
<1> QED BY <1>3

LEMMA Pow2Sum == \A a, b \in Nat : Pow2[a + b] = Pow2[a] * Pow2[b]
<1> SUFFICES ASSUME NEW a \in Nat PROVE \A b \in Nat : Pow2[a + b] = Pow2[a] * Pow2[b]
  OBVIOUS
<1> DEFINE S == {b \in Nat : Pow2[a + b] = Pow2[a] * Pow2[b]}
<1>1. 0 \in S BY Pow2Def, Pow2Type
<1>2. ASSUME NEW b \in Nat, b \in S PROVE b + 1 \in S
  <2>1. Pow2[a + (b + 1)] = 2 * Pow2[a + b] BY Pow2Def
  <2>2. Pow2[b + 1] = 2 * Pow2[b] BY Pow2Def
  <2>3. Pow2[a + b] = Pow2[a] * Pow2[b] BY <1>2
  <2>4. Pow2[a] \in Nat /\ Pow2[b] \in Nat BY Pow2Type
  <2>5. 2 * (Pow2[a] * Pow2[b]) = Pow2[a] * (2 * Pow2[b]) BY <2>4
  <2> QED BY <2>1, <2>2, <2>3, <2>5
<1>3. \A b \in Nat : b \in S
  <2> HIDE DEF S
  <2> QED BY <1>1, <1>2, NatSetInduction
<1> QED BY <1>3
\* NodeLayers satisfies its recursive equation.
LEMMA NodeLayersDef ==
  ASSUME NEW root_node
  PROVE  /\ NodeLayers(root_node)[0] = [i \in {0} |-> root_node]
         /\ \A d \in Nat :
               NodeLayers(root_node)[d + 1] =
               [i \in Positions(d + 1) |->
                   get_children(NodeLayers(root_node)[d][i \div 2])[(i % 2) + 1]]
<1> DEFINE Base == [i \in {0} |-> root_node]
           Step(v, n) == [i \in Positions(n) |-> get_children(v[i \div 2])[(i % 2) + 1]]
           Good(g, m) == g = [n \in 0 .. m |->
                                 IF n = 0 THEN Base ELSE Step(g[n - 1], n)]
           S == {m \in Nat : \E g : Good(g, m)}
           Full(f) == f = [n \in Nat |-> IF n = 0 THEN Base ELSE Step(f[n - 1], n)]
<1>0. NodeLayers(root_node) = CHOOSE f : Full(f) BY DEF NodeLayers
<1> HIDE DEF Base, Step
<1>1. 0 \in S
  <2> DEFINE e == [n \in 0 .. 0 |-> Base]
  <2>1. Good(e, 0) OBVIOUS
  <2> HIDE DEF e, Good
  <2>2. \E g : Good(g, 0) BY <2>1
  <2> QED BY <2>2
<1>2. ASSUME NEW m \in Nat, m \in S PROVE m + 1 \in S
  <2>1. PICK g : Good(g, m) BY <1>2
  <2> DEFINE e == [n \in 0 .. (m + 1) |->
                     IF n = m + 1 THEN Step(g[m], m + 1) ELSE g[n]]
  <2>2. \A n \in 0 .. m : g[n] = IF n = 0 THEN Base ELSE Step(g[n - 1], n) BY <2>1
  <2>3. \A n \in 0 .. (m + 1) : e[n] = IF n = 0 THEN Base ELSE Step(e[n - 1], n)
    BY <2>2
  <2>4. Good(e, m + 1) BY <2>3
  <2> HIDE DEF e, Good
  <2>5. \E f : Good(f, m + 1) BY <2>4
  <2> QED BY <2>5
<1>3. \A m \in Nat : m \in S
  <2> HIDE DEF S
  <2> QED BY <1>1, <1>2, NatSetInduction
<1> DEFINE G(m) == CHOOSE g : Good(g, m)
<1>4. \A m \in Nat : Good(G(m), m) BY <1>3
<1> HIDE DEF G
<1>5. ASSUME NEW m \in Nat PROVE \A n \in 0 .. m : G(m)[n] = G(m + 1)[n]
  <2> DEFINE T == {n \in Nat : n \in 0 .. m => G(m)[n] = G(m + 1)[n]}
  <2>1. /\ \A n \in 0 .. m : G(m)[n] = IF n = 0 THEN Base ELSE Step(G(m)[n - 1], n)
        /\ \A n \in 0 .. (m + 1) :
              G(m + 1)[n] = IF n = 0 THEN Base ELSE Step(G(m + 1)[n - 1], n)
    BY <1>4
  <2>2. 0 \in T BY <2>1
  <2>3. ASSUME NEW n \in Nat, n \in T PROVE n + 1 \in T BY <2>1, <2>3
  <2>4. \A n \in Nat : n \in T
    <3> HIDE DEF T
    <3> QED BY <2>2, <2>3, NatSetInduction
  <2> QED BY <2>4
<1> DEFINE F == [n \in Nat |-> G(n)[n]]
<1>6. Full(F)
  <2>1. ASSUME NEW n \in Nat PROVE F[n] = IF n = 0 THEN Base ELSE Step(F[n - 1], n)
    <3>1. G(n)[n] = IF n = 0 THEN Base ELSE Step(G(n)[n - 1], n) BY <1>4
    <3>2. n # 0 => n - 1 \in Nat /\ (n - 1) + 1 = n OBVIOUS
    <3>3. n # 0 => G(n - 1)[n - 1] = G(n)[n - 1] BY <3>2, <1>5
    <3> QED BY <3>1, <3>2, <3>3
  <2> QED BY <2>1
<1>7. PICK L : L = NodeLayers(root_node) OBVIOUS
<1>8. Full(L)
  <2> HIDE DEF F, Full
  <2> QED BY <1>0, <1>6, <1>7
<1>9. \A n \in Nat : L[n] = IF n = 0 THEN Base ELSE Step(L[n - 1], n) BY <1>8
<1>10. L[0] = Base /\ \A n \in Nat : L[n + 1] = Step(L[n], n + 1)
  <2>1. \A n \in Nat : (n + 1) - 1 = n /\ n + 1 \in Nat /\ n + 1 # 0 OBVIOUS
  <2> QED BY <1>9, <2>1
<1> QED BY <1>7, <1>10 DEF Base, Step

\* UpdateLayers satisfies its recursive equation.
LEMMA UpdateLayersDef ==
  ASSUME NEW mods
  PROVE  /\ UpdateLayers(mods)[0] =
            [i \in DOMAIN mods |-> [update |-> "leaf", fact |-> mods[i]]]
         /\ \A h \in Nat :
               UpdateLayers(mods)[h + 1] = ParentLayer(UpdateLayers(mods)[h])
<1> DEFINE Base == [i \in DOMAIN mods |-> [update |-> "leaf", fact |-> mods[i]]]
           Step(v, n) == ParentLayer(v)
           Good(g, m) == g = [n \in 0 .. m |->
                                 IF n = 0 THEN Base ELSE Step(g[n - 1], n)]
           S == {m \in Nat : \E g : Good(g, m)}
           Full(f) == f = [n \in Nat |-> IF n = 0 THEN Base ELSE Step(f[n - 1], n)]
<1>0. UpdateLayers(mods) = CHOOSE f : Full(f) BY DEF UpdateLayers
<1> HIDE DEF Base, Step
<1>1. 0 \in S
  <2> DEFINE e == [n \in 0 .. 0 |-> Base]
  <2>1. Good(e, 0) OBVIOUS
  <2> HIDE DEF e, Good
  <2>2. \E g : Good(g, 0) BY <2>1
  <2> QED BY <2>2
<1>2. ASSUME NEW m \in Nat, m \in S PROVE m + 1 \in S
  <2>1. PICK g : Good(g, m) BY <1>2
  <2> DEFINE e == [n \in 0 .. (m + 1) |->
                     IF n = m + 1 THEN Step(g[m], m + 1) ELSE g[n]]
  <2>2. \A n \in 0 .. m : g[n] = IF n = 0 THEN Base ELSE Step(g[n - 1], n) BY <2>1
  <2>3. \A n \in 0 .. (m + 1) : e[n] = IF n = 0 THEN Base ELSE Step(e[n - 1], n)
    BY <2>2
  <2>4. Good(e, m + 1) BY <2>3
  <2> HIDE DEF e, Good
  <2>5. \E f : Good(f, m + 1) BY <2>4
  <2> QED BY <2>5
<1>3. \A m \in Nat : m \in S
  <2> HIDE DEF S
  <2> QED BY <1>1, <1>2, NatSetInduction
<1> DEFINE G(m) == CHOOSE g : Good(g, m)
<1>4. \A m \in Nat : Good(G(m), m) BY <1>3
<1> HIDE DEF G
<1>5. ASSUME NEW m \in Nat PROVE \A n \in 0 .. m : G(m)[n] = G(m + 1)[n]
  <2> DEFINE T == {n \in Nat : n \in 0 .. m => G(m)[n] = G(m + 1)[n]}
  <2>1. /\ \A n \in 0 .. m : G(m)[n] = IF n = 0 THEN Base ELSE Step(G(m)[n - 1], n)
        /\ \A n \in 0 .. (m + 1) :
              G(m + 1)[n] = IF n = 0 THEN Base ELSE Step(G(m + 1)[n - 1], n)
    BY <1>4
  <2>2. 0 \in T BY <2>1
  <2>3. ASSUME NEW n \in Nat, n \in T PROVE n + 1 \in T BY <2>1, <2>3
  <2>4. \A n \in Nat : n \in T
    <3> HIDE DEF T
    <3> QED BY <2>2, <2>3, NatSetInduction
  <2> QED BY <2>4
<1> DEFINE F == [n \in Nat |-> G(n)[n]]
<1>6. Full(F)
  <2>1. ASSUME NEW n \in Nat PROVE F[n] = IF n = 0 THEN Base ELSE Step(F[n - 1], n)
    <3>1. G(n)[n] = IF n = 0 THEN Base ELSE Step(G(n)[n - 1], n) BY <1>4
    <3>2. n # 0 => n - 1 \in Nat /\ (n - 1) + 1 = n OBVIOUS
    <3>3. n # 0 => G(n - 1)[n - 1] = G(n)[n - 1] BY <3>2, <1>5
    <3> QED BY <3>1, <3>2, <3>3
  <2> QED BY <2>1
<1>7. PICK L : L = UpdateLayers(mods) OBVIOUS
<1>8. Full(L)
  <2> HIDE DEF F, Full
  <2> QED BY <1>0, <1>6, <1>7
<1>9. \A n \in Nat : L[n] = IF n = 0 THEN Base ELSE Step(L[n - 1], n) BY <1>8
<1>10. L[0] = Base /\ \A n \in Nat : L[n + 1] = Step(L[n], n + 1)
  <2>1. \A n \in Nat : (n + 1) - 1 = n /\ n + 1 \in Nat /\ n + 1 # 0 OBVIOUS
  <2> QED BY <1>9, <2>1
<1> QED BY <1>7, <1>10 DEF Base, Step

\* ReferenceLayers satisfies its recursive equation.
LEMMA ReferenceLayersDef ==
  ASSUME NEW tree
  PROVE  /\ ReferenceLayers(tree)[0] = [i \in Index |-> ReferenceLeaf(tree[i])]
         /\ \A h \in Nat :
               ReferenceLayers(tree)[h + 1] =
               [i \in Positions(Height - (h + 1)) |->
                   ReferenceNode(ReferenceLayers(tree)[h][2 * i],
                                 ReferenceLayers(tree)[h][2 * i + 1])]
<1> DEFINE Base == [i \in Index |-> ReferenceLeaf(tree[i])]
           Step(v, n) == [i \in Positions(Height - n) |->
                             ReferenceNode(v[2 * i], v[2 * i + 1])]
           Good(g, m) == g = [n \in 0 .. m |->
                                 IF n = 0 THEN Base ELSE Step(g[n - 1], n)]
           S == {m \in Nat : \E g : Good(g, m)}
           Full(f) == f = [n \in Nat |-> IF n = 0 THEN Base ELSE Step(f[n - 1], n)]
<1>0. ReferenceLayers(tree) = CHOOSE f : Full(f) BY DEF ReferenceLayers
<1> HIDE DEF Base, Step
<1>1. 0 \in S
  <2> DEFINE e == [n \in 0 .. 0 |-> Base]
  <2>1. Good(e, 0) OBVIOUS
  <2> HIDE DEF e, Good
  <2>2. \E g : Good(g, 0) BY <2>1
  <2> QED BY <2>2
<1>2. ASSUME NEW m \in Nat, m \in S PROVE m + 1 \in S
  <2>1. PICK g : Good(g, m) BY <1>2
  <2> DEFINE e == [n \in 0 .. (m + 1) |->
                     IF n = m + 1 THEN Step(g[m], m + 1) ELSE g[n]]
  <2>2. \A n \in 0 .. m : g[n] = IF n = 0 THEN Base ELSE Step(g[n - 1], n) BY <2>1
  <2>3. \A n \in 0 .. (m + 1) : e[n] = IF n = 0 THEN Base ELSE Step(e[n - 1], n)
    BY <2>2
  <2>4. Good(e, m + 1) BY <2>3
  <2> HIDE DEF e, Good
  <2>5. \E f : Good(f, m + 1) BY <2>4
  <2> QED BY <2>5
<1>3. \A m \in Nat : m \in S
  <2> HIDE DEF S
  <2> QED BY <1>1, <1>2, NatSetInduction
<1> DEFINE G(m) == CHOOSE g : Good(g, m)
<1>4. \A m \in Nat : Good(G(m), m) BY <1>3
<1> HIDE DEF G
<1>5. ASSUME NEW m \in Nat PROVE \A n \in 0 .. m : G(m)[n] = G(m + 1)[n]
  <2> DEFINE T == {n \in Nat : n \in 0 .. m => G(m)[n] = G(m + 1)[n]}
  <2>1. /\ \A n \in 0 .. m : G(m)[n] = IF n = 0 THEN Base ELSE Step(G(m)[n - 1], n)
        /\ \A n \in 0 .. (m + 1) :
              G(m + 1)[n] = IF n = 0 THEN Base ELSE Step(G(m + 1)[n - 1], n)
    BY <1>4
  <2>2. 0 \in T BY <2>1
  <2>3. ASSUME NEW n \in Nat, n \in T PROVE n + 1 \in T BY <2>1, <2>3
  <2>4. \A n \in Nat : n \in T
    <3> HIDE DEF T
    <3> QED BY <2>2, <2>3, NatSetInduction
  <2> QED BY <2>4
<1> DEFINE F == [n \in Nat |-> G(n)[n]]
<1>6. Full(F)
  <2>1. ASSUME NEW n \in Nat PROVE F[n] = IF n = 0 THEN Base ELSE Step(F[n - 1], n)
    <3>1. G(n)[n] = IF n = 0 THEN Base ELSE Step(G(n)[n - 1], n) BY <1>4
    <3>2. n # 0 => n - 1 \in Nat /\ (n - 1) + 1 = n OBVIOUS
    <3>3. n # 0 => G(n - 1)[n - 1] = G(n)[n - 1] BY <3>2, <1>5
    <3> QED BY <3>1, <3>2, <3>3
  <2> QED BY <2>1
<1>7. PICK L : L = ReferenceLayers(tree) OBVIOUS
<1>8. Full(L)
  <2> HIDE DEF F, Full
  <2> QED BY <1>0, <1>6, <1>7
<1>9. \A n \in Nat : L[n] = IF n = 0 THEN Base ELSE Step(L[n - 1], n) BY <1>8
<1>10. L[0] = Base /\ \A n \in Nat : L[n + 1] = Step(L[n], n + 1)
  <2>1. \A n \in Nat : (n + 1) - 1 = n /\ n + 1 \in Nat /\ n + 1 # 0 OBVIOUS
  <2> QED BY <1>9, <2>1
<1> QED BY <1>7, <1>10 DEF Base, Step

-----------------------------------------------------------------------------
(* The reference tree.                                                     *)

\* Positions of two layers that follow each other.
LEMMA ChildPositions ==
  ASSUME NEW m \in Nat, NEW i \in Positions(m)
  PROVE  /\ 2 * i \in Positions(m + 1)
         /\ 2 * i + 1 \in Positions(m + 1)
<1>1. Pow2[m] \in Nat /\ Pow2[m + 1] = 2 * Pow2[m] BY Pow2Def, Pow2Type
<1> QED BY <1>1 DEF Positions

LEMMA ParentPosition ==
  ASSUME NEW m \in Nat, NEW i \in Positions(m + 1)
  PROVE  i \div 2 \in Positions(m)
<1>1. Pow2[m] \in Nat /\ Pow2[m + 1] = 2 * Pow2[m] BY Pow2Def, Pow2Type
<1> QED BY <1>1 DEF Positions

\* The reference node at a height and a position.
Ref(tree, h, i) == ReferenceLayers(tree)[h][i]

\* What holds of the triple of every node of a reference tree.
NodeOK(n, h) ==
    /\ n = VirtualNode(n.bottom, n.path, n.length, h)
    /\ WellFormedFact(n.bottom)
    /\ n.length \in 0 .. h
    /\ n.path \in Positions(n.length)
    /\ \/ n.bottom = EMPTY_NODE_HASH /\ n.length = 0 /\ n.path = 0
       \/ n.bottom.kind \in {"leaf", "binary"}

SubtreeOK(s, h) ==
    /\ s = Subtree(s.node, s.facts)
    /\ NodeOK(s.node, h)
    /\ s.node.bottom \in s.facts
    /\ \A f \in s.facts : WellFormedFact(f)
    /\ is_empty(s.node) => s.facts = {EMPTY_NODE_HASH}

\* The hash of a node shows whether it is empty or an edge.
LEMMA HashNodeKind ==
  ASSUME NEW h \in 0 .. Height, NEW n, NodeOK(n, h)
  PROVE  /\ hash_node(n) = EMPTY_NODE_HASH <=> is_empty(n)
         /\ hash_node(n).kind = "edge" <=> n.length # 0
         /\ WellFormedFact(hash_node(n))
<1> USE NodesAssumption
<1>1. CASE n.length = 0
  BY <1>1 DEF NodeOK, hash_node, is_empty, EMPTY_NODE_HASH
<1>2. CASE n.length # 0
  <2>1. n.bottom.kind \in {"leaf", "binary"} BY <1>2 DEF NodeOK
  <2>2. n.bottom # EMPTY_NODE_HASH BY <2>1 DEF EMPTY_NODE_HASH
  <2>3. n.length \in 1 .. Height BY <1>2 DEF NodeOK
  <2>4. hash_node(n) = EdgeNodeFact(n.bottom, n.path, n.length)
    BY <1>2 DEF hash_node
  <2>5. hash_node(n).kind = "edge" BY <2>4 DEF EdgeNodeFact
  <2>6. hash_node(n) # EMPTY_NODE_HASH BY <2>5 DEF EMPTY_NODE_HASH
  <2>7. n.path \in Positions(n.length) BY DEF NodeOK
  <2>8. WellFormedFact(hash_node(n))
    BY <2>1, <2>3, <2>4, <2>7 DEF WellFormedFact, EdgeNodeFact
  <2> QED BY <1>2, <2>2, <2>5, <2>6, <2>8 DEF is_empty
<1> QED BY <1>1, <1>2

LEMMA EmptyNodeOK ==
  ASSUME NEW h \in Nat
  PROVE  NodeOK(empty_node(h), h)
BY Pow2Def DEF NodeOK, empty_node, from_hash, VirtualNode, EMPTY_NODE_HASH,
   WellFormedFact, Positions

LEMMA ReferenceLeafOK ==
  ASSUME NEW v \in Value
  PROVE  SubtreeOK(ReferenceLeaf(v), 0)
<1>1. Pow2[0] = 1 BY Pow2Def
<1>2. WellFormedFact(LeafFact(v))
  BY DEF WellFormedFact, LeafFact, EMPTY_NODE_HASH
<1>3. LeafFact(v) = EMPTY_NODE_HASH \/ LeafFact(v).kind = "leaf"
  BY DEF LeafFact
<1> QED BY <1>1, <1>2, <1>3
        DEF SubtreeOK, ReferenceLeaf, NodeOK, Subtree, from_hash, VirtualNode, Positions,
            is_empty

\* One bit more in front of a path.
LEMMA LongerPath ==
  ASSUME NEW n \in Nat, NEW p \in Positions(n)
  PROVE  /\ p \in Positions(n + 1)
         /\ p + Pow2[n] \in Positions(n + 1)
<1>1. Pow2[n] \in Nat /\ Pow2[n + 1] = 2 * Pow2[n] BY Pow2Def, Pow2Type
<1> QED BY <1>1 DEF Positions

LEMMA ReferenceNodeOK ==
  ASSUME NEW h \in Nat, h < Height, NEW l, NEW r, SubtreeOK(l, h), SubtreeOK(r, h)
  PROVE  SubtreeOK(ReferenceNode(l, r), h + 1)
<1> USE NodesAssumption
<1> DEFINE below == l.facts \cup r.facts
           binary == BinaryNodeFact(hash_node(l.node), hash_node(r.node))
<1>1. h \in 0 .. Height /\ h + 1 \in Nat OBVIOUS
<1>2. /\ NodeOK(l.node, h) /\ NodeOK(r.node, h)
      /\ l.node.bottom \in below /\ r.node.bottom \in below
      /\ \A f \in below : WellFormedFact(f)
  BY DEF SubtreeOK
<1>3. l.node.height = h
  <2>1. l.node = VirtualNode(l.node.bottom, l.node.path, l.node.length, h)
    BY <1>2 DEF NodeOK
  <2> QED BY <2>1 DEF VirtualNode
<1>4. CASE is_empty(l.node) /\ is_empty(r.node)
  <2>1. ReferenceNode(l, r) = Subtree(empty_node(h + 1), below)
    BY <1>3, <1>4 DEF ReferenceNode
  <2>2. empty_node(h + 1).bottom = l.node.bottom
    BY <1>4 DEF empty_node, from_hash, VirtualNode, is_empty
  <2>3. NodeOK(empty_node(h + 1), h + 1) BY <1>1, EmptyNodeOK
  <2>4. below = {EMPTY_NODE_HASH} BY <1>4 DEF SubtreeOK
  <2> HIDE DEF below
  <2> QED BY <1>2, <2>1, <2>2, <2>3, <2>4 DEF SubtreeOK, Subtree
<1>5. CASE is_empty(l.node) /\ ~is_empty(r.node)
  <2> DEFINE n == VirtualNode(r.node.bottom, r.node.path + Pow2[r.node.length],
                              r.node.length + 1, h + 1)
  <2>1. ReferenceNode(l, r) = Subtree(n, below)
    BY <1>3, <1>5 DEF ReferenceNode
  <2>2. r.node.path + Pow2[r.node.length] \in Positions(r.node.length + 1)
    BY <1>2, LongerPath DEF NodeOK
  <2>3. r.node.length + 1 \in 0 .. (h + 1) BY <1>2 DEF NodeOK
  <2>4. r.node.bottom.kind \in {"leaf", "binary"} /\ WellFormedFact(r.node.bottom)
    BY <1>2, <1>5 DEF NodeOK, is_empty
  <2>5. NodeOK(n, h + 1) BY <2>2, <2>3, <2>4 DEF NodeOK, VirtualNode
  <2>6. n.bottom = r.node.bottom BY DEF VirtualNode
  <2>7. ~is_empty(n) BY <2>4, <2>6 DEF is_empty, EMPTY_NODE_HASH
  <2> HIDE DEF below, n
  <2> QED BY <1>2, <2>1, <2>5, <2>6, <2>7 DEF SubtreeOK, Subtree
<1>6. CASE ~is_empty(l.node) /\ is_empty(r.node)
  <2> DEFINE n == VirtualNode(l.node.bottom, l.node.path, l.node.length + 1, h + 1)
  <2>1. ReferenceNode(l, r) = Subtree(n, below)
    BY <1>3, <1>6 DEF ReferenceNode
  <2>2. l.node.path \in Positions(l.node.length + 1)
    BY <1>2, LongerPath DEF NodeOK
  <2>3. l.node.length + 1 \in 0 .. (h + 1) BY <1>2 DEF NodeOK
  <2>4. l.node.bottom.kind \in {"leaf", "binary"} /\ WellFormedFact(l.node.bottom)
    BY <1>2, <1>6 DEF NodeOK, is_empty
  <2>5. NodeOK(n, h + 1) BY <2>2, <2>3, <2>4 DEF NodeOK, VirtualNode
  <2>6. n.bottom = l.node.bottom BY DEF VirtualNode
  <2>7. ~is_empty(n) BY <2>4, <2>6 DEF is_empty, EMPTY_NODE_HASH
  <2> HIDE DEF below, n
  <2> QED BY <1>2, <2>1, <2>5, <2>6, <2>7 DEF SubtreeOK, Subtree
<1>7. CASE ~is_empty(l.node) /\ ~is_empty(r.node)
  <2> DEFINE n == from_hash(binary, h + 1)
             facts2 == below \cup {binary, hash_node(l.node), hash_node(r.node)}
  <2>1. ReferenceNode(l, r) = Subtree(n, facts2)
    BY <1>3, <1>7 DEF ReferenceNode
  <2>2. /\ hash_node(l.node) # EMPTY_NODE_HASH /\ hash_node(r.node) # EMPTY_NODE_HASH
        /\ WellFormedFact(hash_node(l.node)) /\ WellFormedFact(hash_node(r.node))
    BY <1>1, <1>2, <1>7, HashNodeKind
  <2>3. WellFormedFact(binary) BY <2>2 DEF WellFormedFact, BinaryNodeFact
  <2>4. binary.kind = "binary" BY DEF BinaryNodeFact
  <2> HIDE DEF binary
  <2>5. NodeOK(n, h + 1)
    BY <2>3, <2>4, Pow2Def DEF NodeOK, from_hash, VirtualNode, Positions
  <2>6. n.bottom = binary BY DEF from_hash, VirtualNode
  <2>7. \A f \in facts2 : WellFormedFact(f) BY <1>2, <2>2, <2>3
  <2>8. n.bottom \in facts2 BY <2>6
  <2>9. ~is_empty(n) BY <2>4, <2>6 DEF is_empty, EMPTY_NODE_HASH
  <2> HIDE DEF facts2, n
  <2> QED BY <2>1, <2>5, <2>7, <2>8, <2>9 DEF SubtreeOK, Subtree
<1> QED BY <1>4, <1>5, <1>6, <1>7

\* The two equations of the reference tree.
LEMMA RefDef ==
  ASSUME NEW tree
  PROVE  /\ \A i \in Index : Ref(tree, 0, i) = ReferenceLeaf(tree[i])
         /\ \A h \in Nat : \A i \in Positions(Height - (h + 1)) :
               Ref(tree, h + 1, i) =
               ReferenceNode(Ref(tree, h, 2 * i), Ref(tree, h, 2 * i + 1))
<1>1. ASSUME NEW i \in Index PROVE Ref(tree, 0, i) = ReferenceLeaf(tree[i])
  <2>1. ReferenceLayers(tree)[0] = [k \in Index |-> ReferenceLeaf(tree[k])]
    BY ReferenceLayersDef
  <2> QED BY <2>1 DEF Ref
<1>2. ASSUME NEW h \in Nat, NEW i \in Positions(Height - (h + 1))
      PROVE  Ref(tree, h + 1, i) =
             ReferenceNode(Ref(tree, h, 2 * i), Ref(tree, h, 2 * i + 1))
  <2>1. ReferenceLayers(tree)[h + 1] =
          [k \in Positions(Height - (h + 1)) |->
              ReferenceNode(ReferenceLayers(tree)[h][2 * k],
                            ReferenceLayers(tree)[h][2 * k + 1])]
    BY ReferenceLayersDef
  <2> QED BY <2>1 DEF Ref
<1> QED BY <1>1, <1>2

\* Every node of the reference tree is well formed.
LEMMA RefOK ==
  ASSUME NEW tree \in Tree
  PROVE  \A h \in 0 .. Height : \A i \in Positions(Height - h) :
            SubtreeOK(Ref(tree, h, i), h)
<1> USE NodesAssumption
<1> DEFINE S == {h \in Nat : h <= Height =>
                    \A i \in Positions(Height - h) : SubtreeOK(Ref(tree, h, i), h)}
<1>1. 0 \in S
  <2>1. ASSUME NEW i \in Positions(Height - 0) PROVE SubtreeOK(Ref(tree, 0, i), 0)
    <3>1. i \in Index BY DEF Index
    <3>2. tree[i] \in Value BY <3>1 DEF Tree
    <3> QED BY <3>1, <3>2, RefDef, ReferenceLeafOK
  <2> QED BY <2>1
<1>2. ASSUME NEW h \in Nat, h \in S PROVE h + 1 \in S
  <2> SUFFICES ASSUME h + 1 <= Height, NEW i \in Positions(Height - (h + 1))
               PROVE  SubtreeOK(Ref(tree, h + 1, i), h + 1)
    OBVIOUS
  <2>1. Height - (h + 1) \in Nat /\ Height - h = (Height - (h + 1)) + 1 /\ h < Height
    OBVIOUS
  <2>2. 2 * i \in Positions(Height - h) /\ 2 * i + 1 \in Positions(Height - h)
    BY <2>1, ChildPositions
  <2>3. SubtreeOK(Ref(tree, h, 2 * i), h) /\ SubtreeOK(Ref(tree, h, 2 * i + 1), h)
    BY <1>2, <2>1, <2>2
  <2>4. SubtreeOK(ReferenceNode(Ref(tree, h, 2 * i), Ref(tree, h, 2 * i + 1)), h + 1)
    BY <2>1, <2>3, ReferenceNodeOK
  <2> QED BY <2>4, RefDef
<1>3. \A h \in Nat : h \in S
  <2> HIDE DEF S
  <2> QED BY <1>1, <1>2, NatSetInduction
<1> QED BY <1>3

-----------------------------------------------------------------------------
(* Nodes a reader has, against the reference tree.                         *)

\* n is the node r of the reference tree, as its triple or by its hash.
Shows(n, r) == n = r \/ n = from_hash(hash_node(r), r.height)

\* n stands for the subtree s, all of which is in the set st of facts.
StandsFor(n, s, st) ==
    /\ Shows(n, s.node)
    /\ s.facts \subseteq st
    /\ n.bottom \in st

\* The three kinds of a reference node, seen from its children.
LEMMA EmptyChildren ==
  ASSUME NEW h \in Nat, NEW l, NEW r, SubtreeOK(l, h), SubtreeOK(r, h),
         is_empty(l.node), is_empty(r.node)
  PROVE  /\ l.node = empty_node(h) /\ r.node = empty_node(h)
         /\ ReferenceNode(l, r) = Subtree(empty_node(h + 1), l.facts \cup r.facts)
<1>1. l.node = empty_node(h) /\ r.node = empty_node(h)
  BY DEF SubtreeOK, NodeOK, is_empty, empty_node, from_hash, VirtualNode, EMPTY_NODE_HASH
<1>2. l.node.height = h BY <1>1 DEF empty_node, from_hash, VirtualNode
<1> QED BY <1>1, <1>2 DEF ReferenceNode

LEMMA NodeHeight ==
  ASSUME NEW h \in Nat, NEW n, NodeOK(n, h)
  PROVE  n.height = h
<1>1. n = VirtualNode(n.bottom, n.path, n.length, h) BY DEF NodeOK
<1> QED BY <1>1 DEF VirtualNode

\* The children of an edge: the rest of the edge and nothing.
LEMMA EdgeChildren ==
  ASSUME NEW h \in Nat, NEW c, NodeOK(c, h), ~is_empty(c),
         NEW bit \in {0, 1}, NEW n,
         n = VirtualNode(c.bottom, c.path + bit * Pow2[c.length], c.length + 1, h + 1)
  PROVE  /\ get_virtual_edge_node_children(n)[1 + bit] = c
         /\ get_virtual_edge_node_children(n)[2 - bit] = empty_node(h)
<1> DEFINE p == Pow2[c.length]
<1>1. p \in Nat \ {0} /\ c.path \in 0 .. (p - 1) /\ c.length \in Nat
  BY Pow2Type DEF NodeOK, Positions
<1>2. n.length - 1 = c.length /\ n.path = c.path + bit * p /\ n.height - 1 = h
      /\ n.bottom = c.bottom
  BY <1>1 DEF VirtualNode
<1>3. c = VirtualNode(c.bottom, c.path, c.length, h) BY DEF NodeOK
<1> HIDE DEF p
<1>4. CASE bit = 0
  <2>1. n.path = c.path BY <1>1, <1>2, <1>4
  <2>2. n.path \div p = 0 /\ n.path % p = c.path BY <1>1, <2>1
  <2>3. get_virtual_edge_node_children(n) =
          <<VirtualNode(c.bottom, c.path, c.length, h), empty_node(h)>>
    BY <1>2, <2>2 DEF get_virtual_edge_node_children, p
  <2> QED BY <1>3, <1>4, <2>3
<1>5. CASE bit = 1
  <2>1. n.path = c.path + p BY <1>1, <1>2, <1>5
  <2>2. n.path \div p = 1 /\ n.path % p = c.path BY <1>1, <2>1
  <2>3. get_virtual_edge_node_children(n) =
          <<empty_node(h), VirtualNode(c.bottom, c.path, c.length, h)>>
    BY <1>2, <2>2 DEF get_virtual_edge_node_children, p
  <2> QED BY <1>3, <1>5, <2>3
<1> QED BY <1>4, <1>5

\* What get_children makes of a node that stands for a subtree stands for
\* the two subtrees below it; only a binary node has children known by hash.
LEMMA ChildrenStandFor ==
  ASSUME NEW h \in Nat, h < Height, NEW l, NEW r, SubtreeOK(l, h), SubtreeOK(r, h),
         NEW n, NEW st, StandsFor(n, ReferenceNode(l, r), st)
  PROVE  /\ StandsFor(get_children(n)[1], l, st)
         /\ StandsFor(get_children(n)[2], r, st)
         /\ is_empty(l.node) \/ is_empty(r.node) =>
               get_children(n)[1] = l.node /\ get_children(n)[2] = r.node
<1> USE NodesAssumption
<1> DEFINE s == ReferenceNode(l, r)
<1>1. SubtreeOK(s, h + 1) /\ h \in 0 .. Height /\ h + 1 \in 0 .. Height
  BY ReferenceNodeOK
<1>2. /\ NodeOK(l.node, h) /\ NodeOK(r.node, h) /\ NodeOK(s.node, h + 1)
      /\ l.node.bottom \in l.facts /\ r.node.bottom \in r.facts
  BY <1>1 DEF SubtreeOK
<1>3. l.node.height = h /\ r.node.height = h /\ s.node.height = h + 1
  BY <1>1, <1>2, NodeHeight
<1>4. s.facts \subseteq st /\ n.bottom \in st /\ Shows(n, s.node) BY DEF StandsFor
<1>5. CASE is_empty(l.node) /\ is_empty(r.node)
  <2>1. /\ l.node = empty_node(h) /\ r.node = empty_node(h)
        /\ s = Subtree(empty_node(h + 1), l.facts \cup r.facts)
    BY <1>5, EmptyChildren
  <2>2. s.node = empty_node(h + 1) /\ s.facts = l.facts \cup r.facts
    BY <2>1 DEF Subtree
  <2>3. n = empty_node(h + 1)
    BY <1>3, <1>4, <2>2 DEF Shows, hash_node, empty_node, from_hash, VirtualNode
  <2>4. get_children(n) = <<empty_node(h), empty_node(h)>>
    <3>1. is_empty(n) /\ n.height - 1 = h
      BY <2>3 DEF is_empty, empty_node, from_hash, VirtualNode
    <3> QED BY <3>1 DEF get_children
  <2> QED BY <1>2, <1>4, <2>1, <2>2, <2>4 DEF StandsFor, Shows
<1>6. CASE \E bit \in {0, 1}, c \in {l, r} :
              /\ ~is_empty(c.node)
              /\ s.node = VirtualNode(c.node.bottom,
                                      c.node.path + bit * Pow2[c.node.length],
                                      c.node.length + 1, h + 1)
              /\ s.facts = l.facts \cup r.facts
              /\ <<l, r>>[1 + bit] = c
              /\ is_empty(<<l, r>>[2 - bit].node)
  <2>1. PICK bit \in {0, 1}, c \in {l, r} :
              /\ ~is_empty(c.node)
              /\ s.node = VirtualNode(c.node.bottom,
                                      c.node.path + bit * Pow2[c.node.length],
                                      c.node.length + 1, h + 1)
              /\ s.facts = l.facts \cup r.facts
              /\ <<l, r>>[1 + bit] = c
              /\ is_empty(<<l, r>>[2 - bit].node)
    BY <1>6
  <2>2. NodeOK(c.node, h) BY <1>2
  <2>3. /\ get_virtual_edge_node_children(s.node)[1 + bit] = c.node
        /\ get_virtual_edge_node_children(s.node)[2 - bit] = empty_node(h)
    BY <2>1, <2>2, EdgeChildren
  <2>4. c.node.length \in Nat BY <2>2 DEF NodeOK
  <2>5. /\ s.node.length # 0 /\ s.node.bottom = c.node.bottom
        /\ s.node.bottom # EMPTY_NODE_HASH
    BY <2>1, <2>4 DEF VirtualNode, is_empty
  <2>6. get_children(n) = get_virtual_edge_node_children(s.node)
    <3>1. CASE n = s.node
      BY <3>1, <2>5 DEF get_children, is_empty, is_virtual_edge
    <3>2. CASE n = from_hash(hash_node(s.node), s.node.height)
      <4>1. hash_node(s.node) = EdgeNodeFact(s.node.bottom, s.node.path, s.node.length)
        BY <2>5 DEF hash_node
      <4>2. s.node = VirtualNode(s.node.bottom, s.node.path, s.node.length, h + 1)
        BY <1>2 DEF NodeOK
      <4>3. n.bottom = EdgeNodeFact(s.node.bottom, s.node.path, s.node.length)
            /\ n.length = 0 /\ n.height = h + 1
        BY <1>3, <3>2, <4>1 DEF from_hash, VirtualNode
      <4>4. /\ n.bottom.kind = "edge" /\ n.bottom.bottom = s.node.bottom
            /\ n.bottom.path = s.node.path /\ n.bottom.length = s.node.length
        BY <4>3 DEF EdgeNodeFact
      <4>5. ~is_empty(n) /\ ~is_virtual_edge(n)
        BY <4>3, <4>4 DEF is_empty, is_virtual_edge, EMPTY_NODE_HASH
      <4>6. get_children(n) = get_virtual_edge_node_children(
               VirtualNode(n.bottom.bottom, n.bottom.path, n.bottom.length, n.height))
        BY <4>4, <4>5 DEF get_children
      <4> QED BY <4>2, <4>3, <4>4, <4>6
    <3> QED BY <1>4, <3>1, <3>2 DEF Shows
  <2>7. <<l, r>>[2 - bit].node = empty_node(h)
    BY <1>2, <2>1 DEF NodeOK, is_empty, empty_node, from_hash, VirtualNode,
                      EMPTY_NODE_HASH
  <2>8. CASE bit = 0
    <3>1. l = c /\ r.node = empty_node(h) BY <2>1, <2>7, <2>8
    <3>2. get_children(n)[1] = l.node /\ get_children(n)[2] = r.node
      BY <2>3, <2>6, <2>8, <3>1
    <3> QED BY <1>2, <1>4, <2>1, <3>2 DEF StandsFor, Shows
  <2>9. CASE bit = 1
    <3>1. r = c /\ l.node = empty_node(h) BY <2>1, <2>7, <2>9
    <3>2. get_children(n)[1] = l.node /\ get_children(n)[2] = r.node
      BY <2>3, <2>6, <2>9, <3>1
    <3> QED BY <1>2, <1>4, <2>1, <3>2 DEF StandsFor, Shows
  <2> QED BY <2>8, <2>9
<1>7. CASE ~is_empty(l.node) /\ ~is_empty(r.node)
  <2> DEFINE binary == BinaryNodeFact(hash_node(l.node), hash_node(r.node))
  <2>1. /\ s.node = from_hash(binary, h + 1)
        /\ s.facts = l.facts \cup r.facts
                     \cup {binary, hash_node(l.node), hash_node(r.node)}
    BY <1>3, <1>7 DEF ReferenceNode, Subtree
  <2>2. n = from_hash(binary, h + 1)
    <3> HIDE DEF binary
    <3> QED BY <1>3, <1>4, <2>1 DEF Shows, hash_node, from_hash, VirtualNode
  <2>3. /\ n.bottom = binary /\ n.length = 0 /\ n.height - 1 = h
        /\ binary.kind = "binary" /\ binary.left = hash_node(l.node)
        /\ binary.right = hash_node(r.node)
    BY <2>2 DEF from_hash, VirtualNode, BinaryNodeFact
  <2> HIDE DEF binary
  <2>4. ~is_empty(n) /\ ~is_virtual_edge(n)
    BY <2>3 DEF is_empty, is_virtual_edge, EMPTY_NODE_HASH
  <2>5. get_children(n) = <<from_hash(hash_node(l.node), h),
                            from_hash(hash_node(r.node), h)>>
    BY <2>3, <2>4 DEF get_children
  <2>6. /\ from_hash(hash_node(l.node), h).bottom = hash_node(l.node)
        /\ from_hash(hash_node(r.node), h).bottom = hash_node(r.node)
    BY DEF from_hash, VirtualNode
  <2> QED BY <1>3, <1>4, <1>7, <2>1, <2>5, <2>6 DEF StandsFor, Shows
<1>8. CASE is_empty(l.node) /\ ~is_empty(r.node)
  <2>1. /\ s.node = VirtualNode(r.node.bottom, r.node.path + Pow2[r.node.length],
                                r.node.length + 1, h + 1)
        /\ s.facts = l.facts \cup r.facts
    BY <1>3, <1>8 DEF ReferenceNode, Subtree
  <2>2. Pow2[r.node.length] = 1 * Pow2[r.node.length]
    BY <1>2, Pow2Type DEF NodeOK
  <2> HIDE DEF s
  <2> QED BY <1>6, <1>8, <2>1, <2>2
<1>9. CASE ~is_empty(l.node) /\ is_empty(r.node)
  <2>1. /\ s.node = VirtualNode(l.node.bottom, l.node.path,
                                l.node.length + 1, h + 1)
        /\ s.facts = l.facts \cup r.facts
    BY <1>3, <1>9 DEF ReferenceNode, Subtree
  <2>2. l.node.path = l.node.path + 0 * Pow2[l.node.length]
    BY <1>2, Pow2Type DEF NodeOK, Positions
  <2> HIDE DEF s
  <2> QED BY <1>6, <1>9, <2>1, <2>2
<1> QED BY <1>5, <1>7, <1>8, <1>9

-----------------------------------------------------------------------------
(* The leaves below a node.                                                *)

Block(p, h) == (p * Pow2[h]) .. ((p + 1) * Pow2[h] - 1)

LEMMA LessTimes ==
  ASSUME NEW a \in Int, NEW b \in Int, NEW c \in Nat \ {0}, a * c < b * c
  PROVE  a + 1 <= b
<1> SUFFICES ASSUME b <= a PROVE FALSE OBVIOUS
<1>1. PICK d \in Nat : a = b + d
  <2>1. a - b \in Nat /\ a = b + (a - b) OBVIOUS
  <2> QED BY <2>1
<1>2. a * c = b * c + d * c BY <1>1
<1>3. d * c \in Nat OBVIOUS
<1> QED BY <1>2, <1>3

LEMMA LeqTimes ==
  ASSUME NEW a \in Int, NEW b \in Int, NEW c \in Nat \ {0}, a <= b
  PROVE  a * c <= b * c
<1>1. PICK d \in Nat : b = a + d
  <2>1. b - a \in Nat /\ b = a + (b - a) OBVIOUS
  <2> QED BY <2>1
<1>2. b * c = a * c + d * c BY <1>1
<1>3. d * c \in Nat OBVIOUS
<1> QED BY <1>2, <1>3

\* The leaves below a node are those below its left or its right child.
LEMMA BlockSplit ==
  ASSUME NEW p \in Nat, NEW h \in Nat, NEW leaf \in Int
  PROVE  /\ leaf \in Block(p, h + 1) <=> leaf \in Block(2 * p, h) \cup Block(2 * p + 1, h)
         /\ ~ (leaf \in Block(2 * p, h) /\ leaf \in Block(2 * p + 1, h))
<1>1. Pow2[h] \in Nat \ {0} /\ Pow2[h + 1] = 2 * Pow2[h] BY Pow2Def, Pow2Type
<1>2. PICK c \in Nat \ {0} : c = Pow2[h] BY <1>1
<1>3. PICK x \in Nat : x = p * c BY <1>2
<1>4. /\ p * Pow2[h + 1] = 2 * x /\ (p + 1) * Pow2[h + 1] = 2 * x + 2 * c
      /\ (2 * p) * Pow2[h] = 2 * x /\ (2 * p + 1) * Pow2[h] = 2 * x + c
      /\ (2 * p + 1 + 1) * Pow2[h] = 2 * x + 2 * c
  BY <1>1, <1>2, <1>3
<1>5. /\ Block(p, h + 1) = (2 * x) .. (2 * x + 2 * c - 1)
      /\ Block(2 * p, h) = (2 * x) .. (2 * x + c - 1)
      /\ Block(2 * p + 1, h) = (2 * x + c) .. (2 * x + 2 * c - 1)
  BY <1>4 DEF Block
<1>6. /\ leaf \in Block(p, h + 1) <=> 2 * x <= leaf /\ leaf < 2 * x + 2 * c
      /\ leaf \in Block(2 * p, h) <=> 2 * x <= leaf /\ leaf < 2 * x + c
      /\ leaf \in Block(2 * p + 1, h) <=> 2 * x + c <= leaf /\ leaf < 2 * x + 2 * c
  BY <1>5
<1> QED BY <1>6

\* A node of the tree has leaves, and they are leaves of the tree.
LEMMA BlockInIndex ==
  ASSUME NEW h \in 0 .. Height, NEW p \in Positions(Height - h)
  PROVE  /\ p \in Nat
         /\ p * Pow2[h] \in Block(p, h)
         /\ Block(p, h) \subseteq Index
<1> USE NodesAssumption
<1>1. /\ Pow2[h] \in Nat \ {0} /\ Pow2[Height - h] \in Nat \ {0}
      /\ Pow2[Height] = Pow2[Height - h] * Pow2[h]
  <2>1. Height - h \in Nat /\ (Height - h) + h = Height OBVIOUS
  <2> QED BY <2>1, Pow2Type, Pow2Sum
<1>2. PICK c \in Nat \ {0} : c = Pow2[h] BY <1>1
<1>3. PICK m \in Nat \ {0} : m = Pow2[Height - h] BY <1>1
<1>4. p \in 0 .. (m - 1) BY <1>3 DEF Positions
<1>5. (p + 1) * c <= m * c BY <1>4, LeqTimes
<1>6. (p + 1) * c = p * c + c /\ p * c \in Nat BY <1>4
<1>7. Index = 0 .. (m * c - 1) BY <1>1, <1>2, <1>3 DEF Index, Positions
<1>8. Block(p, h) = (p * c) .. (p * c + c - 1) BY <1>2, <1>6 DEF Block
<1>9. m * c \in Nat OBVIOUS
<1>10. PICK x \in Nat : x = p * c BY <1>6
<1>11. PICK y \in Nat : y = m * c BY <1>9
<1>12. x + c <= y BY <1>5, <1>6, <1>10, <1>11
<1>13. Block(p, h) = x .. (x + c - 1) /\ Index = 0 .. (y - 1)
  BY <1>7, <1>8, <1>10, <1>11
<1>14. p * Pow2[h] = x BY <1>2, <1>10
<1> QED BY <1>4, <1>12, <1>13, <1>14

\* Two nodes of one layer share no leaf.
LEMMA BlockEq ==
  ASSUME NEW h \in Nat, NEW p \in Nat, NEW q \in Nat, NEW leaf \in Int,
         leaf \in Block(p, h), leaf \in Block(q, h)
  PROVE  p = q
<1>1. PICK c \in Nat \ {0} : c = Pow2[h] BY Pow2Type
<1>2. /\ p * c <= leaf /\ leaf < (p + 1) * c
      /\ q * c <= leaf /\ leaf < (q + 1) * c
  BY <1>1 DEF Block
<1>3. p * c < (q + 1) * c /\ q * c < (p + 1) * c
  <2>1. /\ p * c \in Int /\ q * c \in Int /\ (p + 1) * c \in Int /\ (q + 1) * c \in Int
    OBVIOUS
  <2> QED BY <1>2, <2>1
<1>4. p + 1 <= q + 1 /\ q + 1 <= p + 1
  BY <1>3, LessTimes
<1> QED BY <1>4

\* Of two nodes that share a leaf, the higher has all leaves of the lower.
LEMMA BlockNest ==
  ASSUME NEW h \in Nat, NEW k \in Nat, NEW p \in Nat, NEW q \in Nat, NEW leaf \in Int,
         leaf \in Block(p, h), leaf \in Block(q, h + k)
  PROVE  Block(p, h) \subseteq Block(q, h + k)
<1>1. PICK c \in Nat \ {0} : c = Pow2[h] BY Pow2Type
<1>2. PICK e \in Nat \ {0} : e = Pow2[k] BY Pow2Type
<1>3. Pow2[h + k] = e * c
  <2>1. Pow2[k + h] = e * c BY <1>1, <1>2, Pow2Sum
  <2>2. k + h = h + k OBVIOUS
  <2> QED BY <2>1, <2>2
<1>4. PICK x \in Nat, y \in Nat : x = q * e /\ y = (q + 1) * e OBVIOUS
<1>5. q * Pow2[h + k] = x * c /\ (q + 1) * Pow2[h + k] = y * c
  BY <1>3, <1>4
<1>6. /\ p * c <= leaf /\ leaf < (p + 1) * c
      /\ x * c <= leaf /\ leaf < y * c
  BY <1>1, <1>5 DEF Block
<1>7. x * c < (p + 1) * c /\ p * c < y * c
  <2>1. /\ p * c \in Int /\ x * c \in Int /\ (p + 1) * c \in Int /\ y * c \in Int
    OBVIOUS
  <2> QED BY <1>6, <2>1
<1>8. x + 1 <= p + 1 /\ p + 1 <= y BY <1>7, LessTimes
<1>9. x <= p BY <1>8
<1>10. x * c <= p * c /\ (p + 1) * c <= y * c BY <1>8, <1>9, LeqTimes
<1>11. /\ Block(p, h) = (p * c) .. ((p + 1) * c - 1)
       /\ Block(q, h + k) = (x * c) .. (y * c - 1)
  BY <1>1, <1>5 DEF Block
<1>12. /\ p * c \in Int /\ x * c \in Int /\ (p + 1) * c \in Int /\ y * c \in Int
  OBVIOUS
<1> QED BY <1>10, <1>11, <1>12

-----------------------------------------------------------------------------
(* The indices of nodes: the root is 1, the children of i are 2i, 2i + 1.  *)

\* i is the index of a node at height h; its position in that layer.
Pos(i, h) == i - Pow2[Height - h]
At(i, h) == h \in 0 .. Height /\ i \in Nat /\ Pos(i, h) \in Positions(Height - h)

LEMMA AtRange ==
  ASSUME NEW i, NEW h, At(i, h)
  PROVE  /\ h \in 0 .. Height /\ i \in Nat \ {0}
         /\ Height - h \in Nat /\ Pow2[Height - h] \in Nat \ {0}
         /\ Pow2[Height - h] <= i /\ i < 2 * Pow2[Height - h]
<1> USE NodesAssumption
<1>1. h \in 0 .. Height /\ i \in Nat BY DEF At
<1>2. Height - h \in Nat BY <1>1
<1>3. Pow2[Height - h] \in Nat \ {0} BY <1>2, Pow2Type
<1>4. i - Pow2[Height - h] \in 0 .. (Pow2[Height - h] - 1)
  BY DEF At, Pos, Positions
<1> QED BY <1>1, <1>2, <1>3, <1>4

LEMMA AtIntro ==
  ASSUME NEW i \in Nat, NEW h \in 0 .. Height, Pow2[Height - h] <= i,
         i < 2 * Pow2[Height - h]
  PROVE  At(i, h)
<1> USE NodesAssumption
<1>1. Height - h \in Nat OBVIOUS
<1>2. Pow2[Height - h] \in Nat \ {0} BY <1>1, Pow2Type
<1> QED BY <1>2 DEF At, Pos, Positions

LEMMA Pow2Less ==
  ASSUME NEW a \in Nat, NEW b \in Nat, a < b
  PROVE  2 * Pow2[a] <= Pow2[b]
<1>1. PICK k \in Nat : b = k + (a + 1)
  <2>1. b - (a + 1) \in Nat /\ b = (b - (a + 1)) + (a + 1) OBVIOUS
  <2> QED BY <2>1
<1>2. Pow2[b] = Pow2[k] * Pow2[a + 1] BY <1>1, Pow2Sum
<1>3. Pow2[k] \in Nat \ {0} /\ Pow2[a + 1] \in Nat \ {0} /\ Pow2[a + 1] = 2 * Pow2[a]
  BY Pow2Type, Pow2Def
<1>4. 1 * Pow2[a + 1] <= Pow2[k] * Pow2[a + 1] BY <1>3, LeqTimes
<1> QED BY <1>2, <1>3, <1>4

\* An index is at one height.
LEMMA AtUnique ==
  ASSUME NEW i, NEW h, NEW g, At(i, h), At(i, g)
  PROVE  h = g
<1> USE NodesAssumption
<1>1. /\ h \in 0 .. Height /\ i \in Nat /\ Height - h \in Nat
      /\ Pow2[Height - h] \in Nat /\ Pow2[Height - h] <= i /\ i < 2 * Pow2[Height - h]
  BY AtRange
<1>2. /\ g \in 0 .. Height /\ Height - g \in Nat
      /\ Pow2[Height - g] \in Nat /\ Pow2[Height - g] <= i /\ i < 2 * Pow2[Height - g]
  BY AtRange
<1>3. CASE h < g
  <2>1. Height - g < Height - h BY <1>1, <1>2, <1>3
  <2>2. 2 * Pow2[Height - g] <= Pow2[Height - h] BY <1>1, <1>2, <2>1, Pow2Less
  <2> QED BY <1>1, <1>2, <2>2
<1>4. CASE g < h
  <2>1. Height - h < Height - g BY <1>1, <1>2, <1>4
  <2>2. 2 * Pow2[Height - h] <= Pow2[Height - g] BY <1>1, <1>2, <2>1, Pow2Less
  <2> QED BY <1>1, <1>2, <2>2
<1> QED BY <1>1, <1>2, <1>3, <1>4

\* The root is the only node of the tree's height.
LEMMA AtRoot ==
  /\ At(1, Height) /\ Pos(1, Height) = 0
  /\ \A i : At(i, Height) => i = 1
<1> USE NodesAssumption
<1>1. Height - Height = 0 /\ Pow2[0] = 1 /\ Height \in 0 .. Height BY Pow2Def
<1>2. At(1, Height) BY <1>1, AtIntro
<1>3. ASSUME NEW i, At(i, Height) PROVE i = 1
  <2>1. i \in Nat /\ Pow2[Height - Height] <= i /\ i < 2 * Pow2[Height - Height]
    BY <1>3, AtRange
  <2> QED BY <1>1, <2>1
<1> QED BY <1>1, <1>2, <1>3 DEF Pos

LEMMA AtChildren ==
  ASSUME NEW i, NEW h \in Nat, At(i, h + 1)
  PROVE  /\ At(2 * i, h) /\ Pos(2 * i, h) = 2 * Pos(i, h + 1)
         /\ At(2 * i + 1, h) /\ Pos(2 * i + 1, h) = 2 * Pos(i, h + 1) + 1
<1> USE NodesAssumption
<1>1. /\ h + 1 \in 0 .. Height /\ i \in Nat /\ Height - (h + 1) \in Nat
      /\ Pow2[Height - (h + 1)] \in Nat
      /\ Pow2[Height - (h + 1)] <= i /\ i < 2 * Pow2[Height - (h + 1)]
  BY AtRange
<1>2. Height - h = (Height - (h + 1)) + 1 /\ h \in 0 .. Height BY <1>1
<1>3. Pow2[Height - h] = 2 * Pow2[Height - (h + 1)] BY <1>1, <1>2, Pow2Def
<1>4. At(2 * i, h) /\ At(2 * i + 1, h) BY <1>1, <1>2, <1>3, AtIntro
<1> QED BY <1>1, <1>3, <1>4 DEF Pos

-----------------------------------------------------------------------------
(* The subtree the modified leaves induce.                                 *)

\* mods maps some leaves to new values.
IsMods(mods) == mods \in [DOMAIN mods -> Value] /\ DOMAIN mods \subseteq Index

LEMMA ModificationsType ==
  ASSUME NEW mods \in Modifications
  PROVE  IsMods(mods)
<1>1. PICK d \in SUBSET Index : mods \in [d -> Value] BY DEF Modifications
<1> QED BY <1>1 DEF IsMods

LEMMA NoNodesIsMods == IsMods(NoNodes)
BY DEF IsMods, NoNodes

\* The update of a node, in terms of those of its children.
LEMMA UpdateOfLeaf ==
  ASSUME NEW mods, NEW i
  PROVE  /\ i \in DOMAIN mods =>
               UpdateOf(UpdateLayers(mods)[0], i) = [update |-> "leaf", fact |-> mods[i]]
         /\ i \notin DOMAIN mods => UpdateOf(UpdateLayers(mods)[0], i) = NoUpdate
<1>1. UpdateLayers(mods)[0] =
        [k \in DOMAIN mods |-> [update |-> "leaf", fact |-> mods[k]]]
  BY UpdateLayersDef
<1> QED BY <1>1 DEF UpdateOf

LEMMA UpdateOfInner ==
  ASSUME NEW mods, NEW h \in Nat, NEW i
  PROVE  LET u == UpdateLayers(mods)
         IN /\ i \in DOMAIN u[h + 1] <=> \E k \in DOMAIN u[h] : i = k \div 2
            /\ i \in DOMAIN u[h + 1] =>
                  UpdateOf(u[h + 1], i) =
                  [update |-> "tuple", left |-> UpdateOf(u[h], 2 * i),
                   right |-> UpdateOf(u[h], 2 * i + 1)]
            /\ i \notin DOMAIN u[h + 1] => UpdateOf(u[h + 1], i) = NoUpdate
<1>1. PICK a, b : a = UpdateLayers(mods)[h] /\ b = UpdateLayers(mods)[h + 1] OBVIOUS
<1>2. b = ParentLayer(a) BY <1>1, UpdateLayersDef
<1>3. b = [j \in {k \div 2 : k \in DOMAIN a} |->
             [update |-> "tuple", left |-> UpdateOf(a, 2 * j),
              right |-> UpdateOf(a, 2 * j + 1)]]
  BY <1>2 DEF ParentLayer
<1>4. DOMAIN b = {k \div 2 : k \in DOMAIN a} BY <1>3
<1>5. i \in DOMAIN b => b[i] = [update |-> "tuple", left |-> UpdateOf(a, 2 * i),
                                right |-> UpdateOf(a, 2 * i + 1)]
  BY <1>3
<1>6. UpdateOf(b, i) = IF i \in DOMAIN b THEN b[i] ELSE NoUpdate BY DEF UpdateOf
<1>7. i \in DOMAIN b <=> \E k \in DOMAIN a : i = k \div 2 BY <1>4
<1> QED BY <1>1, <1>5, <1>6, <1>7

LEMMA UpdateParents ==
  ASSUME NEW mods, NEW h \in Nat
  PROVE  DOMAIN UpdateLayers(mods)[h + 1] = {k \div 2 : k \in DOMAIN UpdateLayers(mods)[h]}
<1>1. UpdateLayers(mods)[h + 1] = ParentLayer(UpdateLayers(mods)[h]) BY UpdateLayersDef
<1> QED BY <1>1 DEF ParentLayer

\* The layers of the update are layers of the tree, all of them empty or none.
LEMMA UpdateDomain ==
  ASSUME NEW mods, IsMods(mods)
  PROVE  \A h \in 0 .. Height :
            /\ DOMAIN UpdateLayers(mods)[h] \subseteq Positions(Height - h)
            /\ DOMAIN UpdateLayers(mods)[h] = {} <=> DOMAIN mods = {}
<1> USE NodesAssumption
<1> DEFINE D(h) == DOMAIN UpdateLayers(mods)[h]
           S == {h \in Nat : h <= Height => /\ D(h) \subseteq Positions(Height - h)
                                            /\ D(h) = {} <=> DOMAIN mods = {}}
<1>1. 0 \in S
  <2>1. D(0) = DOMAIN mods BY UpdateLayersDef
  <2>2. DOMAIN mods \subseteq Positions(Height - 0) BY DEF IsMods, Index
  <2> HIDE DEF D
  <2> QED BY <2>1, <2>2
<1>2. ASSUME NEW h \in Nat, h \in S PROVE h + 1 \in S
  <2> SUFFICES ASSUME h + 1 <= Height
               PROVE  /\ D(h + 1) \subseteq Positions(Height - (h + 1))
                      /\ D(h + 1) = {} <=> DOMAIN mods = {}
    OBVIOUS
  <2>1. Height - (h + 1) \in Nat /\ Height - h = (Height - (h + 1)) + 1 OBVIOUS
  <2>2. D(h) \subseteq Positions((Height - (h + 1)) + 1) /\ (D(h) = {} <=> DOMAIN mods = {})
    BY <1>2, <2>1
  <2>3. D(h + 1) = {k \div 2 : k \in D(h)} BY UpdateParents
  <2> HIDE DEF D
  <2>4. D(h + 1) \subseteq Positions(Height - (h + 1))
    BY <2>1, <2>2, <2>3, ParentPosition
  <2>5. D(h + 1) = {} <=> D(h) = {} BY <2>3
  <2> QED BY <2>2, <2>4, <2>5
<1>3. \A h \in Nat : h \in S
  <2> HIDE DEF S
  <2> QED BY <1>1, <1>2, NatSetInduction
<1> QED BY <1>3

LEMMA UpdateRoot ==
  ASSUME NEW mods, IsMods(mods)
  PROVE  build_update_tree(mods) = UpdateOf(UpdateLayers(mods)[Height], 0)
<1> USE NodesAssumption
<1> DEFINE D == DOMAIN UpdateLayers(mods)[Height]
<1>1. Height \in 0 .. Height /\ Height - Height = 0 OBVIOUS
<1>2. D \subseteq Positions(0) /\ (D = {} <=> DOMAIN mods = {}) BY <1>1, UpdateDomain
<1>3. Positions(0) = {0} BY Pow2Def DEF Positions
<1>4. 0 \in D <=> DOMAIN mods # {}
  <2> HIDE DEF D
  <2> QED BY <1>2, <1>3
<1> QED BY <1>4 DEF build_update_tree, UpdateOf

LEMMA UnifyType ==
  ASSUME NEW tree \in Tree, NEW mods, IsMods(mods)
  PROVE  /\ Unify(tree, mods) \in Tree
         /\ \A i \in Index : Unify(tree, mods)[i] =
                             IF i \in DOMAIN mods THEN mods[i] ELSE tree[i]
<1>1. DOMAIN tree \cup DOMAIN mods = Index BY DEF Tree, IsMods
<1>2. Unify(tree, mods) = [i \in Index |-> IF i \in DOMAIN mods THEN mods[i] ELSE tree[i]]
  BY <1>1 DEF Unify
<1>3. \A i \in Index : (IF i \in DOMAIN mods THEN mods[i] ELSE tree[i]) \in Value
  BY DEF Tree, IsMods
<1> QED BY <1>2, <1>3 DEF Tree

\* Where the update has no node, the new tree is the old one.
LEMMA Untouched ==
  ASSUME NEW tree \in Tree, NEW mods, IsMods(mods)
  PROVE  \A h \in 0 .. Height : \A i \in Positions(Height - h) :
            i \notin DOMAIN UpdateLayers(mods)[h] =>
            Ref(Unify(tree, mods), h, i) = Ref(tree, h, i)
<1> USE NodesAssumption
<1> DEFINE D(h) == DOMAIN UpdateLayers(mods)[h]
           new == Unify(tree, mods)
           S == {h \in Nat : h <= Height =>
                    \A i \in Positions(Height - h) :
                       i \notin D(h) => Ref(new, h, i) = Ref(tree, h, i)}
<1>1. 0 \in S
  <2>1. ASSUME NEW i \in Positions(Height - 0), i \notin D(0)
        PROVE  Ref(new, 0, i) = Ref(tree, 0, i)
    <3>1. i \in Index BY DEF Index
    <3>2. D(0) = DOMAIN mods BY UpdateLayersDef
    <3>3. new[i] = tree[i] BY <2>1, <3>1, <3>2, UnifyType
    <3>4. Ref(new, 0, i) = ReferenceLeaf(new[i]) BY <3>1, RefDef
    <3>5. Ref(tree, 0, i) = ReferenceLeaf(tree[i]) BY <3>1, RefDef
    <3> QED BY <3>3, <3>4, <3>5
  <2> QED BY <2>1
<1>2. ASSUME NEW h \in Nat, h \in S PROVE h + 1 \in S
  <2> SUFFICES ASSUME h + 1 <= Height, NEW i \in Positions(Height - (h + 1)),
                      i \notin D(h + 1)
               PROVE  Ref(new, h + 1, i) = Ref(tree, h + 1, i)
    OBVIOUS
  <2>1. Height - (h + 1) \in Nat /\ Height - h = (Height - (h + 1)) + 1 OBVIOUS
  <2>2. 2 * i \in Positions(Height - h) /\ 2 * i + 1 \in Positions(Height - h)
    BY <2>1, ChildPositions
  <2>3. i \in Int BY DEF Positions
  <2>4. (2 * i) \div 2 = i /\ (2 * i + 1) \div 2 = i BY <2>3
  <2>5. \A k \in D(h) : i # k \div 2 BY UpdateOfInner
  <2>6. 2 * i \notin D(h) /\ 2 * i + 1 \notin D(h)
    <3> HIDE DEF D
    <3> QED BY <2>4, <2>5
  <2>7. /\ Ref(new, h, 2 * i) = Ref(tree, h, 2 * i)
        /\ Ref(new, h, 2 * i + 1) = Ref(tree, h, 2 * i + 1)
    <3> HIDE DEF D, new
    <3> QED BY <1>2, <2>2, <2>6
  <2>8. Ref(new, h + 1, i) = ReferenceNode(Ref(new, h, 2 * i), Ref(new, h, 2 * i + 1))
    BY RefDef
  <2>9. Ref(tree, h + 1, i) = ReferenceNode(Ref(tree, h, 2 * i), Ref(tree, h, 2 * i + 1))
    BY RefDef
  <2> HIDE DEF new
  <2> QED BY <2>7, <2>8, <2>9
<1>3. \A h \in Nat : h \in S
  <2> HIDE DEF S
  <2> QED BY <1>1, <1>2, NatSetInduction
<1> QED BY <1>3

-----------------------------------------------------------------------------
(* Reading a tree from its root.                                           *)

\* n0 is the root of a tree that is completely in st.
ReadsTree(n0, tree, st) == tree \in Tree /\ StandsFor(n0, Ref(tree, Height, 0), st)

LEMMA RootStandsFor ==
  ASSUME NEW tree \in Tree, NEW st, ReferenceFacts(tree) \subseteq st
  PROVE  ReadsTree(from_hash(ReferenceRoot(tree), Height), tree, st)
<1> USE NodesAssumption
<1> DEFINE s == Ref(tree, Height, 0)
           n == from_hash(ReferenceRoot(tree), Height)
<1>1. Height \in 0 .. Height /\ Height \in Nat /\ 0 \in Positions(Height - Height)
  BY Pow2Def DEF Positions
<1>2. SubtreeOK(s, Height) BY <1>1, RefOK
<1>3. s.node.height = Height BY <1>1, <1>2, NodeHeight DEF SubtreeOK
<1>4. Reference(tree) = s BY DEF Reference, Ref
<1>5. ReferenceRoot(tree) = hash_node(s.node) /\ ReferenceFacts(tree) = s.facts \cup {hash_node(s.node)}
  BY <1>4 DEF ReferenceRoot, ReferenceFacts
<1> HIDE DEF s
<1>6. n = from_hash(hash_node(s.node), s.node.height) BY <1>3, <1>5
<1>7. n.bottom = hash_node(s.node) BY <1>6 DEF from_hash, VirtualNode
<1>8. Shows(n, s.node) BY <1>6 DEF Shows
<1> HIDE DEF n
<1>9. StandsFor(n, s, st) BY <1>5, <1>7, <1>8 DEF StandsFor
<1> QED BY <1>9 DEF ReadsTree, n, s

LEMMA NodeLayersAt ==
  ASSUME NEW n0, NEW d \in Nat, NEW p \in Positions(d + 1)
  PROVE  NodeLayers(n0)[d + 1][p] = get_children(NodeLayers(n0)[d][p \div 2])[(p % 2) + 1]
<1>1. NodeLayers(n0)[d + 1] =
        [i \in Positions(d + 1) |-> get_children(NodeLayers(n0)[d][i \div 2])[(i % 2) + 1]]
  BY NodeLayersDef
<1> QED BY <1>1

\* Every node a reader comes to stands for the node of the reference tree.
LEMMA LayersStandFor ==
  ASSUME NEW n0, NEW tree, NEW st, ReadsTree(n0, tree, st)
  PROVE  \A d \in 0 .. Height : \A p \in Positions(d) :
            StandsFor(NodeLayers(n0)[d][p], Ref(tree, Height - d, p), st)
<1> USE NodesAssumption
<1>0. tree \in Tree /\ StandsFor(n0, Ref(tree, Height, 0), st) BY DEF ReadsTree
<1> DEFINE S == {d \in Nat : d <= Height => \A p \in Positions(d) :
                    StandsFor(NodeLayers(n0)[d][p], Ref(tree, Height - d, p), st)}
<1>1. 0 \in S
  <2>1. ASSUME NEW p \in Positions(0)
        PROVE  StandsFor(NodeLayers(n0)[0][p], Ref(tree, Height - 0, p), st)
    <3>1. p = 0 BY Pow2Def DEF Positions
    <3>2. NodeLayers(n0)[0] = [i \in {0} |-> n0] BY NodeLayersDef
    <3>3. NodeLayers(n0)[0][p] = n0 BY <3>1, <3>2
    <3>4. Height - 0 = Height OBVIOUS
    <3> QED BY <1>0, <3>1, <3>3, <3>4
  <2> QED BY <2>1
<1>2. ASSUME NEW d \in Nat, d \in S PROVE d + 1 \in S
  <2> SUFFICES ASSUME d + 1 <= Height, NEW p \in Positions(d + 1)
               PROVE  StandsFor(NodeLayers(n0)[d + 1][p], Ref(tree, Height - (d + 1), p), st)
    OBVIOUS
  <2> DEFINE n == NodeLayers(n0)[d][p \div 2]
  <2>1. PICK h \in Nat : h = Height - (d + 1) OBVIOUS
  <2>2. Height - d = h + 1 /\ h < Height /\ h \in 0 .. Height /\ Height - h = d + 1
        /\ Height - (h + 1) = d
    BY <2>1
  <2>3. PICK q \in Positions(d) : q = p \div 2 BY ParentPosition
  <2>4. p \in Nat /\ q \in Nat BY Pow2Type DEF Positions
  <2>5. p = 2 * q \/ p = 2 * q + 1 BY <2>3, <2>4
  <2> DEFINE l == Ref(tree, h, 2 * q)
             r == Ref(tree, h, 2 * q + 1)
  <2>6. 2 * q \in Positions(Height - h) /\ 2 * q + 1 \in Positions(Height - h)
    BY <2>2, ChildPositions
  <2>7. SubtreeOK(l, h) /\ SubtreeOK(r, h) BY <1>0, <2>2, <2>6, RefOK
  <2>8. Ref(tree, h + 1, q) = ReferenceNode(l, r) BY <2>2, RefDef
  <2>9. StandsFor(n, ReferenceNode(l, r), st)
    <3>1. StandsFor(NodeLayers(n0)[d][q], Ref(tree, Height - d, q), st)
      BY <1>2, <2>2
    <3> QED BY <2>2, <2>3, <2>8, <3>1
  <2> HIDE DEF n, l, r
  <2>10. StandsFor(get_children(n)[1], l, st) /\ StandsFor(get_children(n)[2], r, st)
    BY <2>2, <2>7, <2>9, ChildrenStandFor
  <2>11. NodeLayers(n0)[d + 1][p] = get_children(n)[(p % 2) + 1]
    BY NodeLayersAt DEF n
  <2>12. CASE p = 2 * q
    <3>1. (p % 2) + 1 = 1 BY <2>4, <2>12
    <3> QED BY <2>1, <2>10, <2>11, <2>12, <3>1 DEF l
  <2>13. CASE p = 2 * q + 1
    <3>1. (p % 2) + 1 = 2 BY <2>4, <2>13
    <3> QED BY <2>1, <2>10, <2>11, <2>13, <3>1 DEF r
  <2> QED BY <2>5, <2>12, <2>13
<1>3. \A d \in Nat : d \in S
  <2> HIDE DEF S
  <2> QED BY <1>1, <1>2, NatSetInduction
<1> QED BY <1>3

LEMMA StandsForHeight ==
  ASSUME NEW h \in Nat, NEW s, SubtreeOK(s, h), NEW n, NEW st, StandsFor(n, s, st)
  PROVE  n.height = h /\ ChildrenReads(n) \subseteq st
<1>1. s.node.height = h BY NodeHeight DEF SubtreeOK
<1>2. Shows(n, s.node) /\ n.bottom \in st BY DEF StandsFor
<1>3. n.height = h BY <1>1, <1>2 DEF Shows, from_hash, VirtualNode
<1> QED BY <1>2, <1>3 DEF ChildrenReads

-----------------------------------------------------------------------------
(* The way to a leaf.                                                      *)

\* The node at a depth above a leaf.
LEMMA LeafAncestor ==
  ASSUME NEW d \in 0 .. Height, NEW leaf \in Index
  PROVE  /\ leaf \div Pow2[Height - d] \in Positions(d)
         /\ leaf \in Block(leaf \div Pow2[Height - d], Height - d)
<1> USE NodesAssumption
<1>1. PICK c \in Nat \ {0} : c = Pow2[Height - d]
  <2>1. Height - d \in Nat OBVIOUS
  <2> QED BY <2>1, Pow2Type
<1>2. PICK m \in Nat \ {0} : m = Pow2[d] BY Pow2Type
<1>3. Pow2[Height] = m * c
  <2>1. d + (Height - d) = Height /\ d \in Nat /\ Height - d \in Nat OBVIOUS
  <2> QED BY <1>1, <1>2, <2>1, Pow2Sum
<1>4. leaf \in Nat /\ leaf < m * c BY <1>3, Pow2Type DEF Index, Positions
<1>5. PICK q \in Int : q = leaf \div c BY <1>4
<1>6. q \in Nat /\ q * c <= leaf /\ leaf < (q + 1) * c BY <1>4, <1>5
<1>7. q * c < m * c
  <2>1. q * c \in Int /\ m * c \in Int BY <1>5
  <2> QED BY <1>4, <1>6, <2>1
<1>8. q + 1 <= m BY <1>6, <1>7, LessTimes
<1>9. q \in Positions(d) BY <1>2, <1>6, <1>8 DEF Positions
<1>10. leaf \in Block(q, Height - d)
  <2>1. q * c \in Int /\ (q + 1) * c \in Int BY <1>5
  <2> QED BY <1>1, <1>4, <1>6, <2>1 DEF Block
<1> QED BY <1>1, <1>5, <1>9, <1>10

\* A leaf of a tree that is read.
LEMMA LeafRead ==
  ASSUME NEW n0, NEW tree, NEW st, ReadsTree(n0, tree, st), NEW leaf \in Index
  PROVE  /\ NodeLayers(n0)[Height][leaf] = from_hash(LeafFact(tree[leaf]), 0)
         /\ NodeLayers(n0)[Height][leaf].bottom = LeafFact(tree[leaf])
         /\ LeafFact(tree[leaf]) \in st
<1> USE NodesAssumption
<1> DEFINE n == NodeLayers(n0)[Height][leaf]
           s == ReferenceLeaf(tree[leaf])
<1>1. Height \in 0 .. Height /\ leaf \in Positions(Height) /\ Height - Height = 0
  BY DEF Index
<1>2. Ref(tree, 0, leaf) = s BY RefDef
<1>3. StandsFor(n, s, st) BY <1>1, <1>2, LayersStandFor
<1>4. s.node = from_hash(LeafFact(tree[leaf]), 0) BY DEF ReferenceLeaf, Subtree
<1>5. n = from_hash(LeafFact(tree[leaf]), 0)
  BY <1>3, <1>4 DEF StandsFor, Shows, hash_node, from_hash, VirtualNode
<1>6. n.bottom = LeafFact(tree[leaf]) BY <1>5 DEF from_hash, VirtualNode
<1>7. n.bottom \in st BY <1>3 DEF StandsFor
<1> QED BY <1>5, <1>6, <1>7

-----------------------------------------------------------------------------
(* The nodes above modified leaves.                                        *)

\* A node of the update is one with a modified leaf below it.
LEMMA Touched ==
  ASSUME NEW mods, IsMods(mods), NEW leaf \in DOMAIN mods
  PROVE  \A h \in 0 .. Height : \A p \in Positions(Height - h) :
            leaf \in Block(p, h) => p \in DOMAIN UpdateLayers(mods)[h]
<1> USE NodesAssumption
<1> DEFINE D(h) == DOMAIN UpdateLayers(mods)[h]
           S == {h \in Nat : h <= Height =>
                    \A p \in Positions(Height - h) : leaf \in Block(p, h) => p \in D(h)}
<1>1. leaf \in Index /\ leaf \in Nat BY Pow2Type DEF IsMods, Index, Positions
<1>2. 0 \in S
  <2>1. ASSUME NEW p \in Positions(Height - 0), leaf \in Block(p, 0) PROVE p \in D(0)
    <3>1. p \in Nat BY Pow2Type DEF Positions
    <3>2. Block(p, 0) = p .. p
      <4>1. p * Pow2[0] = p /\ (p + 1) * Pow2[0] - 1 = p BY <3>1, Pow2Def
      <4> QED BY <4>1 DEF Block
    <3>3. leaf = p BY <1>1, <2>1, <3>1, <3>2
    <3>4. D(0) = DOMAIN mods BY UpdateLayersDef
    <3> QED BY <3>3, <3>4
  <2> QED BY <2>1
<1>3. ASSUME NEW h \in Nat, h \in S PROVE h + 1 \in S
  <2> SUFFICES ASSUME h + 1 <= Height, NEW p \in Positions(Height - (h + 1)),
                      leaf \in Block(p, h + 1)
               PROVE  p \in D(h + 1)
    OBVIOUS
  <2>1. Height - (h + 1) \in Nat /\ Height - h = (Height - (h + 1)) + 1 /\ h <= Height
    OBVIOUS
  <2>2. p \in Nat BY <2>1, Pow2Type DEF Positions
  <2>3. 2 * p \in Positions(Height - h) /\ 2 * p + 1 \in Positions(Height - h)
    BY <2>1, ChildPositions
  <2>4. leaf \in Block(2 * p, h) \/ leaf \in Block(2 * p + 1, h)
    BY <1>1, <2>2, BlockSplit
  <2>5. 2 * p \in D(h) \/ 2 * p + 1 \in D(h) BY <1>3, <2>1, <2>3, <2>4
  <2>6. (2 * p) \div 2 = p /\ (2 * p + 1) \div 2 = p BY <2>2
  <2>7. D(h + 1) = {k \div 2 : k \in D(h)} BY UpdateParents
  <2> HIDE DEF D
  <2>8. CASE 2 * p \in D(h) BY <2>6, <2>7, <2>8
  <2>9. CASE 2 * p + 1 \in D(h) BY <2>6, <2>7, <2>9
  <2> QED BY <2>5, <2>8, <2>9
<1>4. \A h \in Nat : h \in S
  <2> HIDE DEF S
  <2> QED BY <1>2, <1>3, NatSetInduction
<1> QED BY <1>4

\* A reference node is empty where both its children are, and has length 0
\* where neither is.
LEMMA ReferenceNodeNotEmpty ==
  ASSUME NEW h \in Nat, h < Height, NEW l, NEW r, SubtreeOK(l, h), SubtreeOK(r, h)
  PROVE  LET n == ReferenceNode(l, r).node
         IN /\ is_empty(n) <=> is_empty(l.node) /\ is_empty(r.node)
            /\ n.length = 0 /\ ~is_empty(n) => ~is_empty(l.node) /\ ~is_empty(r.node)
<1> USE NodesAssumption
<1> DEFINE n == ReferenceNode(l, r).node
           binary == BinaryNodeFact(hash_node(l.node), hash_node(r.node))
<1>1. NodeOK(l.node, h) /\ NodeOK(r.node, h) BY DEF SubtreeOK
<1>2. l.node.length \in Nat /\ r.node.length \in Nat BY <1>1 DEF NodeOK
<1>3. CASE is_empty(l.node) /\ is_empty(r.node)
  <2>1. n = empty_node(h + 1) BY <1>3, EmptyChildren DEF Subtree
  <2> QED BY <1>3, <2>1 DEF is_empty, empty_node, from_hash, VirtualNode
<1>4. CASE is_empty(l.node) /\ ~is_empty(r.node)
  <2>1. n.bottom = r.node.bottom /\ n.length = r.node.length + 1
    BY <1>4 DEF ReferenceNode, Subtree, VirtualNode
  <2> QED BY <1>2, <1>4, <2>1 DEF is_empty
<1>5. CASE ~is_empty(l.node) /\ is_empty(r.node)
  <2>1. n.bottom = l.node.bottom /\ n.length = l.node.length + 1
    BY <1>5 DEF ReferenceNode, Subtree, VirtualNode
  <2> QED BY <1>2, <1>5, <2>1 DEF is_empty
<1>6. CASE ~is_empty(l.node) /\ ~is_empty(r.node)
  <2>1. n.bottom = binary BY <1>6 DEF ReferenceNode, Subtree, from_hash, VirtualNode
  <2>2. binary # EMPTY_NODE_HASH
    <3>1. binary.kind = "binary" BY DEF BinaryNodeFact
    <3> QED BY <3>1 DEF EMPTY_NODE_HASH
  <2> QED BY <1>6, <2>1, <2>2 DEF is_empty
<1> QED BY <1>3, <1>4, <1>5, <1>6

\* Above a node that is not empty there is no empty node.
LEMMA NotEmptyAbove ==
  ASSUME NEW tree \in Tree, NEW leaf \in Index, NEW h \in 0 .. Height,
         NEW p \in Positions(Height - h), leaf \in Block(p, h),
         ~is_empty(Ref(tree, h, p).node)
  PROVE  \A g \in h .. Height : \A q \in Positions(Height - g) :
            leaf \in Block(q, g) => ~is_empty(Ref(tree, g, q).node)
<1> USE NodesAssumption
<1> DEFINE S == {k \in Nat : h + k <= Height =>
                    \A q \in Positions(Height - (h + k)) :
                       leaf \in Block(q, h + k) => ~is_empty(Ref(tree, h + k, q).node)}
<1>1. leaf \in Int /\ p \in Nat
  <2>1. Height - h \in Nat OBVIOUS
  <2> QED BY <2>1, Pow2Type DEF Index, Positions
<1>2. 0 \in S
  <2>1. h + 0 = h OBVIOUS
  <2>2. ASSUME NEW q \in Positions(Height - h), leaf \in Block(q, h)
        PROVE  ~is_empty(Ref(tree, h, q).node)
    <3>1. q \in Nat
      <4>1. Height - h \in Nat OBVIOUS
      <4> QED BY <4>1, Pow2Type DEF Positions
    <3>2. p = q BY <1>1, <2>2, <3>1, BlockEq
    <3> QED BY <3>2
  <2> QED BY <2>1, <2>2
<1>3. ASSUME NEW k \in Nat, k \in S PROVE k + 1 \in S
  <2>1. PICK g \in Nat : g = h + k OBVIOUS
  <2>2. h + (k + 1) = g + 1 BY <2>1
  <2> SUFFICES ASSUME g + 1 <= Height, NEW q \in Positions(Height - (g + 1)),
                      leaf \in Block(q, g + 1)
               PROVE  ~is_empty(Ref(tree, g + 1, q).node)
    BY <2>2
  <2>3. /\ Height - (g + 1) \in Nat /\ Height - g = (Height - (g + 1)) + 1 /\ g <= Height
        /\ g \in 0 .. Height /\ g < Height
    OBVIOUS
  <2>4. q \in Nat BY <2>3, Pow2Type DEF Positions
  <2>5. 2 * q \in Positions(Height - g) /\ 2 * q + 1 \in Positions(Height - g)
    BY <2>3, ChildPositions
  <2>6. leaf \in Block(2 * q, g) \/ leaf \in Block(2 * q + 1, g)
    BY <1>1, <2>4, BlockSplit
  <2>7. \A x \in Positions(Height - g) : leaf \in Block(x, g) => ~is_empty(Ref(tree, g, x).node)
    BY <1>3, <2>1, <2>3
  <2> DEFINE l == Ref(tree, g, 2 * q)
             r == Ref(tree, g, 2 * q + 1)
  <2>8. ~is_empty(l.node) \/ ~is_empty(r.node) BY <2>5, <2>6, <2>7
  <2>9. Ref(tree, g + 1, q) = ReferenceNode(l, r) BY RefDef
  <2>10. SubtreeOK(l, g) /\ SubtreeOK(r, g) BY <2>3, <2>5, RefOK
  <2> HIDE DEF l, r
  <2>11. ~is_empty(ReferenceNode(l, r).node) BY <2>3, <2>8, <2>10, ReferenceNodeNotEmpty
  <2> QED BY <2>9, <2>11
<1>4. \A k \in Nat : k \in S
  <2> HIDE DEF S
  <2> QED BY <1>2, <1>3, NatSetInduction
<1>5. ASSUME NEW g \in h .. Height PROVE g - h \in Nat /\ h + (g - h) = g OBVIOUS
<1> QED BY <1>4, <1>5

LEMMA PositionsNat == \A d \in Nat : Positions(d) \subseteq Nat
BY Pow2Type DEF Positions

\* A node below the root is come to as its triple unless its sibling is not
\* empty either.
LEMMA ReachedAs ==
  ASSUME NEW n0, NEW tree, NEW st, ReadsTree(n0, tree, st),
         NEW d \in Nat, d + 1 <= Height, NEW p \in Positions(d + 1),
         NEW h \in Nat, h = Height - (d + 1)
  PROVE  \/ NodeLayers(n0)[d + 1][p] = Ref(tree, h, p).node
         \/ /\ ~is_empty(Ref(tree, h, 2 * (p \div 2)).node)
            /\ ~is_empty(Ref(tree, h, 2 * (p \div 2) + 1).node)
<1> USE NodesAssumption
<1>0. tree \in Tree BY DEF ReadsTree
<1> DEFINE n == NodeLayers(n0)[d][p \div 2]
<1>2. Height - d = h + 1 /\ h < Height /\ h \in 0 .. Height /\ Height - h = d + 1
      /\ Height - (h + 1) = d
  OBVIOUS
<1>3. PICK q \in Positions(d) : q = p \div 2 BY ParentPosition
<1>4. p \in Nat /\ q \in Nat BY Pow2Type DEF Positions
<1>5. p = 2 * q \/ p = 2 * q + 1 BY <1>3, <1>4
<1> DEFINE l == Ref(tree, h, 2 * q)
           r == Ref(tree, h, 2 * q + 1)
<1>6. 2 * q \in Positions(Height - h) /\ 2 * q + 1 \in Positions(Height - h)
  BY <1>2, ChildPositions
<1>7. SubtreeOK(l, h) /\ SubtreeOK(r, h) BY <1>0, <1>2, <1>6, RefOK
<1>8. Ref(tree, h + 1, q) = ReferenceNode(l, r) BY <1>2, RefDef
<1>9. StandsFor(n, ReferenceNode(l, r), st)
  <2>1. d \in 0 .. Height BY <1>2
  <2>2. StandsFor(NodeLayers(n0)[d][q], Ref(tree, Height - d, q), st)
    BY <2>1, LayersStandFor
  <2> QED BY <1>2, <1>3, <1>8, <2>2
<1>10. NodeLayers(n0)[d + 1][p] = get_children(n)[(p % 2) + 1] BY NodeLayersAt
<1> HIDE DEF n, l, r
<1>11. is_empty(l.node) \/ is_empty(r.node) =>
          get_children(n)[1] = l.node /\ get_children(n)[2] = r.node
  BY <1>2, <1>7, <1>9, ChildrenStandFor
<1>12. CASE ~is_empty(l.node) /\ ~is_empty(r.node) BY <1>3, <1>12 DEF l, r
<1>13. CASE is_empty(l.node) \/ is_empty(r.node)
  <2>1. CASE p = 2 * q
    <3>1. (p % 2) + 1 = 1 BY <1>4, <2>1
    <3> QED BY <1>10, <1>11, <1>13, <2>1, <3>1 DEF l
  <2>2. CASE p = 2 * q + 1
    <3>1. (p % 2) + 1 = 2 BY <1>4, <2>2
    <3> QED BY <1>10, <1>11, <1>13, <2>2, <3>1 DEF r
  <2> QED BY <1>5, <2>1, <2>2
<1> QED BY <1>12, <1>13

=============================================================================
