------------------------ MODULE PatriciaHintsProofs ------------------------
(***************************************************************************)
(* Proofs about PatriciaHints and StorageProofs, for trees of every height *)
(* and any number of keys: the proofs follow their keys, the guess of the  *)
(* descents is the one the leaves determine, and the walks through the     *)
(* previous and the new tree find every node in the preimage and agree on  *)
(* the siblings.                                                           *)
(***************************************************************************)
EXTENDS PatriciaHints, PatriciaNodesProofs, FiniteSetTheorems, SequenceTheorems,
        TLAPS

-----------------------------------------------------------------------------
(* The recursive functions.                                                *)

\* ProofSteps satisfies its recursive equation.
LEMMA ProofStepsDef ==
  ASSUME NEW hash, NEW key
  PROVE  /\ ProofSteps(hash, key)[0] = [hash |-> hash, height |-> Height, nodes |-> <<>>]
         /\ \A k \in Nat : ProofSteps(hash, key)[k + 1] = ProofStep(ProofSteps(hash, key)[k], key)
<1> DEFINE Base == [hash |-> hash, height |-> Height, nodes |-> <<>>]
           Step(v, n) == ProofStep(v, key)
           Good(g, m) == g = [n \in 0 .. m |->
                                 IF n = 0 THEN Base ELSE Step(g[n - 1], n)]
           S == {m \in Nat : \E g : Good(g, m)}
           Full(f) == f = [n \in Nat |-> IF n = 0 THEN Base ELSE Step(f[n - 1], n)]
<1>0. ProofSteps(hash, key) = CHOOSE f : Full(f) BY DEF ProofSteps
<1> HIDE DEF Base, Step
<1>1. 0 \in S
  <2> DEFINE e == [n \in 0 .. 0 |-> Base]
  <2>1. Good(e, 0) OBVIOUS
  <2> HIDE DEF e, Good
  <2>2. \E g : Good(g, 0) BY <2>1
  <2> QED BY <2>2
<1>2. ASSUME NEW m \in Nat, m \in S PROVE m + 1 \in S
  <2>1. PICK g : Good(g, m) BY <1>2
  <2> DEFINE e == [n \in 0 .. (m + 1) |->
                     IF n = m + 1 THEN Step(g[m], m + 1) ELSE g[n]]
  <2>2. \A n \in 0 .. m : g[n] = IF n = 0 THEN Base ELSE Step(g[n - 1], n) BY <2>1
  <2>3. \A n \in 0 .. (m + 1) : e[n] = IF n = 0 THEN Base ELSE Step(e[n - 1], n)
    BY <2>2
  <2>4. Good(e, m + 1) BY <2>3
  <2> HIDE DEF e, Good
  <2>5. \E f : Good(f, m + 1) BY <2>4
  <2> QED BY <2>5
<1>3. \A m \in Nat : m \in S
  <2> HIDE DEF S
  <2> QED BY <1>1, <1>2, NatSetInduction
<1> DEFINE G(m) == CHOOSE g : Good(g, m)
<1>4. \A m \in Nat : Good(G(m), m) BY <1>3
<1> HIDE DEF G
<1>5. ASSUME NEW m \in Nat PROVE \A n \in 0 .. m : G(m)[n] = G(m + 1)[n]
  <2> DEFINE T == {n \in Nat : n \in 0 .. m => G(m)[n] = G(m + 1)[n]}
  <2>1. /\ \A n \in 0 .. m : G(m)[n] = IF n = 0 THEN Base ELSE Step(G(m)[n - 1], n)
        /\ \A n \in 0 .. (m + 1) :
              G(m + 1)[n] = IF n = 0 THEN Base ELSE Step(G(m + 1)[n - 1], n)
    BY <1>4
  <2>2. 0 \in T BY <2>1
  <2>3. ASSUME NEW n \in Nat, n \in T PROVE n + 1 \in T BY <2>1, <2>3
  <2>4. \A n \in Nat : n \in T
    <3> HIDE DEF T
    <3> QED BY <2>2, <2>3, NatSetInduction
  <2> QED BY <2>4
<1> DEFINE F == [n \in Nat |-> G(n)[n]]
<1>6. Full(F)
  <2>1. ASSUME NEW n \in Nat PROVE F[n] = IF n = 0 THEN Base ELSE Step(F[n - 1], n)
    <3>1. G(n)[n] = IF n = 0 THEN Base ELSE Step(G(n)[n - 1], n) BY <1>4
    <3>2. n # 0 => n - 1 \in Nat /\ (n - 1) + 1 = n OBVIOUS
    <3>3. n # 0 => G(n - 1)[n - 1] = G(n)[n - 1] BY <3>2, <1>5
    <3> QED BY <3>1, <3>2, <3>3
  <2> QED BY <2>1
<1>7. PICK L : L = ProofSteps(hash, key) OBVIOUS
<1>8. Full(L)
  <2> HIDE DEF F, Full
  <2> QED BY <1>0, <1>6, <1>7
<1>9. \A n \in Nat : L[n] = IF n = 0 THEN Base ELSE Step(L[n - 1], n) BY <1>8
<1>10. L[0] = Base /\ \A n \in Nat : L[n + 1] = Step(L[n], n + 1)
  <2>1. \A n \in Nat : (n + 1) - 1 = n /\ n + 1 \in Nat /\ n + 1 # 0 OBVIOUS
  <2> QED BY <1>9, <2>1
<1> QED BY <1>7, <1>10 DEF Base, Step

\* VerifyNodes satisfies its recursive equation.
LEMMA VerifyNodesDef ==
  ASSUME NEW key, NEW commitment_hash, NEW nodes
  PROVE  /\ VerifyNodes(key, commitment_hash, nodes)[0] = [parent_hash |-> commitment_hash, index |-> start, verdict |-> Verdict("Ok", 0)]
         /\ \A k \in Nat :
               VerifyNodes(key, commitment_hash, nodes)[k + 1] =
               VerifyNode(VerifyNodes(key, commitment_hash, nodes)[k], nodes[k + 1], key)
<1> DEFINE Base == [parent_hash |-> commitment_hash, index |-> start, verdict |-> Verdict("Ok", 0)]
           Step(v, n) == VerifyNode(v, nodes[n], key)
           Good(g, m) == g = [n \in 0 .. m |->
                                 IF n = 0 THEN Base ELSE Step(g[n - 1], n)]
           S == {m \in Nat : \E g : Good(g, m)}
           Full(f) == f = [n \in Nat |-> IF n = 0 THEN Base ELSE Step(f[n - 1], n)]
<1>0. VerifyNodes(key, commitment_hash, nodes) = CHOOSE f : Full(f) BY DEF VerifyNodes
<1> HIDE DEF Base, Step
<1>1. 0 \in S
  <2> DEFINE e == [n \in 0 .. 0 |-> Base]
  <2>1. Good(e, 0) OBVIOUS
  <2> HIDE DEF e, Good
  <2>2. \E g : Good(g, 0) BY <2>1
  <2> QED BY <2>2
<1>2. ASSUME NEW m \in Nat, m \in S PROVE m + 1 \in S
  <2>1. PICK g : Good(g, m) BY <1>2
  <2> DEFINE e == [n \in 0 .. (m + 1) |->
                     IF n = m + 1 THEN Step(g[m], m + 1) ELSE g[n]]
  <2>2. \A n \in 0 .. m : g[n] = IF n = 0 THEN Base ELSE Step(g[n - 1], n) BY <2>1
  <2>3. \A n \in 0 .. (m + 1) : e[n] = IF n = 0 THEN Base ELSE Step(e[n - 1], n)
    BY <2>2
  <2>4. Good(e, m + 1) BY <2>3
  <2> HIDE DEF e, Good
  <2>5. \E f : Good(f, m + 1) BY <2>4
  <2> QED BY <2>5
<1>3. \A m \in Nat : m \in S
  <2> HIDE DEF S
  <2> QED BY <1>1, <1>2, NatSetInduction
<1> DEFINE G(m) == CHOOSE g : Good(g, m)
<1>4. \A m \in Nat : Good(G(m), m) BY <1>3
<1> HIDE DEF G
<1>5. ASSUME NEW m \in Nat PROVE \A n \in 0 .. m : G(m)[n] = G(m + 1)[n]
  <2> DEFINE T == {n \in Nat : n \in 0 .. m => G(m)[n] = G(m + 1)[n]}
  <2>1. /\ \A n \in 0 .. m : G(m)[n] = IF n = 0 THEN Base ELSE Step(G(m)[n - 1], n)
        /\ \A n \in 0 .. (m + 1) :
              G(m + 1)[n] = IF n = 0 THEN Base ELSE Step(G(m + 1)[n - 1], n)
    BY <1>4
  <2>2. 0 \in T BY <2>1
  <2>3. ASSUME NEW n \in Nat, n \in T PROVE n + 1 \in T BY <2>1, <2>3
  <2>4. \A n \in Nat : n \in T
    <3> HIDE DEF T
    <3> QED BY <2>2, <2>3, NatSetInduction
  <2> QED BY <2>4
<1> DEFINE F == [n \in Nat |-> G(n)[n]]
<1>6. Full(F)
  <2>1. ASSUME NEW n \in Nat PROVE F[n] = IF n = 0 THEN Base ELSE Step(F[n - 1], n)
    <3>1. G(n)[n] = IF n = 0 THEN Base ELSE Step(G(n)[n - 1], n) BY <1>4
    <3>2. n # 0 => n - 1 \in Nat /\ (n - 1) + 1 = n OBVIOUS
    <3>3. n # 0 => G(n - 1)[n - 1] = G(n)[n - 1] BY <3>2, <1>5
    <3> QED BY <3>1, <3>2, <3>3
  <2> QED BY <2>1
<1>7. PICK L : L = VerifyNodes(key, commitment_hash, nodes) OBVIOUS
<1>8. Full(L)
  <2> HIDE DEF F, Full
  <2> QED BY <1>0, <1>6, <1>7
<1>9. \A n \in Nat : L[n] = IF n = 0 THEN Base ELSE Step(L[n - 1], n) BY <1>8
<1>10. L[0] = Base /\ \A n \in Nat : L[n + 1] = Step(L[n], n + 1)
  <2>1. \A n \in Nat : (n + 1) - 1 = n /\ n + 1 \in Nat /\ n + 1 # 0 OBVIOUS
  <2> QED BY <1>9, <2>1
<1> QED BY <1>7, <1>10 DEF Base, Step

\* MergedProofs satisfies its recursive equation.
LEMMA MergedProofsDef ==
  ASSUME NEW proofs
  PROVE  /\ MergedProofs(proofs)[0] = NoContractData
         /\ \A k \in Nat : MergedProofs(proofs)[k + 1] = Extend(MergedProofs(proofs)[k], proofs[k + 1])
<1> DEFINE Base == NoContractData
           Step(v, n) == Extend(v, proofs[n])
           Good(g, m) == g = [n \in 0 .. m |->
                                 IF n = 0 THEN Base ELSE Step(g[n - 1], n)]
           S == {m \in Nat : \E g : Good(g, m)}
           Full(f) == f = [n \in Nat |-> IF n = 0 THEN Base ELSE Step(f[n - 1], n)]
<1>0. MergedProofs(proofs) = CHOOSE f : Full(f) BY DEF MergedProofs
<1> HIDE DEF Base, Step
<1>1. 0 \in S
  <2> DEFINE e == [n \in 0 .. 0 |-> Base]
  <2>1. Good(e, 0) OBVIOUS
  <2> HIDE DEF e, Good
  <2>2. \E g : Good(g, 0) BY <2>1
  <2> QED BY <2>2
<1>2. ASSUME NEW m \in Nat, m \in S PROVE m + 1 \in S
  <2>1. PICK g : Good(g, m) BY <1>2
  <2> DEFINE e == [n \in 0 .. (m + 1) |->
                     IF n = m + 1 THEN Step(g[m], m + 1) ELSE g[n]]
  <2>2. \A n \in 0 .. m : g[n] = IF n = 0 THEN Base ELSE Step(g[n - 1], n) BY <2>1
  <2>3. \A n \in 0 .. (m + 1) : e[n] = IF n = 0 THEN Base ELSE Step(e[n - 1], n)
    BY <2>2
  <2>4. Good(e, m + 1) BY <2>3
  <2> HIDE DEF e, Good
  <2>5. \E f : Good(f, m + 1) BY <2>4
  <2> QED BY <2>5
<1>3. \A m \in Nat : m \in S
  <2> HIDE DEF S
  <2> QED BY <1>1, <1>2, NatSetInduction
<1> DEFINE G(m) == CHOOSE g : Good(g, m)
<1>4. \A m \in Nat : Good(G(m), m) BY <1>3
<1> HIDE DEF G
<1>5. ASSUME NEW m \in Nat PROVE \A n \in 0 .. m : G(m)[n] = G(m + 1)[n]
  <2> DEFINE T == {n \in Nat : n \in 0 .. m => G(m)[n] = G(m + 1)[n]}
  <2>1. /\ \A n \in 0 .. m : G(m)[n] = IF n = 0 THEN Base ELSE Step(G(m)[n - 1], n)
        /\ \A n \in 0 .. (m + 1) :
              G(m + 1)[n] = IF n = 0 THEN Base ELSE Step(G(m + 1)[n - 1], n)
    BY <1>4
  <2>2. 0 \in T BY <2>1
  <2>3. ASSUME NEW n \in Nat, n \in T PROVE n + 1 \in T BY <2>1, <2>3
  <2>4. \A n \in Nat : n \in T
    <3> HIDE DEF T
    <3> QED BY <2>2, <2>3, NatSetInduction
  <2> QED BY <2>4
<1> DEFINE F == [n \in Nat |-> G(n)[n]]
<1>6. Full(F)
  <2>1. ASSUME NEW n \in Nat PROVE F[n] = IF n = 0 THEN Base ELSE Step(F[n - 1], n)
    <3>1. G(n)[n] = IF n = 0 THEN Base ELSE Step(G(n)[n - 1], n) BY <1>4
    <3>2. n # 0 => n - 1 \in Nat /\ (n - 1) + 1 = n OBVIOUS
    <3>3. n # 0 => G(n - 1)[n - 1] = G(n)[n - 1] BY <3>2, <1>5
    <3> QED BY <3>1, <3>2, <3>3
  <2> QED BY <2>1
<1>7. PICK L : L = MergedProofs(proofs) OBVIOUS
<1>8. Full(L)
  <2> HIDE DEF F, Full
  <2> QED BY <1>0, <1>6, <1>7
<1>9. \A n \in Nat : L[n] = IF n = 0 THEN Base ELSE Step(L[n - 1], n) BY <1>8
<1>10. L[0] = Base /\ \A n \in Nat : L[n + 1] = Step(L[n], n + 1)
  <2>1. \A n \in Nat : (n + 1) - 1 = n /\ n + 1 \in Nat /\ n + 1 # 0 OBVIOUS
  <2> QED BY <1>9, <2>1
<1> QED BY <1>7, <1>10 DEF Base, Step

\* AdditionalKeys satisfies its recursive equation.
LEMMA AdditionalKeysDef ==
  ASSUME NEW contract_data, NEW asked
  PROVE  /\ AdditionalKeys(contract_data, asked)[0] = <<>>
         /\ \A k \in Nat :
               LET verdicts == Verdicts(contract_data, asked)
                   more     == AdditionalKeys(contract_data, asked)
               IN more[k + 1] =
                  IF EndsInEdge(contract_data, k + 1, verdicts[k + 1])
                  THEN Append(more[k],
                              get_key_following_edge(asked[k + 1], verdicts[k + 1].height,
                                  Last(contract_data.storage_proofs[k + 1])))
                  ELSE more[k]
<1> DEFINE Base == <<>>
           Step(v, n) == LET verdicts == Verdicts(contract_data, asked)
                         IN IF EndsInEdge(contract_data, n, verdicts[n])
                            THEN Append(v, get_key_following_edge(asked[n], verdicts[n].height,
                                              Last(contract_data.storage_proofs[n])))
                            ELSE v
           Good(g, m) == g = [n \in 0 .. m |->
                                 IF n = 0 THEN Base ELSE Step(g[n - 1], n)]
           S == {m \in Nat : \E g : Good(g, m)}
           Full(f) == f = [n \in Nat |-> IF n = 0 THEN Base ELSE Step(f[n - 1], n)]
<1>0. AdditionalKeys(contract_data, asked) = CHOOSE f : Full(f) BY DEF AdditionalKeys
<1> HIDE DEF Base, Step
<1>1. 0 \in S
  <2> DEFINE e == [n \in 0 .. 0 |-> Base]
  <2>1. Good(e, 0) OBVIOUS
  <2> HIDE DEF e, Good
  <2>2. \E g : Good(g, 0) BY <2>1
  <2> QED BY <2>2
<1>2. ASSUME NEW m \in Nat, m \in S PROVE m + 1 \in S
  <2>1. PICK g : Good(g, m) BY <1>2
  <2> DEFINE e == [n \in 0 .. (m + 1) |->
                     IF n = m + 1 THEN Step(g[m], m + 1) ELSE g[n]]
  <2>2. \A n \in 0 .. m : g[n] = IF n = 0 THEN Base ELSE Step(g[n - 1], n) BY <2>1
  <2>3. \A n \in 0 .. (m + 1) : e[n] = IF n = 0 THEN Base ELSE Step(e[n - 1], n)
    BY <2>2
  <2>4. Good(e, m + 1) BY <2>3
  <2> HIDE DEF e, Good
  <2>5. \E f : Good(f, m + 1) BY <2>4
  <2> QED BY <2>5
<1>3. \A m \in Nat : m \in S
  <2> HIDE DEF S
  <2> QED BY <1>1, <1>2, NatSetInduction
<1> DEFINE G(m) == CHOOSE g : Good(g, m)
<1>4. \A m \in Nat : Good(G(m), m) BY <1>3
<1> HIDE DEF G
<1>5. ASSUME NEW m \in Nat PROVE \A n \in 0 .. m : G(m)[n] = G(m + 1)[n]
  <2> DEFINE T == {n \in Nat : n \in 0 .. m => G(m)[n] = G(m + 1)[n]}
  <2>1. /\ \A n \in 0 .. m : G(m)[n] = IF n = 0 THEN Base ELSE Step(G(m)[n - 1], n)
        /\ \A n \in 0 .. (m + 1) :
              G(m + 1)[n] = IF n = 0 THEN Base ELSE Step(G(m + 1)[n - 1], n)
    BY <1>4
  <2>2. 0 \in T BY <2>1
  <2>3. ASSUME NEW n \in Nat, n \in T PROVE n + 1 \in T BY <2>1, <2>3
  <2>4. \A n \in Nat : n \in T
    <3> HIDE DEF T
    <3> QED BY <2>2, <2>3, NatSetInduction
  <2> QED BY <2>4
<1> DEFINE F == [n \in Nat |-> G(n)[n]]
<1>6. Full(F)
  <2>1. ASSUME NEW n \in Nat PROVE F[n] = IF n = 0 THEN Base ELSE Step(F[n - 1], n)
    <3>1. G(n)[n] = IF n = 0 THEN Base ELSE Step(G(n)[n - 1], n) BY <1>4
    <3>2. n # 0 => n - 1 \in Nat /\ (n - 1) + 1 = n OBVIOUS
    <3>3. n # 0 => G(n - 1)[n - 1] = G(n)[n - 1] BY <3>2, <1>5
    <3> QED BY <3>1, <3>2, <3>3
  <2> QED BY <2>1
<1>7. PICK L : L = AdditionalKeys(contract_data, asked) OBVIOUS
<1>8. Full(L)
  <2> HIDE DEF F, Full
  <2> QED BY <1>0, <1>6, <1>7
<1>9. \A n \in Nat : L[n] = IF n = 0 THEN Base ELSE Step(L[n - 1], n) BY <1>8
<1>10. L[0] = Base /\ \A n \in Nat : L[n + 1] = Step(L[n], n + 1)
  <2>1. \A n \in Nat : (n + 1) - 1 = n /\ n + 1 \in Nat /\ n + 1 # 0 OBVIOUS
  <2> QED BY <1>9, <2>1
<1> QED BY <1>7, <1>10 DEF Base, Step

-----------------------------------------------------------------------------
(* The ancestors of a leaf.                                                *)

Anc(key, h) == key \div Pow2[h]

LEMMA DivBounds ==
  ASSUME NEW x \in Nat, NEW c \in Nat \ {0}
  PROVE  /\ x \div c \in Nat /\ x % c \in 0 .. (c - 1)
         /\ x = (x \div c) * c + (x % c)
<1>1. PICK q \in Int : q = x \div c OBVIOUS
<1>2. q \in Nat /\ q * c <= x /\ x < (q + 1) * c BY <1>1
<1>3. x % c \in 0 .. (c - 1) OBVIOUS
<1>4. x = c * (x \div c) + (x % c) OBVIOUS
<1>5. c * q = q * c OBVIOUS
<1> QED BY <1>1, <1>2, <1>3, <1>4, <1>5

LEMMA DivUnique ==
  ASSUME NEW x \in Nat, NEW c \in Nat \ {0}, NEW q \in Nat, NEW r \in 0 .. (c - 1),
         x = q * c + r
  PROVE  x \div c = q /\ x % c = r
<1>1. PICK d \in Nat : d = x \div c BY DivBounds
<1>2. PICK e \in 0 .. (c - 1) : e = x % c BY DivBounds
<1>3. x = d * c + e BY DivBounds, <1>1, <1>2
<1>4. d * c \in Int /\ q * c \in Int OBVIOUS
<1>5. (d + 1) * c = d * c + c /\ (q + 1) * c = q * c + c OBVIOUS
<1>6. d < q + 1
  <2>1. ~ (q + 1 <= d)
    <3>1. q + 1 <= d => (q + 1) * c <= d * c BY LeqTimes
    <3> QED BY <3>1, <1>3, <1>4, <1>5
  <2> QED BY <2>1
<1>7. q < d + 1
  <2>1. ~ (d + 1 <= q)
    <3>1. d + 1 <= q => (d + 1) * c <= q * c BY LeqTimes
    <3> QED BY <3>1, <1>3, <1>4, <1>5
  <2> QED BY <2>1
<1>8. d = q BY <1>6, <1>7
<1>9. e = r BY <1>3, <1>4, <1>8
<1> QED BY <1>1, <1>2, <1>8, <1>9

LEMMA AncType ==
  ASSUME NEW key \in Nat, NEW h \in Nat
  PROVE  /\ Anc(key, h) \in Nat
         /\ key % Pow2[h] \in Positions(h)
         /\ key = Anc(key, h) * Pow2[h] + (key % Pow2[h])
<1>1. PICK c \in Nat \ {0} : c = Pow2[h] BY Pow2Type
<1> QED BY <1>1, DivBounds DEF Anc, Positions

LEMMA AncUnique ==
  ASSUME NEW key \in Nat, NEW h \in Nat, NEW q \in Nat, NEW r \in Positions(h),
         key = q * Pow2[h] + r
  PROVE  Anc(key, h) = q /\ key % Pow2[h] = r
<1>1. PICK c \in Nat \ {0} : c = Pow2[h] BY Pow2Type
<1>2. r \in 0 .. (c - 1) BY <1>1 DEF Positions
<1>3. key = q * c + r BY <1>1
<1> QED BY <1>1, <1>2, <1>3, DivUnique DEF Anc

\* Places below a place: q below p * 2^k + r.
LEMMA PositionJoin ==
  ASSUME NEW a \in Nat, NEW b \in Nat, NEW p \in Positions(a), NEW r \in Positions(b)
  PROVE  p * Pow2[b] + r \in Positions(a + b)
<1>1. PICK x \in Nat \ {0} : x = Pow2[a] BY Pow2Type
<1>2. PICK y \in Nat \ {0} : y = Pow2[b] BY Pow2Type
<1>3. Pow2[a + b] = x * y BY <1>1, <1>2, Pow2Sum
<1>4. p \in Nat /\ p + 1 <= x /\ r \in Nat /\ r + 1 <= y BY <1>1, <1>2 DEF Positions
<1>5. (p + 1) * y <= x * y BY <1>4, LeqTimes
<1>6. (p + 1) * y = p * y + y /\ p * y \in Nat /\ x * y \in Nat BY <1>4
<1>7. p * y + r \in 0 .. (x * y - 1) BY <1>4, <1>5, <1>6
<1> QED BY <1>2, <1>3, <1>7 DEF Positions

\* The ancestor of an ancestor.
LEMMA AncAnc ==
  ASSUME NEW key \in Nat, NEW h \in Nat, NEW k \in Nat
  PROVE  /\ Anc(Anc(key, h), k) = Anc(key, h + k)
         /\ Anc(key, h) = Anc(key, h + k) * Pow2[k] + (Anc(key, h) % Pow2[k])
         /\ Anc(key, h) % Pow2[k] \in Positions(k)
<1>1. PICK c \in Nat \ {0} : c = Pow2[h] BY Pow2Type
<1>2. PICK m \in Nat \ {0} : m = Pow2[k] BY Pow2Type
<1>3. PICK a \in Nat : a = Anc(key, h) BY AncType
<1>4. PICK r \in Positions(h) : r = key % Pow2[h] BY AncType
<1>5. PICK b \in Nat : b = Anc(a, k) BY AncType
<1>6. PICK t \in Positions(k) : t = a % Pow2[k] BY AncType
<1>7. key = a * c + r
  <2>1. key = Anc(key, h) * Pow2[h] + (key % Pow2[h]) BY AncType
  <2> QED BY <1>1, <1>3, <1>4, <2>1
<1>8. a = b * m + t
  <2>1. a = Anc(a, k) * Pow2[k] + (a % Pow2[k]) BY AncType
  <2> QED BY <1>2, <1>5, <1>6, <2>1
<1>9. t * c + r \in Positions(h + k)
  <2>1. t * Pow2[h] + r \in Positions(k + h) BY PositionJoin
  <2>2. k + h = h + k OBVIOUS
  <2> QED BY <1>1, <2>1, <2>2
<1>10. Pow2[h + k] = m * c
  <2>1. Pow2[h + k] = c * m BY <1>1, <1>2, Pow2Sum
  <2> QED BY <2>1
<1>11. key = b * (m * c) + (t * c + r)
  <2>1. r \in Nat /\ t \in Nat BY PositionsNat
  <2>2. (b * m + t) * c = b * (m * c) + t * c BY <2>1
  <2>3. (b * (m * c)) \in Int /\ t * c \in Int BY <2>1
  <2> QED BY <1>7, <1>8, <2>1, <2>2, <2>3
<1>12. Anc(key, h + k) = b
  <2>1. h + k \in Nat OBVIOUS
  <2> QED BY <1>9, <1>10, <1>11, <2>1, AncUnique
<1>13. Anc(key, h) = Anc(key, h + k) * Pow2[k] + (Anc(key, h) % Pow2[k])
  BY <1>2, <1>3, <1>6, <1>8, <1>12
<1>14. Anc(Anc(key, h), k) = Anc(key, h + k) BY <1>3, <1>5, <1>12
<1> QED BY <1>3, <1>6, <1>13, <1>14

LEMMA AncPosition ==
  ASSUME NEW h \in 0 .. Height, NEW key \in Index
  PROVE  /\ key \in Nat
         /\ Anc(key, h) \in Positions(Height - h)
         /\ Anc(key, Height) = 0 /\ Anc(key, 0) = key
<1> USE NodesAssumption
<1>1. key \in Nat BY PositionsNat DEF Index
<1>2. Height - h \in 0 .. Height /\ Height - (Height - h) = h OBVIOUS
<1>3. Anc(key, h) \in Positions(Height - h) BY <1>2, LeafAncestor DEF Anc
<1>4. Anc(key, Height) = 0
  <2>1. 0 \in Nat /\ key \in Positions(Height) /\ Height \in Nat BY DEF Index
  <2>2. key = 0 * Pow2[Height] + key BY <1>1, Pow2Type
  <2> QED BY <1>1, <2>1, <2>2, AncUnique
<1>5. Anc(key, 0) = key
  <2>1. 0 \in Positions(0) /\ Pow2[0] = 1 BY Pow2Def DEF Positions
  <2>2. key = key * Pow2[0] + 0 BY <1>1, <2>1
  <2> QED BY <1>1, <2>1, <2>2, AncUnique
<1> QED BY <1>1, <1>3, <1>4, <1>5

\* The bit that leads from an ancestor to the next.
LEMMA AncChild ==
  ASSUME NEW key \in Nat, NEW h \in Nat
  PROVE  /\ Anc(key, h) % 2 \in {0, 1}
         /\ Anc(key, h) = 2 * Anc(key, h + 1) + (Anc(key, h) % 2)
<1>1. Pow2[1] = 2
  <2>1. Pow2[0 + 1] = 2 * Pow2[0] /\ Pow2[0] = 1 /\ 0 + 1 = 1 BY Pow2Def
  <2> QED BY <2>1
<1>2. /\ Anc(key, h) = Anc(key, h + 1) * 2 + (Anc(key, h) % 2)
      /\ Anc(key, h) % 2 \in Positions(1)
  <2>1. /\ Anc(key, h) = Anc(key, h + 1) * Pow2[1] + (Anc(key, h) % Pow2[1])
        /\ Anc(key, h) % Pow2[1] \in Positions(1)
    BY AncAnc
  <2> QED BY <1>1, <2>1
<1>3. Anc(key, h + 1) \in Nat BY AncType
<1> QED BY <1>1, <1>2, <1>3 DEF Positions

\* The key that follows an edge of n bits down to height g.
LEMMA KeyFollowing ==
  ASSUME NEW key \in Nat, NEW g \in Nat, NEW edge, NEW n \in Nat,
         NEW path \in Positions(n), edge.length = n, edge.path = path,
         NEW k, k = get_key_following_edge(key, g, edge)
  PROVE  /\ k \in Nat
         /\ Anc(k, g) % Pow2[n] = path
         /\ \A t \in Nat : g + n <= t => Anc(k, t) = Anc(key, t)
<1>1. PICK c \in Nat \ {0} : c = Pow2[g] BY Pow2Type
<1>2. PICK m \in Nat \ {0} : m = Pow2[n] BY Pow2Type
<1>3. PICK a \in Nat : a = Anc(key, g) BY AncType
<1>4. PICK r \in Positions(g) : r = key % Pow2[g] BY AncType
<1>5. PICK own \in Positions(n) : own = a % Pow2[n] BY AncType
<1>6. PICK b \in Nat : b = Anc(key, g + n)
  <2>1. g + n \in Nat OBVIOUS
  <2> QED BY <2>1, AncType
<1>7. key = a * c + r
  <2>1. key = Anc(key, g) * Pow2[g] + (key % Pow2[g]) BY AncType
  <2> QED BY <1>1, <1>3, <1>4, <2>1
<1>8. a = b * m + own
  <2>1. Anc(key, g) = Anc(key, g + n) * Pow2[n] + (Anc(key, g) % Pow2[n]) BY AncAnc
  <2> QED BY <1>2, <1>3, <1>5, <1>6, <2>1
<1>9. r \in Nat /\ own \in Nat /\ path \in Nat BY PositionsNat
<1>10. k = key - own * c + path * c
  BY <1>1, <1>2, <1>3, <1>5 DEF get_key_following_edge, Anc
<1>11. k = (b * m + path) * c + r
  <2>1. PICK bm \in Nat : bm = b * m OBVIOUS
  <2>2. (bm + own) * c = bm * c + own * c /\ (bm + path) * c = bm * c + path * c
    BY <2>1, <1>9
  <2>3. bm * c \in Int /\ own * c \in Int /\ path * c \in Int BY <2>1, <1>9
  <2> QED BY <1>7, <1>8, <1>9, <1>10, <2>1, <2>2, <2>3
<1>12. b * m + path \in Nat BY <1>9
<1>13. k \in Nat BY <1>9, <1>11, <1>12
<1>14. Anc(k, g) = b * m + path BY <1>1, <1>11, <1>12, <1>13, AncUnique
<1>15. Anc(k, g) % Pow2[n] = path /\ Anc(Anc(k, g), n) = b
  BY <1>2, <1>12, <1>14, AncUnique
<1>16. Anc(k, g + n) = b BY <1>13, <1>15, AncAnc
<1>17. ASSUME NEW t \in Nat, g + n <= t PROVE Anc(k, t) = Anc(key, t)
  <2>1. PICK u \in Nat : t = (g + n) + u
    <3>1. t - (g + n) \in Nat /\ t = (g + n) + (t - (g + n)) BY <1>17
    <3> QED BY <3>1
  <2>2. g + n \in Nat OBVIOUS
  <2>3. Anc(Anc(k, g + n), u) = Anc(k, (g + n) + u) BY <1>13, <2>2, AncAnc
  <2>4. Anc(Anc(key, g + n), u) = Anc(key, (g + n) + u) BY <2>2, AncAnc
  <2> QED BY <1>6, <1>16, <2>1, <2>3, <2>4
<1> QED BY <1>13, <1>15, <1>17

-----------------------------------------------------------------------------
(* The nodes of the reference tree along a path.                           *)

RNode(tree, h, p) == Ref(tree, h, p).node

LEMMA RNodeOK ==
  ASSUME NEW tree \in Tree, NEW h \in 0 .. Height, NEW p \in Positions(Height - h)
  PROVE  NodeOK(RNode(tree, h, p), h)
BY RefOK DEF RNode, SubtreeOK

\* A node of the tree is made of the two below it in one of four ways.
LEMMA RefCases ==
  ASSUME NEW tree \in Tree, NEW h \in Nat, h < Height,
         NEW p \in Positions(Height - (h + 1)), NEW n, NEW l, NEW r,
         n = RNode(tree, h + 1, p), l = RNode(tree, h, 2 * p),
         r = RNode(tree, h, 2 * p + 1)
  PROVE  /\ NodeOK(n, h + 1) /\ NodeOK(l, h) /\ NodeOK(r, h)
         /\ \/ is_empty(l) /\ is_empty(r) /\ n = empty_node(h + 1)
            \/ /\ is_empty(l) /\ ~is_empty(r)
               /\ n = VirtualNode(r.bottom, r.path + Pow2[r.length], r.length + 1, h + 1)
            \/ /\ ~is_empty(l) /\ is_empty(r)
               /\ n = VirtualNode(l.bottom, l.path, l.length + 1, h + 1)
            \/ /\ ~is_empty(l) /\ ~is_empty(r)
               /\ n = from_hash(BinaryNodeFact(hash_node(l), hash_node(r)), h + 1)
<1> USE NodesAssumption
<1>1. h \in 0 .. Height /\ h + 1 \in 0 .. Height OBVIOUS
<1>2. 2 * p \in Positions(Height - h) /\ 2 * p + 1 \in Positions(Height - h)
  <2>1. Height - (h + 1) \in Nat /\ (Height - (h + 1)) + 1 = Height - h OBVIOUS
  <2>2. 2 * p \in Positions((Height - (h + 1)) + 1)
        /\ 2 * p + 1 \in Positions((Height - (h + 1)) + 1)
    BY <2>1, ChildPositions
  <2> QED BY <2>1, <2>2
<1>3. NodeOK(n, h + 1) BY <1>1, RNodeOK
<1>4. NodeOK(l, h) /\ NodeOK(r, h) BY <1>1, <1>2, RNodeOK
<1>5. l.height = h /\ r.height = h BY <1>4, NodeHeight
<1>6. Ref(tree, h + 1, p) = ReferenceNode(Ref(tree, h, 2 * p), Ref(tree, h, 2 * p + 1))
  BY RefDef
<1>7. PICK L, R : L = Ref(tree, h, 2 * p) /\ R = Ref(tree, h, 2 * p + 1) OBVIOUS
<1>8. n = ReferenceNode(L, R).node /\ L.node = l /\ R.node = r
  BY <1>6, <1>7 DEF RNode
<1> QED BY <1>3, <1>4, <1>5, <1>8 DEF ReferenceNode, Subtree

\* The lower end of an edge: the bit of its path leads to the rest of it.
LEMMA EdgeStep ==
  ASSUME NEW tree \in Tree, NEW h \in Nat, h < Height,
         NEW p \in Positions(Height - (h + 1)), NEW n, n = RNode(tree, h + 1, p),
         NEW k \in Nat, n.length = k + 1
  PROVE  \E bit \in {0, 1} :
            /\ RNode(tree, h, 2 * p + bit) =
                  VirtualNode(n.bottom, n.path - bit * Pow2[k], k, h)
            /\ RNode(tree, h, 2 * p + (1 - bit)) = empty_node(h)
            /\ n.path - bit * Pow2[k] \in Positions(k)
            /\ n.path \in Nat
            /\ ~is_empty(RNode(tree, h, 2 * p + bit))
<1> USE NodesAssumption
<1>1. PICK l, r : l = RNode(tree, h, 2 * p) /\ r = RNode(tree, h, 2 * p + 1) OBVIOUS
<1>2. /\ NodeOK(n, h + 1) /\ NodeOK(l, h) /\ NodeOK(r, h)
      /\ \/ is_empty(l) /\ is_empty(r) /\ n = empty_node(h + 1)
         \/ /\ is_empty(l) /\ ~is_empty(r)
            /\ n = VirtualNode(r.bottom, r.path + Pow2[r.length], r.length + 1, h + 1)
         \/ /\ ~is_empty(l) /\ is_empty(r)
            /\ n = VirtualNode(l.bottom, l.path, l.length + 1, h + 1)
         \/ /\ ~is_empty(l) /\ ~is_empty(r)
            /\ n = from_hash(BinaryNodeFact(hash_node(l), hash_node(r)), h + 1)
  BY <1>1, RefCases
<1>3. Pow2[k] \in Nat BY Pow2Type
<1>4. n.path \in Nat BY <1>2, PositionsNat DEF NodeOK
<1>5. p \in Nat
  <2>1. Height - (h + 1) \in Nat OBVIOUS
  <2> QED BY <2>1, PositionsNat
<1>6. CASE is_empty(l) /\ ~is_empty(r)
  <2>1. n = VirtualNode(r.bottom, r.path + Pow2[r.length], r.length + 1, h + 1)
    BY <1>2, <1>6
  <2>2. r.length \in Nat /\ r.path \in Positions(r.length) BY <1>2 DEF NodeOK
  <2>3. r.length = k BY <2>1, <2>2 DEF VirtualNode
  <2>4. r.path \in Nat /\ n.path = r.path + Pow2[k] /\ n.bottom = r.bottom
    BY <2>1, <2>2, <2>3, PositionsNat DEF VirtualNode
  <2>5. n.path - 1 * Pow2[k] = r.path BY <2>4, <1>3
  <2>6. r = VirtualNode(n.bottom, n.path - 1 * Pow2[k], k, h)
    BY <1>2, <2>3, <2>4, <2>5 DEF NodeOK
  <2>7. l = empty_node(h) BY <1>2, <1>6 
      DEF NodeOK, is_empty, empty_node, from_hash, VirtualNode, EMPTY_NODE_HASH
  <2>8. 2 * p + (1 - 1) = 2 * p BY <1>5
  <2> QED BY <1>1, <1>4, <1>6, <2>2, <2>3, <2>5, <2>6, <2>7, <2>8
<1>7. CASE ~is_empty(l) /\ is_empty(r)
  <2>1. n = VirtualNode(l.bottom, l.path, l.length + 1, h + 1)
    BY <1>2, <1>7
  <2>2. l.length \in Nat /\ l.path \in Positions(l.length) BY <1>2 DEF NodeOK
  <2>3. l.length = k BY <2>1, <2>2 DEF VirtualNode
  <2>4. n.path = l.path /\ n.bottom = l.bottom BY <2>1 DEF VirtualNode
  <2>5. n.path - 0 * Pow2[k] = l.path BY <2>4, <1>3, <1>4
  <2>6. l = VirtualNode(n.bottom, n.path - 0 * Pow2[k], k, h)
    BY <1>2, <2>3, <2>4, <2>5 DEF NodeOK
  <2>7. r = empty_node(h) BY <1>2, <1>7 
      DEF NodeOK, is_empty, empty_node, from_hash, VirtualNode, EMPTY_NODE_HASH
  <2>8. 2 * p + 0 = 2 * p /\ 2 * p + (1 - 0) = 2 * p + 1 BY <1>5
  <2> QED BY <1>1, <1>4, <1>7, <2>2, <2>3, <2>5, <2>6, <2>7, <2>8
<1>8. CASE (is_empty(l) /\ is_empty(r)) \/ (~is_empty(l) /\ ~is_empty(r))
  <2>1. n.length = 0 BY <1>2, <1>8 DEF empty_node, from_hash, VirtualNode
  <2> QED BY <2>1
<1> QED BY <1>6, <1>7, <1>8

\* The bottom of an edge is at the end of its path.
LEMMA EdgeBottom ==
  ASSUME NEW tree \in Tree
  PROVE  \A n \in Nat : \A h \in n .. Height : \A p \in Positions(Height - h) :
            LET e == RNode(tree, h, p)
            IN e.length = n =>
                  /\ p * Pow2[n] + e.path \in Positions(Height - (h - n))
                  /\ RNode(tree, h - n, p * Pow2[n] + e.path) = from_hash(e.bottom, h - n)
<1> USE NodesAssumption
<1> DEFINE Lower(n, h, p, e) == /\ p * Pow2[n] + e.path \in Positions(Height - (h - n))
                                /\ RNode(tree, h - n, p * Pow2[n] + e.path) =
                                      from_hash(e.bottom, h - n)
           T == {n \in Nat : \A h \in n .. Height : \A p \in Positions(Height - h) :
                    RNode(tree, h, p).length = n => Lower(n, h, p, RNode(tree, h, p))}
<1>1. 0 \in T
  <2> SUFFICES ASSUME NEW h \in 0 .. Height, NEW p \in Positions(Height - h),
                      RNode(tree, h, p).length = 0
               PROVE  Lower(0, h, p, RNode(tree, h, p))
    OBVIOUS
  <2>1. PICK e : e = RNode(tree, h, p) OBVIOUS
  <2>2. NodeOK(e, h) BY <2>1, RNodeOK
  <2>3. e.path = 0 /\ e = VirtualNode(e.bottom, 0, 0, h)
    <3>1. e.path \in 0 .. 0 BY <2>1, <2>2, Pow2Def DEF NodeOK, Positions
    <3> QED BY <2>1, <2>2, <3>1 DEF NodeOK
  <2>4. p \in Nat
    <3>1. Height - h \in Nat OBVIOUS
    <3> QED BY <3>1, PositionsNat
  <2>5. p * Pow2[0] + e.path = p /\ h - 0 = h BY <2>3, <2>4, Pow2Def
  <2> QED BY <2>1, <2>3, <2>5 DEF from_hash
<1>2. ASSUME NEW k \in Nat, k \in T PROVE k + 1 \in T
  <2> SUFFICES ASSUME NEW g \in (k + 1) .. Height, NEW p \in Positions(Height - g),
                      RNode(tree, g, p).length = k + 1
               PROVE  Lower(k + 1, g, p, RNode(tree, g, p))
    OBVIOUS
  <2>1. PICK n : n = RNode(tree, g, p) OBVIOUS
  <2>2. PICK h \in Nat : g = h + 1 /\ h < Height /\ h \in k .. Height
    <3>1. g - 1 \in Nat /\ g = (g - 1) + 1 /\ g - 1 < Height /\ g - 1 \in k .. Height OBVIOUS
    <3> QED BY <3>1
  <2>3. p \in Positions(Height - (h + 1)) /\ n = RNode(tree, h + 1, p) /\ n.length = k + 1
    BY <2>1, <2>2
  <2>4. PICK bit \in {0, 1} :
            /\ RNode(tree, h, 2 * p + bit) =
                  VirtualNode(n.bottom, n.path - bit * Pow2[k], k, h)
            /\ RNode(tree, h, 2 * p + (1 - bit)) = empty_node(h)
            /\ n.path - bit * Pow2[k] \in Positions(k)
            /\ n.path \in Nat
            /\ ~is_empty(RNode(tree, h, 2 * p + bit))
    BY <2>2, <2>3, EdgeStep
  <2>5. PICK q : q = 2 * p + bit OBVIOUS
  <2>6. q \in Positions(Height - h)
    <3>1. Height - (h + 1) \in Nat /\ (Height - (h + 1)) + 1 = Height - h BY <2>2
    <3>2. 2 * p \in Positions((Height - (h + 1)) + 1)
          /\ 2 * p + 1 \in Positions((Height - (h + 1)) + 1)
      BY <2>3, <3>1, ChildPositions
    <3>3. p \in Nat BY <2>3, <3>1, PositionsNat
    <3> QED BY <2>5, <3>1, <3>2, <3>3
  <2>7. PICK e : e = RNode(tree, h, q) OBVIOUS
  <2>8. e.length = k /\ e.bottom = n.bottom /\ e.path = n.path - bit * Pow2[k]
    BY <2>4, <2>5, <2>7 DEF VirtualNode
  <2>9. Lower(k, h, q, e) BY <1>2, <2>2, <2>6, <2>7, <2>8
  <2>10. q * Pow2[k] + e.path = p * Pow2[k + 1] + n.path
    <3>1. PICK c \in Nat : c = Pow2[k] BY Pow2Type
    <3>2. Pow2[k + 1] = 2 * c BY <3>1, Pow2Def
    <3>3. p \in Nat
      <4>1. Height - (h + 1) \in Nat BY <2>2
      <4> QED BY <2>3, <4>1, PositionsNat
    <3>4. PICK x \in Nat : x = n.path BY <2>4
    <3>5. (2 * p + bit) * c + (x - bit * c) = p * (2 * c) + x BY <3>1, <3>3, <3>4
    <3> QED BY <2>5, <2>8, <3>1, <3>2, <3>4, <3>5
  <2>11. h - k = g - (k + 1) BY <2>2
  <2> QED BY <2>1, <2>8, <2>9, <2>10, <2>11
<1>3. \A n \in Nat : n \in T
  <2> HIDE DEF T
  <2> QED BY <1>1, <1>2, NatSetInduction
<1> QED BY <1>3

-----------------------------------------------------------------------------
(* The endpoint's proof of a key follows the nodes of the tree.            *)

RHash(tree, h, key) == hash_node(RNode(tree, h, Anc(key, h)))

LEMMA LeafHash ==
  ASSUME NEW tree \in Tree, NEW key \in Index
  PROVE  ~IsInner(RHash(tree, 0, key))
<1> USE NodesAssumption
<1>1. Anc(key, 0) = key BY AncPosition
<1>2. RNode(tree, 0, key) = from_hash(LeafFact(tree[key]), 0)
  BY RefDef DEF RNode, ReferenceLeaf, Subtree
<1> QED BY <1>1, <1>2
    DEF RHash, hash_node, from_hash, VirtualNode, LeafFact, EMPTY_NODE_HASH, IsInner

\* What a node of the tree is made of, on the way to a key.
LEMMA PathNode ==
  ASSUME NEW tree \in Tree, NEW key \in Index, NEW h \in Nat, h < Height
  PROVE  LET x == RHash(tree, h + 1, key)
         IN \/ x = EMPTY_NODE_HASH
            \/ /\ x.kind = "binary"
               /\ RHash(tree, h, key) = IF (key \div Pow2[h]) % 2 = 0
                                        THEN x.left ELSE x.right
            \/ /\ x.kind = "edge"
               /\ x.length \in 1 .. (h + 1) /\ x.path \in Positions(x.length)
               /\ x.bottom.kind \in {"leaf", "binary"}
               /\ Follows(x, h + 1, key) => RHash(tree, (h + 1) - x.length, key) = x.bottom
<1> USE NodesAssumption
<1> DEFINE x == RHash(tree, h + 1, key)
<1>1. PICK p : p = Anc(key, h + 1) OBVIOUS
<1>2. p \in Positions(Height - (h + 1)) /\ p \in Nat /\ key \in Nat
  <2>1. h + 1 \in 0 .. Height /\ Height - (h + 1) \in Nat OBVIOUS
  <2> QED BY <1>1, <2>1, AncPosition, PositionsNat
<1>3. PICK n, l, r : /\ n = RNode(tree, h + 1, p) /\ l = RNode(tree, h, 2 * p)
                     /\ r = RNode(tree, h, 2 * p + 1)
  OBVIOUS
<1>4. /\ NodeOK(n, h + 1) /\ NodeOK(l, h) /\ NodeOK(r, h)
      /\ \/ is_empty(l) /\ is_empty(r) /\ n = empty_node(h + 1)
         \/ /\ is_empty(l) /\ ~is_empty(r)
            /\ n = VirtualNode(r.bottom, r.path + Pow2[r.length], r.length + 1, h + 1)
         \/ /\ ~is_empty(l) /\ is_empty(r)
            /\ n = VirtualNode(l.bottom, l.path, l.length + 1, h + 1)
         \/ /\ ~is_empty(l) /\ ~is_empty(r)
            /\ n = from_hash(BinaryNodeFact(hash_node(l), hash_node(r)), h + 1)
  BY <1>2, <1>3, RefCases
<1>5. x = hash_node(n) BY <1>1, <1>3 DEF RHash
<1>6. CASE is_empty(l) /\ is_empty(r)
  <2>1. x = EMPTY_NODE_HASH
    BY <1>4, <1>5, <1>6 DEF hash_node, empty_node, from_hash, VirtualNode
  <2> QED BY <2>1
<1>7. CASE ~is_empty(l) /\ ~is_empty(r)
  <2>1. x = BinaryNodeFact(hash_node(l), hash_node(r))
    BY <1>4, <1>5, <1>7 DEF hash_node, from_hash, VirtualNode
  <2>2. x.kind = "binary" /\ x.left = hash_node(l) /\ x.right = hash_node(r)
    BY <2>1 DEF BinaryNodeFact
  <2>3. PICK bit \in {0, 1} : bit = Anc(key, h) % 2 /\ Anc(key, h) = 2 * p + bit
    BY <1>1, <1>2, AncChild
  <2>4. RHash(tree, h, key) = IF bit = 0 THEN x.left ELSE x.right
    <3>1. CASE bit = 0
      <4>1. 2 * p + bit = 2 * p BY <1>2, <3>1
      <4> QED BY <1>3, <2>2, <2>3, <3>1, <4>1 DEF RHash
    <3>2. CASE bit = 1
      BY <1>3, <2>2, <2>3, <3>2 DEF RHash
    <3> QED BY <3>1, <3>2
  <2>5. bit = (key \div Pow2[h]) % 2 BY <2>3 DEF Anc
  <2> QED BY <2>2, <2>4, <2>5
<1>8. CASE (is_empty(l) /\ ~is_empty(r)) \/ (~is_empty(l) /\ is_empty(r))
  <2>1. n.length # 0
    <3>1. l.length \in Nat /\ r.length \in Nat BY <1>4 DEF NodeOK
    <3> QED BY <1>4, <1>8, <3>1 DEF VirtualNode
  <2>2. x = EdgeNodeFact(n.bottom, n.path, n.length)
    BY <1>5, <2>1 DEF hash_node
  <2>3. /\ x.kind = "edge" /\ x.bottom = n.bottom /\ x.path = n.path
        /\ x.length = n.length
    BY <2>2 DEF EdgeNodeFact
  <2>4. n.length \in 1 .. (h + 1) /\ n.path \in Positions(n.length)
        /\ n.bottom.kind \in {"leaf", "binary"}
    BY <1>4, <2>1 DEF NodeOK
  <2>5. ASSUME Follows(x, h + 1, key)
        PROVE  RHash(tree, (h + 1) - x.length, key) = x.bottom
    <3>1. PICK k \in 1 .. (h + 1) : k = n.length BY <2>4
    <3>2. PICK g \in Nat : g = (h + 1) - k /\ h + 1 = g + k /\ h + 1 \in k .. Height
      <4>1. (h + 1) - k \in Nat /\ h + 1 = ((h + 1) - k) + k /\ h + 1 \in k .. Height
        BY <3>1
      <4> QED BY <4>1
    <3>3. Anc(key, g) % Pow2[k] = n.path BY <2>3, <2>5, <3>1, <3>2 DEF Follows, Anc
    <3>4. Anc(key, g) = p * Pow2[k] + n.path
      <4>1. Anc(key, g) = Anc(key, g + k) * Pow2[k] + (Anc(key, g) % Pow2[k])
        <5>1. k \in Nat BY <3>1
        <5> QED BY <1>2, <5>1, AncAnc
      <4> QED BY <1>1, <3>2, <3>3, <4>1
    <3>5. RNode(tree, (h + 1) - k, p * Pow2[k] + n.path) = from_hash(n.bottom, (h + 1) - k)
      BY <1>2, <1>3, <3>1, <3>2, EdgeBottom
    <3>6. hash_node(from_hash(n.bottom, g)) = n.bottom
      BY DEF hash_node, from_hash, VirtualNode
    <3> QED BY <2>3, <3>1, <3>2, <3>4, <3>5, <3>6 DEF RHash
  <2> QED BY <2>3, <2>4, <2>5
<1> QED BY <1>6, <1>7, <1>8

ProofState(s) == s = [hash |-> s.hash, height |-> s.height, nodes |-> s.nodes]

\* A proof at its k-th node: at a node of the tree towards the key, or ended.
OnPath(tree, key, s, k) ==
    /\ ProofState(s)
    /\ s.height \in 0 .. Height
    /\ \/ s.height + k <= Height /\ s.hash = RHash(tree, s.height, key)
       \/ ~IsInner(s.hash)

LEMMA StepBinary ==
  ASSUME NEW s, NEW key, s.hash.kind = "binary"
  PROVE  ProofStep(s, key) =
         Further(s, IF (key \div Pow2[s.height - 1]) % 2 = 0
                    THEN s.hash.left ELSE s.hash.right, s.height - 1)
BY DEF ProofStep

LEMMA StepEdge ==
  ASSUME NEW s, NEW key, s.hash.kind = "edge"
  PROVE  ProofStep(s, key) =
         Further(s, IF Follows(s.hash, s.height, key)
                    THEN s.hash.bottom ELSE EMPTY_NODE_HASH, s.height - s.hash.length)
BY DEF ProofStep

\* The step from s, at height h + 1, to t.
NodeStep(tree, key, s, h, t) ==
    LET x == s.hash
    IN \/ /\ x.kind = "binary"
          /\ RHash(tree, h, key) = IF (key \div Pow2[h]) % 2 = 0 THEN x.left ELSE x.right
          /\ t = Further(s, RHash(tree, h, key), h)
       \/ /\ x.kind = "edge"
          /\ x.length \in 1 .. (h + 1) /\ x.path \in Positions(x.length)
          /\ x.bottom.kind \in {"leaf", "binary"}
          /\ Follows(x, h + 1, key) => RHash(tree, (h + 1) - x.length, key) = x.bottom
          /\ t = Further(s, IF Follows(x, h + 1, key) THEN x.bottom
                            ELSE EMPTY_NODE_HASH, (h + 1) - x.length)

\* The step from an inner node on the way to a key.
LEMMA InnerStep ==
  ASSUME NEW tree \in Tree, NEW key \in Index, NEW k \in Nat, NEW s,
         OnPath(tree, key, s, k), IsInner(s.hash)
  PROVE  \E h \in Nat : /\ h < Height /\ s.height = h + 1 /\ (h + 1) + k <= Height
                        /\ NodeStep(tree, key, s, h, ProofStep(s, key))
<1> PICK x, t : x = s.hash /\ t = ProofStep(s, key) OBVIOUS
<1> USE NodesAssumption
<1>1. s.height + k <= Height /\ s.hash = RHash(tree, s.height, key)
  BY DEF OnPath
<1>2. s.height # 0 BY <1>1, LeafHash
<1>3. PICK h \in Nat : s.height = h + 1 /\ h < Height
  <2>1. s.height - 1 \in Nat /\ s.height = (s.height - 1) + 1 /\ s.height - 1 < Height
    BY <1>2 DEF OnPath
  <2> QED BY <2>1
<1>5. \/ x = EMPTY_NODE_HASH
      \/ /\ x.kind = "binary"
         /\ RHash(tree, h, key) = IF (key \div Pow2[h]) % 2 = 0
                                  THEN x.left ELSE x.right
      \/ /\ x.kind = "edge"
         /\ x.length \in 1 .. (h + 1) /\ x.path \in Positions(x.length)
         /\ x.bottom.kind \in {"leaf", "binary"}
         /\ Follows(x, h + 1, key) => RHash(tree, (h + 1) - x.length, key) = x.bottom
  BY <1>1, <1>3, PathNode
<1>6. x # EMPTY_NODE_HASH BY DEF IsInner, EMPTY_NODE_HASH
<1>7. (h + 1) + k <= Height BY <1>1, <1>3
<1>8. ASSUME x.kind = "binary" PROVE t = Further(s, RHash(tree, h, key), h)
  <2>1. (h + 1) - 1 = h OBVIOUS
  <2> QED BY <1>3, <1>5, <1>6, <1>8, <2>1, StepBinary
<1>9. ASSUME x.kind = "edge"
      PROVE  t = Further(s, IF Follows(x, h + 1, key) THEN x.bottom
                            ELSE EMPTY_NODE_HASH, (h + 1) - x.length)
  <2>1. t = Further(s, IF Follows(x, s.height, key) THEN x.bottom
                       ELSE EMPTY_NODE_HASH, s.height - x.length)
    BY <1>9, StepEdge
  <2> QED BY <1>3, <2>1
<1>10. NodeStep(tree, key, s, h, t) BY <1>5, <1>6, <1>8, <1>9 DEF NodeStep
<1> QED BY <1>3, <1>7, <1>10

LEMMA FurtherFields ==
  ASSUME NEW s, NEW hash, NEW h
  PROVE  LET t == Further(s, hash, h)
         IN t.hash = hash /\ t.height = h /\ ProofState(t)
BY DEF Further, ProofState

LEMMA OnPathStep ==
  ASSUME NEW tree \in Tree, NEW key \in Index, NEW k \in Nat, NEW s,
         OnPath(tree, key, s, k)
  PROVE  OnPath(tree, key, ProofStep(s, key), k + 1)
<1> USE NodesAssumption
<1>1. CASE ~IsInner(s.hash)
  <2>1. ProofStep(s, key) = s BY <1>1 DEF ProofStep, IsInner
  <2> QED BY <1>1, <2>1 DEF OnPath
<1>2. CASE IsInner(s.hash)
  <2>1. PICK x, t : x = s.hash /\ t = ProofStep(s, key) OBVIOUS
  <2>2. PICK h \in Nat : /\ h < Height /\ s.height = h + 1 /\ (h + 1) + k <= Height
                        /\ NodeStep(tree, key, s, h, t)
    BY <1>2, <2>1, InnerStep
  <2>3. CASE x.kind = "binary"
    <3>1. t = Further(s, RHash(tree, h, key), h) BY <2>1, <2>2, <2>3 DEF NodeStep
    <3>2. t.hash = RHash(tree, h, key) /\ t.height = h /\ ProofState(t)
      BY <3>1, FurtherFields
    <3>3. h \in 0 .. Height /\ h + (k + 1) <= Height BY <2>2
    <3> QED BY <2>1, <3>2, <3>3 DEF OnPath
  <2>4. CASE x.kind = "edge"
    <3>0. /\ x.length \in 1 .. (h + 1) /\ x.path \in Positions(x.length)
          /\ Follows(x, h + 1, key) => RHash(tree, (h + 1) - x.length, key) = x.bottom
          /\ t = Further(s, IF Follows(x, h + 1, key) THEN x.bottom
                            ELSE EMPTY_NODE_HASH, (h + 1) - x.length)
      BY <2>1, <2>2, <2>4 DEF NodeStep
    <3>1. PICK len \in 1 .. (h + 1) : len = x.length BY <3>0
    <3>2. PICK g \in 0 .. Height : g = (h + 1) - len /\ g + (k + 1) <= Height
      <4>1. (h + 1) - len \in 0 .. Height /\ ((h + 1) - len) + (k + 1) <= Height BY <2>2
      <4> QED BY <4>1
    <3>3. t.height = g /\ ProofState(t)
          /\ t.hash = IF Follows(x, h + 1, key) THEN x.bottom ELSE EMPTY_NODE_HASH
      BY <3>0, <3>1, <3>2, FurtherFields
    <3>4. Follows(x, h + 1, key) => t.hash = RHash(tree, g, key)
      BY <3>0, <3>1, <3>2, <3>3
    <3>5. ~Follows(x, h + 1, key) => ~IsInner(t.hash)
      BY <3>3 DEF IsInner, EMPTY_NODE_HASH
    <3> QED BY <2>1, <3>2, <3>3, <3>4, <3>5 DEF OnPath
  <2> QED BY <2>1, <2>2, <2>3, <2>4 DEF NodeStep
<1> QED BY <1>1, <1>2

LEMMA RootHash ==
  ASSUME NEW tree \in Tree, NEW key \in Index
  PROVE  ReferenceRoot(tree) = RHash(tree, Height, key)
<1>1. Anc(key, Height) = 0 BY AncPosition, NodesAssumption
<1> QED BY <1>1 DEF ReferenceRoot, Reference, RHash, RNode, Ref

LEMMA AllOnPath ==
  ASSUME NEW tree \in Tree, NEW key \in Index
  PROVE  \A k \in Nat : OnPath(tree, key, ProofSteps(ReferenceRoot(tree), key)[k], k)
<1> DEFINE f == ProofSteps(ReferenceRoot(tree), key)
           T == {k \in Nat : OnPath(tree, key, f[k], k)}
<1>1. 0 \in T
  <2>1. f[0] = [hash |-> ReferenceRoot(tree), height |-> Height, nodes |-> <<>>]
    BY ProofStepsDef
  <2> HIDE DEF f
  <2> QED BY <2>1, RootHash, NodesAssumption DEF OnPath, ProofState
<1>2. ASSUME NEW k \in Nat, k \in T PROVE k + 1 \in T
  <2>1. f[k + 1] = ProofStep(f[k], key) BY ProofStepsDef
  <2> HIDE DEF f
  <2>2. OnPath(tree, key, f[k], k) BY <1>2
  <2>3. OnPath(tree, key, f[k + 1], k + 1) BY <2>1, <2>2, OnPathStep
  <2> QED BY <2>3
<1>3. \A k \in Nat : k \in T
  <2> HIDE DEF T
  <2> QED BY <1>1, <1>2, NatSetInduction
<1> QED BY <1>3

\* The nodes of a proof are the inner nodes it came through.
Passed(f, j) ==
    LET nodes == f[j].nodes
    IN /\ nodes \in Seq({f[k].hash : k \in Nat})
       /\ Len(nodes) <= j
       /\ \A i \in 1 .. Len(nodes) : nodes[i] = f[i - 1].hash /\ IsInner(f[i - 1].hash)
       /\ Len(nodes) = j \/ ~IsInner(f[Len(nodes)].hash)
       /\ \A i \in Len(nodes) .. j : f[i] = f[Len(nodes)]

LEMMA PassedStep ==
  ASSUME NEW f, NEW key, NEW j \in Nat, Passed(f, j), f[j + 1] = ProofStep(f[j], key)
  PROVE  Passed(f, j + 1)
<1> DEFINE S == {f[k].hash : k \in Nat}
<1>1. PICK nodes : nodes = f[j].nodes OBVIOUS
<1>2. /\ nodes \in Seq(S) /\ Len(nodes) \in Nat /\ Len(nodes) <= j
      /\ \A i \in 1 .. Len(nodes) : nodes[i] = f[i - 1].hash /\ IsInner(f[i - 1].hash)
      /\ Len(nodes) = j \/ ~IsInner(f[Len(nodes)].hash)
      /\ \A i \in Len(nodes) .. j : f[i] = f[Len(nodes)]
  BY <1>1 DEF Passed
<1>3. f[j] = f[Len(nodes)] BY <1>2
<1>4. CASE ~IsInner(f[j].hash)
  <2>1. f[j + 1] = f[j] BY <1>4 DEF ProofStep, IsInner
  <2>2. Len(nodes) <= j + 1 /\ ~IsInner(f[Len(nodes)].hash) BY <1>2, <1>3, <1>4
  <2>3. \A i \in Len(nodes) .. (j + 1) : f[i] = f[Len(nodes)]
    <3>1. \A i \in Len(nodes) .. (j + 1) : i = j + 1 \/ i \in Len(nodes) .. j BY <1>2
    <3> QED BY <1>2, <1>3, <2>1, <3>1
  <2> QED BY <1>1, <1>2, <2>1, <2>2, <2>3 DEF Passed
<1>5. CASE IsInner(f[j].hash)
  <2>1. Len(nodes) = j BY <1>2, <1>3, <1>5
  <2>2. f[j + 1].nodes = Append(nodes, f[j].hash)
    BY <1>1, <1>5 DEF ProofStep, Further, IsInner
  <2>3. PICK more : more = Append(nodes, f[j].hash) OBVIOUS
  <2>4. f[j].hash \in S OBVIOUS
  <2> HIDE DEF S
  <2>5. more \in Seq(S) /\ Len(more) = j + 1 BY <1>2, <2>1, <2>3, <2>4
  <2>6. \A i \in 1 .. Len(more) : more[i] = f[i - 1].hash /\ IsInner(f[i - 1].hash)
    <3>1. \A i \in 1 .. (j + 1) : i = j + 1 \/ i \in 1 .. Len(nodes) BY <2>1
    <3>2. \A i \in 1 .. Len(nodes) : more[i] = nodes[i] BY <1>2, <2>3, <2>4
    <3>3. more[j + 1] = f[j].hash BY <1>2, <2>1, <2>3, <2>4
    <3>4. (j + 1) - 1 = j OBVIOUS
    <3> QED BY <1>2, <1>5, <2>5, <3>1, <3>2, <3>3, <3>4
  <2>7. \A i \in Len(more) .. (j + 1) : f[i] = f[Len(more)] BY <2>5
  <2> QED BY <2>2, <2>3, <2>5, <2>6, <2>7 DEF Passed, S
<1> QED BY <1>4, <1>5

LEMMA AllPassed ==
  ASSUME NEW hash, NEW key
  PROVE  \A j \in Nat : Passed(ProofSteps(hash, key), j)
<1> DEFINE f == ProofSteps(hash, key)
           T == {j \in Nat : Passed(f, j)}
<1>1. 0 \in T
  <2>1. f[0] = [hash |-> hash, height |-> Height, nodes |-> <<>>] BY ProofStepsDef
  <2> HIDE DEF f
  <2>2. f[0].nodes = <<>> BY <2>1
  <2>3. \A i \in 0 .. 0 : f[i] = f[0] OBVIOUS
  <2>4. Len(<<>>) = 0 /\ \A i \in 1 .. 0 : FALSE OBVIOUS
  <2>5. f[0].nodes \in Seq({f[k].hash : k \in Nat}) BY <2>2
  <2>6. Len(f[0].nodes) = 0 BY <2>2
  <2>7. Passed(f, 0) BY <2>3, <2>5, <2>6 DEF Passed
  <2> QED BY <2>7
<1>2. ASSUME NEW j \in Nat, j \in T PROVE j + 1 \in T
  <2>1. f[j + 1] = ProofStep(f[j], key) BY ProofStepsDef
  <2> HIDE DEF f
  <2>2. Passed(f, j + 1) BY <1>2, <2>1, PassedStep
  <2> QED BY <2>2
<1>3. \A j \in Nat : j \in T
  <2> HIDE DEF T
  <2> QED BY <1>1, <1>2, NatSetInduction
<1> QED BY <1>3

-----------------------------------------------------------------------------
(* verify_proof accepts the endpoint's proofs.                             *)

\* verify_proof after the nodes above s.
OkState(s) == [parent_hash |-> s.hash, index |-> start + Height - s.height,
               verdict |-> Verdict("Ok", 0)]

\* The proof leads away from the key.
Leaves(s, key) == s.hash.kind = "edge" /\ ~Follows(s.hash, s.height, key)

LEMMA PathMod ==
  ASSUME NEW n \in Nat, NEW p \in Positions(n)
  PROVE  p % Pow2[n] = p
<1>1. p \in Nat /\ 0 \in Nat BY PositionsNat
<1>2. p = 0 * Pow2[n] + p BY <1>1, Pow2Type
<1> QED BY <1>1, <1>2, AncUnique

LEMMA VerifyBinary ==
  ASSUME NEW v, NEW node, NEW key, NEW i, NEW w,
         v = [parent_hash |-> node, index |-> i, verdict |-> w], w.kind = "Ok",
         node.kind = "binary"
  PROVE  VerifyNode(v, node, key) =
         [parent_hash |-> IF Bits(key, i, i + 1) = 1 THEN node.right ELSE node.left,
          index |-> i + 1, verdict |-> w]
<1>1. v.parent_hash = node /\ v.index = i /\ v.verdict = w OBVIOUS
<1>2. VerifyNode(v, node, key) =
         [v EXCEPT !.parent_hash = IF Bits(key, v.index, v.index + 1) = 1
                                   THEN node.right ELSE node.left,
                   !.index = @ + 1]
  BY <1>1 DEF VerifyNode
<1> QED BY <1>1, <1>2

LEMMA VerifyEdge ==
  ASSUME NEW v, NEW node, NEW key, v.verdict.kind = "Ok", node = v.parent_hash,
         node.kind # "binary"
  PROVE  VerifyNode(v, node, key) =
         [parent_hash |-> node.bottom, index |-> v.index + node.length,
          verdict |-> IF node.path % Pow2[node.length] =
                            Bits(key, v.index, v.index + node.length)
                      THEN v.verdict
                      ELSE Verdict("NonExistenceProof",
                                   Height - ((v.index + node.length) - start))]
BY DEF VerifyNode

LEMMA VerifyOne ==
  ASSUME NEW tree \in Tree, NEW key \in Index, NEW k \in Nat, NEW s,
         OnPath(tree, key, s, k), IsInner(s.hash), NEW t, t = ProofStep(s, key)
  PROVE  /\ ~Leaves(s, key) => VerifyNode(OkState(s), s.hash, key) = OkState(t)
         /\ Leaves(s, key) => VerifyNode(OkState(s), s.hash, key).verdict =
                              Verdict("NonExistenceProof", t.height)
<1> USE NodesAssumption
<1>1. PICK x : x = s.hash OBVIOUS
<1>2. PICK h \in Nat : /\ h < Height /\ s.height = h + 1 /\ (h + 1) + k <= Height
                      /\ NodeStep(tree, key, s, h, t)
  BY <1>1, InnerStep
<1>3. PICK v : v = OkState(s) OBVIOUS
<1>4. PICK i \in Int : i = start + Height - (h + 1) BY DEF start
<1>5. /\ v = [parent_hash |-> x, index |-> i, verdict |-> Verdict("Ok", 0)]
      /\ v.verdict.kind = "Ok" /\ x = v.parent_hash /\ v.index = i
      /\ v.verdict = Verdict("Ok", 0)
  BY <1>1, <1>2, <1>3, <1>4 DEF OkState, Verdict
<1>6. key \in Nat BY AncPosition
<1>7. CASE x.kind = "binary"
  <2>1. t.hash = RHash(tree, h, key) /\ t.height = h
    <3>1. t = Further(s, RHash(tree, h, key), h) BY <1>1, <1>2, <1>7 DEF NodeStep
    <3> QED BY <3>1, FurtherFields
  <2>2. Bits(key, i, i + 1) = (key \div Pow2[h]) % 2
    <3>1. start + Height - (i + 1) = h /\ (i + 1) - i = 1 BY <1>4 DEF start
    <3>2. Pow2[1] = 2
      <4>1. Pow2[0 + 1] = 2 * Pow2[0] /\ Pow2[0] = 1 /\ 0 + 1 = 1 BY Pow2Def
      <4> QED BY <4>1
    <3>3. Bits(key, i, i + 1) =
             (key \div Pow2[start + Height - (i + 1)]) % Pow2[(i + 1) - i]
      BY DEF Bits
    <3> QED BY <3>1, <3>2, <3>3
  <2>3. Anc(key, h) % 2 \in {0, 1} BY <1>6, AncChild
  <2>4. VerifyNode(v, x, key) =
           [parent_hash |-> IF Bits(key, i, i + 1) = 1 THEN x.right ELSE x.left,
            index |-> i + 1, verdict |-> Verdict("Ok", 0)]
    <3>1. Verdict("Ok", 0).kind = "Ok" BY DEF Verdict
    <3> QED BY <1>5, <1>7, <3>1, VerifyBinary
  <2>5. (IF Bits(key, i, i + 1) = 1 THEN x.right ELSE x.left) = t.hash
    <3>1. RHash(tree, h, key) = IF (key \div Pow2[h]) % 2 = 0 THEN x.left ELSE x.right
      BY <1>1, <1>2, <1>7 DEF NodeStep
    <3> QED BY <2>1, <2>2, <2>3, <3>1 DEF Anc
  <2>6. VerifyNode(v, x, key) = [parent_hash |-> t.hash, index |-> i + 1,
                                 verdict |-> Verdict("Ok", 0)]
    BY <2>4, <2>5
  <2>7. i + 1 = start + Height - h BY <1>4 DEF start
  <2>8. VerifyNode(v, x, key) = OkState(t) BY <2>1, <2>6, <2>7 DEF OkState
  <2>9. ~Leaves(s, key) BY <1>1, <1>7 DEF Leaves
  <2> QED BY <1>1, <1>3, <2>8, <2>9
<1>8. CASE x.kind = "edge"
  <2>0. /\ x.length \in 1 .. (h + 1) /\ x.path \in Positions(x.length)
        /\ Follows(x, h + 1, key) => RHash(tree, (h + 1) - x.length, key) = x.bottom
        /\ t = Further(s, IF Follows(x, h + 1, key) THEN x.bottom
                          ELSE EMPTY_NODE_HASH, (h + 1) - x.length)
    BY <1>1, <1>2, <1>8 DEF NodeStep
  <2>1. PICK n \in 1 .. (h + 1) : n = x.length BY <2>0
  <2>2. t.hash = (IF Follows(x, h + 1, key) THEN x.bottom ELSE EMPTY_NODE_HASH)
        /\ t.height = (h + 1) - n
    BY <2>0, <2>1, FurtherFields
  <2>3. x.path % Pow2[n] = x.path
    <3>1. n \in Nat /\ x.path \in Positions(n) BY <2>0, <2>1
    <3> QED BY <3>1, PathMod
  <2>4. Bits(key, i, i + n) = (key \div Pow2[(h + 1) - n]) % Pow2[n]
    <3>1. start + Height - (i + n) = (h + 1) - n /\ (i + n) - i = n
      BY <1>4 DEF start
    <3>2. Bits(key, i, i + n) =
             (key \div Pow2[start + Height - (i + n)]) % Pow2[(i + n) - i]
      BY DEF Bits
    <3> QED BY <3>1, <3>2
  <2>5. x.path % Pow2[n] = Bits(key, i, i + n) <=> Follows(x, h + 1, key)
    BY <2>1, <2>3, <2>4 DEF Follows
  <2>6. VerifyNode(v, x, key) =
         [parent_hash |-> x.bottom, index |-> i + n,
          verdict |-> IF x.path % Pow2[n] = Bits(key, i, i + n)
                      THEN v.verdict
                      ELSE Verdict("NonExistenceProof", Height - ((i + n) - start))]
    BY <1>5, <1>8, <2>1, VerifyEdge
  <2>7. i + n = start + Height - ((h + 1) - n) /\ Height - ((i + n) - start) = (h + 1) - n
    BY <1>4 DEF start
  <2>8. Leaves(s, key) <=> ~Follows(x, h + 1, key)
    BY <1>1, <1>2, <1>8 DEF Leaves
  <2>9. CASE Follows(x, h + 1, key)
    <3>1. VerifyNode(v, x, key) = [parent_hash |-> x.bottom, index |-> i + n,
                                   verdict |-> Verdict("Ok", 0)]
      BY <1>5, <2>5, <2>6, <2>9
    <3>2. VerifyNode(v, x, key) = OkState(t) BY <2>2, <2>7, <2>9, <3>1 DEF OkState
    <3> QED BY <1>1, <1>3, <2>8, <2>9, <3>2
  <2>10. CASE ~Follows(x, h + 1, key)
    <3>1. VerifyNode(v, x, key).verdict =
             Verdict("NonExistenceProof", Height - ((i + n) - start))
      BY <2>5, <2>6, <2>10
    <3> QED BY <1>1, <1>3, <2>2, <2>7, <2>8, <2>10, <3>1
  <2> QED BY <2>9, <2>10
<1> QED BY <1>1, <1>2, <1>7, <1>8 DEF NodeStep

\* The verdict on the proof of a key, and where it leads away from the key.
LEMMA VerifyPath ==
  ASSUME NEW tree \in Tree, NEW key \in Index, NEW root, root = ReferenceRoot(tree),
         NEW f, f = ProofSteps(root, key), NEW nodes, nodes = ProofPath(root, key)
  PROVE  /\ Len(nodes) \in 0 .. Height
         /\ \A k \in 0 .. (Len(nodes) - 1) : Leaves(f[k], key) =>
               /\ k + 1 = Len(nodes)
               /\ Last(nodes) = f[k].hash
               /\ verify_proof(key, root, nodes) =
                     Verdict("NonExistenceProof", f[k].height - f[k].hash.length)
         /\ (\A k \in 0 .. (Len(nodes) - 1) : ~Leaves(f[k], key)) =>
               verify_proof(key, root, nodes) = Verdict("Ok", 0)
<1> USE NodesAssumption
<1>1. Passed(f, Height) BY AllPassed
<1>2. nodes = f[Height].nodes BY DEF ProofPath
<1>3. PICK m \in 0 .. Height : m = Len(nodes)
  <2>1. Len(nodes) \in Nat /\ Len(nodes) <= Height BY <1>1, <1>2 DEF Passed
  <2> QED BY <2>1
<1>4. /\ \A i \in 1 .. m : nodes[i] = f[i - 1].hash /\ IsInner(f[i - 1].hash)
      /\ m = Height \/ ~IsInner(f[m].hash)
      /\ \A i \in m .. Height : f[i] = f[m]
  BY <1>1, <1>2, <1>3 DEF Passed
<1>5. \A k \in Nat : k < m => nodes[k + 1] = f[k].hash /\ IsInner(f[k].hash)
  <2>1. \A k \in Nat : k < m => k + 1 \in 1 .. m /\ (k + 1) - 1 = k OBVIOUS
  <2> QED BY <1>4, <2>1
<1>6. \A k \in Nat : OnPath(tree, key, f[k], k) BY AllOnPath
<1>7. \A k \in Nat : f[k + 1] = ProofStep(f[k], key) BY ProofStepsDef
<1>8. PICK v : v = VerifyNodes(key, root, nodes) OBVIOUS
<1>9. /\ v[0] = [parent_hash |-> root, index |-> start, verdict |-> Verdict("Ok", 0)]
      /\ \A k \in Nat : v[k + 1] = VerifyNode(v[k], nodes[k + 1], key)
  BY <1>8, VerifyNodesDef
<1>10. f[0] = [hash |-> root, height |-> Height, nodes |-> <<>>] BY ProofStepsDef
\* The step after an edge that leads away.
<1>11. ASSUME NEW k \in Nat, k < m, Leaves(f[k], key)
       PROVE  /\ k + 1 = m
              /\ f[k + 1].height = f[k].height - f[k].hash.length
  <2>1. f[k + 1] = Further(f[k], EMPTY_NODE_HASH, f[k].height - f[k].hash.length)
    BY <1>7, <1>11, StepEdge DEF Leaves
  <2>2. /\ f[k + 1].hash = EMPTY_NODE_HASH
        /\ f[k + 1].height = f[k].height - f[k].hash.length
    BY <2>1, FurtherFields
  <2>3. ~IsInner(f[k + 1].hash) BY <2>2 DEF IsInner, EMPTY_NODE_HASH
  <2>4. ~(k + 1 < m) BY <1>5, <2>3
  <2> QED BY <1>11, <2>2, <2>4
<1> DEFINE T == {k \in Nat : (k <= m /\ \A j \in Nat : j < k => ~Leaves(f[j], key))
                                => v[k] = OkState(f[k])}
<1>12. 0 \in T
  <2>1. start + Height - Height = start BY DEF start
  <2>2. f[0].hash = root /\ f[0].height = Height BY <1>10
  <2>3. v[0] = OkState(f[0]) BY <1>9, <2>1, <2>2 DEF OkState
  <2> QED BY <2>3
<1>13. ASSUME NEW k \in Nat, k \in T PROVE k + 1 \in T
  <2> SUFFICES ASSUME k + 1 <= m, \A j \in Nat : j < k + 1 => ~Leaves(f[j], key)
               PROVE  v[k + 1] = OkState(f[k + 1])
    OBVIOUS
  <2>1. v[k] = OkState(f[k]) BY <1>13
  <2>2. ~Leaves(f[k], key) /\ k < m OBVIOUS
  <2>3. VerifyNode(OkState(f[k]), f[k].hash, key) = OkState(f[k + 1])
    BY <1>5, <1>6, <1>7, <2>2, VerifyOne
  <2> QED BY <1>5, <1>9, <2>1, <2>2, <2>3
<1>14. \A k \in Nat : k \in T
  <2> HIDE DEF T
  <2> QED BY <1>12, <1>13, NatSetInduction
<1>15. verify_proof(key, root, nodes) = v[m].verdict BY <1>3, <1>8 DEF verify_proof
<1>16. ASSUME NEW k \in Nat, k < m, Leaves(f[k], key)
       PROVE  verify_proof(key, root, nodes) =
                 Verdict("NonExistenceProof", f[k].height - f[k].hash.length)
  <2>1. \A j \in Nat : j < k => ~Leaves(f[j], key)
    <3> SUFFICES ASSUME NEW j \in Nat, j < k, Leaves(f[j], key) PROVE FALSE OBVIOUS
    <3>1. j + 1 = m BY <1>11, <1>16
    <3> QED BY <3>1, <1>16
  <2>2. v[k] = OkState(f[k]) BY <1>14, <1>16, <2>1
  <2>3. VerifyNode(OkState(f[k]), f[k].hash, key).verdict =
           Verdict("NonExistenceProof", f[k + 1].height)
    BY <1>5, <1>6, <1>7, <1>16, VerifyOne
  <2>4. v[k + 1] = VerifyNode(v[k], nodes[k + 1], key) /\ nodes[k + 1] = f[k].hash
    BY <1>5, <1>9, <1>16
  <2>5. k + 1 = m /\ f[k + 1].height = f[k].height - f[k].hash.length
    BY <1>11, <1>16
  <2> QED BY <1>15, <2>2, <2>3, <2>4, <2>5
<1>17. ASSUME NEW k \in Nat, k < m, Leaves(f[k], key) PROVE Last(nodes) = f[k].hash
  BY <1>3, <1>5, <1>11, <1>17 DEF Last
<1>18. (\A k \in 0 .. (m - 1) : ~Leaves(f[k], key)) =>
          verify_proof(key, root, nodes) = Verdict("Ok", 0)
  <2> SUFFICES ASSUME \A k \in 0 .. (m - 1) : ~Leaves(f[k], key)
               PROVE  verify_proof(key, root, nodes) = Verdict("Ok", 0)
    OBVIOUS
  <2>1. \A j \in Nat : j < m => ~Leaves(f[j], key) OBVIOUS
  <2>2. v[m] = OkState(f[m]) BY <1>14, <2>1
  <2> QED BY <1>15, <2>2 DEF OkState
<1>19. \A k \in 0 .. (m - 1) : k \in Nat /\ k < m OBVIOUS
<1> QED BY <1>3, <1>11, <1>16, <1>17, <1>18, <1>19

-----------------------------------------------------------------------------
(* Fetching in chunks and merging give the proofs of the keys, in order.   *)

PathsOf(root, ks) == [i \in DOMAIN ks |-> ProofPath(root, ks[i])]
Data(root, ks) == [some |-> TRUE, root |-> root, storage_proofs |-> PathsOf(root, ks)]

LEMMA PathsOfSeq ==
  ASSUME NEW S, NEW ks \in Seq(S), NEW root, NEW V, V = {ProofPath(root, k) : k \in S}
  PROVE  /\ PathsOf(root, ks) \in Seq(V)
         /\ Len(PathsOf(root, ks)) = Len(ks)
         /\ \A i \in 1 .. Len(ks) : PathsOf(root, ks)[i] = ProofPath(root, ks[i])
<1> DEFINE P == PathsOf(root, ks)
<1>1. Len(ks) \in Nat /\ DOMAIN ks = 1 .. Len(ks) /\ \A i \in 1 .. Len(ks) : ks[i] \in S
  OBVIOUS
<1>2. DOMAIN P = 1 .. Len(ks) /\ \A i \in 1 .. Len(ks) : P[i] = ProofPath(root, ks[i])
  BY <1>1 DEF PathsOf
<1>3. \A i \in 1 .. Len(ks) : P[i] \in V BY <1>1, <1>2
<1>4. P = [i \in 1 .. Len(ks) |-> P[i]] BY <1>1, <1>2 DEF PathsOf
<1> HIDE DEF P
<1>5. P \in [1 .. Len(ks) -> V] BY <1>2, <1>3, <1>4
<1>6. P \in Seq(V) /\ Len(P) = Len(ks) BY <1>1, <1>5
<1> QED BY <1>2, <1>6 DEF P

LEMMA PathsConcat ==
  ASSUME NEW S, NEW a \in Seq(S), NEW b \in Seq(S), NEW root
  PROVE  PathsOf(root, a \o b) = PathsOf(root, a) \o PathsOf(root, b)
<1>1. PICK V : V = {ProofPath(root, k) : k \in S} OBVIOUS
<1>2. PICK c : c = a \o b OBVIOUS
<1>3. /\ c \in Seq(S) /\ Len(c) = Len(a) + Len(b)
      /\ \A i \in 1 .. Len(a) + Len(b) :
            c[i] = IF i <= Len(a) THEN a[i] ELSE b[i - Len(a)]
  BY <1>2, ConcatProperties
<1>4. PICK p, q, r : /\ p = PathsOf(root, a) /\ q = PathsOf(root, b)
                     /\ r = PathsOf(root, c)
  OBVIOUS
<1>5. /\ p \in Seq(V) /\ Len(p) = Len(a)
      /\ \A i \in 1 .. Len(a) : p[i] = ProofPath(root, a[i])
  BY <1>1, <1>4, PathsOfSeq
<1>6. /\ q \in Seq(V) /\ Len(q) = Len(b)
      /\ \A i \in 1 .. Len(b) : q[i] = ProofPath(root, b[i])
  BY <1>1, <1>4, PathsOfSeq
<1>7. /\ r \in Seq(V) /\ Len(r) = Len(c)
      /\ \A i \in 1 .. Len(c) : r[i] = ProofPath(root, c[i])
  BY <1>1, <1>3, <1>4, PathsOfSeq
<1>8. PICK d : d = p \o q OBVIOUS
<1>9. /\ d \in Seq(V) /\ Len(d) = Len(p) + Len(q)
      /\ \A i \in 1 .. Len(p) + Len(q) :
            d[i] = IF i <= Len(p) THEN p[i] ELSE q[i - Len(p)]
  BY <1>5, <1>6, <1>8, ConcatProperties
<1>10. Len(a) \in Nat /\ Len(b) \in Nat OBVIOUS
<1>11. \A i \in 1 .. Len(r) : r[i] = d[i]
  <2> SUFFICES ASSUME NEW i \in 1 .. Len(r) PROVE r[i] = d[i] OBVIOUS
  <2>1. i \in 1 .. Len(a) + Len(b) BY <1>3, <1>7
  <2>2. CASE i <= Len(a)
    <3>1. i \in 1 .. Len(a) BY <2>1, <2>2, <1>10
    <3> QED BY <1>3, <1>5, <1>6, <1>7, <1>9, <2>1, <2>2, <3>1
  <2>3. CASE ~(i <= Len(a))
    <3>1. i - Len(a) \in 1 .. Len(b) BY <2>1, <2>3, <1>10
    <3> QED BY <1>3, <1>5, <1>6, <1>7, <1>9, <2>1, <2>3, <3>1
  <2> QED BY <2>2, <2>3
<1>12. r = d BY <1>3, <1>5, <1>6, <1>7, <1>9, <1>11, SeqEqual
<1> QED BY <1>2, <1>4, <1>8, <1>12

LEMMA SubSeqParts ==
  ASSUME NEW S, NEW ks \in Seq(S), NEW a \in Nat, NEW b \in Nat, a <= b, b <= Len(ks)
  PROVE  /\ SubSeq(ks, 1, a) \in Seq(S) /\ SubSeq(ks, a + 1, b) \in Seq(S)
         /\ SubSeq(ks, 1, a) \o SubSeq(ks, a + 1, b) = SubSeq(ks, 1, b)
         /\ SubSeq(ks, 1, Len(ks)) = ks
<1>0. Len(ks) \in Nat /\ \A i \in 1 .. Len(ks) : ks[i] \in S OBVIOUS
<1>1. PICK x, y, z : /\ x = SubSeq(ks, 1, a) /\ y = SubSeq(ks, a + 1, b)
                     /\ z = SubSeq(ks, 1, b)
  OBVIOUS
<1>2. x \in Seq(S) /\ Len(x) = a /\ \A i \in 1 .. a : x[i] = ks[i]
  BY <1>0, <1>1
<1>3. y \in Seq(S) /\ Len(y) = b - a /\ \A i \in 1 .. (b - a) : y[i] = ks[a + i]
  <2>1. \A i \in (a + 1) .. b : ks[i] \in S BY <1>0
  <2>2. a + 1 \in Int /\ b \in Int OBVIOUS
  <2>3. /\ y \in Seq(S)
        /\ Len(y) = IF a + 1 <= b THEN b - (a + 1) + 1 ELSE 0
        /\ \A i \in 1 .. (b - (a + 1) + 1) : y[i] = ks[(a + 1) + i - 1]
    BY <1>1, <2>1, <2>2, SubSeqProperties
  <2>4. b - (a + 1) + 1 = b - a /\ (a + 1 <= b \/ b - a = 0) OBVIOUS
  <2>5. \A i \in 1 .. (b - a) : (a + 1) + i - 1 = a + i OBVIOUS
  <2> QED BY <2>3, <2>4, <2>5
<1>4. z \in Seq(S) /\ Len(z) = b /\ \A i \in 1 .. b : z[i] = ks[i]
  BY <1>0, <1>1
<1>5. PICK d : d = x \o y OBVIOUS
<1>6. /\ d \in Seq(S) /\ Len(d) = Len(x) + Len(y)
      /\ \A i \in 1 .. Len(x) + Len(y) :
            d[i] = IF i <= Len(x) THEN x[i] ELSE y[i - Len(x)]
  BY <1>2, <1>3, <1>5, ConcatProperties
<1>7. \A i \in 1 .. Len(d) : d[i] = z[i]
  <2> SUFFICES ASSUME NEW i \in 1 .. Len(d) PROVE d[i] = z[i] OBVIOUS
  <2>1. i \in 1 .. b BY <1>2, <1>3, <1>6
  <2>2. CASE i <= a BY <1>2, <1>3, <1>4, <1>6, <2>1, <2>2
  <2>3. CASE ~(i <= a)
    <3>1. i - a \in 1 .. (b - a) /\ a + (i - a) = i BY <2>1, <2>3
    <3> QED BY <1>2, <1>3, <1>4, <1>6, <2>1, <2>3, <3>1
  <2> QED BY <2>2, <2>3
<1>8. Len(d) = Len(z) BY <1>2, <1>3, <1>4, <1>6
<1>9. d = z BY <1>4, <1>6, <1>7, <1>8, SeqEqual
<1>10. SubSeq(ks, 1, Len(ks)) = ks
  <2>1. PICK w : w = SubSeq(ks, 1, Len(ks)) OBVIOUS
  <2>2. w \in Seq(S) /\ Len(w) = Len(ks) /\ \A i \in 1 .. Len(ks) : w[i] = ks[i]
    BY <1>0, <2>1
  <2> QED BY <2>1, <2>2, SeqEqual
<1> QED BY <1>1, <1>2, <1>3, <1>5, <1>9, <1>10

LEMMA MinOfTwo ==
  ASSUME NEW x \in Nat, NEW y \in Nat
  PROVE  Min({x, y}) = IF x <= y THEN x ELSE y
<1>1. PICK w \in {x, y} : \A v \in {x, y} : w <= v
  <2>1. x <= y \/ y <= x OBVIOUS
  <2> QED BY <2>1
<1>2. Min({x, y}) \in {x, y} /\ \A v \in {x, y} : Min({x, y}) <= v BY <1>1 DEF Min
<1> QED BY <1>2

LEMMA GetProofIs ==
  ASSUME NEW tree, NEW ks
  PROVE  /\ get_proof(tree, TRUE, ks) = Data(ReferenceRoot(tree), ks)
         /\ get_proof(tree, FALSE, ks) = NoContractData
BY DEF get_proof, Data, PathsOf

LEMMA ExtendData ==
  ASSUME NEW S, NEW a \in Seq(S), NEW b \in Seq(S), NEW root
  PROVE  /\ Extend(Data(root, a), Data(root, b)) = Data(root, a \o b)
         /\ Extend(NoContractData, Data(root, b)) = Data(root, b)
         /\ Extend(NoContractData, NoContractData) = NoContractData
<1>1. PICK p : p = Data(root, a) OBVIOUS
<1>2. PICK q : q = Data(root, b) OBVIOUS
<1>3. p.some = TRUE /\ p.root = root /\ p.storage_proofs = PathsOf(root, a)
  BY <1>1 DEF Data
<1>4. q.some = TRUE /\ q.storage_proofs = PathsOf(root, b) BY <1>2 DEF Data
<1>5. Extend(p, q) = [p EXCEPT !.storage_proofs = p.storage_proofs \o q.storage_proofs]
  BY <1>3, <1>4 DEF Extend
<1>6. Extend(p, q) = [some |-> TRUE, root |-> root,
                      storage_proofs |-> PathsOf(root, a) \o PathsOf(root, b)]
  BY <1>1, <1>3, <1>4, <1>5 DEF Data
<1>7. Extend(p, q) = Data(root, a \o b) BY <1>6, PathsConcat DEF Data
<1>8. NoContractData.some = FALSE BY DEF NoContractData
<1>9. \A w : Extend(NoContractData, w) = w BY <1>8 DEF Extend
<1> QED BY <1>1, <1>2, <1>7, <1>9

LEMMA ChunkCount ==
  ASSUME NEW n \in Nat \ {0}, NEW m \in Nat \ {0}, NEW c, c = (n + m - 1) \div m
  PROVE  c \in Nat \ {0} /\ n <= c * m /\ \A d \in Nat : d < c => d * m < n
<1>1. PICK x \in Nat : x = n + m - 1 OBVIOUS
<1>2. PICK q \in Nat, r \in 0 .. (m - 1) : q = x \div m /\ r = x % m BY DivBounds
<1>3. x = q * m + r
  <2>1. x = (x \div m) * m + (x % m) BY DivBounds
  <2> QED BY <1>2, <2>1
<1>4. q * m \in Nat OBVIOUS
<1>5. n <= q * m BY <1>1, <1>3, <1>4
<1>6. q # 0 BY <1>5
<1>7. ASSUME NEW d \in Nat, d < q PROVE d * m < n
  <2>1. (d + 1) * m <= q * m BY <1>7, LeqTimes
  <2>2. (d + 1) * m = d * m + m /\ d * m \in Nat OBVIOUS
  <2> QED BY <1>1, <1>3, <1>4, <2>1, <2>2
<1> QED BY <1>1, <1>2, <1>5, <1>6, <1>7

\* The chunks of the keys: the c-th one goes from a to b.
LEMMA ChunkIs ==
  ASSUME NEW S, NEW ks \in Seq(S), ks # <<>>
  PROVE  \E n \in Nat \ {0} :
            /\ DOMAIN Chunks(ks) = 1 .. n
            /\ \A c \in Nat : c < n =>
                  \E b \in Nat : /\ c * MAX_KEYS <= b /\ b <= Len(ks)
                                 /\ b = IF c + 1 = n THEN Len(ks) ELSE (c + 1) * MAX_KEYS
                                 /\ Chunks(ks)[c + 1] = SubSeq(ks, c * MAX_KEYS + 1, b)
<1> USE ChunkAssumption
<1>1. PICK len \in Nat \ {0} : len = Len(ks) BY EmptySeq
<1>2. PICK n : n = (len + MAX_KEYS - 1) \div MAX_KEYS OBVIOUS
<1>3. /\ n \in Nat \ {0} /\ len <= n * MAX_KEYS
      /\ \A d \in Nat : d < n => d * MAX_KEYS < len
  BY <1>1, <1>2, ChunkCount
<1>4. Chunks(ks) = [c \in 1 .. n |->
                       SubSeq(ks, (c - 1) * MAX_KEYS + 1, Min({c * MAX_KEYS, len}))]
  BY <1>1, <1>2 DEF Chunks
<1>5. ASSUME NEW c \in Nat, c < n
      PROVE  \E b \in Nat : /\ c * MAX_KEYS <= b /\ b <= len
                            /\ b = IF c + 1 = n THEN len ELSE (c + 1) * MAX_KEYS
                            /\ Chunks(ks)[c + 1] = SubSeq(ks, c * MAX_KEYS + 1, b)
  <2>1. PICK y \in Nat : y = (c + 1) * MAX_KEYS OBVIOUS
  <2>2. Min({y, len}) = IF y <= len THEN y ELSE len BY <2>1, MinOfTwo
  <2>3. c + 1 \in 1 .. n /\ (c + 1) - 1 = c BY <1>3, <1>5
  <2>4. Chunks(ks)[c + 1] = SubSeq(ks, c * MAX_KEYS + 1, Min({y, len}))
    BY <1>4, <2>1, <2>3
  <2>5. c * MAX_KEYS < len /\ c * MAX_KEYS \in Nat BY <1>3, <1>5
  <2>6. y = c * MAX_KEYS + MAX_KEYS BY <2>1
  <2>7. c * MAX_KEYS <= y BY <2>1, <2>5, <2>6
  <2>8. CASE c + 1 = n
    <3>1. len <= y BY <1>3, <2>1, <2>8
    <3>2. Min({y, len}) = len BY <2>2, <3>1
    <3>3. /\ c * MAX_KEYS <= len /\ len <= len
          /\ len = IF c + 1 = n THEN len ELSE (c + 1) * MAX_KEYS
      BY <2>5, <2>8
    <3>4. Chunks(ks)[c + 1] = SubSeq(ks, c * MAX_KEYS + 1, len) BY <2>4, <3>2
    <3>5. len \in Nat OBVIOUS
    <3> QED BY <3>3, <3>4, <3>5
  <2>9. CASE c + 1 # n
    <3>1. c + 1 < n BY <1>3, <1>5, <2>9
    <3>2. y < len BY <1>3, <2>1, <3>1
    <3>3. Min({y, len}) = y BY <2>2, <3>2
    <3>4. /\ c * MAX_KEYS <= y /\ y <= len
          /\ y = IF c + 1 = n THEN len ELSE (c + 1) * MAX_KEYS
      BY <2>1, <2>7, <2>9, <3>2
    <3>5. Chunks(ks)[c + 1] = SubSeq(ks, c * MAX_KEYS + 1, y) BY <2>4, <3>3
    <3> QED BY <3>4, <3>5
  <2> QED BY <2>8, <2>9
<1>6. DOMAIN Chunks(ks) = 1 .. n BY <1>4
<1> QED BY <1>1, <1>3, <1>5, <1>6

\* What fetch_storage_proof_for_contract returns, whatever the chunks.
LEMMA FetchIs ==
  ASSUME NEW S, NEW ks \in Seq(S), NEW tree
  PROVE  /\ fetch_storage_proof_for_contract(tree, TRUE, ks) =
               Data(ReferenceRoot(tree), ks)
         /\ fetch_storage_proof_for_contract(tree, FALSE, ks) = NoContractData
<1> USE ChunkAssumption
<1>1. CASE ks = <<>>
  BY <1>1, GetProofIs DEF fetch_storage_proof_for_contract
<1>2. CASE ks # <<>>
  <2>1. PICK n \in Nat \ {0} :
            /\ DOMAIN Chunks(ks) = 1 .. n
            /\ \A c \in Nat : c < n =>
                  \E b \in Nat : /\ c * MAX_KEYS <= b /\ b <= Len(ks)
                                 /\ b = IF c + 1 = n THEN Len(ks) ELSE (c + 1) * MAX_KEYS
                                 /\ Chunks(ks)[c + 1] = SubSeq(ks, c * MAX_KEYS + 1, b)
    BY <1>2, ChunkIs
  <2> DEFINE proofs(there) == [c \in DOMAIN Chunks(ks) |->
                                   get_proof(tree, there, Chunks(ks)[c])]
  <2>2. \A there \in BOOLEAN :
           fetch_storage_proof_for_contract(tree, there, ks) =
           MergedProofs(proofs(there))[n]
    <3> SUFFICES ASSUME NEW there \in BOOLEAN
                 PROVE  fetch_storage_proof_for_contract(tree, there, ks) =
                        MergedProofs(proofs(there))[n]
      OBVIOUS
    <3>1. proofs(there) = [c \in 1 .. n |-> get_proof(tree, there, Chunks(ks)[c])]
      BY <2>1
    <3>2. Len(proofs(there)) = n BY <3>1
    <3> HIDE DEF proofs
    <3>3. fetch_storage_proof_for_contract(tree, there, ks) =
             merge_storage_proofs(proofs(there))
      BY <1>2 DEF fetch_storage_proof_for_contract, proofs
    <3> QED BY <3>2, <3>3 DEF merge_storage_proofs
  <2>3. Len(ks) \in Nat OBVIOUS
  <2>4. fetch_storage_proof_for_contract(tree, TRUE, ks) = Data(ReferenceRoot(tree), ks)
    <3> DEFINE end(c) == IF c = n THEN Len(ks) ELSE c * MAX_KEYS
               f == MergedProofs(proofs(TRUE))
               T == {c \in Nat : c \in 1 .. n =>
                        f[c] = Data(ReferenceRoot(tree), SubSeq(ks, 1, end(c)))}
    <3>1. /\ f[0] = NoContractData
          /\ \A c \in Nat : f[c + 1] = Extend(f[c], proofs(TRUE)[c + 1])
      BY MergedProofsDef
    <3> HIDE DEF f
    <3>2. ASSUME NEW c \in Nat, c < n
          PROVE  \E b \in Nat :
                    /\ c * MAX_KEYS <= b /\ b <= Len(ks) /\ b = end(c + 1)
                    /\ proofs(TRUE)[c + 1] =
                          Data(ReferenceRoot(tree), SubSeq(ks, c * MAX_KEYS + 1, b))
      <4>1. PICK b \in Nat : /\ c * MAX_KEYS <= b /\ b <= Len(ks)
                             /\ b = IF c + 1 = n THEN Len(ks) ELSE (c + 1) * MAX_KEYS
                             /\ Chunks(ks)[c + 1] = SubSeq(ks, c * MAX_KEYS + 1, b)
        BY <2>1, <3>2
      <4>2. c + 1 \in 1 .. n BY <3>2
      <4>3. proofs(TRUE)[c + 1] = get_proof(tree, TRUE, Chunks(ks)[c + 1])
        BY <2>1, <4>2
      <4> HIDE DEF proofs
      <4>4. proofs(TRUE)[c + 1] =
               Data(ReferenceRoot(tree), SubSeq(ks, c * MAX_KEYS + 1, b))
        BY <4>1, <4>3, GetProofIs
      <4> QED BY <4>1, <4>4
    <3> HIDE DEF proofs
    <3>3. 0 \in T OBVIOUS
    <3>4. ASSUME NEW c \in Nat, c \in T PROVE c + 1 \in T
      <4> SUFFICES ASSUME c + 1 \in 1 .. n
                   PROVE  f[c + 1] = Data(ReferenceRoot(tree), SubSeq(ks, 1, end(c + 1)))
        OBVIOUS
      <4>1. PICK b \in Nat :
                    /\ c * MAX_KEYS <= b /\ b <= Len(ks) /\ b = end(c + 1)
                    /\ proofs(TRUE)[c + 1] =
                          Data(ReferenceRoot(tree), SubSeq(ks, c * MAX_KEYS + 1, b))
        <5>1. c < n OBVIOUS
        <5> QED BY <3>2, <5>1
      <4> HIDE DEF end
      <4>2. CASE c = 0
        <5>1. c * MAX_KEYS + 1 = 1 BY <4>2
        <5>2. SubSeq(ks, 1, b) \in Seq(S)
          <6>1. SubSeq(ks, 1, b) \in Seq(S) /\ SubSeq(ks, b + 1, b) \in Seq(S)
            BY <4>1, SubSeqParts
          <6> QED BY <6>1
        <5>3. f[c + 1] = Extend(NoContractData, Data(ReferenceRoot(tree), SubSeq(ks, 1, b)))
          BY <3>1, <4>1, <4>2, <5>1
        <5> QED BY <4>1, <5>2, <5>3, ExtendData
      <4>3. CASE c # 0
        <5>1. c \in 1 .. n /\ c # n BY <4>3
        <5>2. PICK a \in Nat : a = c * MAX_KEYS OBVIOUS
        <5>3. f[c] = Data(ReferenceRoot(tree), SubSeq(ks, 1, a))
          BY <3>4, <5>1, <5>2 DEF end
        <5>4. f[c + 1] = Extend(Data(ReferenceRoot(tree), SubSeq(ks, 1, a)),
                                Data(ReferenceRoot(tree), SubSeq(ks, a + 1, b)))
          BY <3>1, <4>1, <5>2, <5>3
        <5>5. /\ SubSeq(ks, 1, a) \in Seq(S) /\ SubSeq(ks, a + 1, b) \in Seq(S)
              /\ SubSeq(ks, 1, a) \o SubSeq(ks, a + 1, b) = SubSeq(ks, 1, b)
          BY <4>1, <5>2, SubSeqParts
        <5>6. f[c + 1] = Data(ReferenceRoot(tree), SubSeq(ks, 1, a) \o SubSeq(ks, a + 1, b))
          BY <5>4, <5>5, ExtendData
        <5> QED BY <4>1, <5>5, <5>6
      <4> QED BY <4>2, <4>3
    <3>5. \A c \in Nat : c \in T
      <4> HIDE DEF T
      <4> QED BY <3>3, <3>4, NatSetInduction
    <3>6. f[n] = Data(ReferenceRoot(tree), SubSeq(ks, 1, Len(ks)))
      <4>1. n \in 1 .. n /\ n \in Nat OBVIOUS
      <4> QED BY <3>5, <4>1
    <3>7. SubSeq(ks, 1, Len(ks)) = ks BY <2>3, SubSeqParts
    <3> QED BY <2>2, <3>6, <3>7 DEF f
  <2>5. fetch_storage_proof_for_contract(tree, FALSE, ks) = NoContractData
    <3> DEFINE f == MergedProofs(proofs(FALSE))
               T == {c \in Nat : c <= n => f[c] = NoContractData}
    <3>1. /\ f[0] = NoContractData
          /\ \A c \in Nat : f[c + 1] = Extend(f[c], proofs(FALSE)[c + 1])
      BY MergedProofsDef
    <3>2. ASSUME NEW c \in Nat, c < n PROVE proofs(FALSE)[c + 1] = NoContractData
      <4>1. c + 1 \in 1 .. n BY <3>2
      <4> QED BY <2>1, <4>1, GetProofIs
    <3> HIDE DEF f, proofs
    <3>3. 0 \in T BY <3>1
    <3>4. ASSUME NEW c \in Nat, c \in T PROVE c + 1 \in T
      <4> SUFFICES ASSUME c + 1 <= n PROVE f[c + 1] = NoContractData OBVIOUS
      <4>1. c < n /\ c <= n OBVIOUS
      <4>2. f[c] = NoContractData BY <3>4, <4>1
      <4>3. proofs(FALSE)[c + 1] = NoContractData BY <3>2, <4>1
      <4>4. f[c + 1] = Extend(NoContractData, NoContractData) BY <3>1, <4>2, <4>3
      <4> QED BY <4>4, ExtendData, EmptySeq
    <3>5. \A c \in Nat : c \in T
      <4> HIDE DEF T
      <4> QED BY <3>3, <3>4, NatSetInduction
    <3>6. f[n] = NoContractData BY <3>5
    <3> QED BY <2>2, <3>6 DEF f
  <2> QED BY <2>4, <2>5
<1> QED BY <1>1, <1>2

-----------------------------------------------------------------------------
(* The further keys.                                                       *)

FurtherKey(data, ks, i) ==
    get_key_following_edge(ks[i], Verdicts(data, ks)[i].height,
                           Last(data.storage_proofs[i]))

LEMMA FurtherKeys ==
  ASSUME NEW data, NEW S, NEW ks \in Seq(S), NEW W,
         W = {FurtherKey(data, ks, i) : i \in 1 .. Len(ks)}
  PROVE  /\ verify_storage_proof(data, ks) \in Seq(W)
         /\ \A i \in 1 .. Len(ks) : EndsInEdge(data, i, Verdicts(data, ks)[i]) =>
               \E j \in 1 .. Len(verify_storage_proof(data, ks)) :
                  verify_storage_proof(data, ks)[j] = FurtherKey(data, ks, i)
<1> DEFINE more == AdditionalKeys(data, ks)
           Ends(i) == EndsInEdge(data, i, Verdicts(data, ks)[i])
           Has(s, i) == \E j \in 1 .. Len(s) : s[j] = FurtherKey(data, ks, i)
           T == {k \in Nat : k <= Len(ks) =>
                    /\ more[k] \in Seq(W)
                    /\ \A i \in 1 .. k : Ends(i) => Has(more[k], i)}
<1>1. more[0] = <<>> BY AdditionalKeysDef
<1>2. \A k \in Nat : more[k + 1] = IF Ends(k + 1)
                                   THEN Append(more[k], FurtherKey(data, ks, k + 1))
                                   ELSE more[k]
  BY AdditionalKeysDef DEF FurtherKey
<1>3. Len(ks) \in Nat OBVIOUS
<1> HIDE DEF more, Ends
<1>4. 0 \in T
  <2>1. more[0] \in Seq(W) BY <1>1, EmptySeq
  <2>2. \A i \in 1 .. 0 : FALSE OBVIOUS
  <2> HIDE DEF Has
  <2> QED BY <2>1, <2>2
<1>5. ASSUME NEW k \in Nat, k \in T PROVE k + 1 \in T
  <2> SUFFICES ASSUME k + 1 <= Len(ks)
               PROVE  /\ more[k + 1] \in Seq(W)
                      /\ \A i \in 1 .. (k + 1) : Ends(i) => Has(more[k + 1], i)
    OBVIOUS
  <2>1. more[k] \in Seq(W) /\ \A i \in 1 .. k : Ends(i) => Has(more[k], i)
    BY <1>3, <1>5
  <2>2. \A i \in 1 .. (k + 1) : i = k + 1 \/ i \in 1 .. k OBVIOUS
  <2>3. CASE Ends(k + 1)
    <3>1. PICK w : w = FurtherKey(data, ks, k + 1) OBVIOUS
    <3>2. w \in W
      <4>1. k + 1 \in 1 .. Len(ks) BY <1>3
      <4> QED BY <3>1, <4>1
    <3>3. PICK s : s = more[k] OBVIOUS
    <3>4. PICK t : t = more[k + 1] OBVIOUS
    <3>5. t = Append(s, w) BY <1>2, <2>3, <3>1, <3>3, <3>4
    <3>6. /\ t \in Seq(W) /\ Len(t) = Len(s) + 1 /\ Len(s) \in Nat
          /\ \A j \in 1 .. Len(s) : t[j] = s[j]
          /\ t[Len(s) + 1] = w
      BY <2>1, <3>2, <3>3, <3>5
    <3>7. Has(t, k + 1)
      <4>1. Len(s) + 1 \in 1 .. Len(t) BY <3>6
      <4> QED BY <3>1, <3>6, <4>1
    <3>8. ASSUME NEW i \in 1 .. k, Ends(i) PROVE Has(t, i)
      <4>1. PICK j \in 1 .. Len(s) : s[j] = FurtherKey(data, ks, i)
        BY <2>1, <3>3, <3>8
      <4>2. j \in 1 .. Len(t) BY <3>6
      <4> QED BY <3>6, <4>1, <4>2
    <3> HIDE DEF Has
    <3> QED BY <2>2, <3>4, <3>6, <3>7, <3>8
  <2>4. CASE ~Ends(k + 1)
    <3>1. more[k + 1] = more[k] BY <1>2, <2>4
    <3> HIDE DEF Has
    <3> QED BY <2>1, <2>2, <2>4, <3>1
  <2> QED BY <2>3, <2>4
<1>6. \A k \in Nat : k \in T
  <2> HIDE DEF T
  <2> QED BY <1>4, <1>5, NatSetInduction
<1>7. more[Len(ks)] \in Seq(W)
      /\ \A i \in 1 .. Len(ks) : Ends(i) => Has(more[Len(ks)], i)
  BY <1>3, <1>6
<1>8. verify_storage_proof(data, ks) = more[Len(ks)] BY DEF verify_storage_proof, more
<1> QED BY <1>7, <1>8 DEF Ends

-----------------------------------------------------------------------------
(* The gap behind the last edge is filled.                                 *)

\* An inner node that a proof comes to is in the proof.
LEMMA InnerInPath ==
  ASSUME NEW root, NEW key, NEW f, f = ProofSteps(root, key), NEW k \in Nat, k < Height,
         IsInner(f[k].hash)
  PROVE  /\ f[k].hash \in ToSet(ProofPath(root, key))
         /\ k < Len(ProofPath(root, key))
<1> USE NodesAssumption
<1>1. Passed(f, Height) BY AllPassed
<1>2. PICK nodes : nodes = f[Height].nodes OBVIOUS
<1>3. PICK S : S = {f[j].hash : j \in Nat} OBVIOUS
<1>4. /\ nodes \in Seq(S) /\ Len(nodes) \in Nat /\ Len(nodes) <= Height
      /\ \A i \in 1 .. Len(nodes) : nodes[i] = f[i - 1].hash /\ IsInner(f[i - 1].hash)
      /\ Len(nodes) = Height \/ ~IsInner(f[Len(nodes)].hash)
      /\ \A i \in Len(nodes) .. Height : f[i] = f[Len(nodes)]
  BY <1>1, <1>2, <1>3 DEF Passed
<1>5. k < Len(nodes)
  <2> SUFFICES ASSUME ~(k < Len(nodes)) PROVE FALSE OBVIOUS
  <2>1. k \in Len(nodes) .. Height /\ Len(nodes) # Height BY <1>4
  <2> QED BY <1>4, <2>1
<1>6. k + 1 \in 1 .. Len(nodes) /\ (k + 1) - 1 = k BY <1>4, <1>5
<1>7. nodes[k + 1] = f[k].hash /\ k + 1 \in DOMAIN nodes BY <1>4, <1>6
<1>8. nodes = ProofPath(root, key) BY <1>2 DEF ProofPath
<1> QED BY <1>5, <1>7, <1>8 DEF ToSet

\* The bottom of an edge that is followed is in the proof.
LEMMA BottomInPath ==
  ASSUME NEW tree \in Tree, NEW key \in Index, NEW root, root = ReferenceRoot(tree),
         NEW f, f = ProofSteps(root, key), NEW k \in Nat, f[k].hash.kind = "edge",
         IsInner(f[k].hash.bottom), Follows(f[k].hash, f[k].height, key)
  PROVE  f[k].hash.bottom \in ToSet(ProofPath(root, key))
<1> USE NodesAssumption
<1>1. \A j \in Nat : OnPath(tree, key, f[j], j) BY AllOnPath
<1>2. f[k + 1] = ProofStep(f[k], key) BY ProofStepsDef
<1>3. f[k + 1] = Further(f[k], f[k].hash.bottom, f[k].height - f[k].hash.length)
  BY <1>2, StepEdge
<1>4. f[k + 1].hash = f[k].hash.bottom BY <1>3, FurtherFields
<1>5. PICK s : s = f[k + 1] OBVIOUS
<1>6. OnPath(tree, key, s, k + 1) /\ IsInner(s.hash) BY <1>1, <1>4, <1>5
<1>7. s.height \in 0 .. Height /\ s.height + (k + 1) <= Height
      /\ s.hash = RHash(tree, s.height, key)
  BY <1>6 DEF OnPath
<1>8. s.height # 0 BY <1>6, <1>7, LeafHash
<1>9. k + 1 < Height /\ k + 1 \in Nat BY <1>7, <1>8
<1>10. f[k + 1].hash \in ToSet(ProofPath(root, key)) BY <1>5, <1>6, <1>9, InnerInPath
<1> QED BY <1>4, <1>10

\* The steps to the nodes above a height depend on the key's bits above it.
LEMMA SameStep ==
  ASSUME NEW tree \in Tree, NEW key \in Index, NEW k \in Nat, NEW s,
         OnPath(tree, key, s, k), IsInner(s.hash), NEW key2 \in Nat, NEW g \in Nat,
         \A t \in Nat : g <= t => Anc(key2, t) = Anc(key, t),
         g <= ProofStep(s, key).height
  PROVE  ProofStep(s, key2) = ProofStep(s, key)
<1> USE NodesAssumption
<1>1. PICK t : t = ProofStep(s, key) OBVIOUS
<1>2. PICK h \in Nat : /\ h < Height /\ s.height = h + 1 /\ (h + 1) + k <= Height
                       /\ NodeStep(tree, key, s, h, t)
  BY <1>1, InnerStep
<1>3. PICK x : x = s.hash OBVIOUS
<1>4. CASE x.kind = "binary"
  <2>1. t = Further(s, RHash(tree, h, key), h) BY <1>2, <1>3, <1>4 DEF NodeStep
  <2>2. t.height = h BY <2>1, FurtherFields
  <2>3. Anc(key2, h) = Anc(key, h) BY <1>1, <2>2
  <2>4. (h + 1) - 1 = h OBVIOUS
  <2>5. ProofStep(s, key2) = Further(s, IF (key2 \div Pow2[s.height - 1]) % 2 = 0
                                        THEN x.left ELSE x.right, s.height - 1)
    BY <1>3, <1>4, StepBinary
  <2>6. ProofStep(s, key) = Further(s, IF (key \div Pow2[s.height - 1]) % 2 = 0
                                       THEN x.left ELSE x.right, s.height - 1)
    BY <1>3, <1>4, StepBinary
  <2>7. key2 \div Pow2[s.height - 1] = key \div Pow2[s.height - 1]
    BY <1>2, <2>3, <2>4 DEF Anc
  <2> QED BY <2>5, <2>6, <2>7
<1>5. CASE x.kind = "edge"
  <2>1. /\ x.length \in 1 .. (h + 1)
        /\ t = Further(s, IF Follows(x, h + 1, key) THEN x.bottom
                          ELSE EMPTY_NODE_HASH, (h + 1) - x.length)
    BY <1>2, <1>3, <1>5 DEF NodeStep
  <2>2. PICK n \in 1 .. (h + 1) : n = x.length BY <2>1
  <2>3. t.height = (h + 1) - n BY <2>1, <2>2, FurtherFields
  <2>4. (h + 1) - n \in Nat /\ g <= (h + 1) - n BY <1>1, <2>3
  <2>5. Anc(key2, (h + 1) - n) = Anc(key, (h + 1) - n) BY <2>4
  <2>6. Follows(x, h + 1, key2) <=> Follows(x, h + 1, key)
    BY <2>2, <2>5 DEF Follows, Anc
  <2>7. ProofStep(s, key2) = Further(s, IF Follows(x, s.height, key2) THEN x.bottom
                                        ELSE EMPTY_NODE_HASH, s.height - x.length)
    BY <1>3, <1>5, StepEdge
  <2>8. ProofStep(s, key) = Further(s, IF Follows(x, s.height, key) THEN x.bottom
                                       ELSE EMPTY_NODE_HASH, s.height - x.length)
    BY <1>3, <1>5, StepEdge
  <2> QED BY <1>2, <2>6, <2>7, <2>8
<1> QED BY <1>2, <1>3, <1>4, <1>5 DEF NodeStep

\* A proof goes down.
LEMMA HeightsFall ==
  ASSUME NEW tree \in Tree, NEW key \in Index, NEW f,
         f = ProofSteps(ReferenceRoot(tree), key)
  PROVE  \A j \in Nat : \A i \in 0 .. j : f[j].height <= f[i].height
<1> USE NodesAssumption
<1>1. \A k \in Nat : OnPath(tree, key, f[k], k) BY AllOnPath
<1>2. \A k \in Nat : f[k + 1] = ProofStep(f[k], key) BY ProofStepsDef
<1>3. \A k \in Nat : f[k].height \in 0 .. Height BY <1>1 DEF OnPath
<1>4. ASSUME NEW k \in Nat PROVE f[k + 1].height <= f[k].height
  <2>1. CASE ~IsInner(f[k].hash)
    <3>1. f[k + 1] = f[k] BY <1>2, <2>1 DEF ProofStep, IsInner
    <3> QED BY <1>3, <3>1
  <2>2. CASE IsInner(f[k].hash)
    <3>1. PICK s, t : s = f[k] /\ t = f[k + 1] OBVIOUS
    <3>2. t = ProofStep(s, key) BY <1>2, <3>1
    <3>3. PICK h \in Nat : /\ h < Height /\ s.height = h + 1 /\ (h + 1) + k <= Height
                           /\ NodeStep(tree, key, s, h, t)
      BY <1>1, <2>2, <3>1, <3>2, InnerStep
    <3>4. CASE s.hash.kind = "binary"
      <4>1. t = Further(s, RHash(tree, h, key), h) BY <3>3, <3>4 DEF NodeStep
      <4>2. t.height = h BY <4>1, FurtherFields
      <4> QED BY <3>1, <3>3, <4>2
    <3>5. CASE s.hash.kind = "edge"
      <4>1. /\ s.hash.length \in 1 .. (h + 1)
            /\ t = Further(s, IF Follows(s.hash, h + 1, key) THEN s.hash.bottom
                              ELSE EMPTY_NODE_HASH, (h + 1) - s.hash.length)
        BY <3>3, <3>5 DEF NodeStep
      <4>2. PICK n \in 1 .. (h + 1) : n = s.hash.length BY <4>1
      <4>3. t.height = (h + 1) - n BY <4>1, <4>2, FurtherFields
      <4> QED BY <3>1, <3>3, <4>3
    <3> QED BY <3>3, <3>4, <3>5 DEF NodeStep
  <2> QED BY <2>1, <2>2
<1> DEFINE T == {j \in Nat : \A i \in 0 .. j : f[j].height <= f[i].height}
<1>5. 0 \in T BY <1>3
<1>6. ASSUME NEW j \in Nat, j \in T PROVE j + 1 \in T
  <2> SUFFICES ASSUME NEW i \in 0 .. (j + 1) PROVE f[j + 1].height <= f[i].height
    OBVIOUS
  <2>1. CASE i = j + 1 BY <1>3, <2>1
  <2>2. CASE i # j + 1
    <3>1. i \in 0 .. j BY <2>2
    <3>2. f[j].height <= f[i].height BY <1>6, <3>1
    <3>3. f[j + 1].height <= f[j].height BY <1>4
    <3>4. /\ f[j + 1].height \in Int /\ f[j].height \in Int /\ f[i].height \in Int
      BY <1>3
    <3> QED BY <3>2, <3>3, <3>4
  <2> QED BY <2>1, <2>2
<1>7. \A j \in Nat : j \in T
  <2> HIDE DEF T
  <2> QED BY <1>5, <1>6, NatSetInduction
<1> QED BY <1>7

LEMMA StepsOf ==
  ASSUME NEW root, NEW key, NEW f, f = ProofSteps(root, key)
  PROVE  /\ f[0] = [hash |-> root, height |-> Height, nodes |-> <<>>]
         /\ \A j \in Nat : f[j + 1] = ProofStep(f[j], key)
BY ProofStepsDef

LEMMA KeyFollowsEdge ==
  ASSUME NEW key \in Index, NEW h \in Nat, h < Height, NEW edge,
         NEW n \in 1 .. (h + 1), edge.length = n, edge.path \in Positions(n),
         NEW key2, key2 = get_key_following_edge(key, (h + 1) - n, edge)
  PROVE  /\ key2 \in Index
         /\ Follows(edge, h + 1, key2)
         /\ \A t \in Nat : h + 1 <= t => Anc(key2, t) = Anc(key, t)
<1> USE NodesAssumption
<1>1. PICK p \in Positions(n) : p = edge.path OBVIOUS
<1>2. PICK g \in Nat : g = (h + 1) - n /\ g + n = h + 1
  <2>1. (h + 1) - n \in Nat /\ ((h + 1) - n) + n = h + 1 OBVIOUS
  <2> QED BY <2>1
<1>3. key \in Nat /\ Anc(key, Height) = 0 BY AncPosition
<1>4. n \in Nat OBVIOUS
<1>5. /\ key2 \in Nat
      /\ Anc(key2, g) % Pow2[n] = p
      /\ \A t \in Nat : g + n <= t => Anc(key2, t) = Anc(key, t)
  BY <1>1, <1>2, <1>3, <1>4, KeyFollowing
<1>6. key2 \in Index
  <2>1. Height \in Nat /\ g + n <= Height BY <1>2
  <2>2. Anc(key2, Height) = 0 BY <1>3, <1>5, <2>1
  <2>3. /\ key2 % Pow2[Height] \in Positions(Height)
        /\ key2 = Anc(key2, Height) * Pow2[Height] + (key2 % Pow2[Height])
    <3>1. key2 \in Nat BY <1>5
    <3> QED BY <3>1, <2>1, AncType
  <2>4. key2 = 0 * Pow2[Height] + (key2 % Pow2[Height]) BY <2>2, <2>3
  <2>5. key2 % Pow2[Height] \in Nat BY <2>1, <2>3, PositionsNat
  <2>6. key2 = key2 % Pow2[Height] BY <2>1, <2>4, <2>5, Pow2Type
  <2> QED BY <2>3, <2>6 DEF Index
<1>7. Follows(edge, h + 1, key2) BY <1>1, <1>2, <1>5 DEF Follows, Anc
<1> QED BY <1>2, <1>5, <1>6, <1>7

SameAbove(key2, key, g) == \A t \in Nat : g <= t => Anc(key2, t) = Anc(key, t)
InnerUpTo(f, k) == \A j \in Nat : j < k => IsInner(f[j].hash)

\* Two keys with the same bits above height g have the same nodes there.
LEMMA SamePrefix ==
  ASSUME NEW tree \in Tree, NEW key \in Index, NEW key2 \in Nat, NEW g \in Nat,
         SameAbove(key2, key, g), NEW root, root = ReferenceRoot(tree), NEW f, f = ProofSteps(root, key),
         NEW f2, f2 = ProofSteps(root, key2), NEW k \in Nat,
         InnerUpTo(f, k), g <= f[k].height
  PROVE  f2[k] = f[k]
<1>1. \A j \in Nat : OnPath(tree, key, f[j], j) BY AllOnPath
<1>2. /\ f[0] = [hash |-> root, height |-> Height, nodes |-> <<>>]
      /\ \A j \in Nat : f[j + 1] = ProofStep(f[j], key)
  BY StepsOf
<1>3. /\ f2[0] = [hash |-> root, height |-> Height, nodes |-> <<>>]
      /\ \A j \in Nat : f2[j + 1] = ProofStep(f2[j], key2)
  BY StepsOf
<1>4. ASSUME NEW j \in Nat, j < k PROVE g <= f[j + 1].height
  <2>1. j + 1 \in 0 .. k BY <1>4
  <2>2. f[k].height <= f[j + 1].height BY <2>1, HeightsFall
  <2>3. f[k].height \in Int /\ f[j + 1].height \in Int BY <1>1 DEF OnPath
  <2> QED BY <2>2, <2>3
<1> DEFINE T == {j \in Nat : j <= k => f2[j] = f[j]}
<1>5. 0 \in T BY <1>2, <1>3
<1>6. ASSUME NEW j \in Nat, j \in T PROVE j + 1 \in T
  <2> SUFFICES ASSUME j + 1 <= k PROVE f2[j + 1] = f[j + 1] OBVIOUS
  <2>1. j < k /\ f2[j] = f[j] BY <1>6
  <2>2. PICK s : s = f[j] OBVIOUS
  <2>3. f[j + 1] = ProofStep(s, key) /\ f2[j + 1] = ProofStep(s, key2)
    BY <1>2, <1>3, <2>1, <2>2
  <2>4. OnPath(tree, key, s, j) /\ IsInner(s.hash) /\ g <= ProofStep(s, key).height
    BY <1>1, <1>4, <2>1, <2>2, <2>3 DEF InnerUpTo
  <2>5. ProofStep(s, key2) = ProofStep(s, key) BY <2>4, SameStep DEF SameAbove
  <2> QED BY <2>3, <2>5
<1>7. \A j \in Nat : j \in T
  <2> HIDE DEF T
  <2> QED BY <1>5, <1>6, NatSetInduction
<1> QED BY <1>7

\* The key made from an edge that leads away has the edge and its bottom on
\* its way.
LEMMA FollowingKeyPath ==
  ASSUME NEW tree \in Tree, NEW key \in Index, NEW root, root = ReferenceRoot(tree),
         NEW f, f = ProofSteps(root, key), NEW k \in Nat,
         k < Len(ProofPath(root, key)), Leaves(f[k], key), IsInner(f[k].hash.bottom),
         NEW key2,
         key2 = get_key_following_edge(key, f[k].height - f[k].hash.length, f[k].hash)
  PROVE  f[k].hash.bottom \in ToSet(ProofPath(root, key2))
<1> USE NodesAssumption
<1>1. PICK e : e = f[k].hash OBVIOUS
<1>2. e.kind = "edge" /\ IsInner(e) BY <1>1 DEF Leaves, IsInner
<1>3. \A j \in Nat : OnPath(tree, key, f[j], j) BY AllOnPath
<1>4. PICK h \in Nat : /\ h < Height /\ f[k].height = h + 1 /\ (h + 1) + k <= Height
                       /\ NodeStep(tree, key, f[k], h, ProofStep(f[k], key))
  BY <1>1, <1>2, <1>3, InnerStep
<1>5. e.length \in 1 .. (h + 1) /\ e.path \in Positions(e.length)
  BY <1>1, <1>2, <1>4 DEF NodeStep
<1>6. PICK n \in 1 .. (h + 1) : n = e.length BY <1>5
<1>7. e.path \in Positions(n) BY <1>5, <1>6
<1>8. key2 = get_key_following_edge(key, (h + 1) - n, e) BY <1>1, <1>4, <1>6
<1>9. /\ key2 \in Index
      /\ Follows(e, h + 1, key2)
      /\ \A t \in Nat : h + 1 <= t => Anc(key2, t) = Anc(key, t)
  BY <1>4, <1>6, <1>7, <1>8, KeyFollowsEdge
<1>10. \A j \in Nat : j < k => IsInner(f[j].hash)
  <2>1. Passed(f, Height) BY AllPassed
  <2>2. ProofPath(root, key) = f[Height].nodes BY DEF ProofPath
  <2>3. PICK m \in Nat : m = Len(ProofPath(root, key)) BY <2>1, <2>2 DEF Passed
  <2>4. \A i \in 1 .. m : IsInner(f[i - 1].hash) BY <2>1, <2>2, <2>3 DEF Passed
  <2>5. \A j \in Nat : j < k => j + 1 \in 1 .. m /\ (j + 1) - 1 = j BY <2>3
  <2> QED BY <2>4, <2>5
<1>11. PICK f2 : f2 = ProofSteps(root, key2) OBVIOUS
<1>12. f2[k] = f[k]
  <2>1. key2 \in Nat BY <1>9, AncPosition
  <2>2. PICK g \in Nat : g = h + 1 /\ g <= f[k].height
    <3>1. h + 1 \in Nat /\ h + 1 <= f[k].height BY <1>4
    <3> QED BY <3>1
  <2>3. SameAbove(key2, key, g) BY <1>9, <2>2 DEF SameAbove
  <2>4. InnerUpTo(f, k) BY <1>10 DEF InnerUpTo
  <2> QED BY <1>11, <2>1, <2>2, <2>3, <2>4, SamePrefix
<1>13. /\ f2[k].hash.kind = "edge" /\ IsInner(f2[k].hash.bottom)
       /\ Follows(f2[k].hash, f2[k].height, key2)
  BY <1>1, <1>2, <1>4, <1>9, <1>12
<1>14. f2[k].hash.bottom \in ToSet(ProofPath(root, key2))
  BY <1>9, <1>11, <1>13, BottomInPath
<1> QED BY <1>12, <1>14

LEMMA MergeTwo ==
  ASSUME NEW a, NEW b
  PROVE  merge_storage_proofs(<<a, b>>) = Extend(Extend(NoContractData, a), b)
<1>1. PICK s : s = <<a, b>> OBVIOUS
<1>2. s[1] = a /\ s[2] = b /\ Len(s) = 2 BY <1>1
<1>3. /\ MergedProofs(s)[0] = NoContractData
      /\ \A k \in Nat : MergedProofs(s)[k + 1] = Extend(MergedProofs(s)[k], s[k + 1])
  BY MergedProofsDef
<1>4. 0 + 1 = 1 /\ 1 + 1 = 2 /\ 0 \in Nat /\ 1 \in Nat OBVIOUS
<1>5. MergedProofs(s)[1] = Extend(NoContractData, a) BY <1>2, <1>3, <1>4
<1>6. MergedProofs(s)[2] = Extend(MergedProofs(s)[1], b) BY <1>2, <1>3, <1>4
<1> QED BY <1>1, <1>2, <1>5, <1>6 DEF merge_storage_proofs

\* What get_storage_proof_for_contract returns: the proofs of the keys, then
\* those of the further keys.
MoreKeys(tree, ks) ==
    LET data == Data(ReferenceRoot(tree), ks) IN verify_storage_proof(data, ks)

LEMMA StorageProofIs ==
  ASSUME NEW tree, NEW ks \in Seq(Index)
  PROVE  /\ \E S : /\ Index \subseteq S /\ MoreKeys(tree, ks) \in Seq(S)
                   /\ ks \in Seq(S)
         /\ get_storage_proof_for_contract(tree, TRUE, ks) =
               Data(ReferenceRoot(tree), ks \o MoreKeys(tree, ks))
         /\ get_storage_proof_for_contract(tree, FALSE, ks) = NoContractData
<1>1. PICK data : data = Data(ReferenceRoot(tree), ks) OBVIOUS
<1>2. PICK more : more = MoreKeys(tree, ks) OBVIOUS
<1>3. more = verify_storage_proof(data, ks) BY <1>1, <1>2 DEF MoreKeys
<1>4. PICK W : W = {FurtherKey(data, ks, i) : i \in 1 .. Len(ks)} OBVIOUS
<1>5. more \in Seq(W) BY <1>3, <1>4, FurtherKeys
<1>6. PICK S : S = Index \cup W OBVIOUS
<1>7. more \in Seq(S) /\ ks \in Seq(S) /\ Index \subseteq S
  BY <1>5, <1>6, SeqMonotonic
<1>8. data.some = TRUE BY <1>1 DEF Data
<1>9. fetch_storage_proof_for_contract(tree, TRUE, ks) = data BY <1>1, FetchIs
<1>10. get_storage_proof_for_contract(tree, TRUE, ks) =
          Data(ReferenceRoot(tree), ks \o more)
  <2>1. CASE more = <<>>
    <3>1. get_storage_proof_for_contract(tree, TRUE, ks) = data
      BY <1>3, <1>8, <1>9, <2>1 DEF get_storage_proof_for_contract
    <3>2. ks \o more = ks BY <2>1, ConcatEmptySeq
    <3> QED BY <1>1, <3>1, <3>2
  <2>2. CASE more # <<>>
    <3>1. get_storage_proof_for_contract(tree, TRUE, ks) =
             merge_storage_proofs(<<data, fetch_storage_proof_for_contract(tree, TRUE, more)>>)
      BY <1>3, <1>8, <1>9, <2>2 DEF get_storage_proof_for_contract
    <3>2. fetch_storage_proof_for_contract(tree, TRUE, more) =
             Data(ReferenceRoot(tree), more)
      BY <1>5, FetchIs
    <3>3. Extend(NoContractData, data) = data BY <1>1, ExtendData
    <3>4. Extend(data, Data(ReferenceRoot(tree), more)) =
             Data(ReferenceRoot(tree), ks \o more)
      BY <1>1, <1>7, ExtendData
    <3> QED BY <3>1, <3>2, <3>3, <3>4, MergeTwo
  <2> QED BY <2>1, <2>2
<1>11. get_storage_proof_for_contract(tree, FALSE, ks) = NoContractData
  <2>1. fetch_storage_proof_for_contract(tree, FALSE, ks) = NoContractData BY FetchIs
  <2>2. NoContractData.some = FALSE BY DEF NoContractData
  <2> QED BY <2>1, <2>2 DEF get_storage_proof_for_contract
<1> QED BY <1>2, <1>7, <1>10, <1>11

\* The nodes of a list of proofs.
NodesOf(proofs) == UNION {ToSet(proofs[i]) : i \in DOMAIN proofs}

\* Every edge on the way to a key has its bottom among the nodes.
LEMMA GapsAreFilled ==
  ASSUME NEW tree \in Tree, NEW ks \in Seq(Index), NEW i \in 1 .. Len(ks), NEW root,
         root = ReferenceRoot(tree), NEW e \in ToSet(ProofPath(root, ks[i])),
         e.kind = "edge", IsInner(e.bottom)
  PROVE  \/ e.bottom \in ToSet(ProofPath(root, ks[i]))
         \/ \E j \in 1 .. Len(MoreKeys(tree, ks)) :
               e.bottom \in ToSet(ProofPath(root, MoreKeys(tree, ks)[j]))
<1> USE NodesAssumption
<1>1. PICK key \in Index : key = ks[i] OBVIOUS
<1>2. PICK f : f = ProofSteps(root, key) OBVIOUS
<1>3. PICK nodes : nodes = ProofPath(root, key) OBVIOUS
<1>4. Passed(f, Height) /\ nodes = f[Height].nodes
  BY <1>2, <1>3, AllPassed DEF ProofPath
<1>5. PICK m \in Nat : m = Len(nodes) BY <1>4 DEF Passed
<1>6. PICK k \in Nat : k < m /\ f[k].hash = e
  <2>1. \A j \in 1 .. m : nodes[j] = f[j - 1].hash BY <1>4, <1>5 DEF Passed
  <2>2. DOMAIN nodes = 1 .. m
    <3>1. PICK S : S = {f[j].hash : j \in Nat} OBVIOUS
    <3>2. nodes \in Seq(S) BY <1>4, <3>1 DEF Passed
    <3> QED BY <1>5, <3>2
  <2>3. PICK j \in 1 .. m : nodes[j] = e BY <1>1, <1>3, <2>2 DEF ToSet
  <2>4. j - 1 \in Nat /\ j - 1 < m OBVIOUS
  <2> QED BY <2>1, <2>3, <2>4
<1>7. CASE Follows(e, f[k].height, key)
  <2>1. f[k].hash.bottom \in ToSet(ProofPath(root, key))
    BY <1>2, <1>6, <1>7, BottomInPath
  <2> QED BY <1>1, <1>6, <2>1
<1>8. CASE ~Follows(e, f[k].height, key)
  <2>1. Leaves(f[k], key) BY <1>6, <1>8 DEF Leaves
  <2>2. PICK g : g = f[k].height - e.length OBVIOUS
  <2>3. /\ Last(nodes) = e
        /\ verify_proof(key, root, nodes) = Verdict("NonExistenceProof", g)
    <3>1. k \in 0 .. (Len(nodes) - 1) BY <1>5, <1>6
    <3> QED BY <1>2, <1>3, <1>6, <2>1, <2>2, <3>1, VerifyPath
  <2>4. g < Height
    <3>1. OnPath(tree, key, f[k], k) BY <1>2, AllOnPath
    <3>2. IsInner(f[k].hash) BY <1>6 DEF IsInner
    <3>3. PICK h \in Nat : /\ h < Height /\ f[k].height = h + 1 /\ (h + 1) + k <= Height
                           /\ NodeStep(tree, key, f[k], h, ProofStep(f[k], key))
      BY <3>1, <3>2, InnerStep
    <3>4. PICK n \in 1 .. (h + 1) : n = e.length BY <1>6, <3>3 DEF NodeStep
    <3>5. g = (h + 1) - n BY <2>2, <3>3, <3>4
    <3> QED BY <3>3, <3>5
  <2>5. PICK data : data = Data(root, ks) OBVIOUS
  <2>6. data.storage_proofs[i] = nodes /\ data.root = root
    <3>1. i \in DOMAIN ks OBVIOUS
    <3> QED BY <1>1, <1>3, <2>5, <3>1 DEF Data, PathsOf
  <2>7. Verdicts(data, ks)[i] = Verdict("NonExistenceProof", g)
    <3>1. i \in DOMAIN ks OBVIOUS
    <3> QED BY <1>1, <2>3, <2>6, <3>1 DEF Verdicts
  <2>8. EndsInEdge(data, i, Verdicts(data, ks)[i])
    BY <2>3, <2>4, <2>6, <2>7 DEF EndsInEdge, Verdict
  <2>9. PICK key2 : key2 = FurtherKey(data, ks, i) OBVIOUS
  <2>10. key2 = get_key_following_edge(key, g, e)
    BY <1>1, <2>3, <2>6, <2>7, <2>9 DEF FurtherKey, Verdict
  <2>11. e.bottom \in ToSet(ProofPath(root, key2))
    <3>1. key2 = get_key_following_edge(key, f[k].height - f[k].hash.length, f[k].hash)
      BY <1>6, <2>2, <2>10
    <3>2. k < Len(ProofPath(root, key)) BY <1>3, <1>5, <1>6
    <3>3. f[k].hash.bottom \in ToSet(ProofPath(root, key2))
      BY <1>2, <1>6, <2>1, <3>1, <3>2, FollowingKeyPath
    <3> QED BY <1>6, <3>3
  <2>12. PICK W : W = {FurtherKey(data, ks, j) : j \in 1 .. Len(ks)} OBVIOUS
  <2>13. \E j \in 1 .. Len(verify_storage_proof(data, ks)) :
            verify_storage_proof(data, ks)[j] = FurtherKey(data, ks, i)
    BY <2>8, <2>12, FurtherKeys
  <2>14. MoreKeys(tree, ks) = verify_storage_proof(data, ks) BY <2>5 DEF MoreKeys
  <2> QED BY <2>9, <2>11, <2>13, <2>14
<1> QED BY <1>7, <1>8

-----------------------------------------------------------------------------
(* The specification: the inputs stay, the proofs are those of the trees.  *)

\* What the block's inputs and the fetched proofs are, in every state.
InputsInv ==
    /\ previous \in Tree
    /\ IsMods(modifications)
    /\ keys \in Seq(Index)
    /\ deployed \in BOOLEAN /\ exists \in BOOLEAN
    /\ mode \in {"State", "Contracts", "Class"}

FetchedInv ==
    /\ proof \in {NoContractData, TreeProof(updated, exists)}
    /\ previous_proof \in {NoContractData, TreeProof(previous, deployed)}

LEMMA IndexFinite == IsFiniteSet(Index)
<1>1. Height \in Nat BY NodesAssumption
<1>2. Pow2[Height] - 1 \in Int BY <1>1, Pow2Type
<1> QED BY <1>2, FS_Interval DEF Index, Positions

LEMMA KeysType ==
  ASSUME NEW D, D \subseteq Index, NEW ks \in SetToSeqs(D)
  PROVE  /\ ks \in Seq(Index)
         /\ \A i \in DOMAIN ks : ks[i] \in D
<1>1. Cardinality(D) \in Nat BY IndexFinite, FS_Subset, FS_CardinalityType
<1>2. ks \in [1 .. Cardinality(D) -> D] BY DEF SetToSeqs
<1>3. ks \in [1 .. Cardinality(D) -> Index] BY <1>2
<1> QED BY <1>1, <1>2, <1>3

LEMMA InitInputs == Init => InputsInv /\ FetchedInv
<1> SUFFICES ASSUME Init PROVE InputsInv /\ FetchedInv OBVIOUS
<1>1. modifications \in Modifications /\ keys \in SetToSeqs(DOMAIN modifications)
  BY DEF Init
<1>2. IsMods(modifications) BY <1>1, ModificationsType
<1>3. keys \in Seq(Index) BY <1>1, <1>2, KeysType DEF IsMods
<1>4. /\ previous \in Tree /\ deployed \in BOOLEAN /\ exists \in BOOLEAN
      /\ mode \in {"State", "Contracts", "Class"}
      /\ proof = NoContractData /\ previous_proof = NoContractData
  BY DEF Init
<1> QED BY <1>2, <1>3, <1>4 DEF InputsInv, FetchedInv

LEMMA FailKeeps ==
  ASSUME NEW error, Fail(error)
  PROVE  UNCHANGED inputs /\ UNCHANGED fetched
BY DEF Fail, inputs, fetched

LEMMA EnterKeeps ==
  ASSUME NEW below, NEW beside, Enter(below, beside)
  PROVE  UNCHANGED inputs /\ UNCHANGED fetched
<1>1. CASE \A i \in DOMAIN beside : MayWrite(beside[i])
  BY <1>1 DEF Enter, inputs, fetched
<1>2. CASE ~(\A i \in DOMAIN beside : MayWrite(beside[i]))
  <2>1. Fail("siblings") BY <1>2 DEF Enter
  <2> QED BY <2>1, FailKeeps
<1> QED BY <1>1, <1>2

LEMMA WalkKeeps ==
  ASSUME WalkLeaf \/ LoadEdge \/ WalkBinary \/ WalkDescent \/ WalkEdge \/ WalkEmpty
  PROVE  UNCHANGED inputs /\ UNCHANGED fetched
<1> DEFINE Same == UNCHANGED inputs /\ UNCHANGED fetched
           Moves == \/ \E error : Fail(error)
                    \/ \E below, beside : Enter(below, beside)
<1>1. Moves => Same
  <2>1. (\E error : Fail(error)) => Same BY FailKeeps
  <2>2. (\E below, beside : Enter(below, beside)) => Same BY EnterKeeps
  <2> QED BY <2>1, <2>2
<1>2. WalkLeaf => Same BY DEF WalkLeaf, inputs, fetched
<1> HIDE DEF Same
<1>3. LoadEdge => Moves BY DEF LoadEdge
<1>4. WalkBinary => Moves
  <2>1. PICK u : u = Head(scopes).update OBVIOUS
  <2>2. Case(u) \in {"left", "right", "both"} BY DEF Case
  <2> HIDE DEF Moves
  <2>3. \A error : Fail(error) => Moves BY DEF Moves
  <2>4. \A below, beside : Enter(below, beside) => Moves BY DEF Moves
  <2>5. CASE u = NoUpdate BY <2>1, <2>3, <2>5 DEF WalkBinary
  <2>6. CASE u # NoUpdate /\ Case(u) = "left" BY <2>1, <2>4, <2>6 DEF WalkBinary
  <2>7. CASE u # NoUpdate /\ Case(u) = "right" BY <2>1, <2>4, <2>7 DEF WalkBinary
  <2>8. CASE u # NoUpdate /\ Case(u) = "both" BY <2>1, <2>4, <2>8 DEF WalkBinary
  <2> QED BY <2>2, <2>5, <2>6, <2>7, <2>8
<1>5. WalkDescent => Moves BY DEF WalkDescent
<1>6. WalkEdge => Moves BY DEF WalkEdge
<1>7. WalkEmpty => Moves BY DEF WalkEmpty
<1>8. Same BY <1>1, <1>2, <1>3, <1>4, <1>5, <1>6, <1>7
<1> QED BY <1>8 DEF Same

\* Only the two fetches change what is fetched.
LEMMA StepFetches ==
  ASSUME [Next]_vars
  PROVE  /\ UNCHANGED inputs
         /\ proof' \in {proof, TreeProof(updated, exists)}
         /\ previous_proof' \in {previous_proof, TreeProof(previous, deployed)}
<1> DEFINE Good == /\ UNCHANGED inputs
                   /\ proof' \in {proof, TreeProof(updated, exists)}
                   /\ previous_proof' \in {previous_proof, TreeProof(previous, deployed)}
<1>1. UNCHANGED inputs /\ UNCHANGED fetched => Good BY DEF fetched
<1>2. CASE GetProofs
  <2>1. CASE Refuses(TreeProof(updated, exists))
    <3>1. Fail("panic") BY <1>2, <2>1 DEF GetProofs
    <3> QED BY <1>1, <3>1, FailKeeps
  <2>2. CASE ~Refuses(TreeProof(updated, exists))
    BY <1>2, <2>2 DEF GetProofs, inputs
  <2> QED BY <2>1, <2>2
<1>3. CASE GetPreviousProofs
  <2>1. CASE Refuses(TreeProof(previous, deployed))
    <3>1. Fail("panic") BY <1>3, <2>1 DEF GetPreviousProofs
    <3> QED BY <1>1, <3>1, FailKeeps
  <2>2. CASE ~Refuses(TreeProof(previous, deployed))
    BY <1>3, <2>2 DEF GetPreviousProofs, inputs
  <2> QED BY <2>1, <2>2
<1>4. CASE SetPreimage
  <2>1. CASE ~proof.some
    <3>1. Fail("no contract_data") BY <1>4, <2>1 DEF SetPreimage
    <3> QED BY <1>1, <3>1, FailKeeps
  <2>2. CASE proof.some /\ mode = "Contracts" /\ NoFirstNode
    <3>1. Fail("panic") BY <1>4, <2>2 DEF SetPreimage
    <3> QED BY <1>1, <3>1, FailKeeps
  <2>3. CASE proof.some /\ ~(mode = "Contracts" /\ NoFirstNode)
    BY <1>4, <2>3 DEF SetPreimage, inputs
  <2> QED BY <2>1, <2>2, <2>3
<1>5. CASE build_descent_map
  <2>1. (\E error : Fail(error)) \/ (UNCHANGED inputs /\ UNCHANGED fetched)
    BY <1>5 DEF build_descent_map, inputs, fetched
  <2> QED BY <1>1, <2>1, FailKeeps
<1>6. CASE WalkLeaf \/ LoadEdge \/ WalkBinary \/ WalkDescent \/ WalkEdge \/ WalkEmpty
  <2>1. UNCHANGED inputs /\ UNCHANGED fetched BY <1>6, WalkKeeps
  <2> QED BY <1>1, <2>1
<1>7. CASE EndWalk
  <2>1. UNCHANGED inputs /\ UNCHANGED fetched BY <1>7 DEF EndWalk, inputs, fetched
  <2> QED BY <1>1, <2>1
<1>8. CASE Stopped \/ UNCHANGED vars
  <2>1. UNCHANGED inputs /\ UNCHANGED fetched
    BY <1>8 DEF Stopped, vars, inputs, fetched
  <2> QED BY <1>1, <2>1
<1> QED BY <1>2, <1>3, <1>4, <1>5, <1>6, <1>7, <1>8 DEF Next

LEMMA StepInputs == InputsInv /\ FetchedInv /\ [Next]_vars => InputsInv' /\ FetchedInv'
<1> SUFFICES ASSUME InputsInv, FetchedInv, [Next]_vars PROVE InputsInv' /\ FetchedInv'
  OBVIOUS
<1>1. /\ UNCHANGED inputs
      /\ proof' \in {proof, TreeProof(updated, exists)}
      /\ previous_proof' \in {previous_proof, TreeProof(previous, deployed)}
  BY StepFetches
<1>2. /\ previous' = previous /\ deployed' = deployed /\ exists' = exists
      /\ modifications' = modifications /\ mode' = mode /\ keys' = keys
  BY <1>1 DEF inputs
<1>3. TreeProof(updated, exists)' = TreeProof(updated, exists)
  BY <1>2 DEF TreeProof, updated
<1>4. TreeProof(previous, deployed)' = TreeProof(previous, deployed)
  BY <1>2 DEF TreeProof
<1>5. InputsInv' BY <1>2 DEF InputsInv
<1>6. FetchedInv' BY <1>1, <1>3, <1>4 DEF FetchedInv
<1> QED BY <1>5, <1>6

LEMMA SpecInputs == Spec => [](InputsInv /\ FetchedInv)
BY InitInputs, StepInputs, PTL DEF Spec

\* The proofs of one tree.
LEMMA TreeProofFollows ==
  ASSUME InputsInv, NEW tree \in Tree, NEW there \in BOOLEAN, NEW p,
         p = TreeProof(tree, there), p.some
  PROVE  /\ \A i \in DOMAIN keys : p.storage_proofs[i] = ProofPath(p.root, keys[i])
         /\ mode = "State" =>
               \A i \in DOMAIN keys : \A e \in ToSet(p.storage_proofs[i]) :
                  e.kind = "edge" /\ IsInner(e.bottom) =>
                     e.bottom \in DOMAIN format_commitment_facts(p.storage_proofs)
<1>0. ~NoContractData.some BY DEF NoContractData
<1>1. keys \in Seq(Index) BY DEF InputsInv
<1>2. PICK root : root = ReferenceRoot(tree) OBVIOUS
<1>3. CASE mode # "State"
  <2>1. p = get_proof(tree, there, keys) BY <1>3 DEF TreeProof
  <2>2. there = TRUE
    <3>1. CASE there = FALSE
      <4>1. p = NoContractData BY <2>1, <3>1, GetProofIs
      <4> QED BY <1>0, <4>1
    <3> QED BY <3>1
  <2>3. p = Data(root, keys) BY <1>2, <2>1, <2>2, GetProofIs
  <2>4. p.root = root /\ p.storage_proofs = PathsOf(root, keys) BY <2>3 DEF Data
  <2>5. \A i \in DOMAIN keys : p.storage_proofs[i] = ProofPath(p.root, keys[i])
    BY <2>4 DEF PathsOf
  <2> QED BY <1>3, <2>5
<1>4. CASE mode = "State"
  <2>1. p = get_storage_proof_for_contract(tree, there, keys)
    BY <1>4 DEF TreeProof
  <2>2. there = TRUE
    <3>1. CASE there = FALSE
      <4>1. p = NoContractData BY <1>1, <2>1, <3>1, StorageProofIs
      <4> QED BY <1>0, <4>1
    <3> QED BY <3>1
  <2>3. PICK more : more = MoreKeys(tree, keys) OBVIOUS
  <2>4. PICK S : Index \subseteq S /\ more \in Seq(S) /\ keys \in Seq(S)
    BY <1>1, <2>3, StorageProofIs
  <2>5. p = Data(root, keys \o more) BY <1>1, <1>2, <2>1, <2>2, <2>3, StorageProofIs
  <2>6. PICK all : all = keys \o more OBVIOUS
  <2>7. /\ all \in Seq(S) /\ Len(all) = Len(keys) + Len(more)
        /\ \A i \in 1 .. Len(keys) + Len(more) :
              all[i] = IF i <= Len(keys) THEN keys[i] ELSE more[i - Len(keys)]
    BY <2>4, <2>6, ConcatProperties
  <2>8. p.root = root /\ p.storage_proofs = PathsOf(root, all) BY <2>5, <2>6 DEF Data
  <2>9. /\ Len(keys) \in Nat /\ Len(more) \in Nat
        /\ DOMAIN keys = 1 .. Len(keys) /\ DOMAIN all = 1 .. Len(keys) + Len(more)
    BY <2>4, <2>7
  <2>10. \A i \in 1 .. Len(keys) + Len(more) :
            p.storage_proofs[i] = ProofPath(root, all[i])
    BY <2>8, <2>9 DEF PathsOf
  <2>11. \A i \in DOMAIN keys : p.storage_proofs[i] = ProofPath(root, keys[i])
    <3>1. \A i \in 1 .. Len(keys) : i \in 1 .. Len(keys) + Len(more) /\ i <= Len(keys)
      BY <2>9
    <3> QED BY <2>7, <2>9, <2>10, <3>1
  <2>12. DOMAIN format_commitment_facts(p.storage_proofs) = NodesOf(p.storage_proofs)
    BY DEF format_commitment_facts, NodesOf
  <2>13. DOMAIN p.storage_proofs = 1 .. Len(keys) + Len(more)
    BY <2>8, <2>9 DEF PathsOf
  <2>14. ASSUME NEW i \in 1 .. Len(keys) + Len(more), NEW x,
                x \in ToSet(ProofPath(root, all[i]))
         PROVE  x \in NodesOf(p.storage_proofs)
    BY <2>10, <2>13, <2>14 DEF NodesOf
  <2>15. ASSUME NEW i \in DOMAIN keys, NEW e \in ToSet(p.storage_proofs[i]),
                e.kind = "edge", IsInner(e.bottom)
         PROVE  e.bottom \in NodesOf(p.storage_proofs)
    <3>1. i \in 1 .. Len(keys) /\ i \in 1 .. Len(keys) + Len(more) /\ all[i] = keys[i]
      BY <2>7, <2>9
    <3>2. e \in ToSet(ProofPath(root, keys[i])) BY <2>11, <2>15
    <3>3. \/ e.bottom \in ToSet(ProofPath(root, keys[i]))
          \/ \E j \in 1 .. Len(more) : e.bottom \in ToSet(ProofPath(root, more[j]))
      BY <1>1, <1>2, <2>3, <2>15, <3>1, <3>2, GapsAreFilled
    <3>4. CASE e.bottom \in ToSet(ProofPath(root, keys[i]))
      BY <2>14, <3>1, <3>4
    <3>5. CASE \E j \in 1 .. Len(more) : e.bottom \in ToSet(ProofPath(root, more[j]))
      <4>1. PICK j \in 1 .. Len(more) : e.bottom \in ToSet(ProofPath(root, more[j]))
        BY <3>5
      <4>2. PICK n \in 1 .. Len(keys) + Len(more) : n = Len(keys) + j
        <5>1. Len(keys) + j \in 1 .. Len(keys) + Len(more) BY <2>9
        <5> QED BY <5>1
      <4>3. all[n] = more[j]
        <5>1. ~(n <= Len(keys)) /\ n - Len(keys) = j BY <2>9, <4>2
        <5> QED BY <2>7, <4>2, <5>1
      <4> QED BY <2>14, <4>1, <4>2, <4>3
    <3> QED BY <3>3, <3>4, <3>5
  <2> QED BY <2>8, <2>11, <2>12, <2>15
<1> QED BY <1>3, <1>4

(***************************************************************************)
(* get_storage_proof_for_contract: for any number of keys, chunks of any   *)
(* size and trees of any height, the proofs at both blocks stay with their *)
(* keys, and the nodes fetched for a contract contain the bottom of every  *)
(* edge on the way to one of its keys.                                     *)
(***************************************************************************)
THEOREM ProofsAlwaysFollowKeys == Spec => []ProofsFollowKeys
<1>1. InputsInv /\ FetchedInv => ProofsFollowKeys
  <2> SUFFICES ASSUME InputsInv, FetchedInv, NEW p \in {proof, previous_proof}, p.some
               PROVE  /\ \A i \in DOMAIN keys :
                            p.storage_proofs[i] = ProofPath(p.root, keys[i])
                      /\ mode = "State" =>
                            \A i \in DOMAIN keys : \A e \in ToSet(p.storage_proofs[i]) :
                               e.kind = "edge" /\ IsInner(e.bottom) =>
                                  e.bottom \in DOMAIN format_commitment_facts(p.storage_proofs)
    BY DEF ProofsFollowKeys
  <2>1. p # NoContractData BY DEF NoContractData
  <2>2. updated \in Tree BY UnifyType DEF InputsInv, updated
  <2>3. p = TreeProof(updated, exists) \/ p = TreeProof(previous, deployed)
    BY <2>1 DEF FetchedInv
  <2>4. previous \in Tree /\ deployed \in BOOLEAN /\ exists \in BOOLEAN BY DEF InputsInv
  <2>5. CASE p = TreeProof(updated, exists) BY <2>2, <2>4, <2>5, TreeProofFollows
  <2>6. CASE p = TreeProof(previous, deployed) BY <2>4, <2>6, TreeProofFollows
  <2> QED BY <2>3, <2>5, <2>6
<1> QED BY <1>1, SpecInputs, PTL

-----------------------------------------------------------------------------
(* Leaves, modifications and nodes at a place: height and position.        *)

\* The leaves of L under a place, and whether they part there.
Und(L, h, i) == {leaf \in L : Anc(leaf, h) = i}
Parts(L, h, i) == Und(L, h - 1, 2 * i) # {} /\ Und(L, h - 1, 2 * i + 1) # {}

\* Whether a modified leaf is under a place.
Mod(mods, h, i) == \E m \in DOMAIN mods : Anc(m, h) = i

\* Parents and children of places on the way to a leaf.
LEMMA AncUp ==
  ASSUME NEW leaf \in Nat, NEW h \in Nat, NEW i \in Nat
  PROVE  /\ Anc(leaf, h) \div 2 = Anc(leaf, h + 1)
         /\ Anc(leaf, h + 1) = i <=> Anc(leaf, h) = 2 * i \/ Anc(leaf, h) = 2 * i + 1
<1>1. PICK a \in Nat : a = Anc(leaf, h) BY AncType
<1>2. PICK b \in Nat : b = Anc(leaf, h + 1) BY AncType
<1>3. PICK c \in {0, 1} : a = 2 * b + c BY <1>1, <1>2, AncChild
<1>4. a \div 2 = b BY <1>3
<1>5. b = i <=> a = 2 * i \/ a = 2 * i + 1 BY <1>3
<1> QED BY <1>1, <1>2, <1>4, <1>5

LEMMA UndChild ==
  ASSUME NEW L, L \subseteq Index, NEW h \in Nat, NEW i \in Nat
  PROVE  /\ Und(L, h + 1, i) = Und(L, h, 2 * i) \cup Und(L, h, 2 * i + 1)
         /\ Und(L, h, 2 * i) \cap Und(L, h, 2 * i + 1) = {}
<1>1. L \subseteq Nat
  <2>1. Index \subseteq Nat BY NodesAssumption, PositionsNat DEF Index
  <2> QED BY <2>1
<1>2. \A leaf \in L : Anc(leaf, h + 1) = i <=>
                      Anc(leaf, h) = 2 * i \/ Anc(leaf, h) = 2 * i + 1
  BY <1>1, AncUp
<1>3. 2 * i # 2 * i + 1 OBVIOUS
<1> QED BY <1>2, <1>3 DEF Und

\* A node is empty where there are no leaves.
LEMMA EmptyIff ==
  ASSUME NEW tree \in Tree
  PROVE  \A h \in 0 .. Height : \A i \in Positions(Height - h) :
            is_empty(RNode(tree, h, i)) <=>
            \A leaf \in Index : Anc(leaf, h) = i => tree[leaf] = 0
<1> USE NodesAssumption
<1> DEFINE Good(h) == \A i \in Positions(Height - h) :
                         is_empty(RNode(tree, h, i)) <=>
                         \A leaf \in Index : Anc(leaf, h) = i => tree[leaf] = 0
           S == {h \in Nat : h <= Height => Good(h)}
<1>1. 0 \in S
  <2>1. Positions(Height - 0) = Index BY DEF Index
  <2>2. ASSUME NEW i \in Index
        PROVE  is_empty(RNode(tree, 0, i)) <=>
               \A leaf \in Index : Anc(leaf, 0) = i => tree[leaf] = 0
    <3>1. \A leaf \in Index : Anc(leaf, 0) = leaf BY AncPosition
    <3>2. Ref(tree, 0, i) = ReferenceLeaf(tree[i]) BY RefDef
    <3>3. RNode(tree, 0, i) = from_hash(LeafFact(tree[i]), 0)
      BY <3>2 DEF RNode, ReferenceLeaf, Subtree
    <3>4. is_empty(RNode(tree, 0, i)) <=> tree[i] = 0
      BY <3>3 DEF is_empty, from_hash, VirtualNode, LeafFact, EMPTY_NODE_HASH
    <3> QED BY <3>1, <3>4
  <2> QED BY <2>1, <2>2
<1>2. ASSUME NEW h \in Nat, h \in S PROVE h + 1 \in S
  <2> SUFFICES ASSUME h + 1 <= Height, NEW i \in Positions(Height - (h + 1))
               PROVE  is_empty(RNode(tree, h + 1, i)) <=>
                      \A leaf \in Index : Anc(leaf, h + 1) = i => tree[leaf] = 0
    OBVIOUS
  <2>1. PICK m \in Nat : m = Height - (h + 1) /\ Height - h = m + 1 OBVIOUS
  <2>2. i \in Nat /\ 2 * i \in Positions(Height - h) /\ 2 * i + 1 \in Positions(Height - h)
    BY <2>1, ChildPositions, PositionsNat
  <2>3. Good(h) BY <1>2
  <2>4. PICK n, l, r : /\ n = RNode(tree, h + 1, i) /\ l = RNode(tree, h, 2 * i)
                       /\ r = RNode(tree, h, 2 * i + 1)
    OBVIOUS
  <2>5. is_empty(n) <=> is_empty(l) /\ is_empty(r)
    <3>1. PICK s, t : s = Ref(tree, h, 2 * i) /\ t = Ref(tree, h, 2 * i + 1) OBVIOUS
    <3>2. SubtreeOK(s, h) /\ SubtreeOK(t, h)
      <4>1. h \in 0 .. Height OBVIOUS
      <4> QED BY <2>2, <3>1, <4>1, RefOK
    <3>3. Ref(tree, h + 1, i) = ReferenceNode(s, t) BY <3>1, RefDef
    <3>4. n = ReferenceNode(s, t).node /\ l = s.node /\ r = t.node
      BY <2>4, <3>1, <3>3 DEF RNode
    <3> QED BY <3>2, <3>4, ReferenceNodeNotEmpty
  <2>6. \A leaf \in Index : Anc(leaf, h + 1) = i <=>
                            Anc(leaf, h) = 2 * i \/ Anc(leaf, h) = 2 * i + 1
    <3>1. Index \subseteq Nat BY PositionsNat DEF Index
    <3> QED BY <2>2, <3>1, AncUp
  <2>7. /\ is_empty(l) <=> \A leaf \in Index : Anc(leaf, h) = 2 * i => tree[leaf] = 0
        /\ is_empty(r) <=> \A leaf \in Index : Anc(leaf, h) = 2 * i + 1 => tree[leaf] = 0
    BY <2>2, <2>3, <2>4
  <2> QED BY <2>4, <2>5, <2>6, <2>7
<1>3. \A h \in Nat : h \in S
  <2> HIDE DEF S
  <2> QED BY <1>1, <1>2, NatSetInduction
<1> QED BY <1>3

\* The update tree has a node where a modified leaf is below.
LEMMA ModIff ==
  ASSUME NEW mods, IsMods(mods)
  PROVE  \A h \in Nat : \A i : i \in DOMAIN UpdateLayers(mods)[h] <=> Mod(mods, h, i)
<1> USE NodesAssumption
<1> DEFINE D(h) == DOMAIN UpdateLayers(mods)[h]
           S == {h \in Nat : \A i : i \in D(h) <=> Mod(mods, h, i)}
<1>0. DOMAIN mods \subseteq Index /\ Index \subseteq Nat
  BY PositionsNat DEF IsMods, Index
<1>1. 0 \in S
  <2>1. D(0) = DOMAIN mods BY UpdateLayersDef
  <2>2. \A m \in Index : Anc(m, 0) = m BY AncPosition
  <2> QED BY <1>0, <2>1, <2>2 DEF Mod
<1>2. ASSUME NEW h \in Nat, h \in S PROVE h + 1 \in S
  <2>1. D(h + 1) = {k \div 2 : k \in D(h)} BY UpdateParents
  <2>2. \A m \in DOMAIN mods : Anc(m, h) \div 2 = Anc(m, h + 1) BY <1>0, AncUp
  <2>3. \A i : i \in D(h) <=> Mod(mods, h, i) BY <1>2
  <2> HIDE DEF D
  <2>4. D(h) = {Anc(m, h) : m \in DOMAIN mods} BY <2>3 DEF Mod
  <2>5. \A i : i \in D(h + 1) <=> Mod(mods, h + 1, i) BY <2>1, <2>2, <2>4 DEF Mod
  <2> QED BY <2>5
<1>3. \A h \in Nat : h \in S
  <2> HIDE DEF S
  <2> QED BY <1>1, <1>2, NatSetInduction
<1> QED BY <1>3
-----------------------------------------------------------------------------
(* Edges.                                                                  *)

LEMMA ModDouble ==
  ASSUME NEW q \in Nat, NEW j \in Nat
  PROVE  q % Pow2[j + 1] = 2 * ((q \div 2) % Pow2[j]) + (q % 2)
<1>1. PICK q2 \in Nat, c \in {0, 1} : q = 2 * q2 + c /\ q \div 2 = q2 /\ q % 2 = c
  OBVIOUS
<1>2. PICK x \in Nat, y \in Positions(j) :
         y = q2 % Pow2[j] /\ q2 = x * Pow2[j] + y
  BY AncType
<1>3. PICK t \in Nat \ {0} : t = Pow2[j] /\ Pow2[j + 1] = 2 * t BY Pow2Def, Pow2Type
<1>4. y \in 0 .. (t - 1) BY <1>2, <1>3 DEF Positions
<1>5. 2 * y + c \in Positions(j + 1) BY <1>3, <1>4 DEF Positions
<1>6. q = x * Pow2[j + 1] + (2 * y + c)
  <2>1. q2 = x * t + y BY <1>2, <1>3
  <2>2. x * (2 * t) = 2 * (x * t) BY <1>3
  <2>3. x * t \in Nat BY <1>3
  <2> QED BY <1>1, <1>3, <1>4, <2>1, <2>2, <2>3
<1>7. q % Pow2[j + 1] = 2 * y + c BY <1>5, <1>6, AncUnique
<1> QED BY <1>1, <1>2, <1>7

LEMMA EmptyIs ==
  ASSUME NEW n, NEW h, NodeOK(n, h), is_empty(n)
  PROVE  n = empty_node(h)
<1>1. n.bottom = EMPTY_NODE_HASH BY DEF is_empty
<1>2. EMPTY_NODE_HASH.kind = "empty" BY DEF EMPTY_NODE_HASH
<1>3. n.length = 0 /\ n.path = 0 BY <1>1, <1>2 DEF NodeOK
<1>4. n = VirtualNode(EMPTY_NODE_HASH, 0, 0, h) BY <1>1, <1>3 DEF NodeOK
<1> QED BY <1>4 DEF empty_node, from_hash

LEMMA EmptyIsEmpty ==
  ASSUME NEW h
  PROVE  is_empty(empty_node(h))
BY DEF is_empty, empty_node, from_hash, VirtualNode

\* Below an empty node there are empty nodes.
LEMMA EmptyBelow ==
  ASSUME NEW tree \in Tree, NEW h \in Nat, h < Height,
         NEW p \in Positions(Height - (h + 1)), is_empty(RNode(tree, h + 1, p))
  PROVE  /\ RNode(tree, h, 2 * p) = empty_node(h)
         /\ RNode(tree, h, 2 * p + 1) = empty_node(h)
<1> USE NodesAssumption
<1>1. PICK m \in Nat : m = Height - (h + 1) /\ Height - h = m + 1 OBVIOUS
<1>2. 2 * p \in Positions(Height - h) /\ 2 * p + 1 \in Positions(Height - h)
  BY <1>1, ChildPositions
<1>3. PICK s, t : s = Ref(tree, h, 2 * p) /\ t = Ref(tree, h, 2 * p + 1) OBVIOUS
<1>4. SubtreeOK(s, h) /\ SubtreeOK(t, h)
  <2>1. h \in 0 .. Height OBVIOUS
  <2> QED BY <1>2, <1>3, <2>1, RefOK
<1>5. RNode(tree, h + 1, p) = ReferenceNode(s, t).node BY <1>3, RefDef DEF RNode
<1>6. is_empty(s.node) /\ is_empty(t.node) BY <1>4, <1>5, ReferenceNodeNotEmpty
<1> QED BY <1>3, <1>4, <1>6, EmptyIs DEF RNode, SubtreeOK

\* The nodes below an edge: what is left of it along its path, nothing beside.
LEMMA EdgeAlong ==
  ASSUME NEW tree \in Tree, NEW g \in 0 .. Height, NEW p \in Positions(Height - g),
         NEW e, e = RNode(tree, g, p)
  PROVE  \A j \in 0 .. e.length : \A q \in Positions(Height - (g - j)) :
            Anc(q, j) = p =>
            IF q % Pow2[j] = Anc(e.path, e.length - j)
            THEN RNode(tree, g - j, q) =
                 VirtualNode(e.bottom, e.path % Pow2[e.length - j], e.length - j, g - j)
            ELSE RNode(tree, g - j, q) = empty_node(g - j)
<1> USE NodesAssumption
<1>0. NodeOK(e, g) BY RNodeOK
<1>1. PICK n \in Nat : n = e.length /\ n <= g BY <1>0 DEF NodeOK
<1>2. PICK w \in Positions(n) : w = e.path BY <1>0, <1>1 DEF NodeOK
<1>3. w \in Nat BY PositionsNat
<1> DEFINE Good(j) == \A q \in Positions(Height - (g - j)) :
                         Anc(q, j) = p =>
                         IF q % Pow2[j] = Anc(w, n - j)
                         THEN RNode(tree, g - j, q) =
                              VirtualNode(e.bottom, w % Pow2[n - j], n - j, g - j)
                         ELSE RNode(tree, g - j, q) = empty_node(g - j)
           S == {j \in Nat : j <= n => Good(j)}
<1>4. 0 \in S
  <2> SUFFICES ASSUME NEW q \in Positions(Height - g), Anc(q, 0) = p
               PROVE  /\ q % Pow2[0] = Anc(w, n)
                      /\ RNode(tree, g, q) = VirtualNode(e.bottom, w % Pow2[n], n, g)
    OBVIOUS
  <2>1. q \in Nat BY PositionsNat
  <2>2. Pow2[0] = 1 BY Pow2Def
  <2>3. q % Pow2[0] = 0 /\ Anc(q, 0) = q BY <2>1, <2>2 DEF Anc
  <2>4. w = 0 * Pow2[n] + w
    <3>1. Pow2[n] \in Nat BY Pow2Type
    <3> QED BY <1>3, <3>1
  <2>5. Anc(w, n) = 0 /\ w % Pow2[n] = w BY <1>3, <2>4, AncUnique
  <2> QED BY <1>0, <1>1, <1>2, <2>3, <2>5 DEF NodeOK
<1>5. ASSUME NEW j \in Nat, j \in S PROVE j + 1 \in S
  <2> SUFFICES ASSUME j + 1 <= n, NEW q \in Positions(Height - (g - (j + 1))),
                      Anc(q, j + 1) = p
               PROVE  IF q % Pow2[j + 1] = Anc(w, n - (j + 1))
                      THEN RNode(tree, g - (j + 1), q) =
                           VirtualNode(e.bottom, w % Pow2[n - (j + 1)], n - (j + 1),
                                       g - (j + 1))
                      ELSE RNode(tree, g - (j + 1), q) = empty_node(g - (j + 1))
    OBVIOUS
  <2>1. PICK h \in Nat : h = g - (j + 1) /\ h + 1 = g - j /\ h < Height
    BY <1>1
  <2>2. PICK k \in Nat : k = n - (j + 1) /\ k + 1 = n - j BY <1>1
  <2>3. PICK d \in Nat : d = Height - (h + 1) /\ Height - h = d + 1 BY <2>1
  <2>4. q \in Positions(d + 1) /\ q \in Nat BY <2>1, <2>3, PositionsNat
  <2>5. PICK q2 \in Nat, c \in {0, 1} : q = 2 * q2 + c /\ q \div 2 = q2 /\ q % 2 = c
    BY <2>4
  <2>6. q2 \in Positions(Height - (h + 1)) BY <2>3, <2>4, <2>5, ParentPosition
  <2>7. Anc(q2, j) = p
    <3>1. Anc(q, 1) = q2
      <4>1. Pow2[1] = 2 BY Pow2Def
      <4> QED BY <2>5, <4>1 DEF Anc
    <3>2. Anc(Anc(q, 1), j) = Anc(q, 1 + j) BY <2>4, AncAnc
    <3> QED BY <3>1, <3>2
  <2>8. IF q2 % Pow2[j] = Anc(w, k + 1)
        THEN RNode(tree, h + 1, q2) =
             VirtualNode(e.bottom, w % Pow2[k + 1], k + 1, h + 1)
        ELSE RNode(tree, h + 1, q2) = empty_node(h + 1)
    <3>1. Good(j) BY <1>5
    <3> QED BY <2>1, <2>2, <2>6, <2>7, <3>1
  <2>9. PICK y \in Nat : y = q2 % Pow2[j] BY <2>5, AncType, PositionsNat
  <2>10. q % Pow2[j + 1] = 2 * y + c BY <2>4, <2>5, <2>9, ModDouble
  <2>11. PICK a \in Nat, v \in Positions(k + 1) :
            a = Anc(w, k + 1) /\ v = w % Pow2[k + 1] /\ w = a * Pow2[k + 1] + v
    <3>0. PICK k1 \in Nat : k1 = k + 1 OBVIOUS
    <3>1. /\ Anc(w, k1) \in Nat /\ w % Pow2[k1] \in Positions(k1)
          /\ w = Anc(w, k1) * Pow2[k1] + (w % Pow2[k1])
      BY <1>3, AncType
    <3> QED BY <3>0, <3>1
  <2>12. PICK a2 \in Nat, b2 \in {0, 1} : a2 = Anc(w, k) /\ a2 = 2 * a + b2
    <3>1. Anc(w, k) \in Nat BY <1>3, AncType
    <3> QED BY <1>3, <2>11, <3>1, AncChild
  <2>13. CASE y = a
    <3>1. PICK m : m = RNode(tree, h + 1, q2) OBVIOUS
    <3>2. m = VirtualNode(e.bottom, v, k + 1, h + 1) BY <2>8, <2>9, <2>11, <2>13, <3>1
    <3>3. m.length = k + 1 /\ m.path = v /\ m.bottom = e.bottom BY <3>2 DEF VirtualNode
    <3>4. PICK bit \in {0, 1} :
             /\ RNode(tree, h, 2 * q2 + bit) =
                   VirtualNode(m.bottom, m.path - bit * Pow2[k], k, h)
             /\ RNode(tree, h, 2 * q2 + (1 - bit)) = empty_node(h)
             /\ m.path - bit * Pow2[k] \in Positions(k)
      BY <2>1, <2>6, <3>1, <3>3, EdgeStep
    <3>5. PICK r \in Positions(k) : r = v - bit * Pow2[k] BY <3>3, <3>4
    <3>6. w = (2 * a + bit) * Pow2[k] + r
      <4>1. PICK t \in Nat \ {0} : t = Pow2[k] /\ Pow2[k + 1] = 2 * t
        BY Pow2Def, Pow2Type
      <4>2. v \in Nat /\ r \in Nat BY PositionsNat
      <4>3. v = bit * t + r BY <3>5, <4>1, <4>2
      <4>4. w = a * (2 * t) + v BY <2>11, <4>1
      <4>5. (2 * a + bit) * t = a * (2 * t) + bit * t BY <4>1
      <4> QED BY <4>1, <4>2, <4>3, <4>4, <4>5
    <3>7. Anc(w, k) = 2 * a + bit /\ w % Pow2[k] = r BY <1>3, <3>6, AncUnique
    <3>8. CASE c = bit
      BY <2>1, <2>2, <2>5, <2>10, <2>13, <3>3, <3>4, <3>5, <3>7, <3>8
    <3>9. CASE c = 1 - bit
      <4>1. q % Pow2[j + 1] # Anc(w, k) BY <2>10, <2>13, <3>7, <3>9
      <4> QED BY <2>1, <2>2, <2>5, <3>4, <3>9, <4>1
    <3> QED BY <3>8, <3>9
  <2>14. CASE y # a
    <3>1. RNode(tree, h + 1, q2) = empty_node(h + 1) BY <2>8, <2>9, <2>11, <2>14
    <3>2. is_empty(RNode(tree, h + 1, q2))
      BY <3>1, EmptyIsEmpty
    <3>3. RNode(tree, h, q) = empty_node(h) BY <2>1, <2>5, <2>6, <3>2, EmptyBelow
    <3>4. q % Pow2[j + 1] # Anc(w, k) BY <2>10, <2>12, <2>14
    <3> QED BY <2>1, <2>2, <3>3, <3>4
  <2> QED BY <2>13, <2>14
<1>6. \A j \in Nat : j \in S
  <2> HIDE DEF S
  <2> QED BY <1>4, <1>5, NatSetInduction
<1>7. ASSUME NEW j \in 0 .. e.length PROVE Good(j) BY <1>1, <1>6
<1> QED BY <1>1, <1>2, <1>7

\* On the way to a leaf: the nodes along an edge that leads to it.
LEMMA KeyBelow ==
  ASSUME NEW tree \in Tree, NEW key \in Index, NEW g \in 0 .. Height, NEW j \in 0 .. g,
         NEW e, e = RNode(tree, g, Anc(key, g)), j <= e.length,
         ~is_empty(RNode(tree, g - j, Anc(key, g - j)))
  PROVE  /\ Anc(key, g - j) % Pow2[j] = Anc(e.path, e.length - j)
         /\ RNode(tree, g - j, Anc(key, g - j)) =
            VirtualNode(e.bottom, e.path % Pow2[e.length - j], e.length - j, g - j)
<1> USE NodesAssumption
<1>1. key \in Nat /\ Anc(key, g) \in Positions(Height - g) BY AncPosition
<1>2. PICK h \in Nat : h = g - j /\ h \in 0 .. Height /\ h + j = g OBVIOUS
<1>3. PICK q : q = Anc(key, h) OBVIOUS
<1>4. q \in Positions(Height - h) BY <1>2, <1>3, AncPosition
<1>5. Anc(q, j) = Anc(key, g) BY <1>1, <1>2, <1>3, AncAnc
<1>6. NodeOK(e, g) BY <1>1, RNodeOK
<1>7. j \in 0 .. e.length BY <1>6 DEF NodeOK
<1>8. IF q % Pow2[j] = Anc(e.path, e.length - j)
      THEN RNode(tree, g - j, q) =
           VirtualNode(e.bottom, e.path % Pow2[e.length - j], e.length - j, g - j)
      ELSE RNode(tree, g - j, q) = empty_node(g - j)
  BY <1>1, <1>2, <1>4, <1>5, <1>7, EdgeAlong
<1>9. RNode(tree, g - j, q) # empty_node(g - j) BY <1>2, <1>3, EmptyIsEmpty
<1> QED BY <1>2, <1>3, <1>8, <1>9

LEMMA NotEmptyUp ==
  ASSUME NEW tree \in Tree, NEW key \in Index, NEW h \in Nat, h < Height,
         ~is_empty(RNode(tree, h, Anc(key, h)))
  PROVE  ~is_empty(RNode(tree, h + 1, Anc(key, h + 1)))
<1> USE NodesAssumption
<1>1. PICK p : p = Anc(key, h + 1) OBVIOUS
<1>2. h + 1 \in 0 .. Height OBVIOUS
<1>3. key \in Nat /\ p \in Positions(Height - (h + 1)) BY <1>1, <1>2, AncPosition
<1>4. p \in Nat
  <2>1. Height - (h + 1) \in Nat OBVIOUS
  <2> QED BY <1>3, <2>1, PositionsNat
<1>5. Anc(key, h) = 2 * p \/ Anc(key, h) = 2 * p + 1 BY <1>1, <1>3, <1>4, AncUp
<1> SUFFICES ASSUME is_empty(RNode(tree, h + 1, p)) PROVE FALSE BY <1>1
<1>6. RNode(tree, h, Anc(key, h)) = empty_node(h) BY <1>3, <1>5, EmptyBelow
<1> QED BY <1>6, EmptyIsEmpty

\* A state of the endpoint that is at the node at height h on the way to a leaf,
\* or at the top of the edge this node is on.
LeadsTo(tree, key, s, k, h) ==
    \E g \in h .. Height :
       /\ s.height = g /\ s.hash = RHash(tree, g, key) /\ k + g <= Height
       /\ \/ g = h
          \/ /\ g > h
             /\ RNode(tree, g, Anc(key, g)).length > g - h
             /\ RNode(tree, h, Anc(key, h)).length =
                   RNode(tree, g, Anc(key, g)).length - (g - h)
             /\ RNode(tree, h, Anc(key, h)).bottom = RNode(tree, g, Anc(key, g)).bottom

\* A node without length that is not a leaf is binary.
LEMMA BinaryKind ==
  ASSUME NEW tree \in Tree, NEW h \in Nat, h < Height,
         NEW p \in Positions(Height - (h + 1)), NEW n, n = RNode(tree, h + 1, p),
         ~is_empty(n), n.length = 0
  PROVE  /\ n = from_hash(BinaryNodeFact(hash_node(RNode(tree, h, 2 * p)),
                                         hash_node(RNode(tree, h, 2 * p + 1))), h + 1)
         /\ hash_node(n) = BinaryNodeFact(hash_node(RNode(tree, h, 2 * p)),
                                          hash_node(RNode(tree, h, 2 * p + 1)))
         /\ ~is_empty(RNode(tree, h, 2 * p)) /\ ~is_empty(RNode(tree, h, 2 * p + 1))
<1>1. PICK l, r : l = RNode(tree, h, 2 * p) /\ r = RNode(tree, h, 2 * p + 1) OBVIOUS
<1>2. /\ NodeOK(n, h + 1) /\ NodeOK(l, h) /\ NodeOK(r, h)
      /\ \/ is_empty(l) /\ is_empty(r) /\ n = empty_node(h + 1)
         \/ /\ is_empty(l) /\ ~is_empty(r)
            /\ n = VirtualNode(r.bottom, r.path + Pow2[r.length], r.length + 1, h + 1)
         \/ /\ ~is_empty(l) /\ is_empty(r)
            /\ n = VirtualNode(l.bottom, l.path, l.length + 1, h + 1)
         \/ /\ ~is_empty(l) /\ ~is_empty(r)
            /\ n = from_hash(BinaryNodeFact(hash_node(l), hash_node(r)), h + 1)
  BY <1>1, RefCases
<1>3. ~(is_empty(l) /\ is_empty(r) /\ n = empty_node(h + 1)) BY EmptyIsEmpty
<1>4. l.length \in Nat /\ r.length \in Nat BY <1>2 DEF NodeOK
<1>5. n # VirtualNode(r.bottom, r.path + Pow2[r.length], r.length + 1, h + 1)
  BY <1>4 DEF VirtualNode
<1>6. n # VirtualNode(l.bottom, l.path, l.length + 1, h + 1) BY <1>4 DEF VirtualNode
<1>7. /\ ~is_empty(l) /\ ~is_empty(r)
      /\ n = from_hash(BinaryNodeFact(hash_node(l), hash_node(r)), h + 1)
  BY <1>2, <1>3, <1>5, <1>6
<1>8. hash_node(n) = BinaryNodeFact(hash_node(l), hash_node(r))
  BY <1>7 DEF hash_node, from_hash, VirtualNode
<1> QED BY <1>1, <1>7, <1>8

LEMMA AllLead ==
  ASSUME NEW tree \in Tree, NEW key \in Index, NEW f,
         f = ProofSteps(ReferenceRoot(tree), key)
  PROVE  \A h \in 0 .. Height : ~is_empty(RNode(tree, h, Anc(key, h))) =>
            \E k \in Nat : LeadsTo(tree, key, f[k], k, h)
<1> USE NodesAssumption
<1> DEFINE Good(h) == ~is_empty(RNode(tree, h, Anc(key, h))) =>
                         \E k \in Nat : LeadsTo(tree, key, f[k], k, h)
           S == {d \in Nat : d <= Height => Good(Height - d)}
<1>1. 0 \in S
  <2>1. f[0] = [hash |-> ReferenceRoot(tree), height |-> Height, nodes |-> <<>>]
    BY StepsOf
  <2>2. ReferenceRoot(tree) = RHash(tree, Height, key) BY RootHash
  <2>3. Height \in Height .. Height /\ 0 + Height <= Height OBVIOUS
  <2>4. LeadsTo(tree, key, f[0], 0, Height) BY <2>1, <2>2, <2>3 DEF LeadsTo
  <2> HIDE DEF Good
  <2>5. Good(Height - 0) BY <2>4 DEF Good
  <2> QED BY <2>5
<1>2. ASSUME NEW d \in Nat, d \in S PROVE d + 1 \in S
  <2> SUFFICES ASSUME d + 1 <= Height, ~is_empty(RNode(tree, Height - (d + 1),
                                                       Anc(key, Height - (d + 1))))
               PROVE  \E k \in Nat : LeadsTo(tree, key, f[k], k, Height - (d + 1))
    OBVIOUS
  <2>1. PICK h \in Nat : h = Height - (d + 1) /\ h + 1 = Height - d /\ h < Height
    OBVIOUS
  <2>2. ~is_empty(RNode(tree, h, Anc(key, h))) BY <2>1
  <2>3. ~is_empty(RNode(tree, h + 1, Anc(key, h + 1))) BY <2>1, <2>2, NotEmptyUp
  <2>4. PICK k \in Nat : LeadsTo(tree, key, f[k], k, h + 1)
    <3>1. Good(h + 1) BY <1>2, <2>1
    <3> QED BY <2>3, <3>1
  <2>5. PICK g \in (h + 1) .. Height :
          /\ f[k].height = g /\ f[k].hash = RHash(tree, g, key) /\ k + g <= Height
          /\ \/ g = h + 1
             \/ /\ g > h + 1
                /\ RNode(tree, g, Anc(key, g)).length > g - (h + 1)
                /\ RNode(tree, h + 1, Anc(key, h + 1)).length =
                      RNode(tree, g, Anc(key, g)).length - (g - (h + 1))
                /\ RNode(tree, h + 1, Anc(key, h + 1)).bottom =
                      RNode(tree, g, Anc(key, g)).bottom
    BY <2>4 DEF LeadsTo
  <2>6. PICK n, m, e : /\ n = RNode(tree, h, Anc(key, h))
                       /\ m = RNode(tree, h + 1, Anc(key, h + 1))
                       /\ e = RNode(tree, g, Anc(key, g))
    OBVIOUS
  <2>7. NodeOK(n, h) /\ NodeOK(m, h + 1) /\ NodeOK(e, g)
    <3>1. h \in 0 .. Height /\ h + 1 \in 0 .. Height /\ g \in 0 .. Height BY <2>1, <2>5
    <3>2. /\ Anc(key, h) \in Positions(Height - h)
          /\ Anc(key, h + 1) \in Positions(Height - (h + 1))
          /\ Anc(key, g) \in Positions(Height - g)
      BY <3>1, AncPosition
    <3> QED BY <2>6, <3>1, <3>2, RNodeOK
  <2>8. /\ n.length \in Nat /\ m.length \in Nat /\ e.length \in Nat
        /\ e.length <= g
    BY <2>7 DEF NodeOK
  <2>9. m.length = e.length - (g - (h + 1)) /\ (g > h + 1 => m.length > 0)
    BY <2>5, <2>6, <2>8
  <2>10. OnPath(tree, key, f[k], k) BY AllOnPath
  <2>11. f[k + 1] = ProofStep(f[k], key) BY StepsOf
  <2>12. CASE m.length >= 2
    <3>1. /\ g > h /\ e.length > g - h BY <2>5, <2>8, <2>9, <2>12
    <3>2. PICK j \in 0 .. g : j = g - h /\ j <= e.length /\ g - j = h
      BY <2>5, <2>8, <3>1
    <3>3. n = VirtualNode(e.bottom, e.path % Pow2[e.length - j], e.length - j, h)
      <4>1. g \in 0 .. Height BY <2>5
      <4>2. ~is_empty(RNode(tree, g - j, Anc(key, g - j))) BY <2>2, <3>2
      <4>3. RNode(tree, g - j, Anc(key, g - j)) =
            VirtualNode(e.bottom, e.path % Pow2[e.length - j], e.length - j, g - j)
        BY <2>6, <3>2, <4>1, <4>2, KeyBelow
      <4> QED BY <2>6, <3>2, <4>3
    <3>4. n.length = e.length - (g - h) /\ n.bottom = e.bottom
      BY <3>2, <3>3 DEF VirtualNode
    <3>5. g \in h .. Height BY <2>5
    <3>6. LeadsTo(tree, key, f[k], k, h) BY <2>5, <2>6, <3>1, <3>4, <3>5 DEF LeadsTo
    <3> QED BY <2>1, <3>6
  <2>13. CASE m.length = 1
    <3>1. e.length = g - h BY <2>5, <2>8, <2>9, <2>13
    <3>2. PICK j \in 0 .. g : j = g - h /\ j <= e.length /\ g - j = h
      BY <2>5, <2>8, <3>1
    <3>3. /\ Anc(key, h) % Pow2[j] = Anc(e.path, 0)
          /\ n = VirtualNode(e.bottom, e.path % Pow2[0], 0, h)
      <4>1. g \in 0 .. Height BY <2>5
      <4>2. ~is_empty(RNode(tree, g - j, Anc(key, g - j))) BY <2>2, <3>2
      <4>3. /\ Anc(key, g - j) % Pow2[j] = Anc(e.path, e.length - j)
            /\ RNode(tree, g - j, Anc(key, g - j)) =
               VirtualNode(e.bottom, e.path % Pow2[e.length - j], e.length - j, g - j)
        BY <2>6, <3>2, <4>1, <4>2, KeyBelow
      <4>4. e.length - j = 0 BY <3>1, <3>2
      <4> QED BY <2>6, <3>2, <4>3, <4>4
    <3>4. e.length # 0 BY <2>5, <2>8, <3>1
    <3>5. f[k].hash = EdgeNodeFact(e.bottom, e.path, e.length)
      BY <2>5, <2>6, <3>4 DEF RHash, hash_node
    <3>6. PICK x : /\ x = f[k].hash /\ x.kind = "edge" /\ x.length = e.length
                   /\ x.path = e.path /\ x.bottom = e.bottom
      BY <3>5 DEF EdgeNodeFact
    <3>7. Follows(x, g, key)
      <4>1. e.path \in Nat BY <2>7, <2>8, PositionsNat DEF NodeOK
      <4>2. Anc(e.path, 0) = e.path
        <5>1. Pow2[0] = 1 BY Pow2Def
        <5> QED BY <4>1, <5>1 DEF Anc
      <4>3. Anc(key, h) % Pow2[e.length] = e.path BY <3>1, <3>2, <3>3, <4>2
      <4>4. g - x.length = h BY <2>5, <3>1, <3>6
      <4> QED BY <3>6, <4>3, <4>4 DEF Follows, Anc
    <3>8. ProofStep(f[k], key) = Further(f[k], x.bottom, g - x.length)
      BY <2>5, <3>6, <3>7, StepEdge
    <3>9. f[k + 1].hash = e.bottom /\ f[k + 1].height = h
      <4>1. g - x.length = h BY <2>5, <3>1, <3>6
      <4> QED BY <2>11, <3>6, <3>8, <4>1 DEF Further
    <3>10. RHash(tree, h, key) = e.bottom
      <4>1. n.length = 0 /\ n.bottom = e.bottom BY <3>3 DEF VirtualNode
      <4> QED BY <2>6, <4>1 DEF RHash, hash_node
    <3>11. (k + 1) + h <= Height /\ h \in h .. Height BY <2>1, <2>5
    <3>12. LeadsTo(tree, key, f[k + 1], k + 1, h)
      BY <3>9, <3>10, <3>11 DEF LeadsTo
    <3> QED BY <2>1, <3>12
  <2>14. CASE m.length = 0
    <3>1. g = h + 1 BY <2>5, <2>8, <2>9, <2>14
    <3>2. PICK p : p = Anc(key, h + 1) /\ p \in Positions(Height - (h + 1))
      <4>1. h + 1 \in 0 .. Height BY <2>1
      <4> QED BY <4>1, AncPosition
    <3>3. hash_node(m) = BinaryNodeFact(hash_node(RNode(tree, h, 2 * p)),
                                        hash_node(RNode(tree, h, 2 * p + 1)))
      BY <2>1, <2>3, <2>6, <2>14, <3>2, BinaryKind
    <3>4. f[k].hash.kind = "binary" BY <2>5, <2>6, <3>1, <3>3 DEF RHash, BinaryNodeFact
    <3>5. IsInner(f[k].hash) BY <3>4 DEF IsInner
    <3>6. PICK h2 \in Nat : /\ h2 < Height /\ f[k].height = h2 + 1
                            /\ NodeStep(tree, key, f[k], h2, ProofStep(f[k], key))
      BY <2>10, <3>5, InnerStep
    <3>7. h2 = h BY <2>5, <3>1, <3>6
    <3>8. f[k + 1] = Further(f[k], RHash(tree, h, key), h)
      BY <2>11, <3>4, <3>6, <3>7 DEF NodeStep
    <3>9. f[k + 1].hash = RHash(tree, h, key) /\ f[k + 1].height = h
      BY <3>8 DEF Further
    <3>10. (k + 1) + h <= Height /\ h \in h .. Height BY <2>1, <2>5, <3>1
    <3>11. LeadsTo(tree, key, f[k + 1], k + 1, h) BY <3>9, <3>10 DEF LeadsTo
    <3> QED BY <2>1, <3>11
  <2> QED BY <2>8, <2>12, <2>13, <2>14
<1>3. \A d \in Nat : d \in S
  <2> HIDE DEF S
  <2> QED BY <1>1, <1>2, NatSetInduction
<1>4. ASSUME NEW h \in 0 .. Height PROVE Good(h)
  <2>1. Height - h \in Nat /\ Height - h <= Height /\ Height - (Height - h) = h OBVIOUS
  <2>2. Good(Height - (Height - h)) BY <1>3, <2>1
  <2> HIDE DEF Good
  <2> QED BY <2>1, <2>2
<1> QED BY <1>4

-----------------------------------------------------------------------------
(* The preimage holds the nodes above a modified leaf that the hints open. *)

LEMMA AncHere ==
  ASSUME NEW key \in Index, NEW h \in 0 .. Height
  PROVE  /\ key \in Nat /\ h \in Nat
         /\ Anc(key, h) \in Positions(Height - h) /\ Anc(key, h) \in Nat
<1> USE NodesAssumption
<1>1. Height - h \in Nat OBVIOUS
<1>2. key \in Nat /\ Anc(key, h) \in Positions(Height - h) BY AncPosition
<1> QED BY <1>1, <1>2, PositionsNat

LEMMA InnerHash ==
  ASSUME NEW tree \in Tree, NEW h \in 1 .. Height, NEW i \in Positions(Height - h),
         NEW n, n = RNode(tree, h, i), ~is_empty(n)
  PROVE  /\ IsInner(hash_node(n))
         /\ n.length = 0 => n.bottom.kind = "binary" /\ hash_node(n) = n.bottom
         /\ n.length # 0 => hash_node(n) = EdgeNodeFact(n.bottom, n.path, n.length)
<1> USE NodesAssumption
<1>1. NodeOK(n, h) BY RNodeOK
<1>2. PICK g \in Nat : h = g + 1 /\ g < Height BY SMT
<1>3. CASE n.length = 0
  <2>1. hash_node(n) = BinaryNodeFact(hash_node(RNode(tree, g, 2 * i)),
                                      hash_node(RNode(tree, g, 2 * i + 1)))
    BY <1>2, <1>3, BinaryKind
  <2>2. hash_node(n) = n.bottom BY <1>3 DEF hash_node
  <2> QED BY <1>3, <2>1, <2>2 DEF BinaryNodeFact, IsInner
<1>4. CASE n.length # 0
  <2>1. hash_node(n) = EdgeNodeFact(n.bottom, n.path, n.length) BY <1>4 DEF hash_node
  <2> QED BY <1>4, <2>1 DEF EdgeNodeFact, IsInner
<1> QED BY <1>3, <1>4

\* A node that is known by its hash above: the root, one that is not an edge,
\* or one below a binary node or the end of an edge.
HashPoint(tree, h, i) ==
    \/ RNode(tree, h, i).length = 0
    \/ h = Height
    \/ RNode(tree, h + 1, i \div 2).length <= 1

LEMMA LeadsInPath ==
  ASSUME NEW tree \in Tree, NEW key \in Index, NEW h \in 1 .. Height, NEW n,
         n = RNode(tree, h, Anc(key, h)), ~is_empty(n), NEW root,
         root = ReferenceRoot(tree)
  PROVE  /\ HashPoint(tree, h, Anc(key, h)) =>
               hash_node(n) \in ToSet(ProofPath(root, key))
         /\ n.length # 0 => \E x \in ToSet(ProofPath(root, key)) :
                               x.kind = "edge" /\ x.bottom = n.bottom
<1> USE NodesAssumption
<1>1. PICK f : f = ProofSteps(root, key) OBVIOUS
<1>2. h \in 0 .. Height OBVIOUS
<1>3. PICK k \in Nat : LeadsTo(tree, key, f[k], k, h) BY <1>1, <1>2, AllLead
<1>4. PICK g \in h .. Height :
       /\ f[k].height = g /\ f[k].hash = RHash(tree, g, key) /\ k + g <= Height
       /\ \/ g = h
          \/ /\ g > h
             /\ RNode(tree, g, Anc(key, g)).length > g - h
             /\ RNode(tree, h, Anc(key, h)).length =
                   RNode(tree, g, Anc(key, g)).length - (g - h)
             /\ RNode(tree, h, Anc(key, h)).bottom = RNode(tree, g, Anc(key, g)).bottom
  BY <1>3 DEF LeadsTo
<1>5. PICK e : e = RNode(tree, g, Anc(key, g)) OBVIOUS
<1>6. g \in 1 .. Height /\ g \in 0 .. Height /\ k < Height BY <1>4
<1>7. Anc(key, g) \in Positions(Height - g) /\ Anc(key, h) \in Positions(Height - h)
  BY <1>2, <1>6, AncHere
<1>8. NodeOK(e, g) /\ NodeOK(n, h) BY <1>2, <1>5, <1>6, <1>7, RNodeOK
<1>9. e.length \in Nat /\ n.length \in Nat /\ e.length <= g BY <1>6, <1>8 DEF NodeOK
<1>10. ~is_empty(e)
  <2>1. CASE g = h BY <1>5, <2>1
  <2>2. CASE g > h
    <3>1. n.bottom = e.bottom BY <1>4, <1>5, <2>2
    <3> QED BY <3>1 DEF is_empty
  <2> QED BY <1>4, <2>1, <2>2
<1>11. IsInner(f[k].hash) BY <1>4, <1>5, <1>6, <1>7, <1>10, InnerHash DEF RHash
<1>12. f[k].hash \in ToSet(ProofPath(root, key)) BY <1>1, <1>6, <1>11, InnerInPath
<1>13. f[k].hash = hash_node(e) BY <1>4, <1>5 DEF RHash
<1>14. ASSUME HashPoint(tree, h, Anc(key, h)) PROVE g = h
  <2> SUFFICES ASSUME g > h PROVE FALSE BY <1>4
  <2>1. n.length > 0 /\ e.length > g - h /\ h # Height BY <1>4, <1>5, <1>9
  <2>2. PICK m : m = RNode(tree, h + 1, Anc(key, h + 1)) OBVIOUS
  <2>3. Anc(key, h) \div 2 = Anc(key, h + 1) BY <1>2, AncHere, AncUp
  <2>4. m.length <= 1 BY <1>14, <2>1, <2>2, <2>3 DEF HashPoint
  <2>5. PICK j \in 0 .. g : j = g - (h + 1) /\ g - j = h + 1 BY <1>4
  <2>6. ~is_empty(m) BY <1>2, <2>1, <2>2, NotEmptyUp
  <2>7. m = VirtualNode(e.bottom, e.path % Pow2[e.length - j], e.length - j, h + 1)
    <3>1. j <= e.length BY <1>9, <2>1, <2>5
    <3>2. RNode(tree, g - j, Anc(key, g - j)) =
          VirtualNode(e.bottom, e.path % Pow2[e.length - j], e.length - j, g - j)
      BY <1>5, <1>6, <2>2, <2>5, <2>6, <3>1, KeyBelow
    <3> QED BY <2>2, <2>5, <3>2
  <2>8. m.length = e.length - (g - (h + 1)) BY <2>5, <2>7 DEF VirtualNode
  <2> QED BY <1>4, <1>9, <2>1, <2>4, <2>8
<1>15. ASSUME n.length # 0
       PROVE  \E x \in ToSet(ProofPath(root, key)) : x.kind = "edge" /\ x.bottom = n.bottom
  <2>1. e.length # 0 /\ e.bottom = n.bottom BY <1>4, <1>5, <1>9, <1>15
  <2>2. f[k].hash = EdgeNodeFact(e.bottom, e.path, e.length)
    BY <1>13, <2>1 DEF hash_node
  <2>3. f[k].hash.kind = "edge" /\ f[k].hash.bottom = n.bottom
    BY <2>1, <2>2 DEF EdgeNodeFact
  <2> QED BY <1>12, <2>3
<1> QED BY <1>5, <1>12, <1>13, <1>14, <1>15

LEMMA PathInner ==
  ASSUME NEW root, NEW key, NEW x \in ToSet(ProofPath(root, key))
  PROVE  IsInner(x)
<1>1. PICK f : f = ProofSteps(root, key) OBVIOUS
<1>2. Passed(f, Height) BY <1>1, AllPassed, NodesAssumption
<1>3. PICK nodes : nodes = f[Height].nodes OBVIOUS
<1>4. nodes = ProofPath(root, key) BY <1>1, <1>3 DEF ProofPath
<1>5. nodes \in Seq({f[k].hash : k \in Nat}) BY <1>2, <1>3 DEF Passed
<1>6. \A i \in 1 .. Len(nodes) : nodes[i] = f[i - 1].hash /\ IsInner(f[i - 1].hash)
  BY <1>2, <1>3 DEF Passed
<1>7. DOMAIN nodes = 1 .. Len(nodes) BY <1>5
<1> QED BY <1>4, <1>6, <1>7 DEF ToSet

\* What the proof of a tree is.
LEMMA TreeProofIs ==
  ASSUME InputsInv, NEW tree \in Tree, NEW p
  PROVE  /\ p = TreeProof(tree, TRUE) =>
               /\ p.some /\ p.root = ReferenceRoot(tree)
               /\ \A x \in NodesOf(p.storage_proofs) : IsInner(x)
               /\ \A i \in DOMAIN keys : i \in DOMAIN p.storage_proofs
         /\ p = TreeProof(tree, FALSE) => p = NoContractData
<1>1. keys \in Seq(Index) BY DEF InputsInv
<1>2. PICK root : root = ReferenceRoot(tree) OBVIOUS
<1>3. ASSUME p = TreeProof(tree, TRUE)
      PROVE  \E all : /\ p = Data(root, all)
                      /\ \A i \in DOMAIN keys : i \in DOMAIN all
  <2>1. CASE mode # "State"
    <3>1. p = get_proof(tree, TRUE, keys) BY <1>3, <2>1 DEF TreeProof
    <3> QED BY <1>2, <3>1, GetProofIs
  <2>2. CASE mode = "State"
    <3>1. p = get_storage_proof_for_contract(tree, TRUE, keys)
      BY <1>3, <2>2 DEF TreeProof
    <3>2. PICK more : more = MoreKeys(tree, keys) OBVIOUS
    <3>3. PICK S : more \in Seq(S) /\ keys \in Seq(S)
      BY <1>1, <3>2, StorageProofIs
    <3>4. p = Data(root, keys \o more) BY <1>1, <1>2, <3>1, <3>2, StorageProofIs
    <3>5. PICK all : all = keys \o more OBVIOUS
    <3>6. all \in Seq(S) /\ Len(all) = Len(keys) + Len(more)
      BY <3>3, <3>5, ConcatProperties
    <3>7. Len(keys) \in Nat /\ Len(more) \in Nat /\ DOMAIN keys = 1 .. Len(keys)
      BY <3>3
    <3>8. DOMAIN all = 1 .. Len(keys) + Len(more) BY <3>6, <3>7
    <3>9. \A i \in DOMAIN keys : i \in DOMAIN all BY <3>7, <3>8
    <3> QED BY <3>4, <3>5, <3>9
  <2> QED BY <2>1, <2>2
<1>4. ASSUME p = TreeProof(tree, TRUE)
      PROVE  /\ p.some /\ p.root = ReferenceRoot(tree)
             /\ \A x \in NodesOf(p.storage_proofs) : IsInner(x)
             /\ \A i \in DOMAIN keys : i \in DOMAIN p.storage_proofs
  <2>1. PICK all : /\ p = Data(root, all)
                   /\ \A i \in DOMAIN keys : i \in DOMAIN all
    BY <1>3, <1>4
  <2>2. p.some /\ p.root = root /\ p.storage_proofs = PathsOf(root, all)
    BY <2>1 DEF Data
  <2>3. DOMAIN p.storage_proofs = DOMAIN all BY <2>2 DEF PathsOf
  <2>4. \A i \in DOMAIN all : p.storage_proofs[i] = ProofPath(root, all[i])
    BY <2>2 DEF PathsOf
  <2>5. ASSUME NEW x \in NodesOf(p.storage_proofs) PROVE IsInner(x)
    <3>1. PICK i \in DOMAIN all : x \in ToSet(ProofPath(root, all[i]))
      BY <2>3, <2>4, <2>5 DEF NodesOf
    <3> QED BY <3>1, PathInner
  <2> QED BY <1>2, <2>1, <2>2, <2>3, <2>5
<1>5. ASSUME p = TreeProof(tree, FALSE) PROVE p = NoContractData
  <2>1. CASE mode # "State" BY <1>5, <2>1, GetProofIs DEF TreeProof
  <2>2. CASE mode = "State" BY <1>1, <1>5, <2>2, StorageProofIs DEF TreeProof
  <2> QED BY <2>1, <2>2
<1> QED BY <1>4, <1>5

LEMMA KeysOnto ==
  ASSUME NEW D, D \subseteq Index, NEW ks \in SetToSeqs(D)
  PROVE  \A d \in D : \E i \in DOMAIN ks : ks[i] = d
<1>1. IsFiniteSet(D) /\ Cardinality(D) \in Nat
  BY IndexFinite, FS_Subset, FS_CardinalityType
<1>2. PICK S : S = 1 .. Cardinality(D) OBVIOUS
<1>3. ks \in [S -> D] /\ \A i, j \in S : i # j => ks[i] # ks[j] BY <1>2 DEF SetToSeqs
<1>4. ks \in Injection(S, D) BY <1>3 DEF Injection, IsInjective
<1>5. Cardinality(S) = Cardinality(D)
  <2>1. /\ IsFiniteSet(1 .. Cardinality(D))
        /\ Cardinality(1 .. Cardinality(D)) =
              IF 1 > Cardinality(D) THEN 0 ELSE Cardinality(D) - 1 + 1
    BY <1>1, FS_Interval
  <2>2. PICK c \in Nat : c = Cardinality(D) BY <1>1
  <2>3. Cardinality(S) = IF 1 > c THEN 0 ELSE c - 1 + 1 BY <1>2, <2>1, <2>2
  <2>4. Cardinality(S) = c BY <2>3
  <2> QED BY <2>2, <2>4
<1>6. ks \in Surjection(S, D) BY <1>1, <1>4, <1>5, FS_Injection
<1>7. \A d \in D : \E i \in S : ks[i] = d BY <1>6 DEF Surjection
<1>8. DOMAIN ks = S BY <1>3
<1> QED BY <1>7, <1>8

\* What the hints need of a preimage: nodes under their tuples, those above the
\* leaves of D they open in a tree, and the bottoms of the edges above them.
PreOK(pre) == \A x \in DOMAIN pre : IsInner(x) /\ pre[x] = to_tuple(x)

Knows(pre, tree, D) ==
    \A m \in D : \A h \in 1 .. Height :
       /\ ~is_empty(RNode(tree, h, Anc(m, h)))
       /\ HashPoint(tree, h, Anc(m, h))
       => hash_node(RNode(tree, h, Anc(m, h))) \in DOMAIN pre

KnowsBottoms(pre, tree, D) ==
    \A m \in D : \A h \in 1 .. Height :
       /\ RNode(tree, h, Anc(m, h)).length # 0
       /\ IsInner(RNode(tree, h, Anc(m, h)).bottom)
       => RNode(tree, h, Anc(m, h)).bottom \in DOMAIN pre

\* A tree without leaves.
LEMMA NoLeaves ==
  ASSUME NEW tree \in Tree, \A i \in Index : tree[i] = 0
  PROVE  /\ \A h \in 0 .. Height : \A i \in Positions(Height - h) :
               RNode(tree, h, i) = empty_node(h)
         /\ ReferenceRoot(tree) = EMPTY_NODE_HASH
<1> USE NodesAssumption
<1>1. ASSUME NEW h \in 0 .. Height, NEW i \in Positions(Height - h)
      PROVE  RNode(tree, h, i) = empty_node(h)
  <2>1. is_empty(RNode(tree, h, i)) BY EmptyIff
  <2> QED BY <2>1, RNodeOK, EmptyIs
<1>2. ReferenceRoot(tree) = EMPTY_NODE_HASH
  <2>1. Height \in 0 .. Height /\ Height - Height = 0 OBVIOUS
  <2>2. 0 \in Positions(Height - Height)
    <3>1. Pow2[0] = 1 BY Pow2Def
    <3> QED BY <2>1, <3>1 DEF Positions
  <2>3. RNode(tree, Height, 0) = empty_node(Height) BY <1>1, <2>1, <2>2
  <2>4. ReferenceRoot(tree) = hash_node(empty_node(Height))
    BY <2>3 DEF ReferenceRoot, Reference, RNode, Ref
  <2> QED BY <2>4 DEF hash_node, empty_node, from_hash, VirtualNode
<1> QED BY <1>1, <1>2

\* The keys the proofs are asked for are those of the modifications, and a tree
\* that has no proof has no leaves.
Asked(ks, mods) == \A m \in DOMAIN mods : \E i \in DOMAIN ks : ks[i] = m

LEMMA PreimageKnows ==
  ASSUME InputsInv, Asked(keys, modifications), NEW tree \in Tree,
         NEW there \in BOOLEAN, ~there => \A i \in Index : tree[i] = 0,
         NEW p, p = TreeProof(tree, there), NEW pre,
         NodesOf(p.storage_proofs) \subseteq DOMAIN pre
  PROVE  /\ p.root = ReferenceRoot(tree)
         /\ \A x \in NodesOf(p.storage_proofs) : IsInner(x)
         /\ Knows(pre, tree, DOMAIN modifications)
         /\ mode = "State" => KnowsBottoms(pre, tree, DOMAIN modifications)
<1> USE NodesAssumption
<1>0. DOMAIN modifications \subseteq Index BY DEF InputsInv, IsMods
<1>1. CASE there = FALSE
  <2>1. p = NoContractData BY <1>1, TreeProofIs
  <2>2. p.root = EMPTY_NODE_HASH /\ p.storage_proofs = <<>> BY <2>1 DEF NoContractData
  <2>3. NodesOf(p.storage_proofs) = {} BY <2>2 DEF NodesOf
  <2>4. ASSUME NEW m \in DOMAIN modifications, NEW h \in 1 .. Height
        PROVE  RNode(tree, h, Anc(m, h)) = empty_node(h)
    <3>1. h \in 0 .. Height OBVIOUS
    <3>2. Anc(m, h) \in Positions(Height - h) BY <1>0, <3>1, AncHere
    <3> QED BY <1>1, <3>1, <3>2, NoLeaves
  <2>5. Knows(pre, tree, DOMAIN modifications) BY <2>4, EmptyIsEmpty DEF Knows
  <2>6. KnowsBottoms(pre, tree, DOMAIN modifications)
    <3>1. \A h : empty_node(h).length = 0 BY DEF empty_node, from_hash, VirtualNode
    <3> QED BY <2>4, <3>1 DEF KnowsBottoms
  <2> QED BY <1>1, <2>2, <2>3, <2>5, <2>6, NoLeaves
<1>2. CASE there = TRUE
  <2>1. /\ p.some /\ p.root = ReferenceRoot(tree)
        /\ \A x \in NodesOf(p.storage_proofs) : IsInner(x)
        /\ \A i \in DOMAIN keys : i \in DOMAIN p.storage_proofs
    BY <1>2, TreeProofIs
  <2>2. /\ \A i \in DOMAIN keys : p.storage_proofs[i] = ProofPath(p.root, keys[i])
        /\ mode = "State" =>
               \A i \in DOMAIN keys : \A e \in ToSet(p.storage_proofs[i]) :
                  e.kind = "edge" /\ IsInner(e.bottom) =>
                     e.bottom \in DOMAIN format_commitment_facts(p.storage_proofs)
    BY <2>1, TreeProofFollows
  <2>3. DOMAIN format_commitment_facts(p.storage_proofs) = NodesOf(p.storage_proofs)
    BY DEF format_commitment_facts, NodesOf
  <2>4. PICK root : root = ReferenceRoot(tree) OBVIOUS
  <2>5. ASSUME NEW i \in DOMAIN keys, NEW x \in ToSet(ProofPath(root, keys[i]))
        PROVE  x \in DOMAIN pre /\ x \in ToSet(p.storage_proofs[i])
    BY <2>1, <2>2, <2>4, <2>5 DEF NodesOf
  <2>6. ASSUME NEW m \in DOMAIN modifications, NEW h \in 1 .. Height,
               ~is_empty(RNode(tree, h, Anc(m, h))), HashPoint(tree, h, Anc(m, h))
        PROVE  hash_node(RNode(tree, h, Anc(m, h))) \in DOMAIN pre
    <3>1. PICK i \in DOMAIN keys : keys[i] = m BY DEF Asked
    <3>2. m \in Index BY <1>0
    <3>3. hash_node(RNode(tree, h, Anc(m, h))) \in ToSet(ProofPath(root, m))
      BY <2>4, <2>6, <3>2, LeadsInPath
    <3> QED BY <2>5, <3>1, <3>3
  <2>7. ASSUME mode = "State", NEW m \in DOMAIN modifications, NEW h \in 1 .. Height,
               RNode(tree, h, Anc(m, h)).length # 0,
               IsInner(RNode(tree, h, Anc(m, h)).bottom)
        PROVE  RNode(tree, h, Anc(m, h)).bottom \in DOMAIN pre
    <3>1. PICK i \in DOMAIN keys : keys[i] = m BY DEF Asked
    <3>2. m \in Index /\ h \in 0 .. Height BY <1>0
    <3>3. PICK n : n = RNode(tree, h, Anc(m, h)) OBVIOUS
    <3>4. NodeOK(n, h) BY <3>2, <3>3, AncHere, RNodeOK
    <3>5. ~is_empty(n) BY <2>7, <3>3, <3>4 DEF NodeOK, is_empty, EMPTY_NODE_HASH
    <3>6. PICK x \in ToSet(ProofPath(root, m)) : x.kind = "edge" /\ x.bottom = n.bottom
      BY <2>4, <2>7, <3>2, <3>3, <3>5, LeadsInPath
    <3>7. x \in ToSet(p.storage_proofs[i]) BY <2>5, <3>1, <3>6
    <3>8. x.bottom \in NodesOf(p.storage_proofs)
      BY <2>2, <2>3, <2>7, <3>3, <3>6, <3>7
    <3> QED BY <3>3, <3>6, <3>8
  <2>8. Knows(pre, tree, DOMAIN modifications) BY <2>6 DEF Knows
  <2>9. mode = "State" => KnowsBottoms(pre, tree, DOMAIN modifications)
    BY <2>7 DEF KnowsBottoms
  <2> QED BY <2>1, <2>8, <2>9
<1> QED BY <1>1, <1>2

-----------------------------------------------------------------------------
(* The guess of the descents.                                              *)

\* The triplet of a node; where nothing is modified only its emptiness counts.
NodeTrip(n) == Triplet(n.length, n.path, n.bottom)

TripOK(t, n, mod) == IF mod THEN t = NodeTrip(n) ELSE t = empty_triplet <=> is_empty(n)

LEMMA NodeTripOK ==
  ASSUME NEW n, NEW h, NodeOK(n, h), NEW mod \in BOOLEAN
  PROVE  /\ TripOK(NodeTrip(n), n, mod)
         /\ NodeTrip(n) = empty_triplet <=> is_empty(n)
<1>1. ASSUME is_empty(n) PROVE NodeTrip(n) = empty_triplet
  <2>1. n = empty_node(h) BY <1>1, EmptyIs
  <2> QED BY <2>1 DEF NodeTrip, Triplet, empty_triplet, empty_node, from_hash, VirtualNode
<1>2. ASSUME NodeTrip(n) = empty_triplet PROVE is_empty(n)
  <2>1. NodeTrip(n).hash = empty_triplet.hash BY <1>2
  <2> QED BY <2>1 DEF NodeTrip, Triplet, empty_triplet, is_empty
<1> QED BY <1>1, <1>2 DEF TripOK

LEMMA EmptyTripOK ==
  ASSUME NEW h, NEW mod \in BOOLEAN
  PROVE  TripOK(empty_triplet, empty_node(h), mod)
<1>1. NodeTrip(empty_node(h)) = empty_triplet
  BY DEF NodeTrip, Triplet, empty_triplet, empty_node, from_hash, VirtualNode
<1> QED BY <1>1, EmptyIsEmpty DEF TripOK

LEMMA CanonicOK ==
  ASSUME NEW h \in 0 .. Height, NEW c, NodeOK(c, h), NEW pre, PreOK(pre),
         NEW mod \in BOOLEAN, mod /\ c.length # 0 => hash_node(c) \in DOMAIN pre
  PROVE  TripOK(canonic(pre, hash_node(c)), c, mod)
<1>1. PICK x : x = hash_node(c) OBVIOUS
<1>2. CASE c.length # 0
  <2>1. x = EdgeNodeFact(c.bottom, c.path, c.length) BY <1>1, <1>2 DEF hash_node
  <2>2. /\ x.kind = "edge" /\ x.length = c.length /\ x.path = c.path
        /\ x.bottom = c.bottom
    BY <2>1 DEF EdgeNodeFact
  <2>3. CASE x \in DOMAIN pre
    <3>1. pre[x] = <<c.length, c.path, c.bottom>> BY <2>2, <2>3 DEF PreOK, to_tuple
    <3>2. canonic(pre, x) = NodeTrip(c) BY <2>3, <3>1 DEF canonic, NodeTrip
    <3> QED BY <1>1, <3>2, NodeTripOK
  <2>4. CASE x \notin DOMAIN pre
    <3>1. mod = FALSE BY <1>1, <1>2, <2>4
    <3>2. canonic(pre, x) = Triplet(0, 0, x) BY <2>4 DEF canonic
    <3>3. x # EMPTY_NODE_HASH BY <2>2 DEF EMPTY_NODE_HASH
    <3>4. canonic(pre, x) # empty_triplet BY <3>2, <3>3 DEF Triplet, empty_triplet
    <3>5. ~is_empty(c) BY <1>2 DEF NodeOK, is_empty, EMPTY_NODE_HASH
    <3> QED BY <1>1, <3>1, <3>4, <3>5 DEF TripOK
  <2> QED BY <2>3, <2>4
<1>3. CASE c.length = 0
  <2>1. x = c.bottom BY <1>1, <1>3 DEF hash_node
  <2>2. c.path = 0
    <3>1. Pow2[0] = 1 BY Pow2Def
    <3> QED BY <1>3, <3>1 DEF NodeOK, Positions
  <2>3. x.kind \in {"leaf", "binary"} \/ x = EMPTY_NODE_HASH BY <2>1 DEF NodeOK
  <2>4. x.kind # "edge" BY <2>3 DEF EMPTY_NODE_HASH
  <2>5. canonic(pre, x) = Triplet(0, 0, x)
    <3>1. CASE x \in DOMAIN pre
      <4>1. x.kind = "binary" BY <2>4, <3>1 DEF PreOK, IsInner
      <4>2. pre[x] = <<x.left, x.right>> BY <3>1, <4>1 DEF PreOK, to_tuple
      <4> QED BY <4>2 DEF canonic
    <3>2. CASE x \notin DOMAIN pre BY <3>2 DEF canonic
    <3> QED BY <3>1, <3>2
  <2>6. canonic(pre, x) = NodeTrip(c) BY <1>3, <2>1, <2>2, <2>5 DEF NodeTrip
  <2> QED BY <1>1, <2>6, NodeTripOK
<1> QED BY <1>2, <1>3

\* The children of a node above a modified leaf.
LEMMA TripChildren ==
  ASSUME NEW tree \in Tree, NEW pre, PreOK(pre), NEW mods, IsMods(mods),
         Knows(pre, tree, DOMAIN mods), NEW h \in Nat, h < Height,
         NEW p \in Positions(Height - (h + 1)), Mod(mods, h + 1, p),
         NEW t, t = NodeTrip(RNode(tree, h + 1, p))
  PROVE  /\ CanOpen(pre, t)
         /\ TripOK(PreimageChildren(pre, t)[1], RNode(tree, h, 2 * p), Mod(mods, h, 2 * p))
         /\ TripOK(PreimageChildren(pre, t)[2], RNode(tree, h, 2 * p + 1),
                   Mod(mods, h, 2 * p + 1))
<1> USE NodesAssumption
<1>1. PICK n, l, r : /\ n = RNode(tree, h + 1, p) /\ l = RNode(tree, h, 2 * p)
                     /\ r = RNode(tree, h, 2 * p + 1)
  OBVIOUS
<1>2. NodeOK(n, h + 1) /\ NodeOK(l, h) /\ NodeOK(r, h) BY <1>1, RefCases
<1>3. PICK ml \in BOOLEAN, mr \in BOOLEAN :
         ml = Mod(mods, h, 2 * p) /\ mr = Mod(mods, h, 2 * p + 1)
  BY DEF Mod
<1>4. t.length = n.length /\ t.word = n.path /\ t.hash = n.bottom
  BY <1>1 DEF NodeTrip, Triplet
<1>5. DOMAIN mods \subseteq Index /\ h \in 0 .. Height /\ h + 1 \in 1 .. Height
      /\ h + 1 \in 0 .. Height
  BY DEF IsMods
<1>6. p \in Nat
  <2>1. Height - (h + 1) \in Nat OBVIOUS
  <2> QED BY <2>1, PositionsNat
<1>7. CASE is_empty(n)
  <2>1. t = empty_triplet BY <1>1, <1>2, <1>7, NodeTripOK
  <2>2. PreimageChildren(pre, t) = <<empty_triplet, empty_triplet>>
    BY <2>1 DEF PreimageChildren
  <2>3. CanOpen(pre, t) BY <2>1 DEF CanOpen, empty_triplet, Triplet
  <2>4. l = empty_node(h) /\ r = empty_node(h) BY <1>1, <1>7, EmptyBelow
  <2>5. TripOK(empty_triplet, l, ml) /\ TripOK(empty_triplet, r, mr)
    BY <2>4, EmptyTripOK
  <2> QED BY <1>1, <1>3, <2>2, <2>3, <2>5
<1>8. CASE ~is_empty(n) /\ n.length = 0
  <2>1. /\ n = from_hash(BinaryNodeFact(hash_node(l), hash_node(r)), h + 1)
        /\ hash_node(n) = BinaryNodeFact(hash_node(l), hash_node(r))
    BY <1>1, <1>8, BinaryKind
  <2>2. PICK x : x = n.bottom OBVIOUS
  <2>3. x = BinaryNodeFact(hash_node(l), hash_node(r)) BY <1>8, <2>1, <2>2 DEF hash_node
  <2>4. x.kind = "binary" /\ x.left = hash_node(l) /\ x.right = hash_node(r)
    BY <2>3 DEF BinaryNodeFact
  <2>5. x \in DOMAIN pre
    <3>1. PICK m \in DOMAIN mods : Anc(m, h + 1) = p BY DEF Mod
    <3>2. HashPoint(tree, h + 1, p) BY <1>1, <1>8 DEF HashPoint
    <3>3. hash_node(n) \in DOMAIN pre BY <1>1, <1>5, <1>8, <3>1, <3>2 DEF Knows
    <3> QED BY <2>1, <2>3, <3>3
  <2>6. pre[x] = <<hash_node(l), hash_node(r)>> BY <2>4, <2>5 DEF PreOK, to_tuple
  <2>7. t # empty_triplet BY <1>1, <1>2, <1>8, NodeTripOK
  <2>8. PreimageChildren(pre, t) = <<canonic(pre, hash_node(l)), canonic(pre, hash_node(r))>>
    BY <1>4, <1>8, <2>2, <2>6, <2>7 DEF PreimageChildren
  <2>9. CanOpen(pre, t) BY <1>4, <2>2, <2>5 DEF CanOpen
  <2>10. ASSUME NEW q, NEW c, c = RNode(tree, h, q), NEW mod \in BOOLEAN,
                mod = Mod(mods, h, q), q \div 2 = p, q = 2 * p \/ q = 2 * p + 1,
                NodeOK(c, h)
         PROVE  TripOK(canonic(pre, hash_node(c)), c, mod)
    <3>1. ASSUME mod, c.length # 0 PROVE hash_node(c) \in DOMAIN pre
      <4>1. PICK m \in DOMAIN mods : Anc(m, h) = q BY <2>10, <3>1 DEF Mod
      <4>2. ~is_empty(c) BY <2>10, <3>1 DEF NodeOK, is_empty, EMPTY_NODE_HASH
      <4>3. h \in 1 .. Height
        <5>1. h # 0 BY <2>10, <3>1 DEF NodeOK
        <5> QED BY <5>1
      <4>4. HashPoint(tree, h, q) BY <1>1, <1>8, <2>10 DEF HashPoint
      <4> QED BY <2>10, <4>1, <4>2, <4>3, <4>4 DEF Knows
    <3> QED BY <1>5, <2>10, <3>1, CanonicOK
  <2>11. (2 * p) \div 2 = p /\ (2 * p + 1) \div 2 = p BY <1>6
  <2>12. TripOK(canonic(pre, hash_node(l)), l, ml) BY <1>1, <1>2, <1>3, <2>10, <2>11
  <2>13. TripOK(canonic(pre, hash_node(r)), r, mr) BY <1>1, <1>2, <1>3, <2>10, <2>11
  <2> QED BY <1>1, <1>3, <2>8, <2>9, <2>12, <2>13
<1>9. CASE ~is_empty(n) /\ n.length # 0
  <2>1. PICK k \in Nat : n.length = k + 1
    <3>1. n.length \in Nat BY <1>2 DEF NodeOK
    <3>2. n.length - 1 \in Nat /\ n.length = (n.length - 1) + 1 BY <1>9, <3>1
    <3> QED BY <3>2
  <2>2. PICK bit \in {0, 1} :
            /\ RNode(tree, h, 2 * p + bit) =
                  VirtualNode(n.bottom, n.path - bit * Pow2[k], k, h)
            /\ RNode(tree, h, 2 * p + (1 - bit)) = empty_node(h)
            /\ n.path - bit * Pow2[k] \in Positions(k)
            /\ n.path \in Nat
    BY <1>1, <2>1, EdgeStep
  <2>3. PICK top \in Nat \ {0} : top = Pow2[k] BY Pow2Type
  <2>4. PICK w \in Nat : w = n.path BY <2>2
  <2>5. w - bit * top \in 0 .. (top - 1) BY <2>2, <2>3, <2>4 DEF Positions
  <2>6. CanOpen(pre, t) BY <1>4, <1>9 DEF CanOpen
  <2>7. t # empty_triplet BY <1>1, <1>2, <1>9, NodeTripOK
  <2>8. t.length - 1 = k /\ t.length # 0 BY <1>4, <2>1
  <2>9. CASE bit = 0
    <3>1. w \div top = 0
      <4>1. w = 0 * top + w /\ w \in 0 .. (top - 1) BY <2>5, <2>9
      <4> QED BY <4>1, DivUnique
    <3>2. PreimageChildren(pre, t) = <<Triplet(k, w, n.bottom), empty_triplet>>
      BY <1>4, <2>3, <2>4, <2>7, <2>8, <3>1 DEF PreimageChildren
    <3>3. l = VirtualNode(n.bottom, w, k, h) /\ r = empty_node(h)
      <4>1. 2 * p + 0 = 2 * p /\ 2 * p + (1 - 0) = 2 * p + 1 /\ w - 0 * top = w
        BY <1>6
      <4> QED BY <1>1, <2>2, <2>3, <2>4, <2>9, <4>1
    <3>4. NodeTrip(l) = Triplet(k, w, n.bottom) BY <3>3 DEF NodeTrip, VirtualNode
    <3>5. TripOK(Triplet(k, w, n.bottom), l, ml) BY <1>2, <3>4, NodeTripOK
    <3>6. TripOK(empty_triplet, r, mr) BY <3>3, EmptyTripOK
    <3> QED BY <1>1, <1>3, <2>6, <3>2, <3>5, <3>6
  <2>10. CASE bit = 1
    <3>1. w \div top # 0
      <4>1. w - top \in 0 .. (top - 1) BY <2>5, <2>10
      <4>2. w = 1 * top + (w - top) BY <4>1
      <4>3. w \div top = 1 BY <4>1, <4>2, DivUnique
      <4> QED BY <4>3
    <3>2. PreimageChildren(pre, t) = <<empty_triplet, Triplet(k, w - top, n.bottom)>>
      BY <1>4, <2>3, <2>4, <2>7, <2>8, <3>1 DEF PreimageChildren
    <3>3. r = VirtualNode(n.bottom, w - top, k, h) /\ l = empty_node(h)
      <4>1. 2 * p + (1 - 1) = 2 * p /\ w - 1 * top = w - top
        BY <1>6
      <4> QED BY <1>1, <2>2, <2>3, <2>4, <2>10, <4>1
    <3>4. NodeTrip(r) = Triplet(k, w - top, n.bottom) BY <3>3 DEF NodeTrip, VirtualNode
    <3>5. TripOK(Triplet(k, w - top, n.bottom), r, mr) BY <1>2, <3>4, NodeTripOK
    <3>6. TripOK(empty_triplet, l, ml) BY <3>3, EmptyTripOK
    <3> QED BY <1>1, <1>3, <2>6, <3>2, <3>5, <3>6
  <2> QED BY <2>9, <2>10
<1> QED BY <1>7, <1>8, <1>9

\* Where the leaves under the place (h, i) part, or the leaf if there is one.
IsStop(L, h, i, g, j) ==
    /\ g \in 0 .. h /\ j \in Nat
    /\ Und(L, g, j) = Und(L, h, i)
    /\ g = 0 \/ Parts(L, g, j)

LEMMA UndPath ==
  ASSUME NEW L, L \subseteq Nat, NEW h \in Nat, NEW g \in Nat, NEW d \in Nat, h = g + d,
         NEW i, NEW j, NEW leaf, leaf \in Und(L, g, j), leaf \in Und(L, h, i)
  PROVE  /\ j \in Nat /\ i \in Nat /\ Anc(j, d) = i
         /\ j % Pow2[d] \in Positions(d)
         /\ j = i * Pow2[d] + (j % Pow2[d])
<1>1. leaf \in Nat /\ Anc(leaf, g) = j /\ Anc(leaf, h) = i BY DEF Und
<1>2. i \in Nat /\ j \in Nat BY <1>1, AncType
<1>3. /\ Anc(Anc(leaf, g), d) = Anc(leaf, g + d)
      /\ Anc(leaf, g) = Anc(leaf, g + d) * Pow2[d] + (Anc(leaf, g) % Pow2[d])
      /\ Anc(leaf, g) % Pow2[d] \in Positions(d)
  BY <1>1, AncAnc
<1> QED BY <1>1, <1>2, <1>3

LEMMA StopNotAbove ==
  ASSUME NEW L, L \subseteq Nat, NEW h \in Nat, NEW i, NEW g, NEW j, NEW g2, NEW j2,
         IsStop(L, h, i, g, j), IsStop(L, h, i, g2, j2)
  PROVE  ~ (g < g2)
<1> SUFFICES ASSUME g < g2 PROVE FALSE OBVIOUS
<1>1. g \in Nat /\ g2 \in Nat /\ j \in Nat /\ j2 \in Nat BY DEF IsStop
<1>2. PICK d \in Nat : g2 - 1 = d /\ g <= d BY <1>1
<1>3. Parts(L, g2, j2) BY <1>1 DEF IsStop
<1>4. PICK a, b : a \in Und(L, d, 2 * j2) /\ b \in Und(L, d, 2 * j2 + 1)
  BY <1>2, <1>3 DEF Parts
<1>5. a \in Nat /\ b \in Nat /\ Anc(a, d) = 2 * j2 /\ Anc(b, d) = 2 * j2 + 1
      /\ a \in L /\ b \in L
  BY <1>4 DEF Und
<1>6. Anc(a, g2) = j2 /\ Anc(b, g2) = j2
  <2>1. g2 = d + 1 BY <1>1, <1>2
  <2> QED BY <1>1, <1>5, <2>1, AncUp
<1>7. a \in Und(L, g, j) /\ b \in Und(L, g, j)
  BY <1>5, <1>6 DEF IsStop, Und
<1>8. Anc(a, g) = j /\ Anc(b, g) = j BY <1>7 DEF Und
<1>9. PICK e \in Nat : g + e = d BY <1>1, <1>2
<1>10. Anc(a, d) = Anc(j, e) /\ Anc(b, d) = Anc(j, e)
  <2>1. Anc(Anc(a, g), e) = Anc(a, g + e) BY <1>1, <1>5, AncAnc
  <2>2. Anc(Anc(b, g), e) = Anc(b, g + e) BY <1>1, <1>5, AncAnc
  <2> QED BY <1>8, <1>9, <2>1, <2>2
<1> QED BY <1>1, <1>5, <1>10

\* There is one such place.
LEMMA StopUnique ==
  ASSUME NEW L, L \subseteq Nat, NEW h \in Nat, NEW i, NEW g, NEW j, NEW g2, NEW j2,
         IsStop(L, h, i, g, j), IsStop(L, h, i, g2, j2), Und(L, h, i) # {}
  PROVE  g = g2 /\ j = j2
<1>1. g \in Nat /\ g2 \in Nat BY DEF IsStop
<1>2. ~(g < g2) /\ ~(g2 < g) BY StopNotAbove
<1>3. g = g2 BY <1>1, <1>2
<1>4. PICK leaf : leaf \in Und(L, h, i) OBVIOUS
<1>5. Anc(leaf, g) = j /\ Anc(leaf, g2) = j2 BY <1>4 DEF IsStop, Und
<1> QED BY <1>3, <1>5

\* Above a leaf where the leaves do not part they are all on its side.
LEMMA OneSide ==
  ASSUME NEW L, L \subseteq Index, NEW h \in Nat, NEW i \in Nat,
         ~Parts(L, h + 1, i)
  PROVE  /\ Und(L, h, 2 * i) = {} => Und(L, h, 2 * i + 1) = Und(L, h + 1, i)
         /\ Und(L, h, 2 * i + 1) = {} => Und(L, h, 2 * i) = Und(L, h + 1, i)
         /\ Und(L, h, 2 * i) = {} \/ Und(L, h, 2 * i + 1) = {}
<1>1. (h + 1) - 1 = h OBVIOUS
<1>2. Und(L, h + 1, i) = Und(L, h, 2 * i) \cup Und(L, h, 2 * i + 1) BY UndChild
<1> QED BY <1>1, <1>2 DEF Parts

-----------------------------------------------------------------------------
(* Places of the guess.                                                    *)

LiveSet(prev, mods) == {i \in Index : prev[i] # 0} \cup DOMAIN mods

\* What the guess starts from.
GuessCtx(pre, prev, mods) ==
    /\ prev \in Tree /\ IsMods(mods) /\ PreOK(pre)
    /\ Knows(pre, prev, DOMAIN mods) /\ Knows(pre, Unify(prev, mods), DOMAIN mods)

UpdateAt(mods, h, i) == UpdateOf(UpdateLayers(mods)[h], i)

\* The place (h, i) with the update and the two trees at it.
PlaceAt(prev, mods, s, h, i) ==
    /\ h \in 0 .. Height /\ i \in Positions(Height - h)
    /\ \E t1, t2 :
          /\ s = Place(h, i, <<UpdateAt(mods, h, i), t1, t2>>)
          /\ TripOK(t1, RNode(prev, h, i), Mod(mods, h, i))
          /\ TripOK(t2, RNode(Unify(prev, mods), h, i), Mod(mods, h, i))

LEMMA UpdateAtIs ==
  ASSUME NEW mods, IsMods(mods), NEW h \in Nat, NEW i
  PROVE  /\ UpdateAt(mods, h, i) = NoUpdate <=> ~Mod(mods, h, i)
         /\ UpdateAt(mods, 0, i).update # "tuple"
         /\ Mod(mods, h + 1, i) =>
               UpdateAt(mods, h + 1, i) =
               [update |-> "tuple", left |-> UpdateAt(mods, h, 2 * i),
                right |-> UpdateAt(mods, h, 2 * i + 1)]
<1>1. \A g \in Nat : i \in DOMAIN UpdateLayers(mods)[g] <=> Mod(mods, g, i) BY ModIff
<1>2. Mod(mods, h + 1, i) =>
         UpdateAt(mods, h + 1, i) =
         [update |-> "tuple", left |-> UpdateAt(mods, h, 2 * i),
          right |-> UpdateAt(mods, h, 2 * i + 1)]
  BY <1>1, UpdateOfInner DEF UpdateAt
<1>3. UpdateAt(mods, 0, i).update # "tuple"
  <2>1. CASE i \in DOMAIN mods
    <3>1. UpdateAt(mods, 0, i) = [update |-> "leaf", fact |-> mods[i]]
      BY <2>1, UpdateOfLeaf DEF UpdateAt
    <3> QED BY <3>1
  <2>2. CASE i \notin DOMAIN mods
    <3>1. UpdateAt(mods, 0, i) = NoUpdate BY <2>2, UpdateOfLeaf DEF UpdateAt
    <3> QED BY <3>1 DEF NoUpdate
  <2> QED BY <2>1, <2>2
<1>4. ~Mod(mods, h, i) => UpdateAt(mods, h, i) = NoUpdate
  BY <1>1 DEF UpdateAt, UpdateOf
<1>5. ASSUME Mod(mods, h, i) PROVE UpdateAt(mods, h, i) # NoUpdate
  <2>1. CASE h = 0
    <3>1. i \in DOMAIN UpdateLayers(mods)[0] BY <1>1, <1>5, <2>1
    <3>2. i \in DOMAIN mods BY <3>1, UpdateLayersDef
    <3>3. UpdateAt(mods, 0, i) = [update |-> "leaf", fact |-> mods[i]]
      BY <3>2, UpdateOfLeaf DEF UpdateAt
    <3>4. UpdateAt(mods, 0, i).update = "leaf" /\ NoUpdate.update = "none"
      BY <3>3 DEF NoUpdate
    <3> QED BY <2>1, <3>4
  <2>2. CASE h # 0
    <3>1. PICK g \in Nat : h = g + 1
      <4>1. h - 1 \in Nat /\ h = (h - 1) + 1 BY <2>2
      <4> QED BY <4>1
    <3>2. UpdateAt(mods, g + 1, i) =
             [update |-> "tuple", left |-> UpdateAt(mods, g, 2 * i),
              right |-> UpdateAt(mods, g, 2 * i + 1)]
      <4>1. i \in DOMAIN UpdateLayers(mods)[g + 1] BY <1>1, <1>5, <3>1
      <4> QED BY <4>1, UpdateOfInner DEF UpdateAt
    <3>3. UpdateAt(mods, h, i).update = "tuple" BY <3>1, <3>2
    <3> QED BY <3>3 DEF NoUpdate
  <2> QED BY <2>1, <2>2
<1> QED BY <1>2, <1>3, <1>4, <1>5

LEMMA LiveType ==
  ASSUME NEW prev \in Tree, NEW mods, IsMods(mods), NEW L, L = LiveSet(prev, mods)
  PROVE  /\ L \subseteq Index /\ L \subseteq Nat
         /\ \A h, i : Mod(mods, h, i) => Und(L, h, i) # {}
<1>1. Index \subseteq Nat BY PositionsNat, NodesAssumption DEF Index
<1>2. L \subseteq Index BY DEF LiveSet, IsMods
<1>3. DOMAIN mods \subseteq L BY DEF LiveSet
<1> QED BY <1>1, <1>2, <1>3 DEF Mod, Und

LEMMA NothingIff ==
  ASSUME NEW prev \in Tree, NEW mods, IsMods(mods), NEW L, L = LiveSet(prev, mods),
         NEW s, NEW h, NEW i, PlaceAt(prev, mods, s, h, i)
  PROVE  Nothing(s) <=> Und(L, h, i) = {}
<1>1. h \in 0 .. Height /\ i \in Positions(Height - h) /\ h \in Nat BY DEF PlaceAt
<1>2. PICK t1, t2 :
          /\ s = Place(h, i, <<UpdateAt(mods, h, i), t1, t2>>)
          /\ TripOK(t1, RNode(prev, h, i), Mod(mods, h, i))
          /\ TripOK(t2, RNode(Unify(prev, mods), h, i), Mod(mods, h, i))
  BY DEF PlaceAt
<1>3. Nothing(s) <=> /\ UpdateAt(mods, h, i) = NoUpdate
                     /\ t1 = empty_triplet /\ t2 = empty_triplet
  BY <1>2 DEF Nothing, Place
<1>4. CASE Mod(mods, h, i)
  <2>1. UpdateAt(mods, h, i) # NoUpdate BY <1>1, <1>4, UpdateAtIs
  <2> QED BY <1>3, <1>4, <2>1, LiveType
<1>5. CASE ~Mod(mods, h, i)
  <2>1. UpdateAt(mods, h, i) = NoUpdate BY <1>1, <1>5, UpdateAtIs
  <2>2. t1 = empty_triplet <=> is_empty(RNode(prev, h, i)) BY <1>2, <1>5 DEF TripOK
  <2>3. t2 = empty_triplet <=> is_empty(RNode(Unify(prev, mods), h, i))
    BY <1>2, <1>5 DEF TripOK
  <2>4. RNode(Unify(prev, mods), h, i) = RNode(prev, h, i)
    <3>1. i \notin DOMAIN UpdateLayers(mods)[h] BY <1>1, <1>5, ModIff
    <3> QED BY <1>1, <3>1, Untouched DEF RNode
  <2>5. is_empty(RNode(prev, h, i)) <=>
        \A leaf \in Index : Anc(leaf, h) = i => prev[leaf] = 0
    BY <1>1, EmptyIff
  <2>6. Und(L, h, i) = {} <=> \A leaf \in Index : Anc(leaf, h) = i => prev[leaf] = 0
    <3>1. \A m \in DOMAIN mods : Anc(m, h) # i BY <1>5 DEF Mod
    <3> QED BY <3>1 DEF Und, LiveSet
  <2> QED BY <1>3, <2>1, <2>2, <2>3, <2>4, <2>5, <2>6
<1> QED BY <1>4, <1>5

\* Opening a place above a modified leaf.
LEMMA PlaceChildren ==
  ASSUME NEW pre, NEW prev, NEW mods, GuessCtx(pre, prev, mods),
         NEW h \in Nat, NEW s, NEW i, PlaceAt(prev, mods, s, h + 1, i),
         Mod(mods, h + 1, i)
  PROVE  /\ CanDescend(pre, s)
         /\ PlaceAt(prev, mods, Left(pre, s), h, 2 * i)
         /\ PlaceAt(prev, mods, Right(pre, s), h, 2 * i + 1)
<1> USE NodesAssumption
<1>1. PICK new : new = Unify(prev, mods) OBVIOUS
<1>2. /\ prev \in Tree /\ new \in Tree /\ IsMods(mods) /\ PreOK(pre)
      /\ Knows(pre, prev, DOMAIN mods) /\ Knows(pre, new, DOMAIN mods)
  BY <1>1, UnifyType DEF GuessCtx
<1>3. h + 1 \in 0 .. Height /\ i \in Positions(Height - (h + 1)) BY DEF PlaceAt
<1>4. PICK t1, t2 :
          /\ s = Place(h + 1, i, <<UpdateAt(mods, h + 1, i), t1, t2>>)
          /\ TripOK(t1, RNode(prev, h + 1, i), Mod(mods, h + 1, i))
          /\ TripOK(t2, RNode(new, h + 1, i), Mod(mods, h + 1, i))
  BY <1>1 DEF PlaceAt
<1>5. t1 = NodeTrip(RNode(prev, h + 1, i)) /\ t2 = NodeTrip(RNode(new, h + 1, i))
  BY <1>4 DEF TripOK
<1>6. h < Height /\ h \in 0 .. Height BY <1>3
<1>7. /\ CanOpen(pre, t1)
      /\ TripOK(PreimageChildren(pre, t1)[1], RNode(prev, h, 2 * i), Mod(mods, h, 2 * i))
      /\ TripOK(PreimageChildren(pre, t1)[2], RNode(prev, h, 2 * i + 1),
                Mod(mods, h, 2 * i + 1))
  BY <1>2, <1>3, <1>5, <1>6, TripChildren
<1>8. /\ CanOpen(pre, t2)
      /\ TripOK(PreimageChildren(pre, t2)[1], RNode(new, h, 2 * i), Mod(mods, h, 2 * i))
      /\ TripOK(PreimageChildren(pre, t2)[2], RNode(new, h, 2 * i + 1),
                Mod(mods, h, 2 * i + 1))
  BY <1>2, <1>3, <1>5, <1>6, TripChildren
<1>9. PICK u : u = UpdateAt(mods, h + 1, i) OBVIOUS
<1>10. u = [update |-> "tuple", left |-> UpdateAt(mods, h, 2 * i),
            right |-> UpdateAt(mods, h, 2 * i + 1)]
  BY <1>2, <1>9, UpdateAtIs
<1>11. u.update = "tuple" /\ u.left = UpdateAt(mods, h, 2 * i)
       /\ u.right = UpdateAt(mods, h, 2 * i + 1)
  BY <1>10
<1>12. /\ s.height = h + 1 /\ s.path = i /\ s.trees = <<u, t1, t2>>
  BY <1>4, <1>9 DEF Place
<1>13. s.trees[1] = u /\ s.trees[2] = t1 /\ s.trees[3] = t2 BY <1>12
<1>14. CanDescend(pre, s) BY <1>7, <1>8, <1>11, <1>13 DEF CanDescend
<1>15. 2 * i \in Positions(Height - h) /\ 2 * i + 1 \in Positions(Height - h)
  <2>1. PICK m \in Nat : m = Height - (h + 1) /\ Height - h = m + 1 BY <1>6
  <2> QED BY <1>3, <2>1, ChildPositions
<1>16. s.height - 1 = h BY <1>12
<1>17. Left(pre, s) = Place(h, 2 * i, <<UpdateAt(mods, h, 2 * i),
                            PreimageChildren(pre, t1)[1], PreimageChildren(pre, t2)[1]>>)
  BY <1>11, <1>12, <1>13, <1>16 DEF Left
<1>18. Right(pre, s) = Place(h, 2 * i + 1, <<UpdateAt(mods, h, 2 * i + 1),
                             PreimageChildren(pre, t1)[2], PreimageChildren(pre, t2)[2]>>)
  BY <1>11, <1>12, <1>13, <1>16 DEF Right
<1>19. PlaceAt(prev, mods, Left(pre, s), h, 2 * i)
  BY <1>1, <1>6, <1>7, <1>8, <1>15, <1>17 DEF PlaceAt
<1>20. PlaceAt(prev, mods, Right(pre, s), h, 2 * i + 1)
  BY <1>1, <1>6, <1>7, <1>8, <1>15, <1>18 DEF PlaceAt
<1> QED BY <1>14, <1>19, <1>20

-----------------------------------------------------------------------------
(* What the recursive functions of the guess and the walk compute.         *)

\* Stretches satisfies its recursive equation.
LEMMA StretchesDef ==
  ASSUME NEW pre, NEW s
  PROVE  /\ Stretches(pre, s)[0] = s
         /\ \A k \in Nat : Stretches(pre, s)[k + 1] = StretchStep(pre, Stretches(pre, s)[k])
<1> DEFINE Base == s
           Step(v, n) == StretchStep(pre, v)
           Good(g, m) == g = [n \in 0 .. m |->
                                 IF n = 0 THEN Base ELSE Step(g[n - 1], n)]
           S == {m \in Nat : \E g : Good(g, m)}
           Full(f) == f = [n \in Nat |-> IF n = 0 THEN Base ELSE Step(f[n - 1], n)]
<1>0. Stretches(pre, s) = CHOOSE f : Full(f) BY DEF Stretches
<1> HIDE DEF Base, Step
<1>1. 0 \in S
  <2> DEFINE e == [n \in 0 .. 0 |-> Base]
  <2>1. Good(e, 0) OBVIOUS
  <2> HIDE DEF e, Good
  <2>2. \E g : Good(g, 0) BY <2>1
  <2> QED BY <2>2
<1>2. ASSUME NEW m \in Nat, m \in S PROVE m + 1 \in S
  <2>1. PICK g : Good(g, m) BY <1>2
  <2> DEFINE e == [n \in 0 .. (m + 1) |->
                     IF n = m + 1 THEN Step(g[m], m + 1) ELSE g[n]]
  <2>2. \A n \in 0 .. m : g[n] = IF n = 0 THEN Base ELSE Step(g[n - 1], n) BY <2>1
  <2>3. \A n \in 0 .. (m + 1) : e[n] = IF n = 0 THEN Base ELSE Step(e[n - 1], n)
    BY <2>2
  <2>4. Good(e, m + 1) BY <2>3
  <2> HIDE DEF e, Good
  <2>5. \E f : Good(f, m + 1) BY <2>4
  <2> QED BY <2>5
<1>3. \A m \in Nat : m \in S
  <2> HIDE DEF S
  <2> QED BY <1>1, <1>2, NatSetInduction
<1> DEFINE G(m) == CHOOSE g : Good(g, m)
<1>4. \A m \in Nat : Good(G(m), m) BY <1>3
<1> HIDE DEF G
<1>5. ASSUME NEW m \in Nat PROVE \A n \in 0 .. m : G(m)[n] = G(m + 1)[n]
  <2> DEFINE T == {n \in Nat : n \in 0 .. m => G(m)[n] = G(m + 1)[n]}
  <2>1. /\ \A n \in 0 .. m : G(m)[n] = IF n = 0 THEN Base ELSE Step(G(m)[n - 1], n)
        /\ \A n \in 0 .. (m + 1) :
              G(m + 1)[n] = IF n = 0 THEN Base ELSE Step(G(m + 1)[n - 1], n)
    BY <1>4
  <2>2. 0 \in T BY <2>1
  <2>3. ASSUME NEW n \in Nat, n \in T PROVE n + 1 \in T BY <2>1, <2>3
  <2>4. \A n \in Nat : n \in T
    <3> HIDE DEF T
    <3> QED BY <2>2, <2>3, NatSetInduction
  <2> QED BY <2>4
<1> DEFINE F == [n \in Nat |-> G(n)[n]]
<1>6. Full(F)
  <2>1. ASSUME NEW n \in Nat PROVE F[n] = IF n = 0 THEN Base ELSE Step(F[n - 1], n)
    <3>1. G(n)[n] = IF n = 0 THEN Base ELSE Step(G(n)[n - 1], n) BY <1>4
    <3>2. n # 0 => n - 1 \in Nat /\ (n - 1) + 1 = n OBVIOUS
    <3>3. n # 0 => G(n - 1)[n - 1] = G(n)[n - 1] BY <3>2, <1>5
    <3> QED BY <3>1, <3>2, <3>3
  <2> QED BY <2>1
<1>7. PICK L : L = Stretches(pre, s) OBVIOUS
<1>8. Full(L)
  <2> HIDE DEF F, Full
  <2> QED BY <1>0, <1>6, <1>7
<1>9. \A n \in Nat : L[n] = IF n = 0 THEN Base ELSE Step(L[n - 1], n) BY <1>8
<1>10. L[0] = Base /\ \A n \in Nat : L[n + 1] = Step(L[n], n + 1)
  <2>1. \A n \in Nat : (n + 1) - 1 = n /\ n + 1 \in Nat /\ n + 1 # 0 OBVIOUS
  <2> QED BY <1>9, <2>1
<1> QED BY <1>7, <1>10 DEF Base, Step

\* Calls satisfies its recursive equation.
LEMMA CallsDef ==
  ASSUME NEW pre, NEW s
  PROVE  /\ Calls(pre, s)[0] = {s}
         /\ \A k \in Nat : Calls(pre, s)[k + 1] = UNION {Below(pre, c) : c \in Calls(pre, s)[k]}
<1> DEFINE Base == {s}
           Step(v, n) == UNION {Below(pre, c) : c \in v}
           Good(g, m) == g = [n \in 0 .. m |->
                                 IF n = 0 THEN Base ELSE Step(g[n - 1], n)]
           S == {m \in Nat : \E g : Good(g, m)}
           Full(f) == f = [n \in Nat |-> IF n = 0 THEN Base ELSE Step(f[n - 1], n)]
<1>0. Calls(pre, s) = CHOOSE f : Full(f) BY DEF Calls
<1> HIDE DEF Base, Step
<1>1. 0 \in S
  <2> DEFINE e == [n \in 0 .. 0 |-> Base]
  <2>1. Good(e, 0) OBVIOUS
  <2> HIDE DEF e, Good
  <2>2. \E g : Good(g, 0) BY <2>1
  <2> QED BY <2>2
<1>2. ASSUME NEW m \in Nat, m \in S PROVE m + 1 \in S
  <2>1. PICK g : Good(g, m) BY <1>2
  <2> DEFINE e == [n \in 0 .. (m + 1) |->
                     IF n = m + 1 THEN Step(g[m], m + 1) ELSE g[n]]
  <2>2. \A n \in 0 .. m : g[n] = IF n = 0 THEN Base ELSE Step(g[n - 1], n) BY <2>1
  <2>3. \A n \in 0 .. (m + 1) : e[n] = IF n = 0 THEN Base ELSE Step(e[n - 1], n)
    BY <2>2
  <2>4. Good(e, m + 1) BY <2>3
  <2> HIDE DEF e, Good
  <2>5. \E f : Good(f, m + 1) BY <2>4
  <2> QED BY <2>5
<1>3. \A m \in Nat : m \in S
  <2> HIDE DEF S
  <2> QED BY <1>1, <1>2, NatSetInduction
<1> DEFINE G(m) == CHOOSE g : Good(g, m)
<1>4. \A m \in Nat : Good(G(m), m) BY <1>3
<1> HIDE DEF G
<1>5. ASSUME NEW m \in Nat PROVE \A n \in 0 .. m : G(m)[n] = G(m + 1)[n]
  <2> DEFINE T == {n \in Nat : n \in 0 .. m => G(m)[n] = G(m + 1)[n]}
  <2>1. /\ \A n \in 0 .. m : G(m)[n] = IF n = 0 THEN Base ELSE Step(G(m)[n - 1], n)
        /\ \A n \in 0 .. (m + 1) :
              G(m + 1)[n] = IF n = 0 THEN Base ELSE Step(G(m + 1)[n - 1], n)
    BY <1>4
  <2>2. 0 \in T BY <2>1
  <2>3. ASSUME NEW n \in Nat, n \in T PROVE n + 1 \in T BY <2>1, <2>3
  <2>4. \A n \in Nat : n \in T
    <3> HIDE DEF T
    <3> QED BY <2>2, <2>3, NatSetInduction
  <2> QED BY <2>4
<1> DEFINE F == [n \in Nat |-> G(n)[n]]
<1>6. Full(F)
  <2>1. ASSUME NEW n \in Nat PROVE F[n] = IF n = 0 THEN Base ELSE Step(F[n - 1], n)
    <3>1. G(n)[n] = IF n = 0 THEN Base ELSE Step(G(n)[n - 1], n) BY <1>4
    <3>2. n # 0 => n - 1 \in Nat /\ (n - 1) + 1 = n OBVIOUS
    <3>3. n # 0 => G(n - 1)[n - 1] = G(n)[n - 1] BY <3>2, <1>5
    <3> QED BY <3>1, <3>2, <3>3
  <2> QED BY <2>1
<1>7. PICK L : L = Calls(pre, s) OBVIOUS
<1>8. Full(L)
  <2> HIDE DEF F, Full
  <2> QED BY <1>0, <1>6, <1>7
<1>9. \A n \in Nat : L[n] = IF n = 0 THEN Base ELSE Step(L[n - 1], n) BY <1>8
<1>10. L[0] = Base /\ \A n \in Nat : L[n + 1] = Step(L[n], n + 1)
  <2>1. \A n \in Nat : (n + 1) - 1 = n /\ n + 1 \in Nat /\ n + 1 # 0 OBVIOUS
  <2> QED BY <1>9, <2>1
<1> QED BY <1>7, <1>10 DEF Base, Step

\* DescendSteps satisfies its recursive equation.
LEMMA DescendStepsDef ==
  ASSUME NEW u, NEW length, NEW word
  PROVE  /\ DescendSteps(u, length, word)[0] = u
         /\ \A k \in Nat :
               DescendSteps(u, length, word)[k + 1] =
               DescendStep(DescendSteps(u, length, word)[k],
                           (word \div Pow2[length - (k + 1)]) % 2)
<1> DEFINE Base == u
           Step(v, n) == DescendStep(v, (word \div Pow2[length - n]) % 2)
           Good(g, m) == g = [n \in 0 .. m |->
                                 IF n = 0 THEN Base ELSE Step(g[n - 1], n)]
           S == {m \in Nat : \E g : Good(g, m)}
           Full(f) == f = [n \in Nat |-> IF n = 0 THEN Base ELSE Step(f[n - 1], n)]
<1>0. DescendSteps(u, length, word) = CHOOSE f : Full(f) BY DEF DescendSteps
<1> HIDE DEF Base, Step
<1>1. 0 \in S
  <2> DEFINE e == [n \in 0 .. 0 |-> Base]
  <2>1. Good(e, 0) OBVIOUS
  <2> HIDE DEF e, Good
  <2>2. \E g : Good(g, 0) BY <2>1
  <2> QED BY <2>2
<1>2. ASSUME NEW m \in Nat, m \in S PROVE m + 1 \in S
  <2>1. PICK g : Good(g, m) BY <1>2
  <2> DEFINE e == [n \in 0 .. (m + 1) |->
                     IF n = m + 1 THEN Step(g[m], m + 1) ELSE g[n]]
  <2>2. \A n \in 0 .. m : g[n] = IF n = 0 THEN Base ELSE Step(g[n - 1], n) BY <2>1
  <2>3. \A n \in 0 .. (m + 1) : e[n] = IF n = 0 THEN Base ELSE Step(e[n - 1], n)
    BY <2>2
  <2>4. Good(e, m + 1) BY <2>3
  <2> HIDE DEF e, Good
  <2>5. \E f : Good(f, m + 1) BY <2>4
  <2> QED BY <2>5
<1>3. \A m \in Nat : m \in S
  <2> HIDE DEF S
  <2> QED BY <1>1, <1>2, NatSetInduction
<1> DEFINE G(m) == CHOOSE g : Good(g, m)
<1>4. \A m \in Nat : Good(G(m), m) BY <1>3
<1> HIDE DEF G
<1>5. ASSUME NEW m \in Nat PROVE \A n \in 0 .. m : G(m)[n] = G(m + 1)[n]
  <2> DEFINE T == {n \in Nat : n \in 0 .. m => G(m)[n] = G(m + 1)[n]}
  <2>1. /\ \A n \in 0 .. m : G(m)[n] = IF n = 0 THEN Base ELSE Step(G(m)[n - 1], n)
        /\ \A n \in 0 .. (m + 1) :
              G(m + 1)[n] = IF n = 0 THEN Base ELSE Step(G(m + 1)[n - 1], n)
    BY <1>4
  <2>2. 0 \in T BY <2>1
  <2>3. ASSUME NEW n \in Nat, n \in T PROVE n + 1 \in T BY <2>1, <2>3
  <2>4. \A n \in Nat : n \in T
    <3> HIDE DEF T
    <3> QED BY <2>2, <2>3, NatSetInduction
  <2> QED BY <2>4
<1> DEFINE F == [n \in Nat |-> G(n)[n]]
<1>6. Full(F)
  <2>1. ASSUME NEW n \in Nat PROVE F[n] = IF n = 0 THEN Base ELSE Step(F[n - 1], n)
    <3>1. G(n)[n] = IF n = 0 THEN Base ELSE Step(G(n)[n - 1], n) BY <1>4
    <3>2. n # 0 => n - 1 \in Nat /\ (n - 1) + 1 = n OBVIOUS
    <3>3. n # 0 => G(n - 1)[n - 1] = G(n)[n - 1] BY <3>2, <1>5
    <3> QED BY <3>1, <3>2, <3>3
  <2> QED BY <2>1
<1>7. PICK L : L = DescendSteps(u, length, word) OBVIOUS
<1>8. Full(L)
  <2> HIDE DEF F, Full
  <2> QED BY <1>0, <1>6, <1>7
<1>9. \A n \in Nat : L[n] = IF n = 0 THEN Base ELSE Step(L[n - 1], n) BY <1>8
<1>10. L[0] = Base /\ \A n \in Nat : L[n + 1] = Step(L[n], n + 1)
  <2>1. \A n \in Nat : (n + 1) - 1 = n /\ n + 1 \in Nat /\ n + 1 # 0 OBVIOUS
  <2> QED BY <1>9, <2>1
<1> QED BY <1>7, <1>10 DEF Base, Step

\* One round of the loop of get_descents: it stays where the leaves part.
LEMMA StretchStepIs ==
  ASSUME NEW pre, NEW prev, NEW mods, GuessCtx(pre, prev, mods), NEW L,
         L = LiveSet(prev, mods), NEW s, NEW h, NEW i, PlaceAt(prev, mods, s, h, i),
         Mod(mods, h, i)
  PROVE  \/ (h = 0 \/ Parts(L, h, i)) /\ StretchStep(pre, s) = s
         \/ /\ h > 0 /\ ~Parts(L, h, i)
            /\ \E j \in Nat : /\ PlaceAt(prev, mods, StretchStep(pre, s), h - 1, j)
                              /\ Mod(mods, h - 1, j)
                              /\ Und(L, h - 1, j) = Und(L, h, i)
<1> USE NodesAssumption
<1>1. h \in 0 .. Height /\ i \in Positions(Height - h) /\ h \in Nat BY DEF PlaceAt
<1>2. i \in Nat
  <2>1. Height - h \in Nat BY <1>1
  <2> QED BY <1>1, <2>1, PositionsNat
<1>3. prev \in Tree /\ IsMods(mods) BY DEF GuessCtx
<1>4. L \subseteq Index /\ L \subseteq Nat BY <1>3, LiveType
<1>5. s.height = h BY DEF PlaceAt, Place
<1>6. CASE h = 0 BY <1>5, <1>6 DEF StretchStep
<1>7. CASE h # 0
  <2>1. PICK g \in Nat : h = g + 1 /\ g = h - 1
    <3>1. h - 1 \in Nat /\ h = (h - 1) + 1 BY <1>1, <1>7
    <3> QED BY <3>1
  <2>2. PICK l, r : l = Left(pre, s) /\ r = Right(pre, s) OBVIOUS
  <2>3. /\ CanDescend(pre, s) /\ PlaceAt(prev, mods, l, g, 2 * i)
        /\ PlaceAt(prev, mods, r, g, 2 * i + 1)
    BY <2>1, <2>2, PlaceChildren
  <2>4. /\ Nothing(l) <=> Und(L, g, 2 * i) = {}
        /\ Nothing(r) <=> Und(L, g, 2 * i + 1) = {}
    BY <1>3, <2>3, NothingIff
  <2>5. StretchStep(pre, s) = IF Nothing(l) THEN r ELSE IF Nothing(r) THEN l ELSE s
    BY <1>5, <1>7, <2>2, <2>3 DEF StretchStep
  <2>6. Mod(mods, g, 2 * i) \/ Mod(mods, g, 2 * i + 1)
    <3>1. PICK m \in DOMAIN mods : Anc(m, g + 1) = i BY <2>1 DEF Mod
    <3>2. m \in Nat BY <1>3, NodesAssumption, PositionsNat DEF IsMods, Index
    <3>3. Anc(m, g) = 2 * i \/ Anc(m, g) = 2 * i + 1 BY <1>2, <3>1, <3>2, AncUp
    <3> QED BY <3>3 DEF Mod
  <2>7. /\ Mod(mods, g, 2 * i) => Und(L, g, 2 * i) # {}
        /\ Mod(mods, g, 2 * i + 1) => Und(L, g, 2 * i + 1) # {}
    BY <1>3, LiveType
  <2>8. CASE Parts(L, h, i)
    <3>1. Und(L, g, 2 * i) # {} /\ Und(L, g, 2 * i + 1) # {} BY <2>1, <2>8 DEF Parts
    <3> QED BY <2>4, <2>5, <2>8, <3>1
  <2>9. CASE ~Parts(L, h, i)
    <3>1. /\ Und(L, g, 2 * i) = {} => Und(L, g, 2 * i + 1) = Und(L, g + 1, i)
          /\ Und(L, g, 2 * i + 1) = {} => Und(L, g, 2 * i) = Und(L, g + 1, i)
          /\ Und(L, g, 2 * i) = {} \/ Und(L, g, 2 * i + 1) = {}
      BY <1>2, <1>4, <2>1, <2>9, OneSide
    <3>2. h > 0 BY <2>1
    <3>3. 2 * i \in Nat /\ 2 * i + 1 \in Nat BY <1>2
    <3>4. CASE Und(L, g, 2 * i) = {}
      <4>1. StretchStep(pre, s) = r BY <2>4, <2>5, <3>4
      <4>2. Mod(mods, g, 2 * i + 1) BY <2>6, <2>7, <3>4
      <4>3. PICK j \in Nat : j = 2 * i + 1 BY <3>3
      <4> QED BY <2>1, <2>3, <2>9, <3>1, <3>2, <3>4, <4>1, <4>2, <4>3
    <3>5. CASE Und(L, g, 2 * i) # {}
      <4>0. Und(L, g, 2 * i + 1) = {} BY <3>1, <3>5
      <4>1. StretchStep(pre, s) = l BY <2>4, <2>5, <3>5, <4>0
      <4>2. Mod(mods, g, 2 * i) BY <2>6, <2>7, <4>0
      <4>3. PICK j \in Nat : j = 2 * i BY <3>3
      <4> QED BY <2>1, <2>3, <2>9, <3>1, <3>2, <4>0, <4>1, <4>2, <4>3
    <3> QED BY <3>4, <3>5
  <2> QED BY <2>8, <2>9
<1> QED BY <1>6, <1>7

\* The loop ends where the leaves part, or at the leaf if there is one.
LEMMA StretchIs ==
  ASSUME NEW pre, NEW prev, NEW mods, GuessCtx(pre, prev, mods), NEW L,
         L = LiveSet(prev, mods), NEW s, NEW h, NEW i, PlaceAt(prev, mods, s, h, i),
         Mod(mods, h, i)
  PROVE  \E g, j : /\ IsStop(L, h, i, g, j)
                   /\ PlaceAt(prev, mods, Stretch(pre, s), g, j)
                   /\ Mod(mods, g, j)
<1> USE NodesAssumption
<1>1. h \in 0 .. Height /\ h \in Nat /\ i \in Nat
  <2>1. h \in 0 .. Height /\ i \in Positions(Height - h) BY DEF PlaceAt
  <2>2. h \in Nat /\ Height - h \in Nat BY <2>1
  <2> QED BY <2>1, <2>2, PositionsNat
<1>2. PICK f : f = Stretches(pre, s) OBVIOUS
<1>3. f[0] = s /\ \A k \in Nat : f[k + 1] = StretchStep(pre, f[k]) BY <1>2, StretchesDef
<1> DEFINE Good(k) == \E g \in 0 .. h, j \in Nat :
                         /\ PlaceAt(prev, mods, f[k], g, j) /\ Mod(mods, g, j)
                         /\ Und(L, g, j) = Und(L, h, i)
                         /\ g = 0 \/ Parts(L, g, j) \/ g + k <= h
           S == {k \in Nat : Good(k)}
<1>4. 0 \in S
  <2>1. h \in 0 .. h /\ h + 0 <= h BY <1>1
  <2>2. Good(0) BY <1>1, <1>3, <2>1
  <2> QED BY <2>2
<1>5. ASSUME NEW k \in Nat, k \in S PROVE k + 1 \in S
  <2>1. PICK g \in 0 .. h, j \in Nat :
           /\ PlaceAt(prev, mods, f[k], g, j) /\ Mod(mods, g, j)
           /\ Und(L, g, j) = Und(L, h, i)
           /\ g = 0 \/ Parts(L, g, j) \/ g + k <= h
    BY <1>5
  <2>2. PICK t : t = f[k] /\ f[k + 1] = StretchStep(pre, t) BY <1>3
  <2>3. \/ (g = 0 \/ Parts(L, g, j)) /\ StretchStep(pre, t) = t
        \/ /\ g > 0 /\ ~Parts(L, g, j)
           /\ \E q \in Nat : /\ PlaceAt(prev, mods, StretchStep(pre, t), g - 1, q)
                             /\ Mod(mods, g - 1, q)
                             /\ Und(L, g - 1, q) = Und(L, g, j)
    BY <2>1, <2>2, StretchStepIs
  <2>4. CASE (g = 0 \/ Parts(L, g, j)) /\ StretchStep(pre, t) = t
    <3>1. Good(k + 1) BY <2>1, <2>2, <2>4
    <3> QED BY <3>1
  <2>5. CASE /\ g > 0 /\ ~Parts(L, g, j)
             /\ \E q \in Nat : /\ PlaceAt(prev, mods, StretchStep(pre, t), g - 1, q)
                               /\ Mod(mods, g - 1, q)
                               /\ Und(L, g - 1, q) = Und(L, g, j)
    <3>1. PICK q \in Nat : /\ PlaceAt(prev, mods, StretchStep(pre, t), g - 1, q)
                           /\ Mod(mods, g - 1, q)
                           /\ Und(L, g - 1, q) = Und(L, g, j)
      BY <2>5
    <3>2. g - 1 \in 0 .. h /\ (g - 1) + (k + 1) <= h BY <1>1, <2>1, <2>5
    <3>3. PICK e \in 0 .. h : e = g - 1 BY <3>2
    <3>4. e + (k + 1) <= h BY <3>2, <3>3
    <3>5. /\ PlaceAt(prev, mods, f[k + 1], e, q) /\ Mod(mods, e, q)
          /\ Und(L, e, q) = Und(L, h, i)
      BY <2>1, <2>2, <3>1, <3>3
    <3>6. Good(k + 1) BY <3>4, <3>5
    <3> QED BY <3>6
  <2> QED BY <2>3, <2>4, <2>5
<1>6. \A k \in Nat : k \in S
  <2> HIDE DEF S
  <2> QED BY <1>4, <1>5, NatSetInduction
<1>7. Good(h) BY <1>1, <1>6
<1>8. PICK g \in 0 .. h, j \in Nat :
         /\ PlaceAt(prev, mods, f[h], g, j) /\ Mod(mods, g, j)
         /\ Und(L, g, j) = Und(L, h, i)
         /\ g = 0 \/ Parts(L, g, j) \/ g + h <= h
  BY <1>7
<1>9. s.height = h BY DEF PlaceAt, Place
<1>10. Stretch(pre, s) = f[h] BY <1>2, <1>9 DEF Stretch
<1>11. g = 0 \/ Parts(L, g, j) BY <1>1, <1>8
<1>12. IsStop(L, h, i, g, j) BY <1>8, <1>11 DEF IsStop
<1> QED BY <1>8, <1>10, <1>12

-----------------------------------------------------------------------------
(* The calls of get_descents.                                              *)

\* The root, or a place below one where the leaves part.
Start(L, h, i) == h = Height \/ Parts(L, h + 1, i \div 2)

LEMMA ReturnsIff ==
  ASSUME NEW prev, NEW mods, IsMods(mods), NEW s, NEW h, NEW i,
         PlaceAt(prev, mods, s, h, i)
  PROVE  /\ s.height = h /\ s.path = i /\ h \in Nat /\ i \in Nat
         /\ ReturnsAtOnce(s) <=> ~Mod(mods, h, i) \/ h = 0
<1> USE NodesAssumption
<1>1. h \in 0 .. Height /\ i \in Positions(Height - h) BY DEF PlaceAt
<1>2. h \in Nat /\ Height - h \in Nat BY <1>1
<1>3. i \in Nat BY <1>1, <1>2, PositionsNat
<1>4. s.height = h /\ s.path = i /\ s.trees[1] = UpdateAt(mods, h, i)
  BY DEF PlaceAt, Place
<1>5. UpdateAt(mods, h, i) = NoUpdate <=> ~Mod(mods, h, i) BY <1>2, UpdateAtIs
<1> QED BY <1>2, <1>3, <1>4, <1>5 DEF ReturnsAtOnce

LEMMA BelowIs ==
  ASSUME NEW pre, NEW prev, NEW mods, GuessCtx(pre, prev, mods), NEW L,
         L = LiveSet(prev, mods), NEW c, NEW h, NEW i, PlaceAt(prev, mods, c, h, i),
         NEW stop, stop = Stretch(pre, c)
  PROVE  /\ ~Mod(mods, h, i) \/ h = 0 => Below(pre, c) = {}
         /\ Mod(mods, h, i) /\ h # 0 =>
              \/ stop.height = 0 /\ Below(pre, c) = {}
              \/ \E g, j \in Nat :
                    /\ IsStop(L, h, i, g + 1, j) /\ stop.height = g + 1
                    /\ Parts(L, g + 1, j)
                    /\ CanDescend(pre, stop)
                    /\ Below(pre, c) = {Left(pre, stop), Right(pre, stop)}
                    /\ PlaceAt(prev, mods, Left(pre, stop), g, 2 * j)
                    /\ PlaceAt(prev, mods, Right(pre, stop), g, 2 * j + 1)
<1>1. IsMods(mods) BY DEF GuessCtx
<1>2. ReturnsAtOnce(c) <=> ~Mod(mods, h, i) \/ h = 0 BY <1>1, ReturnsIff
<1>3. ReturnsAtOnce(c) => Below(pre, c) = {} BY DEF Below
<1>4. ASSUME Mod(mods, h, i), h # 0
      PROVE  \/ stop.height = 0 /\ Below(pre, c) = {}
             \/ \E g, j \in Nat :
                   /\ IsStop(L, h, i, g + 1, j) /\ stop.height = g + 1
                   /\ Parts(L, g + 1, j)
                   /\ CanDescend(pre, stop)
                   /\ Below(pre, c) = {Left(pre, stop), Right(pre, stop)}
                   /\ PlaceAt(prev, mods, Left(pre, stop), g, 2 * j)
                   /\ PlaceAt(prev, mods, Right(pre, stop), g, 2 * j + 1)
  <2>1. PICK e, j : /\ IsStop(L, h, i, e, j) /\ PlaceAt(prev, mods, stop, e, j)
                    /\ Mod(mods, e, j)
    BY <1>4, StretchIs
  <2>2. stop.height = e /\ e \in Nat /\ j \in Nat BY <1>1, <2>1, ReturnsIff
  <2>3. CASE e = 0 BY <2>2, <2>3 DEF Below
  <2>4. CASE e # 0
    <3>1. PICK g \in Nat : e = g + 1
      <4>1. e - 1 \in Nat /\ e = (e - 1) + 1 BY <2>2, <2>4
      <4> QED BY <4>1
    <3>2. /\ CanDescend(pre, stop)
          /\ PlaceAt(prev, mods, Left(pre, stop), g, 2 * j)
          /\ PlaceAt(prev, mods, Right(pre, stop), g, 2 * j + 1)
      BY <2>1, <3>1, PlaceChildren
    <3>3. ~ReturnsAtOnce(c) BY <1>2, <1>4
    <3>4. Below(pre, c) = {Left(pre, stop), Right(pre, stop)}
      BY <2>2, <2>4, <3>2, <3>3 DEF Below
    <3>5. Parts(L, g + 1, j) BY <2>1, <2>4, <3>1 DEF IsStop
    <3> QED BY <2>1, <2>2, <3>1, <3>2, <3>4, <3>5
  <2> QED BY <2>3, <2>4
<1> QED BY <1>2, <1>3, <1>4

\* Every call is at the root or below a place where the leaves part.
LEMMA CallsAt ==
  ASSUME NEW pre, NEW prev, NEW mods, GuessCtx(pre, prev, mods), NEW L,
         L = LiveSet(prev, mods), NEW root, PlaceAt(prev, mods, root, Height, 0)
  PROVE  \A k \in Nat : \A c \in Calls(pre, root)[k] :
            \E h, i : /\ PlaceAt(prev, mods, c, h, i) /\ h + k <= Height
                      /\ Start(L, h, i)
<1> USE NodesAssumption
<1>1. PICK f : f = Calls(pre, root) OBVIOUS
<1>2. f[0] = {root} /\ \A k \in Nat : f[k + 1] = UNION {Below(pre, c) : c \in f[k]}
  BY <1>1, CallsDef
<1>3. IsMods(mods) BY DEF GuessCtx
<1> DEFINE Good(k) == \A c \in f[k] :
                         \E h, i : /\ PlaceAt(prev, mods, c, h, i) /\ h + k <= Height
                                   /\ Start(L, h, i)
           S == {k \in Nat : Good(k)}
<1>4. 0 \in S
  <2>1. Start(L, Height, 0) /\ Height + 0 <= Height BY DEF Start
  <2>2. Good(0) BY <1>2, <2>1
  <2> QED BY <2>2
<1>5. ASSUME NEW k \in Nat, k \in S PROVE k + 1 \in S
  <2>1. ASSUME NEW d \in f[k + 1]
        PROVE  \E h, i : /\ PlaceAt(prev, mods, d, h, i) /\ h + (k + 1) <= Height
                         /\ Start(L, h, i)
    <3>1. PICK c \in f[k] : d \in Below(pre, c) BY <1>2, <2>1
    <3>2. PICK h, i : PlaceAt(prev, mods, c, h, i) /\ h + k <= Height
      BY <1>5
    <3>3. PICK stop : stop = Stretch(pre, c) OBVIOUS
    <3>4. \E g, j \in Nat :
             /\ IsStop(L, h, i, g + 1, j) /\ stop.height = g + 1
             /\ Parts(L, g + 1, j)
             /\ CanDescend(pre, stop)
             /\ Below(pre, c) = {Left(pre, stop), Right(pre, stop)}
             /\ PlaceAt(prev, mods, Left(pre, stop), g, 2 * j)
             /\ PlaceAt(prev, mods, Right(pre, stop), g, 2 * j + 1)
      BY <3>1, <3>2, <3>3, BelowIs
    <3>5. PICK g \in Nat, j \in Nat :
             /\ IsStop(L, h, i, g + 1, j)
             /\ Parts(L, g + 1, j)
             /\ Below(pre, c) = {Left(pre, stop), Right(pre, stop)}
             /\ PlaceAt(prev, mods, Left(pre, stop), g, 2 * j)
             /\ PlaceAt(prev, mods, Right(pre, stop), g, 2 * j + 1)
      BY <3>4
    <3>6. g + (k + 1) <= Height
      <4>1. h \in Nat BY <1>3, <3>2, ReturnsIff
      <4>2. g + 1 \in 0 .. h BY <3>5 DEF IsStop
      <4> QED BY <3>2, <4>1, <4>2
    <3>7. (2 * j) \div 2 = j /\ (2 * j + 1) \div 2 = j OBVIOUS
    <3>8. Start(L, g, 2 * j) /\ Start(L, g, 2 * j + 1) BY <3>5, <3>7 DEF Start
    <3> QED BY <3>1, <3>5, <3>6, <3>8
  <2>2. Good(k + 1) BY <2>1
  <2> QED BY <2>2
<1>6. \A k \in Nat : k \in S
  <2> HIDE DEF S
  <2> QED BY <1>4, <1>5, NatSetInduction
<1> QED BY <1>1, <1>6

\* A modified place is on the stretch of a call; a start is where it begins.
OnCall(prev, mods, L, calls, h, i) ==
    \E c \in calls : \E e \in h .. Height : \E p, g, j :
       /\ PlaceAt(prev, mods, c, e, p) /\ Mod(mods, e, p)
       /\ Und(L, h, i) = Und(L, e, p)
       /\ IsStop(L, e, p, g, j) /\ g <= h
       /\ Start(L, h, i) => e = h /\ p = i

LEMMA AllOnCall ==
  ASSUME NEW pre, NEW prev, NEW mods, GuessCtx(pre, prev, mods), NEW L,
         L = LiveSet(prev, mods), NEW root, PlaceAt(prev, mods, root, Height, 0)
  PROVE  \A h \in 1 .. Height : \A i : Mod(mods, h, i) =>
            \E k \in 0 .. (Height - h) :
               OnCall(prev, mods, L, Calls(pre, root)[k], h, i)
<1> USE NodesAssumption
<1>1. PICK f : f = Calls(pre, root) OBVIOUS
<1>2. f[0] = {root} /\ \A k \in Nat : f[k + 1] = UNION {Below(pre, c) : c \in f[k]}
  BY <1>1, CallsDef
<1>3. prev \in Tree /\ IsMods(mods) /\ DOMAIN mods \subseteq Index
  BY DEF GuessCtx, IsMods
<1>4. L \subseteq Index /\ L \subseteq Nat /\ \A h, i : Mod(mods, h, i) => Und(L, h, i) # {}
  BY <1>3, LiveType
<1> DEFINE Good(h) == \A i : Mod(mods, h, i) =>
                         \E k \in 0 .. (Height - h) : OnCall(prev, mods, L, f[k], h, i)
           S == {d \in Nat : d < Height => Good(Height - d)}
<1>5. ASSUME NEW c, NEW h, NEW i, PlaceAt(prev, mods, c, h, i), Mod(mods, h, i),
             NEW calls, c \in calls
      PROVE  OnCall(prev, mods, L, calls, h, i)
  <2>1. PICK g, j : IsStop(L, h, i, g, j) BY <1>5, StretchIs
  <2>2. h \in 0 .. Height BY <1>5 DEF PlaceAt
  <2>3. h \in h .. Height /\ g <= h BY <2>1, <2>2 DEF IsStop
  <2> QED BY <1>5, <2>1, <2>3 DEF OnCall
<1>6. 0 \in S
  <2>1. ASSUME NEW i, Mod(mods, Height, i) PROVE OnCall(prev, mods, L, f[0], Height, i)
    <3>1. PICK m \in DOMAIN mods : Anc(m, Height) = i BY <2>1 DEF Mod
    <3>2. Height \in 0 .. Height OBVIOUS
    <3>3. i = 0 BY <1>3, <3>1, <3>2, AncPosition
    <3> QED BY <1>2, <1>5, <2>1, <3>3
  <2>2. 0 \in 0 .. (Height - Height) OBVIOUS
  <2>3. Good(Height) BY <2>1, <2>2
  <2> HIDE DEF Good
  <2> QED BY <2>3
<1>7. ASSUME NEW d \in Nat, d \in S PROVE d + 1 \in S
  <2> SUFFICES ASSUME d + 1 < Height PROVE Good(Height - (d + 1)) OBVIOUS
  <2>1. PICK h \in Nat : h = Height - (d + 1) /\ h + 1 = Height - d /\ h < Height
    OBVIOUS
  <2>2. Good(h + 1)
    <3> HIDE DEF Good
    <3> QED BY <1>7, <2>1
  <2>3. ASSUME NEW i, Mod(mods, h, i)
        PROVE  \E k \in 0 .. (Height - h) : OnCall(prev, mods, L, f[k], h, i)
    <3>1. PICK m \in DOMAIN mods : Anc(m, h) = i BY <2>3 DEF Mod
    <3>2. h \in 0 .. Height /\ m \in Index BY <1>3, <2>1
    <3>3. i \in Nat /\ m \in Nat BY <3>1, <3>2, AncHere
    <3>4. PICK q \in Nat : q = i \div 2 BY <3>3
    <3>5. Anc(m, h + 1) = q BY <2>1, <3>1, <3>3, <3>4, AncUp
    <3>6. i = 2 * q \/ i = 2 * q + 1 BY <3>3, <3>4
    <3>7. Mod(mods, h + 1, q) BY <3>5 DEF Mod
    <3>8. PICK k \in 0 .. (Height - (h + 1)) : OnCall(prev, mods, L, f[k], h + 1, q)
      BY <2>2, <3>7
    <3>14. PICK c \in f[k] : \E e \in (h + 1) .. Height : \E p, g, j :
             /\ PlaceAt(prev, mods, c, e, p) /\ Mod(mods, e, p)
             /\ Und(L, h + 1, q) = Und(L, e, p)
             /\ IsStop(L, e, p, g, j) /\ g <= h + 1
      BY <3>8 DEF OnCall
    <3>15. PICK e \in (h + 1) .. Height : \E p, g, j :
             /\ PlaceAt(prev, mods, c, e, p) /\ Mod(mods, e, p)
             /\ Und(L, h + 1, q) = Und(L, e, p)
             /\ IsStop(L, e, p, g, j) /\ g <= h + 1
      BY <3>14
    <3>9. PICK p, g, j :
             /\ PlaceAt(prev, mods, c, e, p) /\ Mod(mods, e, p)
             /\ Und(L, h + 1, q) = Und(L, e, p)
             /\ IsStop(L, e, p, g, j) /\ g <= h + 1
      BY <3>15
    <3>10. /\ k \in Nat /\ k \in 0 .. (Height - h) /\ k + 1 \in 0 .. (Height - h)
           /\ e \in h .. Height /\ e \in Nat /\ e # 0 /\ h + 1 \in 0 .. e
      BY <2>1, <3>8, <3>9
    <3>11. g \in Nat /\ j \in Nat BY <3>9, <3>10 DEF IsStop
    <3>12. CASE Parts(L, h + 1, q)
      <4>1. IsStop(L, e, p, h + 1, q) BY <3>4, <3>9, <3>10, <3>12 DEF IsStop
      <4>2. Und(L, e, p) # {} BY <1>4, <3>9
      <4>3. PICK stop : stop = Stretch(pre, c) OBVIOUS
      <4>4. PICK g2, j2 : IsStop(L, e, p, g2, j2) /\ PlaceAt(prev, mods, stop, g2, j2)
        BY <3>9, <4>3, StretchIs
      <4>5. g2 = h + 1 /\ j2 = q BY <1>4, <3>10, <4>1, <4>2, <4>4, StopUnique
      <4>6. /\ PlaceAt(prev, mods, Left(pre, stop), h, 2 * q)
            /\ PlaceAt(prev, mods, Right(pre, stop), h, 2 * q + 1)
        BY <2>1, <3>7, <4>4, <4>5, PlaceChildren
      <4>7. \/ stop.height = 0
            \/ Below(pre, c) = {Left(pre, stop), Right(pre, stop)}
        BY <3>9, <3>10, <4>3, BelowIs
      <4>8. stop.height = h + 1 BY <1>3, <4>4, <4>5, ReturnsIff
      <4>9. Below(pre, c) = {Left(pre, stop), Right(pre, stop)} BY <2>1, <4>7, <4>8
      <4>10. Left(pre, stop) \in f[k + 1] /\ Right(pre, stop) \in f[k + 1]
        BY <1>2, <3>9, <3>10, <4>9
      <4>11. OnCall(prev, mods, L, f[k + 1], h, i)
        BY <1>5, <2>3, <3>6, <4>6, <4>10
      <4> QED BY <3>10, <4>11
    <3>13. CASE ~Parts(L, h + 1, q)
      <4>1. Und(L, h, i) # {} BY <1>4, <2>3
      <4>2. Und(L, h, i) = Und(L, h + 1, q)
        <5>1. /\ Und(L, h, 2 * q) = {} => Und(L, h, 2 * q + 1) = Und(L, h + 1, q)
              /\ Und(L, h, 2 * q + 1) = {} => Und(L, h, 2 * q) = Und(L, h + 1, q)
              /\ Und(L, h, 2 * q) = {} \/ Und(L, h, 2 * q + 1) = {}
          <6>1. L \subseteq Index /\ q \in Nat /\ h \in Nat BY <1>4, <3>4
          <6> QED BY <3>13, <6>1, OneSide
        <5>2. CASE i = 2 * q BY <4>1, <5>1, <5>2
        <5>3. CASE i = 2 * q + 1 BY <4>1, <5>1, <5>3
        <5> QED BY <3>6, <5>2, <5>3
      <4>3. g # h + 1
        <5> SUFFICES ASSUME g = h + 1 PROVE FALSE OBVIOUS
        <5>1. Parts(L, g, j) BY <2>1, <3>9 DEF IsStop
        <5>2. m \in Und(L, h + 1, q)
          <6>1. m \in L BY DEF LiveSet
          <6> QED BY <3>5, <6>1 DEF Und
        <5>3. m \in Und(L, g, j) BY <3>9, <5>2 DEF IsStop
        <5>4. j = q BY <3>5, <5>3 DEF Und
        <5> QED BY <3>13, <5>1, <5>4
      <4>4. g <= h BY <2>1, <3>9, <3>11, <4>3
      <4>5. ~Start(L, h, i) BY <2>1, <3>4, <3>13 DEF Start
      <4>6. OnCall(prev, mods, L, f[k], h, i)
        BY <3>9, <3>10, <4>2, <4>4, <4>5 DEF OnCall
      <4> QED BY <3>10, <4>6
    <3> QED BY <3>12, <3>13
  <2>4. Good(h) BY <2>3
  <2> HIDE DEF Good
  <2> QED BY <2>1, <2>4
<1>8. \A d \in Nat : d \in S
  <2> HIDE DEF S
  <2> QED BY <1>6, <1>7, NatSetInduction
<1>9. ASSUME NEW h \in 1 .. Height PROVE Good(h)
  <2> HIDE DEF Good
  <2>1. Height - h \in Nat /\ Height - h < Height /\ Height - (Height - h) = h OBVIOUS
  <2>2. PICK d \in Nat : d = Height - h /\ Height - d = h BY <2>1
  <2>3. Good(Height - d) BY <1>8, <2>1, <2>2
  <2> QED BY <2>2, <2>3
<1> QED BY <1>1, <1>9

-----------------------------------------------------------------------------
(* What the guess returns.                                                 *)

IsStart(L, mods, h, i) ==
    /\ h \in 1 .. Height /\ Mod(mods, h, i) /\ Start(L, h, i)
    /\ \E g, j : IsStop(L, h, i, g, j) /\ h - g > 1

\* The descents from the starts to where the leaves part.
DescentMap(L, mods, dm) ==
    /\ dm = [x \in DOMAIN dm |-> dm[x]]
    /\ \A x : x \in DOMAIN dm <=> \E h, i : x = <<h, i>> /\ IsStart(L, mods, h, i)
    /\ \A h, i, g, j : IsStart(L, mods, h, i) /\ IsStop(L, h, i, g, j) =>
          dm[<<h, i>>] = <<h - g, j % Pow2[h - g]>>

LEMMA DescentMapUnique ==
  ASSUME NEW L, NEW mods, NEW dm, NEW dm2, DescentMap(L, mods, dm), DescentMap(L, mods, dm2)
  PROVE  dm = dm2
<1>1. DOMAIN dm = DOMAIN dm2 BY DEF DescentMap
<1>2. ASSUME NEW x \in DOMAIN dm PROVE dm[x] = dm2[x]
  <2>1. PICK h, i : x = <<h, i>> /\ IsStart(L, mods, h, i) BY <1>2 DEF DescentMap
  <2>2. PICK g, j : IsStop(L, h, i, g, j) BY <2>1 DEF IsStart
  <2> QED BY <2>1, <2>2 DEF DescentMap
<1>3. dm = [x \in DOMAIN dm |-> dm[x]] /\ dm2 = [x \in DOMAIN dm2 |-> dm2[x]]
  BY DEF DescentMap
<1>4. [x \in DOMAIN dm |-> dm[x]] = [x \in DOMAIN dm2 |-> dm2[x]] BY <1>1, <1>2
<1> QED BY <1>3, <1>4

LEMMA GuessIs ==
  ASSUME NEW pre, NEW prev, NEW mods, GuessCtx(pre, prev, mods), NEW L,
         L = LiveSet(prev, mods), NEW root, PlaceAt(prev, mods, root, Height, 0),
         NEW guess, guess = get_descents(pre, root)
  PROVE  guess.ok /\ DescentMap(L, mods, guess.map)
<1> USE NodesAssumption
<1>1. IsMods(mods) /\ prev \in Tree BY DEF GuessCtx
<1>2. root.height = Height BY <1>1, ReturnsIff
<1>3. L \subseteq Nat /\ \A h, i : Mod(mods, h, i) => Und(L, h, i) # {}
  BY <1>1, LiveType
<1>4. PICK calls : calls = {c \in UNION {Calls(pre, root)[k] : k \in 0 .. Height} :
                               ~ReturnsAtOnce(c)}
  OBVIOUS
<1>5. PICK stop : stop = [c \in calls |-> Stretch(pre, c)] OBVIOUS
<1>6. PICK long : long = {c \in calls : c.height - stop[c].height > 1} OBVIOUS
<1>7. guess = [ok  |-> \A c \in calls : stop[c].height = 0 \/ CanDescend(pre, stop[c]),
               map |-> [x \in {<<c.height, c.path>> : c \in long} |->
                    Descent(CHOOSE c \in long : <<c.height, c.path>> = x,
                            stop[CHOOSE c \in long : <<c.height, c.path>> = x])]]
  BY <1>2, <1>4, <1>5, <1>6 DEF get_descents
<1>8. ASSUME NEW c \in calls
      PROVE  \E h, i, g, j :
                /\ c.height = h /\ c.path = i /\ h \in 1 .. Height /\ Mod(mods, h, i)
                /\ Start(L, h, i)
                /\ IsStop(L, h, i, g, j) /\ stop[c].height = g /\ stop[c].path = j
                /\ g = 0 \/ CanDescend(pre, stop[c])
  <2>1. PICK k \in 0 .. Height : c \in Calls(pre, root)[k] BY <1>4, <1>8
  <2>2. PICK h, i : PlaceAt(prev, mods, c, h, i) /\ h + k <= Height /\ Start(L, h, i)
    BY <2>1, CallsAt
  <2>3. ~ReturnsAtOnce(c) BY <1>4, <1>8
  <2>4. c.height = h /\ c.path = i /\ Mod(mods, h, i) /\ h # 0
    BY <1>1, <2>2, <2>3, ReturnsIff
  <2>5. h \in 1 .. Height
    <3>1. h \in 0 .. Height BY <2>2 DEF PlaceAt
    <3> QED BY <2>4, <3>1
  <2>6. stop[c] = Stretch(pre, c) BY <1>5, <1>8
  <2>7. PICK g, j : /\ IsStop(L, h, i, g, j) /\ PlaceAt(prev, mods, stop[c], g, j)
                    /\ Mod(mods, g, j)
    BY <2>2, <2>4, <2>6, StretchIs
  <2>8. stop[c].height = g /\ stop[c].path = j /\ g \in Nat BY <1>1, <2>7, ReturnsIff
  <2>9. g = 0 \/ CanDescend(pre, stop[c])
    <3>1. ASSUME g # 0 PROVE CanDescend(pre, stop[c])
      <4>1. PICK e \in Nat : g = e + 1
        <5>1. g - 1 \in Nat /\ g = (g - 1) + 1 BY <2>8, <3>1
        <5> QED BY <5>1
      <4> QED BY <2>7, <4>1, PlaceChildren
    <3> QED BY <3>1
  <2> QED BY <2>2, <2>4, <2>5, <2>7, <2>8, <2>9
<1>9. guess.ok
  <2>1. guess.ok = \A c \in calls : stop[c].height = 0 \/ CanDescend(pre, stop[c])
    BY <1>7
  <2>2. \A c \in calls : stop[c].height = 0 \/ CanDescend(pre, stop[c]) BY <1>8
  <2> QED BY <2>1, <2>2
<1>10. PICK dm : dm = guess.map OBVIOUS
<1>11. dm = [x \in {<<c.height, c.path>> : c \in long} |->
                    Descent(CHOOSE c \in long : <<c.height, c.path>> = x,
                            stop[CHOOSE c \in long : <<c.height, c.path>> = x])]
  BY <1>7, <1>10
<1>12. DOMAIN dm = {<<c.height, c.path>> : c \in long} BY <1>11
<1>13. dm = [x \in DOMAIN dm |-> dm[x]] BY <1>11
<1>14. ASSUME NEW x \in DOMAIN dm
       PROVE  \E h, i : x = <<h, i>> /\ IsStart(L, mods, h, i)
  <2>1. PICK c \in long : x = <<c.height, c.path>> BY <1>12
  <2>2. c \in calls /\ c.height - stop[c].height > 1 BY <1>6
  <2>3. PICK h, i, g, j :
                /\ c.height = h /\ c.path = i /\ h \in 1 .. Height /\ Mod(mods, h, i)
                /\ Start(L, h, i)
                /\ IsStop(L, h, i, g, j) /\ stop[c].height = g /\ stop[c].path = j
    BY <1>8, <2>2
  <2>4. IsStart(L, mods, h, i) BY <2>2, <2>3 DEF IsStart
  <2> QED BY <2>1, <2>3, <2>4
<1>15. ASSUME NEW h, NEW i, IsStart(L, mods, h, i), NEW g, NEW j, IsStop(L, h, i, g, j)
       PROVE  <<h, i>> \in DOMAIN dm /\ dm[<<h, i>>] = <<h - g, j % Pow2[h - g]>>
  <2>1. h \in 1 .. Height /\ Mod(mods, h, i) /\ Start(L, h, i) /\ h \in Nat
    BY <1>15 DEF IsStart
  <2>2. Und(L, h, i) # {} BY <1>3, <2>1
  <2>3. h - g > 1
    <3>1. PICK g2, j2 : IsStop(L, h, i, g2, j2) /\ h - g2 > 1 BY <1>15 DEF IsStart
    <3>2. g2 = g BY <1>3, <1>15, <2>1, <2>2, <3>1, StopUnique
    <3> QED BY <3>1, <3>2
  <2>4. ASSUME NEW c \in calls, c.height = h, c.path = i
        PROVE  stop[c].height = g /\ stop[c].path = j
    <3>1. PICK h2, i2, g2, j2 :
                /\ c.height = h2 /\ c.path = i2
                /\ IsStop(L, h2, i2, g2, j2) /\ stop[c].height = g2 /\ stop[c].path = j2
      BY <1>8, <2>4
    <3>2. h2 = h /\ i2 = i BY <2>4, <3>1
    <3>3. g2 = g /\ j2 = j BY <1>3, <1>15, <2>1, <2>2, <3>1, <3>2, StopUnique
    <3> QED BY <3>1, <3>3
  <2>5. \E c \in long : <<c.height, c.path>> = <<h, i>>
    <3>1. PICK k \in 0 .. (Height - h) :
             OnCall(prev, mods, L, Calls(pre, root)[k], h, i)
      BY <2>1, AllOnCall
    <3>2. PICK c \in Calls(pre, root)[k] : PlaceAt(prev, mods, c, h, i)
      BY <2>1, <3>1 DEF OnCall
    <3>3. c.height = h /\ c.path = i /\ ~ReturnsAtOnce(c)
      <4>1. h # 0 BY <2>1
      <4> QED BY <1>1, <2>1, <3>2, <4>1, ReturnsIff
    <3>4. k \in 0 .. Height BY <2>1, <3>1
    <3>5. c \in calls BY <1>4, <3>2, <3>3, <3>4
    <3>6. c \in long BY <1>6, <2>3, <2>4, <3>3, <3>5
    <3> QED BY <3>3, <3>6
  <2>6. PICK c : c = CHOOSE d \in long : <<d.height, d.path>> = <<h, i>> OBVIOUS
  <2>7. c \in long /\ <<c.height, c.path>> = <<h, i>> BY <2>5, <2>6
  <2>8. c \in calls /\ c.height = h /\ c.path = i BY <1>6, <2>7
  <2>9. stop[c].height = g /\ stop[c].path = j BY <2>4, <2>8
  <2>10. <<h, i>> \in DOMAIN dm BY <1>12, <2>7
  <2>11. dm[<<h, i>>] = Descent(c, stop[c]) BY <1>11, <1>12, <2>6, <2>10
  <2>12. Descent(c, stop[c]) = <<h - g, j % Pow2[h - g]>> BY <2>8, <2>9 DEF Descent
  <2> QED BY <2>10, <2>11, <2>12
<1>16. \A x : x \in DOMAIN dm <=> \E h, i : x = <<h, i>> /\ IsStart(L, mods, h, i)
  <2>1. ASSUME NEW h, NEW i, IsStart(L, mods, h, i) PROVE <<h, i>> \in DOMAIN dm
    <3>1. PICK g, j : IsStop(L, h, i, g, j) BY <2>1 DEF IsStart
    <3> QED BY <1>15, <2>1, <3>1
  <2> QED BY <1>14, <2>1
<1>17. DescentMap(L, mods, dm) BY <1>13, <1>15, <1>16 DEF DescentMap
<1> QED BY <1>9, <1>10, <1>17

LEMMA RootPlace ==
  ASSUME NEW pre, NEW prev, NEW mods, GuessCtx(pre, prev, mods), DOMAIN mods # {}
  PROVE  PlaceAt(prev, mods,
                 Place(Height, 0, <<build_update_tree(mods),
                                    canonic(pre, ReferenceRoot(prev)),
                                    canonic(pre, ReferenceRoot(Unify(prev, mods)))>>),
                 Height, 0)
<1> USE NodesAssumption
<1>1. PICK new : new = Unify(prev, mods) OBVIOUS
<1>2. /\ prev \in Tree /\ new \in Tree /\ IsMods(mods) /\ PreOK(pre)
      /\ Knows(pre, prev, DOMAIN mods) /\ Knows(pre, new, DOMAIN mods)
  BY <1>1, UnifyType DEF GuessCtx
<1>3. build_update_tree(mods) = UpdateAt(mods, Height, 0)
  BY <1>2, UpdateRoot DEF UpdateAt
<1>4. Height \in 0 .. Height /\ Height \in 1 .. Height /\ Height - Height = 0 OBVIOUS
<1>5. 0 \in Positions(Height - Height)
  <2>1. Pow2[0] = 1 BY Pow2Def
  <2> QED BY <1>4, <2>1 DEF Positions
<1>6. PICK m \in DOMAIN mods : TRUE OBVIOUS
<1>7. m \in Index BY <1>2 DEF IsMods
<1>8. Anc(m, Height) = 0 BY <1>4, <1>7, AncPosition
<1>9. Mod(mods, Height, 0) BY <1>8 DEF Mod
<1>10. ASSUME NEW tree \in Tree, Knows(pre, tree, DOMAIN mods)
       PROVE  TripOK(canonic(pre, ReferenceRoot(tree)), RNode(tree, Height, 0),
                     Mod(mods, Height, 0))
  <2>1. PICK n : n = RNode(tree, Height, 0) OBVIOUS
  <2>2. NodeOK(n, Height) BY <1>4, <1>5, <2>1, RNodeOK
  <2>3. ReferenceRoot(tree) = hash_node(n)
    BY <2>1 DEF ReferenceRoot, Reference, RNode, Ref
  <2>4. PICK mod \in BOOLEAN : mod = Mod(mods, Height, 0) BY DEF Mod
  <2>5. ASSUME mod, n.length # 0 PROVE hash_node(n) \in DOMAIN pre
    <3>1. ~is_empty(n) BY <2>2, <2>5 DEF NodeOK, is_empty, EMPTY_NODE_HASH
    <3>2. HashPoint(tree, Height, 0) BY DEF HashPoint
    <3> QED BY <1>4, <1>8, <1>10, <2>1, <3>1, <3>2 DEF Knows
  <2>6. TripOK(canonic(pre, hash_node(n)), n, mod) BY <1>2, <1>4, <2>2, <2>5, CanonicOK
  <2> QED BY <2>1, <2>3, <2>4, <2>6
<1> QED BY <1>1, <1>2, <1>3, <1>4, <1>5, <1>10 DEF PlaceAt

\* Descents by reference: from the leaves alone.
LEMMA PartingIs ==
  ASSUME NEW h \in Nat, NEW i, NEW g, NEW j, IsStop(Live, h, i, g, j),
         Live \subseteq Nat, Und(Live, h, i) # {}
  PROVE  Parting(h, i) = <<g, j>>
<1>1. \A k, p : LiveUnder(k, p) = Und(Live, k, p) BY DEF LiveUnder, Und, Anc
<1>2. \A k, p : PartsAt(k, p) <=> Parts(Live, k, p) BY <1>1 DEF PartsAt, Parts
<1> DEFINE C == {<<k, leaf \div Pow2[k]>> : k \in 0 .. h, leaf \in LiveUnder(h, i)}
           Q(p) == /\ LiveUnder(p[1], p[2]) = LiveUnder(h, i)
                   /\ p[1] = 0 \/ PartsAt(p[1], p[2])
<1>3. Parting(h, i) = CHOOSE p \in C : Q(p) BY DEF Parting
<1>4. g \in 0 .. h /\ Und(Live, g, j) = Und(Live, h, i) /\ (g = 0 \/ Parts(Live, g, j))
  BY DEF IsStop
<1>5. PICK leaf \in LiveUnder(h, i) : leaf \div Pow2[g] = j
  <2>1. PICK leaf : leaf \in Und(Live, h, i) OBVIOUS
  <2>2. leaf \in Und(Live, g, j) BY <1>4, <2>1
  <2>3. Anc(leaf, g) = j BY <2>2 DEF Und
  <2> QED BY <1>1, <2>1, <2>3 DEF Anc
<1>6. <<g, j>> \in C BY <1>4, <1>5
<1>7. Q(<<g, j>>)
  <2>1. LiveUnder(g, j) = LiveUnder(h, i) BY <1>1, <1>4
  <2>2. g = 0 \/ PartsAt(g, j) BY <1>2, <1>4
  <2> QED BY <2>1, <2>2
<1>8. ASSUME NEW p \in C, Q(p) PROVE p = <<g, j>>
  <2>1. PICK k \in 0 .. h, leaf2 \in LiveUnder(h, i) : p = <<k, leaf2 \div Pow2[k]>>
    BY <1>8
  <2>2. leaf2 \in Nat /\ k \in Nat
    <3>1. leaf2 \in Live BY <2>1 DEF LiveUnder
    <3> QED BY <2>1, <3>1
  <2>3. PICK q \in Nat : q = Anc(leaf2, k) BY <2>2, AncType
  <2>4. p = <<k, q>> BY <2>1, <2>3 DEF Anc
  <2>5. /\ LiveUnder(k, q) = LiveUnder(h, i)
        /\ k = 0 \/ PartsAt(k, q)
    BY <1>8, <2>4
  <2>6. Und(Live, k, q) = Und(Live, h, i) /\ (k = 0 \/ Parts(Live, k, q))
    BY <1>1, <1>2, <2>5
  <2>7. IsStop(Live, h, i, k, q) BY <2>1, <2>3, <2>6 DEF IsStop
  <2>8. k = g /\ q = j BY <2>7, StopUnique
  <2> QED BY <2>4, <2>8
<1> HIDE DEF C, Q
<1>9. PICK p : p = Parting(h, i) OBVIOUS
<1>10. p \in C /\ Q(p) BY <1>3, <1>6, <1>7, <1>9
<1> QED BY <1>8, <1>9, <1>10

LEMMA ReferenceIs ==
  ASSUME InputsInv, NEW pre, GuessCtx(pre, previous, modifications)
  PROVE  DescentMap(Live, modifications, ReferenceDescents)
<1> USE NodesAssumption
<1>1. PICK L : L = Live OBVIOUS
<1>2. L = LiveSet(previous, modifications) BY <1>1 DEF Live, LiveSet
<1>3. previous \in Tree /\ IsMods(modifications) BY DEF InputsInv
<1>4. /\ L \subseteq Index /\ L \subseteq Nat
      /\ \A h, i : Mod(modifications, h, i) => Und(L, h, i) # {}
  BY <1>2, <1>3, LiveType
<1>5. \A k, p : PartsAt(k, p) <=> Parts(L, k, p)
  BY <1>1 DEF PartsAt, Parts, LiveUnder, Und, Anc
<1>6. ASSUME NEW h \in 1 .. Height, NEW i, Mod(modifications, h, i)
      PROVE  \E g, j : IsStop(L, h, i, g, j) /\ Parting(h, i) = <<g, j>>
  <2>1. h \in Nat /\ h \in 0 .. Height BY <1>6
  <2>2. PICK m \in DOMAIN modifications : Anc(m, h) = i BY <1>6 DEF Mod
  <2>3. m \in Index BY <1>3, <2>2 DEF IsMods
  <2>4. DOMAIN modifications # {} BY <2>2
  <2>5. PICK root : PlaceAt(previous, modifications, root, Height, 0)
    BY <2>4, RootPlace
  <2>6. PICK k \in 0 .. (Height - h) :
           OnCall(previous, modifications, L, Calls(pre, root)[k], h, i)
    BY <1>2, <1>6, <2>5, AllOnCall
  <2>7. PICK e \in h .. Height : \E p, g, j :
           /\ Und(L, h, i) = Und(L, e, p) /\ IsStop(L, e, p, g, j) /\ g <= h
    BY <2>6 DEF OnCall
  <2>8. PICK p, g, j :
           /\ Und(L, h, i) = Und(L, e, p) /\ IsStop(L, e, p, g, j) /\ g <= h
    BY <2>7
  <2>9. IsStop(L, h, i, g, j)
    <3>1. g \in Nat BY <2>1, <2>7, <2>8 DEF IsStop
    <3>2. g \in 0 .. h BY <2>1, <2>8, <3>1
    <3> QED BY <2>8, <3>2 DEF IsStop
  <2>10. Parting(h, i) = <<g, j>> BY <1>1, <1>4, <1>6, <2>1, <2>9, PartingIs
  <2> QED BY <2>9, <2>10
<1>7. PICK starts :
         starts = {s \in (1 .. Height) \X Index :
                      /\ \E m \in DOMAIN modifications : m \div Pow2[s[1]] = s[2]
                      /\ s[1] = Height \/ PartsAt(s[1] + 1, s[2] \div 2)
                      /\ s[1] - Parting(s[1], s[2])[1] > 1}
  OBVIOUS
<1>8. PICK dm : dm = ReferenceDescents OBVIOUS
<1>9. dm = [s \in starts |->
              <<s[1] - Parting(s[1], s[2])[1],
                Parting(s[1], s[2])[2] - s[2] * Pow2[s[1] - Parting(s[1], s[2])[1]]>>]
  BY <1>7, <1>8 DEF ReferenceDescents
<1>10. DOMAIN dm = starts /\ dm = [x \in DOMAIN dm |-> dm[x]] BY <1>9
<1>11. ASSUME NEW x \in starts
       PROVE  \E h, i : x = <<h, i>> /\ IsStart(L, modifications, h, i)
  <2>1. PICK h \in 1 .. Height, i \in Index : x = <<h, i>> BY <1>7, <1>11
  <2>2. x[1] = h /\ x[2] = i BY <2>1
  <2>3. /\ \E m \in DOMAIN modifications : m \div Pow2[h] = i
        /\ h = Height \/ PartsAt(h + 1, i \div 2)
        /\ h - Parting(h, i)[1] > 1
    BY <1>7, <1>11, <2>2
  <2>4. Mod(modifications, h, i) BY <2>3 DEF Mod, Anc
  <2>5. Start(L, h, i) BY <1>5, <2>3 DEF Start
  <2>6. PICK g, j : IsStop(L, h, i, g, j) /\ Parting(h, i) = <<g, j>> BY <1>6, <2>4
  <2>7. h - g > 1 BY <2>3, <2>6
  <2>8. IsStart(L, modifications, h, i) BY <2>4, <2>5, <2>6, <2>7 DEF IsStart
  <2> QED BY <2>1, <2>8
<1>12. ASSUME NEW h, NEW i, IsStart(L, modifications, h, i), NEW g, NEW j,
              IsStop(L, h, i, g, j)
       PROVE  <<h, i>> \in starts /\ dm[<<h, i>>] = <<h - g, j % Pow2[h - g]>>
  <2>1. h \in 1 .. Height /\ Mod(modifications, h, i) /\ Start(L, h, i) /\ h \in Nat
        /\ h \in 0 .. Height
    BY <1>12 DEF IsStart
  <2>2. Und(L, h, i) # {} BY <1>4, <2>1
  <2>3. h - g > 1
    <3>1. PICK g2, j2 : IsStop(L, h, i, g2, j2) /\ h - g2 > 1 BY <1>12 DEF IsStart
    <3>2. g2 = g BY <1>4, <1>12, <2>1, <2>2, <3>1, StopUnique
    <3> QED BY <3>1, <3>2
  <2>4. Parting(h, i) = <<g, j>> BY <1>1, <1>4, <1>12, <2>1, <2>2, PartingIs
  <2>5. Parting(h, i)[1] = g /\ Parting(h, i)[2] = j BY <2>4
  <2>6. PICK m \in DOMAIN modifications : m \div Pow2[h] = i BY <2>1 DEF Mod, Anc
  <2>7. i \in Index
    <3>1. m \in Index BY <1>3, <2>6 DEF IsMods
    <3>2. Anc(m, h) \in Positions(Height - h) /\ Anc(m, h) = i
      BY <2>1, <2>6, <3>1, AncHere DEF Anc
    <3>3. PICK d \in Nat : d = Height - h BY <2>1
    <3>4. PICK a \in Nat \ {0}, b \in Nat \ {0} : a = Pow2[d] /\ b = Pow2[h] BY <2>1, Pow2Type
    <3>5. Pow2[Height] = a * b
      <4>1. d + h = Height BY <2>1, <3>3
      <4> QED BY <2>1, <3>4, <4>1, Pow2Sum
    <3>6. i \in 0 .. (a - 1) BY <3>2, <3>3, <3>4 DEF Positions
    <3>7. a <= a * b
      <4>1. 1 * a <= b * a BY <3>4, LeqTimes
      <4> QED BY <3>4, <4>1
    <3>8. a * b \in Nat BY <3>4
    <3> QED BY <3>5, <3>6, <3>7, <3>8 DEF Index, Positions
  <2>8. h = Height \/ PartsAt(h + 1, i \div 2) BY <1>5, <2>1 DEF Start
  <2>9. PICK x : x = <<h, i>> OBVIOUS
  <2>10. x[1] = h /\ x[2] = i /\ x \in (1 .. Height) \X Index BY <2>1, <2>7, <2>9
  <2>11. x \in starts BY <1>7, <2>3, <2>5, <2>6, <2>8, <2>10
  <2>12. dm[x] = <<h - g, j - i * Pow2[h - g]>> BY <1>9, <2>5, <2>10, <2>11
  <2>13. j - i * Pow2[h - g] = j % Pow2[h - g]
    <3>1. PICK leaf : leaf \in Und(L, h, i) BY <2>2
    <3>2. leaf \in Und(L, g, j) /\ g \in 0 .. h BY <1>12, <3>1 DEF IsStop
    <3>3. L \subseteq Nat /\ h \in Nat /\ g \in Nat BY <1>4, <2>1, <3>2
    <3>4. PICK d \in Nat : d = h - g /\ h = g + d BY <2>1, <3>2
    <3>5. /\ j \in Nat /\ i \in Nat /\ Anc(j, d) = i
          /\ j % Pow2[d] \in Positions(d)
          /\ j = i * Pow2[d] + (j % Pow2[d])
      <4>1. leaf \in Und(L, g, j) BY <3>2
      <4>2. h = g + d BY <3>4
      <4>3. leaf \in Nat /\ Anc(leaf, g) = j /\ Anc(leaf, h) = i
        BY <3>1, <3>3, <4>1 DEF Und
      <4>4. j \in Nat /\ i \in Nat BY <3>3, <4>3, AncType
      <4>5. Anc(j, d) = i BY <3>3, <4>2, <4>3, AncAnc
      <4>6. /\ j % Pow2[d] \in Positions(d)
            /\ j = Anc(j, d) * Pow2[d] + (j % Pow2[d])
        BY <4>4, AncType
      <4> QED BY <4>4, <4>5, <4>6
    <3>6. PICK t \in Nat : t = Pow2[d] BY Pow2Type
    <3>7. PICK r \in Nat : r = j % Pow2[d] BY <3>5, PositionsNat
    <3>8. j = i * t + r /\ i * t \in Nat BY <3>5, <3>6, <3>7
    <3>9. j - i * t = r BY <3>5, <3>8
    <3> QED BY <3>4, <3>6, <3>7, <3>9
  <2> QED BY <2>9, <2>11, <2>12, <2>13
<1>13. \A x : x \in DOMAIN dm <=>
              \E h, i : x = <<h, i>> /\ IsStart(L, modifications, h, i)
  <2>1. ASSUME NEW h, NEW i, IsStart(L, modifications, h, i) PROVE <<h, i>> \in starts
    <3>1. PICK g, j : IsStop(L, h, i, g, j) BY <2>1 DEF IsStart
    <3> QED BY <1>12, <2>1, <3>1
  <2> QED BY <1>10, <1>11, <2>1
<1>14. DescentMap(L, modifications, dm) BY <1>10, <1>12, <1>13 DEF DescentMap
<1> QED BY <1>1, <1>8, <1>14

-----------------------------------------------------------------------------
(* What is fetched and guessed, by phase.                                  *)

Phases == {"proofs", "previous_proofs", "commitment", "descents", "previous", "new",
           "done", "failed"}

AskedInv ==
    /\ Asked(keys, modifications)
    /\ \A i \in DOMAIN keys : keys[i] \in DOMAIN modifications
    /\ ~deployed => \A i \in Index : previous[i] = 0
    /\ ~exists => mode = "State" /\ \A i \in Index : updated[i] = 0
    /\ mode # "State" => \A k \in DOMAIN modifications : modifications[k] # 0
    /\ mode = "Contracts" => DOMAIN modifications # {}

FetchInv ==
    /\ phase \in Phases
    /\ phase \in {"previous_proofs", "commitment", "descents", "previous", "new"} =>
          proof = TreeProof(updated, exists)
    /\ phase \in {"commitment", "descents", "previous", "new"} =>
          previous_proof = TreeProof(previous, deployed)
    /\ phase \in {"descents", "previous", "new"} =>
          commitment = Commitment(previous_proof, proof) /\ keys # <<>>

\* What the guess and the walks know.
LEMMA PreimageCtx ==
  ASSUME InputsInv, AskedInv, FetchInv, phase \in {"descents", "previous", "new"}
  PROVE  /\ GuessCtx(preimage, previous, modifications)
         /\ commitment.previous_root = ReferenceRoot(previous)
         /\ commitment.updated_root = ReferenceRoot(updated)
         /\ mode = "State" => /\ KnowsBottoms(preimage, previous, DOMAIN modifications)
                              /\ KnowsBottoms(preimage, updated, DOMAIN modifications)
         /\ DOMAIN modifications # {}
<1>1. /\ proof = TreeProof(updated, exists) /\ previous_proof = TreeProof(previous, deployed)
      /\ commitment = Commitment(previous_proof, proof) /\ keys # <<>>
  BY DEF FetchInv
<1>2. /\ previous \in Tree /\ IsMods(modifications) /\ keys \in Seq(Index)
      /\ deployed \in BOOLEAN /\ exists \in BOOLEAN /\ updated \in Tree
  BY UnifyType DEF InputsInv, updated
<1>3. PICK a, b : a = NodesOf(proof.storage_proofs) /\ b = NodesOf(previous_proof.storage_proofs)
  OBVIOUS
<1>4. PICK fa, fb : /\ fa = format_commitment_facts(proof.storage_proofs)
                    /\ fb = format_commitment_facts(previous_proof.storage_proofs)
  OBVIOUS
<1>5. /\ DOMAIN fa = a /\ \A x \in a : fa[x] = to_tuple(x)
      /\ DOMAIN fb = b /\ \A x \in b : fb[x] = to_tuple(x)
  BY <1>3, <1>4 DEF format_commitment_facts, NodesOf
<1>6. /\ preimage = Unify(fa, fb) /\ commitment.previous_root = previous_proof.root
      /\ commitment.updated_root = proof.root
  BY <1>1, <1>4 DEF Commitment, CommitmentInfo, preimage
<1>7. PICK pre : pre = preimage OBVIOUS
<1>8. DOMAIN pre = a \cup b /\ \A x \in a \cup b : pre[x] = to_tuple(x)
  BY <1>5, <1>6, <1>7 DEF Unify
<1>9. /\ proof.root = ReferenceRoot(updated)
      /\ \A x \in NodesOf(proof.storage_proofs) : IsInner(x)
      /\ Knows(pre, updated, DOMAIN modifications)
      /\ mode = "State" => KnowsBottoms(pre, updated, DOMAIN modifications)
  <2>1. NodesOf(proof.storage_proofs) \subseteq DOMAIN pre BY <1>3, <1>8
  <2>2. Asked(keys, modifications) /\ (~exists => \A i \in Index : updated[i] = 0)
    BY DEF AskedInv
  <2> QED BY <1>1, <1>2, <2>1, <2>2, PreimageKnows
<1>10. /\ previous_proof.root = ReferenceRoot(previous)
       /\ \A x \in NodesOf(previous_proof.storage_proofs) : IsInner(x)
       /\ Knows(pre, previous, DOMAIN modifications)
       /\ mode = "State" => KnowsBottoms(pre, previous, DOMAIN modifications)
  <2>1. NodesOf(previous_proof.storage_proofs) \subseteq DOMAIN pre BY <1>3, <1>8
  <2>2. Asked(keys, modifications) /\ (~deployed => \A i \in Index : previous[i] = 0)
    BY DEF AskedInv
  <2> QED BY <1>1, <1>2, <2>1, <2>2, PreimageKnows
<1>11. PreOK(pre) BY <1>3, <1>8, <1>9, <1>10 DEF PreOK
<1>12. GuessCtx(pre, previous, modifications)
  BY <1>2, <1>9, <1>10, <1>11 DEF GuessCtx, updated
<1>13. DOMAIN modifications # {}
  <2>1. 1 \in DOMAIN keys BY <1>1, <1>2
  <2> QED BY <2>1 DEF AskedInv
<1> QED BY <1>6, <1>7, <1>9, <1>10, <1>12, <1>13

\* The guess finds its nodes and returns the descents.
LEMMA GuessNow ==
  ASSUME InputsInv, AskedInv, FetchInv, phase = "descents", NEW guess,
         guess = patricia_guess_descents(preimage, build_update_tree(modifications),
                     commitment.previous_root, commitment.updated_root)
  PROVE  guess.ok /\ DescentMap(Live, modifications, guess.map)
<1>1. /\ GuessCtx(preimage, previous, modifications)
      /\ commitment.previous_root = ReferenceRoot(previous)
      /\ commitment.updated_root = ReferenceRoot(updated)
      /\ DOMAIN modifications # {}
  BY PreimageCtx
<1>2. PICK pre : pre = preimage OBVIOUS
<1>3. PICK root : root = Place(Height, 0, <<build_update_tree(modifications),
                              canonic(pre, ReferenceRoot(previous)),
                              canonic(pre, ReferenceRoot(Unify(previous, modifications)))>>)
  OBVIOUS
<1>4. PlaceAt(previous, modifications, root, Height, 0) BY <1>1, <1>2, <1>3, RootPlace
<1>5. guess = get_descents(pre, root)
  BY <1>1, <1>2, <1>3 DEF patricia_guess_descents, updated
<1>6. Live = LiveSet(previous, modifications) BY DEF Live, LiveSet
<1> QED BY <1>1, <1>2, <1>4, <1>5, <1>6, GuessIs

LEMMA InitFetch == Init => AskedInv /\ FetchInv
<1> SUFFICES ASSUME Init PROVE AskedInv /\ FetchInv OBVIOUS
<1>1. modifications \in Modifications /\ keys \in SetToSeqs(DOMAIN modifications)
  BY DEF Init
<1>2. DOMAIN modifications \subseteq Index BY <1>1, ModificationsType DEF IsMods
<1>3. Asked(keys, modifications) BY <1>1, <1>2, KeysOnto DEF Asked
<1>4. \A i \in DOMAIN keys : keys[i] \in DOMAIN modifications BY <1>1, <1>2, KeysType
<1>5. phase = "proofs" BY DEF Init
<1>6. FetchInv BY <1>5 DEF FetchInv, Phases
<1>7. /\ ~deployed => mode = "State" /\ \A i \in Index : previous[i] = 0
      /\ ~exists => ~deployed /\ \A i \in Index : updated[i] = 0
  BY DEF Init
<1>8. /\ mode # "State" => \A k \in DOMAIN modifications : modifications[k] # 0
      /\ mode = "Contracts" => DOMAIN modifications # {}
  <2>1. /\ mode \in {"State", "Contracts", "Class"}
        /\ mode = "Class" => ClassUpdate(previous, modifications)
        /\ mode = "Contracts" => ContractsUpdate(modifications)
    BY DEF Init
  <2> QED BY <2>1 DEF ClassUpdate, ContractsUpdate
<1> QED BY <1>3, <1>4, <1>6, <1>7, <1>8 DEF AskedInv

\* A hint of the walk moves on or fails.
Moves == \/ \E error : Fail(error)
         \/ \E below, beside : /\ \A i \in DOMAIN beside : MayWrite(beside[i])
                               /\ Enter(below, beside)

LEMMA EnterMoves ==
  ASSUME NEW below, NEW beside, Enter(below, beside)
  PROVE  Moves
<1>1. CASE \A i \in DOMAIN beside : MayWrite(beside[i]) BY <1>1 DEF Moves
<1>2. CASE ~(\A i \in DOMAIN beside : MayWrite(beside[i]))
  <2>1. Fail("siblings") BY <1>2 DEF Enter
  <2> QED BY <2>1 DEF Moves
<1> QED BY <1>1, <1>2

LEMMA FailMoves ==
  ASSUME NEW error, Fail(error)
  PROVE  Moves
BY DEF Moves

LEMMA WalkFrame ==
  ASSUME WalkLeaf \/ LoadEdge \/ WalkBinary \/ WalkDescent \/ WalkEdge \/ WalkEmpty
  PROVE  /\ UNCHANGED inputs /\ UNCHANGED fetched /\ descent_map' = descent_map
         /\ phase \in {"previous", "new"}
         /\ phase' = phase \/ phase' = "failed"
<1> DEFINE Same == /\ UNCHANGED inputs /\ UNCHANGED fetched /\ descent_map' = descent_map
                   /\ phase' = phase \/ phase' = "failed"
<1>1. Moves => Same
  <2>1. ASSUME NEW error, Fail(error) PROVE Same BY <2>1 DEF Fail, inputs, fetched
  <2>2. ASSUME NEW below, NEW beside, \A i \in DOMAIN beside : MayWrite(beside[i]),
               Enter(below, beside)
        PROVE  Same
    BY <2>2 DEF Enter, inputs, fetched
  <2> QED BY <2>1, <2>2 DEF Moves
<1>2. WalkLeaf => Same BY DEF WalkLeaf, inputs, fetched
<1> HIDE DEF Same
<1>3. LoadEdge => Moves BY FailMoves, EnterMoves DEF LoadEdge
<1>4. WalkBinary => Moves
  <2>1. PICK u : u = Head(scopes).update OBVIOUS
  <2>2. Case(u) \in {"left", "right", "both"} BY DEF Case
  <2>5. CASE u = NoUpdate BY <2>1, <2>5, FailMoves DEF WalkBinary
  <2>6. CASE u # NoUpdate /\ Case(u) = "left" BY <2>1, <2>6, EnterMoves DEF WalkBinary
  <2>7. CASE u # NoUpdate /\ Case(u) = "right" BY <2>1, <2>7, EnterMoves DEF WalkBinary
  <2>8. CASE u # NoUpdate /\ Case(u) = "both" BY <2>1, <2>8, EnterMoves DEF WalkBinary
  <2> QED BY <2>2, <2>5, <2>6, <2>7, <2>8
<1>5. WalkDescent => Moves BY FailMoves, EnterMoves DEF WalkDescent
<1>6. WalkEdge => Moves BY FailMoves, EnterMoves DEF WalkEdge
<1>7. WalkEmpty => Moves BY FailMoves, EnterMoves DEF WalkEmpty
<1>8. Same BY <1>1, <1>2, <1>3, <1>4, <1>5, <1>6, <1>7
<1>9. phase \in {"previous", "new"}
  BY DEF WalkLeaf, LoadEdge, WalkBinary, WalkDescent, WalkEdge, WalkEmpty, Walking
<1> QED BY <1>8, <1>9 DEF Same

-----------------------------------------------------------------------------
(* The descents are guessed before the walks and stay.                     *)

DescentsInv == phase \in {"previous", "new"} => DescentMap(Live, modifications, descent_map)

\* The first part of the inductive invariant: what each phase may rely on.
PhaseInv == InputsInv /\ AskedInv /\ FetchInv /\ DescentsInv

LEMMA StepPhases ==
  ASSUME PhaseInv, [Next]_vars
  PROVE  PhaseInv'
<1> USE DEF PhaseInv
<1>1. /\ previous' = previous /\ deployed' = deployed /\ exists' = exists
      /\ modifications' = modifications /\ mode' = mode /\ keys' = keys
  BY StepFetches DEF inputs
<1>2. InputsInv' BY <1>1 DEF InputsInv
<1>3. AskedInv' BY <1>1 DEF AskedInv, updated
<1>4. TreeProof(updated, exists)' = TreeProof(updated, exists) BY <1>1 DEF TreeProof, updated
<1>5. TreeProof(previous, deployed)' = TreeProof(previous, deployed) BY <1>1 DEF TreeProof
<1>6. Live' = Live BY <1>1 DEF Live
<1> DEFINE Goal == FetchInv' /\ DescentsInv'
<1> SUFFICES Goal BY <1>2, <1>3
<1> HIDE DEF Goal
<1>7. phase' = "failed" => Goal BY DEF Goal, FetchInv, DescentsInv, Phases
<1>8. ASSUME NEW error, Fail(error) PROVE Goal BY <1>7, <1>8 DEF Fail
<1>9. CASE GetProofs
  <2>1. CASE Refuses(TreeProof(updated, exists)) BY <1>8, <1>9, <2>1 DEF GetProofs
  <2>2. CASE ~Refuses(TreeProof(updated, exists))
    <3>1. proof' = TreeProof(updated, exists) /\ phase' = "previous_proofs"
      BY <1>9, <2>2 DEF GetProofs
    <3> QED BY <1>4, <3>1 DEF Goal, FetchInv, DescentsInv, Phases
  <2> QED BY <2>1, <2>2
<1>10. CASE GetPreviousProofs
  <2>1. CASE Refuses(TreeProof(previous, deployed)) BY <1>8, <1>10, <2>1 DEF GetPreviousProofs
  <2>2. CASE ~Refuses(TreeProof(previous, deployed))
    <3>1. /\ previous_proof' = TreeProof(previous, deployed) /\ phase' = "commitment"
          /\ proof' = proof /\ phase = "previous_proofs"
      BY <1>10, <2>2 DEF GetPreviousProofs
    <3>2. proof = TreeProof(updated, exists) BY <3>1 DEF FetchInv
    <3> QED BY <1>4, <1>5, <3>1, <3>2 DEF Goal, FetchInv, DescentsInv, Phases
  <2> QED BY <2>1, <2>2
<1>11. CASE SetPreimage
  <2>1. CASE ~proof.some BY <1>8, <1>11, <2>1 DEF SetPreimage
  <2>2. CASE proof.some /\ mode = "Contracts" /\ NoFirstNode
    BY <1>8, <1>11, <2>2 DEF SetPreimage
  <2>3. CASE proof.some /\ ~(mode = "Contracts" /\ NoFirstNode)
    <3>1. /\ commitment' = Commitment(previous_proof, proof)
          /\ phase' = IF keys = <<>> THEN "done" ELSE "descents"
          /\ proof' = proof /\ previous_proof' = previous_proof /\ phase = "commitment"
      BY <1>11, <2>3 DEF SetPreimage
    <3>2. proof = TreeProof(updated, exists) /\ previous_proof = TreeProof(previous, deployed)
      BY <3>1 DEF FetchInv
    <3> QED BY <1>1, <1>4, <1>5, <3>1, <3>2 DEF Goal, FetchInv, DescentsInv, Phases
  <2> QED BY <2>1, <2>2, <2>3
<1>12. CASE build_descent_map
  <2>1. PICK guess :
          guess = patricia_guess_descents(preimage, build_update_tree(modifications),
                      commitment.previous_root, commitment.updated_root)
    OBVIOUS
  <2>2. CASE ~guess.ok BY <1>8, <1>12, <2>1, <2>2 DEF build_descent_map
  <2>3. CASE guess.ok
    <3>1. /\ phase = "descents" /\ phase' = "previous" /\ descent_map' = guess.map
          /\ proof' = proof /\ previous_proof' = previous_proof /\ commitment' = commitment
      BY <1>12, <2>1, <2>3 DEF build_descent_map, fetched
    <3>2. DescentMap(Live, modifications, guess.map) BY <2>1, <3>1, GuessNow
    <3>3. /\ proof = TreeProof(updated, exists) /\ previous_proof = TreeProof(previous, deployed)
          /\ commitment = Commitment(previous_proof, proof) /\ keys # <<>>
      BY <3>1 DEF FetchInv
    <3>4. FetchInv' BY <1>1, <1>4, <1>5, <3>1, <3>3 DEF FetchInv, Phases
    <3>5. DescentsInv' BY <1>1, <1>6, <3>1, <3>2 DEF DescentsInv
    <3> QED BY <3>4, <3>5 DEF Goal
  <2> QED BY <2>2, <2>3
<1>13. ASSUME UNCHANGED fetched, UNCHANGED descent_map,
              phase \in {"previous", "new"} \/ phase' = phase,
              phase' = phase \/ phase' \in {"failed", "new", "done"}
       PROVE  Goal
  <2>1. proof' = proof /\ previous_proof' = previous_proof /\ commitment' = commitment
    BY <1>13 DEF fetched
  <2>2. FetchInv' BY <1>1, <1>4, <1>5, <1>13, <2>1 DEF FetchInv, Phases
  <2>3. DescentsInv' BY <1>1, <1>6, <1>13 DEF DescentsInv
  <2> QED BY <2>2, <2>3 DEF Goal
<1>14. CASE WalkLeaf \/ LoadEdge \/ WalkBinary \/ WalkDescent \/ WalkEdge \/ WalkEmpty
  BY <1>13, <1>14, WalkFrame
<1>15. CASE EndWalk BY <1>13, <1>15 DEF EndWalk
<1>16. CASE Stopped \/ UNCHANGED vars BY <1>13, <1>16 DEF Stopped, vars, fetched
<1> QED BY <1>9, <1>10, <1>11, <1>12, <1>14, <1>15, <1>16 DEF Next

LEMMA SpecPhases == Spec => []PhaseInv
<1>1. Init => PhaseInv
  <2> SUFFICES ASSUME Init PROVE PhaseInv OBVIOUS
  <2>1. phase = "proofs" BY DEF Init
  <2> QED BY <2>1, InitInputs, InitFetch DEF PhaseInv, DescentsInv
<1>2. PhaseInv /\ [Next]_vars => PhaseInv' BY StepPhases
<1> QED BY <1>1, <1>2, PTL DEF Spec

(***************************************************************************)
(* The descents that get_descents guesses (patricia_guess_descents.rs) are *)
(* those that the leaves alone determine, in every tree of every height.   *)
(***************************************************************************)
THEOREM DescentsAlwaysMaximal == Spec => []DescentsAreMaximal
<1>1. PhaseInv => DescentsAreMaximal
  <2> SUFFICES ASSUME PhaseInv, phase \in {"previous", "new"}
               PROVE  descent_map = ReferenceDescents
    BY DEF DescentsAreMaximal
  <2>1. GuessCtx(preimage, previous, modifications) BY PreimageCtx DEF PhaseInv
  <2>2. PICK pre : pre = preimage OBVIOUS
  <2>3. DescentMap(Live, modifications, ReferenceDescents)
    BY <2>1, <2>2, ReferenceIs DEF PhaseInv
  <2>4. DescentMap(Live, modifications, descent_map) BY DEF PhaseInv, DescentsInv
  <2>5. PICK L : L = Live OBVIOUS
  <2> QED BY <2>3, <2>4, <2>5, DescentMapUnique
<1> QED BY <1>1, SpecPhases, PTL

-----------------------------------------------------------------------------
(***************************************************************************)
(* The order of a walk, from the places alone: which places it enters and  *)
(* what it writes beside them is the same in the previous and in the new   *)
(* tree.                                                                   *)
(***************************************************************************)
PlacesBelow(mods, dm, h, i) ==
    LET word == dm[<<h, i>>]
    IN IF <<h, i>> \in DOMAIN dm THEN <<<<h - word[1], i * Pow2[word[1]] + word[2]>>>>
       ELSE IF Mod(mods, h - 1, 2 * i) /\ Mod(mods, h - 1, 2 * i + 1)
       THEN <<<<h - 1, 2 * i>>, <<h - 1, 2 * i + 1>>>>
       ELSE IF Mod(mods, h - 1, 2 * i) THEN <<<<h - 1, 2 * i>>>>
       ELSE <<<<h - 1, 2 * i + 1>>>>

Beside(prev, mods, dm, h, i) ==
    IF <<h, i>> \in DOMAIN dm THEN <<[descent |-> dm[<<h, i>>][1]]>>
    ELSE IF Mod(mods, h - 1, 2 * i) /\ Mod(mods, h - 1, 2 * i + 1) THEN <<>>
    ELSE IF Mod(mods, h - 1, 2 * i) THEN <<hash_node(RNode(prev, h - 1, 2 * i + 1))>>
    ELSE <<hash_node(RNode(prev, h - 1, 2 * i))>>

OrderStep(prev, mods, dm, w) ==
    LET h == w.stack[1][1]
        i == w.stack[1][2]
    IN IF w.stack = <<>> THEN w
       ELSE IF h = 0
       THEN [stack |-> Tail(w.stack), sibs |-> w.sibs, seen |-> Append(w.seen, i)]
       ELSE [stack |-> PlacesBelow(mods, dm, h, i) \o Tail(w.stack),
             sibs |-> w.sibs \o Beside(prev, mods, dm, h, i), seen |-> w.seen]

OrderWalk(prev, mods, dm) ==
    LET f[k \in Nat] == IF k = 0 THEN [stack |-> <<<<Height, 0>>>>, sibs |-> <<>>, seen |-> <<>>]
                        ELSE OrderStep(prev, mods, dm, f[k - 1])
    IN f

\* OrderWalk satisfies its recursive equation.
LEMMA OrderWalkDef ==
  ASSUME NEW prev, NEW mods, NEW dm
  PROVE  /\ OrderWalk(prev, mods, dm)[0] = [stack |-> <<<<Height, 0>>>>, sibs |-> <<>>, seen |-> <<>>]
         /\ \A k \in Nat : OrderWalk(prev, mods, dm)[k + 1] =
                      OrderStep(prev, mods, dm, OrderWalk(prev, mods, dm)[k])
<1> DEFINE Base == [stack |-> <<<<Height, 0>>>>, sibs |-> <<>>, seen |-> <<>>]
           Step(v, n) == OrderStep(prev, mods, dm, v)
           Good(g, m) == g = [n \in 0 .. m |->
                                 IF n = 0 THEN Base ELSE Step(g[n - 1], n)]
           S == {m \in Nat : \E g : Good(g, m)}
           Full(f) == f = [n \in Nat |-> IF n = 0 THEN Base ELSE Step(f[n - 1], n)]
<1>0. OrderWalk(prev, mods, dm) = CHOOSE f : Full(f) BY DEF OrderWalk
<1> HIDE DEF Base, Step
<1>1. 0 \in S
  <2> DEFINE e == [n \in 0 .. 0 |-> Base]
  <2>1. Good(e, 0) OBVIOUS
  <2> HIDE DEF e, Good
  <2>2. \E g : Good(g, 0) BY <2>1
  <2> QED BY <2>2
<1>2. ASSUME NEW m \in Nat, m \in S PROVE m + 1 \in S
  <2>1. PICK g : Good(g, m) BY <1>2
  <2> DEFINE e == [n \in 0 .. (m + 1) |->
                     IF n = m + 1 THEN Step(g[m], m + 1) ELSE g[n]]
  <2>2. \A n \in 0 .. m : g[n] = IF n = 0 THEN Base ELSE Step(g[n - 1], n) BY <2>1
  <2>3. \A n \in 0 .. (m + 1) : e[n] = IF n = 0 THEN Base ELSE Step(e[n - 1], n)
    BY <2>2
  <2>4. Good(e, m + 1) BY <2>3
  <2> HIDE DEF e, Good
  <2>5. \E f : Good(f, m + 1) BY <2>4
  <2> QED BY <2>5
<1>3. \A m \in Nat : m \in S
  <2> HIDE DEF S
  <2> QED BY <1>1, <1>2, NatSetInduction
<1> DEFINE G(m) == CHOOSE g : Good(g, m)
<1>4. \A m \in Nat : Good(G(m), m) BY <1>3
<1> HIDE DEF G
<1>5. ASSUME NEW m \in Nat PROVE \A n \in 0 .. m : G(m)[n] = G(m + 1)[n]
  <2> DEFINE T == {n \in Nat : n \in 0 .. m => G(m)[n] = G(m + 1)[n]}
  <2>1. /\ \A n \in 0 .. m : G(m)[n] = IF n = 0 THEN Base ELSE Step(G(m)[n - 1], n)
        /\ \A n \in 0 .. (m + 1) :
              G(m + 1)[n] = IF n = 0 THEN Base ELSE Step(G(m + 1)[n - 1], n)
    BY <1>4
  <2>2. 0 \in T BY <2>1
  <2>3. ASSUME NEW n \in Nat, n \in T PROVE n + 1 \in T BY <2>1, <2>3
  <2>4. \A n \in Nat : n \in T
    <3> HIDE DEF T
    <3> QED BY <2>2, <2>3, NatSetInduction
  <2> QED BY <2>4
<1> DEFINE F == [n \in Nat |-> G(n)[n]]
<1>6. Full(F)
  <2>1. ASSUME NEW n \in Nat PROVE F[n] = IF n = 0 THEN Base ELSE Step(F[n - 1], n)
    <3>1. G(n)[n] = IF n = 0 THEN Base ELSE Step(G(n)[n - 1], n) BY <1>4
    <3>2. n # 0 => n - 1 \in Nat /\ (n - 1) + 1 = n OBVIOUS
    <3>3. n # 0 => G(n - 1)[n - 1] = G(n)[n - 1] BY <3>2, <1>5
    <3> QED BY <3>1, <3>2, <3>3
  <2> QED BY <2>1
<1>7. PICK L : L = OrderWalk(prev, mods, dm) OBVIOUS
<1>8. Full(L)
  <2> HIDE DEF F, Full
  <2> QED BY <1>0, <1>6, <1>7
<1>9. \A n \in Nat : L[n] = IF n = 0 THEN Base ELSE Step(L[n - 1], n) BY <1>8
<1>10. L[0] = Base /\ \A n \in Nat : L[n + 1] = Step(L[n], n + 1)
  <2>1. \A n \in Nat : (n + 1) - 1 = n /\ n + 1 \in Nat /\ n + 1 # 0 OBVIOUS
  <2> QED BY <1>9, <2>1
<1> QED BY <1>7, <1>10 DEF Base, Step

\* The equation of an order walk f, as one fact.
OrderEquation(prev, mods, dm, f) ==
    \A k \in Nat : f[k + 1] = OrderStep(prev, mods, dm, f[k])

LEMMA OrderEquationHolds ==
  ASSUME NEW prev, NEW mods, NEW dm
  PROVE  OrderEquation(prev, mods, dm, OrderWalk(prev, mods, dm))
BY OrderWalkDef DEF OrderEquation

-----------------------------------------------------------------------------
(* Sequences.                                                              *)

IsSeq(s) == \E S : s \in Seq(S)

LEMMA SeqLen ==
  ASSUME NEW s, IsSeq(s)
  PROVE  Len(s) \in Nat /\ DOMAIN s = 1 .. Len(s) /\ (s = <<>> <=> Len(s) = 0)
<1>1. PICK S : s \in Seq(S) BY DEF IsSeq
<1> QED BY <1>1, LenProperties, EmptySeq

Joined(a, b, c) ==
    /\ IsSeq(c) /\ Len(c) = Len(a) + Len(b)
    /\ \A n \in 1 .. Len(a) : c[n] = a[n]
    /\ \A n \in 1 .. Len(b) : c[Len(a) + n] = b[n]

LEMMA SeqJoin ==
  ASSUME NEW a, IsSeq(a), NEW b, IsSeq(b), NEW c, c = a \o b
  PROVE  Joined(a, b, c)
<1>1. PICK S : a \in Seq(S) BY DEF IsSeq
<1>2. PICK T : b \in Seq(T) BY DEF IsSeq
<1>3. PICK U : U = S \cup T OBVIOUS
<1>4. a \in Seq(U) BY <1>1, <1>3, SeqMonotonic, ElementOfSeq
<1>5. b \in Seq(U) BY <1>2, <1>3, SeqMonotonic, ElementOfSeq
<1>6. /\ c \in Seq(U) /\ Len(c) = Len(a) + Len(b)
      /\ \A n \in 1 .. Len(a) + Len(b) : c[n] = IF n <= Len(a) THEN a[n] ELSE b[n - Len(a)]
  BY <1>4, <1>5, ConcatProperties
<1>7. Len(a) \in Nat /\ Len(b) \in Nat BY SeqLen
<1>8. \A n \in 1 .. Len(a) : c[n] = a[n] BY <1>6, <1>7
<1>9. ASSUME NEW n \in 1 .. Len(b) PROVE c[Len(a) + n] = b[n]
  <2>1. Len(a) + n \in 1 .. Len(a) + Len(b) /\ ~(Len(a) + n <= Len(a)) /\ (Len(a) + n) - Len(a) = n
    BY <1>7
  <2> QED BY <1>6, <2>1
<1> QED BY <1>6, <1>8, <1>9 DEF IsSeq, Joined

LEMMA SeqTail ==
  ASSUME NEW s, IsSeq(s), s # <<>>
  PROVE  /\ IsSeq(Tail(s)) /\ Len(Tail(s)) = Len(s) - 1 /\ Head(s) = s[1] /\ Len(s) >= 1
         /\ \A n \in 1 .. (Len(s) - 1) : Tail(s)[n] = s[n + 1]
<1>1. PICK S : s \in Seq(S) BY DEF IsSeq
<1>2. /\ Tail(s) \in Seq(S) /\ Len(Tail(s)) = Len(s) - 1
      /\ \A n \in 1 .. Len(Tail(s)) : Tail(s)[n] = s[n + 1]
  BY <1>1, HeadTailProperties
<1>3. Head(s) = s[1] BY <1>1
<1>4. Len(s) >= 1 BY <1>1, SeqLen
<1> QED BY <1>2, <1>3, <1>4 DEF IsSeq

\* t is s with a in place of its first element.
Pushed(a, s, t) ==
    /\ IsSeq(t) /\ Len(t) = Len(a) + (Len(s) - 1)
    /\ \A n \in 1 .. Len(t) : \/ n \in 1 .. Len(a) /\ t[n] = a[n]
                              \/ \E m \in 2 .. Len(s) : n = Len(a) + (m - 1) /\ t[n] = s[m]
    /\ \A n \in 1 .. Len(a) : n \in 1 .. Len(t) /\ t[n] = a[n]
    /\ \A m \in 2 .. Len(s) : Len(a) + (m - 1) \in 1 .. Len(t) /\ t[Len(a) + (m - 1)] = s[m]

LEMMA SeqPushed ==
  ASSUME NEW a, IsSeq(a), NEW s, IsSeq(s), s # <<>>, NEW r, IsSeq(r),
         Len(r) = Len(s) - 1, \A n \in 1 .. (Len(s) - 1) : r[n] = s[n + 1],
         NEW t, t = a \o r
  PROVE  Pushed(a, s, t)
<1>2. /\ IsSeq(r) /\ Len(r) = Len(s) - 1
      /\ \A n \in 1 .. (Len(s) - 1) : r[n] = s[n + 1]
  OBVIOUS
<1>3. /\ IsSeq(t) /\ Len(t) = Len(a) + Len(r)
      /\ \A n \in 1 .. Len(a) : t[n] = a[n]
      /\ \A n \in 1 .. Len(r) : t[Len(a) + n] = r[n]
  <2>1. Joined(a, r, t) BY SeqJoin
  <2> QED BY <2>1 DEF Joined
<1>4. Len(a) \in Nat /\ Len(s) \in Nat BY SeqLen
<1>5. ASSUME NEW m \in 2 .. Len(s)
      PROVE  Len(a) + (m - 1) \in 1 .. Len(t) /\ t[Len(a) + (m - 1)] = s[m]
  <2>1. PICK k \in Nat : k = m - 1 BY <1>4
  <2>2. k \in 1 .. Len(r) /\ k + 1 = m BY <1>2, <1>4, <2>1
  <2>3. t[Len(a) + k] = r[k] /\ r[k] = s[k + 1] BY <1>2, <1>3, <2>2
  <2>4. Len(a) + k \in 1 .. Len(t) BY <1>2, <1>3, <1>4, <2>2
  <2> QED BY <2>1, <2>2, <2>3, <2>4
<1>6. ASSUME NEW n \in 1 .. Len(t), n \notin 1 .. Len(a)
      PROVE  \E m \in 2 .. Len(s) : n = Len(a) + (m - 1) /\ t[n] = s[m]
  <2>1. PICK m : m = n - Len(a) + 1 OBVIOUS
  <2>2. m \in 2 .. Len(s) /\ n = Len(a) + (m - 1) BY <1>2, <1>3, <1>4, <1>6, <2>1
  <2> QED BY <1>5, <2>2
<1>7. \A n \in 1 .. Len(a) : n \in 1 .. Len(t) BY <1>2, <1>3, <1>4, SeqTail
<1> QED BY <1>2, <1>3, <1>5, <1>6, <1>7 DEF Pushed

LEMMA SeqPush ==
  ASSUME NEW a, IsSeq(a), NEW s, IsSeq(s), s # <<>>
  PROVE  Pushed(a, s, a \o Tail(s))
<1>1. PICK r : r = Tail(s) OBVIOUS
<1>2. /\ IsSeq(r) /\ Len(r) = Len(s) - 1
      /\ \A n \in 1 .. (Len(s) - 1) : r[n] = s[n + 1]
  BY <1>1, SeqTail
<1>3. Pushed(a, s, a \o r) BY <1>2, SeqPushed
<1> QED BY <1>1, <1>3

LEMMA OneSeq ==
  ASSUME NEW x
  PROVE  IsSeq(<<x>>) /\ Len(<<x>>) = 1 /\ <<x>>[1] = x
<1>1. <<x>> \in Seq({x}) OBVIOUS
<1> QED BY <1>1 DEF IsSeq

LEMMA TwoSeq ==
  ASSUME NEW x, NEW y
  PROVE  IsSeq(<<x, y>>) /\ Len(<<x, y>>) = 2 /\ <<x, y>>[1] = x /\ <<x, y>>[2] = y
<1>1. <<x, y>> \in Seq({x, y}) OBVIOUS
<1> QED BY <1>1 DEF IsSeq

LEMMA NoSeq == IsSeq(<<>>) /\ Len(<<>>) = 0
<1>1. <<>> \in Seq({}) OBVIOUS
<1> QED BY <1>1 DEF IsSeq

-----------------------------------------------------------------------------
(* The places a walk comes to.                                             *)

OrderCtx(L, mods, dm) ==
    IsMods(mods) /\ L \subseteq Nat /\ DOMAIN mods \subseteq L /\ DescentMap(L, mods, dm)

\* A descent of the map and where it ends.
LEMMA DescentFacts ==
  ASSUME NEW L, NEW mods, NEW dm, OrderCtx(L, mods, dm), NEW h, NEW i, <<h, i>> \in DOMAIN dm
  PROVE  \E len, g, j \in Nat :
            /\ h = g + len /\ len >= 2 /\ h \in 1 .. Height /\ i \in Nat
            /\ dm[<<h, i>>] = <<len, j % Pow2[len]>>
            /\ i * Pow2[len] + (j % Pow2[len]) = j /\ Anc(j, len) = i
            /\ Mod(mods, h, i) /\ Mod(mods, g, j) /\ ~Parts(L, h, i)
            /\ Und(L, g, j) = Und(L, h, i)
            /\ j % Pow2[len] \in Nat
<1> USE NodesAssumption DEF OrderCtx
<1>1. IsStart(L, mods, h, i)
  <2>1. PICK h2, i2 : <<h, i>> = <<h2, i2>> /\ IsStart(L, mods, h2, i2) BY DEF DescentMap
  <2> QED BY <2>1
<1>2. PICK g, j : IsStop(L, h, i, g, j) /\ h - g > 1 BY <1>1 DEF IsStart
<1>3. h \in 1 .. Height /\ Mod(mods, h, i) /\ h \in Nat BY <1>1 DEF IsStart
<1>4. g \in 0 .. h /\ j \in Nat /\ Und(L, g, j) = Und(L, h, i) /\ g \in Nat
  BY <1>2, <1>3 DEF IsStop
<1>5. PICK len \in Nat : len = h - g BY <1>3, <1>4
<1>6. h = g + len /\ len >= 2 BY <1>2, <1>3, <1>4, <1>5
<1>7. dm[<<h, i>>] = <<len, j % Pow2[len]>> BY <1>1, <1>2, <1>5 DEF DescentMap
<1>8. PICK m \in DOMAIN mods : Anc(m, h) = i BY <1>3 DEF Mod
<1>9. m \in Und(L, h, i) /\ m \in Und(L, g, j) BY <1>4, <1>8 DEF Und
<1>10. /\ i \in Nat /\ Anc(j, len) = i /\ j % Pow2[len] \in Positions(len)
       /\ j = i * Pow2[len] + (j % Pow2[len])
  <2>1. m \in Nat /\ Anc(m, g) = j /\ Anc(m, g + len) = i BY <1>6, <1>8, <1>9 DEF Und
  <2>2. i \in Nat BY <1>3, <1>8, <2>1, AncType
  <2>3. /\ Anc(Anc(m, g), len) = Anc(m, g + len)
        /\ Anc(m, g) = Anc(m, g + len) * Pow2[len] + (Anc(m, g) % Pow2[len])
        /\ Anc(m, g) % Pow2[len] \in Positions(len)
    BY <1>4, <2>1, AncAnc
  <2> QED BY <2>1, <2>2, <2>3
<1>11. Mod(mods, g, j) BY <1>9 DEF Und, Mod
<1>12. ~Parts(L, h, i)
  <2>1. SUFFICES ASSUME Parts(L, h, i) PROVE FALSE OBVIOUS
  <2>2. IsStop(L, h, i, h, i) BY <1>3, <1>10, <2>1 DEF IsStop
  <2>3. ~(g < h) BY <1>2, <1>3, <2>2, StopNotAbove
  <2> QED BY <1>4, <1>6, <2>3
<1>13. j % Pow2[len] \in Nat BY <1>10, PositionsNat
<1> QED BY <1>3, <1>4, <1>6, <1>7, <1>10, <1>11, <1>12, <1>13

Beneath(mods, p) == {m \in DOMAIN mods : Anc(m, p[1]) = p[2]}

PlaceOK(mods, p) == p[1] \in 0 .. Height /\ Mod(mods, p[1], p[2])

\* Every modified leaf of a is before every one of b.
Before(mods, a, b) == \A m \in Beneath(mods, a) : \A n \in Beneath(mods, b) : m < n

\* The places below cover those of the place, in order.
Refines(mods, below, p) ==
    /\ IsSeq(below) /\ Len(below) \in {1, 2}
    /\ \A n \in 1 .. Len(below) : PlaceOK(mods, below[n])
    /\ \A n \in 1 .. Len(below) : Beneath(mods, below[n]) \subseteq Beneath(mods, p)
    /\ \A m \in Beneath(mods, p) : \E n \in 1 .. Len(below) : m \in Beneath(mods, below[n])
    /\ Len(below) = 2 => Before(mods, below[1], below[2])

LEMMA BelowRefines ==
  ASSUME NEW L, NEW mods, NEW dm, OrderCtx(L, mods, dm), NEW p, PlaceOK(mods, p), p[1] # 0
  PROVE  Refines(mods, PlacesBelow(mods, dm, p[1], p[2]), p)
<1> USE NodesAssumption
<1>1. PICK h, i : h = p[1] /\ i = p[2] OBVIOUS
<1>2. h \in 1 .. Height /\ Mod(mods, h, i) BY <1>1 DEF PlaceOK
<1>3. PICK g \in Nat : h = g + 1 /\ g = h - 1 /\ g \in 0 .. Height
  <2>1. h - 1 \in Nat /\ h = (h - 1) + 1 /\ h - 1 \in 0 .. Height BY <1>2
  <2> QED BY <2>1
<1>4. PICK below : below = PlacesBelow(mods, dm, h, i) OBVIOUS
<1>5. DOMAIN mods \subseteq Nat BY DEF OrderCtx
<1>6. i \in Nat
  <2>1. PICK m \in DOMAIN mods : Anc(m, h) = i BY <1>2 DEF Mod
  <2> QED BY <1>2, <1>5, <2>1, AncType
<1>7. PICK a, b : a = <<g, 2 * i>> /\ b = <<g, 2 * i + 1>> OBVIOUS
<1>8. a[1] = g /\ a[2] = 2 * i /\ b[1] = g /\ b[2] = 2 * i + 1 BY <1>7
<1>9. ASSUME NEW m \in DOMAIN mods
      PROVE  Anc(m, h) = i <=> Anc(m, g) = 2 * i \/ Anc(m, g) = 2 * i + 1
  BY <1>3, <1>5, <1>6, AncUp
<1>10. Beneath(mods, p) = Beneath(mods, a) \cup Beneath(mods, b)
  BY <1>1, <1>8, <1>9 DEF Beneath
<1>11. /\ Mod(mods, g, 2 * i) <=> Beneath(mods, a) # {}
       /\ Mod(mods, g, 2 * i + 1) <=> Beneath(mods, b) # {}
       /\ Beneath(mods, p) # {}
  BY <1>1, <1>2, <1>8 DEF Beneath, Mod
<1>12. Before(mods, a, b)
  <2>1. SUFFICES ASSUME NEW m \in DOMAIN mods, NEW n \in DOMAIN mods,
                        Anc(m, g) = 2 * i, Anc(n, g) = 2 * i + 1
                 PROVE  m < n
    BY <1>8 DEF Before, Beneath
  <2>2. PICK t \in Nat \ {0} : t = Pow2[g] BY <1>3, Pow2Type
  <2>3. m \in Nat /\ n \in Nat BY <1>5
  <2>4. PICK q \in Nat : q = 2 * i BY <1>6
  <2>5. m \div t = q /\ n \div t = q + 1 BY <2>1, <2>2, <2>4 DEF Anc
  <2>6. m % t \in 0 .. (t - 1) /\ m = q * t + (m % t) BY <2>2, <2>3, <2>5, DivBounds
  <2>7. n % t \in 0 .. (t - 1) /\ n = (q + 1) * t + (n % t)
    <3>1. PICK q1 : q1 = q + 1 OBVIOUS
    <3>2. n \div t = q1 BY <2>5, <3>1
    <3>3. n % t \in 0 .. (t - 1) /\ n = q1 * t + (n % t) BY <2>2, <2>3, <3>2, DivBounds
    <3> QED BY <3>1, <3>3
  <2>8. PICK r, s \in 0 .. (t - 1) : r = m % t /\ s = n % t BY <2>6, <2>7
  <2>9. (q + 1) * t = q * t + t /\ q * t \in Nat BY <2>2, <2>4
  <2> QED BY <2>2, <2>3, <2>6, <2>7, <2>8, <2>9
<1>13. CASE <<h, i>> \in DOMAIN dm
  <2>1. PICK len, e, j \in Nat :
            /\ h = e + len /\ len >= 2 /\ h \in 1 .. Height /\ i \in Nat
            /\ dm[<<h, i>>] = <<len, j % Pow2[len]>>
            /\ i * Pow2[len] + (j % Pow2[len]) = j
            /\ Mod(mods, e, j)
            /\ Und(L, e, j) = Und(L, h, i)
    BY <1>13, DescentFacts
  <2>2. PICK c : c = <<e, j>> OBVIOUS
  <2>3. dm[<<h, i>>][1] = len /\ dm[<<h, i>>][2] = j % Pow2[len] /\ h - len = e BY <2>1
  <2>4. below = <<c>> BY <1>4, <1>13, <2>1, <2>2, <2>3 DEF PlacesBelow
  <2>5. IsSeq(below) /\ Len(below) = 1 /\ below[1] = c BY <2>4, OneSeq
  <2>6. c[1] = e /\ c[2] = j BY <2>2
  <2>7. PlaceOK(mods, c) BY <2>1, <2>6 DEF PlaceOK
  <2>8. Beneath(mods, c) = Beneath(mods, p)
    <3>1. ASSUME NEW m \in DOMAIN mods PROVE Anc(m, e) = j <=> Anc(m, h) = i
      <4>1. m \in L BY DEF OrderCtx
      <4>2. m \in Und(L, e, j) <=> m \in Und(L, h, i) BY <2>1
      <4> QED BY <4>1, <4>2 DEF Und
    <3> QED BY <1>1, <2>6, <3>1 DEF Beneath
  <2> QED BY <1>1, <1>4, <2>5, <2>7, <2>8 DEF Refines
<1>14. CASE <<h, i>> \notin DOMAIN dm /\ Mod(mods, g, 2 * i) /\ Mod(mods, g, 2 * i + 1)
  <2>1. below = <<a, b>> BY <1>3, <1>4, <1>7, <1>14 DEF PlacesBelow
  <2>2. IsSeq(below) /\ Len(below) = 2 /\ below[1] = a /\ below[2] = b BY <2>1, TwoSeq
  <2>3. PlaceOK(mods, a) /\ PlaceOK(mods, b) BY <1>3, <1>8, <1>14 DEF PlaceOK
  <2>4. \A n \in 1 .. Len(below) : n = 1 \/ n = 2 BY <2>2
  <2>5. 1 \in 1 .. Len(below) /\ 2 \in 1 .. Len(below) BY <2>2
  <2> QED BY <1>1, <1>4, <1>10, <1>12, <2>2, <2>3, <2>4, <2>5 DEF Refines
<1>15. CASE <<h, i>> \notin DOMAIN dm /\ Mod(mods, g, 2 * i) /\ ~Mod(mods, g, 2 * i + 1)
  <2>1. below = <<a>> BY <1>3, <1>4, <1>7, <1>15 DEF PlacesBelow
  <2>2. IsSeq(below) /\ Len(below) = 1 /\ below[1] = a BY <2>1, OneSeq
  <2>3. PlaceOK(mods, a) BY <1>3, <1>8, <1>15 DEF PlaceOK
  <2>4. Beneath(mods, p) = Beneath(mods, a) BY <1>10, <1>11, <1>15
  <2> QED BY <1>1, <1>4, <2>2, <2>3, <2>4 DEF Refines
<1>16. CASE <<h, i>> \notin DOMAIN dm /\ ~Mod(mods, g, 2 * i)
  <2>1. below = <<b>> BY <1>3, <1>4, <1>7, <1>16 DEF PlacesBelow
  <2>2. IsSeq(below) /\ Len(below) = 1 /\ below[1] = b BY <2>1, OneSeq
  <2>3. Beneath(mods, p) = Beneath(mods, b) BY <1>10, <1>11, <1>16
  <2>4. PlaceOK(mods, b) BY <1>3, <1>8, <1>11, <2>3 DEF PlaceOK
  <2> QED BY <1>1, <1>4, <2>2, <2>3, <2>4 DEF Refines
<1> QED BY <1>13, <1>14, <1>15, <1>16

SeenIn(mods, w, b) == \E n \in 1 .. Len(w.seen) : w.seen[n] = b
OnStack(mods, w, b) == \E n \in 1 .. Len(w.stack) : b \in Beneath(mods, w.stack[n])

\* The leaves seen, then those below the stack, are the modified leaves in order.
OrderInv(mods, w) ==
    /\ IsSeq(w.stack) /\ IsSeq(w.sibs) /\ IsSeq(w.seen)
    /\ \A n \in 1 .. Len(w.stack) : PlaceOK(mods, w.stack[n])
    /\ \A n \in 1 .. Len(w.seen) : w.seen[n] \in DOMAIN mods
    /\ \A m, n \in 1 .. Len(w.stack) : m < n => Before(mods, w.stack[m], w.stack[n])
    /\ \A m, n \in 1 .. Len(w.seen) : m < n => w.seen[m] < w.seen[n]
    /\ \A n \in 1 .. Len(w.seen) : \A b \in DOMAIN mods : OnStack(mods, w, b) => w.seen[n] < b
    /\ \A b \in DOMAIN mods : SeenIn(mods, w, b) \/ OnStack(mods, w, b)

LEMMA BesideSeq ==
  ASSUME NEW prev, NEW mods, NEW dm, NEW h, NEW i, NEW b, b = Beside(prev, mods, dm, h, i)
  PROVE  IsSeq(b) /\ Len(b) \in {0, 1}
<1>1. b = <<>> \/ \E x : b = <<x>> BY DEF Beside
<1> QED BY <1>1, NoSeq, OneSeq

LEMMA OrderStepInv ==
  ASSUME NEW prev, NEW L, NEW mods, NEW dm, OrderCtx(L, mods, dm), NEW w, OrderInv(mods, w),
         w.stack # <<>>, NEW v, v = OrderStep(prev, mods, dm, w)
  PROVE  OrderInv(mods, v)
<1>1. PICK p, h, i : p = w.stack[1] /\ h = p[1] /\ i = p[2] OBVIOUS
<1>2. IsSeq(w.stack) /\ IsSeq(w.sibs) /\ IsSeq(w.seen) BY DEF OrderInv
<1>3. Len(w.stack) \in Nat /\ Len(w.stack) >= 1 /\ Len(w.seen) \in Nat BY <1>2, SeqLen, SeqTail
<1>4. PlaceOK(mods, p) BY <1>1, <1>3 DEF OrderInv
<1>5. DOMAIN mods \subseteq Nat BY DEF OrderCtx
<1>6. CASE h = 0
  <2>1. /\ v.stack = Tail(w.stack) /\ v.sibs = w.sibs /\ v.seen = Append(w.seen, i)
    BY <1>1, <1>6 DEF OrderStep
  <2>2. /\ IsSeq(v.stack) /\ Len(v.stack) = Len(w.stack) - 1
        /\ \A n \in 1 .. (Len(w.stack) - 1) : v.stack[n] = w.stack[n + 1]
    BY <1>2, <2>1, SeqTail
  <2>3. Beneath(mods, p) = {i} /\ i \in DOMAIN mods
    <3>1. PICK m \in DOMAIN mods : Anc(m, 0) = i BY <1>1, <1>4, <1>6 DEF PlaceOK, Mod
    <3>2. \A x \in DOMAIN mods : Anc(x, 0) = x
      <4>1. Pow2[0] = 1 BY Pow2Def
      <4> QED BY <1>5, <4>1 DEF Anc
    <3> QED BY <1>1, <1>6, <3>1, <3>2 DEF Beneath
  <2>4. /\ IsSeq(v.seen) /\ Len(v.seen) = Len(w.seen) + 1
        /\ \A n \in 1 .. Len(w.seen) : v.seen[n] = w.seen[n]
        /\ v.seen[Len(w.seen) + 1] = i
    <3>1. PICK S : w.seen \in Seq(S) BY <1>2 DEF IsSeq
    <3>2. PICK U : U = S \cup {i} OBVIOUS
    <3>3. w.seen \in Seq(U) BY <3>1, <3>2, SeqMonotonic, ElementOfSeq
    <3>4. PICK q : q = w.seen OBVIOUS
    <3>5. /\ Append(q, i) \in Seq(U) /\ Len(Append(q, i)) = Len(q) + 1
          /\ \A n \in 1 .. Len(q) : Append(q, i)[n] = q[n]
          /\ Append(q, i)[Len(q) + 1] = i
      BY <3>2, <3>3, <3>4, AppendProperties
    <3> QED BY <2>1, <3>4, <3>5 DEF IsSeq
  <2>5. ASSUME NEW b \in DOMAIN mods
        PROVE  /\ OnStack(mods, w, b) <=> b = i \/ OnStack(mods, v, b)
               /\ OnStack(mods, v, b) => i < b
               /\ SeenIn(mods, v, b) <=> SeenIn(mods, w, b) \/ b = i
    <3>1. ASSUME NEW n \in 1 .. Len(v.stack), b \in Beneath(mods, v.stack[n])
          PROVE  OnStack(mods, w, b) /\ i < b
      <4>1. n + 1 \in 1 .. Len(w.stack) /\ 1 < n + 1 /\ 1 \in 1 .. Len(w.stack)
            /\ n \in 1 .. (Len(w.stack) - 1)
        BY <1>3, <2>2, <3>1
      <4>2. PICK n1 : n1 = n + 1 OBVIOUS
      <4>3. b \in Beneath(mods, w.stack[n1]) BY <2>2, <3>1, <4>1, <4>2
      <4>4. Before(mods, p, w.stack[n1]) BY <1>1, <4>1, <4>2 DEF OrderInv
      <4>5. i < b BY <2>3, <4>3, <4>4 DEF Before
      <4> QED BY <4>1, <4>2, <4>3, <4>5 DEF OnStack
    <3>2. ASSUME NEW n \in 1 .. Len(w.stack), b \in Beneath(mods, w.stack[n])
          PROVE  b = i \/ OnStack(mods, v, b)
      <4>1. CASE n = 1 BY <1>1, <2>3, <3>2, <4>1
      <4>2. CASE n # 1
        <5>1. PICK n1 : n1 = n - 1 OBVIOUS
        <5>2. n1 \in 1 .. (Len(w.stack) - 1) /\ n1 + 1 = n BY <1>3, <4>2, <5>1
        <5>3. v.stack[n1] = w.stack[n1 + 1] BY <2>2, <5>2
        <5> QED BY <2>2, <3>2, <5>2, <5>3 DEF OnStack
      <4> QED BY <4>1, <4>2
    <3>3. OnStack(mods, w, i)
      <4>1. 1 \in 1 .. Len(w.stack) /\ i \in Beneath(mods, w.stack[1]) BY <1>1, <1>3, <2>3
      <4> QED BY <4>1 DEF OnStack
    <3>4. OnStack(mods, v, b) => OnStack(mods, w, b) /\ i < b BY <3>1 DEF OnStack
    <3>5. OnStack(mods, w, b) => b = i \/ OnStack(mods, v, b) BY <3>2 DEF OnStack
    <3>6. SeenIn(mods, v, b) => SeenIn(mods, w, b) \/ b = i
      <4>1. \A n \in 1 .. Len(v.seen) : n \in 1 .. Len(w.seen) \/ n = Len(w.seen) + 1
        BY <1>3, <2>4
      <4> QED BY <2>4, <4>1 DEF SeenIn
    <3>7. SeenIn(mods, w, b) \/ b = i => SeenIn(mods, v, b)
      <4>1. \A n \in 1 .. Len(w.seen) : n \in 1 .. Len(v.seen) BY <1>3, <2>4
      <4>2. Len(w.seen) + 1 \in 1 .. Len(v.seen) BY <1>3, <2>4
      <4> QED BY <2>4, <4>1, <4>2 DEF SeenIn
    <3> QED BY <3>3, <3>4, <3>5, <3>6, <3>7
  <2>6. \A b \in DOMAIN mods : SeenIn(mods, v, b) \/ OnStack(mods, v, b)
    BY <2>5 DEF OrderInv
  <2>7. \A n \in 1 .. Len(v.seen) : n \in 1 .. Len(w.seen) \/ n = Len(w.seen) + 1
    BY <1>3, <2>4
  <2>8. ASSUME NEW n \in 1 .. Len(w.seen) PROVE w.seen[n] < i /\ w.seen[n] \in DOMAIN mods
    <3>1. OnStack(mods, w, i) BY <2>3, <2>5
    <3> QED BY <2>3, <3>1 DEF OrderInv
  <2>9. \A n \in 1 .. Len(v.seen) : v.seen[n] \in DOMAIN mods BY <2>3, <2>4, <2>7, <2>8
  <2>10. ASSUME NEW n \in 1 .. Len(v.seen), NEW b \in DOMAIN mods, OnStack(mods, v, b)
         PROVE  v.seen[n] < b
    <3>1. OnStack(mods, w, b) /\ i < b BY <2>5, <2>10
    <3>2. CASE n \in 1 .. Len(w.seen) BY <2>4, <3>1, <3>2 DEF OrderInv
    <3>3. CASE n = Len(w.seen) + 1 BY <2>4, <3>1, <3>3
    <3> QED BY <2>7, <3>2, <3>3
  <2>11. ASSUME NEW m \in 1 .. Len(v.seen), NEW n \in 1 .. Len(v.seen), m < n
         PROVE  v.seen[m] < v.seen[n]
    <3>1. m \in 1 .. Len(w.seen) BY <1>3, <2>4, <2>11
    <3>2. CASE n \in 1 .. Len(w.seen) BY <2>4, <2>11, <3>1, <3>2 DEF OrderInv
    <3>3. CASE n = Len(w.seen) + 1 BY <2>4, <2>8, <3>1, <3>3
    <3> QED BY <2>7, <3>2, <3>3
  <2>12. ASSUME NEW n \in 1 .. Len(v.stack)
         PROVE  PlaceOK(mods, v.stack[n]) /\ n + 1 \in 1 .. Len(w.stack) /\ v.stack[n] = w.stack[n + 1]
    <3>1. n \in 1 .. (Len(w.stack) - 1) /\ n + 1 \in 1 .. Len(w.stack) BY <1>3, <2>2
    <3>2. PICK n1 : n1 = n + 1 OBVIOUS
    <3>3. PlaceOK(mods, w.stack[n1]) BY <3>1, <3>2 DEF OrderInv
    <3> QED BY <2>2, <3>1, <3>2, <3>3
  <2>13. ASSUME NEW m \in 1 .. Len(v.stack), NEW n \in 1 .. Len(v.stack), m < n
         PROVE  Before(mods, v.stack[m], v.stack[n])
    <3>1. PICK m1, n1 : m1 = m + 1 /\ n1 = n + 1 OBVIOUS
    <3>2. m1 < n1 BY <1>3, <2>2, <2>13, <3>1
    <3>3. m1 \in 1 .. Len(w.stack) /\ n1 \in 1 .. Len(w.stack) BY <2>12, <3>1
    <3>4. Before(mods, w.stack[m1], w.stack[n1]) BY <3>2, <3>3 DEF OrderInv
    <3> QED BY <2>12, <3>1, <3>4
  <2> QED BY <1>2, <2>1, <2>2, <2>4, <2>6, <2>9, <2>10, <2>11, <2>12, <2>13 DEF OrderInv
<1>7. CASE h # 0
  <2>1. PICK below : below = PlacesBelow(mods, dm, h, i) OBVIOUS
  <2>2. PICK beside : beside = Beside(prev, mods, dm, h, i) OBVIOUS
  <2>3. v.stack = below \o Tail(w.stack) /\ v.sibs = w.sibs \o beside /\ v.seen = w.seen
    BY <1>1, <1>7, <2>1, <2>2 DEF OrderStep
  <2>4. Refines(mods, below, p) BY <1>1, <1>4, <1>7, <2>1, BelowRefines
  <2>5. IsSeq(below) /\ Len(below) \in {1, 2} BY <2>4 DEF Refines
  <2>6. Pushed(below, w.stack, v.stack) BY <1>2, <2>3, <2>5, SeqPush
  <2>7. IsSeq(v.sibs)
    <3>1. IsSeq(beside) BY <2>2, BesideSeq
    <3>2. Joined(w.sibs, beside, v.sibs) BY <1>2, <2>3, <3>1, SeqJoin
    <3> QED BY <3>2 DEF Joined
  <2>8. ASSUME NEW b \in DOMAIN mods
        PROVE  OnStack(mods, v, b) <=> OnStack(mods, w, b)
    <3>1. ASSUME NEW n \in 1 .. Len(v.stack), b \in Beneath(mods, v.stack[n])
          PROVE  OnStack(mods, w, b)
      <4>1. CASE n \in 1 .. Len(below) /\ v.stack[n] = below[n]
        <5>1. b \in Beneath(mods, p) BY <2>4, <3>1, <4>1 DEF Refines
        <5>2. 1 \in 1 .. Len(w.stack) BY <1>3
        <5> QED BY <1>1, <5>1, <5>2 DEF OnStack
      <4>2. CASE \E m \in 2 .. Len(w.stack) : v.stack[n] = w.stack[m]
        <5>1. PICK m \in 2 .. Len(w.stack) : v.stack[n] = w.stack[m] BY <4>2
        <5>2. m \in 1 .. Len(w.stack) BY <1>3, <5>1
        <5> QED BY <3>1, <5>1, <5>2 DEF OnStack
      <4> QED BY <2>6, <4>1, <4>2 DEF Pushed
    <3>2. ASSUME NEW n \in 1 .. Len(w.stack), b \in Beneath(mods, w.stack[n])
          PROVE  OnStack(mods, v, b)
      <4>1. CASE n = 1
        <5>1. PICK m \in 1 .. Len(below) : b \in Beneath(mods, below[m])
          BY <1>1, <2>4, <3>2, <4>1 DEF Refines
        <5>2. m \in 1 .. Len(v.stack) /\ v.stack[m] = below[m] BY <2>6, <5>1 DEF Pushed
        <5> QED BY <5>1, <5>2 DEF OnStack
      <4>2. CASE n # 1
        <5>1. n \in 2 .. Len(w.stack) BY <1>3, <4>2
        <5>2. PICK m : m = Len(below) + (n - 1) OBVIOUS
        <5>3. m \in 1 .. Len(v.stack) /\ v.stack[m] = w.stack[n]
          BY <2>6, <5>1, <5>2 DEF Pushed
        <5> QED BY <3>2, <5>3 DEF OnStack
      <4> QED BY <4>1, <4>2
    <3>3. OnStack(mods, v, b) => OnStack(mods, w, b) BY <3>1 DEF OnStack
    <3>4. OnStack(mods, w, b) => OnStack(mods, v, b) BY <3>2 DEF OnStack
    <3> QED BY <3>3, <3>4
  <2>9. ASSUME NEW n \in 1 .. Len(v.stack) PROVE PlaceOK(mods, v.stack[n])
    <3>1. CASE n \in 1 .. Len(below) /\ v.stack[n] = below[n] BY <2>4, <3>1 DEF Refines
    <3>2. CASE \E m \in 2 .. Len(w.stack) : v.stack[n] = w.stack[m]
      <4>1. PICK m \in 2 .. Len(w.stack) : v.stack[n] = w.stack[m] BY <3>2
      <4>2. m \in 1 .. Len(w.stack) BY <1>3, <4>1
      <4> QED BY <4>1, <4>2 DEF OrderInv
    <3> QED BY <2>6, <3>1, <3>2 DEF Pushed
  <2>10. ASSUME NEW m \in 1 .. Len(v.stack), NEW n \in 1 .. Len(v.stack), m < n
         PROVE  Before(mods, v.stack[m], v.stack[n])
    <3>1. CASE m \in 1 .. Len(below) /\ v.stack[m] = below[m]
               /\ n \in 1 .. Len(below) /\ v.stack[n] = below[n]
      <4>1. m = 1 /\ n = 2 /\ Len(below) = 2 BY <2>5, <2>10, <3>1
      <4> QED BY <2>4, <3>1, <4>1 DEF Refines
    <3>2. ASSUME m \in 1 .. Len(below), v.stack[m] = below[m],
                 NEW n1 \in 2 .. Len(w.stack), v.stack[n] = w.stack[n1]
          PROVE  Before(mods, v.stack[m], v.stack[n])
      <4>1. Beneath(mods, below[m]) \subseteq Beneath(mods, p) BY <2>4, <3>2 DEF Refines
      <4>2. 1 \in 1 .. Len(w.stack) /\ n1 \in 1 .. Len(w.stack) /\ 1 < n1 BY <1>3, <3>2
      <4>3. Before(mods, p, w.stack[n1]) BY <1>1, <4>2 DEF OrderInv
      <4> QED BY <3>2, <4>1, <4>3 DEF Before
    <3>3. ASSUME NEW m1 \in 2 .. Len(w.stack), v.stack[m] = w.stack[m1], m = Len(below) + (m1 - 1),
                 NEW n1 \in 2 .. Len(w.stack), v.stack[n] = w.stack[n1], n = Len(below) + (n1 - 1)
          PROVE  Before(mods, v.stack[m], v.stack[n])
      <4>1. m1 \in 1 .. Len(w.stack) /\ n1 \in 1 .. Len(w.stack) /\ m1 < n1
        BY <1>3, <2>5, <2>10, <3>3
      <4>2. Before(mods, w.stack[m1], w.stack[n1]) BY <4>1 DEF OrderInv
      <4> QED BY <3>3, <4>2
    <3>4. ASSUME n \in 1 .. Len(below), NEW m1 \in 2 .. Len(w.stack), m = Len(below) + (m1 - 1)
          PROVE  FALSE
      BY <1>3, <2>5, <2>10, <3>4
    <3>5. /\ \/ m \in 1 .. Len(below) /\ v.stack[m] = below[m]
             \/ \E m1 \in 2 .. Len(w.stack) : m = Len(below) + (m1 - 1) /\ v.stack[m] = w.stack[m1]
          /\ \/ n \in 1 .. Len(below) /\ v.stack[n] = below[n]
             \/ \E n1 \in 2 .. Len(w.stack) : n = Len(below) + (n1 - 1) /\ v.stack[n] = w.stack[n1]
      BY <2>6 DEF Pushed
    <3>6. CASE m \in 1 .. Len(below) /\ v.stack[m] = below[m] BY <3>1, <3>2, <3>5, <3>6
    <3>7. CASE \E m1 \in 2 .. Len(w.stack) : m = Len(below) + (m1 - 1) /\ v.stack[m] = w.stack[m1]
      <4>1. PICK m1 \in 2 .. Len(w.stack) : m = Len(below) + (m1 - 1) /\ v.stack[m] = w.stack[m1]
        BY <3>7
      <4>2. PICK n1 \in 2 .. Len(w.stack) : n = Len(below) + (n1 - 1) /\ v.stack[n] = w.stack[n1]
        BY <3>4, <3>5, <4>1
      <4> QED BY <3>3, <4>1, <4>2
    <3> QED BY <3>5, <3>6, <3>7
  <2>11. IsSeq(v.stack) BY <2>6 DEF Pushed
  <2>12. \A b \in DOMAIN mods : SeenIn(mods, v, b) \/ OnStack(mods, v, b)
    <3>1. \A b : SeenIn(mods, v, b) <=> SeenIn(mods, w, b) BY <2>3 DEF SeenIn
    <3> QED BY <2>8, <3>1 DEF OrderInv
  <2>13. \A n \in 1 .. Len(v.seen) : \A b \in DOMAIN mods : OnStack(mods, v, b) => v.seen[n] < b
    BY <2>3, <2>8 DEF OrderInv
  <2>14. /\ \A n \in 1 .. Len(v.seen) : v.seen[n] \in DOMAIN mods
         /\ \A m, n \in 1 .. Len(v.seen) : m < n => v.seen[m] < v.seen[n]
         /\ IsSeq(v.seen)
    BY <2>3 DEF OrderInv
  <2> QED BY <2>7, <2>9, <2>10, <2>11, <2>12, <2>13, <2>14 DEF OrderInv
<1> QED BY <1>6, <1>7

LEMMA OrderAll ==
  ASSUME NEW prev, NEW L, NEW mods, NEW dm, OrderCtx(L, mods, dm), DOMAIN mods # {},
         NEW f, f = OrderWalk(prev, mods, dm)
  PROVE  \A k \in Nat : OrderInv(mods, f[k])
<1> USE NodesAssumption
<1>1. /\ f[0] = [stack |-> <<<<Height, 0>>>>, sibs |-> <<>>, seen |-> <<>>]
      /\ \A k \in Nat : f[k + 1] = OrderStep(prev, mods, dm, f[k])
  <2>1. f[0] = [stack |-> <<<<Height, 0>>>>, sibs |-> <<>>, seen |-> <<>>] BY OrderWalkDef
  <2>2. OrderEquation(prev, mods, dm, f) BY OrderEquationHolds
  <2>3. \A k \in Nat : f[k + 1] = OrderStep(prev, mods, dm, f[k]) BY <2>2 DEF OrderEquation
  <2> QED BY <2>1, <2>3
<1>2. OrderInv(mods, f[0])
  <2>1. PICK w, p : w = f[0] /\ p = <<Height, 0>> OBVIOUS
  <2>2. w.stack = <<p>> /\ w.sibs = <<>> /\ w.seen = <<>> BY <1>1, <2>1
  <2>3. IsSeq(w.stack) /\ Len(w.stack) = 1 /\ w.stack[1] = p BY <2>2, OneSeq
  <2>4. IsSeq(w.sibs) /\ IsSeq(w.seen) /\ Len(w.seen) = 0 BY <2>2, NoSeq
  <2>5. p[1] = Height /\ p[2] = 0 BY <2>1
  <2>6. \A m \in DOMAIN mods : Anc(m, Height) = 0
    <3>1. DOMAIN mods \subseteq Index BY DEF OrderCtx, IsMods
    <3> QED BY <3>1, AncPosition
  <2>7. PlaceOK(mods, p) BY <2>5, <2>6 DEF PlaceOK, Mod
  <2>8. \A b \in DOMAIN mods : b \in Beneath(mods, p) BY <2>5, <2>6 DEF Beneath
  <2>9. \A n \in 1 .. Len(w.stack) : n = 1 BY <2>3
  <2>10. 1 \in 1 .. Len(w.stack) BY <2>3
  <2>11. \A b \in DOMAIN mods : OnStack(mods, w, b) BY <2>3, <2>8, <2>10 DEF OnStack
  <2>12. 1 .. Len(w.seen) = {} BY <2>4
  <2>13. OrderInv(mods, w) BY <2>3, <2>4, <2>7, <2>9, <2>11, <2>12 DEF OrderInv
  <2> QED BY <2>1, <2>13
<1> DEFINE Good(k) == OrderInv(mods, f[k])
           S == {k \in Nat : Good(k)}
<1>3. ASSUME NEW k \in Nat, Good(k) PROVE Good(k + 1)
  <2>1. PICK w, v : w = f[k] /\ v = OrderStep(prev, mods, dm, w) OBVIOUS
  <2>2. v = f[k + 1] BY <1>1, <2>1
  <2>3. OrderInv(mods, w) BY <1>3, <2>1
  <2>4. CASE w.stack = <<>>
    <3>1. v = w BY <2>1, <2>4 DEF OrderStep
    <3> QED BY <2>2, <2>3, <3>1
  <2>5. CASE w.stack # <<>>
    <3>1. OrderInv(mods, v) BY <2>1, <2>3, <2>5, OrderStepInv
    <3> QED BY <2>2, <3>1
  <2> QED BY <2>4, <2>5
<1> HIDE DEF Good
<1>4. 0 \in S BY <1>2 DEF Good
<1>5. ASSUME NEW k \in Nat, k \in S PROVE k + 1 \in S BY <1>3, <1>5
<1>6. \A k \in Nat : k \in S
  <2> HIDE DEF S
  <2> QED BY <1>4, <1>5, NatSetInduction
<1> QED BY <1>6 DEF Good

\* What is written grows, and nothing changes once the stack is empty.
Grown(u, w) == /\ Len(u.sibs) <= Len(w.sibs)
               /\ \A n \in 1 .. Len(u.sibs) : w.sibs[n] = u.sibs[n]
               /\ u.stack = <<>> => w = u

LEMMA OrderGrows ==
  ASSUME NEW prev, NEW L, NEW mods, NEW dm, OrderCtx(L, mods, dm), DOMAIN mods # {},
         NEW f, f = OrderWalk(prev, mods, dm), NEW k \in Nat
  PROVE  \A d \in Nat : Grown(f[k], f[k + d])
<1> DEFINE Good(d) == /\ Len(f[k].sibs) <= Len(f[k + d].sibs)
                      /\ \A n \in 1 .. Len(f[k].sibs) : f[k + d].sibs[n] = f[k].sibs[n]
                      /\ f[k].stack = <<>> => f[k + d] = f[k]
           S == {d \in Nat : Good(d)}
<1>1. \A j \in Nat : IsSeq(f[j].sibs) /\ Len(f[j].sibs) \in Nat
  <2>1. \A j \in Nat : OrderInv(mods, f[j]) BY OrderAll
  <2> QED BY <2>1, SeqLen DEF OrderInv
<1>2. Good(0)
  <2>1. k + 0 = k OBVIOUS
  <2> QED BY <1>1, <2>1
<1>3. ASSUME NEW d \in Nat, Good(d) PROVE Good(d + 1)
  <2>1. PICK u, w, v : u = f[k] /\ w = f[k + d] /\ v = f[k + (d + 1)] OBVIOUS
  <2>2. k + d \in Nat /\ k + (d + 1) = (k + d) + 1 /\ k + (d + 1) \in Nat OBVIOUS
  <2>3. v = OrderStep(prev, mods, dm, w)
    <3>1. OrderEquation(prev, mods, dm, f) BY OrderEquationHolds
    <3> QED BY <2>1, <2>2, <3>1 DEF OrderEquation
  <2>4. /\ IsSeq(u.sibs) /\ Len(u.sibs) \in Nat /\ IsSeq(w.sibs) /\ Len(w.sibs) \in Nat
        /\ IsSeq(v.sibs) /\ Len(v.sibs) \in Nat
    BY <1>1, <2>1, <2>2
  <2>5. /\ Len(u.sibs) <= Len(w.sibs) /\ \A n \in 1 .. Len(u.sibs) : w.sibs[n] = u.sibs[n]
        /\ u.stack = <<>> => w = u
    BY <1>3, <2>1
  <2>6. /\ Len(w.sibs) <= Len(v.sibs) /\ \A n \in 1 .. Len(w.sibs) : v.sibs[n] = w.sibs[n]
        /\ w.stack = <<>> => v = w
    <3>1. CASE v.sibs = w.sibs
      <4>1. w.stack = <<>> => v = w BY <2>3 DEF OrderStep
      <4> QED BY <2>4, <3>1, <4>1
    <3>2. CASE v.sibs # w.sibs
      <4>1. w.stack # <<>> BY <2>3, <3>2 DEF OrderStep
      <4>2. PICK h, i : h = w.stack[1][1] /\ i = w.stack[1][2] OBVIOUS
      <4>3. PICK b : b = Beside(prev, mods, dm, h, i) OBVIOUS
      <4>4. v.sibs = w.sibs \o b BY <2>3, <3>2, <4>1, <4>2, <4>3 DEF OrderStep
      <4>5. IsSeq(b) /\ Len(b) \in {0, 1} BY <4>3, BesideSeq
      <4>6. Joined(w.sibs, b, v.sibs) BY <2>4, <4>4, <4>5, SeqJoin
      <4>7. Len(v.sibs) = Len(w.sibs) + Len(b) /\ \A n \in 1 .. Len(w.sibs) : v.sibs[n] = w.sibs[n]
        BY <4>6 DEF Joined
      <4> HIDE <4>4
      <4> QED BY <2>4, <4>1, <4>5, <4>7
    <3> QED BY <3>1, <3>2
  <2>7. \A n \in 1 .. Len(u.sibs) : n \in 1 .. Len(w.sibs) BY <2>4, <2>5
  <2>8. Len(u.sibs) <= Len(v.sibs) BY <2>4, <2>5, <2>6
  <2>9. \A n \in 1 .. Len(u.sibs) : v.sibs[n] = u.sibs[n] BY <2>5, <2>6, <2>7
  <2>10. u.stack = <<>> => v = u BY <2>5, <2>6
  <2> QED BY <2>1, <2>8, <2>9, <2>10
<1> HIDE DEF Good
<1>4. 0 \in S BY <1>2
<1>5. ASSUME NEW d \in Nat, d \in S PROVE d + 1 \in S BY <1>3, <1>5
<1>6. \A d \in Nat : d \in S
  <2> HIDE DEF S
  <2> QED BY <1>4, <1>5, NatSetInduction
<1> QED BY <1>6 DEF Good, Grown

\* Two ends of the order are the same, and what a step writes is in the end.
\* What was written first stays.
Begins(u, z) == Len(u) <= Len(z) /\ \A n \in 1 .. Len(u) : z[n] = u[n]

LEMMA OrderEnds ==
  ASSUME NEW prev, NEW L, NEW mods, NEW dm, OrderCtx(L, mods, dm), DOMAIN mods # {},
         NEW f, f = OrderWalk(prev, mods, dm), NEW e \in Nat, f[e].stack = <<>>, NEW k \in Nat
  PROVE  /\ f[k].stack = <<>> => f[k] = f[e]
         /\ f[k].stack # <<>> => Begins(f[k + 1].sibs, f[e].sibs)
<1>1. CASE e <= k
  <2>1. PICK d \in Nat : k = e + d
    <3>1. k - e \in Nat /\ k = e + (k - e) BY <1>1
    <3> QED BY <3>1
  <2>3. Grown(f[e], f[e + d]) BY OrderGrows
  <2>2. f[e + d] = f[e] BY <2>3 DEF Grown
  <2> QED BY <2>1, <2>2
<1>2. CASE k < e
  <2>1. PICK d \in Nat : e = (k + 1) + d
    <3>1. e - (k + 1) \in Nat /\ e = (k + 1) + (e - (k + 1)) BY <1>2
    <3> QED BY <3>1
  <2>2. PICK k1 \in Nat : k1 = k + 1 OBVIOUS
  <2>3. Begins(f[k1].sibs, f[k1 + d].sibs)
    <3>1. Grown(f[k1], f[k1 + d]) BY OrderGrows
    <3> QED BY <3>1 DEF Grown, Begins
  <2>4. PICK d1 \in Nat : d1 = d + 1 OBVIOUS
  <2>5. f[k].stack = <<>> => f[k + d1] = f[k]
    <3>1. Grown(f[k], f[k + d1]) BY OrderGrows
    <3> QED BY <3>1 DEF Grown
  <2>6. k + d1 = e /\ k1 + d = e BY <2>1, <2>2, <2>4
  <2> QED BY <2>2, <2>3, <2>5, <2>6
<1> QED BY <1>1, <1>2

-----------------------------------------------------------------------------
(* What a walk knows of the nodes it comes to.                             *)

\* One of the two trees, the preimage and the descents.
WalkCtx(pre, prev, mods, dm, T) ==
    /\ GuessCtx(pre, prev, mods)
    /\ DescentMap(LiveSet(prev, mods), mods, dm)
    /\ T \in {prev, Unify(prev, mods)}

LEMMA WalkCtxIs ==
  ASSUME NEW pre, NEW prev, NEW mods, NEW dm, NEW T, WalkCtx(pre, prev, mods, dm, T),
         NEW L, L = LiveSet(prev, mods)
  PROVE  /\ prev \in Tree /\ T \in Tree /\ IsMods(mods) /\ PreOK(pre)
         /\ Knows(pre, T, DOMAIN mods)
         /\ OrderCtx(L, mods, dm) /\ L \subseteq Index
         /\ \A leaf \in Index : T[leaf] # 0 => leaf \in L
         /\ \A leaf \in Index : leaf \notin DOMAIN mods => T[leaf] = prev[leaf]
<1>1. GuessCtx(pre, prev, mods) /\ T \in {prev, Unify(prev, mods)} BY DEF WalkCtx
<1>2. prev \in Tree /\ IsMods(mods) /\ PreOK(pre) /\ Knows(pre, T, DOMAIN mods)
  BY <1>1 DEF GuessCtx
<1>3. /\ Unify(prev, mods) \in Tree
      /\ \A i \in Index : Unify(prev, mods)[i] = IF i \in DOMAIN mods THEN mods[i] ELSE prev[i]
  BY <1>2, UnifyType
<1>4. L \subseteq Index /\ L \subseteq Nat BY <1>2, LiveType
<1>5. OrderCtx(L, mods, dm) BY <1>2, <1>4 DEF WalkCtx, OrderCtx, LiveSet
<1> QED BY <1>1, <1>2, <1>3, <1>4, <1>5 DEF LiveSet

LEMMA LeafNode ==
  ASSUME NEW tree \in Tree, NEW i \in Index
  PROVE  RNode(tree, 0, i) = from_hash(LeafFact(tree[i]), 0)
<1>1. Ref(tree, 0, i) = ReferenceLeaf(tree[i]) BY RefDef
<1> QED BY <1>1 DEF RNode, ReferenceLeaf, Subtree

\* The nodes beside the modified leaves are the same in both trees.
LEMMA BesideSame ==
  ASSUME NEW pre, NEW prev, NEW mods, NEW dm, NEW T, WalkCtx(pre, prev, mods, dm, T),
         NEW h \in 0 .. Height, NEW i \in Positions(Height - h), ~Mod(mods, h, i)
  PROVE  RNode(T, h, i) = RNode(prev, h, i)
<1>1. prev \in Tree /\ IsMods(mods) /\ T \in {prev, Unify(prev, mods)}
  BY WalkCtxIs DEF WalkCtx
<1>2. h \in Nat BY NodesAssumption
<1>3. i \notin DOMAIN UpdateLayers(mods)[h] BY <1>1, <1>2, ModIff
<1>4. Ref(Unify(prev, mods), h, i) = Ref(prev, h, i) BY <1>1, <1>3, Untouched
<1> QED BY <1>1, <1>4 DEF RNode

\* A node on its place in a tree, known as it is or by its hash.
Stands(T, n, h, i) ==
    \/ n = RNode(T, h, i)
    \/ n = from_hash(hash_node(RNode(T, h, i)), h) /\ HashPoint(T, h, i)

LEMMA ModPlace ==
  ASSUME NEW mods, IsMods(mods), NEW h \in 0 .. Height, NEW i, Mod(mods, h, i)
  PROVE  i \in Positions(Height - h) /\ i \in Nat
<1>1. PICK m \in DOMAIN mods : Anc(m, h) = i BY DEF Mod
<1>2. m \in Index BY DEF IsMods
<1> QED BY <1>1, <1>2, AncHere

\* The node at a leaf has its value.
LEMMA StandsLeaf ==
  ASSUME NEW T \in Tree, NEW i \in Index, NEW n, Stands(T, n, 0, i)
  PROVE  n.height = 0 /\ LeafValue(n.bottom) = T[i]
<1>1. PICK v : v = T[i] OBVIOUS
<1>2. RNode(T, 0, i) = from_hash(LeafFact(v), 0) BY <1>1, LeafNode
<1>3. hash_node(RNode(T, 0, i)) = LeafFact(v) BY <1>2 DEF hash_node, from_hash, VirtualNode
<1>4. n = from_hash(LeafFact(v), 0) BY <1>2, <1>3 DEF Stands
<1>5. n.height = 0 /\ n.bottom = LeafFact(v) BY <1>4 DEF from_hash, VirtualNode
<1>6. LeafValue(LeafFact(v)) = v BY DEF LeafValue, LeafFact, EMPTY_NODE_HASH
<1> QED BY <1>1, <1>5, <1>6

LEMMA StandsInner ==
  ASSUME NEW pre, NEW prev, NEW mods, NEW dm, NEW T, WalkCtx(pre, prev, mods, dm, T),
         NEW h \in 1 .. Height, NEW i, Mod(mods, h, i), NEW n, Stands(T, n, h, i),
         NEW r, r = RNode(T, h, i)
  PROVE  /\ n.height = h /\ NodeOK(r, h)
         /\ is_empty(n) => n = empty_node(h) /\ r = n
         /\ is_virtual_edge(n) => n = r /\ ~is_empty(r) /\ r.length \in 1 .. h
         /\ ~is_empty(n) /\ ~is_virtual_edge(n) =>
               /\ n.bottom \in DOMAIN pre /\ ~is_empty(r)
               /\ n.bottom = hash_node(r) /\ pre[n.bottom] = to_tuple(n.bottom)
<1> USE NodesAssumption
<1>1. T \in Tree /\ IsMods(mods) /\ PreOK(pre) /\ Knows(pre, T, DOMAIN mods) BY WalkCtxIs
<1>2. h \in 0 .. Height OBVIOUS
<1>3. i \in Positions(Height - h) BY <1>1, <1>2, ModPlace
<1>4. NodeOK(r, h) BY <1>1, <1>2, <1>3, RNodeOK
<1>5. r = VirtualNode(r.bottom, r.path, r.length, h) BY <1>4 DEF NodeOK
<1>6. CASE is_empty(r)
  <2>1. r = empty_node(h) BY <1>4, <1>6, EmptyIs
  <2>2. hash_node(r) = EMPTY_NODE_HASH /\ r.length = 0
    BY <2>1 DEF hash_node, empty_node, from_hash, VirtualNode
  <2>3. n = empty_node(h) BY <2>1, <2>2 DEF Stands, empty_node
  <2>4. n.height = h /\ n.length = 0 /\ is_empty(n)
    BY <2>3 DEF empty_node, from_hash, VirtualNode, is_empty
  <2> QED BY <1>4, <2>1, <2>3, <2>4 DEF is_virtual_edge
<1>7. CASE ~is_empty(r)
  <2>1. /\ IsInner(hash_node(r))
        /\ r.length = 0 => r.bottom.kind = "binary" /\ hash_node(r) = r.bottom
        /\ r.length # 0 => hash_node(r) = EdgeNodeFact(r.bottom, r.path, r.length)
    BY <1>1, <1>3, <1>7, InnerHash
  <2>2. hash_node(r) # EMPTY_NODE_HASH
    BY <2>1 DEF IsInner, EMPTY_NODE_HASH
  <2>3. n.height = h /\ ~is_empty(n)
    <3>1. CASE n = r
      <4>1. n.height = h BY <1>5, <3>1 DEF VirtualNode
      <4> QED BY <1>7, <3>1, <4>1
    <3>2. CASE n = from_hash(hash_node(r), h)
      BY <2>2, <3>2 DEF from_hash, VirtualNode, is_empty
    <3> QED BY <3>1, <3>2 DEF Stands
  <2>4. is_virtual_edge(n) => n = r /\ r.length \in 1 .. h
    <3>1. n = from_hash(hash_node(r), h) => n.length = 0 BY DEF from_hash, VirtualNode
    <3>2. r.length \in 0 .. h BY <1>4 DEF NodeOK
    <3>3. is_virtual_edge(n) => n = r /\ r.length # 0 BY <3>1 DEF Stands, is_virtual_edge
    <3> QED BY <3>2, <3>3
  <2>5. ASSUME ~is_virtual_edge(n)
        PROVE  /\ n.bottom \in DOMAIN pre
               /\ n.bottom = hash_node(r) /\ pre[n.bottom] = to_tuple(n.bottom)
    <3>1. n.bottom = hash_node(r) /\ HashPoint(T, h, i)
      <4>1. CASE n = r
        <5>1. r.length = 0 BY <2>5, <4>1 DEF is_virtual_edge
        <5> QED BY <2>1, <4>1, <5>1 DEF HashPoint
      <4>2. CASE n = from_hash(hash_node(r), h) /\ HashPoint(T, h, i)
        BY <4>2 DEF from_hash, VirtualNode
      <4> QED BY <4>1, <4>2 DEF Stands
    <3>2. PICK m \in DOMAIN mods : Anc(m, h) = i BY DEF Mod
    <3>3. hash_node(r) \in DOMAIN pre BY <1>1, <1>7, <3>1, <3>2 DEF Knows
    <3> QED BY <1>1, <3>1, <3>3 DEF PreOK
  <2> QED BY <1>4, <1>7, <2>3, <2>4, <2>5
<1> QED BY <1>6, <1>7

\* A node that is not empty has a leaf of the tree below it.
LEMMA LeafUnder ==
  ASSUME NEW T \in Tree, NEW L, \A leaf \in Index : T[leaf] # 0 => leaf \in L,
         NEW h \in 0 .. Height, NEW i \in Positions(Height - h), ~is_empty(RNode(T, h, i))
  PROVE  \E leaf \in Index : leaf \in L /\ Anc(leaf, h) = i /\ T[leaf] # 0
<1>1. ~ \A leaf \in Index : Anc(leaf, h) = i => T[leaf] = 0 BY EmptyIff
<1> QED BY <1>1

\* Where a tree has a binary node no descent begins.
LEMMA BinaryParts ==
  ASSUME NEW pre, NEW prev, NEW mods, NEW dm, NEW T, WalkCtx(pre, prev, mods, dm, T),
         NEW g \in Nat, g < Height, NEW i \in Positions(Height - (g + 1)), NEW r,
         r = RNode(T, g + 1, i), ~is_empty(r), r.length = 0
  PROVE  <<g + 1, i>> \notin DOMAIN dm
<1> USE NodesAssumption
<1>1. PICK L : L = LiveSet(prev, mods) OBVIOUS
<1>2. /\ T \in Tree /\ OrderCtx(L, mods, dm)
      /\ \A leaf \in Index : T[leaf] # 0 => leaf \in L
  BY <1>1, WalkCtxIs
<1>3. ~is_empty(RNode(T, g, 2 * i)) /\ ~is_empty(RNode(T, g, 2 * i + 1))
  BY <1>2, BinaryKind
<1>4. g \in 0 .. Height /\ 2 * i \in Positions(Height - g) /\ 2 * i + 1 \in Positions(Height - g)
  <2>1. PICK m \in Nat : m = Height - (g + 1) /\ Height - g = m + 1 OBVIOUS
  <2> QED BY <2>1, ChildPositions
<1>5. PICK a \in Index : a \in L /\ Anc(a, g) = 2 * i BY <1>2, <1>3, <1>4, LeafUnder
<1>6. PICK b \in Index : b \in L /\ Anc(b, g) = 2 * i + 1
  <2>1. PICK q : q = 2 * i + 1 OBVIOUS
  <2>2. \E b \in Index : b \in L /\ Anc(b, g) = q BY <1>2, <1>3, <1>4, <2>1, LeafUnder
  <2> QED BY <2>1, <2>2
<1>7. (g + 1) - 1 = g OBVIOUS
<1>8. Parts(L, g + 1, i) BY <1>5, <1>6, <1>7 DEF Parts, Und
<1>9. PICK h : h = g + 1 OBVIOUS
<1>10. ASSUME <<h, i>> \in DOMAIN dm PROVE ~Parts(L, h, i)
  <2>1. \E len, e, j \in Nat : ~Parts(L, h, i) BY <1>2, <1>10, DescentFacts
  <2> QED BY <2>1
<1> QED BY <1>8, <1>9, <1>10

\* The tree below the descent.
LEMMA DescentNode ==
  ASSUME NEW pre, NEW prev, NEW mods, NEW dm, NEW T, WalkCtx(pre, prev, mods, dm, T),
         NEW L, L = LiveSet(prev, mods), NEW h \in 1 .. Height, NEW i \in Positions(Height - h),
         <<h, i>> \in DOMAIN dm, NEW len \in Nat, NEW g \in Nat, NEW j \in Nat,
         h = g + len, Anc(j, len) = i, Und(L, g, j) = Und(L, h, i), Mod(mods, g, j),
         NEW r, r = RNode(T, h, i)
  PROVE  /\ is_empty(r) => RNode(T, g, j) = empty_node(g)
         /\ ~is_empty(r) =>
               /\ len <= r.length
               /\ Anc(r.path, r.length - len) = j % Pow2[len]
               /\ RNode(T, g, j) =
                  VirtualNode(r.bottom, r.path % Pow2[r.length - len], r.length - len, g)
<1> USE NodesAssumption
<1>1. /\ T \in Tree /\ IsMods(mods) /\ OrderCtx(L, mods, dm) /\ L \subseteq Index
      /\ \A leaf \in Index : T[leaf] # 0 => leaf \in L
  BY WalkCtxIs
<1>2. g \in 0 .. Height /\ h \in 0 .. Height /\ h \in Nat /\ g <= h /\ len \in 0 .. h OBVIOUS
<1>3. j \in Positions(Height - g) BY <1>1, <1>2, ModPlace
<1>4. NodeOK(r, h) BY <1>1, <1>2, RNodeOK
<1>5. Index \subseteq Nat BY PositionsNat DEF Index
<1>6. CASE is_empty(r)
  <2>1. \A leaf \in Index : Anc(leaf, h) = i => T[leaf] = 0 BY <1>1, <1>2, <1>6, EmptyIff
  <2>2. ASSUME NEW leaf \in Index, Anc(leaf, g) = j PROVE T[leaf] = 0
    <3>1. Anc(Anc(leaf, g), len) = Anc(leaf, g + len) BY <1>5, AncAnc
    <3>2. Anc(leaf, h) = i BY <2>2, <3>1
    <3> QED BY <2>1, <3>2
  <2>3. is_empty(RNode(T, g, j)) BY <1>1, <1>2, <1>3, <2>2, EmptyIff
  <2>4. NodeOK(RNode(T, g, j), g) BY <1>1, <1>2, <1>3, RNodeOK
  <2>5. RNode(T, g, j) = empty_node(g) BY <2>3, <2>4, EmptyIs
  <2> QED BY <1>6, <2>5
<1>7. CASE ~is_empty(r)
  <2>1. PICK e \in Nat : e = r.length /\ e <= h /\ e \in 0 .. h BY <1>2, <1>4 DEF NodeOK
  <2>2. len <= e
    <3>1. SUFFICES ASSUME e < len PROVE FALSE BY <2>1
    <3>2. e # 0
      <4>1. PICK c \in Nat : h = c + 1 /\ c < Height
        <5>1. h - 1 \in Nat /\ h = (h - 1) + 1 /\ h - 1 < Height OBVIOUS
        <5> QED BY <5>1
      <4>2. SUFFICES ASSUME e = 0 PROVE FALSE OBVIOUS
      <4>3. r = RNode(T, c + 1, i) /\ r.length = 0 /\ i \in Positions(Height - (c + 1))
        BY <2>1, <4>1, <4>2
      <4>4. <<c + 1, i>> \notin DOMAIN dm BY <1>7, <4>1, <4>3, BinaryParts
      <4> QED BY <4>1, <4>4
    <3>3. PICK c \in Nat : h - e = c + 1 /\ c < Height /\ h = (c + 1) + e
      <4>1. (h - e) - 1 \in Nat /\ h - e = ((h - e) - 1) + 1 /\ (h - e) - 1 < Height
            /\ h = (((h - e) - 1) + 1) + e
        BY <1>2, <2>1, <3>1
      <4> QED BY <4>1
    <3>4. PICK q : q = i * Pow2[e] + r.path OBVIOUS
    <3>5. q \in Positions(Height - (h - e)) /\ RNode(T, h - e, q) = from_hash(r.bottom, h - e)
      <4>1. h \in e .. Height BY <1>2, <2>1
      <4> QED BY <1>1, <2>1, <3>4, <4>1, EdgeBottom
    <3>6. PICK b0 : b0 = RNode(T, c + 1, q) OBVIOUS
    <3>7. b0 = from_hash(r.bottom, c + 1) /\ q \in Positions(Height - (c + 1))
      BY <3>3, <3>5, <3>6
    <3>8. b0.length = 0 /\ ~is_empty(b0) BY <1>7, <3>7 DEF from_hash, VirtualNode, is_empty
    <3>9. ~is_empty(RNode(T, c, 2 * q)) /\ ~is_empty(RNode(T, c, 2 * q + 1))
      BY <1>1, <3>3, <3>6, <3>7, <3>8, BinaryKind
    <3>10. /\ c \in 0 .. Height /\ 2 * q \in Positions(Height - c)
           /\ 2 * q + 1 \in Positions(Height - c) /\ q \in Nat
      <4>1. PICK m \in Nat : m = Height - (c + 1) /\ Height - c = m + 1 BY <3>3
      <4> QED BY <3>3, <3>7, <4>1, ChildPositions, PositionsNat
    <3>11. PICK a \in Index : a \in L /\ Anc(a, c) = 2 * q BY <1>1, <3>9, <3>10, LeafUnder
    <3>12. PICK b \in Index : b \in L /\ Anc(b, c) = 2 * q + 1
      <4>1. PICK q1 : q1 = 2 * q + 1 OBVIOUS
      <4>2. \E b \in Index : b \in L /\ Anc(b, c) = q1 BY <1>1, <3>9, <3>10, <4>1, LeafUnder
      <4> QED BY <4>1, <4>2
    <3>13. Anc(a, c + 1) = q /\ Anc(b, c + 1) = q BY <1>5, <3>10, <3>11, <3>12, AncUp
    <3>14. Anc(q, e) = i
      <4>1. r.path \in Positions(e) /\ i \in Nat BY <1>2, <1>4, <2>1, PositionsNat DEF NodeOK
      <4>2. PICK x \in Positions(e) : x = r.path BY <4>1
      <4>3. q = i * Pow2[e] + x BY <3>4, <4>2
      <4>4. Anc(q, e) = i /\ q % Pow2[e] = x BY <3>10, <4>1, <4>3, AncUnique
      <4> QED BY <4>4
    <3>15. PICK c1 \in Nat : c1 = c + 1 OBVIOUS
    <3>16. Anc(a, h) = i
      <4>1. Anc(Anc(a, c1), e) = Anc(a, c1 + e) BY <1>5, AncAnc
      <4> QED BY <3>3, <3>13, <3>14, <3>15, <4>1
    <3>17. Anc(b, h) = i
      <4>1. Anc(Anc(b, c1), e) = Anc(b, c1 + e) BY <1>5, AncAnc
      <4> QED BY <3>3, <3>13, <3>14, <3>15, <4>1
    <3>18. Anc(a, g) = j /\ Anc(b, g) = j
      <4>1. a \in Und(L, h, i) /\ b \in Und(L, h, i) BY <3>11, <3>12, <3>16, <3>17 DEF Und
      <4>2. a \in Und(L, g, j) /\ b \in Und(L, g, j) BY <4>1
      <4> QED BY <4>2 DEF Und
    <3>19. PICK d \in Nat : c = g + d
      <4>1. c - g \in Nat /\ c = g + (c - g) BY <3>1, <3>3
      <4> QED BY <4>1
    <3>20. Anc(a, c) = Anc(j, d) BY <1>5, <3>18, <3>19, AncAnc
    <3>21. Anc(b, c) = Anc(j, d) BY <1>5, <3>18, <3>19, AncAnc
    <3> QED BY <3>10, <3>11, <3>12, <3>20, <3>21
  <2>3. PICK a \in Index : a \in L /\ Anc(a, h) = i /\ T[a] # 0
    BY <1>1, <1>2, <1>7, LeafUnder
  <2>4. Anc(a, g) = j
    <3>1. a \in Und(L, g, j) BY <2>3 DEF Und
    <3> QED BY <3>1 DEF Und
  <2>5. ~is_empty(RNode(T, g, j)) BY <1>1, <1>2, <1>3, <2>3, <2>4, EmptyIff
  <2>6. h - len = g BY <1>2
  <2>7. /\ Anc(a, h - len) % Pow2[len] = Anc(r.path, r.length - len)
        /\ RNode(T, h - len, Anc(a, h - len)) =
           VirtualNode(r.bottom, r.path % Pow2[r.length - len], r.length - len, h - len)
    <3>1. r = RNode(T, h, Anc(a, h)) /\ len <= r.length BY <2>1, <2>2, <2>3
    <3>2. ~is_empty(RNode(T, h - len, Anc(a, h - len))) BY <2>4, <2>5, <2>6
    <3> QED BY <1>1, <1>2, <3>1, <3>2, KeyBelow
  <2> QED BY <1>7, <2>1, <2>2, <2>4, <2>6, <2>7
<1> QED BY <1>6, <1>7

\* One bit of a word.
LEMMA WordBit ==
  ASSUME NEW j \in Nat, NEW len \in Nat, NEW e \in Nat, e < len, NEW word,
         word = j % Pow2[len]
  PROVE  Anc(word, e) % 2 = Anc(j, e) % 2
<1>1. PICK c \in Nat : len = (e + 1) + c
  <2>1. len - (e + 1) \in Nat /\ len = (e + 1) + (len - (e + 1)) OBVIOUS
  <2> QED BY <2>1
<1>2. PICK i \in Nat : i = Anc(j, len) BY AncType
<1>3. word \in Nat /\ j = i * Pow2[len] + word
  <2>1. word \in Positions(len) /\ j = i * Pow2[len] + word BY <1>2, AncType
  <2> QED BY <2>1, PositionsNat
<1>4. PICK w \in Nat : w = Anc(word, e) BY <1>3, AncType
<1>5. PICK x \in Positions(e) : x = word % Pow2[e] BY <1>3, AncType
<1>6. word = w * Pow2[e] + x BY <1>3, <1>4, <1>5, AncType
<1>7. PICK p, t \in Nat : p = Pow2[e] /\ t = Pow2[c] BY Pow2Type
<1>8. Pow2[len] = p * (2 * t)
  <2>1. Pow2[(e + 1) + c] = Pow2[e + 1] * Pow2[c] BY Pow2Sum
  <2>2. Pow2[e + 1] = 2 * Pow2[e] BY Pow2Def
  <2>3. (2 * p) * t = p * (2 * t) BY <1>7
  <2> QED BY <1>1, <1>7, <2>1, <2>2, <2>3
<1>9. PICK q \in Nat : q = i * t BY <1>2, <1>7
<1>10. i * (p * (2 * t)) = (2 * q) * p
  <2>1. i * (p * (2 * t)) = (i * t) * (2 * p) BY <1>2, <1>7
  <2>2. q * (2 * p) = (2 * q) * p BY <1>7, <1>9
  <2> QED BY <1>9, <2>1, <2>2
<1>11. (2 * q) * p + w * p = (2 * q + w) * p BY <1>4, <1>7, <1>9
<1>12. PICK z \in Nat : z = 2 * q + w BY <1>4, <1>9
<1>13. j = z * Pow2[e] + x
  <2>1. x \in Nat BY <1>5, PositionsNat
  <2>2. j = (2 * q) * p + (w * p + x) BY <1>3, <1>6, <1>7, <1>8, <1>10
  <2>3. (2 * q) * p \in Nat /\ w * p \in Nat BY <1>4, <1>7, <1>9
  <2>4. j = ((2 * q) * p + w * p) + x BY <2>1, <2>2, <2>3
  <2> QED BY <1>7, <1>11, <1>12, <2>4
<1>14. Anc(j, e) = z BY <1>5, <1>13, AncUnique
<1>15. z % 2 = w % 2 BY <1>4, <1>9, <1>12
<1> QED BY <1>4, <1>14, <1>15

\* enter_scope_descend_edge comes to the update of the place below.
LEMMA DescendIs ==
  ASSUME NEW mods, IsMods(mods), NEW h \in Nat, NEW len \in Nat, NEW g \in Nat, NEW j \in Nat,
         h = g + len, Mod(mods, g, j), NEW i, Anc(j, len) = i, NEW word, word = j % Pow2[len]
  PROVE  DescendUpdate(UpdateAt(mods, h, i), len, word) = UpdateAt(mods, g, j)
<1>1. PICK u : u = UpdateAt(mods, h, i) OBVIOUS
<1>2. PICK f : f = DescendSteps(u, len, word) OBVIOUS
<1>3. f[0] = u /\ \A k \in Nat :
         f[k + 1] = DescendStep(f[k], (word \div Pow2[len - (k + 1)]) % 2)
  BY <1>2, DescendStepsDef
<1>4. PICK m \in DOMAIN mods : Anc(m, g) = j BY DEF Mod
<1>5. m \in Nat BY PositionsNat, NodesAssumption DEF IsMods, Index
<1>6. \A e \in Nat : Anc(j, e) \in Nat /\ Mod(mods, g + e, Anc(j, e))
  <2>1. ASSUME NEW e \in Nat PROVE Anc(j, e) \in Nat /\ Mod(mods, g + e, Anc(j, e))
    <3>1. Anc(Anc(m, g), e) = Anc(m, g + e) BY <1>5, AncAnc
    <3> QED BY <1>4, <3>1, AncType DEF Mod
  <2> QED BY <2>1
<1> DEFINE Good(k) == \A e \in Nat : k + e = len => f[k] = UpdateAt(mods, g + e, Anc(j, e))
           S == {k \in Nat : Good(k)}
<1>7. Good(0) BY <1>1, <1>3
<1>8. ASSUME NEW k \in Nat, Good(k) PROVE Good(k + 1)
  <2> SUFFICES ASSUME NEW e \in Nat, (k + 1) + e = len
               PROVE  f[k + 1] = UpdateAt(mods, g + e, Anc(j, e))
    OBVIOUS
  <2>1. PICK e1 \in Nat : e1 = e + 1 OBVIOUS
  <2>2. k + e1 = len /\ len - (k + 1) = e /\ e < len BY <2>1
  <2>3. f[k] = UpdateAt(mods, g + e1, Anc(j, e1)) BY <1>8, <2>2
  <2>4. PICK a, x : a = g + e /\ x = Anc(j, e1) OBVIOUS
  <2>5. a \in Nat /\ g + e1 = a + 1 BY <2>1, <2>4
  <2>6. Mod(mods, a + 1, x) /\ x \in Nat BY <1>6, <2>4, <2>5
  <2>7. UpdateAt(mods, a + 1, x) = [update |-> "tuple", left |-> UpdateAt(mods, a, 2 * x),
                                   right |-> UpdateAt(mods, a, 2 * x + 1)]
    BY <2>5, <2>6, UpdateAtIs
  <2>8. PICK v : v = f[k] OBVIOUS
  <2>9. v = [update |-> "tuple", left |-> UpdateAt(mods, a, 2 * x),
             right |-> UpdateAt(mods, a, 2 * x + 1)]
    BY <2>3, <2>4, <2>5, <2>7, <2>8
  <2>10. v.update = "tuple" /\ v.left = UpdateAt(mods, a, 2 * x) /\ v.right = UpdateAt(mods, a, 2 * x + 1)
    BY <2>9
  <2>11. PICK bit : bit = Anc(j, e) % 2 OBVIOUS
  <2>12. bit \in {0, 1} /\ Anc(j, e) = 2 * x + bit BY <2>1, <2>4, <2>11, AncChild
  <2>13. (word \div Pow2[len - (k + 1)]) % 2 = bit
    <3>1. Anc(word, e) % 2 = Anc(j, e) % 2 BY <2>2, WordBit
    <3>2. Anc(word, e) = word \div Pow2[len - (k + 1)] BY <2>2 DEF Anc
    <3> QED BY <2>11, <3>1, <3>2
  <2>14. f[k + 1] = DescendStep(v, bit) BY <1>3, <2>8, <2>13
  <2>15. DescendStep(v, bit) = UpdateAt(mods, a, 2 * x + bit)
    <3>1. CASE bit = 1 BY <2>10, <3>1 DEF DescendStep
    <3>2. CASE bit = 0
      <4>1. 2 * x + bit = 2 * x BY <2>6, <3>2
      <4> QED BY <2>10, <3>2, <4>1 DEF DescendStep
    <3> QED BY <2>12, <3>1, <3>2
  <2> QED BY <2>4, <2>12, <2>14, <2>15
<1> HIDE DEF Good
<1>9. 0 \in S BY <1>7
<1>10. ASSUME NEW k \in Nat, k \in S PROVE k + 1 \in S BY <1>8, <1>10
<1>11. \A k \in Nat : k \in S
  <2> HIDE DEF S
  <2> QED BY <1>9, <1>10, NatSetInduction
<1>12. Good(len) BY <1>11
<1>13. f[len] = UpdateAt(mods, g + 0, Anc(j, 0))
  <2>1. len + 0 = len OBVIOUS
  <2> QED BY <1>12, <2>1 DEF Good
<1>14. g + 0 = g /\ Anc(j, 0) = j BY Pow2Def DEF Anc
<1> QED BY <1>1, <1>2, <1>13, <1>14 DEF DescendUpdate

-----------------------------------------------------------------------------
(* The scopes of a walk and the places of its order.                       *)

ScopeAt(T, mods, s, h, i) ==
    /\ h \in 0 .. Height /\ Mod(mods, h, i)
    /\ s.path = i /\ s.update = UpdateAt(mods, h, i)
    /\ Stands(T, s.node, h, i)

Matches(T, mods, sc, st) ==
    /\ IsSeq(sc) /\ IsSeq(st) /\ Len(sc) = Len(st)
    /\ \A n \in 1 .. Len(st) : ScopeAt(T, mods, sc[n], st[n][1], st[n][2])

\* The scopes below a place and what is beside them are those of the order.
Goes(prev, T, mods, dm, h, i, below, beside) ==
    /\ Matches(T, mods, below, PlacesBelow(mods, dm, h, i))
    /\ beside = Beside(prev, mods, dm, h, i)

LEMMA ScopeFields ==
  ASSUME NEW n, NEW p, NEW u, NEW s, s = Scope(n, p, u)
  PROVE  s.node = n /\ s.path = p /\ s.update = u
BY DEF Scope

LEMMA OneMatch ==
  ASSUME NEW T, NEW mods, NEW s, NEW h, NEW i, ScopeAt(T, mods, s, h, i)
  PROVE  Matches(T, mods, <<s>>, <<<<h, i>>>>)
<1>1. PICK a, p, b : p = <<h, i>> /\ a = <<s>> /\ b = <<p>> OBVIOUS
<1>2. IsSeq(a) /\ Len(a) = 1 /\ a[1] = s BY <1>1, OneSeq
<1>3. IsSeq(b) /\ Len(b) = 1 /\ b[1] = p BY <1>1, OneSeq
<1>4. p[1] = h /\ p[2] = i BY <1>1
<1>5. \A n \in 1 .. Len(b) : n = 1 BY <1>3
<1>6. Matches(T, mods, a, b) BY <1>2, <1>3, <1>4, <1>5 DEF Matches
<1> QED BY <1>1, <1>6

LEMMA TwoMatch ==
  ASSUME NEW T, NEW mods, NEW s, NEW h, NEW i, ScopeAt(T, mods, s, h, i),
         NEW t, NEW j, ScopeAt(T, mods, t, h, j)
  PROVE  Matches(T, mods, <<s, t>>, <<<<h, i>>, <<h, j>>>>)
<1>1. PICK a, p, q, b : p = <<h, i>> /\ q = <<h, j>> /\ a = <<s, t>> /\ b = <<p, q>> OBVIOUS
<1>2. IsSeq(a) /\ Len(a) = 2 /\ a[1] = s /\ a[2] = t BY <1>1, TwoSeq
<1>3. IsSeq(b) /\ Len(b) = 2 /\ b[1] = p /\ b[2] = q BY <1>1, TwoSeq
<1>4. p[1] = h /\ p[2] = i /\ q[1] = h /\ q[2] = j BY <1>1
<1>5. \A n \in 1 .. Len(b) : n = 1 \/ n = 2 BY <1>3
<1>6. Matches(T, mods, a, b) BY <1>2, <1>3, <1>4, <1>5 DEF Matches
<1> QED BY <1>1, <1>6

\* decode_node on the update of a place.
LEMMA CaseIs ==
  ASSUME NEW mods, IsMods(mods), NEW g \in Nat, g < Height, NEW i, Mod(mods, g + 1, i),
         NEW u, u = UpdateAt(mods, g + 1, i)
  PROVE  /\ u # NoUpdate
         /\ u.left = UpdateAt(mods, g, 2 * i) /\ u.right = UpdateAt(mods, g, 2 * i + 1)
         /\ Mod(mods, g, 2 * i) \/ Mod(mods, g, 2 * i + 1)
         /\ Case(u) = "both" <=> Mod(mods, g, 2 * i) /\ Mod(mods, g, 2 * i + 1)
         /\ Case(u) = "left" <=> ~Mod(mods, g, 2 * i + 1)
         /\ Case(u) = "right" <=> ~Mod(mods, g, 2 * i)
         /\ Case(u) \in {"left", "right", "both"}
<1>1. u = [update |-> "tuple", left |-> UpdateAt(mods, g, 2 * i),
           right |-> UpdateAt(mods, g, 2 * i + 1)]
  BY UpdateAtIs
<1>2. u.left = UpdateAt(mods, g, 2 * i) /\ u.right = UpdateAt(mods, g, 2 * i + 1)
  BY <1>1
<1>3. u.left = NoUpdate <=> ~Mod(mods, g, 2 * i) BY <1>2, UpdateAtIs
<1>4. u.right = NoUpdate <=> ~Mod(mods, g, 2 * i + 1) BY <1>2, UpdateAtIs
<1>5. u # NoUpdate BY <1>1 DEF NoUpdate
<1>6. Mod(mods, g, 2 * i) \/ Mod(mods, g, 2 * i + 1)
  <2>1. PICK m \in DOMAIN mods : Anc(m, g + 1) = i BY DEF Mod
  <2>2. m \in Nat BY PositionsNat, NodesAssumption DEF IsMods, Index
  <2>3. i \in Nat
    <3>1. PICK h \in Nat : h = g + 1 OBVIOUS
    <3> QED BY <2>1, <2>2, <3>1, AncType
  <2>4. Anc(m, g) = 2 * i \/ Anc(m, g) = 2 * i + 1 BY <2>1, <2>2, <2>3, AncUp
  <2> QED BY <2>4 DEF Mod
<1>7. CASE u.right = NoUpdate
  <2>1. u.left # NoUpdate BY <1>3, <1>4, <1>6, <1>7
  <2>2. Case(u) = "left" BY <1>7, <2>1 DEF Case
  <2> QED BY <1>2, <1>3, <1>4, <1>5, <1>6, <1>7, <2>1, <2>2
<1>8. CASE u.right # NoUpdate /\ u.left = NoUpdate
  <2>1. Case(u) = "right" BY <1>8 DEF Case
  <2> QED BY <1>2, <1>3, <1>4, <1>5, <1>6, <1>8, <2>1
<1>9. CASE u.right # NoUpdate /\ u.left # NoUpdate
  <2>1. Case(u) = "both" BY <1>9 DEF Case
  <2> QED BY <1>2, <1>3, <1>4, <1>5, <1>6, <1>9, <2>1
<1> QED BY <1>7, <1>8, <1>9

LEMMA ChildScopes ==
  ASSUME NEW pre, NEW prev, NEW mods, NEW dm, NEW T, WalkCtx(pre, prev, mods, dm, T),
         NEW g \in Nat, g < Height, NEW i, NEW s, ScopeAt(T, mods, s, g + 1, i),
         <<g + 1, i>> \notin DOMAIN dm,
         NEW l, Stands(T, l, g, 2 * i), NEW r, Stands(T, r, g, 2 * i + 1),
         NEW u, u = s.update
  PROVE  /\ Case(u) = "both" =>
               Goes(prev, T, mods, dm, g + 1, i, BothChildren(s, l, r), <<>>)
         /\ Case(u) = "left" =>
               Goes(prev, T, mods, dm, g + 1, i, <<Scope(l, 2 * i, u.left)>>,
                    <<hash_node(RNode(T, g, 2 * i + 1))>>)
         /\ Case(u) = "right" =>
               Goes(prev, T, mods, dm, g + 1, i, <<Scope(r, 2 * i + 1, u.right)>>,
                    <<hash_node(RNode(T, g, 2 * i))>>)
<1> USE NodesAssumption
<1>1. IsMods(mods) /\ T \in Tree BY WalkCtxIs
<1>2. Mod(mods, g + 1, i) /\ u = UpdateAt(mods, g + 1, i) /\ s.path = i BY DEF ScopeAt
<1>3. /\ u.left = UpdateAt(mods, g, 2 * i) /\ u.right = UpdateAt(mods, g, 2 * i + 1)
      /\ Mod(mods, g, 2 * i) \/ Mod(mods, g, 2 * i + 1)
      /\ Case(u) = "both" <=> Mod(mods, g, 2 * i) /\ Mod(mods, g, 2 * i + 1)
      /\ Case(u) = "left" <=> ~Mod(mods, g, 2 * i + 1)
      /\ Case(u) = "right" <=> ~Mod(mods, g, 2 * i)
  BY <1>1, <1>2, CaseIs
<1>4. g \in 0 .. Height /\ g + 1 \in 0 .. Height OBVIOUS
<1>5. i \in Positions(Height - (g + 1)) /\ i \in Nat BY <1>1, <1>2, <1>4, ModPlace
<1>6. 2 * i \in Positions(Height - g) /\ 2 * i + 1 \in Positions(Height - g)
  <2>1. PICK m \in Nat : m = Height - (g + 1) /\ Height - g = m + 1 OBVIOUS
  <2> QED BY <1>5, <2>1, ChildPositions
<1>7. PICK a, b : a = Scope(l, 2 * i, u.left) /\ b = Scope(r, 2 * i + 1, u.right) OBVIOUS
<1>8. ScopeAt(T, mods, a, g, 2 * i) <=> Mod(mods, g, 2 * i)
  BY <1>3, <1>4, <1>7, ScopeFields DEF ScopeAt
<1>9. ScopeAt(T, mods, b, g, 2 * i + 1) <=> Mod(mods, g, 2 * i + 1)
  BY <1>3, <1>4, <1>7, ScopeFields DEF ScopeAt
<1>10. (g + 1) - 1 = g OBVIOUS
<1>11. ~Mod(mods, g, 2 * i) => RNode(T, g, 2 * i) = RNode(prev, g, 2 * i)
  BY <1>4, <1>6, BesideSame
<1>12. ~Mod(mods, g, 2 * i + 1) => RNode(T, g, 2 * i + 1) = RNode(prev, g, 2 * i + 1)
  BY <1>4, <1>6, BesideSame
<1>13. ASSUME Case(u) = "both"
       PROVE  Goes(prev, T, mods, dm, g + 1, i, BothChildren(s, l, r), <<>>)
  <2>1. Mod(mods, g, 2 * i) /\ Mod(mods, g, 2 * i + 1) BY <1>3, <1>13
  <2>2. PlacesBelow(mods, dm, g + 1, i) = <<<<g, 2 * i>>, <<g, 2 * i + 1>>>>
    BY <1>10, <2>1 DEF PlacesBelow
  <2>3. Beside(prev, mods, dm, g + 1, i) = <<>> BY <1>10, <2>1 DEF Beside
  <2>4. BothChildren(s, l, r) = <<a, b>> BY <1>2, <1>7 DEF BothChildren
  <2>5. Matches(T, mods, <<a, b>>, <<<<g, 2 * i>>, <<g, 2 * i + 1>>>>)
    BY <1>8, <1>9, <2>1, TwoMatch
  <2> QED BY <2>2, <2>3, <2>4, <2>5 DEF Goes
<1>14. ASSUME Case(u) = "left"
       PROVE  Goes(prev, T, mods, dm, g + 1, i, <<a>>, <<hash_node(RNode(T, g, 2 * i + 1))>>)
  <2>1. Mod(mods, g, 2 * i) /\ ~Mod(mods, g, 2 * i + 1) BY <1>3, <1>14
  <2>2. PlacesBelow(mods, dm, g + 1, i) = <<<<g, 2 * i>>>> BY <1>10, <2>1 DEF PlacesBelow
  <2>3. Beside(prev, mods, dm, g + 1, i) = <<hash_node(RNode(T, g, 2 * i + 1))>>
    BY <1>10, <1>12, <2>1 DEF Beside
  <2>4. Matches(T, mods, <<a>>, <<<<g, 2 * i>>>>) BY <1>8, <2>1, OneMatch
  <2> QED BY <2>2, <2>3, <2>4 DEF Goes
<1>15. ASSUME Case(u) = "right"
       PROVE  Goes(prev, T, mods, dm, g + 1, i, <<b>>, <<hash_node(RNode(T, g, 2 * i))>>)
  <2>1. ~Mod(mods, g, 2 * i) /\ Mod(mods, g, 2 * i + 1) BY <1>3, <1>15
  <2>2. PlacesBelow(mods, dm, g + 1, i) = <<<<g, 2 * i + 1>>>> BY <1>10, <2>1 DEF PlacesBelow
  <2>3. Beside(prev, mods, dm, g + 1, i) = <<hash_node(RNode(T, g, 2 * i))>>
    BY <1>10, <1>11, <2>1 DEF Beside
  <2>4. PICK q : q = 2 * i + 1 OBVIOUS
  <2>5. Matches(T, mods, <<b>>, <<<<g, q>>>>) BY <1>9, <2>1, <2>4, OneMatch
  <2> QED BY <2>2, <2>3, <2>4, <2>5 DEF Goes
<1> QED BY <1>7, <1>13, <1>14, <1>15

-----------------------------------------------------------------------------
(* The steps of a walk.                                                    *)

\* One of the two trees while it is walked.
InWalk(T) == /\ WalkCtx(preimage, previous, modifications, descent_map, T)
             /\ mode = "State" => KnowsBottoms(preimage, T, DOMAIN modifications)

AtHead(T, s, h, i) == /\ InWalk(T) /\ s = Head(scopes) /\ ScopeAt(T, modifications, s, h, i)

\* The step goes where the order goes.
StepsTo(T, h, i) ==
    /\ h \in 1 .. Height
    /\ \E below, beside : /\ Goes(previous, T, modifications, descent_map, h, i, below, beside)
                          /\ Enter(below, beside)

LEMMA HeadHeight ==
  ASSUME NEW T, NEW s, NEW h, NEW i, AtHead(T, s, h, i)
  PROVE  /\ s.node.height = h /\ s.path = i /\ s.update = UpdateAt(modifications, h, i)
         /\ h \in 0 .. Height /\ Mod(modifications, h, i) /\ Stands(T, s.node, h, i)
         /\ h = 0 => ~is_virtual_edge(s.node) /\ LeafValue(s.node.bottom) = T[i]
         /\ i \in Positions(Height - h) /\ i \in Nat
<1> USE NodesAssumption
<1>1. WalkCtx(preimage, previous, modifications, descent_map, T) BY DEF AtHead, InWalk
<1>2. T \in Tree /\ IsMods(modifications) BY <1>1, WalkCtxIs
<1>3. /\ s.path = i /\ s.update = UpdateAt(modifications, h, i)
      /\ h \in 0 .. Height /\ Mod(modifications, h, i) /\ Stands(T, s.node, h, i)
  BY DEF AtHead, ScopeAt
<1>4. i \in Positions(Height - h) /\ i \in Nat BY <1>2, <1>3, ModPlace
<1>5. CASE h = 0
  <2>1. i \in Index BY <1>4, <1>5 DEF Index
  <2>2. s.node.height = 0 /\ LeafValue(s.node.bottom) = T[i]
    BY <1>2, <1>3, <1>5, <2>1, StandsLeaf
  <2>3. RNode(T, 0, i).length = 0
    BY <1>2, <2>1, LeafNode DEF from_hash, VirtualNode
  <2>4. s.node.length = 0 BY <1>3, <1>5, <2>3 DEF Stands, from_hash, VirtualNode
  <2> QED BY <1>3, <1>4, <1>5, <2>2, <2>4 DEF is_virtual_edge
<1>6. CASE h # 0
  <2>1. h \in 1 .. Height BY <1>3, <1>6
  <2>2. s.node.height = h BY <1>1, <1>3, <2>1, StandsInner
  <2> QED BY <1>3, <1>4, <1>6, <2>2
<1> QED BY <1>5, <1>6

LEMMA InnerPlace ==
  ASSUME NEW h \in 0 .. Height, h # 0
  PROVE  \E g \in Nat : h = g + 1 /\ g < Height /\ h - 1 = g /\ h \in 1 .. Height
<1> USE NodesAssumption
<1>1. h - 1 \in Nat /\ h = (h - 1) + 1 /\ h - 1 < Height /\ h \in 1 .. Height OBVIOUS
<1> QED BY <1>1

\* An edge is loaded and the walk stays where it is.
LEMMA LoadEdgeStays ==
  ASSUME NEW T, NEW s, NEW h, NEW i, AtHead(T, s, h, i), LoadEdge
  PROVE  \E t : ScopeAt(T, modifications, t, h, i) /\ Enter(<<t>>, <<>>)
<1> USE NodesAssumption
<1>1. WalkCtx(preimage, previous, modifications, descent_map, T) /\ s = Head(scopes)
  BY DEF AtHead, InWalk
<1>2. /\ s.node.height = h /\ s.path = i /\ s.update = UpdateAt(modifications, h, i)
      /\ h \in 0 .. Height /\ Mod(modifications, h, i) /\ Stands(T, s.node, h, i)
  BY HeadHeight
<1>3. PICK n, pre : n = s.node /\ pre = preimage OBVIOUS
<1>4. /\ n.height > 0 /\ ~is_empty(n) /\ ~is_virtual_edge(n)
      /\ IF n.bottom \notin DOMAIN pre THEN Fail("No preimage found for node")
         ELSE /\ Len(pre[n.bottom]) = 3
              /\ LET edge == pre[n.bottom]
                 IN Enter(<<Scope(VirtualNode(edge[3], edge[2], edge[1], n.height),
                                  s.path, s.update)>>, <<>>)
  BY <1>1, <1>3 DEF LoadEdge
<1>0. n.height > 0 /\ ~is_empty(n) /\ ~is_virtual_edge(n) BY <1>4
<1>5. h \in 1 .. Height BY <1>0, <1>2, <1>3
<1>6. PICK r : r = RNode(T, h, i) OBVIOUS
<1>7. n.bottom \in DOMAIN pre /\ ~is_empty(r) /\ NodeOK(r, h)
      /\ n.bottom = hash_node(r) /\ pre[n.bottom] = to_tuple(n.bottom)
  BY <1>0, <1>1, <1>2, <1>3, <1>5, <1>6, StandsInner
<1>8. PICK edge : edge = pre[n.bottom] OBVIOUS
<1>9. /\ Len(edge) = 3
      /\ Enter(<<Scope(VirtualNode(edge[3], edge[2], edge[1], h), i, s.update)>>, <<>>)
  BY <1>2, <1>3, <1>4, <1>7, <1>8
<1>10. T \in Tree /\ i \in Positions(Height - h)
  BY <1>1, <1>2, WalkCtxIs, ModPlace
<1>11. /\ r.length = 0 => r.bottom.kind = "binary" /\ hash_node(r) = r.bottom
       /\ r.length # 0 => hash_node(r) = EdgeNodeFact(r.bottom, r.path, r.length)
  BY <1>5, <1>6, <1>7, <1>10, InnerHash
<1>12. r.length # 0
  <2>1. SUFFICES ASSUME r.length = 0 PROVE FALSE OBVIOUS
  <2>2. edge = <<r.bottom.left, r.bottom.right>> BY <1>7, <1>8, <1>11, <2>1 DEF to_tuple
  <2> QED BY <1>9, <2>2
<1>13. edge = <<r.length, r.path, r.bottom>>
  BY <1>7, <1>8, <1>11, <1>12 DEF to_tuple, EdgeNodeFact
<1>14. VirtualNode(edge[3], edge[2], edge[1], h) = r BY <1>7, <1>13 DEF NodeOK
<1>15. PICK t : t = Scope(r, i, s.update) OBVIOUS
<1>16. Enter(<<t>>, <<>>) BY <1>9, <1>14, <1>15
<1>17. t.node = r /\ t.path = i /\ t.update = s.update BY <1>15, ScopeFields
<1>18. ScopeAt(T, modifications, t, h, i) BY <1>2, <1>6, <1>17 DEF ScopeAt, Stands
<1> QED BY <1>16, <1>18

LEMMA BinarySteps ==
  ASSUME NEW T, NEW s, NEW h, NEW i, AtHead(T, s, h, i), WalkBinary
  PROVE  StepsTo(T, h, i)
<1> USE NodesAssumption
<1>1. WalkCtx(preimage, previous, modifications, descent_map, T) /\ s = Head(scopes)
      /\ ScopeAt(T, modifications, s, h, i)
  BY DEF AtHead, InWalk
<1>2. /\ s.node.height = h /\ s.path = i /\ s.update = UpdateAt(modifications, h, i)
      /\ h \in 0 .. Height /\ Mod(modifications, h, i) /\ Stands(T, s.node, h, i)
      /\ i \in Positions(Height - h)
  BY HeadHeight
<1>3. PICK n, pre, u : n = s.node /\ pre = preimage /\ u = s.update OBVIOUS
<1>4. /\ n.height > 0 /\ ~is_empty(n) /\ ~is_virtual_edge(n)
      /\ n.bottom \in DOMAIN pre /\ Len(pre[n.bottom]) = 2
      /\ LET left  == from_hash(pre[n.bottom][1], n.height - 1)
             right == from_hash(pre[n.bottom][2], n.height - 1)
         IN IF u = NoUpdate THEN Fail("'node' should not be None")
            ELSE CASE Case(u) = "both" -> Enter(BothChildren(s, left, right), <<>>)
                   [] Case(u) = "left" ->
                        Enter(<<Scope(left, 2 * s.path, u.left)>>, <<right.bottom>>)
                   [] Case(u) = "right" ->
                        Enter(<<Scope(right, 2 * s.path + 1, u.right)>>, <<left.bottom>>)
  BY <1>1, <1>3 DEF WalkBinary
<1>0. /\ n.height > 0 /\ ~is_empty(n) /\ ~is_virtual_edge(n)
      /\ n.bottom \in DOMAIN pre /\ Len(pre[n.bottom]) = 2
  BY <1>4
<1>5. PICK g \in Nat : h = g + 1 /\ g < Height /\ h - 1 = g /\ h \in 1 .. Height
  <2>1. h # 0 BY <1>0, <1>2, <1>3
  <2> QED BY <1>2, <2>1, InnerPlace
<1>6. PICK r : r = RNode(T, h, i) OBVIOUS
<1>7. n.bottom \in DOMAIN pre /\ ~is_empty(r) /\ NodeOK(r, h)
      /\ n.bottom = hash_node(r) /\ pre[n.bottom] = to_tuple(n.bottom)
  BY <1>0, <1>1, <1>2, <1>3, <1>5, <1>6, StandsInner
<1>8. T \in Tree /\ IsMods(modifications) BY <1>1, WalkCtxIs
<1>9. /\ r.length = 0 => r.bottom.kind = "binary" /\ hash_node(r) = r.bottom
      /\ r.length # 0 => hash_node(r) = EdgeNodeFact(r.bottom, r.path, r.length)
  BY <1>2, <1>5, <1>6, <1>7, <1>8, InnerHash
<1>10. r.length = 0
  <2>1. SUFFICES ASSUME r.length # 0 PROVE FALSE OBVIOUS
  <2>2. pre[n.bottom] = <<r.length, r.path, r.bottom>>
    BY <1>7, <1>9, <2>1 DEF to_tuple, EdgeNodeFact
  <2> QED BY <1>0, <2>2
<1>11. PICK a, b : a = hash_node(RNode(T, g, 2 * i)) /\ b = hash_node(RNode(T, g, 2 * i + 1))
  OBVIOUS
<1>12. i \in Positions(Height - (g + 1)) /\ r = RNode(T, g + 1, i) BY <1>2, <1>5, <1>6
<1>13. hash_node(r) = BinaryNodeFact(a, b) BY <1>5, <1>7, <1>8, <1>10, <1>11, <1>12, BinaryKind
<1>14. pre[n.bottom] = <<a, b>> BY <1>7, <1>13 DEF to_tuple, BinaryNodeFact
<1>15. PICK l, q : l = from_hash(a, g) /\ q = from_hash(b, g) OBVIOUS
<1>16. Stands(T, l, g, 2 * i) /\ Stands(T, q, g, 2 * i + 1)
  <2>1. (2 * i) \div 2 = i /\ (2 * i + 1) \div 2 = i
    <3>1. i \in Nat BY HeadHeight
    <3> QED BY <3>1
  <2>2. HashPoint(T, g, 2 * i) /\ HashPoint(T, g, 2 * i + 1)
    BY <1>10, <1>12, <2>1 DEF HashPoint
  <2> QED BY <1>11, <1>15, <2>2 DEF Stands
<1>17. <<g + 1, i>> \notin DOMAIN descent_map
  BY <1>1, <1>5, <1>7, <1>10, <1>12, BinaryParts
<1>18. ScopeAt(T, modifications, s, g + 1, i) BY <1>1, <1>5
<1>19. /\ Case(u) = "both" =>
             Goes(previous, T, modifications, descent_map, g + 1, i, BothChildren(s, l, q), <<>>)
       /\ Case(u) = "left" =>
             Goes(previous, T, modifications, descent_map, g + 1, i, <<Scope(l, 2 * i, u.left)>>, <<b>>)
       /\ Case(u) = "right" =>
             Goes(previous, T, modifications, descent_map, g + 1, i,
                  <<Scope(q, 2 * i + 1, u.right)>>, <<a>>)
  BY <1>1, <1>3, <1>5, <1>11, <1>16, <1>17, <1>18, ChildScopes
<1>20. u # NoUpdate /\ Case(u) \in {"left", "right", "both"}
  BY <1>2, <1>3, <1>5, <1>8, CaseIs
<1>21. l.bottom = a /\ q.bottom = b BY <1>15 DEF from_hash, VirtualNode
<1>22. pre[n.bottom][1] = a /\ pre[n.bottom][2] = b BY <1>14
<1>23. /\ Case(u) = "both" => Enter(BothChildren(s, l, q), <<>>)
       /\ Case(u) = "left" => Enter(<<Scope(l, 2 * i, u.left)>>, <<b>>)
       /\ Case(u) = "right" => Enter(<<Scope(q, 2 * i + 1, u.right)>>, <<a>>)
  BY <1>2, <1>3, <1>4, <1>5, <1>15, <1>20, <1>21, <1>22
<1> QED BY <1>5, <1>19, <1>20, <1>23 DEF StepsTo

\* The two children of an edge.
LEMMA EdgeBit ==
  ASSUME NEW T \in Tree, NEW g \in Nat, g < Height, NEW i \in Positions(Height - (g + 1)),
         NEW r, r = RNode(T, g + 1, i), NEW k \in Nat, r.length = k + 1,
         NEW bit, bit = (r.path \div Pow2[k]) % 2,
         NEW rest, rest = VirtualNode(r.bottom, r.path % Pow2[k], k, g)
  PROVE  /\ bit \in {0, 1} /\ ~is_empty(rest)
         /\ bit = 0 => RNode(T, g, 2 * i) = rest /\ RNode(T, g, 2 * i + 1) = empty_node(g)
         /\ bit = 1 => RNode(T, g, 2 * i) = empty_node(g) /\ RNode(T, g, 2 * i + 1) = rest
<1> USE NodesAssumption
<1>1. PICK b \in {0, 1} :
            /\ RNode(T, g, 2 * i + b) = VirtualNode(r.bottom, r.path - b * Pow2[k], k, g)
            /\ RNode(T, g, 2 * i + (1 - b)) = empty_node(g)
            /\ r.path - b * Pow2[k] \in Positions(k)
            /\ r.path \in Nat
            /\ ~is_empty(RNode(T, g, 2 * i + b))
  BY EdgeStep
<1>2. PICK x \in Positions(k) : x = r.path - b * Pow2[k] BY <1>1
<1>3. PICK p \in Nat : p = r.path BY <1>1
<1>4. x \in Nat /\ Pow2[k] \in Nat BY PositionsNat, Pow2Type
<1>5. p = b * Pow2[k] + x
  <2>1. CASE b = 0 BY <1>2, <1>3, <1>4, <2>1
  <2>2. CASE b = 1 BY <1>2, <1>3, <1>4, <2>2
  <2> QED BY <2>1, <2>2
<1>6. Anc(p, k) = b /\ p % Pow2[k] = x BY <1>5, AncUnique
<1>7. bit = b BY <1>3, <1>6 DEF Anc
<1>8. RNode(T, g, 2 * i + b) = rest BY <1>1, <1>2, <1>3, <1>6
<1>9. i \in Nat
  <2>1. PICK d \in Nat : d = Height - (g + 1) OBVIOUS
  <2> QED BY <2>1, PositionsNat
<1>10. CASE b = 0
  <2>1. 2 * i + b = 2 * i /\ 2 * i + (1 - b) = 2 * i + 1 BY <1>9, <1>10
  <2> QED BY <1>1, <1>7, <1>8, <1>10, <2>1
<1>11. CASE b = 1
  <2>1. 2 * i + b = 2 * i + 1 /\ 2 * i + (1 - b) = 2 * i BY <1>9, <1>11
  <2> QED BY <1>1, <1>7, <1>8, <1>11, <2>1
<1> QED BY <1>10, <1>11

LEMMA EmptySteps ==
  ASSUME NEW T, NEW s, NEW h, NEW i, AtHead(T, s, h, i), WalkEmpty
  PROVE  StepsTo(T, h, i)
<1> USE NodesAssumption
<1>1. WalkCtx(preimage, previous, modifications, descent_map, T) /\ s = Head(scopes)
      /\ ScopeAt(T, modifications, s, h, i)
  BY DEF AtHead, InWalk
<1>2. /\ s.node.height = h /\ s.path = i /\ s.update = UpdateAt(modifications, h, i)
      /\ h \in 0 .. Height /\ Mod(modifications, h, i) /\ Stands(T, s.node, h, i)
      /\ i \in Positions(Height - h) /\ i \in Nat
  BY HeadHeight
<1>3. PICK n, u : n = s.node /\ u = s.update OBVIOUS
<1>4. /\ n.height > 0 /\ is_empty(n) /\ NoDescent(s)
      /\ LET none == empty_node(n.height - 1)
         IN IF u = NoUpdate THEN Fail("'node' should not be None")
            ELSE IF Case(u) = "both" THEN Enter(BothChildren(s, none, none), <<>>)
            ELSE Enter(<<Scope(none, 2 * s.path + CaseBit(u), OnlyChild(u))>>,
                       <<EMPTY_NODE_HASH>>)
  BY <1>1, <1>3 DEF WalkEmpty
<1>0. n.height > 0 /\ is_empty(n) /\ <<h, i>> \notin DOMAIN descent_map
  BY <1>2, <1>4 DEF NoDescent
<1>5. PICK g \in Nat : h = g + 1 /\ g < Height /\ h - 1 = g /\ h \in 1 .. Height
  <2>1. h # 0 BY <1>0, <1>2, <1>3
  <2> QED BY <1>2, <2>1, InnerPlace
<1>6. PICK r : r = RNode(T, h, i) OBVIOUS
<1>7. is_empty(r)
  BY <1>0, <1>1, <1>2, <1>3, <1>5, <1>6, StandsInner
<1>8. T \in Tree /\ IsMods(modifications) BY <1>1, WalkCtxIs
<1>9. PICK none : none = empty_node(g) OBVIOUS
<1>10. RNode(T, g, 2 * i) = none /\ RNode(T, g, 2 * i + 1) = none
  <2>1. i \in Positions(Height - (g + 1)) /\ is_empty(RNode(T, g + 1, i)) BY <1>2, <1>5, <1>6, <1>7
  <2> QED BY <1>5, <1>8, <1>9, <2>1, EmptyBelow
<1>11. Stands(T, none, g, 2 * i) /\ Stands(T, none, g, 2 * i + 1) BY <1>10 DEF Stands
<1>12. hash_node(none) = EMPTY_NODE_HASH
  BY <1>9 DEF hash_node, empty_node, from_hash, VirtualNode
<1>13. ScopeAt(T, modifications, s, g + 1, i) /\ <<g + 1, i>> \notin DOMAIN descent_map
  BY <1>0, <1>1, <1>5
<1>14. /\ Case(u) = "both" =>
             Goes(previous, T, modifications, descent_map, g + 1, i,
                  BothChildren(s, none, none), <<>>)
       /\ Case(u) = "left" =>
             Goes(previous, T, modifications, descent_map, g + 1, i,
                  <<Scope(none, 2 * i, u.left)>>, <<hash_node(RNode(T, g, 2 * i + 1))>>)
       /\ Case(u) = "right" =>
             Goes(previous, T, modifications, descent_map, g + 1, i,
                  <<Scope(none, 2 * i + 1, u.right)>>, <<hash_node(RNode(T, g, 2 * i))>>)
  BY <1>1, <1>3, <1>5, <1>11, <1>13, ChildScopes
<1>15. u # NoUpdate /\ Case(u) \in {"left", "right", "both"}
  <2>1. Mod(modifications, g + 1, i) /\ u = UpdateAt(modifications, g + 1, i)
    BY <1>2, <1>3, <1>5
  <2> QED BY <1>5, <1>8, <2>1, CaseIs
<1>16. PICK c, y : c = CaseBit(u) /\ y = OnlyChild(u) OBVIOUS
<1>17. /\ Case(u) = "left" => 2 * i + c = 2 * i /\ y = u.left
       /\ Case(u) = "right" => c = 1 /\ y = u.right
  BY <1>2, <1>16 DEF CaseBit, OnlyChild
<1>18. /\ Case(u) = "both" => Enter(BothChildren(s, none, none), <<>>)
       /\ Case(u) # "both" => Enter(<<Scope(none, 2 * i + c, y)>>, <<EMPTY_NODE_HASH>>)
  BY <1>2, <1>3, <1>4, <1>5, <1>9, <1>15, <1>16
<1>19. /\ Case(u) = "left" => Enter(<<Scope(none, 2 * i, u.left)>>, <<EMPTY_NODE_HASH>>)
       /\ Case(u) = "right" => Enter(<<Scope(none, 2 * i + 1, u.right)>>, <<EMPTY_NODE_HASH>>)
  BY <1>17, <1>18
<1>20. SUFFICES \E below, beside :
          /\ Goes(previous, T, modifications, descent_map, g + 1, i, below, beside)
          /\ Enter(below, beside)
  BY <1>5 DEF StepsTo
<1> QED BY <1>10, <1>12, <1>14, <1>15, <1>18, <1>19

\* load_bottom finds the bottom of an edge whose proofs have it.
LEMMA BottomLoads ==
  ASSUME NEW T \in Tree, NEW mods, NEW pre, PreOK(pre), KnowsBottoms(pre, T, DOMAIN mods),
         NEW g \in Nat, g < Height, g > 0, NEW i \in Positions(Height - (g + 1)),
         Mod(mods, g + 1, i), NEW r, r = RNode(T, g + 1, i), r.length = 1
  PROVE  r.bottom \in DOMAIN pre /\ Len(pre[r.bottom]) >= 2
<1> USE NodesAssumption
<1>1. PICK k \in Nat : k = 0 /\ r.length = k + 1 OBVIOUS
<1>2. PICK bit, rest : /\ bit = (r.path \div Pow2[k]) % 2
                       /\ rest = VirtualNode(r.bottom, r.path % Pow2[k], k, g)
  OBVIOUS
<1>3. /\ bit \in {0, 1} /\ ~is_empty(rest)
      /\ bit = 0 => RNode(T, g, 2 * i) = rest
      /\ bit = 1 => RNode(T, g, 2 * i + 1) = rest
  BY <1>1, <1>2, EdgeBit
<1>4. g \in 1 .. Height /\ 2 * i \in Positions(Height - g) /\ 2 * i + 1 \in Positions(Height - g)
  <2>1. PICK m \in Nat : m = Height - (g + 1) /\ Height - g = m + 1 OBVIOUS
  <2> QED BY <2>1, ChildPositions
<1>5. PICK q \in Positions(Height - g) : RNode(T, g, q) = rest BY <1>3, <1>4
<1>6. IsInner(hash_node(rest)) BY <1>3, <1>4, <1>5, InnerHash
<1>7. IsInner(r.bottom) BY <1>1, <1>2, <1>6 DEF hash_node, VirtualNode
<1>8. PICK m \in DOMAIN mods : Anc(m, g + 1) = i BY DEF Mod
<1>9. PICK h : h = g + 1 OBVIOUS
<1>10. h \in 1 .. Height /\ r = RNode(T, h, Anc(m, h)) BY <1>8, <1>9
<1>11. r.bottom \in DOMAIN pre BY <1>7, <1>10 DEF KnowsBottoms
<1>12. pre[r.bottom] = to_tuple(r.bottom) BY <1>11 DEF PreOK
<1>13. Len(to_tuple(r.bottom)) >= 2 BY DEF to_tuple
<1> QED BY <1>11, <1>12, <1>13

LEMMA EdgeSteps ==
  ASSUME NEW T, NEW s, NEW h, NEW i, AtHead(T, s, h, i), WalkEdge
  PROVE  \/ StepsTo(T, h, i)
         \/ /\ Fail("Edge bottom not found in preimage") /\ mode # "State"
            /\ \E m \in DOMAIN modifications : T[m] = 0
<1> USE NodesAssumption
<1>1. WalkCtx(preimage, previous, modifications, descent_map, T) /\ s = Head(scopes)
      /\ ScopeAt(T, modifications, s, h, i)
  BY DEF AtHead, InWalk
<1>2. /\ s.node.height = h /\ s.path = i /\ s.update = UpdateAt(modifications, h, i)
      /\ h \in 0 .. Height /\ Mod(modifications, h, i) /\ Stands(T, s.node, h, i)
      /\ i \in Positions(Height - h) /\ i \in Nat
      /\ h = 0 => ~is_virtual_edge(s.node)
  BY HeadHeight
<1>3. PICK n, u : n = s.node /\ u = s.update OBVIOUS
<1>4. /\ is_virtual_edge(n) /\ NoDescent(s)
      /\ LET new_length == n.length - 1
             bit  == (n.path \div Pow2[new_length]) % 2
             rest == VirtualNode(n.bottom, n.path % Pow2[new_length], new_length,
                                 n.height - 1)
             none == empty_node(n.height - 1)
         IN IF u = NoUpdate THEN Fail("'node' should not be None")
            ELSE LET below == Scope(IF CaseBit(u) = bit THEN rest ELSE none,
                                    2 * s.path + CaseBit(u), OnlyChild(u))
                 IN CASE Case(u) = "both" ->
                           Enter(IF bit = 0 THEN BothChildren(s, rest, none)
                                            ELSE BothChildren(s, none, rest), <<>>)
                      [] Case(u) # "both" /\ CaseBit(u) = bit ->
                           Enter(<<below>>, <<EMPTY_NODE_HASH>>)
                      [] Case(u) # "both" /\ CaseBit(u) # bit ->
                           IF new_length = 0 /\ rest.height > 0 /\ ~load_bottom(n.bottom)
                           THEN Fail("Edge bottom not found in preimage")
                           ELSE Enter(<<below>>, <<EdgeHash(rest)>>)
  BY <1>1, <1>3 DEF WalkEdge
<1>0. is_virtual_edge(n) /\ <<h, i>> \notin DOMAIN descent_map BY <1>2, <1>4 DEF NoDescent
<1>5. PICK g \in Nat : h = g + 1 /\ g < Height /\ h - 1 = g /\ h \in 1 .. Height
  <2>1. h # 0 BY <1>0, <1>2, <1>3
  <2> QED BY <1>2, <2>1, InnerPlace
<1>6. PICK r : r = RNode(T, h, i) OBVIOUS
<1>7. n = r /\ r.length \in 1 .. h
  BY <1>0, <1>1, <1>2, <1>3, <1>5, <1>6, StandsInner
<1>8. T \in Tree /\ IsMods(modifications) /\ PreOK(preimage) BY <1>1, WalkCtxIs
<1>9. PICK k \in Nat : r.length = k + 1 /\ r.length - 1 = k
  <2>1. r.length - 1 \in Nat /\ r.length = (r.length - 1) + 1 BY <1>5, <1>7
  <2> QED BY <2>1
<1>10. PICK none, bit, rest : /\ none = empty_node(g)
                              /\ bit = (r.path \div Pow2[k]) % 2
                              /\ rest = VirtualNode(r.bottom, r.path % Pow2[k], k, g)
  OBVIOUS
<1>11. i \in Positions(Height - (g + 1)) /\ r = RNode(T, g + 1, i) /\ Mod(modifications, g + 1, i)
       /\ u = UpdateAt(modifications, g + 1, i)
  BY <1>2, <1>3, <1>5, <1>6
<1>12. /\ bit \in {0, 1} /\ ~is_empty(rest)
       /\ bit = 0 => RNode(T, g, 2 * i) = rest /\ RNode(T, g, 2 * i + 1) = none
       /\ bit = 1 => RNode(T, g, 2 * i) = none /\ RNode(T, g, 2 * i + 1) = rest
  BY <1>5, <1>8, <1>9, <1>10, <1>11, EdgeBit
<1>13. hash_node(none) = EMPTY_NODE_HASH /\ EdgeHash(rest) = hash_node(rest) /\ rest.height = g
  BY <1>10 DEF hash_node, empty_node, from_hash, VirtualNode, EdgeHash
<1>14. ScopeAt(T, modifications, s, g + 1, i) /\ <<g + 1, i>> \notin DOMAIN descent_map
  BY <1>0, <1>1, <1>5
<1>15. PICK l, q : /\ l = IF bit = 0 THEN rest ELSE none
                   /\ q = IF bit = 0 THEN none ELSE rest
  OBVIOUS
<1>16. RNode(T, g, 2 * i) = l /\ RNode(T, g, 2 * i + 1) = q BY <1>12, <1>15
<1>17. Stands(T, l, g, 2 * i) /\ Stands(T, q, g, 2 * i + 1) BY <1>16 DEF Stands
<1>18. /\ Case(u) = "both" =>
             Goes(previous, T, modifications, descent_map, g + 1, i,
                  BothChildren(s, l, q), <<>>)
       /\ Case(u) = "left" =>
             Goes(previous, T, modifications, descent_map, g + 1, i,
                  <<Scope(l, 2 * i, u.left)>>, <<hash_node(RNode(T, g, 2 * i + 1))>>)
       /\ Case(u) = "right" =>
             Goes(previous, T, modifications, descent_map, g + 1, i,
                  <<Scope(q, 2 * i + 1, u.right)>>, <<hash_node(RNode(T, g, 2 * i))>>)
  BY <1>1, <1>3, <1>5, <1>14, <1>17, ChildScopes
<1>19. /\ u # NoUpdate /\ Case(u) \in {"left", "right", "both"}
       /\ Mod(modifications, g, 2 * i) \/ Mod(modifications, g, 2 * i + 1)
       /\ Case(u) = "left" <=> ~Mod(modifications, g, 2 * i + 1)
       /\ Case(u) = "right" <=> ~Mod(modifications, g, 2 * i)
  BY <1>5, <1>8, <1>11, CaseIs
<1>20. PICK c, y, x : /\ c = CaseBit(u) /\ y = OnlyChild(u)
                      /\ x = IF c = bit THEN rest ELSE none
  OBVIOUS
<1>21. /\ Case(u) = "left" => c = 0 /\ 2 * i + c = 2 * i /\ y = u.left /\ x = l
       /\ Case(u) = "right" => c = 1 /\ y = u.right /\ x = q
  BY <1>2, <1>12, <1>15, <1>20 DEF CaseBit, OnlyChild
<1>22. /\ Case(u) = "both" => Enter(BothChildren(s, l, q), <<>>)
       /\ Case(u) # "both" /\ c = bit => Enter(<<Scope(x, 2 * i + c, y)>>, <<EMPTY_NODE_HASH>>)
       /\ Case(u) # "both" /\ c # bit =>
             \/ /\ k = 0 /\ g > 0 /\ ~load_bottom(r.bottom)
                /\ Fail("Edge bottom not found in preimage")
             \/ Enter(<<Scope(x, 2 * i + c, y)>>, <<hash_node(rest)>>)
  <2>1. n.height - 1 = g /\ n.length - 1 = k /\ n = r BY <1>2, <1>3, <1>5, <1>7, <1>9
  <2> HIDE DEF Enter, Fail, load_bottom, CaseBit, OnlyChild, Case, EdgeHash
  <2>2. LET below == Scope(IF CaseBit(u) = bit THEN rest ELSE none,
                           2 * i + CaseBit(u), OnlyChild(u))
        IN CASE Case(u) = "both" ->
                  Enter(IF bit = 0 THEN BothChildren(s, rest, none)
                                   ELSE BothChildren(s, none, rest), <<>>)
             [] Case(u) # "both" /\ CaseBit(u) = bit ->
                  Enter(<<below>>, <<EMPTY_NODE_HASH>>)
             [] Case(u) # "both" /\ CaseBit(u) # bit ->
                  IF k = 0 /\ g > 0 /\ ~load_bottom(r.bottom)
                  THEN Fail("Edge bottom not found in preimage")
                  ELSE Enter(<<below>>, <<EdgeHash(rest)>>)
    BY <1>2, <1>4, <1>10, <1>13, <1>19, <2>1
  <2>3. Case(u) = "both" => Enter(BothChildren(s, l, q), <<>>) BY <1>15, <2>2
  <2>4. Case(u) # "both" /\ c = bit => Enter(<<Scope(x, 2 * i + c, y)>>, <<EMPTY_NODE_HASH>>)
    BY <1>20, <2>2
  <2>5. Case(u) # "both" /\ c # bit =>
           \/ /\ k = 0 /\ g > 0 /\ ~load_bottom(r.bottom)
              /\ Fail("Edge bottom not found in preimage")
           \/ Enter(<<Scope(x, 2 * i + c, y)>>, <<hash_node(rest)>>)
    BY <1>13, <1>20, <2>2
  <2> QED BY <2>3, <2>4, <2>5
<1>23. CASE Case(u) = "both"
  <2>1. StepsTo(T, h, i) BY <1>5, <1>18, <1>22, <1>23 DEF StepsTo
  <2> QED BY <2>1
<1>24. CASE Case(u) # "both" /\ Enter(<<Scope(x, 2 * i + c, y)>>,
                                      <<IF c = bit THEN EMPTY_NODE_HASH ELSE hash_node(rest)>>)
  <2>1. SUFFICES \E below, beside :
           /\ Goes(previous, T, modifications, descent_map, g + 1, i, below, beside)
           /\ Enter(below, beside)
    BY <1>5 DEF StepsTo
  <2>2. CASE Case(u) = "left"
    <3>1. hash_node(RNode(T, g, 2 * i + 1)) = IF c = bit THEN EMPTY_NODE_HASH ELSE hash_node(rest)
      BY <1>12, <1>13, <1>15, <1>16, <1>21, <2>2
    <3>2. Scope(x, 2 * i + c, y) = Scope(l, 2 * i, u.left) BY <1>21, <2>2
    <3> QED BY <1>18, <1>24, <2>2, <3>1, <3>2
  <2>3. CASE Case(u) = "right"
    <3>1. hash_node(RNode(T, g, 2 * i)) = IF c = bit THEN EMPTY_NODE_HASH ELSE hash_node(rest)
      BY <1>12, <1>13, <1>15, <1>16, <1>21, <2>3
    <3>2. Scope(x, 2 * i + c, y) = Scope(q, 2 * i + 1, u.right) BY <1>21, <2>3
    <3> QED BY <1>18, <1>24, <2>3, <3>1, <3>2
  <2> QED BY <1>19, <1>24, <2>2, <2>3
<1>25. CASE /\ Case(u) # "both" /\ c # bit /\ k = 0 /\ g > 0 /\ ~load_bottom(r.bottom)
            /\ Fail("Edge bottom not found in preimage")
  <2>0. Case(u) # "both" /\ c # bit /\ k = 0 /\ g > 0 BY <1>25
  <2>1. \/ Mod(modifications, g, 2 * i) /\ RNode(T, g, 2 * i) = none
        \/ Mod(modifications, g, 2 * i + 1) /\ RNode(T, g, 2 * i + 1) = none
    <3>1. CASE Case(u) = "left"
      <4>1. c = 0 /\ bit = 1 BY <1>12, <1>21, <2>0, <3>1
      <4>2. RNode(T, g, 2 * i) = none BY <1>12, <4>1
      <4>3. Mod(modifications, g, 2 * i) BY <1>19, <3>1
      <4> QED BY <4>2, <4>3
    <3>2. CASE Case(u) = "right"
      <4>1. c = 1 /\ bit = 0 BY <1>12, <1>21, <2>0, <3>2
      <4> QED BY <1>12, <1>19, <3>2, <4>1
    <3> QED BY <1>19, <2>0, <3>1, <3>2
  <2>2. PICK z \in Nat : Mod(modifications, g, z) /\ RNode(T, g, z) = none BY <1>2, <2>1
  <2>3. g \in 0 .. Height BY <1>5
  <2>4. z \in Positions(Height - g) BY <1>8, <2>2, <2>3, ModPlace
  <2>5. is_empty(RNode(T, g, z)) BY <1>10, <2>2, EmptyIsEmpty
  <2>6. PICK m \in DOMAIN modifications : Anc(m, g) = z BY <2>2 DEF Mod
  <2>7. m \in Index BY <1>8 DEF IsMods
  <2>8. T[m] = 0 BY <1>8, <2>3, <2>4, <2>5, <2>6, <2>7, EmptyIff
  <2>9. mode # "State"
    <3>1. SUFFICES ASSUME mode = "State" PROVE FALSE OBVIOUS
    <3>2. KnowsBottoms(preimage, T, DOMAIN modifications) BY <3>1 DEF AtHead, InWalk
    <3>3. r.length = 1 BY <1>9, <2>0
    <3>4. r.bottom \in DOMAIN preimage /\ Len(preimage[r.bottom]) >= 2
      BY <1>5, <1>8, <1>11, <1>25, <3>2, <3>3, BottomLoads
    <3> QED BY <1>25, <3>4 DEF load_bottom
  <2> QED BY <1>25, <2>8, <2>9
<1>26. Case(u) # "both" /\ c = bit =>
          Enter(<<Scope(x, 2 * i + c, y)>>,
                <<IF c = bit THEN EMPTY_NODE_HASH ELSE hash_node(rest)>>)
  BY <1>22
<1>27. Case(u) # "both" /\ c # bit =>
          \/ /\ k = 0 /\ g > 0 /\ ~load_bottom(r.bottom)
             /\ Fail("Edge bottom not found in preimage")
          \/ Enter(<<Scope(x, 2 * i + c, y)>>,
                   <<IF c = bit THEN EMPTY_NODE_HASH ELSE hash_node(rest)>>)
  BY <1>22
<1> QED BY <1>23, <1>24, <1>25, <1>26, <1>27

LEMMA DescentSteps ==
  ASSUME NEW T, NEW s, NEW h, NEW i, AtHead(T, s, h, i), WalkDescent
  PROVE  StepsTo(T, h, i)
<1> USE NodesAssumption
<1>1. WalkCtx(preimage, previous, modifications, descent_map, T) /\ s = Head(scopes)
      /\ ScopeAt(T, modifications, s, h, i)
  BY DEF AtHead, InWalk
<1>2. /\ s.node.height = h /\ s.path = i /\ s.update = UpdateAt(modifications, h, i)
      /\ h \in 0 .. Height /\ Mod(modifications, h, i) /\ Stands(T, s.node, h, i)
      /\ i \in Positions(Height - h) /\ i \in Nat
      /\ h = 0 => ~is_virtual_edge(s.node)
  BY HeadHeight
<1>3. PICK n, u, dm : n = s.node /\ u = s.update /\ dm = descent_map OBVIOUS
<1>4. /\ n.height > 0 /\ (is_empty(n) \/ is_virtual_edge(n))
      /\ <<n.height, s.path>> \in DOMAIN dm
      /\ LET length == dm[<<n.height, s.path>>][1]
             word   == dm[<<n.height, s.path>>][2]
             rest   == n.length - length
             below  == DescendUpdate(u, length, word)
             enter(node) == Enter(<<Scope(node, s.path * Pow2[length] + word, below)>>,
                                  <<[descent |-> length]>>)
         IN IF below = NoUpdate THEN Fail("Expected a node")
            ELSE IF is_empty(n) THEN enter(empty_node(n.height - length))
            ELSE IF rest < 0 THEN Fail("word")
            ELSE IF n.path \div Pow2[rest] # word THEN Fail("word")
            ELSE enter(VirtualNode(n.bottom, n.path % Pow2[rest], rest,
                                   n.height - length))
  BY <1>1, <1>3 DEF WalkDescent
<1>0. n.height > 0 /\ (is_empty(n) \/ is_virtual_edge(n)) /\ <<h, i>> \in DOMAIN dm
  BY <1>2, <1>3, <1>4
<1>5. h \in 1 .. Height BY <1>0, <1>2, <1>3
<1>6. PICK L : L = LiveSet(previous, modifications) OBVIOUS
<1>7. T \in Tree /\ IsMods(modifications) /\ OrderCtx(L, modifications, dm)
  BY <1>1, <1>3, <1>6, WalkCtxIs
<1>8. PICK len, g, j \in Nat :
            /\ h = g + len /\ len >= 2
            /\ dm[<<h, i>>] = <<len, j % Pow2[len]>>
            /\ i * Pow2[len] + (j % Pow2[len]) = j /\ Anc(j, len) = i
            /\ Mod(modifications, g, j)
            /\ Und(L, g, j) = Und(L, h, i)
  BY <1>0, <1>7, DescentFacts
<1>9. PICK word : word = j % Pow2[len] OBVIOUS
<1>10. PICK r : r = RNode(T, h, i) OBVIOUS
<1>11. /\ is_empty(n) => n = empty_node(h) /\ r = n
       /\ is_virtual_edge(n) => n = r /\ ~is_empty(r) /\ r.length \in 1 .. h
  BY <1>1, <1>2, <1>3, <1>5, <1>10, StandsInner
<1>12. /\ is_empty(r) => RNode(T, g, j) = empty_node(g)
       /\ ~is_empty(r) =>
             /\ len <= r.length
             /\ Anc(r.path, r.length - len) = word
             /\ RNode(T, g, j) =
                VirtualNode(r.bottom, r.path % Pow2[r.length - len], r.length - len, g)
  BY <1>0, <1>1, <1>2, <1>3, <1>5, <1>6, <1>8, <1>9, <1>10, DescentNode
<1>13. DescendUpdate(u, len, word) = UpdateAt(modifications, g, j)
  <2>1. h \in Nat /\ Mod(modifications, g, j) /\ Anc(j, len) = i /\ h = g + len BY <1>8
  <2>2. DescendUpdate(UpdateAt(modifications, h, i), len, word) = UpdateAt(modifications, g, j)
    BY <1>7, <1>9, <2>1, DescendIs
  <2> QED BY <1>2, <1>3, <2>2
<1>14. UpdateAt(modifications, g, j) # NoUpdate BY <1>7, <1>8, UpdateAtIs
<1>15. PICK t : t = Scope(RNode(T, g, j), j, UpdateAt(modifications, g, j)) OBVIOUS
<1>16. dm[<<h, i>>][1] = len /\ dm[<<h, i>>][2] = word /\ h - len = g /\ i * Pow2[len] + word = j
  BY <1>8, <1>9
<1>17. Enter(<<t>>, <<[descent |-> len]>>)
  <2>1. LET rest   == n.length - len
            below  == DescendUpdate(u, len, word)
            enter(node) == Enter(<<Scope(node, j, below)>>, <<[descent |-> len]>>)
        IN IF below = NoUpdate THEN Fail("Expected a node")
           ELSE IF is_empty(n) THEN enter(empty_node(g))
           ELSE IF rest < 0 THEN Fail("word")
           ELSE IF n.path \div Pow2[rest] # word THEN Fail("word")
           ELSE enter(VirtualNode(n.bottom, n.path % Pow2[rest], rest, g))
    <3>1. n.height = h /\ s.path = i BY <1>2, <1>3
    <3> QED BY <1>4, <1>16, <3>1
  <2>2. CASE is_empty(n)
    <3>1. RNode(T, g, j) = empty_node(g) BY <1>11, <1>12, <2>2
    <3> QED BY <1>13, <1>14, <1>15, <2>1, <2>2, <3>1
  <2>3. CASE ~is_empty(n)
    <3>1. n = r /\ ~is_empty(r) /\ r.length \in 1 .. h BY <1>0, <1>11, <2>3
    <3>2. PICK e : e = r.length - len OBVIOUS
    <3>3. /\ len <= r.length /\ Anc(r.path, e) = word
          /\ RNode(T, g, j) = VirtualNode(r.bottom, r.path % Pow2[e], e, g)
      BY <1>12, <3>1, <3>2
    <3>4. n.length - len = e /\ ~(e < 0) /\ n.path \div Pow2[e] = word
      BY <1>5, <1>8, <3>1, <3>2, <3>3 DEF Anc
    <3>5. VirtualNode(n.bottom, n.path % Pow2[e], e, g) = RNode(T, g, j) BY <3>1, <3>3
    <3> QED BY <1>13, <1>14, <1>15, <2>1, <2>3, <3>4, <3>5
  <2> QED BY <2>2, <2>3
<1>18. g \in 0 .. Height BY <1>5, <1>8
<1>19. t.node = RNode(T, g, j) /\ t.path = j /\ t.update = UpdateAt(modifications, g, j)
  BY <1>15, ScopeFields
<1>20. ScopeAt(T, modifications, t, g, j) BY <1>8, <1>18, <1>19 DEF ScopeAt, Stands
<1>21. Matches(T, modifications, <<t>>, <<<<g, j>>>>) BY <1>20, OneMatch
<1>22. PlacesBelow(modifications, dm, h, i) = <<<<g, j>>>> BY <1>0, <1>16 DEF PlacesBelow
<1>23. Beside(previous, modifications, dm, h, i) = <<[descent |-> len]>> BY <1>0, <1>16 DEF Beside
<1>24. Goes(previous, T, modifications, dm, h, i, <<t>>, <<[descent |-> len]>>)
  BY <1>21, <1>22, <1>23 DEF Goes
<1> QED BY <1>3, <1>5, <1>17, <1>24 DEF StepsTo

-----------------------------------------------------------------------------
(* A walk goes through the places of the order.                            *)

\* What a walk has come to, with the values of its tree.
Seen(vis, seen, T) ==
    /\ IsSeq(vis) /\ IsSeq(seen) /\ Len(vis) = Len(seen)
    /\ \A n \in 1 .. Len(seen) : vis[n] = <<seen[n], T[seen[n]]>>

InStep(T, mods, w, sc, a, vis) ==
    /\ Matches(T, mods, sc, w.stack)
    /\ a = Len(w.sibs) + 1
    /\ Seen(vis, w.seen, T)

LEMMA SeenInOrder ==
  ASSUME NEW w, OrderInv(modifications, w), IsMods(modifications), NEW T, NEW vis,
         Seen(vis, w.seen, T)
  PROVE  /\ InOrder(vis, T)
         /\ w.stack = <<>> => Complete(vis)
<1>1. PICK D : D = DOMAIN modifications OBVIOUS
<1>2. D \subseteq Nat BY <1>1, PositionsNat, NodesAssumption DEF IsMods, Index
<1>3. PICK seen, n0 : seen = w.seen /\ n0 = Len(seen) OBVIOUS
<1>4. IsSeq(vis) /\ Len(vis) = n0 /\ \A n \in 1 .. n0 : vis[n] = <<seen[n], T[seen[n]]>>
  BY <1>3 DEF Seen
<1>5. DOMAIN vis = 1 .. n0 /\ n0 \in Nat BY <1>4, SeqLen
<1>6. \A n \in 1 .. n0 : vis[n][1] = seen[n] BY <1>4
<1>7. \A n \in 1 .. n0 : seen[n] \in D BY <1>1, <1>3 DEF OrderInv
<1>8. \A n \in DOMAIN vis : \E k \in D : vis[n] = <<k, T[k]>> BY <1>4, <1>5, <1>7
<1>9. \A m, n \in DOMAIN vis : m < n => vis[m][1] < vis[n][1]
  <2>1. \A m, n \in 1 .. n0 : m < n => seen[m] < seen[n] BY <1>3 DEF OrderInv
  <2> QED BY <1>5, <1>6, <2>1
<1>10. ASSUME NEW b \in D, SeenIn(modifications, w, b) PROVE \E m \in DOMAIN vis : vis[m][1] = b
  <2>1. PICK m \in 1 .. n0 : seen[m] = b BY <1>3, <1>10 DEF SeenIn
  <2> QED BY <1>5, <1>6, <2>1
<1>11. ASSUME NEW b \in D, NEW n \in DOMAIN vis, b < vis[n][1]
       PROVE  \E m \in DOMAIN vis : vis[m][1] = b
  <2>1. SeenIn(modifications, w, b) \/ OnStack(modifications, w, b) BY <1>1 DEF OrderInv
  <2>2. OnStack(modifications, w, b) => seen[n] < b BY <1>1, <1>3, <1>5 DEF OrderInv
  <2>3. seen[n] \in Nat /\ b \in Nat /\ b < seen[n] BY <1>2, <1>5, <1>6, <1>7, <1>11
  <2>4. SeenIn(modifications, w, b) BY <2>1, <2>2, <2>3
  <2> QED BY <1>10, <2>4
<1>12. ASSUME w.stack = <<>>, NEW b \in D PROVE \E m \in DOMAIN vis : vis[m][1] = b
  <2>1. SeenIn(modifications, w, b) \/ OnStack(modifications, w, b) BY <1>1 DEF OrderInv
  <2>2. Len(w.stack) = 0 BY <1>12, NoSeq
  <2>3. ~OnStack(modifications, w, b) BY <2>2 DEF OnStack
  <2> QED BY <1>10, <2>1, <2>3
<1>13. InOrder(vis, T) BY <1>1, <1>8, <1>9, <1>11 DEF InOrder
<1>14. w.stack = <<>> => Complete(vis) BY <1>1, <1>12 DEF Complete
<1> QED BY <1>13, <1>14

LEMMA MatchPush ==
  ASSUME NEW T, NEW mods, NEW sc, NEW st, Matches(T, mods, sc, st), sc # <<>>,
         NEW below, NEW places, Matches(T, mods, below, places)
  PROVE  Matches(T, mods, below \o Tail(sc), places \o Tail(st))
<1>1. IsSeq(sc) /\ IsSeq(st) /\ Len(sc) = Len(st) BY DEF Matches
<1>2. IsSeq(below) /\ IsSeq(places) /\ Len(below) = Len(places) BY DEF Matches
<1>3. st # <<>> BY <1>1, SeqLen
<1>4. PICK a, b : a = below \o Tail(sc) /\ b = places \o Tail(st) OBVIOUS
<1>5. Pushed(below, sc, a) BY <1>1, <1>2, <1>4, SeqPush
<1>6. Pushed(places, st, b) BY <1>1, <1>2, <1>3, <1>4, SeqPush
<1>7. /\ Len(sc) \in Nat /\ Len(below) \in Nat /\ Len(sc) >= 1
  BY <1>1, <1>2, SeqLen
<1>8. IsSeq(a) /\ IsSeq(b) /\ Len(a) = Len(b) BY <1>1, <1>2, <1>5, <1>6 DEF Pushed
<1>9. ASSUME NEW n \in 1 .. Len(b) PROVE ScopeAt(T, mods, a[n], b[n][1], b[n][2])
  <2>1. CASE n \in 1 .. Len(places) /\ b[n] = places[n]
    <3>1. a[n] = below[n] BY <1>2, <1>5, <2>1 DEF Pushed
    <3> QED BY <2>1, <3>1 DEF Matches
  <2>2. CASE \E m \in 2 .. Len(st) : n = Len(places) + (m - 1) /\ b[n] = st[m]
    <3>1. PICK m \in 2 .. Len(st) : n = Len(places) + (m - 1) /\ b[n] = st[m] BY <2>2
    <3>2. a[n] = sc[m] BY <1>1, <1>2, <1>5, <3>1 DEF Pushed
    <3>3. m \in 1 .. Len(st) BY <1>1, <1>7
    <3> QED BY <3>1, <3>2, <3>3 DEF Matches
  <2> QED BY <1>6, <2>1, <2>2 DEF Pushed
<1> QED BY <1>4, <1>8, <1>9 DEF Matches

LEMMA MatchTail ==
  ASSUME NEW T, NEW mods, NEW sc, NEW st, Matches(T, mods, sc, st), sc # <<>>
  PROVE  Matches(T, mods, Tail(sc), Tail(st))
<1>1. IsSeq(sc) /\ IsSeq(st) /\ Len(sc) = Len(st) BY DEF Matches
<1>2. st # <<>> BY <1>1, SeqLen
<1>3. PICK a, b : a = Tail(sc) /\ b = Tail(st) OBVIOUS
<1>4. PICK l \in Nat : l = Len(st) - 1 /\ Len(st) = l + 1
  <2>1. Len(st) \in Nat /\ Len(st) # 0 BY <1>1, <1>2, SeqLen
  <2>2. Len(st) - 1 \in Nat /\ Len(st) = (Len(st) - 1) + 1 BY <2>1
  <2> QED BY <2>2
<1>5. IsSeq(a) /\ Len(a) = l /\ \A n \in 1 .. l : a[n] = sc[n + 1] BY <1>1, <1>3, <1>4, SeqTail
<1>6. IsSeq(b) /\ Len(b) = l /\ \A n \in 1 .. l : b[n] = st[n + 1]
  BY <1>1, <1>2, <1>3, <1>4, SeqTail
<1>7. ASSUME NEW n \in 1 .. l PROVE ScopeAt(T, mods, a[n], b[n][1], b[n][2])
  <2>1. PICK m : m = n + 1 OBVIOUS
  <2>2. m \in 1 .. Len(st) BY <1>4, <2>1
  <2>3. ScopeAt(T, mods, sc[m], st[m][1], st[m][2]) BY <2>2 DEF Matches
  <2> QED BY <1>5, <1>6, <2>1, <2>3
<1> QED BY <1>3, <1>5, <1>6, <1>7 DEF Matches

\* The scope of the node to walk is on the first place of the stack.
LEMMA HeadPlace ==
  ASSUME NEW T, InWalk(T), NEW w, Matches(T, modifications, scopes, w.stack), scopes # <<>>,
         NEW h, NEW i, h = w.stack[1][1], i = w.stack[1][2]
  PROVE  w.stack # <<>> /\ AtHead(T, Head(scopes), h, i)
<1>1. IsSeq(scopes) /\ IsSeq(w.stack) /\ Len(scopes) = Len(w.stack) BY DEF Matches
<1>2. Len(scopes) \in Nat /\ Len(scopes) # 0 /\ w.stack # <<>> BY <1>1, SeqLen
<1>3. 1 \in 1 .. Len(w.stack) BY <1>1, <1>2
<1>4. ScopeAt(T, modifications, scopes[1], h, i) BY <1>3 DEF Matches
<1>5. Head(scopes) = scopes[1] BY <1>1, SeqTail
<1> QED BY <1>2, <1>4, <1>5 DEF AtHead

\* A walk and the state of the siblings it writes or reads.
WalkAt(T, f, k, vis) ==
    /\ InWalk(T) /\ DOMAIN modifications # {}
    /\ f = OrderWalk(previous, modifications, descent_map) /\ k \in Nat
    /\ InStep(T, modifications, f[k], scopes, at, vis)
    /\ phase \in {"previous", "new"}
    /\ phase = "previous" => siblings = f[k].sibs
    /\ phase = "new" => \E e \in Nat : f[e].stack = <<>> /\ siblings = f[e].sibs

LEMMA OrderHere ==
  ASSUME NEW T, NEW f, NEW k, NEW vis, WalkAt(T, f, k, vis)
  PROVE  /\ \A n \in Nat : OrderInv(modifications, f[n])
         /\ f[k + 1] = OrderStep(previous, modifications, descent_map, f[k])
         /\ \A e \in Nat : f[e].stack = <<>> =>
               /\ f[k].stack = <<>> => f[k] = f[e]
               /\ f[k].stack # <<>> => Begins(f[k + 1].sibs, f[e].sibs)
<1>1. WalkCtx(preimage, previous, modifications, descent_map, T) BY DEF WalkAt, InWalk
<1>2. PICK L : L = LiveSet(previous, modifications) OBVIOUS
<1>3. OrderCtx(L, modifications, descent_map) BY <1>1, <1>2, WalkCtxIs
<1>4. DOMAIN modifications # {} /\ f = OrderWalk(previous, modifications, descent_map) /\ k \in Nat
  BY DEF WalkAt
<1>5. \A n \in Nat : OrderInv(modifications, f[n]) BY <1>3, <1>4, OrderAll
<1>6. f[k + 1] = OrderStep(previous, modifications, descent_map, f[k])
  <2>1. OrderEquation(previous, modifications, descent_map, f) BY <1>4, OrderEquationHolds
  <2> QED BY <1>4, <2>1 DEF OrderEquation
<1>7. ASSUME NEW e \in Nat, f[e].stack = <<>>
      PROVE  /\ f[k].stack = <<>> => f[k] = f[e]
             /\ f[k].stack # <<>> => Begins(f[k + 1].sibs, f[e].sibs)
  <2>1. PICK prev, mods, dm : prev = previous /\ mods = modifications /\ dm = descent_map OBVIOUS
  <2>2. OrderCtx(L, mods, dm) /\ DOMAIN mods # {} /\ f = OrderWalk(prev, mods, dm)
    BY <1>3, <1>4, <2>1
  <2> QED BY <1>4, <1>7, <2>2, OrderEnds
<1> QED BY <1>5, <1>6, <1>7

\* Where a step of a walk leads to.
Went(T, f, k, vis) ==
    /\ InStep(T, modifications, f[k], scopes', at', vis)
    /\ siblings' = IF phase = "previous" THEN f[k].sibs ELSE siblings
    /\ UNCHANGED <<inputs, fetched, descent_map, phase, failure>>

LEMMA EnterFields ==
  ASSUME NEW below, NEW beside, Enter(below, beside),
         \A n \in DOMAIN beside : MayWrite(beside[n])
  PROVE  /\ scopes' = below \o Tail(scopes) /\ at' = at + Len(beside)
         /\ siblings' = IF phase = "previous" THEN siblings \o beside ELSE siblings
         /\ UNCHANGED <<inputs, fetched, descent_map, phase, failure>> /\ visited' = visited
BY DEF Enter

\* The second walk finds in memory what it comes to.
LEMMA FindsSibling ==
  ASSUME NEW u, NEW v, NEW z, NEW beside, IsSeq(u), IsSeq(beside), Len(beside) \in {0, 1},
         Joined(u, beside, v), Begins(v, z), IsSeq(z)
  PROVE  \A n \in DOMAIN beside : Len(u) + 1 \in DOMAIN z /\ z[Len(u) + 1] = beside[n]
<1>2. Len(u) \in Nat /\ Len(z) \in Nat /\ DOMAIN z = 1 .. Len(z) /\ DOMAIN beside = 1 .. Len(beside)
  BY SeqLen
<1>3. SUFFICES ASSUME NEW n \in DOMAIN beside
               PROVE  Len(u) + 1 \in DOMAIN z /\ z[Len(u) + 1] = beside[n]
  OBVIOUS
<1>4. n = 1 /\ Len(beside) = 1 BY <1>2
<1>5. Len(v) = Len(u) + 1 /\ v[Len(u) + 1] = beside[1]
  <2>1. 1 \in 1 .. Len(beside) BY <1>4
  <2> QED BY <1>4, <2>1 DEF Joined
<1>6. PICK m : m = Len(u) + 1 OBVIOUS
<1>7. m \in 1 .. Len(v) /\ m \in 1 .. Len(z) BY <1>2, <1>5, <1>6 DEF Begins
<1>8. z[m] = v[m] BY <1>7 DEF Begins
<1> QED BY <1>2, <1>4, <1>5, <1>6, <1>7, <1>8

LEMMA StepWent ==
  ASSUME NEW T, NEW f, NEW k, NEW vis, WalkAt(T, f, k, vis), scopes # <<>>,
         NEW h, NEW i, h = f[k].stack[1][1], i = f[k].stack[1][2], StepsTo(T, h, i)
  PROVE  Went(T, f, k + 1, vis) /\ visited' = visited
<1>1. PICK v, w : v = f[k] /\ w = f[k + 1] OBVIOUS
<1>2. /\ OrderInv(modifications, v)
      /\ w = OrderStep(previous, modifications, descent_map, v)
      /\ k \in Nat /\ InWalk(T)
  <2>1. k \in Nat /\ InWalk(T) BY DEF WalkAt
  <2>2. OrderInv(modifications, f[k]) BY <2>1, OrderHere
  <2>3. f[k + 1] = OrderStep(previous, modifications, descent_map, f[k]) BY OrderHere
  <2> QED BY <1>1, <2>1, <2>2, <2>3
<1>3. Matches(T, modifications, scopes, v.stack) /\ at = Len(v.sibs) + 1 /\ Seen(vis, v.seen, T)
  BY <1>1 DEF WalkAt, InStep
<1>4. v.stack # <<>> BY <1>1, <1>2, <1>3, HeadPlace
<1>5. PICK below, beside :
         /\ Goes(previous, T, modifications, descent_map, h, i, below, beside)
         /\ Enter(below, beside)
  BY DEF StepsTo
<1>6. h # 0
  <2>1. h \in 1 .. Height BY DEF StepsTo
  <2> QED BY <2>1, NodesAssumption
<1>7. PICK places : places = PlacesBelow(modifications, descent_map, h, i) OBVIOUS
<1>8. Matches(T, modifications, below, places)
      /\ beside = Beside(previous, modifications, descent_map, h, i)
  BY <1>5, <1>7 DEF Goes
<1>9. w.stack = places \o Tail(v.stack) /\ w.sibs = v.sibs \o beside /\ w.seen = v.seen
  <2>1. h = v.stack[1][1] /\ i = v.stack[1][2] BY <1>1
  <2>2. /\ w.stack = PlacesBelow(modifications, descent_map, h, i) \o Tail(v.stack)
        /\ w.sibs = v.sibs \o Beside(previous, modifications, descent_map, h, i)
        /\ w.seen = v.seen
    BY <1>2, <1>4, <1>6, <2>1 DEF OrderStep
  <2> QED BY <1>7, <1>8, <2>2
<1>10. IsSeq(beside) /\ Len(beside) \in {0, 1} BY <1>8, BesideSeq
<1>11. IsSeq(v.sibs) /\ Len(v.sibs) \in Nat BY <1>2, SeqLen DEF OrderInv
<1>12. Len(w.sibs) = Len(v.sibs) + Len(beside)
  BY <1>9, <1>10, <1>11, SeqJoin DEF Joined
<1>13. \A n \in DOMAIN beside : MayWrite(beside[n])
  <2>1. CASE phase # "new" BY <2>1 DEF MayWrite
  <2>2. CASE phase = "new"
    <3>1. PICK e \in Nat : f[e].stack = <<>> /\ siblings = f[e].sibs BY <2>2 DEF WalkAt
    <3>2. Begins(w.sibs, siblings)
      BY <1>1, <1>4, <3>1, OrderHere
    <3>3. IsSeq(siblings)
      <4>1. OrderInv(modifications, f[e]) BY OrderHere
      <4> QED BY <3>1, <4>1 DEF OrderInv
    <3>4. \A n \in DOMAIN beside : at \in DOMAIN siblings /\ siblings[at] = beside[n]
      <4>1. PICK u, x, z : u = v.sibs /\ x = w.sibs /\ z = siblings OBVIOUS
      <4>2. IsSeq(u) /\ Joined(u, beside, x) /\ Begins(x, z) /\ IsSeq(z)
        <5>1. IsSeq(u) /\ x = u \o beside /\ Begins(x, z) /\ IsSeq(z)
          BY <1>9, <1>11, <3>2, <3>3, <4>1
        <5> QED BY <1>10, <5>1, SeqJoin
      <4>3. \A n \in DOMAIN beside : Len(u) + 1 \in DOMAIN z /\ z[Len(u) + 1] = beside[n]
        BY <1>10, <4>2, FindsSibling
      <4> QED BY <1>3, <4>1, <4>3
    <3> QED BY <3>4 DEF MayWrite
  <2> QED BY <2>1, <2>2
<1>14. /\ scopes' = below \o Tail(scopes) /\ at' = at + Len(beside)
       /\ siblings' = IF phase = "previous" THEN siblings \o beside ELSE siblings
       /\ UNCHANGED <<inputs, fetched, descent_map, phase, failure>> /\ visited' = visited
  BY <1>5, <1>13, EnterFields
<1>15. Matches(T, modifications, below \o Tail(scopes), places \o Tail(v.stack))
  BY <1>3, <1>8, MatchPush
<1>16. at' = Len(w.sibs) + 1 BY <1>3, <1>10, <1>11, <1>12, <1>14
<1>17. siblings' = IF phase = "previous" THEN w.sibs ELSE siblings
  <2>1. phase = "previous" => siblings = v.sibs BY <1>1 DEF WalkAt
  <2> QED BY <1>9, <1>14, <2>1
<1>18. Matches(T, modifications, scopes', w.stack) BY <1>9, <1>14, <1>15
<1>19. InStep(T, modifications, w, scopes', at', vis) BY <1>3, <1>9, <1>16, <1>18 DEF InStep
<1> QED BY <1>1, <1>14, <1>17, <1>19 DEF Went

LEMMA LoadWent ==
  ASSUME NEW T, NEW f, NEW k, NEW vis, WalkAt(T, f, k, vis), scopes # <<>>,
         NEW h, NEW i, h = f[k].stack[1][1], i = f[k].stack[1][2], NEW t,
         ScopeAt(T, modifications, t, h, i), Enter(<<t>>, <<>>)
  PROVE  Went(T, f, k, vis) /\ visited' = visited
<1>1. PICK v, none : v = f[k] /\ none = <<>> OBVIOUS
<1>2. OrderInv(modifications, v) /\ k \in Nat /\ InWalk(T) BY <1>1, OrderHere DEF WalkAt
<1>3. Matches(T, modifications, scopes, v.stack) /\ at = Len(v.sibs) + 1 /\ Seen(vis, v.seen, T)
  BY <1>1 DEF WalkAt, InStep
<1>4. v.stack # <<>> BY <1>1, <1>2, <1>3, HeadPlace
<1>5. IsSeq(v.stack) /\ IsSeq(v.sibs) /\ Len(v.sibs) \in Nat BY <1>2, SeqLen DEF OrderInv
<1>6. IsSeq(none) /\ Len(none) = 0 /\ DOMAIN none = {} BY <1>1, NoSeq
<1>7. \A n \in DOMAIN none : MayWrite(none[n]) BY <1>6
<1>8. /\ scopes' = <<t>> \o Tail(scopes) /\ at' = at + Len(none)
      /\ siblings' = IF phase = "previous" THEN siblings \o none ELSE siblings
      /\ UNCHANGED <<inputs, fetched, descent_map, phase, failure>> /\ visited' = visited
  <2>1. Enter(<<t>>, none) BY <1>1
  <2> QED BY <1>7, <2>1, EnterFields
<1>9. at' = at BY <1>3, <1>5, <1>6, <1>8
<1>10. siblings' = IF phase = "previous" THEN v.sibs ELSE siblings
  <2>1. phase = "previous" => siblings = v.sibs BY <1>1 DEF WalkAt
  <2>2. v.sibs \o <<>> = v.sibs
    <3>1. PICK S : v.sibs \in Seq(S) BY <1>5 DEF IsSeq
    <3> QED BY <3>1
  <2> QED BY <1>1, <1>8, <2>1, <2>2
<1>11. Matches(T, modifications, <<t>>, <<<<h, i>>>>) BY OneMatch
<1>12. Matches(T, modifications, <<t>> \o Tail(scopes), <<<<h, i>>>> \o Tail(v.stack))
  BY <1>3, <1>11, MatchPush
<1>13. PICK p, st : p = v.stack[1] /\ st = <<<<h, i>>>> \o Tail(v.stack) OBVIOUS
<1>14. PICK sc : sc = scopes' OBVIOUS
<1>15. Matches(T, modifications, sc, st) BY <1>8, <1>12, <1>13, <1>14
<1>16. Matches(T, modifications, sc, v.stack)
  <2>1. PICK a, q : q = <<h, i>> /\ a = <<q>> OBVIOUS
  <2>2. IsSeq(a) /\ Len(a) = 1 /\ a[1] = q BY <2>1, OneSeq
  <2>3. Pushed(a, v.stack, st) BY <1>4, <1>5, <1>13, <2>1, <2>2, SeqPush
  <2>4. Len(v.stack) \in Nat /\ Len(v.stack) # 0 BY <1>4, <1>5, SeqLen
  <2>5. Len(st) = Len(v.stack) BY <2>2, <2>3, <2>4 DEF Pushed
  <2>6. q[1] = h /\ q[2] = i BY <2>1
  <2>7. ASSUME NEW n \in 1 .. Len(v.stack)
        PROVE  ScopeAt(T, modifications, sc[n], v.stack[n][1], v.stack[n][2])
    <3>1. ScopeAt(T, modifications, sc[n], st[n][1], st[n][2]) BY <1>15, <2>5 DEF Matches
    <3>2. CASE n = 1
      <4>1. st[1] = q BY <2>2, <2>3 DEF Pushed
      <4> QED BY <1>1, <2>6, <3>1, <3>2, <4>1
    <3>3. CASE n # 1
      <4>1. n \in 2 .. Len(v.stack) /\ Len(a) + (n - 1) = n BY <2>2, <2>4, <3>3
      <4>2. st[n] = v.stack[n] BY <2>3, <4>1 DEF Pushed
      <4> QED BY <3>1, <4>2
    <3> QED BY <3>2, <3>3
  <2> QED BY <1>5, <1>15, <2>5, <2>7 DEF Matches
<1>17. InStep(T, modifications, v, scopes', at', vis) BY <1>3, <1>9, <1>14, <1>16 DEF InStep
<1> QED BY <1>1, <1>8, <1>10, <1>17 DEF Went

Visited(a, b) == [previous |-> a, new |-> b]

\* The walk of this phase has come to `vis`, the other one is as it was.
Put(vis) == IF phase = "previous" THEN visited' = Visited(vis, visited.new)
            ELSE visited' = Visited(visited.previous, vis)

LEMMA SeenAppend ==
  ASSUME NEW vis, NEW seen, NEW T, Seen(vis, seen, T), NEW i, NEW x, x = <<i, T[i]>>
  PROVE  Seen(Append(vis, x), Append(seen, i), T)
<1>1. IsSeq(vis) /\ IsSeq(seen) /\ Len(vis) = Len(seen)
      /\ \A n \in 1 .. Len(seen) : vis[n] = <<seen[n], T[seen[n]]>>
  BY DEF Seen
<1>2. PICK S, R : vis \in Seq(S) /\ seen \in Seq(R) BY <1>1 DEF IsSeq
<1>3. PICK U, V : U = S \cup {x} /\ V = R \cup {i} OBVIOUS
<1>4. vis \in Seq(U) /\ seen \in Seq(V) BY <1>2, <1>3, SeqMonotonic, ElementOfSeq
<1>5. /\ Append(vis, x) \in Seq(U) /\ Len(Append(vis, x)) = Len(vis) + 1
      /\ \A n \in 1 .. Len(vis) : Append(vis, x)[n] = vis[n]
      /\ Append(vis, x)[Len(vis) + 1] = x
  BY <1>3, <1>4, AppendProperties
<1>6. /\ Append(seen, i) \in Seq(V) /\ Len(Append(seen, i)) = Len(seen) + 1
      /\ \A n \in 1 .. Len(seen) : Append(seen, i)[n] = seen[n]
      /\ Append(seen, i)[Len(seen) + 1] = i
  BY <1>3, <1>4, AppendProperties
<1>7. PICK a, b, l : a = Append(vis, x) /\ b = Append(seen, i) /\ l = Len(seen) OBVIOUS
<1>8. l \in Nat BY <1>1, <1>7, SeqLen
<1>9. /\ IsSeq(a) /\ IsSeq(b) /\ Len(a) = l + 1 /\ Len(b) = l + 1
      /\ a[l + 1] = x /\ b[l + 1] = i
      /\ \A n \in 1 .. l : a[n] = vis[n] /\ b[n] = seen[n]
  BY <1>1, <1>5, <1>6, <1>7 DEF IsSeq
<1>10. ASSUME NEW n \in 1 .. (l + 1) PROVE a[n] = <<b[n], T[b[n]]>>
  <2>1. CASE n = l + 1 BY <1>9, <2>1
  <2>2. CASE n # l + 1
    <3>1. n \in 1 .. l BY <1>8, <2>2
    <3> QED BY <1>1, <1>7, <1>9, <3>1
  <2> QED BY <2>1, <2>2
<1> QED BY <1>7, <1>9, <1>10 DEF Seen

LEMMA LeafWent ==
  ASSUME NEW T, NEW f, NEW k, NEW vis, WalkAt(T, f, k, vis), WalkLeaf,
         visited = Visited(visited.previous, visited.new),
         vis = IF phase = "previous" THEN visited.previous ELSE visited.new
  PROVE  \E vis1 : Went(T, f, k + 1, vis1) /\ Put(vis1)
<1>1. PICK v, w, s : v = f[k] /\ w = f[k + 1] /\ s = Head(scopes) OBVIOUS
<1>2. /\ scopes # <<>> /\ s.node.height = 0
      /\ visited' = [visited EXCEPT ![phase] =
                       Append(@, <<s.path, LeafValue(s.node.bottom)>>)]
      /\ scopes' = Tail(scopes)
      /\ UNCHANGED <<inputs, fetched, descent_map, siblings, at, phase, failure>>
  BY <1>1 DEF WalkLeaf, Walking
<1>0. scopes # <<>> /\ s.node.height = 0 BY <1>2
<1>3. /\ OrderInv(modifications, v)
      /\ w = OrderStep(previous, modifications, descent_map, v)
      /\ k \in Nat /\ InWalk(T) /\ phase \in {"previous", "new"}
  <2>1. k \in Nat /\ InWalk(T) /\ phase \in {"previous", "new"} BY DEF WalkAt
  <2>2. OrderInv(modifications, f[k]) BY <2>1, OrderHere
  <2>3. f[k + 1] = OrderStep(previous, modifications, descent_map, f[k]) BY OrderHere
  <2> QED BY <1>1, <2>1, <2>2, <2>3
<1>4. Matches(T, modifications, scopes, v.stack) /\ at = Len(v.sibs) + 1 /\ Seen(vis, v.seen, T)
  BY <1>1 DEF WalkAt, InStep
<1>5. PICK h, i : h = v.stack[1][1] /\ i = v.stack[1][2] OBVIOUS
<1>6. v.stack # <<>> /\ AtHead(T, s, h, i) BY <1>0, <1>1, <1>3, <1>4, <1>5, HeadPlace
<1>7. s.node.height = h /\ s.path = i /\ (h = 0 => LeafValue(s.node.bottom) = T[i])
  BY <1>6, HeadHeight
<1>8. h = 0 /\ LeafValue(s.node.bottom) = T[i] BY <1>0, <1>7
<1>9. w.stack = Tail(v.stack) /\ w.sibs = v.sibs /\ w.seen = Append(v.seen, i)
  BY <1>3, <1>5, <1>6, <1>8 DEF OrderStep
<1>10. PICK x, vis1 : x = <<i, T[i]>> /\ vis1 = Append(vis, x) OBVIOUS
<1>11. Seen(vis1, w.seen, T) BY <1>4, <1>9, <1>10, SeenAppend
<1>12. Matches(T, modifications, Tail(scopes), Tail(v.stack)) BY <1>0, <1>4, MatchTail
<1>13. InStep(T, modifications, w, scopes', at', vis1)
  BY <1>2, <1>4, <1>9, <1>11, <1>12 DEF InStep
<1>14. siblings' = IF phase = "previous" THEN w.sibs ELSE siblings
  <2>1. phase = "previous" => siblings = v.sibs BY <1>1 DEF WalkAt
  <2> QED BY <1>2, <1>9, <2>1
<1>15. Went(T, f, k + 1, vis1) BY <1>1, <1>2, <1>13, <1>14 DEF Went
<1>16. Put(vis1)
  <2>1. PICK a, b : a = visited.previous /\ b = visited.new OBVIOUS
  <2>2. visited = Visited(a, b) BY <2>1
  <2>3. visited' = [visited EXCEPT ![phase] = Append(@, x)] BY <1>2, <1>7, <1>8, <1>10
  <2>4. CASE phase = "previous"
    <3>1. vis1 = Append(a, x) BY <1>10, <2>1, <2>4
    <3>2. visited' = Visited(vis1, b) BY <2>2, <2>3, <2>4, <3>1 DEF Visited
    <3> QED BY <2>1, <2>4, <3>2 DEF Put
  <2>5. CASE phase = "new"
    <3>1. vis1 = Append(b, x) BY <1>10, <2>1, <2>5
    <3>2. visited' = Visited(a, vis1) BY <2>2, <2>3, <2>5, <3>1 DEF Visited
    <3> QED BY <2>1, <2>5, <3>2 DEF Put
  <2> QED BY <1>3, <2>4, <2>5
<1> QED BY <1>15, <1>16

WalkAction == WalkLeaf \/ LoadEdge \/ WalkBinary \/ WalkDescent \/ WalkEdge \/ WalkEmpty

\* A step of a walk follows the order, or is stopped by the bottom of an edge.
LEMMA WalkWent ==
  ASSUME NEW T, NEW f, NEW k, NEW vis, WalkAt(T, f, k, vis), WalkAction,
         visited = Visited(visited.previous, visited.new),
         vis = IF phase = "previous" THEN visited.previous ELSE visited.new
  PROVE  \/ \E n \in Nat : \E vis1 : Went(T, f, n, vis1) /\ Put(vis1)
         \/ /\ Fail("Edge bottom not found in preimage") /\ mode # "State"
            /\ \E m \in DOMAIN modifications : T[m] = 0
<1>1. k \in Nat /\ InWalk(T) /\ phase \in {"previous", "new"} /\ k + 1 \in Nat
  <2>1. k \in Nat /\ InWalk(T) /\ phase \in {"previous", "new"} BY DEF WalkAt
  <2> QED BY <2>1
<1>2. Matches(T, modifications, scopes, f[k].stack) BY DEF WalkAt, InStep
<1>3. PICK h, i, s : h = f[k].stack[1][1] /\ i = f[k].stack[1][2] /\ s = Head(scopes) OBVIOUS
<1>4. scopes # <<>>
  BY DEF WalkAction, WalkLeaf, LoadEdge, WalkBinary, WalkDescent, WalkEdge, WalkEmpty, Walking
<1>5. AtHead(T, s, h, i) BY <1>1, <1>2, <1>3, <1>4, HeadPlace
<1>6. visited' = visited => Put(vis)
  BY <1>1 DEF Put
<1>7. ASSUME StepsTo(T, h, i) PROVE \E n \in Nat : \E vis1 : Went(T, f, n, vis1) /\ Put(vis1)
  <2>1. Went(T, f, k + 1, vis) /\ visited' = visited BY <1>3, <1>4, <1>7, StepWent
  <2> QED BY <1>1, <1>6, <2>1
<1>8. CASE WalkLeaf
  <2>1. \E vis1 : Went(T, f, k + 1, vis1) /\ Put(vis1) BY <1>8, LeafWent
  <2> QED BY <1>1, <2>1
<1>9. CASE LoadEdge
  <2>1. PICK t : ScopeAt(T, modifications, t, h, i) /\ Enter(<<t>>, <<>>)
    BY <1>5, <1>9, LoadEdgeStays
  <2>2. Went(T, f, k, vis) /\ visited' = visited BY <1>3, <1>4, <2>1, LoadWent
  <2> QED BY <1>1, <1>6, <2>2
<1>10. CASE WalkBinary BY <1>5, <1>7, <1>10, BinarySteps
<1>11. CASE WalkDescent BY <1>5, <1>7, <1>11, DescentSteps
<1>12. CASE WalkEdge BY <1>5, <1>7, <1>12, EdgeSteps
<1>13. CASE WalkEmpty BY <1>5, <1>7, <1>13, EmptySteps
<1> QED BY <1>8, <1>9, <1>10, <1>11, <1>12, <1>13 DEF WalkAction

-----------------------------------------------------------------------------
(* The invariant of the two walks.                                         *)

\* What a walk has come to so far, and what it has come to at its end.
Listed(mods, vis, T) == vis = <<>> \/ \E w : OrderInv(mods, w) /\ Seen(vis, w.seen, T)

Through(mods, vis, T) ==
    \E w : OrderInv(mods, w) /\ w.stack = <<>> /\ Seen(vis, w.seen, T)

\* The first walk has written the siblings up to its place.
FirstAt(prev, mods, dm, sc, sibs, a, vis) ==
    \E k \in Nat : /\ InStep(prev, mods, OrderWalk(prev, mods, dm)[k], sc, a, vis)
                   /\ sibs = OrderWalk(prev, mods, dm)[k].sibs

\* The first walk is at its end and the second one on its way.
FirstEnds(prev, mods, dm, sibs, vis) ==
    \E e \in Nat : /\ OrderWalk(prev, mods, dm)[e].stack = <<>>
                   /\ sibs = OrderWalk(prev, mods, dm)[e].sibs
                   /\ Seen(vis, OrderWalk(prev, mods, dm)[e].seen, prev)

SecondAt(prev, mods, dm, sc, a, vis) ==
    \E k \in Nat : InStep(Unify(prev, mods), mods, OrderWalk(prev, mods, dm)[k], sc, a, vis)

Fetching == {"proofs", "previous_proofs", "commitment", "descents"}

VisitedInv ==
    /\ visited = Visited(visited.previous, visited.new)
    /\ Listed(modifications, visited.previous, previous)
    /\ Listed(modifications, visited.new, updated)

FetchingInv == phase \in Fetching =>
    visited = Visited(<<>>, <<>>) /\ siblings = <<>> /\ at = 1

FirstInv == phase = "previous" =>
    /\ FirstAt(previous, modifications, descent_map, scopes, siblings, at, visited.previous)
    /\ visited.new = <<>>

SecondInv == phase = "new" =>
    /\ FirstEnds(previous, modifications, descent_map, siblings, visited.previous)
    /\ SecondAt(previous, modifications, descent_map, scopes, at, visited.new)

DoneInv == phase = "done" =>
    /\ DOMAIN modifications = {} \/ Through(modifications, visited.new, updated)
    /\ keys # <<>> => at = Len(siblings) + 1

FailureInv ==
    /\ phase # "failed" => failure = ""
    /\ HintsFindTheirNodes

WalkInv == VisitedInv /\ FetchingInv /\ FirstInv /\ SecondInv /\ DoneInv /\ FailureInv

\* A proof of a tree verifies.
LEMMA NoRefusal ==
  ASSUME InputsInv, NEW tree \in Tree, NEW there \in BOOLEAN, NEW p,
         p = TreeProof(tree, there), Refuses(p)
  PROVE  mode = "Class" /\ keys = <<>>
<1>1. SUFFICES ASSUME p.some, Panics(Verdicts(p, keys)) PROVE FALSE BY Zenon DEF Refuses
<1>2. there = TRUE
  <2>1. p = TreeProof(tree, FALSE) => p = NoContractData BY TreeProofIs
  <2>2. ~NoContractData.some BY DEF NoContractData
  <2> QED BY <1>1, <2>1, <2>2
<1>3. p.root = ReferenceRoot(tree) BY <1>2, TreeProofIs
<1>4. \A i \in DOMAIN keys : p.storage_proofs[i] = ProofPath(p.root, keys[i])
  BY <1>1, TreeProofFollows
<1>5. PICK i \in DOMAIN keys :
         verify_proof(keys[i], p.root, p.storage_proofs[i]).kind \notin {"Ok", "NonExistenceProof"}
  BY <1>1 DEF Panics, Verdicts
<1>6. PICK key, root, nodes, f :
         /\ key = keys[i] /\ root = p.root /\ nodes = ProofPath(root, key)
         /\ f = ProofSteps(root, key)
  OBVIOUS
<1>7. key \in Index BY <1>6 DEF InputsInv
<1>8. root = ReferenceRoot(tree) BY <1>3, <1>6
<1>9. /\ \A k \in 0 .. (Len(nodes) - 1) : Leaves(f[k], key) =>
            verify_proof(key, root, nodes) =
                  Verdict("NonExistenceProof", f[k].height - f[k].hash.length)
      /\ (\A k \in 0 .. (Len(nodes) - 1) : ~Leaves(f[k], key)) =>
            verify_proof(key, root, nodes) = Verdict("Ok", 0)
  BY <1>6, <1>7, <1>8, VerifyPath
<1>10. PICK v : v = verify_proof(key, root, nodes) OBVIOUS
<1>11. v.kind \notin {"Ok", "NonExistenceProof"} BY <1>4, <1>5, <1>6, <1>10
<1>12. (\E x : v = Verdict("NonExistenceProof", x)) \/ v = Verdict("Ok", 0) BY <1>9, <1>10
<1>13. \A x : Verdict("NonExistenceProof", x).kind = "NonExistenceProof"
              /\ Verdict("Ok", 0).kind = "Ok"
  BY DEF Verdict
<1> QED BY <1>11, <1>12, <1>13

\* The scope of the root.
LEMMA RootMatches ==
  ASSUME NEW T \in Tree, NEW mods, IsMods(mods), DOMAIN mods # {}, NEW root,
         root = ReferenceRoot(T), NEW s,
         s = Scope(from_hash(root, Height), 0, build_update_tree(mods))
  PROVE  Matches(T, mods, <<s>>, <<<<Height, 0>>>>)
<1> USE NodesAssumption
<1>1. Mod(mods, Height, 0)
  <2>1. PICK m \in DOMAIN mods : TRUE OBVIOUS
  <2>2. m \in Index /\ Height \in 0 .. Height BY DEF IsMods
  <2>3. Anc(m, Height) = 0 BY <2>2, AncPosition
  <2> QED BY <2>1, <2>3 DEF Mod
<1>2. build_update_tree(mods) = UpdateAt(mods, Height, 0) BY UpdateRoot DEF UpdateAt
<1>3. root = hash_node(RNode(T, Height, 0))
  BY DEF ReferenceRoot, Reference, RNode, Ref
<1>4. s.node = from_hash(root, Height) /\ s.path = 0 /\ s.update = UpdateAt(mods, Height, 0)
  BY <1>2, ScopeFields
<1>5. Stands(T, s.node, Height, 0) BY <1>3, <1>4 DEF Stands, HashPoint
<1>6. Height \in 0 .. Height OBVIOUS
<1>7. ScopeAt(T, mods, s, Height, 0) BY <1>1, <1>4, <1>5, <1>6 DEF ScopeAt
<1> QED BY <1>7, OneMatch

\* Both walks begin at the root.
LEMMA WalkBegins ==
  ASSUME NEW T \in Tree, NEW mods, IsMods(mods), DOMAIN mods # {}, NEW root,
         root = ReferenceRoot(T), NEW s,
         s = Scope(from_hash(root, Height), 0, build_update_tree(mods)),
         NEW prev, NEW dm, NEW w, w = OrderWalk(prev, mods, dm)[0]
  PROVE  InStep(T, mods, w, <<s>>, 1, <<>>) /\ w.sibs = <<>>
<1>1. w = [stack |-> <<<<Height, 0>>>>, sibs |-> <<>>, seen |-> <<>>] BY OrderWalkDef
<1>2. w.stack = <<<<Height, 0>>>> /\ w.sibs = <<>> /\ w.seen = <<>> BY <1>1
<1>3. Matches(T, mods, <<s>>, w.stack) BY <1>2, RootMatches
<1>4. PICK none : none = <<>> OBVIOUS
<1>5. IsSeq(none) /\ Len(none) = 0 BY <1>4, NoSeq
<1>6. Seen(none, none, T) BY <1>5 DEF Seen
<1> QED BY <1>2, <1>3, <1>4, <1>5, <1>6 DEF InStep

LEMMA WalksNow ==
  ASSUME PhaseInv, phase \in {"previous", "new"}
  PROVE  /\ InWalk(previous) /\ InWalk(updated) /\ DOMAIN modifications # {}
         /\ previous \in Tree /\ updated \in Tree /\ IsMods(modifications)
         /\ updated = Unify(previous, modifications)
<1>1. /\ GuessCtx(preimage, previous, modifications)
      /\ mode = "State" => /\ KnowsBottoms(preimage, previous, DOMAIN modifications)
                           /\ KnowsBottoms(preimage, updated, DOMAIN modifications)
      /\ DOMAIN modifications # {}
  BY PreimageCtx DEF PhaseInv
<1>2. Live = LiveSet(previous, modifications) BY DEF Live, LiveSet
<1>3. DescentMap(LiveSet(previous, modifications), modifications, descent_map)
  BY <1>2 DEF PhaseInv, DescentsInv
<1>4. previous \in Tree /\ IsMods(modifications) BY DEF PhaseInv, InputsInv
<1>5. updated = Unify(previous, modifications) BY DEF updated
<1>6. updated \in Tree BY <1>4, <1>5, UnifyType
<1> QED BY <1>1, <1>3, <1>4, <1>5, <1>6 DEF InWalk, WalkCtx

LEMMA FirstStep ==
  ASSUME PhaseInv, WalkInv, phase = "previous", WalkAction
  PROVE  \/ /\ Fail("Edge bottom not found in preimage") /\ mode # "State"
            /\ \E m \in DOMAIN modifications : previous[m] = 0
         \/ \E vis : /\ FirstAt(previous, modifications, descent_map, scopes', siblings', at', vis)
                     /\ Listed(modifications, vis, previous)
                     /\ visited' = Visited(vis, <<>>)
                     /\ UNCHANGED <<inputs, fetched, descent_map, phase, failure>>
<1>1. InWalk(previous) /\ DOMAIN modifications # {} BY WalksNow
<1>2. PICK f : f = OrderWalk(previous, modifications, descent_map) OBVIOUS
<1>3. /\ FirstAt(previous, modifications, descent_map, scopes, siblings, at, visited.previous)
      /\ visited.new = <<>> /\ visited = Visited(visited.previous, visited.new)
  BY DEF WalkInv, FirstInv, VisitedInv
<1>4. PICK k \in Nat : /\ InStep(previous, modifications, f[k], scopes, at, visited.previous)
                       /\ siblings = f[k].sibs
  BY <1>2, <1>3 DEF FirstAt
<1>5. PICK vis : vis = visited.previous OBVIOUS
<1>6. WalkAt(previous, f, k, vis) BY <1>1, <1>2, <1>4, <1>5 DEF WalkAt
<1>7. vis = IF phase = "previous" THEN visited.previous ELSE visited.new BY <1>5
<1>8. PICK T : T = previous OBVIOUS
<1>9. \/ \E n \in Nat : \E vis1 : Went(T, f, n, vis1) /\ Put(vis1)
      \/ /\ Fail("Edge bottom not found in preimage") /\ mode # "State"
         /\ \E m \in DOMAIN modifications : T[m] = 0
  BY <1>3, <1>6, <1>7, <1>8, WalkWent
<1>10. ASSUME NEW n \in Nat, NEW vis1, Went(T, f, n, vis1), Put(vis1)
       PROVE  /\ FirstAt(previous, modifications, descent_map, scopes', siblings', at', vis1)
              /\ Listed(modifications, vis1, previous)
              /\ visited' = Visited(vis1, <<>>)
              /\ UNCHANGED <<inputs, fetched, descent_map, phase, failure>>
  <2>1. /\ InStep(previous, modifications, f[n], scopes', at', vis1) /\ siblings' = f[n].sibs
        /\ UNCHANGED <<inputs, fetched, descent_map, phase, failure>>
    BY <1>8, <1>10 DEF Went
  <2>2. FirstAt(previous, modifications, descent_map, scopes', siblings', at', vis1)
    BY <1>2, <2>1 DEF FirstAt
  <2>3. Seen(vis1, f[n].seen, previous) BY <2>1 DEF InStep
  <2>4. OrderInv(modifications, f[n]) BY <1>6, OrderHere
  <2>5. Listed(modifications, vis1, previous) BY <2>3, <2>4 DEF Listed
  <2>6. visited' = Visited(vis1, <<>>) BY <1>3, <1>10 DEF Put
  <2> QED BY <2>1, <2>2, <2>5, <2>6
<1> QED BY <1>8, <1>9, <1>10

LEMMA SecondStep ==
  ASSUME PhaseInv, WalkInv, phase = "new", WalkAction
  PROVE  \E vis : /\ SecondAt(previous, modifications, descent_map, scopes', at', vis)
                  /\ Listed(modifications, vis, updated)
                  /\ visited' = Visited(visited.previous, vis)
                  /\ siblings' = siblings
                  /\ UNCHANGED <<inputs, fetched, descent_map, phase, failure>>
<1>1. /\ InWalk(updated) /\ DOMAIN modifications # {} /\ previous \in Tree
      /\ IsMods(modifications) /\ updated = Unify(previous, modifications)
  BY WalksNow
<1>2. PICK f, T : f = OrderWalk(previous, modifications, descent_map) /\ T = updated OBVIOUS
<1>3. /\ FirstEnds(previous, modifications, descent_map, siblings, visited.previous)
      /\ SecondAt(previous, modifications, descent_map, scopes, at, visited.new)
      /\ visited = Visited(visited.previous, visited.new)
  BY DEF WalkInv, SecondInv, VisitedInv
<1>4. PICK k \in Nat : InStep(T, modifications, f[k], scopes, at, visited.new)
  BY <1>1, <1>2, <1>3 DEF SecondAt
<1>5. PICK vis : vis = visited.new OBVIOUS
<1>6. WalkAt(T, f, k, vis)
  <2>1. \E e \in Nat : f[e].stack = <<>> /\ siblings = f[e].sibs BY <1>2, <1>3 DEF FirstEnds
  <2> QED BY <1>1, <1>2, <1>4, <1>5, <2>1 DEF WalkAt
<1>7. vis = IF phase = "previous" THEN visited.previous ELSE visited.new BY <1>5
<1>8. \/ \E n \in Nat : \E vis1 : Went(T, f, n, vis1) /\ Put(vis1)
      \/ mode # "State" /\ \E m \in DOMAIN modifications : T[m] = 0
  BY <1>3, <1>6, <1>7, WalkWent
<1>10. ASSUME mode # "State", NEW m \in DOMAIN modifications PROVE T[m] # 0
  <2>1. modifications[m] # 0 BY <1>10 DEF PhaseInv, AskedInv
  <2>2. m \in Index BY <1>1 DEF IsMods
  <2>3. T[m] = modifications[m] BY <1>1, <1>2, <2>2, UnifyType
  <2> QED BY <2>1, <2>3
<1>11. PICK n \in Nat : \E vis1 : Went(T, f, n, vis1) /\ Put(vis1) BY <1>8, <1>10
<1>12. PICK vis1 : Went(T, f, n, vis1) /\ Put(vis1) BY <1>11
<1>13. /\ InStep(T, modifications, f[n], scopes', at', vis1) /\ siblings' = siblings
       /\ UNCHANGED <<inputs, fetched, descent_map, phase, failure>>
  BY <1>12 DEF Went
<1>14. SecondAt(previous, modifications, descent_map, scopes', at', vis1)
  BY <1>1, <1>2, <1>13 DEF SecondAt
<1>15. Seen(vis1, f[n].seen, updated) BY <1>2, <1>13 DEF InStep
<1>16. OrderInv(modifications, f[n]) BY <1>6, OrderHere
<1>17. Listed(modifications, vis1, updated) BY <1>15, <1>16 DEF Listed
<1>18. visited' = Visited(visited.previous, vis1) BY <1>12 DEF Put
<1> QED BY <1>13, <1>14, <1>17, <1>18

LEMMA NoScopes ==
  ASSUME NEW T, NEW mods, NEW sc, NEW st, Matches(T, mods, sc, st), sc = <<>>
  PROVE  st = <<>>
<1>1. IsSeq(sc) /\ IsSeq(st) /\ Len(sc) = Len(st) BY DEF Matches
<1> QED BY <1>1, SeqLen

LEMMA FirstIsThrough ==
  ASSUME PhaseInv, WalkInv, phase = "previous", scopes = <<>>
  PROVE  FirstEnds(previous, modifications, descent_map, siblings, visited.previous)
<1>1. PICK f : f = OrderWalk(previous, modifications, descent_map) OBVIOUS
<1>2. FirstAt(previous, modifications, descent_map, scopes, siblings, at, visited.previous)
  BY DEF WalkInv, FirstInv
<1>3. PICK k \in Nat : /\ InStep(previous, modifications, f[k], scopes, at, visited.previous)
                       /\ siblings = f[k].sibs
  BY <1>1, <1>2 DEF FirstAt
<1>4. Matches(previous, modifications, scopes, f[k].stack)
      /\ Seen(visited.previous, f[k].seen, previous)
  BY <1>3 DEF InStep
<1>5. f[k].stack = <<>> BY <1>4, NoScopes
<1> QED BY <1>1, <1>3, <1>4, <1>5 DEF FirstEnds

LEMMA SecondIsThrough ==
  ASSUME PhaseInv, WalkInv, phase = "new", scopes = <<>>
  PROVE  Through(modifications, visited.new, updated) /\ at = Len(siblings) + 1
<1>1. /\ InWalk(updated) /\ DOMAIN modifications # {}
      /\ updated = Unify(previous, modifications)
  BY WalksNow
<1>2. PICK f, T : f = OrderWalk(previous, modifications, descent_map) /\ T = updated OBVIOUS
<1>3. /\ FirstEnds(previous, modifications, descent_map, siblings, visited.previous)
      /\ SecondAt(previous, modifications, descent_map, scopes, at, visited.new)
  BY DEF WalkInv, SecondInv
<1>4. PICK k \in Nat : InStep(T, modifications, f[k], scopes, at, visited.new)
  BY <1>1, <1>2, <1>3 DEF SecondAt
<1>5. PICK e \in Nat : f[e].stack = <<>> /\ siblings = f[e].sibs BY <1>2, <1>3 DEF FirstEnds
<1>6. PICK vis : vis = visited.new OBVIOUS
<1>7. WalkAt(T, f, k, vis) BY <1>1, <1>2, <1>4, <1>5, <1>6 DEF WalkAt
<1>8. /\ Matches(T, modifications, scopes, f[k].stack) /\ at = Len(f[k].sibs) + 1
      /\ Seen(vis, f[k].seen, T)
  BY <1>4, <1>6 DEF InStep
<1>9. f[k].stack = <<>> BY <1>8, NoScopes
<1>10. f[k] = f[e] BY <1>5, <1>7, <1>9, OrderHere
<1>11. OrderInv(modifications, f[k]) BY <1>7, OrderHere
<1>12. Through(modifications, visited.new, updated) BY <1>2, <1>6, <1>8, <1>9, <1>11 DEF Through
<1> QED BY <1>5, <1>8, <1>10, <1>12

\* A tree whose root is the empty hash has no leaves.
LEMMA EmptyRoot ==
  ASSUME NEW tree \in Tree, ReferenceRoot(tree) = EMPTY_NODE_HASH
  PROVE  \A i \in Index : tree[i] = 0
<1> USE NodesAssumption
<1>1. PICK n : n = RNode(tree, Height, 0) OBVIOUS
<1>2. hash_node(n) = EMPTY_NODE_HASH BY <1>1 DEF ReferenceRoot, Reference, RNode, Ref
<1>3. Height \in 0 .. Height /\ 0 \in Positions(Height - Height)
  <2>1. Height - Height = 0 OBVIOUS
  <2>2. Positions(0) = {0} BY Pow2Def DEF Positions
  <2> QED BY <2>1, <2>2
<1>4. NodeOK(n, Height) BY <1>1, <1>3, RNodeOK
<1>5. is_empty(n) BY <1>2, <1>3, <1>4, HashNodeKind
<1>6. \A leaf \in Index : Anc(leaf, Height) = 0 => tree[leaf] = 0
  BY <1>1, <1>3, <1>5, EmptyIff
<1>7. \A leaf \in Index : Anc(leaf, Height) = 0 BY <1>3, AncPosition
<1> QED BY <1>6, <1>7

\* What SetPreimage stops on: a contract that is not there at the block, or the
\* tree of contracts when it had no leaf before.
LEMMA PreimageStops ==
  ASSUME PhaseInv, phase = "commitment"
  PROVE  /\ ~proof.some => mode = "State" /\ ~exists
         /\ proof.some /\ mode = "Contracts" /\ NoFirstNode =>
               \A i \in Index : previous[i] = 0
<1>1. /\ proof = TreeProof(updated, exists) /\ previous_proof = TreeProof(previous, deployed)
  BY DEF PhaseInv, FetchInv
<1>2. /\ InputsInv /\ previous \in Tree /\ IsMods(modifications)
      /\ deployed \in BOOLEAN /\ exists \in BOOLEAN
  BY DEF PhaseInv, InputsInv
<1>3. /\ ~deployed => \A i \in Index : previous[i] = 0
      /\ ~exists => mode = "State"
      /\ mode # "State" => \A k \in DOMAIN modifications : modifications[k] # 0
      /\ mode = "Contracts" => DOMAIN modifications # {}
  BY DEF PhaseInv, AskedInv
<1>4. updated \in Tree BY <1>2, UnifyType DEF updated
<1>5. exists => proof.some /\ proof.root = ReferenceRoot(updated)
  BY <1>1, <1>2, <1>4, TreeProofIs
<1>6. deployed => previous_proof.root = ReferenceRoot(previous)
  BY <1>1, <1>2, TreeProofIs
<1>7. ASSUME mode = "Contracts", NoFirstNode PROVE \A i \in Index : previous[i] = 0
  <2>1. PICK m \in DOMAIN modifications : modifications[m] # 0 BY <1>3, <1>7
  <2>2. m \in Index BY <1>2, <2>1 DEF IsMods
  <2>3. updated[m] = modifications[m] BY <1>2, <2>1, <2>2, UnifyType DEF updated
  <2>4. ReferenceRoot(updated) # EMPTY_NODE_HASH BY <1>4, <2>1, <2>2, <2>3, EmptyRoot
  <2>5. proof.root # EMPTY_NODE_HASH BY <1>3, <1>5, <1>7, <2>4
  <2>6. previous_proof.root = EMPTY_NODE_HASH BY <1>7, <2>5 DEF NoFirstNode
  <2> QED BY <1>2, <1>3, <1>6, <2>6, EmptyRoot
<1> QED BY <1>3, <1>5, <1>7

LEMMA StepWalks ==
  ASSUME PhaseInv, WalkInv, [Next]_vars
  PROVE  WalkInv'
<1>1. /\ previous' = previous /\ deployed' = deployed /\ exists' = exists
      /\ modifications' = modifications /\ mode' = mode /\ keys' = keys
  BY StepFetches DEF inputs
<1>2. updated' = updated BY <1>1 DEF updated
<1> DEFINE Goal == WalkInv'
<1> SUFFICES Goal OBVIOUS
<1>3. /\ VisitedInv /\ FetchingInv /\ FirstInv /\ SecondInv /\ DoneInv /\ FailureInv
      /\ phase \in Phases
  BY DEF WalkInv, PhaseInv, FetchInv
<1> HIDE DEF Goal
\* A hint fails.
<1>4. ASSUME NEW error, Fail(error),
             \/ mode = "State" /\ error = "no contract_data" /\ ~exists
             \/ mode = "Class" /\ error = "panic" /\ keys = <<>>
             \/ mode = "Contracts" /\ error = "panic" /\ \A i \in Index : previous[i] = 0
             \/ /\ mode # "State" /\ error = "Edge bottom not found in preimage"
                /\ \E k \in DOMAIN modifications : previous[k] = 0
      PROVE  Goal
  <2>1. phase' = "failed" /\ failure' = error /\ visited' = visited
    BY <1>4 DEF Fail, walk
  <2>2. VisitedInv' BY <1>1, <1>2, <1>3, <2>1 DEF VisitedInv
  <2>3. HintsFindTheirNodes' BY <1>1, <1>4, <2>1 DEF HintsFindTheirNodes
  <2> QED BY <2>1, <2>2, <2>3
      DEF Goal, WalkInv, FetchingInv, Fetching, FirstInv, SecondInv, DoneInv, FailureInv
\* Nothing has failed.
<1>5. ASSUME phase # "failed", failure' = failure, phase' # "failed" PROVE FailureInv'
  BY <1>3, <1>5 DEF FailureInv, HintsFindTheirNodes
<1>6. ASSUME UNCHANGED walk, failure' = failure, phase \in Fetching, phase' \in Fetching
      PROVE  Goal
  <2>1. visited' = visited /\ siblings' = siblings /\ at' = at BY <1>6 DEF walk
  <2>2. VisitedInv' BY <1>1, <1>2, <1>3, <2>1 DEF VisitedInv
  <2>3. FetchingInv' BY <1>3, <1>6, <2>1 DEF FetchingInv
  <2>4. FailureInv' BY <1>5, <1>6 DEF Fetching
  <2> QED BY <1>6, <2>2, <2>3, <2>4
      DEF Goal, WalkInv, Fetching, FirstInv, SecondInv, DoneInv
<1>7. CASE GetProofs
  <2>1. PICK p : p = TreeProof(updated, exists) OBVIOUS
  <2>2. updated \in Tree /\ exists \in BOOLEAN
    <3>1. previous \in Tree /\ IsMods(modifications) /\ exists \in BOOLEAN
      BY DEF PhaseInv, InputsInv
    <3> QED BY <3>1, UnifyType DEF updated
  <2>3. CASE Refuses(p)
    <3>1. mode = "Class" /\ keys = <<>>
      <4>1. InputsInv BY DEF PhaseInv
      <4> QED BY <2>1, <2>2, <2>3, <4>1, NoRefusal
    <3>2. Fail("panic") BY <1>7, <2>1, <2>3 DEF GetProofs
    <3> QED BY <1>4, <3>1, <3>2
  <2>4. CASE ~Refuses(p)
    <3>1. UNCHANGED walk /\ failure' = failure /\ phase = "proofs" /\ phase' = "previous_proofs"
      BY <1>7, <2>1, <2>4 DEF GetProofs
    <3> QED BY <1>6, <3>1 DEF Fetching
  <2> QED BY <2>3, <2>4
<1>8. CASE GetPreviousProofs
  <2>1. PICK p : p = TreeProof(previous, deployed) OBVIOUS
  <2>2. InputsInv /\ previous \in Tree /\ deployed \in BOOLEAN BY DEF PhaseInv, InputsInv
  <2>3. CASE Refuses(p)
    <3>1. mode = "Class" /\ keys = <<>> BY <2>1, <2>2, <2>3, NoRefusal
    <3>2. Fail("panic") BY <1>8, <2>1, <2>3 DEF GetPreviousProofs
    <3> QED BY <1>4, <3>1, <3>2
  <2>4. CASE ~Refuses(p)
    <3>1. UNCHANGED walk /\ failure' = failure /\ phase = "previous_proofs" /\ phase' = "commitment"
      BY <1>8, <2>1, <2>4 DEF GetPreviousProofs
    <3> QED BY <1>6, <3>1 DEF Fetching
  <2> QED BY <2>3, <2>4
<1>9. CASE SetPreimage
  <2>1. phase = "commitment" BY <1>9 DEF SetPreimage
  <2>2. CASE ~proof.some
    <3>1. Fail("no contract_data") BY <1>9, <2>2 DEF SetPreimage
    <3>2. mode = "State" /\ ~exists BY <2>1, <2>2, PreimageStops
    <3> QED BY <1>4, <3>1, <3>2
  <2>3. CASE proof.some /\ mode = "Contracts" /\ NoFirstNode
    <3>1. Fail("panic") BY <1>9, <2>3 DEF SetPreimage
    <3>2. \A i \in Index : previous[i] = 0 BY <2>1, <2>3, PreimageStops
    <3> QED BY <1>4, <2>3, <3>1, <3>2
  <2>4. CASE proof.some /\ ~(mode = "Contracts" /\ NoFirstNode)
    <3>1. /\ phase' = IF keys = <<>> THEN "done" ELSE "descents"
          /\ UNCHANGED walk /\ failure' = failure
      BY <1>9, <2>4 DEF SetPreimage
    <3>2. CASE keys # <<>> BY <1>6, <2>1, <3>1, <3>2 DEF Fetching
    <3>3. CASE keys = <<>>
      <4>1. phase' = "done" /\ visited' = visited /\ keys' = <<>> BY <1>1, <3>1, <3>3 DEF walk
      <4>2. VisitedInv' BY <1>1, <1>2, <1>3, <4>1 DEF VisitedInv
      <4>3. DOMAIN modifications = {}
        <5>1. Asked(keys, modifications) BY DEF PhaseInv, AskedInv
        <5>2. DOMAIN keys = {} BY <3>3
        <5> QED BY <5>1, <5>2 DEF Asked
      <4>4. DoneInv' BY <1>1, <4>1, <4>3 DEF DoneInv
      <4>5. FailureInv' BY <1>5, <2>1, <3>1, <4>1
      <4> QED BY <4>1, <4>2, <4>4, <4>5
          DEF Goal, WalkInv, FetchingInv, Fetching, FirstInv, SecondInv
    <3> QED BY <3>2, <3>3
  <2> QED BY <2>2, <2>3, <2>4
<1>10. CASE build_descent_map
  <2>1. PICK guess, root, s :
          /\ guess = patricia_guess_descents(preimage, build_update_tree(modifications),
                         commitment.previous_root, commitment.updated_root)
          /\ root = commitment.previous_root
          /\ s = Scope(from_hash(root, Height), 0, build_update_tree(modifications))
    OBVIOUS
  <2>2. phase = "descents" BY <1>10 DEF build_descent_map
  <2>3. guess.ok BY <2>1, <2>2, GuessNow DEF PhaseInv
  <2>4. /\ scopes' = <<s>> /\ phase' = "previous" /\ siblings' = siblings /\ at' = at
        /\ visited' = visited /\ failure' = failure
    BY <1>10, <2>1, <2>3 DEF build_descent_map
  <2>5. visited = Visited(<<>>, <<>>) /\ siblings = <<>> /\ at = 1
    BY <1>3, <2>2 DEF FetchingInv, Fetching
  <2>6. root = ReferenceRoot(previous) /\ DOMAIN modifications # {}
    BY <2>1, <2>2, PreimageCtx DEF PhaseInv
  <2>7. previous \in Tree /\ IsMods(modifications) BY DEF PhaseInv, InputsInv
  <2>8. PICK dm, w : dm = descent_map' /\ w = OrderWalk(previous, modifications, dm)[0] OBVIOUS
  <2>9. InStep(previous, modifications, w, <<s>>, 1, <<>>) /\ w.sibs = <<>>
    BY <2>1, <2>6, <2>7, <2>8, WalkBegins
  <2>10. FirstAt(previous, modifications, dm, <<s>>, <<>>, 1, <<>>) BY <2>8, <2>9 DEF FirstAt
  <2>11. visited'.previous = <<>> /\ visited'.new = <<>> BY <2>4, <2>5 DEF Visited
  <2>12. FirstInv' BY <1>1, <2>4, <2>5, <2>8, <2>10, <2>11 DEF FirstInv
  <2>13. VisitedInv' BY <1>1, <1>2, <1>3, <2>4 DEF VisitedInv
  <2>14. FailureInv' BY <1>5, <2>2, <2>4
  <2> QED BY <2>4, <2>12, <2>13, <2>14
      DEF Goal, WalkInv, FetchingInv, Fetching, SecondInv, DoneInv
<1>11. CASE WalkAction
  <2>1. phase \in {"previous", "new"}
    BY <1>11, WalkFrame DEF WalkAction
  <2>2. CASE phase = "previous"
    <3>1. CASE /\ Fail("Edge bottom not found in preimage") /\ mode # "State"
               /\ \E m \in DOMAIN modifications : previous[m] = 0
      BY <1>4, <3>1
    <3>2. CASE \E vis :
               /\ FirstAt(previous, modifications, descent_map, scopes', siblings', at', vis)
               /\ Listed(modifications, vis, previous)
               /\ visited' = Visited(vis, <<>>)
               /\ UNCHANGED <<inputs, fetched, descent_map, phase, failure>>
      <4>1. PICK vis :
               /\ FirstAt(previous, modifications, descent_map, scopes', siblings', at', vis)
               /\ Listed(modifications, vis, previous)
               /\ visited' = Visited(vis, <<>>)
               /\ descent_map' = descent_map /\ phase' = phase /\ failure' = failure
        BY <3>2
      <4>2. visited'.previous = vis /\ visited'.new = <<>> BY <4>1 DEF Visited
      <4>3. VisitedInv'
        <5>1. visited' = Visited(visited'.previous, visited'.new) BY <4>1, <4>2
        <5>2. Listed(modifications, visited'.previous, previous) BY <4>1, <4>2
        <5>3. Listed(modifications, visited'.new, updated) BY <4>2 DEF Listed
        <5> QED BY <1>1, <1>2, <5>1, <5>2, <5>3 DEF VisitedInv
      <4>4. FirstInv' BY <1>1, <4>1, <4>2 DEF FirstInv
      <4>5. FailureInv' BY <1>5, <2>2, <4>1
      <4> QED BY <2>2, <4>1, <4>3, <4>4, <4>5
          DEF Goal, WalkInv, FetchingInv, Fetching, SecondInv, DoneInv
    <3> QED BY <1>11, <2>2, <3>1, <3>2, FirstStep
  <2>3. CASE phase = "new"
    <3>1. PICK vis :
             /\ SecondAt(previous, modifications, descent_map, scopes', at', vis)
             /\ Listed(modifications, vis, updated)
             /\ visited' = Visited(visited.previous, vis)
             /\ siblings' = siblings
             /\ descent_map' = descent_map /\ phase' = phase /\ failure' = failure
      BY <1>11, <2>3, SecondStep
    <3>2. visited'.previous = visited.previous /\ visited'.new = vis BY <3>1 DEF Visited
    <3>3. VisitedInv'
      <4>1. visited' = Visited(visited'.previous, visited'.new) BY <3>1, <3>2
      <4>2. Listed(modifications, visited'.previous, previous) BY <1>3, <3>2 DEF VisitedInv
      <4>3. Listed(modifications, visited'.new, updated) BY <3>1, <3>2
      <4> QED BY <1>1, <1>2, <4>1, <4>2, <4>3 DEF VisitedInv
    <3>4. SecondInv'
      <4>1. FirstEnds(previous, modifications, descent_map, siblings, visited.previous)
        BY <1>3, <2>3 DEF SecondInv
      <4> QED BY <1>1, <3>1, <3>2, <4>1 DEF SecondInv
    <3>5. FailureInv' BY <1>5, <2>3, <3>1
    <3> QED BY <2>3, <3>1, <3>3, <3>4, <3>5
        DEF Goal, WalkInv, FetchingInv, Fetching, FirstInv, DoneInv
  <2> QED BY <2>1, <2>2, <2>3
<1>12. CASE EndWalk
  <2>0. /\ phase \in {"previous", "new"} /\ scopes = <<>>
        /\ descent_map' = descent_map /\ siblings' = siblings
        /\ visited' = visited /\ failure' = failure
    BY <1>12 DEF EndWalk
  <2>1. VisitedInv' BY <1>1, <1>2, <1>3, <2>0 DEF VisitedInv
  <2>2. CASE phase = "previous"
    <3>1. PICK root, s :
            /\ root = commitment.updated_root
            /\ s = Scope(from_hash(root, Height), 0, build_update_tree(modifications))
      OBVIOUS
    <3>2. scopes' = <<s>> /\ at' = 1 /\ phase' = "new" BY <1>12, <2>2, <3>1 DEF EndWalk
    <3>3. FirstEnds(previous, modifications, descent_map, siblings, visited.previous)
      BY <2>0, <2>2, FirstIsThrough
    <3>4. root = ReferenceRoot(updated) BY <2>0, <3>1, PreimageCtx DEF PhaseInv
    <3>5. /\ DOMAIN modifications # {} /\ updated \in Tree /\ IsMods(modifications)
          /\ updated = Unify(previous, modifications)
      BY <2>0, WalksNow
    <3>6. PICK w, T : /\ w = OrderWalk(previous, modifications, descent_map)[0]
                      /\ T = updated
      OBVIOUS
    <3>7. InStep(T, modifications, w, <<s>>, 1, <<>>)
      BY <3>1, <3>4, <3>5, <3>6, WalkBegins
    <3>8. SecondAt(previous, modifications, descent_map, <<s>>, 1, <<>>)
      BY <3>5, <3>6, <3>7 DEF SecondAt
    <3>9. visited.new = <<>> BY <1>3, <2>2 DEF FirstInv
    <3>10. SecondInv' BY <1>1, <2>0, <3>2, <3>3, <3>8, <3>9 DEF SecondInv
    <3>11. FailureInv' BY <1>5, <2>0, <2>2, <3>2
    <3> QED BY <2>1, <3>2, <3>10, <3>11
        DEF Goal, WalkInv, FetchingInv, Fetching, FirstInv, DoneInv
  <2>3. CASE phase = "new"
    <3>1. phase' = "done" /\ at' = at BY <1>12, <2>3 DEF EndWalk
    <3>2. Through(modifications, visited.new, updated) /\ at = Len(siblings) + 1
      BY <2>0, <2>3, SecondIsThrough
    <3>3. DoneInv' BY <1>1, <1>2, <2>0, <3>1, <3>2 DEF DoneInv
    <3>4. FailureInv' BY <1>5, <2>0, <2>3, <3>1
    <3> QED BY <2>1, <3>1, <3>3, <3>4
        DEF Goal, WalkInv, FetchingInv, Fetching, FirstInv, SecondInv
  <2> QED BY <2>0, <2>2, <2>3
<1>13. CASE Stopped \/ UNCHANGED vars
  <2>1. UNCHANGED vars BY <1>13 DEF Stopped
  <2>2. /\ descent_map' = descent_map /\ scopes' = scopes /\ siblings' = siblings /\ at' = at
        /\ visited' = visited /\ phase' = phase /\ failure' = failure
    BY <2>1 DEF vars
  <2>3. VisitedInv' BY <1>1, <1>2, <1>3, <2>2 DEF VisitedInv
  <2>4. FetchingInv' BY <1>3, <2>2 DEF FetchingInv
  <2>5. FirstInv' BY <1>1, <1>3, <2>2 DEF FirstInv
  <2>6. SecondInv' BY <1>1, <1>3, <2>2 DEF SecondInv
  <2>7. DoneInv' BY <1>1, <1>2, <1>3, <2>2 DEF DoneInv
  <2>8. FailureInv' BY <1>1, <1>3, <2>2 DEF FailureInv, HintsFindTheirNodes
  <2> QED BY <2>3, <2>4, <2>5, <2>6, <2>7, <2>8 DEF Goal, WalkInv
<1> QED BY <1>7, <1>8, <1>9, <1>10, <1>11, <1>12, <1>13 DEF Next, WalkAction

LEMMA SpecWalks == Spec => [](PhaseInv /\ WalkInv)
<1>1. Init => WalkInv
  <2> SUFFICES ASSUME Init PROVE WalkInv OBVIOUS
  <2>1. /\ phase = "proofs" /\ failure = "" /\ siblings = <<>> /\ at = 1
        /\ visited = Visited(<<>>, <<>>)
    BY DEF Init, Visited
  <2>2. visited.previous = <<>> /\ visited.new = <<>> BY <2>1 DEF Visited
  <2> QED BY <2>1, <2>2 DEF WalkInv, VisitedInv, Listed, FetchingInv, FirstInv, SecondInv,
                            DoneInv, FailureInv, HintsFindTheirNodes
<1>2. PhaseInv /\ WalkInv /\ [Next]_vars => WalkInv' BY StepWalks
<1> QED BY <1>1, <1>2, SpecPhases, PTL DEF Spec

(***************************************************************************)
(* The hints find their nodes (patricia.rs, patricia_guess_descents.rs):   *)
(* with proofs fetched as rpc_utils.rs does, the guess and both walks of a *)
(* contract's tree come to no missing node, and those of the class tree    *)
(* and of the tree of contracts only to a missing bottom of an edge they   *)
(* turn away from.  Before that, prove_block stops only on a contract      *)
(* without data at the block (reexecute.rs, compute_commitment), on a      *)
(* block without classes and on a tree of contracts that was empty.        *)
(***************************************************************************)
THEOREM HintsAlwaysFindNodes == Spec => []HintsFindTheirNodes
<1>1. WalkInv => HintsFindTheirNodes BY DEF WalkInv, FailureInv
<1> QED BY <1>1, SpecWalks, PTL

(***************************************************************************)
(* The two walks of the OS over the previous and the new tree come to the  *)
(* modified leaves in the order of their keys, with the old and the new    *)
(* values, and the second one finds in memory the siblings it needs, for   *)
(* every tree, every height and every set of modifications.                *)
(***************************************************************************)
THEOREM WalksAlwaysAgree == Spec => []WalksAgree
<1>1. ASSUME PhaseInv, WalkInv PROVE WalksAgree
  <2>1. IsMods(modifications) BY <1>1 DEF PhaseInv, InputsInv
  <2>2. ASSUME NEW vis, NEW T, Listed(modifications, vis, T) PROVE InOrder(vis, T)
    <3>1. CASE vis = <<>>
      <4>1. DOMAIN vis = {} BY <3>1
      <4> QED BY <4>1 DEF InOrder
    <3>2. CASE \E w : OrderInv(modifications, w) /\ Seen(vis, w.seen, T)
      BY <2>1, <3>2, SeenInOrder
    <3> QED BY <2>2, <3>1, <3>2 DEF Listed
  <2>3. InOrder(visited.previous, previous) /\ InOrder(visited.new, updated)
    BY <1>1, <2>2 DEF WalkInv, VisitedInv
  <2>4. ASSUME phase = "new" PROVE Complete(visited.previous)
    <3>1. PICK f : f = OrderWalk(previous, modifications, descent_map) OBVIOUS
    <3>2. FirstEnds(previous, modifications, descent_map, siblings, visited.previous)
      BY <1>1, <2>4 DEF WalkInv, SecondInv
    <3>3. PICK e \in Nat : f[e].stack = <<>> /\ Seen(visited.previous, f[e].seen, previous)
      BY <3>1, <3>2 DEF FirstEnds
    <3>4. InWalk(previous) /\ DOMAIN modifications # {} BY <1>1, <2>4, WalksNow
    <3>5. WalkCtx(preimage, previous, modifications, descent_map, previous) BY <3>4 DEF InWalk
    <3>6. PICK L : L = LiveSet(previous, modifications) OBVIOUS
    <3>7. OrderCtx(L, modifications, descent_map) BY <3>5, <3>6, WalkCtxIs
    <3>8. OrderInv(modifications, f[e]) BY <3>1, <3>4, <3>7, OrderAll
    <3>9. PICK w : w = f[e] OBVIOUS
    <3> QED BY <2>1, <3>3, <3>8, <3>9, SeenInOrder
  <2>5. ASSUME phase = "done"
        PROVE  Complete(visited.new) /\ (keys # <<>> => at = Len(siblings) + 1)
    <3>1. /\ DOMAIN modifications = {} \/ Through(modifications, visited.new, updated)
          /\ keys # <<>> => at = Len(siblings) + 1
      BY <1>1, <2>5 DEF WalkInv, DoneInv
    <3>2. CASE DOMAIN modifications = {} BY <3>1, <3>2 DEF Complete
    <3>3. CASE Through(modifications, visited.new, updated)
      <4>1. PICK w : /\ OrderInv(modifications, w) /\ w.stack = <<>>
                     /\ Seen(visited.new, w.seen, updated)
        BY <3>3 DEF Through
      <4>2. Complete(visited.new) BY <2>1, <4>1, SeenInOrder
      <4> QED BY <3>1, <4>2
    <3> QED BY <3>1, <3>2, <3>3
  <2> QED BY <2>3, <2>4, <2>5 DEF WalksAgree
<1> QED BY <1>1, SpecWalks, PTL

=============================================================================
