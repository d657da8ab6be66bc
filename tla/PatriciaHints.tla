--------------------------- MODULE PatriciaHints ---------------------------
(***************************************************************************)
(* The hints with which the OS verifies the update of a tree               *)
(* (crates/starknet-os/src/hints/patricia.rs, state.rs, execution.rs) and  *)
(* the descents they guess (patricia_guess_descents.rs), on a preimage     *)
(* fetched as in StorageProofs.                                            *)
(*                                                                         *)
(* The OS walks the previous and the new tree along the modified leaves.   *)
(* The siblings of these paths are written to memory by the first walk and *)
(* must be the same in the second; long stretches with nothing beside them *)
(* in either tree are crossed at once, by a descent.  The walk itself is   *)
(* Cairo code (patricia.cairo); it is driven here as the hints expect.     *)
(***************************************************************************)
EXTENDS StorageProofs

CONSTANT MaxLeaves    \* bound: leaves of the previous tree

ASSUME LeavesAssumption == MaxLeaves \in Nat

-----------------------------------------------------------------------------
(***************************************************************************)
(* patricia_guess_descents.rs.  A triplet is a length, a word and a hash;  *)
(* the empty triplet also stands for a missing tree.                       *)
(***************************************************************************)
Triplet(length, word, hash) == [length |-> length, word |-> word, hash |-> hash]
empty_triplet == Triplet(0, 0, EMPTY_NODE_HASH)

canonic(preimage, hash) ==
    IF hash \in DOMAIN preimage /\ Len(preimage[hash]) = 3
    THEN Triplet(preimage[hash][1], preimage[hash][2], preimage[hash][3])
    ELSE Triplet(0, 0, hash)

\* get_children finds the preimage of a node that is not an edge.
CanOpen(preimage, t) ==
    t.length = 0 /\ t.hash # EMPTY_NODE_HASH => t.hash \in DOMAIN preimage

PreimageChildren(preimage, t) ==
    IF t = empty_triplet THEN <<empty_triplet, empty_triplet>>
    ELSE IF t.length = 0
    THEN <<canonic(preimage, preimage[t.hash][1]),
           canonic(preimage, preimage[t.hash][2])>>
    ELSE LET top == Pow2[t.length - 1]
         IN IF t.word \div top = 0
            THEN <<Triplet(t.length - 1, t.word, t.hash), empty_triplet>>
            ELSE <<empty_triplet, Triplet(t.length - 1, t.word - top, t.hash)>>

\* A node of the update, the previous and the new tree, at its place.
Place(height, path, trees) == [height |-> height, path |-> path, trees |-> trees]

\* The loop of get_descents opens the three trees.
CanDescend(preimage, s) ==
    /\ s.trees[1].update = "tuple"
    /\ CanOpen(preimage, s.trees[2]) /\ CanOpen(preimage, s.trees[3])

Left(preimage, s) ==
    Place(s.height - 1, 2 * s.path,
          <<s.trees[1].left, PreimageChildren(preimage, s.trees[2])[1],
            PreimageChildren(preimage, s.trees[3])[1]>>)

Right(preimage, s) ==
    Place(s.height - 1, 2 * s.path + 1,
          <<s.trees[1].right, PreimageChildren(preimage, s.trees[2])[2],
            PreimageChildren(preimage, s.trees[3])[2]>>)

\* No tree has anything at this place.
Nothing(s) == s.trees = <<NoUpdate, empty_triplet, empty_triplet>>

\* One round of the loop: the three trees go down one way.
StretchStep(preimage, s) ==
    IF s.height = 0 \/ ~CanDescend(preimage, s) THEN s
    ELSE IF Nothing(Left(preimage, s)) THEN Right(preimage, s)
    ELSE IF Nothing(Right(preimage, s)) THEN Left(preimage, s)
    ELSE s

Stretches(preimage, s) ==
    LET f[k \in Nat] == IF k = 0 THEN s ELSE StretchStep(preimage, f[k - 1])
    IN f

\* Where the loop ends.
Stretch(preimage, s) == Stretches(preimage, s)[s.height]

\* Mutant: the word is the whole path from the root.
MutantDescent(s, stop) == <<s.height - stop.height, stop.path>>

\* The descent from a place to where the loop ends.
Descent(s, stop) == LET length == s.height - stop.height
                    IN <<length, stop.path % Pow2[length]>>

\* get_descents is called again for both sides of where the loop ends.
ReturnsAtOnce(s) == s.trees[1] = NoUpdate \/ s.height = 0

Below(preimage, s) ==
    LET stop == Stretch(preimage, s)
    IN IF ReturnsAtOnce(s) \/ stop.height = 0 \/ ~CanDescend(preimage, stop) THEN {}
       ELSE {Left(preimage, stop), Right(preimage, stop)}

Calls(preimage, s) ==
    LET f[k \in Nat] == IF k = 0 THEN {s}
                        ELSE UNION {Below(preimage, c) : c \in f[k - 1]}
    IN f

get_descents(preimage, s) ==
    LET calls == {c \in UNION {Calls(preimage, s)[k] : k \in 0 .. s.height} :
                     ~ReturnsAtOnce(c)}
        stop  == [c \in calls |-> Stretch(preimage, c)]
        long  == {c \in calls : c.height - stop[c].height > 1}
        begin(c) == <<c.height, c.path>>
    IN [ok  |-> \A c \in calls : stop[c].height = 0 \/ CanDescend(preimage, stop[c]),
        map |-> [start_node \in {begin(c) : c \in long} |->
                    LET c == CHOOSE c \in long : begin(c) = start_node
                    IN Descent(c, stop[c])]]

patricia_guess_descents(preimage, update, prev_root, new_root) ==
    get_descents(preimage, Place(Height, 0, <<update, canonic(preimage, prev_root),
                                              canonic(preimage, new_root)>>))

-----------------------------------------------------------------------------
(* The update tree in the scope of a hint.                                 *)

\* decode_node, and the child of the case when there is only one.
Case(u) == CASE u.right = NoUpdate -> "left"
             [] u.left = NoUpdate  -> "right"
             [] OTHER              -> "both"

OnlyChild(u) == IF Case(u) = "left" THEN u.left ELSE u.right
CaseBit(u) == IF Case(u) = "right" THEN 1 ELSE 0

\* enter_scope_descend_edge: NoUpdate where it finds no node to go on from.
DescendStep(u, bit) ==
    IF u.update # "tuple" THEN NoUpdate ELSE IF bit = 1 THEN u.right ELSE u.left

DescendSteps(u, length, word) ==
    LET f[k \in Nat] == IF k = 0 THEN u
                        ELSE DescendStep(f[k - 1], (word \div Pow2[length - k]) % 2)
    IN f

DescendUpdate(u, length, word) == DescendSteps(u, length, word)[length]

-----------------------------------------------------------------------------
VARIABLES
    previous,       \* leaves of the tree before the block
    deployed,       \* whether the contract existed before the block
    exists,         \* whether it exists at the block
    modifications,  \* the leaves the block accesses, with their new values
    mode,           \* "State": a contract's storage, "Contracts": the tree of
                    \* contracts, "Class": the class tree
    keys,           \* the accessed keys, in the order they are asked for
    proof,          \* storage or class proof at the block
    previous_proof, \* the one at the block before
    commitment,     \* the CommitmentInfo given to the OS
    descent_map,    \* DESCENT_MAP of the hint's scope
    scopes,         \* the nodes still to walk, each with the NODE of its scope
    siblings, at,   \* the siblings in memory, and the place of the walk in them
    visited,        \* by walk, the leaves it came to
    phase,          \* what prove_block and then the OS does next
    failure         \* the error it stopped with

vars == <<previous, deployed, exists, modifications, mode, keys, proof,
          previous_proof, commitment, descent_map, scopes, siblings, at, visited,
          phase, failure>>

inputs == <<previous, deployed, exists, modifications, mode, keys>>
fetched == <<proof, previous_proof, commitment>>
walk == <<scopes, siblings, at, visited>>

updated == Unify(previous, modifications)
preimage == commitment.commitment_facts

\* No leaf of these trees is taken away.  A class is declared once and keeps
\* its value; contracts are accessed in every block, the block hash contract
\* at least, and one that is not there yet has stopped prove_block before.
ClassUpdate(tree, mods) ==
    \A k \in DOMAIN mods : mods[k] # 0 /\ tree[k] \in {0, mods[k]}

ContractsUpdate(mods) ==
    DOMAIN mods # {} /\ \A k \in DOMAIN mods : mods[k] # 0

Init ==
    /\ previous \in {t \in Tree : Cardinality({i \in Index : t[i] # 0}) <= MaxLeaves}
    /\ modifications \in Modifications
    /\ mode \in {"State", "Contracts", "Class"}
    /\ mode = "Class" => ClassUpdate(previous, modifications)
    /\ mode = "Contracts" => ContractsUpdate(modifications)
    /\ deployed \in BOOLEAN /\ exists \in BOOLEAN
    /\ ~deployed => mode = "State" /\ \A i \in Index : previous[i] = 0
    /\ ~exists => ~deployed /\ \A i \in Index : updated[i] = 0
    /\ keys \in SetToSeqs(DOMAIN modifications)
    /\ proof = NoContractData /\ previous_proof = NoContractData
    /\ commitment = CommitmentInfo(EMPTY_NODE_HASH, EMPTY_NODE_HASH, NoNodes)
    /\ descent_map = NoNodes
    /\ scopes = <<>> /\ siblings = <<>> /\ at = 1
    /\ visited = [previous |-> <<>>, new |-> <<>>]
    /\ phase = "proofs" /\ failure = ""

Fail(error) ==
    /\ phase' = "failed" /\ failure' = error
    /\ UNCHANGED <<inputs, fetched, descent_map, walk>>

\* The proof of a tree: with further keys for a contract's storage, as is for
\* the contracts (contract_proof) and for classes.
TreeProof(tree, there) ==
    IF mode = "State" THEN get_storage_proof_for_contract(tree, there, keys)
    ELSE get_proof(tree, there, keys)

\* What stops prove_block: a proof that does not verify (those of contracts
\* are not looked at), previous_class_proofs[0] of no proofs.
Refuses(p) ==
    \/ mode # "Contracts" /\ p.some /\ Panics(Verdicts(p, keys))
    \/ mode = "Class" /\ keys = <<>>

\* get_storage_proofs, get_class_proofs at the block.
GetProofs ==
    /\ phase = "proofs"
    /\ LET p == TreeProof(updated, exists)
       IN IF Refuses(p) THEN Fail("panic")
          ELSE /\ proof' = p
               /\ phase' = "previous_proofs"
               /\ UNCHANGED <<inputs, previous_proof, commitment, descent_map,
                              walk, failure>>

\* The same at the block before.
GetPreviousProofs ==
    /\ phase = "previous_proofs"
    /\ LET p == TreeProof(previous, deployed)
       IN IF Refuses(p) THEN Fail("panic")
          ELSE /\ previous_proof' = p
               /\ phase' = "commitment"
               /\ UNCHANGED <<inputs, proof, commitment, descent_map, walk, failure>>

\* The root of the tree of contracts is the hash of contract_proof[0], which
\* an empty tree does not have.
NoFirstNode == EMPTY_NODE_HASH \in {previous_proof.root, proof.root}

\* compute_commitment, then the hint that sets the preimage.  It expects the
\* contract to have data at the block; get_class_hash_at has returned an error
\* before if it has not, but is not called for the contracts 0x0 and 0x1.
SetPreimage ==
    /\ phase = "commitment"
    /\ IF ~proof.some THEN Fail("no contract_data")
       ELSE IF mode = "Contracts" /\ NoFirstNode THEN Fail("panic")
       ELSE /\ commitment' = Commitment(previous_proof, proof)
            /\ phase' = IF keys = <<>> THEN "done" ELSE "descents"
            /\ UNCHANGED <<inputs, proof, previous_proof, descent_map, walk, failure>>

\* A node to walk: where it is, what is known of it, the NODE of its scope.
Scope(node, path, update) == [node |-> node, path |-> path, update |-> update]

\* build_descent_map, and the scope of the root of the previous tree.
build_descent_map ==
    /\ phase = "descents"
    /\ LET update == build_update_tree(modifications)
           guess  == patricia_guess_descents(preimage, update,
                         commitment.previous_root, commitment.updated_root)
       IN IF ~guess.ok THEN Fail("Key not found in preimage")
          ELSE /\ descent_map' = guess.map
               /\ scopes' = <<Scope(from_hash(commitment.previous_root, Height),
                                    0, update)>>
               /\ phase' = "previous"
               /\ UNCHANGED <<inputs, fetched, siblings, at, visited, failure>>

-----------------------------------------------------------------------------
(* The walk.                                                               *)

Walking == phase \in {"previous", "new"} /\ scopes # <<>>

\* Memory is written once, by the first walk.
MayWrite(sibling) ==
    phase = "new" => at \in DOMAIN siblings /\ siblings[at] = sibling

\* Leave the scope of the node for those of `below`, writing what is beside.
Enter(below, beside) ==
    IF \A i \in DOMAIN beside : MayWrite(beside[i])
    THEN /\ scopes' = below \o Tail(scopes)
         /\ siblings' = IF phase = "previous" THEN siblings \o beside ELSE siblings
         /\ at' = at + Len(beside)
         /\ UNCHANGED <<inputs, fetched, descent_map, visited, phase, failure>>
    ELSE Fail("siblings")

\* A leaf: the next modification has its key and its value.
WalkLeaf ==
    /\ Walking /\ Head(scopes).node.height = 0
    /\ LET s == Head(scopes)
       IN /\ visited' = [visited EXCEPT ![phase] =
                            Append(@, <<s.path, LeafValue(s.node.bottom)>>)]
          /\ scopes' = Tail(scopes)
          /\ UNCHANGED <<inputs, fetched, descent_map, siblings, at, phase, failure>>

\* height_is_zero_or_len_node_preimage_is_two, load_edge: a node known by its
\* hash whose preimage is a triple is an edge.
LoadEdge ==
    /\ Walking
    /\ LET s == Head(scopes)
           n == s.node
       IN /\ n.height > 0 /\ ~is_empty(n) /\ ~is_virtual_edge(n)
          /\ IF n.bottom \notin DOMAIN preimage THEN Fail("No preimage found for node")
             ELSE /\ Len(preimage[n.bottom]) = 3
                  /\ LET edge == preimage[n.bottom]
                     IN Enter(<<Scope(VirtualNode(edge[3], edge[2], edge[1], n.height),
                                      s.path, s.update)>>, <<>>)

\* Mutant: the right child is entered first.
MutantBothChildren(s, left, right) ==
    <<Scope(right, 2 * s.path + 1, s.update.right),
      Scope(left, 2 * s.path, s.update.left)>>

\* Scopes of the two children, in the order of their keys.
BothChildren(s, left, right) ==
    <<Scope(left, 2 * s.path, s.update.left),
      Scope(right, 2 * s.path + 1, s.update.right)>>

\* prepare_preimage_validation_non_deterministic_hashes: a binary node.
WalkBinary ==
    /\ Walking
    /\ LET s == Head(scopes)
           n == s.node
       IN /\ n.height > 0 /\ ~is_empty(n) /\ ~is_virtual_edge(n)
          /\ n.bottom \in DOMAIN preimage /\ Len(preimage[n.bottom]) = 2
          /\ LET left  == from_hash(preimage[n.bottom][1], n.height - 1)
                 right == from_hash(preimage[n.bottom][2], n.height - 1)
             IN IF s.update = NoUpdate THEN Fail("'node' should not be None")
                ELSE CASE Case(s.update) = "both" ->
                            Enter(BothChildren(s, left, right), <<>>)
                       [] Case(s.update) = "left" ->
                            Enter(<<Scope(left, 2 * s.path, s.update.left)>>,
                                  <<right.bottom>>)
                       [] Case(s.update) = "right" ->
                            Enter(<<Scope(right, 2 * s.path + 1, s.update.right)>>,
                                  <<left.bottom>>)

\* set_ap_to_descend finds a descent: split_descend, enter_scope_descend_edge.
\* On an edge the word has to be the way of the edge.
WalkDescent ==
    /\ Walking
    /\ LET s == Head(scopes)
           n == s.node
           start_node == <<n.height, s.path>>
       IN /\ n.height > 0 /\ (is_empty(n) \/ is_virtual_edge(n))
          /\ start_node \in DOMAIN descent_map
          /\ LET length == descent_map[start_node][1]
                 word   == descent_map[start_node][2]
                 rest   == n.length - length
                 below  == DescendUpdate(s.update, length, word)
                 enter(node) == Enter(<<Scope(node, s.path * Pow2[length] + word, below)>>,
                                      <<[descent |-> length]>>)
             IN IF below = NoUpdate THEN Fail("Expected a node")
                ELSE IF is_empty(n) THEN enter(empty_node(n.height - length))
                ELSE IF rest < 0 THEN Fail("word")
                ELSE IF n.path \div Pow2[rest] # word THEN Fail("word")
                ELSE enter(VirtualNode(n.bottom, n.path % Pow2[rest], rest,
                                       n.height - length))

NoDescent(s) == <<s.node.height, s.path>> \notin DOMAIN descent_map

\* The hash of what is left of an edge.
EdgeHash(e) == IF e.length = 0 THEN e.bottom
               ELSE EdgeNodeFact(e.bottom, e.path, e.length)

\* load_bottom finds the two children of the bottom of an edge.
load_bottom(bottom) == bottom \in DOMAIN preimage /\ Len(preimage[bottom]) >= 2

\* One step on an edge (set_bit, decode_node, is_case_right): on along the
\* edge, away from it, or both.  Where the walk turns away from the last bit
\* of an edge, load_bottom shows that its bottom is not an edge again.
WalkEdge ==
    /\ Walking
    /\ LET s == Head(scopes)
           n == s.node
           new_length == n.length - 1
           bit  == (n.path \div Pow2[new_length]) % 2
           rest == VirtualNode(n.bottom, n.path % Pow2[new_length], new_length,
                               n.height - 1)
           none == empty_node(n.height - 1)
       IN /\ is_virtual_edge(n) /\ NoDescent(s)
          /\ IF s.update = NoUpdate THEN Fail("'node' should not be None")
             ELSE LET below == Scope(IF CaseBit(s.update) = bit THEN rest ELSE none,
                                     2 * s.path + CaseBit(s.update),
                                     OnlyChild(s.update))
                  IN CASE Case(s.update) = "both" ->
                            Enter(IF bit = 0 THEN BothChildren(s, rest, none)
                                             ELSE BothChildren(s, none, rest), <<>>)
                       [] Case(s.update) # "both" /\ CaseBit(s.update) = bit ->
                            Enter(<<below>>, <<EMPTY_NODE_HASH>>)
                       [] Case(s.update) # "both" /\ CaseBit(s.update) # bit ->
                            IF new_length = 0 /\ rest.height > 0 /\ ~load_bottom(n.bottom)
                            THEN Fail("Edge bottom not found in preimage")
                            ELSE Enter(<<below>>, <<EdgeHash(rest)>>)

\* One step where the tree has nothing (decode_node, enter_scope_new_node).
WalkEmpty ==
    /\ Walking
    /\ LET s == Head(scopes)
           n == s.node
           none == empty_node(n.height - 1)
       IN /\ n.height > 0 /\ is_empty(n) /\ NoDescent(s)
          /\ IF s.update = NoUpdate THEN Fail("'node' should not be None")
             ELSE IF Case(s.update) = "both"
             THEN Enter(BothChildren(s, none, none), <<>>)
             ELSE Enter(<<Scope(none, 2 * s.path + CaseBit(s.update),
                                OnlyChild(s.update))>>, <<EMPTY_NODE_HASH>>)

\* All scopes are left: the walk of the new tree follows.
EndWalk ==
    /\ phase \in {"previous", "new"} /\ scopes = <<>>
    /\ IF phase = "previous"
       THEN /\ scopes' = <<Scope(from_hash(commitment.updated_root, Height), 0,
                                 build_update_tree(modifications))>>
            /\ at' = 1
            /\ phase' = "new"
       ELSE /\ phase' = "done"
            /\ UNCHANGED <<scopes, at>>
    /\ UNCHANGED <<inputs, fetched, descent_map, siblings, visited, failure>>

\* prove_block has panicked or the update is verified.
Stopped == phase \in {"done", "failed"} /\ UNCHANGED vars

Next ==
    \/ GetProofs \/ GetPreviousProofs \/ SetPreimage \/ build_descent_map
    \/ WalkLeaf \/ LoadEdge \/ WalkBinary \/ WalkDescent \/ WalkEdge \/ WalkEmpty
    \/ EndWalk \/ Stopped

Spec == Init /\ [][Next]_vars

-----------------------------------------------------------------------------
(***************************************************************************)
(* Proofs stay with their keys through chunking and merging, and the gap   *)
(* behind the last edge of a proof is filled: the fetched nodes of a       *)
(* contract contain the bottom of each edge on the way to a key, also of   *)
(* one that leads away from the key.                                       *)
(***************************************************************************)
ProofsFollowKeys ==
    \A p \in {proof, previous_proof} :
        p.some =>
            /\ \A i \in DOMAIN keys :
                  p.storage_proofs[i] = ProofPath(p.root, keys[i])
            /\ mode = "State" =>
                  \A i \in DOMAIN keys : \A e \in ToSet(p.storage_proofs[i]) :
                     e.kind = "edge" /\ IsInner(e.bottom) =>
                        e.bottom \in DOMAIN format_commitment_facts(p.storage_proofs)

(***************************************************************************)
(* With proofs fetched this way, no hint of a contract's tree fails: every *)
(* node the guess and both walks look up is in the preimage, every scope   *)
(* has a node.  What does fail: a contract that has no data at the block,  *)
(* the first proof of a block without classes, the first node of an empty  *)
(* tree of contracts; and these two trees get no further keys, so that the *)
(* bottom of an edge may be missing there when a leaf is added.            *)
(***************************************************************************)
HintsFindTheirNodes ==
    failure # "" =>
        \/ mode = "State" /\ failure = "no contract_data" /\ ~exists
        \/ mode = "Class" /\ failure = "panic" /\ keys = <<>>
        \/ mode = "Contracts" /\ failure = "panic" /\ \A i \in Index : previous[i] = 0
        \/ /\ mode # "State" /\ failure = "Edge bottom not found in preimage"
           /\ \E k \in DOMAIN modifications : previous[k] = 0

\* The leaves of the three trees: those of the new one are among the others.
Live == {i \in Index : previous[i] # 0} \cup DOMAIN modifications

LiveUnder(h, i) == {leaf \in Live : leaf \div Pow2[h] = i}

PartsAt(h, i) == LiveUnder(h - 1, 2 * i) # {} /\ LiveUnder(h - 1, 2 * i + 1) # {}

\* Where the leaves under a place part, or the leaf where they do not.
Parting(h, i) ==
    LET under == LiveUnder(h, i)
    IN CHOOSE p \in {<<k, leaf \div Pow2[k]>> : k \in 0 .. h, leaf \in under} :
          LiveUnder(p[1], p[2]) = under /\ (p[1] = 0 \/ PartsAt(p[1], p[2]))

ReferenceDescents ==
    LET starts == {s \in (1 .. Height) \X Index :
                      /\ \E m \in DOMAIN modifications : m \div Pow2[s[1]] = s[2]
                      /\ s[1] = Height \/ PartsAt(s[1] + 1, s[2] \div 2)
                      /\ s[1] - Parting(s[1], s[2])[1] > 1}
    IN [s \in starts |->
           LET p == Parting(s[1], s[2])
           IN <<s[1] - p[1], p[2] - s[2] * Pow2[s[1] - p[1]]>>]

(***************************************************************************)
(* get_descents finds the descents that follow from the leaves alone: from *)
(* the root, or below a node where leaves of the three trees part, down to *)
(* where they part again, if that is more than one step.                   *)
(***************************************************************************)
DescentsAreMaximal ==
    phase \in {"previous", "new"} => descent_map = ReferenceDescents

\* A walk has come to the modified leaves up to some key, one after the other.
InOrder(seen, tree) ==
    /\ \A n \in DOMAIN seen : \E k \in DOMAIN modifications : seen[n] = <<k, tree[k]>>
    /\ \A m, n \in DOMAIN seen : m < n => seen[m][1] < seen[n][1]
    /\ \A k \in DOMAIN modifications : \A n \in DOMAIN seen :
          k < seen[n][1] => \E m \in DOMAIN seen : seen[m][1] = k

Complete(seen) == \A k \in DOMAIN modifications : \E n \in DOMAIN seen : seen[n][1] = k

(***************************************************************************)
(* The two walks come to exactly the modified leaves, in the order of the  *)
(* keys, the first with the old and the second with the new values; what   *)
(* the second needs of the siblings is what the first wrote.               *)
(***************************************************************************)
WalksAgree ==
    /\ InOrder(visited.previous, previous)
    /\ InOrder(visited.new, updated)
    /\ phase = "new" => Complete(visited.previous)
    /\ phase = "done" => /\ Complete(visited.new)
                         /\ keys # <<>> => at = Len(siblings) + 1
=============================================================================
