--------------------------- MODULE PatriciaNodes ---------------------------
(***************************************************************************)
(* The nodes of a Merkle-Patricia tree (starkware_utils/commitment_tree/): *)
(* facts, virtual edges, the layers a reader opens, the layers of the      *)
(* subtree that modified leaves induce, and a reference definition of the  *)
(* tree over its leaves.                                                   *)
(*                                                                         *)
(* A hash is the node it is the hash of (hashing is injective).  What the  *)
(* code computes in a loop over the layers of a tree is a recursive        *)
(* function of the number of the layer.                                    *)
(***************************************************************************)
EXTENDS Integers, Sequences, FiniteSets

CONSTANTS
    Height,      \* height of the tree
    Value,       \* leaf values, 0 for an empty leaf
    MaxMods      \* bound: modifications of one update

ASSUME NodesAssumption ==
    /\ Height \in Nat \ {0}
    /\ Value \subseteq Nat /\ 0 \in Value
    /\ MaxMods \in Nat

Pow2[n \in Nat] == IF n = 0 THEN 1 ELSE 2 * Pow2[n - 1]

\* The nodes of the layer at a depth, from left to right.
Positions(depth) == 0 .. (Pow2[depth] - 1)

Index == Positions(Height)
Tree == [Index -> Value]

-----------------------------------------------------------------------------
(***************************************************************************)
(* Facts and their hashes (nodes.rs, StorageLeaf)                          *)
(***************************************************************************)
EMPTY_NODE_HASH == [kind |-> "empty"]

LeafFact(v) == IF v = 0 THEN EMPTY_NODE_HASH ELSE [kind |-> "leaf", value |-> v]
BinaryNodeFact(l, r) == [kind |-> "binary", left |-> l, right |-> r]
EdgeNodeFact(b, p, n) ==
    [kind |-> "edge", bottom |-> b, path |-> p, length |-> n]

IsInner(hash) == hash.kind \in {"binary", "edge"}

\* A fact a tree may contain: no edge over an edge or over nothing, no binary
\* node with an empty child, a path that fits its length.
WellFormedFact(f) ==
    /\ f.kind = "edge" => /\ f.bottom.kind \in {"leaf", "binary"}
                          /\ f.length \in 1 .. Height
                          /\ f.path \in Positions(f.length)
    /\ f.kind = "binary" => EMPTY_NODE_HASH \notin {f.left, f.right}
    /\ f.kind = "leaf" => f.value \in Value \ {0}
    /\ f.kind \notin {"edge", "binary", "leaf"} => f = EMPTY_NODE_HASH

(***************************************************************************)
(* VirtualPatriciaNode: `length` bits of `path` above the subtree with     *)
(* hash `bottom`; length 0 is a node known by its hash only.               *)
(***************************************************************************)
VirtualNode(b, p, n, h) == [bottom |-> b, path |-> p, length |-> n, height |-> h]
from_hash(hash, h) == VirtualNode(hash, 0, 0, h)
empty_node(h) == from_hash(EMPTY_NODE_HASH, h)

is_empty(n) == n.bottom = EMPTY_NODE_HASH
is_virtual_edge(n) == n.length # 0
is_leaf(n) == n.height = 0

\* Mutant: the MSB of the path is not turned off.
MutantEdgeChildren(n) ==
    LET len   == n.length - 1
        child == VirtualNode(n.bottom, n.path, len, n.height - 1)
        empty == empty_node(n.height - 1)
    IN IF n.path \div Pow2[len] = 0 THEN <<child, empty>> ELSE <<empty, child>>

\* An empty node and the edge shorter by one, in the order of the path's MSB.
get_virtual_edge_node_children(n) ==
    LET len   == n.length - 1
        child == VirtualNode(n.bottom, n.path % Pow2[len], len, n.height - 1)
        empty == empty_node(n.height - 1)
    IN IF n.path \div Pow2[len] = 0 THEN <<child, empty>> ELSE <<empty, child>>

\* The facts get_children reads: a node known by its hash is opened.
ChildrenReads(n) ==
    IF is_empty(n) \/ is_virtual_edge(n) THEN {} ELSE {n.bottom}

get_children(n) ==
    IF is_empty(n) THEN <<empty_node(n.height - 1), empty_node(n.height - 1)>>
    ELSE IF is_virtual_edge(n) THEN get_virtual_edge_node_children(n)
    ELSE IF n.bottom.kind = "edge"
    THEN get_virtual_edge_node_children(
            VirtualNode(n.bottom.bottom, n.bottom.path, n.bottom.length, n.height))
    ELSE <<from_hash(n.bottom.left, n.height - 1),
           from_hash(n.bottom.right, n.height - 1)>>

\* The value of a leaf hash.
LeafValue(hash) == IF hash = EMPTY_NODE_HASH THEN 0 ELSE hash.value

(***************************************************************************)
(* The nodes get_children opens below n, by depth and position, and the    *)
(* facts that must be in storage to come to a set of leaves of the tree.   *)
(***************************************************************************)
NodeLayers(n) ==
    LET f[d \in Nat] ==
            IF d = 0 THEN [i \in {0} |-> n]
            ELSE [i \in Positions(d) |->
                     get_children(f[d - 1][i \div 2])[(i % 2) + 1]]
    IN f

LeavesReads(n, indices) ==
    LET layers == NodeLayers(n)
    IN (UNION {ChildrenReads(layers[d][leaf \div Pow2[Height - d]]) :
                  d \in 0 .. (Height - 1), leaf \in indices})
       \cup {layers[Height][leaf].bottom : leaf \in indices}

Unify(f, g) == [i \in DOMAIN f \cup DOMAIN g |->
                   IF i \in DOMAIN g THEN g[i] ELSE f[i]]

(***************************************************************************)
(* build_update_tree: the subtree the modified leaves induce, layer by     *)
(* layer from the leaves.                                                  *)
(***************************************************************************)
NoUpdate == [update |-> "none"]

\* layer.get
UpdateOf(layer, i) == IF i \in DOMAIN layer THEN layer[i] ELSE NoUpdate

ParentLayer(layer) ==
    [i \in {k \div 2 : k \in DOMAIN layer} |->
        [update |-> "tuple", left |-> UpdateOf(layer, 2 * i),
         right |-> UpdateOf(layer, 2 * i + 1)]]

UpdateLayers(mods) ==
    LET f[h \in Nat] ==
            IF h = 0
            THEN [i \in DOMAIN mods |-> [update |-> "leaf", fact |-> mods[i]]]
            ELSE ParentLayer(f[h - 1])
    IN f

build_update_tree(mods) ==
    IF DOMAIN mods = {} THEN NoUpdate ELSE UpdateLayers(mods)[Height][0]

NoNodes == [i \in {} |-> 0]

Modifications == UNION {[d -> Value] : d \in {s \in SUBSET Index :
                                                Cardinality(s) <= MaxMods}}

-----------------------------------------------------------------------------
(***************************************************************************)
(* The reference definition (patricia_utils.rs,                            *)
(* compute_patricia_from_leaves_for_test): the triple of a node and the    *)
(* facts below it, layer by layer from the leaves.                         *)
(***************************************************************************)
hash_node(n) == IF n.length = 0 THEN n.bottom
                ELSE EdgeNodeFact(n.bottom, n.path, n.length)

Subtree(n, facts) == [node |-> n, facts |-> facts]

ReferenceLeaf(v) == Subtree(from_hash(LeafFact(v), 0), {LeafFact(v)})

ReferenceNode(l, r) ==
    LET h      == l.node.height + 1
        below  == l.facts \cup r.facts
        binary == BinaryNodeFact(hash_node(l.node), hash_node(r.node))
    IN IF is_empty(l.node) /\ is_empty(r.node) THEN Subtree(empty_node(h), below)
       ELSE IF is_empty(l.node)
       THEN Subtree(VirtualNode(r.node.bottom, r.node.path + Pow2[r.node.length],
                                r.node.length + 1, h), below)
       ELSE IF is_empty(r.node)
       THEN Subtree(VirtualNode(l.node.bottom, l.node.path, l.node.length + 1, h),
                    below)
       ELSE Subtree(from_hash(binary, h),
                    below \cup {binary, hash_node(l.node), hash_node(r.node)})

ReferenceLayers(tree) ==
    LET f[h \in Nat] ==
            IF h = 0 THEN [i \in Index |-> ReferenceLeaf(tree[i])]
            ELSE [i \in Positions(Height - h) |->
                     ReferenceNode(f[h - 1][2 * i], f[h - 1][2 * i + 1])]
    IN f

Reference(tree) == ReferenceLayers(tree)[Height][0]
ReferenceRoot(tree) == hash_node(Reference(tree).node)
ReferenceFacts(tree) == Reference(tree).facts \cup {ReferenceRoot(tree)}

\* The inner nodes on the way from a root to some leaves.
PathNodes(hash, indices) ==
    {f \in LeavesReads(from_hash(hash, Height), indices) : IsInner(f)}
=============================================================================
