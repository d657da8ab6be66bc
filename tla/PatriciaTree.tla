---------------------------- MODULE PatriciaTree ----------------------------
(***************************************************************************)
(* The Merkle-Patricia tree of the commitment tree library                 *)
(* (crates/starknet-os/src/starkware_utils/commitment_tree/), over the     *)
(* nodes of PatriciaNodes: the difference of two trees, and update(),      *)
(* which traverses the tree, combines calculations bottom-up, computes the *)
(* new facts, writes them to storage and only then returns the new root.   *)
(*                                                                         *)
(* Storage is the set of the hashes whose fact it holds.                   *)
(***************************************************************************)
EXTENDS PatriciaNodes

CONSTANTS
    MayFail,     \* whether storage may refuse a write
    USIZE_BITS   \* width of the usize that a difference keeps its path in

ASSUME PatriciaAssumption ==
    /\ MayFail \in BOOLEAN
    /\ USIZE_BITS \in Nat \ {0}

(***************************************************************************)
(* get_diff_between_trees: the leaves it reports, found by descending,     *)
(* layer by layer, where the two nodes are not the same triple.  A path is *)
(* a usize, from which `<< 1` drops the highest bit.  The result, a list   *)
(* in the code, is a set.                                                  *)
(***************************************************************************)
usize(x) == x % Pow2[USIZE_BITS]

Difference(p, c, path) == [previous |-> p, current |-> c, path |-> path]

DiffChildren(d) ==
    LET p == get_children(d.previous)
        c == get_children(d.current)
    IN {Difference(p[side], c[side], usize(2 * d.path) + side - 1) :
           side \in {s \in 1 .. 2 : p[s] # c[s]}}

DiffLayers(previous, current) ==
    LET f[d \in Nat] == IF d = 0 THEN {Difference(previous, current, 0)}
                        ELSE UNION {DiffChildren(n) : n \in f[d - 1]}
    IN f

get_diff_between_trees(previous, current) ==
    {Difference(LeafValue(d.previous.bottom), LeafValue(d.current.bottom), d.path) :
        d \in DiffLayers(previous, current)[Height]}

-----------------------------------------------------------------------------
(***************************************************************************)
(* Calculations (calculation.rs, virtual_calculation_node.rs): subtrees of *)
(* the new tree whose hashes are not computed yet.  Each holds what        *)
(* full_calculate will make of it, from what it makes of its dependencies: *)
(* its hash, and the facts of the new nodes.                               *)
(***************************************************************************)
Constant(hash) == [calc |-> "constant", hash |-> hash, facts |-> {}]

LeafCalculation(v) ==
    [calc |-> "leaf", hash |-> LeafFact(v), facts |-> {LeafFact(v)}]

BinaryCalculation(l, r) ==
    LET fact == BinaryNodeFact(l.hash, r.hash)
    IN [calc |-> "binary", hash |-> fact, facts |-> {fact} \cup l.facts \cup r.facts]

EdgeCalculation(b, p, n) ==
    LET fact == EdgeNodeFact(b.hash, p, n)
    IN [calc |-> "edge", bottom |-> b, path |-> p, length |-> n,
        hash |-> fact, facts |-> {fact} \cup b.facts]

CalcNode(c, p, n, h) == [bottom |-> c, path |-> p, length |-> n, height |-> h]
create_from_node(n) == CalcNode(Constant(n.bottom), n.path, n.length, n.height)
create_from_fact(v) == CalcNode(LeafCalculation(v), 0, 0, 0)

calc_is_empty(c) == c.calc \in {"constant", "leaf"} /\ c.hash = EMPTY_NODE_HASH

commit(n) == IF is_virtual_edge(n)
             THEN EdgeCalculation(n.bottom, n.path, n.length)
             ELSE n.bottom

\* A node of an unchanged subtree is opened to see whether it is an edge.
DecommitReads(n) ==
    IF is_leaf(n) \/ calc_is_empty(n.bottom) \/ is_virtual_edge(n)
       \/ n.bottom.calc # "constant"
    THEN {} ELSE {n.bottom.hash}

\* Mutant: an unchanged edge below is not merged.
MutantDecommit(n) ==
    IF is_leaf(n) \/ calc_is_empty(n.bottom) \/ is_virtual_edge(n) THEN n
    ELSE IF n.bottom.calc = "edge"
    THEN CalcNode(n.bottom.bottom, n.bottom.path, n.bottom.length, n.height)
    ELSE n

\* An edge at the top of n becomes its virtual edge.
decommit(n) ==
    IF is_leaf(n) \/ calc_is_empty(n.bottom) \/ is_virtual_edge(n) THEN n
    ELSE IF n.bottom.calc = "edge"
    THEN CalcNode(n.bottom.bottom, n.bottom.path, n.bottom.length, n.height)
    ELSE IF n.bottom.calc = "constant" /\ n.bottom.hash.kind = "edge"
    THEN CalcNode(Constant(n.bottom.hash.bottom), n.bottom.hash.path,
                  n.bottom.hash.length, n.height)
    ELSE n

combine_to_binary_node(left, right) ==
    CalcNode(BinaryCalculation(commit(left), commit(right)), 0, 0,
             right.height + 1)

\* Mutant: the direction bit is the lowest bit of the path, not the highest.
MutantCombineToEdge(left, right) ==
    LET left_is_empty == calc_is_empty(left.bottom)
        child == decommit(IF left_is_empty THEN right ELSE left)
    IN CalcNode(child.bottom,
                2 * child.path + (IF left_is_empty THEN 1 ELSE 0),
                child.length + 1, child.height + 1)

combine_to_virtual_edge_node(left, right) ==
    LET left_is_empty == calc_is_empty(left.bottom)
        child == decommit(IF left_is_empty THEN right ELSE left)
    IN CalcNode(child.bottom,
                child.path + (IF left_is_empty THEN Pow2[child.length] ELSE 0),
                child.length + 1, child.height + 1)

combine(left, right) ==
    IF calc_is_empty(left.bottom) /\ calc_is_empty(right.bottom)
    THEN create_from_node(empty_node(right.height + 1))
    ELSE IF ~calc_is_empty(left.bottom) /\ ~calc_is_empty(right.bottom)
    THEN combine_to_binary_node(left, right)
    ELSE combine_to_virtual_edge_node(left, right)

CombineReads(left, right) ==
    IF calc_is_empty(left.bottom) = calc_is_empty(right.bottom) THEN {}
    ELSE DecommitReads(IF calc_is_empty(left.bottom) THEN right ELSE left)

-----------------------------------------------------------------------------
(***************************************************************************)
(* update_necessary: as long as the sibling is known too, the parent       *)
(* replaces the two.  Sibling indices differ in their lowest bit.          *)
(***************************************************************************)
Sibling(i) == IF i % 2 = 0 THEN i + 1 ELSE i - 1

Merge(s) ==
    LET parent == s.index \div 2
        left   == s.nodes[2 * parent]
        right  == s.nodes[2 * parent + 1]
        rest   == DOMAIN s.nodes \ {2 * parent, 2 * parent + 1}
    IN IF Sibling(s.index) \notin DOMAIN s.nodes THEN s
       ELSE [index |-> parent,
             nodes |-> [k \in rest \cup {parent} |->
                           IF k = parent THEN combine(left, right) ELSE s.nodes[k]],
             reads |-> s.reads \cup CombineReads(left, right)]

\* The rounds of the loop.  It goes up, so it ends after Height of them.
Merges(i, nodes) ==
    LET f[k \in Nat] == IF k = 0 THEN [index |-> i, nodes |-> nodes, reads |-> {}]
                        ELSE Merge(f[k - 1])
    IN f

update_necessary(i, nodes) == Merges(i, nodes)[Height]

-----------------------------------------------------------------------------
VARIABLES
    storage,        \* hashes of the stored facts
    root,           \* root of the tree
    leaves,         \* the leaves the tree stands for
    modifications,  \* modifications of the update, index to value
    queue,          \* nodes the traversal has still to visit
    updated_nodes,  \* calculations of the subtrees that are settled
    facts,          \* the BinaryFactDict of the update
    phase           \* "idle", "traverse", "write", "commit", "done", "failed",
                    \* "missing": a fact was not found

vars == <<storage, root, leaves, modifications, queue, updated_nodes, facts,
          phase>>


\* A tree that was written completely, among others the empty leaf.
Init ==
    /\ leaves \in Tree
    /\ root = ReferenceRoot(leaves)
    /\ storage = {EMPTY_NODE_HASH} \cup ReferenceFacts(leaves)
    /\ modifications = NoNodes
    /\ queue = <<>>
    /\ updated_nodes = NoNodes
    /\ facts = {}
    /\ phase = "idle"

Begin(mods) ==
    /\ modifications' = mods
    /\ queue' = <<[index |-> 1, tree |-> from_hash(root, Height),
                   update |-> build_update_tree(mods)]>>
    /\ updated_nodes' = NoNodes
    /\ facts' = {}
    /\ phase' = "traverse"
    /\ UNCHANGED <<storage, root, leaves>>

\* update() is called; after a failure the caller may try the same again.
Update(mods) == phase = "idle" /\ Begin(mods)
Retry == phase = "failed" /\ Begin(modifications)

\* A fact could not be read: update() returns the error.
Missing == /\ phase' = "missing"
           /\ UNCHANGED <<storage, root, leaves, modifications, queue,
                          updated_nodes, facts>>

\* Mutant: the right child is dropped when nothing below it changes.
MutantChildren(n) ==
    LET children == get_children(n.tree)
    IN <<[index |-> 2 * n.index, tree |-> children[1], update |-> n.update.left]>>
       \o (IF n.update.right = NoUpdate THEN <<>>
           ELSE <<[index |-> 2 * n.index + 1, tree |-> children[2],
                   update |-> n.update.right]>>)

Children(n) ==
    LET children == get_children(n.tree)
    IN <<[index |-> 2 * n.index, tree |-> children[1], update |-> n.update.left],
         [index |-> 2 * n.index + 1, tree |-> children[2],
          update |-> n.update.right]>>

\* update_if_possible, set_fact: a settled node, then what follows from it.
Settle(n) ==
    LET node == IF n.update = NoUpdate THEN create_from_node(n.tree)
                ELSE create_from_fact(n.update.fact)
        nodes == [i \in DOMAIN updated_nodes \cup {n.index} |->
                     IF i = n.index THEN node ELSE updated_nodes[i]]
    IN update_necessary(n.index, nodes)

\* One round of traverse_tree: pop_front, get_children, push_back.
Visit ==
    /\ phase = "traverse" /\ queue # <<>>
    /\ LET n == Head(queue)
       IN IF n.update.update = "tuple"
          THEN IF ChildrenReads(n.tree) \subseteq storage
               THEN /\ queue' = Tail(queue) \o Children(n)
                    /\ facts' = facts \cup ChildrenReads(n.tree)
                    /\ UNCHANGED <<storage, root, leaves, modifications,
                                   updated_nodes, phase>>
               ELSE Missing
          ELSE LET settled == Settle(n)
               IN IF settled.reads \subseteq storage
                  THEN /\ queue' = Tail(queue)
                       /\ updated_nodes' = settled.nodes
                       /\ facts' = facts \cup settled.reads
                       /\ UNCHANGED <<storage, root, leaves, modifications, phase>>
                  ELSE Missing

\* The traversal is over: the calculation of the root is taken out.
EndTraversal ==
    /\ phase = "traverse" /\ queue = <<>>
    /\ phase' = "write"
    /\ UNCHANGED <<storage, root, leaves, modifications, queue, updated_nodes,
                   facts>>

\* Mutant: only the inner nodes are written.
MutantWritten(new) == {f \in new : IsInner(f)}

\* What a complete write_fact_nodes stores.
Written(new) == new

\* write_fact_nodes: the inner nodes, then the leaves.  A write that fails
\* leaves some of them behind and ends the update.
WriteFactNodes ==
    /\ phase = "write"
    /\ LET new   == updated_nodes[1].bottom.facts
           inner == {f \in new : IsInner(f)}
       IN \/ /\ storage' = storage \cup Written(new)
             /\ facts' = facts \cup inner
             /\ phase' = "commit"
          \/ /\ MayFail
             /\ \E stored \in SUBSET new :
                   /\ stored # new
                   /\ stored \subseteq inner \/ inner \subseteq stored
                   /\ storage' = storage \cup stored
             /\ phase' = "failed"
             /\ UNCHANGED facts
    /\ UNCHANGED <<root, leaves, modifications, queue, updated_nodes>>

\* Mutant: the edge at the root is not written.
MutantCommitted(hash) == {}

\* The facts commit() writes: the virtual edge at the root.
Committed(hash) == {hash}

\* commit() of the new root, and update() returns it.
Commit ==
    /\ phase = "commit"
    /\ LET n    == updated_nodes[1]
           hash == commit(n).hash
           new  == IF is_virtual_edge(n) THEN Committed(hash) ELSE {}
       IN \/ /\ storage' = storage \cup new
             /\ facts' = facts \cup new
             /\ root' = hash
             /\ leaves' = Unify(leaves, modifications)
             /\ phase' = "done"
          \/ /\ MayFail /\ is_virtual_edge(n)
             /\ phase' = "failed"
             /\ UNCHANGED <<storage, facts, root, leaves>>
    /\ UNCHANGED <<modifications, queue, updated_nodes>>

Next == \/ \E mods \in Modifications : Update(mods)
        \/ Retry \/ Visit \/ EndTraversal \/ WriteFactNodes \/ Commit

Spec == Init /\ [][Next]_vars

-----------------------------------------------------------------------------
(***************************************************************************)
(* Every fact that ever reaches storage, also one left behind by a failed  *)
(* update, is one a tree may contain.                                      *)
(***************************************************************************)
StoredFactsWellFormed == \A f \in storage : WellFormedFact(f)

(***************************************************************************)
(* The new root is the root the reference definition computes from all the *)
(* leaves, whatever was there before: edges are always merged and split.   *)
(***************************************************************************)
RootIsCanonical == root = ReferenceRoot(leaves)

(***************************************************************************)
(* At every moment, during an update and after one that failed half way,   *)
(* all leaves of the current root can be read from storage.                *)
(***************************************************************************)
TreeStaysReadable ==
    /\ LeavesReads(from_hash(root, Height), Index) \subseteq storage
    /\ \A leaf \in Index :
          LeafValue(NodeLayers(from_hash(root, Height))[Height][leaf].bottom)
          = leaves[leaf]
    /\ phase # "missing"

(***************************************************************************)
(* The queue and updated_nodes always split the tree: every leaf is under  *)
(* exactly one of their nodes.  So the traversal ends with one node, the   *)
(* root, in updated_nodes ("the updated_nodes dictionary cleans itself").  *)
(***************************************************************************)
Under(i, h) == LET position == i - Pow2[Height - h]
               IN (position * Pow2[h]) .. ((position + 1) * Pow2[h] - 1)

FrontierSplitsTree ==
    phase \in {"traverse", "write", "commit"} =>
        /\ \A leaf \in Index :
              Cardinality({q \in DOMAIN queue :
                              leaf \in Under(queue[q].index, queue[q].tree.height)})
              + Cardinality({i \in DOMAIN updated_nodes :
                                leaf \in Under(i, updated_nodes[i].height)}) = 1
        /\ queue = <<>> => DOMAIN updated_nodes = {1}

(***************************************************************************)
(* The facts returned with an update let a reader who knows nothing else   *)
(* walk from the old and from the new root to every modified leaf.         *)
(***************************************************************************)
UpdateReturnsItsFacts ==
    [][phase' = "done" =>
        PathNodes(root, DOMAIN modifications) \cup
        PathNodes(root', DOMAIN modifications) \subseteq facts']_vars

(***************************************************************************)
(* The difference of the old and the new tree has every leaf that changed, *)
(* with its old and its new value, and nothing else: an edge known by its  *)
(* hash and the same edge as a triple are not taken for different trees.   *)
(* A leaf is named by the low USIZE_BITS bits of its index, which is the   *)
(* index only in trees that are no higher than that.                       *)
(***************************************************************************)
DiffFindsChanges ==
    [][phase' = "done" =>
        get_diff_between_trees(from_hash(root, Height), from_hash(root', Height))
        = {Difference(leaves[i], leaves'[i], usize(i)) :
              i \in {j \in Index : leaves[j] # leaves'[j]}}]_vars
=============================================================================
