--------------------------- MODULE PatriciaTreeMC ---------------------------
(***************************************************************************)
(* get_leaves as the code computes it, by recursion over the nodes, beside *)
(* the layers of PatriciaNodes that the other properties read.             *)
(***************************************************************************)
EXTENDS PatriciaTree

\* Mutant: the index is left relative to the subtree.
MutantShift(below, by) == below

\* unify_edge_leaves, unify_binary_leaves: the indices of a subtree, from
\* the first leaf of the tree.
Shift(below, by) == [i \in {j + by : j \in DOMAIN below} |-> below[i - by]]

RECURSIVE get_leaves(_, _)
get_leaves(n, indices) ==
    IF is_empty(n) THEN [i \in indices |-> 0]
    ELSE IF is_leaf(n) THEN [i \in indices |-> LeafValue(n.bottom)]
    ELSE IF is_virtual_edge(n)
    THEN LET width  == n.height - n.length
             prefix == n.path * Pow2[width]
             below  == {i \in indices : i \div Pow2[width] = n.path}
             bottom == get_leaves(from_hash(n.bottom, width),
                                  {i - prefix : i \in below})
         IN Unify([i \in indices \ below |-> 0], Shift(bottom, prefix))
    ELSE LET mid      == Pow2[n.height - 1]
             left     == {i \in indices : i < mid}
             children == get_children(n)
         IN Unify(get_leaves(children[1], left),
                  Shift(get_leaves(children[2], {i - mid : i \in indices \ left}),
                        mid))

(***************************************************************************)
(* Whatever leaves are asked for, get_leaves() has their current values:   *)
(* skipping the leaves beside an edge gives what opening every layer does. *)
(***************************************************************************)
LeavesAreRead ==
    \A indices \in {DOMAIN modifications, Index \ DOMAIN modifications} :
        get_leaves(from_hash(root, Height), indices) = [i \in indices |-> leaves[i]]
=============================================================================
