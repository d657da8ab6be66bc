------------------------- MODULE ContractStorageMC -------------------------
(***************************************************************************)
(* One ordinary contract with storage, one without, and the block hash     *)
(* contract; two keys, the first of which is the number of the old block.  *)
(***************************************************************************)
EXTENDS ContractStorage

CONSTANTS c1, c2, bh

\* Nothing stored yet, or the other key of c1 and of the block hash contract.
MCPreviousTrees ==
    {[a \in Address |-> [k \in Key |-> Zero]],
     [a \in Address |-> [k \in Key |-> IF k = OldBlock THEN Zero ELSE 1]]}
=============================================================================
