--------------------------- MODULE StorageProofs ---------------------------
(***************************************************************************)
(* How prove_block obtains the nodes of a tree the OS will need            *)
(* (crates/bin/prove_block/src/rpc_utils.rs, reexecute.rs, lib.rs, and     *)
(* crates/rpc-client/src/pathfinder/proofs.rs): it asks an RPC endpoint    *)
(* for proofs in chunks of keys, merges and verifies them, fetches proofs  *)
(* of further keys where a key is proved absent, and turns all nodes into  *)
(* a preimage, from hash to tuple.                                         *)
(***************************************************************************)
EXTENDS PatriciaNodes, SequencesExt

CONSTANT MAX_KEYS    \* keys of one request

ASSUME ChunkAssumption == MAX_KEYS \in Nat \ {0}

-----------------------------------------------------------------------------
(* The endpoint: the nodes from the root towards a key, up to a leaf or an *)
(* edge that leads elsewhere.                                              *)

\* Whether the edge e, with its top at height h, is on the way to a leaf.
Follows(e, h, key) == (key \div Pow2[h - e.length]) % Pow2[e.length] = e.path

\* One node further: its hash and height, and the nodes above it.
Further(s, hash, h) == [hash |-> hash, height |-> h, nodes |-> Append(s.nodes, s.hash)]

ProofStep(s, key) ==
    CASE s.hash.kind = "binary" ->
           Further(s, IF (key \div Pow2[s.height - 1]) % 2 = 0
                      THEN s.hash.left ELSE s.hash.right, s.height - 1)
      [] s.hash.kind = "edge" ->
           Further(s, IF Follows(s.hash, s.height, key)
                      THEN s.hash.bottom ELSE EMPTY_NODE_HASH, s.height - s.hash.length)
      [] OTHER -> s

ProofSteps(hash, key) ==
    LET f[k \in Nat] == IF k = 0 THEN [hash |-> hash, height |-> Height, nodes |-> <<>>]
                        ELSE ProofStep(f[k - 1], key)
    IN f

ProofPath(hash, key) == ProofSteps(hash, key)[Height].nodes

\* contract_data of a contract, None if it does not exist at that block.
NoContractData == [some |-> FALSE, root |-> EMPTY_NODE_HASH, storage_proofs |-> <<>>]

get_proof(tree, deployed, keys) ==
    IF ~deployed THEN NoContractData
    ELSE [some |-> TRUE, root |-> ReferenceRoot(tree),
          storage_proofs |-> [i \in DOMAIN keys |->
                                 ProofPath(ReferenceRoot(tree), keys[i])]]

-----------------------------------------------------------------------------
(* verify_proof.  A key is a felt of `start` unused bits and Height bits.  *)

start == 5

\* bits[from .. to] of a key, the first bit being the highest one.
Bits(key, from, to) == (key \div Pow2[start + Height - to]) % Pow2[to - from]

Verdict(kind, height) == [kind |-> kind, height |-> height]

\* One round of the loop over the nodes.  Any verdict but Ok ends it.
VerifyNode(s, node, key) ==
    LET below == s.index + node.length
    IN CASE s.verdict.kind # "Ok" -> s
         [] s.verdict.kind = "Ok" /\ node # s.parent_hash ->
              [s EXCEPT !.verdict = Verdict("InvalidChildNodeHash", 0)]
         [] s.verdict.kind = "Ok" /\ node = s.parent_hash /\ node.kind = "binary" ->
              [s EXCEPT !.parent_hash = IF Bits(key, s.index, s.index + 1) = 1
                                        THEN node.right ELSE node.left,
                        !.index = @ + 1]
         [] s.verdict.kind = "Ok" /\ node = s.parent_hash /\ node.kind # "binary" ->
              [parent_hash |-> node.bottom, index |-> below,
               verdict |-> IF node.path % Pow2[node.length] = Bits(key, s.index, below)
                           THEN s.verdict
                           ELSE Verdict("NonExistenceProof", Height - (below - start))]

VerifyNodes(key, commitment, proof) ==
    LET f[k \in Nat] ==
            IF k = 0 THEN [parent_hash |-> commitment, index |-> start,
                           verdict |-> Verdict("Ok", 0)]
            ELSE VerifyNode(f[k - 1], proof[k], key)
    IN f

verify_proof(key, commitment, proof) ==
    VerifyNodes(key, commitment, proof)[Len(proof)].verdict

-----------------------------------------------------------------------------
(* Fetching.                                                               *)

\* Mutant: the bits of the edge are put at the bottom of the key.
MutantKeyFollowingEdge(key, height, edge) ==
    key - (key % Pow2[edge.length]) + edge.path

\* The key with the bits of the edge in place of its own.
get_key_following_edge(key, height, edge) ==
    LET own == (key \div Pow2[height]) % Pow2[edge.length]
    IN key - own * Pow2[height] + edge.path * Pow2[height]

\* Mutant: later chunks are put in front.
MutantExtend(data, more) ==
    IF ~data.some THEN more
    ELSE IF ~more.some THEN data
    ELSE [data EXCEPT !.storage_proofs = more.storage_proofs \o @]

\* One round of merge_storage_proofs.
Extend(data, more) ==
    IF ~data.some THEN more
    ELSE IF ~more.some THEN data
    ELSE [data EXCEPT !.storage_proofs = @ \o more.storage_proofs]

MergedProofs(proofs) ==
    LET f[k \in Nat] == IF k = 0 THEN NoContractData ELSE Extend(f[k - 1], proofs[k])
    IN f

merge_storage_proofs(proofs) == MergedProofs(proofs)[Len(proofs)]

Chunks(keys) ==
    [c \in 1 .. ((Len(keys) + MAX_KEYS - 1) \div MAX_KEYS) |->
        SubSeq(keys, (c - 1) * MAX_KEYS + 1, Min({c * MAX_KEYS, Len(keys)}))]

fetch_storage_proof_for_contract(tree, deployed, keys) ==
    IF keys = <<>> THEN get_proof(tree, deployed, <<>>)
    ELSE merge_storage_proofs([c \in DOMAIN Chunks(keys) |->
                                  get_proof(tree, deployed, Chunks(keys)[c])])

\* ContractData::verify: the proofs are those of the keys, in this order.
Verdicts(contract_data, keys) ==
    [i \in DOMAIN keys |-> verify_proof(keys[i], contract_data.root,
                                        contract_data.storage_proofs[i])]

\* A verdict verify_storage_proof, compute_class_commitment panic on.
Panics(verdicts) == \E i \in DOMAIN verdicts :
                        verdicts[i].kind \notin {"Ok", "NonExistenceProof"}

\* An absent key whose proof ends in an edge.
EndsInEdge(contract_data, i, verdict) ==
    /\ verdict.kind = "NonExistenceProof"
    /\ Last(contract_data.storage_proofs[i]).kind = "edge"
    /\ verdict.height < Height

\* The keys to fetch as well, for the first k keys.
AdditionalKeys(contract_data, keys) ==
    LET verdicts == Verdicts(contract_data, keys)
        f[k \in Nat] ==
            IF k = 0 THEN <<>>
            ELSE IF EndsInEdge(contract_data, k, verdicts[k])
            THEN Append(f[k - 1],
                        get_key_following_edge(keys[k], verdicts[k].height,
                                               Last(contract_data.storage_proofs[k])))
            ELSE f[k - 1]
    IN f

verify_storage_proof(contract_data, keys) ==
    AdditionalKeys(contract_data, keys)[Len(keys)]

get_storage_proof_for_contract(tree, deployed, keys) ==
    LET proof      == fetch_storage_proof_for_contract(tree, deployed, keys)
        additional == IF proof.some THEN verify_storage_proof(proof, keys) ELSE <<>>
    IN IF additional = <<>> THEN proof
       ELSE merge_storage_proofs(
                <<proof,
                  fetch_storage_proof_for_contract(tree, deployed, additional)>>)

-----------------------------------------------------------------------------
(* The preimage.                                                           *)

to_tuple(node) == IF node.kind = "binary" THEN <<node.left, node.right>>
                  ELSE <<node.length, node.path, node.bottom>>

format_commitment_facts(storage_proofs) ==
    [node \in UNION {ToSet(storage_proofs[i]) : i \in DOMAIN storage_proofs} |->
        to_tuple(node)]

CommitmentInfo(previous_root, updated_root, facts) ==
    [previous_root |-> previous_root, updated_root |-> updated_root,
     commitment_facts |-> facts]

\* ProverPerContractStorage::compute_commitment, compute_class_commitment.
Commitment(previous_proof, proof) ==
    CommitmentInfo(previous_proof.root, proof.root,
                   Unify(format_commitment_facts(proof.storage_proofs),
                         format_commitment_facts(previous_proof.storage_proofs)))
=============================================================================
