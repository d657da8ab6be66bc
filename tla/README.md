# A TLA+ development of SNOS

SNOS runs the Starknet OS, a Cairo program that proves the execution of a block,
in the Cairo VM. A block has been executed before (by blockifier); SNOS supplies,
through hints, everything the OS needs to go through that execution again: which
call comes next, what a syscall answers, what a storage slot held, which nodes of
the state tries open a commitment. The OS itself is fixed and proves whatever it
is fed, so what SNOS must get right is **agreement**: each answer must be the one
of the execution being replayed, in the order in which the OS asks, and each
commitment must be to the state that execution ended in. A disagreement shows up
as a panic or a failed hint minutes into a run, or as a proof of nothing useful.

All paths below are relative to `src/crates/starknet-os/src/` unless they start
with `crates/`.

## 1. Inventory

### Components

| Component | State | Operations | Uses |
|---|---|---|---|
| Execution helper (`execution/helper.rs`) | iterators over recorded transactions, calls, results, deployed addresses, reads; current transaction and call; storages by address | `start_tx`, `end_tx`, `skip_tx`, `enter_call`, `exit_call`, `skip_call`, `read/write_storage_for_address`, `compute_storage_commitments` | contract storage |
| Syscall handler (`execution/syscall_handler*.rs`, `secp_handler.rs`) | syscall pointer; secp processors and segments; SHA-256 segment | `set_syscall_ptr`, `execute_syscall` (23 handlers), `validate_and_discard_syscall_ptr` | execution helper, VM memory |
| Deprecated syscall handler (`execution/deprecated_syscall_handler.rs`, `hints/syscalls.rs`) | none of its own; temporary segments of the VM | one method per Cairo 0 syscall | execution helper, VM memory |
| Contract storage (`starknet/starknet_storage.rs`, `crates/bin/prove_block/src/reexecute.rs`) | previous tree or RPC client, `ongoing_storage_changes` | `read`, `write`, `compute_commitment` | Patricia tree, RPC |
| Patricia tree (`starkware_utils/commitment_tree/`) | a root and a fact storage | `get_leaves`, `update`, `get_diff_between_trees` | storage back end |
| OS hints (`hints/`) | VM scopes | one function per hint of the OS | all of the above |
| Patricia hints (`hints/patricia.rs`, `hints/state.rs`, `patricia_guess_descents.rs`) | preimage, descent map, a scope per level of the walk | guess the descents of an update, answer at each node | Patricia tree, proofs |
| Shared state (`starknet/business_logic/fact_state/`) | roots of contract and class tries | `apply_state_updates` | Patricia tree |
| Storage back ends (`storage/`) | key-value maps | `set_value`, `get_value` | |
| OS output, KZG (`io/output.rs`, `hints/output.rs`, `hints/kzg.rs`) | output segment | page layout, parsing | VM memory |
| `prove_block` (`crates/bin/prove_block`) | the inputs of the OS as they are collected: transactions, class dictionaries, compiled classes, contracts | convert transactions, collect classes from traces and state diff, run the OS | RPC client, re-execution, everything above |
| RPC client (`crates/rpc-client`) | none | fetch proofs, `verify_proof` | |
| Re-execution (`crates/rpc-replay`) | none | convert transactions for blockifier, read remote state | RPC client |
| Class hashing, block context, SHARP client, tools | none | conversions, copies, HTTP | |

### What is hard here

* *Order.* The OS executes a call in two passes: it runs the code of the call to
  its end, answering each syscall on the spot, and only then works off the
  syscalls, entering the called contracts. blockifier executed depth first in
  one pass. The helper bridges the two orders with one pre-order iterator of
  calls and three iterators per call, and nothing but assertions ties them
  together.
* *Caches.* Storage is served from prefetched leaves, from a cache of earlier
  reads and writes, and from the tree or a remote node. One syscall
  (`get_block_hash`) reads it out of order.
* *Two descriptions of one layout.* The compiler of the contract and the handler
  each know the shape of requests and responses; VM memory is write-once, so a
  slip is found only at the next syscall or at the end of the entry point.
* *Tree shapes.* A Patricia update merges and splits edges; the interesting
  cases are combinations of shapes.
* *Temporary segments.* Cairo 0 code receives return data before the callee has
  run; the segment it is in is given its place in a later pass.
* *A node that remembers too little.* `prove_block` sees the state before and
  after the block, never in between: classes declared, used and replaced within
  the block must be pieced together from traces and the state diff.
* *Proofs with gaps.* A proof of absence ends at the edge it runs into, but the
  OS's update of a tree opens the node below that edge when the leaf beside it
  goes away.
* *Failure.* A constructor or a call fails, gas runs out, a remote read or a
  storage write fails in the middle.

There is no concurrency between tasks: a run is one VM, and the `RwLock`s of the
wrappers are never contended. `PROJECT.json` lists the hazards one by one at the
lines where they bite, with the properties that cover them.

### What makes each component correct

Helper: no assertion ever fails, the replayed call is the executed one, every
answer is the recorded one, the replay ends. Syscall handler: pointers in step,
handles keep their meaning, gas only decreases, only refused requests stop the
run. Storage: a plain map behind its caches; dicts equal to the state diff;
commitments to the final state. Tree: canonical roots, well-formed facts,
readable at all times, complete facts, differences that miss no change. Deprecated handler:
every guess of the first pass is confirmed in the second. Patricia hints: maximal
descents, every node a hint opens is in the preimage, the two walks agree. Proofs:
paired with their keys, no gaps. `prove_block`: the OS reads of a transaction what
the network and blockifier executed, and finds every class it runs where it looks.

## 2. Modules

| Module | Models | Extends / uses |
|---|---|---|
| `ExecutionHelper` | the helper's iterators and operations | |
| `Replay` | the OS program driving the helper through hints, with the call, deploy and read syscalls of both handlers | `ExecutionHelper` |
| `ReplayMC` | recorded blocks for TLC | `Replay` |
| `ReplayProofs` | proofs | `Replay` |
| `ContractStorage` | both implementations of `PerContractStorage`, the storage hints, the two passes of the OS | instantiates `StorageMap` |
| `StorageMap` | what a storage promises: a map | |
| `ContractStorageMC` | the previous trees for TLC | `ContractStorage` |
| `ContractStorageProofs` | proofs | `ContractStorage` |
| `PatriciaNodes` | nodes, virtual edges, reading and comparing trees | |
| `PatriciaTree` | the update of a tree, with its storage | `PatriciaNodes` |
| `PatriciaTreeMC` | `get_leaves` as the code recurs, for TLC | `PatriciaTree` |
| `PatriciaNodesProofs` | induction over the naturals, proofs about nodes and reference trees | `PatriciaNodes` |
| `PatriciaTreeProofs` | proofs | `PatriciaTree`, `PatriciaNodesProofs` |
| `StorageProofs` | the endpoint's proofs, `verify_proof`, merging, additional keys, commitment facts | `PatriciaNodes` |
| `PatriciaHints` | descents and the hints of the OS's two walks over a tree, on fetched proofs | `StorageProofs` |
| `PatriciaHintsProofs` | proofs | `PatriciaHints`, `PatriciaNodesProofs` |
| `SyscallHandler` | the Cairo 1 syscall handler and an entry point that uses it | |
| `SyscallHandlerProofs` | proofs | `SyscallHandler` |
| `DeprecatedSyscallHandler` | the Cairo 0 syscall handler, its hints, and both passes of the OS over an entry point | |
| `DeprecatedSyscallHandlerProofs` | proofs | `DeprecatedSyscallHandler` |
| `Transactions` | a transaction as the node gives it, as the OS's hints and as blockifier get it | |
| `ProveBlock` | the network sequencing a block, `prove_block` collecting its inputs, the OS running on them | `Transactions` |
| `ProveBlockProofs` | proofs, also those about `Transactions` | `ProveBlock` |
| `ProveBlockMC` | kinds of transactions in longer blocks, for TLC | `ProveBlock` |

### ExecutionHelper and Replay

A Rust `IntoIter` is the sequence of the items it still holds. A failing
`assert!`, `unwrap` or `expect` sets `status` to `"panicked"`, a hint error to
`"hint_error"`; both end the run. `gen_call_topology` is the recursive function
`preorder` (a function, not an operator, so that it can be proved about).
`gen_call_iterator`, `enter_call` and the others are named as in the source;
`skip_tx` and `skip_call`, which are two calls one after the other in one hint,
are one action.

`Replay` adds the OS, which is not in this repository: a stack of frames
(`os_frames`), each the calls still to execute. Entering a call runs its code
(`os_call`), which asks for its recorded inner calls (`os_pending`) and reads
(`os_reads`) in any interleaving; leaving it pushes its inner calls as a new
frame. What blockifier records is an assumption about the constants
(`RecordedTransactions`, `RecordedCalls`): only a DEPLOY_ACCOUNT executes a
constructor at top level, a reverted execution is not recorded, skipped
transactions and calls recorded nothing. That Cairo 0 code does not survive a
failed inner call and that constructors succeed is *not* assumed by the
specification, but by the theorems (section 4), and the second is dropped by the
run `replay_failed_deploy`.

### ContractStorage and StorageMap

`actual` is the storage of the recorded execution, advancing in program order.
`code`/`issued` is the first pass of the OS over a call, `todo` the second. A
tree stands for the map of its leaves, and its root for the tree (hashing is
injective). `RpcBacked` selects the implementation: the local tree prefetches
any set of keys; remote reads may fail whenever they are needed. `squashed` is
the OS's storage dict of a contract reduced to first and last value;
`DictUpdate` fails as squashing would. The slot of the old block is assumed
empty in the previous tree (`StorageAssumption`): the OS enters it into the dict
with previous value 0, and each block number is written once.

`ImplementsMap` instantiates `StorageMap` with `store` the value `read` would
return for every key.

### PatriciaTree

A hash is the node it is the hash of; storage is the set of hashes it holds
facts for. The operators carry the names of the Rust functions: the virtual node
triples of `virtual_patricia_node.rs`, the calculation nodes of
`virtual_calculation_node.rs`, `build_update_tree`, `update_necessary`. An
update is a sequence of actions (`Update`, `Visit` per round of
`traverse_tree`, `EndTraversal`, `WriteFactNodes`, `Commit`), so that a refused
write leaves a storage half written, from which `Retry` goes on.
`ReferenceRoot` is the definition to compare with, taken from
`compute_patricia_from_leaves_for_test`.

Where the code recurs over a tree or loops until nothing changes, the operators
go layer by layer, or round by round, as a function of the natural numbers
(`UpdateLayers`, `DiffLayers`, `ReferenceLayers`, `Merges`; in the modules below
`ProofSteps`, `VerifyNodes`, `Stretches`, `Calls`): such a function can be proved
about, and a round in which the code has stopped changes nothing. A calculation
carries what `full_calculate` will make of it. `get_leaves` alone is kept as the
code recurs, in `PatriciaTreeMC`.

A difference of trees keeps its path in a `usize` that `<< 1` shifts once per level
(`binary_fact_tree_node.rs:126`, `:131`); `usize` takes it modulo `Pow2[USIZE_BITS]`.
The trees in use are 251 high and the `usize` 64 bits wide, so `patricia_deep`
has paths of 2 bits in trees of height 3.

### StorageProofs and PatriciaHints

A proof is the sequence of nodes from the root towards a key (`ProofPath`, the
endpoint). `fetch_storage_proof_for_contract` asks in chunks of `MAX_KEYS`,
`verify_proof` compares bits and reports the height at which an absent key leaves
the tree, `get_key_following_edge` makes the key whose proof opens that edge, and
`format_commitment_facts` turns nodes into a preimage (a function from hash to
tuple: length 2 for a binary node, 3 for an edge). `mode` tells the three trees
apart:
 - `"State"`, the storage of a contract, with additional keys. `deployed` and `exists`
   say whether the contract has data in the previous block and in the block; without
   data the endpoint's answer has no `contract_data`, which nothing minds before
   `compute_commitment`;
 - `"Class"`, the class tree: no additional keys, and its roots are those of the first
   proof, `class_proofs[0]`;
 - `"Contracts"`, the tree of contracts: the nodes are those of `contract_proof`, which
   comes with the proof of each contract accessed, without additional keys and without
   being verified; its root is the hash of `contract_proof[0]` (`lib.rs:306`).

The keys asked for are those of the modified leaves, in any order. That
`get_all_accessed_keys` finds them by recursion over the call infos is assumed, not
modelled; in the tree of contracts every contract accessed counts as modified, if
only by the value it had.

`PatriciaHints` walks the previous and then the new tree, one action per kind of
node: `WalkLeaf`, `LoadEdge`, `WalkBinary`, `WalkEdge`, `WalkEmpty`, and
`WalkDescent` where the descent map has an entry. Each action is one round of the
Cairo code, with every hint of that round; the Cairo code is external and driven
as the hints expect. `scopes` is the stack of VM scopes with the `NODE` variable,
`siblings` what the first walk wrote and the second must agree with. A lookup that
is not in the preimage, a scope whose node is `None` and a panic of `prove_block`
set `failure`.

### SyscallHandler

Cells of VM memory are integers or pointers, and the syscall segment is a
function of the cells written so far; writing another value to a cell is an
error, as in the VM. The entry point lays out a request (`AskAny`) with the
fields its compiler knows (`RequestLayout`), the handler reads the cells
`read_request` reads (`ReadLayout`), executes, and writes a response; the entry
point steps over what it expects (`ResponseSize`). `handles` remembers what
each pointer handed out was handed out for. Gas counters are numbers below
`GasModulus`, which stands for 2^64, and subtraction wraps around. The costs are
those of `execution/constants.rs`. Curve points are numbers, with
addition and multiplication modulo 3; a SHA-256 state is the number of blocks
compressed into it. A recorded inner call is taken to have consumed none or all
of the gas it was given, never more: that is blockifier's accounting.

### DeprecatedSyscallHandler

An entry point has a script of syscalls, and its recording follows from the
script. In the first pass (`pass = "code"`) it lays out requests in its segment
and the hint of each syscall writes the response at `response_offset`; in the
second (`pass = "os"`) the OS walks over the segment by the selectors it finds,
enters inner calls (`ExecuteCall`), and compares each response with the true one.
`temporary` holds the segments handed out, `relocation_rules` where they will be
moved. A refusal of any side sets `status` (`syscall_error`, `unknown_memory`,
`inconsistent_memory`, `refused`, `panicked`). What is external: the OS program,
the layout of requests, the VM's write-once memory.

`start_tx_validate_declare_execution_context` is modelled as it is: it passes the
address of the cell that holds the pointer to the `TxInfo`
(`hints/execute_transactions.rs:42`), where the other hints follow the pointer
(`hints/execution.rs:885`). `NothingIsRefused` names this as its one exception: a
declaration whose account asks for the transaction's info or signature.

### Transactions and ProveBlock

The value of a field `f` of transaction `id` is `<<f, id>>`, so that a field taken
from the wrong place is seen. `RpcFields` are the fields of each type and version
in the protocol; `..._to_internal_tx` and the blockifier conversions are written
field by field as in the source; `assert_transaction_hash` is the OS's hash over
what the hints gave it. `Missing` is a `None` that a hint refuses. `IsReplayable`
leaves out what the conversions do not implement, and an L1 handler that consumed
L1 gas and data gas at once, for which `paid_fee_on_l1` is `unreachable!`.

In `ProveBlock` the network first sequences any block (`Sequence...`), then
`prove_block` works in the order of its code: conversion, the three loops of
`state_utils.rs` (each in any order of its hash set), `format_declared_classes`,
re-execution, the contracts blockifier touched; then the OS runs transaction by
transaction. A class is found by the OS as deprecated by its class hash or else
through its dictionary of compiled class hashes (`Finds`). Compiling class `k`
gives `Casm(k)`, under the hash the network recorded. Blocks with a transaction
the conversion does not implement (the old `DEPLOY`) stop in `Stop("unimplemented")`.
`ProveBlockAssumption` says that 0 is not a class hash and that the block hash
contract is not one of the contracts transactions call.

## 3. Runs

| Run | Bounds | Shows |
|---|---|---|
| `replay` | all trees of a given family up to three levels deep, up to two inner calls per call, blocks of one or two transactions | `TypeOK`, `NeverAborts`, `ReplaysTheRunningCall`, `AnswersMatchQuestions`, `ReplayCompletes` |
| `storage` | two contracts (one without storage) and the block hash contract, two keys, two values, 3 syscalls | `HintsAgreeWithExecution`, `DictsAreTheStateDiff`, `BlockHashAnswersStayValid`, `CommitmentsMatchExecution`, refinement of `StorageMap` |
| `storage_rpc` | the same, 4 syscalls, remote reads that may fail | the same but for the commitments: a remote storage does not compare roots |
| `patricia` | height 2, all trees, updates of up to 4 leaves, writes may fail | `StoredFactsWellFormed`, `TreeStaysReadable`, `FrontierSplitsTree` |
| `patricia_deep` | height 3, all trees, updates of up to 2 leaves, a `usize` of 2 bits | `RootIsCanonical`, `LeavesAreRead`, `UpdateReturnsItsFacts`, `DiffFindsChanges` |
| `syscalls` | any 3 syscalls in 2 entry points, all selectors | `PointersInStep`, `AbortsOnlyOnRefusal`, `HandlesKeepTheirMeaning`, `ShaBlocksTile`, `GasOnlySpent` |
| `descents` | height 3, values 0 and 1, all three trees, previous ones of up to 3 leaves, updates of up to 2 leaves, requests of one key | `ProofsFollowKeys`, `HintsFindTheirNodes`, `DescentsAreMaximal`, `WalksAgree` |
| `deprecated_syscalls` | 2 transactions (declarations included), 2 syscalls per top-level and 1 per inner entry point, 3 entry points deep | `NothingIsRefused`, `AnswersInStep`, `TemporarySegmentsMoved` |
| `transactions` | three contracts (one deployed in the block), four classes (two declared in the block), 2 transactions of any kind or 3 of version 3 | `OneTransaction`, `ClassesAreFound`, `DeclarationsFindZero`, `DeploysAreAnswered`, `OsReachesTheBlock` |
| `replay_failed_deploy` | deployments that failed | violation of `NeverAborts` |
| `delegate_call` | one transaction, two syscalls | violation of `AnswersInStep` |
| `syscalls_out_of_gas` | 2 syscalls short of gas | violation of `OutOfGasAnswered` |

*Why the bounds are enough.* The replay's state is a stack: three levels give a
call with a caller and a callee, two inner calls a sibling before and after; the
theorems remove the bound. For storage, three syscalls reach a nested call
between an access and the next one to the same key, and a block hash asked for
before it and executed after it; again the theorems remove the bound. Height 3
is the least at which an edge of length two meets a binary node above and below.
For syscalls, two operations can produce two handles (on one curve or two) and a
third use one of them; entry points end and begin between any of them; the
theorems hold for any number. For
descents, height 3 has descents of length 2 and 3, at the root and below a
branch; chunks of one key make every request of two keys a merge. For the
deprecated handler, two syscalls are an inner call before or after anything else,
and depth 3 a call whose caller is itself between two syscalls; `DelegateL1Handler`
is left out of the run since its hint and its handler are those of
`LibraryCallL1Handler` but for the selector; the theorems hold for entry points of
any length, at any depth, and include it. For blocks, a class that is declared,
given to a contract and replaced again takes three transactions; the theorems hold
for blocks of any length.

*Exceptions stated in properties.* Three invariants name the cases in which the
modelled code fails, and the model has no others: `NothingIsRefused` (declarations,
above); `HintsFindTheirNodes` (below); `DeploysAreAnswered` (the deploy syscall of
Cairo 1 looks up the class its contract has at the *end* of the block, in a
dictionary with 0 for the classes of the block: `expect("No CASM")` panics for a
contract whose last class was declared in the block, and the answer is wrong when
the last class differs from the deployed one in having a constructor).

The cases of `HintsFindTheirNodes`, lines of `crates/bin/prove_block/src`:
 - a contract that is accessed and has no data at the block. For most contracts
   `get_class_hash_at` has failed before (`lib.rs:258`, an error returned); 0x0 and 0x1
   skip that call, and `expect` panics in `compute_commitment` (`reexecute.rs:151`).
   Contract 0x1 is asked for in every block (`rpc_utils.rs:123`), also in the first
   ones, which `lib.rs:150` admits;
 - a block that touches no class: `previous_class_proofs[0]` panics (`lib.rs:99`);
 - a tree of contracts that is empty in the previous block: `contract_proof[0]` panics
   (`lib.rs:306`);
 - a class or a contract that is new in the block and runs into an edge: nothing
   fetches the node below that edge, and `load_bottom` may not find it.

*Deadlock* is checked in the runs of `Replay`, `PatriciaHints`,
`DeprecatedSyscallHandler` and `ProveBlock`, where an idling action stands for the
end of the run. The other specifications stop where the code does (an
aborted run, a committed block, an update that is done), and the bounds stop them.

*Fairness.* `FairSpec` of `Replay` is weak fairness of the whole next-state
relation: the VM executes the OS without stopping. No choice between syscalls is
assumed fair; each step consumes something recorded.

*Out of gas in `syscalls`.* `ShortOfGas` names the operations that may be asked
for without enough gas. In `syscalls` it is `GetExecutionInfo`, whose request
has no fields, so that the early return of `run_handler` writes to the right
place; every other operation fails, which is the finding of
`syscalls_out_of_gas`.

## 4. Proofs

TLAPS checks the proofs with SMT (Z3), Zenon and LS4. The parts of the inductive
invariants were checked with TLC first.

**Replay** (`ReplayProofs`). For all recorded calls and blocks,
`ConstructorsSucceed` and `DeprecatedCallsSucceed` imply that `Spec` keeps
`TypeOK`, `NeverAborts`, `ReplaysTheRunningCall` and `AnswersMatchQuestions`.
That no assertion fails is not inductive: one must know what the iterators hold.
`IInv` adds
 - `CallIterInStep`: `call_iter` is the pre-order of the frames of the OS,
   innermost first, preceded by that of the running call's inner calls;
 - `HelperInStep`: the helper is in a transaction or call exactly when the OS is,
   with the same transactions left;
 - `CodeInStep`: the three iterators are the results, constructor addresses and
   reads of what the running code has still to ask for.

Each action has a lemma (`StartTxStep`, ..., `CallSyscallStep`). The proofs rest
on two unfolding equations, for `preorder` and for the constructor addresses of a
list; they are assumptions of `ExecutionHelper` about the recorded data
(`TopologyUnfolds`, `DeployedUnfolds`), since the recursion over a data structure
is beyond the prover. They say only that the call trees are finite; TLC evaluates
them on every recorded call of its instance.

**Contract storage** (`ContractStorageProofs`). For all sets of addresses, keys
and values, any number of syscalls and both implementations, `Spec` keeps all
invariants of the runs and implements `StorageMap`. The invariants of the runs do
not mention the cache; `IInv` adds
 - `StorageInStep`: the cache over the previous tree is the storage of the
   execution at the same point of the program;
 - `DictsCached`, `PendingHashesCached`: what the dicts mention, or a pending
   `get_block_hash` has read, has been through the cache, and so is covered by the
   commitment;
 - `UntouchedAtStart`, `IdleAtStart`: before the old block is written, its slot is
   empty and nothing is pending.

`InsertLemma` and `DictLemma` say once what an insertion and a dict update do; the
refinement (`MapStep`) shows that a read or a write is the step of the map and
every other action leaves the map alone.

**Syscall handler** (`SyscallHandlerProofs`). For any number of syscalls and entry
points, any gas at the start and any width of the gas counter, `GasSuffices` and
`Spec` imply `TypeOK`, `PointersInStep`, `AbortsOnlyOnRefusal`,
`HandlesKeepTheirMeaning`, `ShaBlocksTile` and the action property `GasOnlySpent`.
`GasSuffices` allows only `GetExecutionInfo` to be short of gas: for the other
operations the claim is false (section 5). A syscall has three stations: the
request is laid out, the handler has answered, the entry point has stepped over
the response. `PointersInStep` speaks of the time between syscalls only, so `IInv`
adds
 - `RequestThere`: at the first station the cells from the handler's pointer on
   are exactly the request, laid out as the handler will read it;
 - `AnswerThere`: at the second, the segment ends where the entry point will
   continue after the response (or the failure) it finds, with no more gas than it
   had, and a pointer in the response leads to what was asked for;
 - `EmptyOutside`, `SecpInStep`, `ShaInStep`: segments are empty outside of entry
   points; a curve with points has its segment; there is one SHA-256 state for each
   block of 32 cells before the segment's pointer;
 - `HandlesLead`, `CoordinatesMeant`: every pointer handed out leads to what it was
   handed out for, and the coordinates of a point are those of the point meant.

That the helper only grows (`Grows`) is the reason why a handle keeps its meaning,
and it is proved once for all outcomes (`HelperStep`). Which handler an operation
has enters the proof through its layouts only (`LayoutLemma`, `FieldsLemma`,
`CellsLemma`), so that one argument covers all selectors.

**Deprecated syscall handler** (`DeprecatedSyscallHandlerProofs`). For entry points
of any length, at any depth and in any number of transactions, `NoDelegateCall`
implies that `Spec` keeps `NothingIsRefused`, `AnswersInStep` and
`TemporarySegmentsMoved`. The hypothesis is that no entry point uses
`delegate_call`, whose hint leaves the recorded result behind (section 5). A guess
of the first pass and its check in the second are far apart: other entry points
run in between and set and clear the helper's pointers and iterators. They meet in
the script of the entry point: syscall number `j + 1` begins `At(script, j)` cells
into the segment, and its answer is the one that the first `j` syscalls leave in
the recording (`MeantCells`, `MeantResult`). `IInv` adds to `NothingIsRefused`
 - `TxInStep`: which of the two kinds of pointer to the transaction's info is set,
   and that there is one while entry points run;
 - `FramesInStep`: of every entry point on the stack, the syscalls asked for fill the
   segment with no gap, the OS has executed a prefix of them, and each response is
   the one meant; a response to a call points to a temporary segment with what the
   call returns;
 - `CallsInStep`: a caller has stopped before the syscall that made the call, and the
   callee returns what that syscall should;
 - `CodeInStep`: the iterators hold exactly what the running code has still to ask
   for, and `call_info` is its call;
 - `SegmentsInStep`: a rule moves a segment to one with its contents, and a segment
   without a rule belongs to just one call that the OS has still to execute. With an
   empty stack nothing is owed, which is `TemporarySegmentsMoved`; that two calls
   never share a segment is why `add_relocation_rule` never finds a rule there.

How often a kind of syscall occurs before a position is counted by `Cardinality`,
and the positions follow from the counts (`CountLemma`, `AtLemma`), so no induction
over scripts is needed.

**Transactions** (in `ProveBlockProofs`). `TransactionArrives`: of every transaction
of every type and version that `rpc-replay` accepts, blockifier gets the fields it
needs (and an L1 handler a fee), every hint of the OS finds its field, and the hash
the OS computes from the answers is the hash of the transaction. It is proved by
type; the lemmas say once what a conversion carries over, which optional fields it
leaves out, and what version 3 adds.

**prove_block** (`ProveBlockProofs`). For any contracts and classes, and blocks of
any length of transactions of all kinds, `Spec` keeps `OneTransaction`,
`ClassesAreFound`, `DeclarationsFindZero`, `DeploysAreAnswered` and
`OsReachesTheBlock`. (As in the model, a transaction takes at most one inner step
besides the ones of its kind.) The node knows a contract's class before and after
the block; the OS runs it at every place in between. `ClassBefore(m, n, c, k)`
says, of the block alone, that contract `c` has class `k` before step `n` of
transaction `m`: the last earlier step that gives `c` a class gives it `k`. The
class is unique (`ClassUnique`), and moves with one step or one transaction as it
should (`ClassKept`, `ClassGiven`, `ClassCarried`). `IInv` has four parts:
 - `NetworkInv`: the state of the network is the one at the end of its block, and
   each step of the block was taken with the class of its place, declared before it;
 - `InputsInv`: after each loop of `state_utils.rs`, `format_declared_classes` and
   the re-execution, the inputs hold what the steps treated so far need: every
   class a step runs is among the classes, the dictionary has 0 for the Cairo 1
   classes declared in the block and the compiled hash for the others;
 - `OsInv`: the OS's dictionaries of classes are those of the place it has reached
   (`ClassesInStep`, `CompiledInStep`), and the transaction in scope is the one of
   the block (`TxInScope`);
 - `Failures`: a recorded failure is one that `DeploysAreAnswered` names. This is
   where the invariants of the run follow: an OS at a place of the block looks up
   the class of that place, and `InputsInv` has it.

**Induction.** The library's induction theorems take an operator as a parameter,
which the installed provers cannot instantiate. `NatSetInduction`
(`PatriciaNodesProofs`) states the principle for a *set* of numbers, and follows
from the well-foundedness of `<` on the naturals; with it a function of the
naturals is unfolded once (`ProofStepsDef`, `MergedProofsDef`, ...) and then
reasoned about round by round. `2^n` has no meaning for the provers, so the model
has its own table `Pow2`.

**Patricia tree** (`PatriciaNodesProofs`, `PatriciaTreeProofs`). For trees of any
height, any values, updates of any number of leaves and writes refused anywhere,
`Spec` keeps all invariants of the two runs but `LeavesAreRead`, and the action
properties `DiffFindsChanges` and `UpdateReturnsItsFacts`, for a `usize` of any width;
`DiffIsExactInLowTrees` adds that each changed leaf is reported under its own index
where the tree is no higher than the `usize` is wide. The reference is the tree
itself: `Ref(tree, h, p)` is the subtree of height `h` at place `p`, and every
virtual node or calculation is compared with it. `PatriciaInv` has three parts:
 - `StorageInv`: the root is the reference root of the leaves, all of its facts are
   stored, and all stored facts are well formed. Storage only grows, so a refused
   write leaves this alone;
 - `FrontierInv`: a queued node is the node of the old tree at its index with the
   part of the update below it, a settled calculation computes the subtree of the
   *new* tree at its index from facts that are stored or its own, no two settled
   calculations are siblings, and each leaf is under exactly one of them all;
 - `WriteInv`: the calculation left at the end is that of the root, and its facts
   are stored before the root moves.

`combine` on two subtrees of the new tree gives the subtree above them, whatever
their shapes (`CombineComputes` and the lemmas on edges); `update_necessary` keeps
the frontier a split of the leaves while it merges. `FactsInv` adds what the facts
returned hold: each node on the way to a modified leaf has been opened or is still
under a queued node (`ReadInv`), and a settled calculation carries the new nodes
above the modified leaves under it (`AllCarry`).

**Proofs from the endpoint** (`PatriciaHintsProofs`). `ProofsAlwaysFollowKeys`: for
trees of any height, any number of keys, chunks of any size. `InputsInv` and
`FetchedInv` say that what is fetched is `TreeProof` of the two trees; the theorem
rests on what the operators compute. Each round of the endpoint is at the node of
the reference tree above the key (`AllOnPath`); `verify_proof` accepts such a proof,
and reports the height below the edge at which an absent key leaves the tree
(`VerifyPath`); the key made from that edge has the same path down to the edge and
then the node below it (`FollowingKeyPath`), so that no bottom of an edge is missing
(`GapsAreFilled`); merging chunks gives the proofs of all the keys in their order
(`FetchIs`). The proof found a mistake in an earlier form of `ProofsFollowKeys`,
which asked the same of the additional keys: from height 4 on, such a key may run
into an edge of its own, whose bottom is not fetched and not needed. At height 3
there is no room for that.

**The guess and the two walks** (`PatriciaHintsProofs`). `DescentsAlwaysMaximal`,
`HintsAlwaysFindNodes` and `WalksAlwaysAgree`, for the same trees and requests. None
of the three is inductive: the siblings of the second walk agree with those of the
first only because both walks go the same way. The inductive invariant is
`PhaseInv /\ WalkInv`.
 - `PhaseInv`: the inputs stay (`InputsInv`, `AskedInv`), what is fetched in each
   phase is `TreeProof` of its tree (`FetchInv`), and the descent map is the one the
   leaves determine (`DescentsInv`). From it follows what the preimage holds: every
   node on the way to a modified leaf of both trees that a hint looks up (`Knows`),
   and in a contract's tree also the bottom of every edge on such a way
   (`KnowsBottoms`).
 - The guess. Each call of `get_descents` is at the root or below a place where
   leaves of the previous tree or of the update part, and returns the stretch down
   to the next such place; `DescentMap` says so of the result, and only one function
   satisfies it (`DescentMapUnique`).
 - The walks. `OrderWalk` is a walk that sees only the places with a modified
   leaf below them, the descents, and the hashes beside its way, where nothing is
   modified and both trees are the same (`BesideSame`). `OrderInv` says that the leaves it has come to, followed by those
   below the places on its stack, are the modified leaves in the order of the keys.
   `FirstInv` and `SecondInv` say that the walk through the previous tree and the one
   through the new tree are both at some step of this one order: the scopes are the
   nodes of their own tree at the places on its stack, and the first walk has written
   just the siblings of that order. So the second walk, `at` the same step, finds
   what it compares with.
 - `FailureInv` adds the failures that `HintsFindTheirNodes` allows; `PreimageStops`
   says what stops the run before the preimage is set (no data, no first node), and
   each action after it has a lemma that no other lookup of its hints fails.

**Only model-checked.** `ReplayCompletes` (liveness, beyond this prover);
`LeavesAreRead`, whose operator recurs over a tree; what `delegate_call` does to an
entry point (a violation, section 5).

## 5. Findings

* A failed deployment leaves its address in `deployed_contracts_iter`
  (`execution/syscall_handler.rs:282`): `exit_call` panics, or the next successful
  deployment gets the wrong address. It needs a caller that survives the failure
  and a failed constructor call among the recorded `inner_calls`.
* The hint of `delegate_call` runs `storage_write` (`hints/syscalls.rs:64`): the
  response is never written, and the recorded result is left for the next call.
* The out-of-gas branch of `run_handler` writes its response over the request
  (`execution/syscall_handler_utils.rs:315`), and the out-of-gas error of
  `KeccakHandler` becomes a hint error.

## 6. Not modelled

The Cairo VM, the OS program, blockifier, the Sierra compiler and the RPC node are
external; their part is modelled as far as the code relies on it. Left out:

* HTTP (RPC transport, SHARP), conversions between class formats, hashing, the
  arithmetic of KZG and of the curves, the derive macro, the tools: no control, or
  out of TLC's reach.
* Block context, OS output and header: values copied in a straight line from
  configuration, RPC or memory.
* The shared state (`fact_state/`) and the composite storage: only the integration
  tests start from a local state; `prove_block` does not use them. Their updates
  are those of `PatriciaTree`.
* The loop of `hints/state.rs` over contracts: `PatriciaHints` has one tree.
* The recursion of `get_all_accessed_keys` (`prove_block/src/utils.rs`) over the call
  infos of a block.
* `create_class_info` (`rpc-replay/src/transactions.rs`): the class that goes to
  blockifier with a declaration is compiled from what the endpoint returns, and no
  field of the transaction depends on it.
* The genesis block, whose previous block number underflows (`prove_block/src/lib.rs:125`),
  and a Sierra compiler other than the network's (`state_utils.rs:90`).
* `get_diff_between_trees` is documented to return "a list of (key, old_fact,
  new_fact)" (`binary_fact_tree_node.rs:228`). Its key is a `usize`, so in a tree higher
  than 64, and those in use are 251 high, two changed leaves may have one key;
  `DiffFindsChanges` states what it does return. Only tests call it
  (`virtual_patricia_node.rs:601`, `:615`), with small indices.
* The queue of `traverse_tree` is breadth first although its documentation speaks
  of a depth-first search (`merkle_tree/traverse_tree.rs:23`); `PatriciaTree` has
  the queue as it is, and no property bounds its length.

## 7. Plan

Done: all modules above; every safety property of the passing runs is proved, but
for `LeavesAreRead`. Left: what is only model-checked (section 4).
